-------------------------- MODULE SupervisorProofs --------------------------
(***************************************************************************)
(* For any number of requests and lines, any flush limit and any process:  *)
(* the state of a run is sound (SupervisorInv), answers meet their request *)
(* and the verdict is the truth.  SupervisorInv is inductive; the two      *)
(* others follow from its parts OneQuestion and LastWord, which say where  *)
(* a question and the last word of the process can be while the pipes, the *)
(* operators and the timers race.                                          *)
(***************************************************************************)
EXTENDS Supervisor, SequenceTheorems, TLAPS

\* What one more element makes of a sequence.
LEMMA AppendFacts ==
  ASSUME NEW S, NEW s \in Seq(S), NEW e \in S
  PROVE  /\ Append(s, e) \in Seq(S) /\ Len(Append(s, e)) = Len(s) + 1 /\ Len(s) \in Nat
         /\ DOMAIN Append(s, e) = 1 .. Len(s) + 1 /\ DOMAIN s = 1 .. Len(s)
         /\ \A i \in 1 .. Len(s) : Append(s, e)[i] = s[i]
         /\ Append(s, e)[Len(s) + 1] = e
  BY AppendProperties, LenProperties

\* What is left without the first element.
LEMMA TailFacts ==
  ASSUME NEW S, NEW s \in Seq(S), s # <<>>
  PROVE  /\ Tail(s) \in Seq(S) /\ Len(Tail(s)) = Len(s) - 1 /\ Len(s) \in Nat \ {0}
         /\ DOMAIN s = 1 .. Len(s) /\ DOMAIN Tail(s) = 1 .. Len(s) - 1
         /\ \A i \in 1 .. Len(s) - 1 : Tail(s)[i] = s[i + 1]
         /\ Head(s) = s[1] /\ Head(s) \in S
  BY HeadTailProperties, LenProperties, EmptySeq

\* Initially nothing has been said.
LEMMA InitInv == Init => SupervisorInv
<1> SUFFICES ASSUME Init PROVE SupervisorInv
  OBVIOUS
<1>1. proc \in Processes /\ run \in Runs
  BY BoundsAssumption DEF Init, Processes, Runs, NewRun, Statuses, Phases, None
<1>2. TypeOK
  BY <1>1, BoundsAssumption DEF Init, TypeOK, NewRun
<1>3. EventLog /\ SecretsScrubbed
  BY DEF Init, EventLog, SecretsScrubbed, NewRun, Outcomes
<1>4. OneQuestion
  BY DEF Init, OneQuestion, Questions, NewRun, None
<1>5. SoftCancelAsksNothing /\ LastWord
  BY DEF Init, SoftCancelAsksNothing, LastWord, NewRun, None
<1> QED BY <1>2, <1>3, <1>4, <1>5 DEF SupervisorInv

-----------------------------------------------------------------------------
(* The process.                                                            *)

\* A line of the right form.
Fine(line) ==
    /\ line \in Lines
    /\ line.kind \in {"request", "invalid"} => line.req # None
    /\ line.kind = "phase" => line.says \in Phases
    /\ line.kind = "done" => line.says \in Statuses

\* A line without content.
LEMMA PlainFine ==
  ASSUME NEW k \in {"protocol", "toolong", "nocancel"}
  PROVE  /\ Fine(Plain(k)) /\ Plain(k).kind = k /\ Plain(k).secret = FALSE /\ Plain(k).req = 0
  BY BoundsAssumption DEF Fine, Plain, Line, Lines, None, Phases
\* A message.
LEMMA TextFine ==
  ASSUME NEW b \in BOOLEAN
  PROVE  /\ Fine(Text(b)) /\ Text(b).kind = "text" /\ Text(b).secret = b /\ Text(b).req = 0
  BY BoundsAssumption DEF Fine, Text, Line, Lines, None, Phases
\* The start or the end of a phase.
LEMMA PhaseFine ==
  ASSUME NEW p \in Phases
  PROVE  /\ Fine(Phase(p)) /\ Phase(p).kind = "phase" /\ Phase(p).secret = FALSE /\ Phase(p).req = 0
  BY BoundsAssumption DEF Fine, Phase, Line, Lines, None
\* A request, or the refusal of its answer.
LEMMA QuestionFine ==
  ASSUME NEW q \in Requests, NEW line \in {Ask(q), Invalid(q)}
  PROVE  /\ Fine(line) /\ line.kind \in {"request", "invalid"} /\ line.secret = FALSE /\ line.req = q
<1>1. q \in 0 .. MaxRequests /\ q # None
  BY BoundsAssumption DEF Requests, None
<1>2. CASE line = Ask(q)
  BY <1>1, <1>2 DEF Fine, Ask, Line, Lines, Phases
<1>3. CASE line = Invalid(q)
  BY <1>1, <1>3 DEF Fine, Invalid, Line, Lines, Phases
<1> QED BY <1>2, <1>3
\* The last word.
LEMMA DoneFine ==
  ASSUME NEW st \in Statuses
  PROVE  /\ Fine(Done(st)) /\ Done(st).kind = "done" /\ Done(st).secret = FALSE /\ Done(st).req = 0
         /\ Done(st).says = st
  BY BoundsAssumption DEF Fine, Done, Line, Lines, None

\* A step of the process leaves the run, its events and its verdict alone.
LEMMA ProcessRest ==
  ASSUME SupervisorInv, ProcUnchanged PROVE EventLog' /\ SoftCancelAsksNothing'
  BY DEF SupervisorInv, EventLog, SoftCancelAsksNothing, ProcUnchanged

\* The types after a step of the process that writes nothing or one line.
LEMMA ProcessTypeOK ==
  ASSUME SupervisorInv, ProcUnchanged, proc' \in Processes, inp' \in Seq(Replies),
         \/ UNCHANGED out
         \/ \E line : Fine(line) /\ out' = Append(out, line)
  PROVE  TypeOK'
<1>1. CASE UNCHANGED out
  BY <1>1 DEF SupervisorInv, TypeOK, ProcUnchanged
<1>2. ASSUME NEW line, Fine(line), out' = Append(out, line) PROVE TypeOK'
  <2>1. out \in Seq(Lines)
    BY DEF SupervisorInv, TypeOK
  <2>2. /\ out' \in Seq(Lines) /\ DOMAIN out' = 1 .. Len(out) + 1 /\ DOMAIN out = 1 .. Len(out)
        /\ \A i \in 1 .. Len(out) : out'[i] = out[i]
        /\ out'[Len(out) + 1] = line /\ Len(out) \in Nat
    BY <1>2, <2>1, AppendFacts DEF Fine
  <2>3. ASSUME NEW i \in DOMAIN out' PROVE Fine(out'[i])
    <3>1. CASE i = Len(out) + 1
      BY <1>2, <2>2, <3>1
    <3>2. CASE i # Len(out) + 1
      <4>1. i \in DOMAIN out /\ out'[i] = out[i]
        BY <2>2, <3>2
      <4>2. out[i] \in Lines
        BY <2>1, <4>1, ElementOfSeq
      <4> QED BY <4>1, <4>2 DEF Fine, SupervisorInv, TypeOK
    <3> QED BY <3>1, <3>2
  <2> QED BY <2>2, <2>3 DEF Fine, SupervisorInv, TypeOK, ProcUnchanged
<1> QED BY <1>1, <1>2

\* What a line adds to the pipe.
LEMMA Written ==
  ASSUME SupervisorInv, NEW line, Fine(line), out' = Append(out, line)
  PROVE  /\ Len(out) \in Nat /\ Len(out') = Len(out) + 1
         /\ DOMAIN out' = 1 .. Len(out) + 1 /\ DOMAIN out = 1 .. Len(out)
         /\ \A i \in 1 .. Len(out) : out'[i] = out[i]
         /\ out'[Len(out) + 1] = line /\ out' # <<>>
<1>1. out \in Seq(Lines)
  BY DEF SupervisorInv, TypeOK
<1>2. /\ Len(out) \in Nat /\ Len(out') = Len(out) + 1
      /\ DOMAIN out' = 1 .. Len(out) + 1 /\ DOMAIN out = 1 .. Len(out)
      /\ \A i \in 1 .. Len(out) : out'[i] = out[i]
      /\ out'[Len(out) + 1] = line
  BY <1>1, AppendFacts DEF Fine
<1> QED BY <1>2

\* A process that has not finished has said nothing of its end.
LEMMA NotDone ==
  ASSUME SupervisorInv, proc.st \notin {"finished", "ended"}
  PROVE  proc.said = "none" /\ \A i \in DOMAIN out : out[i].kind # "done"
<1>1. proc.said = "none"
  BY DEF SupervisorInv, LastWord
<1> QED BY <1>1 DEF SupervisorInv, LastWord, TypeOK, Statuses

\* The first line is the handshake, or breaks it.
LEMMA BeginInv == ASSUME SupervisorInv, Begin PROVE SupervisorInv'
<1> USE DEF SupervisorInv
<1>1. PICK line \in {Plain("protocol"), Text(FALSE)} : out' = Append(out, line)
  BY DEF Begin
<1>2. Fine(line) /\ line.kind \in {"protocol", "text"} /\ line.secret = FALSE /\ line.req = 0
  BY PlainFine, TextFine
<1>3. /\ ProcUnchanged /\ inp' = inp /\ proc \in Processes /\ proc.st = "new"
      /\ proc' = [proc EXCEPT !.st = "working"] /\ run' = run /\ outcome' = outcome
  BY DEF Begin, TypeOK, ProcUnchanged
<1>4. /\ proc' \in Processes /\ proc'.st = "working" /\ proc'.asks = proc.asks
      /\ proc'.knows = proc.knows /\ proc'.said = proc.said
  BY <1>3 DEF Processes
<1>5. out = <<>> /\ Len(out) = 0
  BY <1>3 DEF OneQuestion
<1>6. /\ DOMAIN out' = {1} /\ out'[1] = line /\ Len(out') = 1 /\ out' # <<>>
  BY <1>1, <1>2, <1>5, Written
<1>7. TypeOK'
  BY <1>1, <1>2, <1>3, <1>4, ProcessTypeOK DEF TypeOK
<1>8. SecretsScrubbed'
  BY <1>2, <1>3, <1>4, <1>6 DEF SecretsScrubbed, ProcUnchanged
<1>9. OneQuestion'
  BY <1>2, <1>3, <1>4, <1>6 DEF OneQuestion, Questions, TypeOK, Processes
<1>10. LastWord'
  BY <1>2, <1>3, <1>4, <1>5, <1>6 DEF LastWord
<1> QED BY <1>3, <1>7, <1>8, <1>9, <1>10, ProcessRest

\* A line of a process at work asks nothing and repeats a secret only if the
\* process has read one.
LEMMA SayInv == ASSUME SupervisorInv, Say PROVE SupervisorInv'
<1> USE DEF SupervisorInv
<1>1. PICK line \in {Text(proc.knows)} \cup {Phase(p) : p \in Phases}
                      \cup {Plain("toolong"), Plain("nocancel")} : out' = Append(out, line)
  BY DEF Say, Emit
<1>2. /\ Fine(line) /\ line.kind \in {"text", "phase", "toolong", "nocancel"}
      /\ line.secret => proc.knows
      /\ line.req = 0
  <2>1. proc.knows \in BOOLEAN
    BY DEF TypeOK, Processes
  <2> QED BY <2>1, PlainFine, TextFine, PhaseFine
<1>3. ProcUnchanged /\ inp' = inp /\ proc' = proc /\ proc.st = "working" /\ run' = run /\ outcome' = outcome
  BY DEF Say, ProcUnchanged
<1>4. /\ Len(out) \in Nat /\ Len(out') = Len(out) + 1
      /\ DOMAIN out' = 1 .. Len(out) + 1 /\ DOMAIN out = 1 .. Len(out)
      /\ \A i \in 1 .. Len(out) : out'[i] = out[i]
      /\ out'[Len(out) + 1] = line /\ out' # <<>>
  BY <1>1, <1>2, Written
<1>5. TypeOK'
  BY <1>1, <1>2, <1>3, ProcessTypeOK DEF TypeOK
<1>6. SecretsScrubbed'
  BY <1>2, <1>3, <1>4 DEF SecretsScrubbed, ProcUnchanged
<1>7. OneQuestion'
  BY <1>2, <1>3, <1>4 DEF OneQuestion, Questions, TypeOK, Processes
<1>8. LastWord'
  <2>1. \A i \in DOMAIN out : out[i].kind # "done"
    BY <1>3, NotDone
  <2> QED BY <1>2, <1>3, <1>4, <2>1 DEF LastWord
<1> QED BY <1>3, <1>5, <1>6, <1>7, <1>8, ProcessRest

\* A process at work has no question under way, so its next is the only one.
LEMMA AsksInv == ASSUME SupervisorInv, Asks PROVE SupervisorInv'
<1> USE DEF SupervisorInv
<1> DEFINE q == proc.asks + 1
           line == Ask(q)
<1>1. /\ ProcUnchanged /\ inp' = inp /\ proc \in Processes /\ proc.st = "working"
      /\ proc' = [proc EXCEPT !.st = "asking", !.asks = @ + 1] /\ run' = run /\ outcome' = outcome
      /\ out' = Append(out, line) /\ proc.asks < MaxRequests
  BY DEF Asks, Emit, TypeOK, ProcUnchanged
<1>2. q \in Requests /\ q \in 0 .. MaxRequests /\ proc.asks \in Nat
  BY <1>1, BoundsAssumption DEF Requests, Processes
<1>3. Fine(line) /\ line.kind \in {"request", "invalid"} /\ line.secret = FALSE /\ line.req = q
  BY <1>2, QuestionFine
<1>4. /\ proc' \in Processes /\ proc'.st = "asking" /\ proc'.asks = q
      /\ proc'.knows = proc.knows /\ proc'.said = proc.said
  BY <1>1, <1>2 DEF Processes
<1> HIDE DEF line, q
<1>5. /\ Len(out) \in Nat /\ Len(out') = Len(out) + 1
      /\ DOMAIN out' = 1 .. Len(out) + 1 /\ DOMAIN out = 1 .. Len(out)
      /\ \A i \in 1 .. Len(out) : out'[i] = out[i]
      /\ out'[Len(out) + 1] = line /\ out' # <<>>
  BY <1>1, <1>3, Written
<1>6. TypeOK'
  BY <1>1, <1>3, <1>4, ProcessTypeOK DEF TypeOK
<1>7. SecretsScrubbed'
  BY <1>1, <1>3, <1>4, <1>5 DEF SecretsScrubbed, ProcUnchanged
<1>8. OneQuestion'
  <2>1. inp' = <<>> /\ run'.pending = None /\ Questions = {}
    BY <1>1 DEF OneQuestion
  <2>2. Questions' = {Len(out) + 1}
    BY <1>3, <1>5, <2>1 DEF Questions
  <2>3. \A i \in DOMAIN out : out[i].req <= proc.asks
    BY DEF OneQuestion
  <2>4. \A i \in DOMAIN out' : out'[i].req <= q
    <3>1. ASSUME NEW i \in 1 .. Len(out) PROVE out'[i].req <= q
      <4>1. out[i] \in Lines
        BY ElementOfSeq DEF TypeOK
      <4>2. out[i].req \in Int /\ out[i].req <= proc.asks /\ out'[i] = out[i]
        BY <1>5, <2>3, <4>1 DEF Lines
      <4> QED BY <1>2, <4>2 DEF q
    <3> QED BY <1>2, <1>3, <1>5, <3>1
  <2>5. run'.pending <= q /\ run'.awaiting <= q
    BY <1>1, <1>2 DEF OneQuestion, TypeOK, Runs, q
  <2>6. ~(run'.pending # None /\ run'.awaiting # None)
    BY <2>1
  <2> QED BY <1>3, <1>4, <1>5, <2>1, <2>2, <2>4, <2>5, <2>6 DEF OneQuestion
<1>9. LastWord'
  <2>1. \A i \in DOMAIN out : out[i].kind # "done"
    BY <1>1, NotDone
  <2> QED BY <1>1, <1>3, <1>4, <1>5, <2>1 DEF LastWord
<1> QED BY <1>1, <1>6, <1>7, <1>8, <1>9, ProcessRest

\* The process goes through the first line of its input.
LEMMA ReplyRead ==
  ASSUME SupervisorInv, inp # <<>>, inp' = Tail(inp)
  PROVE  /\ inp' \in Seq(Replies) /\ Head(inp) = inp[1] /\ 1 \in DOMAIN inp
         /\ \A i \in DOMAIN inp' : \E j \in DOMAIN inp : inp'[i] = inp[j]
         /\ Len(inp) = 1 => inp' = <<>>
<1>1. inp \in Seq(Replies)
  BY DEF SupervisorInv, TypeOK
<1>2. /\ inp' \in Seq(Replies) /\ Head(inp) = inp[1] /\ 1 \in DOMAIN inp /\ Len(inp') = Len(inp) - 1
      /\ \A i \in DOMAIN inp' : i + 1 \in DOMAIN inp /\ inp'[i] = inp[i + 1]
  BY <1>1, TailFacts
<1>3. Len(inp) = 1 => inp' = <<>>
  BY <1>2, EmptySeq
<1> QED BY <1>2, <1>3

\* Reading an answer ends the question, or asks it again; reading a cancel
\* stops the process.
LEMMA ReadsReplyInv == ASSUME SupervisorInv, ReadsReply PROVE SupervisorInv'
<1> USE DEF SupervisorInv
<1> DEFINE reply == Head(inp)
<1>1. /\ ProcUnchanged /\ inp # <<>> /\ inp' = Tail(inp) /\ proc \in Processes /\ proc.st = "asking"
      /\ run' = run /\ outcome' = outcome
  BY DEF ReadsReply, TypeOK, ProcUnchanged
<1>2. /\ inp' = <<>> /\ Questions = {} /\ run.pending = None /\ inp' \in Seq(Replies)
      /\ reply = inp[1] /\ 1 \in DOMAIN inp /\ reply.req = proc.asks
      /\ proc.asks \in Nat
  BY <1>1, ReplyRead DEF OneQuestion, Processes
<1>3. proc.asks \in Requests
  <2>1. inp \in Seq(Replies)
    BY DEF TypeOK
  <2>2. inp[1] \in Replies
    BY <1>1, <2>1, TailFacts
  <2> QED BY <1>2, <2>2 DEF Replies
<1>4. \A i \in DOMAIN out : out[i].kind # "done"
  BY <1>1, NotDone
<1>5. CASE reply.answer = "cancel" /\ proc' = [proc EXCEPT !.st = "stopped"] /\ UNCHANGED out
  <2>1. /\ proc' \in Processes /\ proc'.st = "stopped" /\ proc'.asks = proc.asks
        /\ proc'.knows = proc.knows /\ proc'.said = proc.said
    BY <1>1, <1>5 DEF Processes
  <2>2. TypeOK'
    BY <1>1, <1>2, <1>5, <2>1, ProcessTypeOK
  <2>3. SecretsScrubbed'
    BY <1>1, <1>2, <1>5, <2>1 DEF SecretsScrubbed, ProcUnchanged
  <2>4. OneQuestion'
    BY <1>1, <1>2, <1>5, <2>1 DEF OneQuestion
  <2>5. LastWord'
    BY <1>1, <1>5, <2>1 DEF LastWord
  <2> QED BY <1>1, <2>2, <2>3, <2>4, <2>5, ProcessRest
<1>6. ASSUME reply.answer = "values", proc' = [proc EXCEPT !.st = "working", !.knows = TRUE], UNCHANGED out
      PROVE  SupervisorInv'
  <2>1. /\ proc' \in Processes /\ proc'.st = "working" /\ proc'.asks = proc.asks
        /\ proc'.knows = TRUE /\ proc'.said = proc.said
    BY <1>1, <1>6 DEF Processes
  <2>2. TypeOK'
    BY <1>1, <1>2, <1>6, <2>1, ProcessTypeOK
  <2>3. SecretsScrubbed'
    BY <1>1, <1>2, <1>6, <2>1 DEF SecretsScrubbed, ProcUnchanged
  <2>4. OneQuestion'
    BY <1>1, <1>2, <1>6, <2>1 DEF OneQuestion, Questions
  <2>5. LastWord'
    BY <1>1, <1>6, <2>1 DEF LastWord
  <2> QED BY <1>1, <2>2, <2>3, <2>4, <2>5, ProcessRest
<1>7. ASSUME reply.answer = "values", proc' = [proc EXCEPT !.knows = TRUE], Emit(Invalid(proc.asks))
      PROVE  SupervisorInv'
  <2> DEFINE line == Invalid(proc.asks)
  <2>1. Fine(line) /\ line.kind \in {"request", "invalid"} /\ line.secret = FALSE /\ line.req = proc.asks
    BY <1>3, QuestionFine
  <2>2. out' = Append(out, line)
    BY <1>7 DEF Emit
  <2>3. /\ proc' \in Processes /\ proc'.st = "asking" /\ proc'.asks = proc.asks
        /\ proc'.knows = TRUE /\ proc'.said = proc.said
    BY <1>1, <1>7 DEF Processes
  <2> HIDE DEF line
  <2>4. /\ Len(out) \in Nat /\ Len(out') = Len(out) + 1
        /\ DOMAIN out' = 1 .. Len(out) + 1 /\ DOMAIN out = 1 .. Len(out)
        /\ \A i \in 1 .. Len(out) : out'[i] = out[i]
        /\ out'[Len(out) + 1] = line /\ out' # <<>>
    BY <2>1, <2>2, Written
  <2>5. TypeOK'
    BY <1>1, <1>2, <2>1, <2>2, <2>3, ProcessTypeOK
  <2>6. SecretsScrubbed'
    BY <1>1, <1>2, <1>7, <2>1, <2>3, <2>4 DEF SecretsScrubbed, ProcUnchanged
  <2>7. OneQuestion'
    <3>1. Questions' = {Len(out) + 1}
      BY <1>2, <2>1, <2>4 DEF Questions
    <3>2. \A i \in DOMAIN out' : out'[i].req <= proc.asks
      BY <1>2, <2>1, <2>4 DEF OneQuestion
    <3> QED BY <1>1, <1>2, <2>1, <2>3, <2>4, <3>1, <3>2 DEF OneQuestion
  <2>8. LastWord'
    BY <1>1, <1>4, <2>1, <2>3, <2>4 DEF LastWord
  <2> QED BY <1>1, <2>5, <2>6, <2>7, <2>8, ProcessRest
<1> QED BY <1>2, <1>5, <1>6, <1>7 DEF ReadsReply

\* An interrupted process goes on to its end; a question under way is left.
LEMMA InterruptedInv == ASSUME SupervisorInv, Interrupted \/ Checks PROVE SupervisorInv'
<1> USE DEF SupervisorInv
<1>1. /\ ProcUnchanged /\ UNCHANGED <<inp, out>> /\ proc \in Processes
      /\ proc.st \in {"working", "asking"} /\ run' = run /\ outcome' = outcome
  BY DEF Interrupted, Checks, TypeOK, ProcUnchanged
<1>2. /\ proc' \in Processes /\ proc'.st \in {"working", "stopped"}
      /\ proc'.st = "working" => proc.st = "working"
      /\ proc'.asks = proc.asks /\ proc'.knows = proc.knows /\ proc'.said = proc.said
  <2>1. CASE Interrupted
    BY <1>1, <2>1 DEF Interrupted, Processes
  <2>2. CASE Checks
    BY <1>1, <2>2 DEF Checks, Processes
  <2> QED BY <2>1, <2>2
<1>3. TypeOK'
  BY <1>1, <1>2, ProcessTypeOK DEF TypeOK
<1>4. SecretsScrubbed'
  BY <1>1, <1>2 DEF SecretsScrubbed, ProcUnchanged
<1>5. OneQuestion'
  BY <1>1, <1>2 DEF OneQuestion, Questions
<1>6. LastWord'
  BY <1>1, <1>2 DEF LastWord
<1> QED BY <1>1, <1>3, <1>4, <1>5, <1>6, ProcessRest

\* The last word goes to the end of the pipe, where nothing follows it.
LEMMA FinishInv == ASSUME SupervisorInv, Finish PROVE SupervisorInv'
<1> USE DEF SupervisorInv
<1>1. PICK status \in Statuses :
        /\ proc' = [proc EXCEPT !.st = "finished", !.said = status]
        /\ out' = Append(out, Done(status))
  BY DEF Finish, Statuses
<1>2. /\ ProcUnchanged /\ inp' = inp /\ proc \in Processes
      /\ proc.st \in {"working", "stopped"} /\ run' = run /\ outcome' = outcome
  BY DEF Finish, TypeOK, ProcUnchanged
<1> DEFINE line == Done(status)
<1>3. /\ Fine(line) /\ line.kind = "done" /\ line.secret = FALSE /\ line.req = 0 /\ line.says = status
  BY DoneFine
<1>4. /\ proc' \in Processes /\ proc'.st = "finished" /\ proc'.asks = proc.asks
      /\ proc'.knows = proc.knows /\ proc'.said = status /\ proc.asks \in Nat
  <2>1. status \in Statuses \cup {"none"}
    OBVIOUS
  <2>2. proc' \in Processes
    BY <1>1, <1>2, <2>1 DEF Processes
  <2> QED BY <1>1, <1>2, <2>2 DEF Processes
<1> HIDE DEF line
<1>5. /\ Len(out) \in Nat /\ Len(out') = Len(out) + 1
      /\ DOMAIN out' = 1 .. Len(out) + 1 /\ DOMAIN out = 1 .. Len(out)
      /\ \A i \in 1 .. Len(out) : out'[i] = out[i]
      /\ out'[Len(out) + 1] = line /\ out' # <<>>
  BY <1>1, <1>3, Written DEF line
<1>6. TypeOK'
  BY <1>1, <1>2, <1>3, <1>4, ProcessTypeOK DEF TypeOK, line
<1>7. SecretsScrubbed'
  BY <1>2, <1>3, <1>4, <1>5 DEF SecretsScrubbed, ProcUnchanged
<1>8. OneQuestion'
  BY <1>2, <1>3, <1>4, <1>5 DEF OneQuestion
<1>9. LastWord'
  <2>1. proc.said = "none" /\ \A i \in DOMAIN out : out[i].kind # "done"
    BY <1>2, NotDone
  <2>2. ~run.failure => run.completed = "none"
    BY <1>5, <2>1 DEF LastWord
  <2>3. ~run.ok /\ ~run.failure => out'[1].kind \in {"protocol", "text"}
    <3>1. ~run.ok /\ ~run.failure => out # <<>> /\ out[1].kind \in {"protocol", "text"}
      BY <1>2 DEF LastWord
    <3>2. out # <<>> => 1 \in 1 .. Len(out)
      BY <1>5 DEF TypeOK
    <3> QED BY <1>5, <3>1, <3>2
  <2> QED BY <1>2, <1>3, <1>4, <1>5, <2>1, <2>2, <2>3 DEF LastWord
<1> QED BY <1>2, <1>6, <1>7, <1>8, <1>9, ProcessRest

\* The end of the process changes nothing of what it said.
LEMMA EndsInv == ASSUME SupervisorInv, Exit \/ \E zero \in BOOLEAN : Dies(zero) PROVE SupervisorInv'
<1> USE DEF SupervisorInv
<1>1. PICK zero \in BOOLEAN : proc' = [proc EXCEPT !.st = "ended", !.zero = zero]
  BY DEF Exit, Dies
<1>2. /\ ProcUnchanged /\ UNCHANGED <<inp, out>> /\ proc \in Processes /\ proc.st # "ended"
      /\ run' = run /\ outcome' = outcome
  BY DEF Exit, Dies, TypeOK, ProcUnchanged
<1>3. /\ proc' \in Processes /\ proc'.st = "ended" /\ proc'.asks = proc.asks
      /\ proc'.knows = proc.knows /\ proc'.said = proc.said
  BY <1>1, <1>2 DEF Processes
<1>4. TypeOK'
  BY <1>2, <1>3, ProcessTypeOK DEF TypeOK
<1>5. SecretsScrubbed'
  BY <1>2, <1>3 DEF SecretsScrubbed, ProcUnchanged
<1>6. OneQuestion'
  BY <1>2, <1>3 DEF OneQuestion
<1>7. LastWord'
  BY <1>2, <1>3 DEF LastWord
<1> QED BY <1>2, <1>4, <1>5, <1>6, <1>7, ProcessRest

\* Every step of the process keeps the run sound.
LEMMA ProcessInv == ASSUME SupervisorInv, Process PROVE SupervisorInv'
  BY BeginInv, SayInv, AsksInv, ReadsReplyInv, InterruptedInv, FinishInv, EndsInv DEF Process

-----------------------------------------------------------------------------
(* The supervisor.                                                         *)

\* No event of a sequence shows a secret.
Clean(s) == \A i \in DOMAIN s : ~s[i].secret

\* What two sequences are when they are joined.
LEMMA ConcatFacts ==
  ASSUME NEW S, NEW s \in Seq(S), NEW t \in Seq(S)
  PROVE  /\ s \o t \in Seq(S) /\ Len(s \o t) = Len(s) + Len(t) /\ Len(s) \in Nat /\ Len(t) \in Nat
         /\ DOMAIN s = 1 .. Len(s) /\ DOMAIN t = 1 .. Len(t) /\ DOMAIN (s \o t) = 1 .. Len(s) + Len(t)
         /\ \A i \in 1 .. Len(s) : (s \o t)[i] = s[i]
         /\ \A i \in 1 .. Len(t) : (s \o t)[Len(s) + i] = t[i]
<1>1. /\ s \o t \in Seq(S) /\ Len(s \o t) = Len(s) + Len(t)
      /\ \A i \in 1 .. Len(s) + Len(t) :
            (s \o t)[i] = IF i <= Len(s) THEN s[i] ELSE t[i - Len(s)]
  BY ConcatProperties
<1>2. /\ Len(s) \in Nat /\ Len(t) \in Nat /\ DOMAIN s = 1 .. Len(s) /\ DOMAIN t = 1 .. Len(t)
      /\ DOMAIN (s \o t) = 1 .. Len(s) + Len(t)
  BY <1>1, LenProperties
<1>3. ASSUME NEW i \in 1 .. Len(t) PROVE (s \o t)[Len(s) + i] = t[i]
  <2>1. Len(s) + i \in 1 .. Len(s) + Len(t) /\ ~(Len(s) + i <= Len(s)) /\ Len(s) + i - Len(s) = i
    BY <1>2
  <2> QED BY <1>1, <2>1
<1> QED BY <1>1, <1>2, <1>3

\* Joined events show no secret if neither part does.
LEMMA ConcatClean ==
  ASSUME NEW s \in Seq(Events), NEW t \in Seq(Events)
  PROVE  Clean(s \o t) <=> Clean(s) /\ Clean(t)
<1>1. /\ DOMAIN s = 1 .. Len(s) /\ DOMAIN t = 1 .. Len(t) /\ DOMAIN (s \o t) = 1 .. Len(s) + Len(t)
      /\ \A i \in 1 .. Len(s) : (s \o t)[i] = s[i]
      /\ \A i \in 1 .. Len(t) : (s \o t)[Len(s) + i] = t[i]
      /\ Len(s) \in Nat /\ Len(t) \in Nat
  BY ConcatFacts
<1>2. ASSUME Clean(s \o t) PROVE Clean(s) /\ Clean(t)
  <2>1. Clean(s)
    BY <1>1, <1>2 DEF Clean
  <2>2. ASSUME NEW i \in DOMAIN t PROVE ~t[i].secret
    <3>1. Len(s) + i \in DOMAIN (s \o t) /\ (s \o t)[Len(s) + i] = t[i]
      BY <1>1
    <3> QED BY <1>2, <3>1 DEF Clean
  <2> QED BY <2>1, <2>2 DEF Clean
<1>3. ASSUME Clean(s), Clean(t) PROVE Clean(s \o t)
  <2> SUFFICES ASSUME NEW i \in DOMAIN (s \o t) PROVE ~(s \o t)[i].secret
    BY DEF Clean
  <2>1. CASE i <= Len(s)
    BY <1>1, <1>3, <2>1 DEF Clean
  <2>2. CASE i > Len(s)
    <3>1. i - Len(s) \in 1 .. Len(t) /\ Len(s) + (i - Len(s)) = i
      BY <1>1, <2>2
    <3>2. (s \o t)[i] = t[i - Len(s)]
      BY <1>1, <3>1
    <3> QED BY <1>1, <1>3, <3>1, <3>2 DEF Clean
  <2> QED BY <1>1, <2>1, <2>2
<1> QED BY <1>2, <1>3

\* Two runs that differ at most in the events.
SameButEvents(a, b) ==
    /\ a.ok = b.ok /\ a.failure = b.failure /\ a.discard = b.discard /\ a.secret = b.secret
    /\ a.pending = b.pending /\ a.awaiting = b.awaiting
    /\ a.cancel = b.cancel /\ a.completed = b.completed

\* Supervisor::push adds one event after those handed on and those buffered,
\* and leaves the buffer below its limit.
LEMMA PushFacts ==
  ASSUME NEW r \in Runs, NEW e \in Events, NEW urgent \in BOOLEAN, NEW l \in Seq(Events)
  PROVE  /\ Push(r, e, urgent).run \in Runs
         /\ l \o Push(r, e, urgent).sent \in Seq(Events)
         /\ Push(r, e, urgent).run.seq = r.seq + 1
         /\ Len(Push(r, e, urgent).run.buffer) < FlushEvents
         /\ SameButEvents(Push(r, e, urgent).run, r)
         /\ (l \o Push(r, e, urgent).sent) \o Push(r, e, urgent).run.buffer = Append(l \o r.buffer, e)
<1> DEFINE all == Append(r.buffer, e)
           now == urgent \/ Len(all) >= FlushEvents
           buf == IF now THEN <<>> ELSE all
           sent == IF now THEN all ELSE <<>>
           r1 == [r EXCEPT !.seq = @ + 1, !.buffer = buf]
<1>1. Push(r, e, urgent).run = r1 /\ Push(r, e, urgent).sent = sent
  BY DEF Push
<1>2. r.buffer \in Seq(Events) /\ r.seq \in Nat
  BY DEF Runs
<1>3. all \in Seq(Events) /\ Len(all) \in Nat
  BY <1>2, AppendFacts
<1>4. buf \in Seq(Events) /\ sent \in Seq(Events) /\ Len(buf) < FlushEvents
  <2> HIDE DEF all
  <2>1. <<>> \in Seq(Events) /\ Len(<<>>) = 0
    OBVIOUS
  <2> QED BY <1>3, <2>1, BoundsAssumption
<1>5. l \o sent \in Seq(Events)
  BY <1>4, ConcatFacts
<1>6. (l \o sent) \o buf = Append(l \o r.buffer, e)
  <2>1. l \o all = Append(l \o r.buffer, e)
    BY <1>2
  <2> HIDE DEF all
  <2>2. CASE now
    <3>1. l \o all \in Seq(Events)
      BY <1>3, ConcatFacts
    <3>2. (l \o all) \o <<>> = l \o all
      BY <3>1
    <3> QED BY <2>1, <2>2, <3>2
  <2>3. CASE ~now
    BY <1>3, <2>1, <2>3
  <2> QED BY <2>2, <2>3
<1> HIDE DEF buf, sent
<1>7. r.seq + 1 \in Nat
  BY <1>2
<1>8. r1 \in Runs
  BY <1>4, <1>7 DEF Runs
<1>9. r1.seq = r.seq + 1 /\ r1.buffer = buf
  BY DEF Runs
<1>10. SameButEvents(r1, r)
  BY DEF Runs, SameButEvents
<1> QED BY <1>1, <1>4, <1>5, <1>6, <1>8, <1>9, <1>10

\* The log grows by one event of the right number.
LEMMA LogGrows ==
  ASSUME SupervisorInv, alive, outcome' = outcome, NEW e \in Events,
         e.seq = run.seq + 1, e.kind = "event", ~e.secret,
         log' \in Seq(Events), run' \in Runs, run'.seq = run.seq + 1,
         log' \o run'.buffer = Append(log \o run.buffer, e)
  PROVE  EventLog' /\ Clean(log') /\ Clean(run'.buffer)
<1> DEFINE all == log \o run.buffer
           all1 == log' \o run'.buffer
<1>1. log \in Seq(Events) /\ run.buffer \in Seq(Events) /\ run'.buffer \in Seq(Events) /\ run.seq \in Nat
  BY DEF SupervisorInv, TypeOK, Runs
<1>2. all \in Seq(Events)
  BY <1>1, ConcatFacts
<1>3. /\ Len(all) = run.seq
      /\ \A i \in DOMAIN all : all[i].seq = i /\ all[i].kind # "end"
  BY DEF SupervisorInv, EventLog, alive, Outcomes
<1>4. Clean(all)
  BY <1>1, ConcatClean DEF SupervisorInv, SecretsScrubbed, Clean
<1> HIDE DEF all
<1>5. all1 = Append(all, e)
  BY DEF all
<1>6. /\ Len(all1) = run.seq + 1 /\ DOMAIN all1 = 1 .. run.seq + 1 /\ DOMAIN all = 1 .. run.seq
      /\ \A i \in 1 .. run.seq : all1[i] = all[i]
      /\ all1[run.seq + 1] = e
  BY <1>2, <1>3, <1>5, AppendFacts
<1> HIDE DEF all1
<1>7. ASSUME NEW i \in DOMAIN all1 PROVE all1[i].seq = i /\ all1[i].kind # "end" /\ ~all1[i].secret
  <2>1. CASE i = run.seq + 1
    BY <1>6, <2>1
  <2>2. CASE i # run.seq + 1
    <3>1. i \in 1 .. run.seq
      BY <1>1, <1>6, <2>2
    <3> QED BY <1>3, <1>4, <1>6, <3>1 DEF Clean
  <2> QED BY <2>1, <2>2
<1>8. EventLog'
  BY <1>6, <1>7 DEF EventLog, alive, Outcomes, all1
<1>9. Clean(all1)
  BY <1>7 DEF Clean
<1> QED BY <1>1, <1>8, <1>9, ConcatClean DEF all1

\* The log stays as it is, up to what is handed on of it.
LEMMA LogStays ==
  ASSUME SupervisorInv, alive, outcome' \notin Outcomes,
         log' \in Seq(Events), run' \in Runs, run'.seq = run.seq,
         log' \o run'.buffer = log \o run.buffer
  PROVE  EventLog' /\ Clean(log') /\ Clean(run'.buffer)
<1>1. log \in Seq(Events) /\ run.buffer \in Seq(Events) /\ run'.buffer \in Seq(Events)
  BY DEF SupervisorInv, TypeOK, Runs
<1>2. EventLog'
  BY DEF SupervisorInv, EventLog, alive, Outcomes
<1>3. Clean(log \o run.buffer)
  BY <1>1, ConcatClean DEF SupervisorInv, SecretsScrubbed, Clean
<1>4. Clean(log' \o run'.buffer)
  BY <1>3
<1> QED BY <1>1, <1>2, <1>4, ConcatClean

\* What is left of the pipe when its first line is read.
LEMMA LineRead ==
  ASSUME SupervisorInv, out # <<>>, out' = Tail(out)
  PROVE  /\ out' \in Seq(Lines) /\ Fine(Head(out)) /\ Head(out) = out[1] /\ 1 \in DOMAIN out
         /\ Len(out) \in Nat \ {0} /\ Len(out') = Len(out) - 1
         /\ DOMAIN out = 1 .. Len(out) /\ DOMAIN out' = 1 .. Len(out) - 1
         /\ \A i \in DOMAIN out' : i + 1 \in DOMAIN out /\ out'[i] = out[i + 1] /\ Fine(out'[i])
<1>1. out \in Seq(Lines)
  BY DEF SupervisorInv, TypeOK
<1>2. /\ out' \in Seq(Lines) /\ Head(out) = out[1] /\ Head(out) \in Lines
      /\ Len(out) \in Nat \ {0} /\ Len(out') = Len(out) - 1
      /\ DOMAIN out = 1 .. Len(out) /\ DOMAIN out' = 1 .. Len(out) - 1
      /\ \A i \in 1 .. Len(out) - 1 : out'[i] = out[i + 1]
  BY <1>1, TailFacts
<1>3. 1 \in DOMAIN out /\ \A i \in DOMAIN out' : i + 1 \in DOMAIN out
  BY <1>2
<1>4. Fine(Head(out))
  BY <1>2, <1>3 DEF Fine, SupervisorInv, TypeOK
<1>5. ASSUME NEW i \in DOMAIN out' PROVE Fine(out'[i])
  <2>1. out[i + 1] \in Lines
    BY <1>1, <1>3, ElementOfSeq
  <2> QED BY <1>2, <1>3, <2>1 DEF Fine, SupervisorInv, TypeOK
<1> QED BY <1>2, <1>3, <1>4, <1>5

\* The types after a step of the supervisor.
LEMMA SupervisorTypeOK ==
  ASSUME SupervisorInv, proc' = proc, out' = out \/ (out # <<>> /\ out' = Tail(out)),
         run' \in Runs, Len(run'.buffer) < FlushEvents, log' \in Seq(Events), inp' \in Seq(Replies),
         signals' \subseteq signals \cup {"INT", "TERM", "KILL"},
         outcome' \in Outcomes \cup {"none", "left"}
  PROVE  TypeOK'
<1>1. CASE out' = out
  BY <1>1 DEF SupervisorInv, TypeOK
<1>2. CASE out # <<>> /\ out' = Tail(out)
  <2>1. out' \in Seq(Lines) /\ \A i \in DOMAIN out' : Fine(out'[i])
    BY <1>2, LineRead
  <2> QED BY <2>1 DEF SupervisorInv, TypeOK, Fine
<1> QED BY <1>1, <1>2

\* A line of stderr becomes an event, scrubbed.
LEMMA IngestStderrInv == ASSUME SupervisorInv, IngestStderr PROVE SupervisorInv'
<1> USE DEF SupervisorInv
<1> DEFINE e == Numbered(run, "event", Scrub(run, Text(proc.knows)))
           p == Push(run, e, FALSE)
<1>1. /\ alive /\ run' = p.run /\ log' = log \o p.sent
      /\ UNCHANGED <<proc, out, inp, signals, outcome, reopened>>
  BY DEF IngestStderr
<1>2. run \in Runs /\ log \in Seq(Events) /\ proc.knows \in BOOLEAN /\ run.seq \in Nat
  BY DEF TypeOK, Processes, Runs
<1>3. e \in Events /\ e.seq = run.seq + 1 /\ e.kind = "event" /\ ~e.secret
  <2>1. run.seq + 1 \in Nat /\ Scrub(run, Text(proc.knows)) = FALSE
    BY <1>2, TextFine DEF Scrub, SecretsScrubbed
  <2> QED BY <2>1 DEF Numbered, Events
<1> HIDE DEF e
<1>4. /\ run' \in Runs /\ log' \in Seq(Events) /\ run'.seq = run.seq + 1
      /\ Len(run'.buffer) < FlushEvents /\ SameButEvents(run', run)
      /\ log' \o run'.buffer = Append(log \o run.buffer, e)
  BY <1>1, <1>2, <1>3, PushFacts
<1> HIDE DEF p
<1>5. EventLog' /\ Clean(log') /\ Clean(run'.buffer)
  BY <1>1, <1>3, <1>4, LogGrows
<1>6. TypeOK'
  BY <1>1, <1>4, SupervisorTypeOK DEF TypeOK
<1>7. SecretsScrubbed'
  BY <1>1, <1>4, <1>5 DEF SecretsScrubbed, Clean, SameButEvents
<1>8. OneQuestion' /\ SoftCancelAsksNothing' /\ LastWord'
  BY <1>1, <1>4 DEF OneQuestion, Questions, SoftCancelAsksNothing, LastWord, SameButEvents
<1> QED BY <1>5, <1>6, <1>7, <1>8

\* Events handed on are not lost and not repeated.
LEMMA FlushInv == ASSUME SupervisorInv, Flush PROVE SupervisorInv'
<1> USE DEF SupervisorInv
<1>1. /\ alive /\ log' = log \o run.buffer /\ run' = [run EXCEPT !.buffer = <<>>]
      /\ UNCHANGED <<proc, out, inp, signals, outcome, reopened>>
  BY DEF Flush
<1>2. run \in Runs /\ run.buffer \in Seq(Events) /\ log \in Seq(Events) /\ <<>> \in Seq(Events)
  BY DEF TypeOK, Runs
<1>3. run' \in Runs
  BY <1>1, <1>2 DEF Runs
<1>4. run'.seq = run.seq /\ run'.buffer = <<>> /\ SameButEvents(run', run)
  BY <1>1, <1>2 DEF Runs, SameButEvents
<1>5. log' \in Seq(Events)
  BY <1>1, <1>2, ConcatFacts
<1>6. log' \o run'.buffer = log \o run.buffer
  BY <1>1, <1>4, <1>5
<1>7. EventLog' /\ Clean(log') /\ Clean(run'.buffer)
  BY <1>1, <1>3, <1>4, <1>5, <1>6, LogStays DEF alive, Outcomes
<1>8. TypeOK'
  <2>1. Len(run'.buffer) < FlushEvents
    BY <1>4, BoundsAssumption
  <2> QED BY <1>1, <1>3, <1>5, <2>1, SupervisorTypeOK DEF TypeOK
<1>9. SecretsScrubbed'
  BY <1>1, <1>4, <1>7 DEF SecretsScrubbed, Clean, SameButEvents
<1>10. OneQuestion' /\ SoftCancelAsksNothing' /\ LastWord'
  BY <1>1, <1>4 DEF OneQuestion, Questions, SoftCancelAsksNothing, LastWord, SameButEvents
<1> QED BY <1>7, <1>8, <1>9, <1>10

\* Steps that add no event, read no line and at most force a cancel.
LEMMA SignalsInv == ASSUME SupervisorInv, CancelForced \/ Kill \/ Stop PROVE SupervisorInv'
<1> USE DEF SupervisorInv
<1>1. /\ run' = run \/ run' = [run EXCEPT !.cancel = "forced"]
      /\ signals' \subseteq signals \cup {"INT", "TERM", "KILL"}
      /\ UNCHANGED <<proc, out, inp, log, outcome, reopened>>
  BY DEF CancelForced, Kill, Stop
<1>2. run \in Runs
  BY DEF TypeOK
<1>3. run' \in Runs
  BY <1>1, <1>2 DEF Runs
<1>4. /\ run'.seq = run.seq /\ run'.buffer = run.buffer /\ run'.ok = run.ok
      /\ run'.failure = run.failure /\ run'.discard = run.discard /\ run'.secret = run.secret
      /\ run'.pending = run.pending /\ run'.awaiting = run.awaiting /\ run'.completed = run.completed
      /\ run'.cancel = run.cancel \/ run'.cancel = "forced"
  BY <1>1, <1>2 DEF Runs
<1>5. TypeOK'
  BY <1>1, <1>3, <1>4, SupervisorTypeOK DEF TypeOK
<1>6. EventLog' /\ SecretsScrubbed'
  BY <1>1, <1>4 DEF EventLog, SecretsScrubbed
<1>7. OneQuestion' /\ SoftCancelAsksNothing' /\ LastWord'
  BY <1>1, <1>4 DEF OneQuestion, Questions, SoftCancelAsksNothing, LastWord
<1> QED BY <1>5, <1>6, <1>7

\* What a reply adds to the pipe.
LEMMA InpGrows ==
  ASSUME SupervisorInv, NEW a \in {"values", "cancel"}, NEW req \in Requests,
         inp' = Append(inp, [req |-> req, answer |-> a])
  PROVE  /\ inp' \in Seq(Replies)
         /\ inp = <<>> => Len(inp') = 1 /\ inp'[1].req = req
         /\ \A i \in DOMAIN inp' : inp'[i].answer = "values" => run.secret \/ a = "values"
<1> DEFINE reply == [req |-> req, answer |-> a]
<1>1. inp \in Seq(Replies)
  BY DEF SupervisorInv, TypeOK
<1>2. reply \in Replies /\ reply.req = req /\ reply.answer = a
  BY DEF Replies
<1>3. inp' = Append(inp, reply)
  OBVIOUS
<1> HIDE DEF reply
<1>4. /\ inp' \in Seq(Replies) /\ Len(inp') = Len(inp) + 1 /\ Len(inp) \in Nat
      /\ DOMAIN inp' = 1 .. Len(inp) + 1 /\ DOMAIN inp = 1 .. Len(inp)
      /\ \A i \in 1 .. Len(inp) : inp'[i] = inp[i]
      /\ inp'[Len(inp) + 1] = reply
  BY <1>1, <1>2, <1>3, AppendFacts
<1>5. inp = <<>> => Len(inp') = 1 /\ inp'[1].req = req
  <2>1. inp = <<>> => Len(inp) = 0
    OBVIOUS
  <2> QED BY <1>2, <1>4, <2>1
<1>6. ASSUME NEW i \in DOMAIN inp', inp'[i].answer = "values" PROVE run.secret \/ a = "values"
  <2>1. CASE i = Len(inp) + 1
    BY <1>2, <1>4, <1>6, <2>1
  <2>2. CASE i # Len(inp) + 1
    <3>1. i \in DOMAIN inp /\ inp'[i] = inp[i]
      BY <1>4, <2>2
    <3> QED BY <1>6, <3>1 DEF SupervisorInv, SecretsScrubbed
  <2> QED BY <2>1, <2>2
<1> QED BY <1>4, <1>5, <1>6

\* A reply to the request that waits is the only one in the pipe.
LEMMA ReplySent ==
  ASSUME SupervisorInv, NEW a \in {"values", "cancel"}, run.pending # None,
         inp' = Append(inp, [req |-> run.pending, answer |-> a])
  PROVE  /\ inp' \in Seq(Replies) /\ proc.st \notin {"new", "working"}
         /\ proc.st = "asking" => Len(inp') = 1 /\ inp'[1].req = proc.asks /\ Questions = {}
         /\ \A i \in DOMAIN inp' : inp'[i].answer = "values" => run.secret \/ a = "values"
<1>1. run.pending \in Requests
  BY BoundsAssumption DEF SupervisorInv, TypeOK, Runs, Requests, None
<1>2. proc.st \notin {"new", "working"}
  BY DEF SupervisorInv, OneQuestion
<1>3. proc.st = "asking" => inp = <<>> /\ run.pending = proc.asks /\ Questions = {}
  BY DEF SupervisorInv, OneQuestion
<1> QED BY <1>1, <1>2, <1>3, InpGrows

\* A soft cancel takes the question back from the operators.
LEMMA CancelSoftInv == ASSUME SupervisorInv, CancelSoft PROVE SupervisorInv'
<1> USE DEF SupervisorInv
<1> DEFINE c == IF run.cancel = "forced" THEN run.cancel ELSE "soft"
<1>1. /\ run' = [run EXCEPT !.pending = None, !.cancel = c]
      /\ inp' = IF run.pending # None THEN Append(inp, Cancelled(run.pending)) ELSE inp
      /\ signals' \subseteq signals \cup {"INT", "TERM", "KILL"}
      /\ UNCHANGED <<proc, out, log, outcome, reopened>>
  BY DEF CancelSoft
<1>2. run \in Runs /\ None \in 0 .. MaxRequests /\ c \in {"none", "soft", "forced"}
  BY BoundsAssumption DEF TypeOK, None
<1> HIDE DEF c
<1>3. run' \in Runs
  BY <1>1, <1>2 DEF Runs
<1>4. /\ run'.seq = run.seq /\ run'.buffer = run.buffer /\ run'.ok = run.ok
      /\ run'.failure = run.failure /\ run'.discard = run.discard /\ run'.secret = run.secret
      /\ run'.pending = None /\ run'.awaiting = run.awaiting /\ run'.completed = run.completed
  BY <1>1, <1>2 DEF Runs
<1>5. /\ inp' \in Seq(Replies)
      /\ proc.st \in {"new", "working"} => inp' = <<>>
      /\ proc.st = "asking" /\ inp' # <<>> => Len(inp') = 1 /\ inp'[1].req = proc.asks /\ Questions = {}
      /\ \A i \in DOMAIN inp' : inp'[i].answer = "values" => run.secret
  <2>1. CASE run.pending = None
    BY <1>1, <2>1 DEF TypeOK, OneQuestion, SecretsScrubbed
  <2>2. CASE run.pending # None
    BY <1>1, <2>2, ReplySent DEF Cancelled
  <2> QED BY <2>1, <2>2
<1>6. TypeOK'
  BY <1>1, <1>3, <1>4, <1>5, SupervisorTypeOK DEF TypeOK
<1>7. EventLog' /\ SecretsScrubbed'
  BY <1>1, <1>4, <1>5 DEF EventLog, SecretsScrubbed
<1>8. OneQuestion'
  <2>1. 0 <= proc.asks
    BY DEF TypeOK, Processes
  <2> QED BY <1>1, <1>4, <1>5, <2>1 DEF OneQuestion, Questions, None
<1>9. SoftCancelAsksNothing' /\ LastWord'
  BY <1>1, <1>4 DEF SoftCancelAsksNothing, LastWord
<1> QED BY <1>6, <1>7, <1>8, <1>9

\* An answer closes the question it is for.
LEMMA AnswerInv ==
  ASSUME SupervisorInv, NEW req \in Requests, NEW a \in {"values", "cancel"}, Answer(req, a)
  PROVE  SupervisorInv'
<1> USE DEF SupervisorInv
<1> DEFINE c == IF a = "cancel" /\ run.cancel = "none" THEN "soft" ELSE run.cancel
           r0 == Remember(run, a)
           r == [r0 EXCEPT !.pending = None, !.awaiting = req, !.cancel = c]
           e == Numbered(r, "event", FALSE)
           p == Push(r, e, TRUE)
<1>1. run \in Runs /\ log \in Seq(Events) /\ run.pending = req /\ alive /\ req # None
  BY BoundsAssumption DEF TypeOK, Answer, Waits, Requests, None
<1>2. /\ r0 \in Runs /\ r0.cancel = run.cancel /\ r0.seq = run.seq /\ r0.buffer = run.buffer
      /\ r0.ok = run.ok /\ r0.failure = run.failure /\ r0.discard = run.discard
      /\ r0.completed = run.completed /\ r0.secret = (run.secret \/ a = "values")
  <2>1. (run.secret \/ a = "values") \in BOOLEAN
    BY <1>1 DEF Runs
  <2>2. r0 \in Runs
    BY <1>1, <2>1 DEF Runs, Remember
  <2> QED BY <1>1, <2>2 DEF Runs, Remember
<1>3. /\ run' = p.run /\ log' = log \o p.sent
      /\ inp' = Append(inp, [req |-> req, answer |-> a])
      /\ UNCHANGED <<proc, out, signals, outcome, reopened>>
  BY <1>2 DEF Answer
<1> HIDE DEF r0
<1>4. c \in {"none", "soft", "forced"} /\ None \in 0 .. MaxRequests /\ req \in 0 .. MaxRequests
  BY <1>1, BoundsAssumption DEF None, Requests, Runs
<1> HIDE DEF c
<1>5. r \in Runs
  BY <1>2, <1>4 DEF Runs
<1>6. /\ r.seq = run.seq /\ r.buffer = run.buffer /\ r.ok = run.ok
      /\ r.failure = run.failure /\ r.discard = run.discard /\ r.secret = (run.secret \/ a = "values")
      /\ r.pending = None /\ r.awaiting = req /\ r.completed = run.completed
  BY <1>2 DEF Runs
<1> HIDE DEF r
<1>7. e \in Events /\ e.seq = run.seq + 1 /\ e.kind = "event" /\ ~e.secret
  <2>1. run.seq + 1 \in Nat
    BY <1>1 DEF Runs
  <2> QED BY <1>6, <2>1 DEF Numbered, Events
<1> HIDE DEF e
<1>8. /\ run' \in Runs /\ log' \in Seq(Events) /\ run'.seq = run.seq + 1
      /\ Len(run'.buffer) < FlushEvents /\ SameButEvents(run', r)
      /\ log' \o run'.buffer = Append(log \o run.buffer, e)
  BY <1>1, <1>3, <1>5, <1>6, <1>7, PushFacts
<1> HIDE DEF p
<1>9. EventLog' /\ Clean(log') /\ Clean(run'.buffer)
  BY <1>1, <1>3, <1>7, <1>8, LogGrows
<1>10. /\ inp' \in Seq(Replies) /\ proc.st \notin {"new", "working"}
       /\ proc.st = "asking" => Len(inp') = 1 /\ inp'[1].req = proc.asks /\ Questions = {}
       /\ \A i \in DOMAIN inp' : inp'[i].answer = "values" => run.secret \/ a = "values"
  BY <1>1, <1>3, ReplySent
<1>11. TypeOK'
  BY <1>3, <1>8, <1>10, SupervisorTypeOK DEF TypeOK
<1>12. SecretsScrubbed'
  BY <1>3, <1>6, <1>8, <1>9, <1>10 DEF SecretsScrubbed, Clean, SameButEvents
<1>13. OneQuestion'
  <2>1. 0 <= proc.asks /\ req <= proc.asks
    BY <1>1 DEF TypeOK, Processes, OneQuestion
  <2> QED BY <1>3, <1>6, <1>8, <1>10, <2>1 DEF OneQuestion, Questions, None, SameButEvents
<1>14. SoftCancelAsksNothing' /\ LastWord'
  BY <1>3, <1>6, <1>8 DEF SoftCancelAsksNothing, LastWord, SameButEvents
<1> QED BY <1>9, <1>11, <1>12, <1>13, <1>14

\* What reading a line leaves of the questions, of the last word and of the
\* secrets in the pipe.
LEMMA PipeRead ==
  ASSUME SupervisorInv, out # <<>>, out' = Tail(out), proc' = proc
  PROVE  /\ proc.st \in {"new", "working"} => Questions' = {} /\ 1 \notin Questions
         /\ proc.st = "asking" => \A i \in Questions' : out'[i].req = proc.asks /\ Questions' = {i}
         /\ proc.st = "asking" /\ (1 \in Questions \/ Questions = {}) => Questions' = {}
         /\ \A i \in DOMAIN out' : out'[i].req <= proc.asks
         /\ \A i \in DOMAIN out' : out'[i].kind = "done" => i = Len(out') /\ out'[i].says = proc.said
         /\ \A i \in DOMAIN out' : out'[i].secret => run.secret
         /\ out[Len(out)].kind = "done" /\ Head(out).kind # "done" =>
               out' # <<>> /\ out'[Len(out')].kind = "done"
<1> USE DEF SupervisorInv
<1>1. /\ Head(out) = out[1] /\ 1 \in DOMAIN out
      /\ Len(out) \in Nat \ {0} /\ Len(out') = Len(out) - 1
      /\ DOMAIN out = 1 .. Len(out) /\ DOMAIN out' = 1 .. Len(out) - 1
      /\ \A i \in DOMAIN out' : i + 1 \in DOMAIN out /\ out'[i] = out[i + 1]
  BY LineRead
<1>2. \A i \in Questions' : i \in Int /\ i >= 1 /\ i + 1 \in Questions
  BY <1>1 DEF Questions
<1>3. proc.st \in {"new", "working"} => Questions' = {} /\ 1 \notin Questions
  BY <1>2 DEF OneQuestion
<1>4. ASSUME proc.st = "asking", NEW i \in Questions' PROVE out'[i].req = proc.asks /\ Questions' = {i}
  <2>1. out[i + 1].req = proc.asks /\ Questions = {i + 1}
    BY <1>2, <1>4 DEF OneQuestion
  <2>2. \A j \in Questions' : j = i
    BY <1>2, <1>4, <2>1
  <2>3. i \in DOMAIN out'
    BY DEF Questions
  <2> QED BY <1>1, <2>1, <2>2, <2>3
<1>5. ASSUME proc.st = "asking", 1 \in Questions \/ Questions = {} PROVE Questions' = {}
  <2>1. \A j \in Questions : j = 1
    BY <1>5 DEF OneQuestion
  <2> QED BY <1>2, <2>1
<1>6. \A i \in DOMAIN out' : out'[i].req <= proc.asks
  BY <1>1 DEF OneQuestion
<1>7. \A i \in DOMAIN out' : out'[i].kind = "done" => i = Len(out') /\ out'[i].says = proc.said
  BY <1>1 DEF LastWord
<1>8. \A i \in DOMAIN out' : out'[i].secret => run.secret
  BY <1>1 DEF SecretsScrubbed
<1>9. ASSUME out[Len(out)].kind = "done", Head(out).kind # "done"
      PROVE  out' # <<>> /\ out'[Len(out')].kind = "done"
  <2>1. Len(out) # 1
    BY <1>1, <1>9
  <2>2. Len(out') \in DOMAIN out' /\ Len(out') + 1 = Len(out)
    BY <1>1, <2>1
  <2>3. out'[Len(out')] = out[Len(out)]
    BY <1>1, <2>2
  <2>4. out' # <<>>
    BY <1>1, <2>1
  <2> QED BY <1>9, <2>3, <2>4
<1> QED BY <1>3, <1>4, <1>5, <1>6, <1>7, <1>8, <1>9

\* The output of a process that broke the protocol is dropped: nothing but its
\* failure depends on it.
LEMMA ViolationInv == ASSUME SupervisorInv, Violation \/ Discard PROVE SupervisorInv'
<1> USE DEF SupervisorInv
<1> DEFINE c == IF run.cancel = "none" THEN "forced" ELSE run.cancel
<1>1. /\ run' = [run EXCEPT !.failure = TRUE, !.discard = TRUE, !.cancel = c] \/ (run' = run /\ run.discard)
      /\ out # <<>> /\ out' = Tail(out)
      /\ signals' \subseteq signals \cup {"INT", "TERM", "KILL"}
      /\ UNCHANGED <<proc, inp, log, outcome, reopened>>
  <2>1. CASE Violation
    <3>1. run' = [run EXCEPT !.failure = TRUE, !.discard = TRUE, !.cancel = c]
      BY <2>1 DEF Violation
    <3>2. signals' \subseteq signals \cup {"INT", "TERM", "KILL"}
      BY <2>1 DEF Violation
    <3>3. out # <<>> /\ out' = Tail(out) /\ UNCHANGED <<proc, inp, log, outcome, reopened>>
      BY <2>1 DEF Violation
    <3> HIDE DEF c
    <3> QED BY <3>1, <3>2, <3>3
  <2>2. CASE Discard
    BY <2>2 DEF Discard
  <2> QED BY <2>1, <2>2
<1>2. run \in Runs /\ c \in {"none", "soft", "forced"}
  BY DEF TypeOK, Runs
<1> HIDE DEF c
<1>3. run' \in Runs
  BY <1>1, <1>2 DEF Runs
<1>4. /\ run'.seq = run.seq /\ run'.buffer = run.buffer /\ run'.secret = run.secret
      /\ run'.pending = run.pending /\ run'.awaiting = run.awaiting
      /\ run'.failure = TRUE \/ (run' = run /\ run.discard)
  BY <1>1, <1>2 DEF Runs
<1>5. run'.failure
  BY <1>4 DEF LastWord
<1>6. run'.cancel = "soft" => run.cancel = "soft"
  <2>1. c = "soft" => run.cancel = "soft"
    BY DEF c
  <2> QED BY <1>1, <1>2, <2>1 DEF Runs
<1>7. TypeOK'
  BY <1>1, <1>3, <1>4, SupervisorTypeOK DEF TypeOK
<1>8. EventLog' /\ SecretsScrubbed'
  <2>1. EventLog'
    BY <1>1, <1>4 DEF EventLog
  <2>2. \A i \in DOMAIN out' : out'[i].secret => run.secret
    BY <1>1, PipeRead
  <2> QED BY <1>1, <1>4, <2>1, <2>2 DEF SecretsScrubbed
<1>9. OneQuestion'
  BY <1>1, <1>4, PipeRead DEF OneQuestion
<1>10. SoftCancelAsksNothing' /\ LastWord'
  BY <1>1, <1>4, <1>5, <1>6, PipeRead DEF SoftCancelAsksNothing, LastWord
<1> QED BY <1>7, <1>8, <1>9, <1>10

\* What a line changes of a run: a question waits or is opened again, the last
\* word is kept.
LEMMA AppliedFacts ==
  ASSUME NEW r \in Runs, NEW line, Fine(line)
  PROVE  /\ Applied(r, line) \in Runs
         /\ Applied(r, line).ok = r.ok /\ Applied(r, line).failure = r.failure
         /\ Applied(r, line).discard = r.discard /\ Applied(r, line).secret = r.secret
         /\ Applied(r, line).cancel = r.cancel
         /\ Applied(r, line).seq = r.seq /\ Applied(r, line).buffer = r.buffer
         /\ Applied(r, line).completed = IF line.kind = "done" THEN line.says ELSE r.completed
         /\ \/ Applied(r, line).pending = r.pending /\ Applied(r, line).awaiting = r.awaiting
               /\ line.kind # "request"
            \/ Applied(r, line).pending = line.req /\ Applied(r, line).awaiting = None
               /\ line.kind \in {"request", "invalid"}
<1> DEFINE a == Applied(r, line)
<1>1. /\ line.kind \in {"protocol", "text", "toolong", "nocancel", "phase", "request", "invalid", "done"}
      /\ line.req \in 0 .. MaxRequests /\ None \in 0 .. MaxRequests
  BY BoundsAssumption DEF Fine, Lines, None
<1>2. CASE line.kind = "request"
  <2>1. a = [r EXCEPT !.pending = line.req, !.awaiting = None]
    BY <1>2 DEF Applied
  <2>2. a \in Runs
    BY <1>1, <2>1 DEF Runs
  <2> QED BY <1>2, <2>1, <2>2 DEF Runs
<1>3. CASE line.kind = "invalid" /\ r.awaiting = line.req
  <2>1. a = [r EXCEPT !.pending = line.req, !.awaiting = None]
    BY <1>3 DEF Applied, Reopen
  <2>2. a \in Runs
    BY <1>1, <2>1 DEF Runs
  <2> QED BY <1>3, <2>1, <2>2 DEF Runs
<1>4. CASE line.kind = "phase"
  <2>1. a = [r EXCEPT !.phase = line.says] /\ line.says \in Phases
    BY <1>4 DEF Applied, Fine
  <2>2. a \in Runs
    BY <2>1 DEF Runs
  <2> QED BY <1>4, <2>1, <2>2 DEF Runs
<1>5. CASE line.kind = "nocancel"
  <2>1. a = [r EXCEPT !.supports = FALSE]
    BY <1>5 DEF Applied
  <2>2. a \in Runs
    BY <2>1 DEF Runs
  <2> QED BY <1>5, <2>1, <2>2 DEF Runs
<1>6. CASE line.kind = "done"
  <2>1. a = [r EXCEPT !.completed = line.says] /\ line.says \in Statuses \cup {"none"}
    BY <1>6 DEF Applied, Fine
  <2>2. a \in Runs
    BY <2>1 DEF Runs
  <2> QED BY <1>6, <2>1, <2>2 DEF Runs
<1>7. CASE \/ line.kind = "invalid" /\ r.awaiting # line.req
           \/ line.kind \in {"protocol", "text", "toolong"}
  <2>1. a = r
    BY <1>7 DEF Applied, Reopen
  <2> QED BY <1>7, <2>1
<1> HIDE DEF a
<1> QED BY <1>1, <1>2, <1>3, <1>4, <1>5, <1>6, <1>7 DEF a

\* The handshake: the first line is read, and it is no question.
LEMMA HandshakeInv ==
  ASSUME SupervisorInv, Ingest, ~run.ok, ~run.failure PROVE SupervisorInv'
<1> USE DEF SupervisorInv
<1> DEFINE line == Head(out)
           r1 == Greeted(run, line)
<1>1. run \in Runs /\ out # <<>> /\ out' = Tail(out) /\ alive
  BY DEF TypeOK, Ingest
<1>2. line.kind \in {"protocol", "text"}
  BY <1>1, LineRead DEF LastWord
<1>3. /\ r1 \in Runs
      /\ r1.ok \/ r1.failure
      /\ r1.seq = run.seq /\ r1.buffer = run.buffer /\ r1.secret = run.secret
      /\ r1.pending = run.pending /\ r1.awaiting = run.awaiting /\ r1.cancel = run.cancel
      /\ r1.completed = run.completed /\ r1.discard = run.discard
  <2>1. CASE line.kind = "protocol"
    <3>1. r1 = [run EXCEPT !.ok = TRUE]
      BY <2>1 DEF Greeted
    <3>2. r1 \in Runs
      BY <1>1, <3>1 DEF Runs
    <3> QED BY <1>1, <3>1, <3>2 DEF Runs
  <2>2. CASE line.kind # "protocol"
    <3>1. r1 = [run EXCEPT !.failure = TRUE]
      BY <2>2 DEF Greeted
    <3>2. r1 \in Runs
      BY <1>1, <3>1 DEF Runs
    <3> QED BY <1>1, <3>1, <3>2 DEF Runs
  <2> QED BY <2>1, <2>2
<1>4. /\ run' = r1 \/ (run' = [r1 EXCEPT !.cancel = "forced"])
      /\ log' = log \o <<>> /\ inp' = inp /\ reopened' = reopened
      /\ signals' \subseteq signals \cup {"INT", "TERM", "KILL"}
      /\ UNCHANGED <<proc, outcome>>
  BY <1>2 DEF Ingest, Handshake, AutoCancel
<1> HIDE DEF r1
<1>5. log' = log
  BY <1>4 DEF TypeOK
<1>6. run' \in Runs
  <2>1. CASE run' = [r1 EXCEPT !.cancel = "forced"]
    BY <1>3, <2>1 DEF Runs
  <2> QED BY <1>3, <1>4, <2>1
<1>7. /\ run'.ok \/ run'.failure
      /\ run'.seq = run.seq /\ run'.buffer = run.buffer /\ run'.secret = run.secret
      /\ run'.pending = run.pending /\ run'.awaiting = run.awaiting
      /\ run'.completed = run.completed /\ run'.discard = run.discard
      /\ run'.cancel = run.cancel \/ run'.cancel = "forced"
  <2>1. r1 \in Runs
    BY <1>3
  <2>2. CASE run' = [r1 EXCEPT !.cancel = "forced"]
    BY <1>3, <2>1, <2>2 DEF Runs
  <2>3. CASE run' = r1
    BY <1>3, <2>3
  <2> QED BY <1>4, <2>2, <2>3
<1>8. ~run.discard
  BY DEF LastWord
<1>9. TypeOK'
  BY <1>1, <1>4, <1>5, <1>6, <1>7, SupervisorTypeOK DEF TypeOK
<1>10. EventLog' /\ SecretsScrubbed'
  <2>1. EventLog'
    BY <1>4, <1>5, <1>7 DEF EventLog
  <2>2. \A i \in DOMAIN out' : out'[i].secret => run.secret
    BY <1>1, <1>4, PipeRead
  <2> QED BY <1>4, <1>5, <1>7, <2>1, <2>2 DEF SecretsScrubbed
<1>11. OneQuestion'
  BY <1>1, <1>4, <1>7, PipeRead DEF OneQuestion
<1>12. SoftCancelAsksNothing'
  BY <1>4, <1>7 DEF SoftCancelAsksNothing
<1>13. LastWord'
  BY <1>1, <1>2, <1>4, <1>7, <1>8, PipeRead DEF LastWord
<1> QED BY <1>9, <1>10, <1>11, <1>12, <1>13

\* A line after the handshake: its event, and what it says.
LEMMA IngestedInv ==
  ASSUME SupervisorInv, Ingest, run.ok \/ run.failure PROVE SupervisorInv'
<1> USE DEF SupervisorInv
<1> DEFINE line == Head(out)
           r1 == Applied(run, line)
           e == Numbered(run, "event", Scrub(run, line))
           urgent == line.kind # "text"
           p == IF Kept(line) THEN Push(r1, e, urgent) ELSE [run |-> r1, sent |-> <<>>]
           rp == p.run
           auto == AutoCancel(rp, line)
           r2 == IF auto THEN [rp EXCEPT !.pending = None] ELSE rp
           stop == r2.failure /\ r2.cancel = "none"
<1>1. /\ run \in Runs /\ out # <<>> /\ out' = Tail(out) /\ alive /\ Fine(line) /\ ~run.discard
      /\ line = out[1] /\ 1 \in DOMAIN out /\ log \in Seq(Events)
  BY LineRead DEF TypeOK, Ingest
<1>2. /\ run' = (IF stop THEN [r2 EXCEPT !.cancel = "forced"] ELSE r2)
      /\ log' = log \o p.sent
      /\ inp' = (IF auto THEN Append(inp, Cancelled(line.req)) ELSE inp)
      /\ signals' \subseteq signals \cup {"INT", "TERM", "KILL"}
      /\ reopened' = (IF line.kind = "invalid" /\ r1.pending = line.req
                      THEN reopened \cup {line.req} ELSE reopened)
      /\ UNCHANGED <<proc, outcome>>
  <2>1. ~Handshake(run, line)
    BY DEF Handshake
  <2> QED BY <2>1 DEF Ingest
<1>3. /\ r1 \in Runs
      /\ r1.ok = run.ok /\ r1.failure = run.failure /\ r1.discard = run.discard
      /\ r1.secret = run.secret /\ r1.cancel = run.cancel /\ r1.seq = run.seq /\ r1.buffer = run.buffer
      /\ r1.completed = IF line.kind = "done" THEN line.says ELSE run.completed
      /\ \/ r1.pending = run.pending /\ r1.awaiting = run.awaiting /\ line.kind # "request"
         \/ r1.pending = line.req /\ r1.awaiting = None /\ line.kind \in {"request", "invalid"}
  BY <1>1, AppliedFacts
<1> HIDE DEF r1
<1>4. e \in Events /\ e.seq = run.seq + 1 /\ e.kind = "event" /\ ~e.secret
  <2>1. run.seq + 1 \in Nat
    BY <1>1 DEF Runs
  <2>2. Scrub(run, line) \in BOOLEAN /\ ~Scrub(run, line)
    BY <1>1 DEF Scrub, SecretsScrubbed, Fine, Lines, Runs
  <2> QED BY <2>1, <2>2 DEF Numbered, Events
<1> HIDE DEF e
<1>5. /\ rp \in Runs /\ log' \in Seq(Events) /\ Len(rp.buffer) < FlushEvents /\ SameButEvents(rp, r1)
      /\ \/ rp.seq = run.seq + 1 /\ log' \o rp.buffer = Append(log \o run.buffer, e)
         \/ rp.seq = run.seq /\ log' \o rp.buffer = log \o run.buffer
  <2>1. CASE Kept(line)
    <3>1. urgent \in BOOLEAN
      OBVIOUS
    <3>2. p = Push(r1, e, urgent)
      BY <2>1
    <3> HIDE DEF urgent, p
    <3>3. /\ Push(r1, e, urgent).run \in Runs
          /\ log \o Push(r1, e, urgent).sent \in Seq(Events)
          /\ Push(r1, e, urgent).run.seq = r1.seq + 1
          /\ Len(Push(r1, e, urgent).run.buffer) < FlushEvents
          /\ SameButEvents(Push(r1, e, urgent).run, r1)
          /\ (log \o Push(r1, e, urgent).sent) \o Push(r1, e, urgent).run.buffer
                = Append(log \o r1.buffer, e)
      BY <1>1, <1>3, <1>4, <3>1, PushFacts
    <3> QED BY <1>2, <1>3, <3>2, <3>3
  <2>2. CASE ~Kept(line)
    <3>1. rp = r1 /\ log' = log \o <<>>
      BY <1>2, <2>2
    <3>2. log' = log
      BY <1>1, <3>1
    <3>3. Len(run.buffer) < FlushEvents
      BY DEF TypeOK
    <3> QED BY <1>1, <1>3, <3>1, <3>2, <3>3 DEF SameButEvents
  <2> QED BY <2>1, <2>2
<1> HIDE DEF p, rp
<1>6. auto = (line.kind = "request" /\ run.cancel # "none" /\ r1.pending # None)
  BY <1>3, <1>5 DEF AutoCancel, SameButEvents
<1> HIDE DEF auto
<1>7. /\ r2 \in Runs /\ r2.ok = rp.ok /\ r2.failure = rp.failure /\ r2.discard = rp.discard
      /\ r2.secret = rp.secret /\ r2.awaiting = rp.awaiting /\ r2.cancel = rp.cancel
      /\ r2.completed = rp.completed /\ r2.seq = rp.seq /\ r2.buffer = rp.buffer
      /\ r2.pending = IF auto THEN None ELSE rp.pending
  <2>1. None \in 0 .. MaxRequests
    BY BoundsAssumption DEF None
  <2>2. CASE auto
    <3>1. r2 = [rp EXCEPT !.pending = None]
      BY <2>2
    <3>2. r2 \in Runs
      BY <1>5, <2>1, <3>1 DEF Runs
    <3> QED BY <1>5, <2>2, <3>1, <3>2 DEF Runs
  <2>3. CASE ~auto
    BY <1>5, <2>3
  <2> QED BY <2>2, <2>3
<1> HIDE DEF r2
<1>8. /\ run' \in Runs /\ run'.ok = r2.ok /\ run'.failure = r2.failure /\ run'.discard = r2.discard
      /\ run'.secret = r2.secret /\ run'.awaiting = r2.awaiting /\ run'.pending = r2.pending
      /\ run'.completed = r2.completed /\ run'.seq = r2.seq /\ run'.buffer = r2.buffer
      /\ run'.cancel = r2.cancel \/ run'.cancel = "forced"
  <2>1. CASE stop
    <3>1. run' = [r2 EXCEPT !.cancel = "forced"]
      BY <1>2, <2>1
    <3>2. run' \in Runs
      BY <1>7, <3>1 DEF Runs
    <3> QED BY <1>7, <3>1, <3>2 DEF Runs
  <2>2. CASE ~stop
    BY <1>2, <1>7, <2>2
  <2> QED BY <2>1, <2>2
<1> HIDE DEF stop
<1>9. /\ run'.ok = run.ok /\ run'.failure = run.failure /\ ~run'.discard
      /\ run'.secret = run.secret /\ run'.awaiting = r1.awaiting
      /\ run'.pending = IF auto THEN None ELSE r1.pending
      /\ run'.completed = IF line.kind = "done" THEN line.says ELSE run.completed
      /\ run'.cancel = run.cancel \/ run'.cancel = "forced"
      /\ Len(run'.buffer) < FlushEvents
  BY <1>1, <1>3, <1>5, <1>7, <1>8 DEF SameButEvents
<1>10. EventLog' /\ Clean(log') /\ Clean(run'.buffer)
  <2>1. CASE rp.seq = run.seq + 1 /\ log' \o rp.buffer = Append(log \o run.buffer, e)
    <3>1. run'.seq = run.seq + 1 /\ log' \o run'.buffer = Append(log \o run.buffer, e)
      BY <1>7, <1>8, <2>1
    <3> QED BY <1>1, <1>2, <1>4, <1>5, <1>8, <3>1, LogGrows
  <2>2. CASE rp.seq = run.seq /\ log' \o rp.buffer = log \o run.buffer
    BY <1>1, <1>2, <1>5, <1>7, <1>8, <2>2, LogStays DEF alive, Outcomes
  <2> QED BY <1>5, <2>1, <2>2
<1>11. auto => proc.st \notin {"new", "working"} /\ inp' = Append(inp, Cancelled(line.req))
               /\ line.req \in Requests /\ 1 \in Questions
  <2>1. ASSUME auto PROVE line.req \in Requests /\ 1 \in Questions
    <3>1. line.kind = "request"
      BY <1>6, <2>1
    <3>2. line.req # None /\ line.req \in 0 .. MaxRequests
      BY <1>1, <3>1 DEF Fine, Lines
    <3> QED BY <1>1, <3>1, <3>2, BoundsAssumption DEF Questions, Requests, None
  <2> QED BY <1>1, <1>2, <2>1 DEF OneQuestion
<1>12. /\ inp' \in Seq(Replies)
       /\ \A i \in DOMAIN inp' : inp'[i].answer = "values" => run.secret
       /\ auto /\ inp = <<>> => Len(inp') = 1 /\ inp'[1].req = line.req
  <2>1. CASE auto
    BY <1>11, <2>1, InpGrows DEF Cancelled
  <2>2. CASE ~auto
    BY <1>2, <2>2 DEF TypeOK, SecretsScrubbed
  <2> QED BY <2>1, <2>2
<1>13. TypeOK'
  BY <1>1, <1>2, <1>5, <1>8, <1>9, <1>12, SupervisorTypeOK DEF TypeOK
<1>14. SecretsScrubbed'
  <2>1. \A i \in DOMAIN out' : out'[i].secret => run.secret
    BY <1>1, <1>2, PipeRead
  <2> QED BY <1>2, <1>9, <1>10, <1>12, <2>1 DEF SecretsScrubbed, Clean
<1>15. OneQuestion'
  <2>1. /\ proc' = proc /\ line.req <= proc.asks /\ 0 <= proc.asks
        /\ run.pending <= proc.asks /\ run.awaiting <= proc.asks
        /\ ~(run.pending # None /\ run.awaiting # None)
        /\ proc.st = "new" => out = <<>>
    BY <1>1, <1>2 DEF OneQuestion, TypeOK, Processes
  <2>2. /\ proc.st \in {"new", "working"} => Questions' = {} /\ 1 \notin Questions
        /\ proc.st = "asking" => \A i \in Questions' : out'[i].req = proc.asks /\ Questions' = {i}
        /\ proc.st = "asking" /\ (1 \in Questions \/ Questions = {}) => Questions' = {}
        /\ \A i \in DOMAIN out' : out'[i].req <= proc.asks
    BY <1>1, <1>2, PipeRead
  <2>3. 1 \in Questions <=> line.kind \in {"request", "invalid"}
    BY <1>1 DEF Questions
  <2>4. run'.pending <= proc.asks /\ run'.awaiting <= proc.asks
    BY <1>3, <1>9, <2>1 DEF None
  <2>5. ~(run'.pending # None /\ run'.awaiting # None)
    BY <1>3, <1>9, <2>1
  <2>6. ASSUME proc.st \in {"new", "working"} PROVE inp' = <<>> /\ run'.pending = None /\ Questions' = {}
    BY <1>2, <1>3, <1>9, <1>11, <2>2, <2>3, <2>6 DEF OneQuestion
  <2>7. ASSUME proc.st = "asking"
        PROVE  /\ inp' # <<>> => /\ Len(inp') = 1 /\ inp'[1].req = proc.asks
                                 /\ run'.pending = None /\ Questions' = {}
               /\ run'.pending # None => run'.pending = proc.asks /\ Questions' = {}
    <3>1. CASE 1 \in Questions
      <4>1. inp = <<>> /\ run.pending = None /\ line.req = proc.asks /\ Questions' = {}
        BY <1>1, <2>2, <2>7, <3>1 DEF OneQuestion
      <4> QED BY <1>2, <1>3, <1>9, <1>12, <2>7, <4>1
    <3>2. CASE 1 \notin Questions
      <4>1. inp' = inp /\ run'.pending = run.pending
        BY <1>2, <1>3, <1>9, <1>11, <2>3, <3>2
      <4> QED BY <2>2, <2>7, <4>1 DEF OneQuestion
    <3> QED BY <3>1, <3>2
  <2>8. proc.st # "new"
    BY <1>1, <2>1
  <2> QED BY <2>1, <2>2, <2>4, <2>5, <2>6, <2>7, <2>8 DEF OneQuestion
<1>16. SoftCancelAsksNothing'
  <2> SUFFICES ASSUME run'.cancel = "soft", run'.pending # None PROVE run'.pending \in reopened'
    BY DEF SoftCancelAsksNothing
  <2>1. run.cancel = "soft" /\ ~auto /\ run'.pending = r1.pending
    BY <1>9
  <2>2. line.kind # "request"
    BY <1>6, <2>1
  <2>3. CASE r1.pending = run.pending
    BY <1>2, <2>1, <2>3 DEF SoftCancelAsksNothing
  <2>4. CASE r1.pending = line.req /\ line.kind = "invalid"
    BY <1>2, <2>1, <2>4
  <2> QED BY <1>3, <2>2, <2>3, <2>4
<1>17. LastWord'
  <2>1. \A i \in DOMAIN out' : out'[i].kind = "done" => i = Len(out') /\ out'[i].says = proc.said
    BY <1>1, <1>2, PipeRead
  <2>2. ASSUME ~run'.failure
        PROVE  \/ run'.completed = proc.said
               \/ run'.completed = "none" /\ out' # <<>> /\ out'[Len(out')].kind = "done"
    <3>1. CASE line.kind = "done"
      BY <1>1, <1>9, <3>1 DEF LastWord
    <3>2. CASE line.kind # "done"
      <4>1. run'.completed = run.completed
        BY <1>9, <3>2
      <4>2. out[Len(out)].kind = "done" => out' # <<>> /\ out'[Len(out')].kind = "done"
        BY <1>1, <1>2, <3>2, PipeRead
      <4> QED BY <1>9, <2>2, <4>1, <4>2 DEF LastWord
    <3> QED BY <3>1, <3>2
  <2> QED BY <1>2, <1>9, <2>1, <2>2 DEF LastWord
<1> QED BY <1>10, <1>13, <1>14, <1>15, <1>16, <1>17

\* Every line read keeps the run sound.
LEMMA IngestInv == ASSUME SupervisorInv, Ingest PROVE SupervisorInv'
  BY HandshakeInv, IngestedInv

-----------------------------------------------------------------------------
(* The end of a run.                                                       *)

\* Events numbered without a gap, none of which ends the job or shows a secret.
InOrder(all, n) ==
    /\ all \in Seq(Events) /\ n \in Nat /\ Len(all) = n
    /\ \A i \in DOMAIN all : all[i].seq = i /\ all[i].kind # "end" /\ ~all[i].secret

\* One more event continues the numbers.
LEMMA OrderGoesOn ==
  ASSUME NEW all, NEW n, InOrder(all, n), NEW e \in Events, e.seq = n + 1, ~e.secret
  PROVE  /\ Append(all, e) \in Seq(Events) /\ n + 1 \in Nat /\ Len(Append(all, e)) = n + 1
         /\ \A i \in DOMAIN Append(all, e) :
               /\ Append(all, e)[i].seq = i /\ ~Append(all, e)[i].secret
               /\ i # n + 1 => Append(all, e)[i].kind # "end"
         /\ n + 1 \in DOMAIN Append(all, e) /\ Append(all, e)[n + 1] = e
         /\ e.kind # "end" => InOrder(Append(all, e), n + 1)
<1>1. /\ all \in Seq(Events) /\ n \in Nat /\ Len(all) = n
      /\ \A i \in DOMAIN all : all[i].seq = i /\ all[i].kind # "end" /\ ~all[i].secret
  BY DEF InOrder
<1> DEFINE a == Append(all, e)
<1>2. /\ a \in Seq(Events) /\ Len(a) = n + 1
      /\ DOMAIN a = 1 .. n + 1 /\ DOMAIN all = 1 .. n
      /\ \A i \in 1 .. n : a[i] = all[i]
      /\ a[n + 1] = e
  BY <1>1, AppendFacts
<1> HIDE DEF a
<1>3. ASSUME NEW i \in DOMAIN a
      PROVE  a[i].seq = i /\ ~a[i].secret /\ (i # n + 1 => a[i].kind # "end")
  <2>1. CASE i = n + 1
    BY <1>2, <2>1
  <2>2. CASE i # n + 1
    <3>1. i \in 1 .. n
      BY <1>1, <1>2, <2>2
    <3> QED BY <1>1, <1>2, <3>1
  <2> QED BY <2>1, <2>2
<1>4. n + 1 \in Nat /\ n + 1 \in DOMAIN a
  BY <1>1, <1>2
<1>5. e.kind # "end" => InOrder(a, n + 1)
  BY <1>2, <1>3, <1>4 DEF InOrder
<1> QED BY <1>2, <1>3, <1>4, <1>5 DEF a

\* The verdict is pushed as the last event, after what was still running is
\* closed.
LEMMA FinalizeInv == ASSUME SupervisorInv, Finalize PROVE SupervisorInv'
<1> USE DEF SupervisorInv
<1>1. /\ run \in Runs /\ log \in Seq(Events) /\ run.buffer \in Seq(Events) /\ run.seq \in Nat
      /\ alive /\ proc.st = "ended" /\ out = <<>> /\ UNCHANGED <<proc, out, inp, signals, reopened>>
  BY DEF TypeOK, Runs, Finalize
<1> DEFINE all == log \o run.buffer
<1>2. InOrder(all, run.seq)
  <2>1. all \in Seq(Events)
    BY <1>1, ConcatFacts
  <2>2. Clean(all)
    BY <1>1, ConcatClean DEF SecretsScrubbed, Clean
  <2> QED BY <1>1, <2>1, <2>2 DEF InOrder, Clean, EventLog, alive, Outcomes
<1>3. CASE /\ outcome' = "left" /\ log' = log \o run.buffer
           /\ run' = [run EXCEPT !.buffer = <<>>]
  <2>1. <<>> \in Seq(Events)
    OBVIOUS
  <2>2. run' \in Runs
    BY <1>1, <1>3, <2>1 DEF Runs
  <2>3. run'.seq = run.seq /\ run'.buffer = <<>> /\ SameButEvents(run', run)
    BY <1>1, <1>3 DEF Runs, SameButEvents
  <2>4. log' \in Seq(Events)
    BY <1>1, <1>3, ConcatFacts
  <2>5. log' \o run'.buffer = log \o run.buffer
    BY <1>3, <2>3, <2>4
  <2>6. EventLog' /\ Clean(log') /\ Clean(run'.buffer)
    BY <1>1, <1>3, <2>2, <2>3, <2>4, <2>5, LogStays DEF Outcomes
  <2>7. TypeOK'
    <3>1. Len(run'.buffer) < FlushEvents
      BY <2>3, BoundsAssumption
    <3>2. outcome' \in Outcomes \cup {"none", "left"} /\ inp' \in Seq(Replies)
      BY <1>1, <1>3 DEF TypeOK
    <3> QED BY <1>1, <2>2, <2>4, <3>1, <3>2, SupervisorTypeOK
  <2>8. SecretsScrubbed'
    BY <1>1, <2>3, <2>6 DEF SecretsScrubbed, Clean, SameButEvents
  <2>9. OneQuestion' /\ SoftCancelAsksNothing' /\ LastWord'
    BY <1>1, <2>3 DEF OneQuestion, Questions, SoftCancelAsksNothing, LastWord, SameButEvents
  <2> QED BY <2>6, <2>7, <2>8, <2>9
<1> DEFINE e1 == Numbered(run, "event", FALSE)
           p == IF run.phase # "none" THEN Push(run, e1, FALSE) ELSE [run |-> run, sent |-> <<>>]
           rp == p.run
           l1 == log \o p.sent
           e2 == Numbered(rp, "end", FALSE)
           q == Push(rp, e2, TRUE)
<1>4. CASE outcome' = Judge(run, proc.zero) /\ run' = q.run /\ log' = l1 \o q.sent
  <2>1. e1 \in Events /\ e1.seq = run.seq + 1 /\ e1.kind = "event" /\ ~e1.secret
    <3>1. run.seq + 1 \in Nat
      BY <1>1
    <3> QED BY <3>1 DEF Numbered, Events
  <2> HIDE DEF e1
  <2>2. /\ rp \in Runs /\ l1 \in Seq(Events) /\ SameButEvents(rp, run)
        /\ InOrder(l1 \o rp.buffer, rp.seq)
    <3>1. CASE run.phase # "none"
      <4>1. p = Push(run, e1, FALSE)
        BY <3>1
      <4> HIDE DEF p
      <4>2. /\ rp \in Runs /\ l1 \in Seq(Events) /\ SameButEvents(rp, run)
            /\ l1 \o rp.buffer = Append(all, e1) /\ rp.seq = run.seq + 1
        BY <1>1, <2>1, <4>1, PushFacts
      <4> HIDE DEF rp, l1, all
      <4>3. InOrder(Append(all, e1), run.seq + 1)
        BY <1>2, <2>1, OrderGoesOn
      <4> QED BY <4>2, <4>3
    <3>2. CASE run.phase = "none"
      <4>1. rp = run /\ l1 = log \o <<>>
        BY <3>2
      <4> HIDE DEF p, l1
      <4>2. l1 = log
        BY <1>1, <4>1
      <4> QED BY <1>1, <1>2, <4>1, <4>2 DEF SameButEvents
    <3> QED BY <3>1, <3>2
  <2> HIDE DEF p, rp, l1
  <2>3. e2 \in Events /\ e2.seq = rp.seq + 1 /\ e2.kind = "end" /\ ~e2.secret
    <3>1. rp.seq + 1 \in Nat
      BY <2>2 DEF InOrder
    <3> QED BY <3>1 DEF Numbered, Events
  <2> HIDE DEF e2
  <2> DEFINE all1 == l1 \o rp.buffer
             all2 == log' \o run'.buffer
  <2>4. /\ run' \in Runs /\ log' \in Seq(Events) /\ run'.seq = rp.seq + 1
        /\ Len(run'.buffer) < FlushEvents /\ SameButEvents(run', rp)
        /\ all2 = Append(all1, e2)
    BY <1>4, <2>2, <2>3, PushFacts
  <2> HIDE DEF q
  <2>5. InOrder(all1, rp.seq)
    BY <2>2
  <2> HIDE DEF all1
  <2>6. /\ Len(all2) = run'.seq /\ run'.seq > 0
        /\ \A i \in DOMAIN all2 :
              all2[i].seq = i /\ ~all2[i].secret /\ (i # run'.seq => all2[i].kind # "end")
        /\ all2[run'.seq].kind = "end"
    <3>1. rp.seq \in Nat /\ rp.seq + 1 > 0
      BY <2>5 DEF InOrder
    <3> QED BY <2>3, <2>4, <2>5, <3>1, OrderGoesOn
  <2>7. outcome' \in Outcomes
    <3>1. run.completed \in Statuses \cup {"none"}
      BY <1>1 DEF Runs
    <3> QED BY <1>4, <3>1 DEF Judge, Outcomes, Statuses
  <2>8. EventLog'
    BY <2>6, <2>7 DEF EventLog
  <2>9. Clean(log') /\ Clean(run'.buffer)
    <3>1. Clean(all2)
      BY <2>6 DEF Clean
    <3>2. run'.buffer \in Seq(Events)
      BY <2>4 DEF Runs
    <3> QED BY <2>4, <3>1, <3>2, ConcatClean
  <2>10. TypeOK'
    BY <1>1, <2>4, <2>7, SupervisorTypeOK DEF TypeOK
  <2>11. SecretsScrubbed'
    BY <1>1, <2>2, <2>4, <2>9 DEF SecretsScrubbed, Clean, SameButEvents
  <2>12. OneQuestion' /\ SoftCancelAsksNothing' /\ LastWord'
    BY <1>1, <2>2, <2>4 DEF OneQuestion, Questions, SoftCancelAsksNothing, LastWord, SameButEvents
  <2> QED BY <2>8, <2>10, <2>11, <2>12
<1> QED BY <1>3, <1>4 DEF Finalize

\* SupervisorInv is inductive.
LEMMA NextInv == ASSUME SupervisorInv, [Next]_svars PROVE SupervisorInv'
<1>1. CASE UNCHANGED svars
  BY <1>1 DEF SupervisorInv, svars, TypeOK, EventLog, SecretsScrubbed, OneQuestion, Questions,
              SoftCancelAsksNothing, LastWord
<1>2. CASE Next
  BY <1>2, ProcessInv, IngestInv, IngestStderrInv, ViolationInv, FlushInv, AnswerInv, CancelSoftInv,
     SignalsInv, FinalizeInv DEF Next
<1> QED BY <1>1, <1>2

\* The state of a run is sound in every reachable state: typed, its events in
\* order and free of secrets, one question at a time, nobody asked after a soft
\* cancel, and the last word of the process not lost (supervisor.rs and
\* native/mod.rs, whatever the pipes, the timers, the operators and a script
\* that breaks the protocol do).
THEOREM SupervisorInvariance == Spec => []SupervisorInv
  BY InitInv, NextInv, PTL DEF Spec

\* An answer reaches the request it was given for or none (answer, cancel and
\* ingest of the supervisor, ask and reply of the process).
THEOREM AnswersMeet == Spec => []AnswersMeetTheirRequest
<1>1. SupervisorInv => AnswersMeetTheirRequest
  <2> SUFFICES ASSUME SupervisorInv, proc.st \in {"working", "asking"}, inp # <<>>
               PROVE  proc.st = "asking" /\ Len(inp) = 1 /\ Head(inp).req = proc.asks
    BY DEF AnswersMeetTheirRequest
  <2>1. proc.st = "asking" /\ Len(inp) = 1 /\ inp[1].req = proc.asks
    BY DEF SupervisorInv, OneQuestion
  <2>2. Head(inp) = inp[1]
    BY TailFacts DEF SupervisorInv, TypeOK
  <2> QED BY <2>1, <2>2
<1> QED BY <1>1, SupervisorInvariance, PTL

\* Nothing of a run that has its verdict moves.
LEMMA VerdictStands ==
  ASSUME SupervisorInv, outcome # "none", [Next]_svars
  PROVE  UNCHANGED <<proc, run, outcome>>
<1>1. proc.st = "ended"
  BY DEF SupervisorInv, LastWord
<1> QED
  BY <1>1 DEF Next, Process, Begin, Say, Asks, ReadsReply, Interrupted, Checks, Finish, Exit, Dies,
              Ingest, IngestStderr, Violation, Discard, Flush, Answer, CancelSoft, CancelForced, Kill,
              Stop, Finalize, alive, svars

\* The verdict is the truth: completed exactly if the process said so, ended
\* with status 0 and kept to the protocol (finalize and its verdict).
THEOREM VerdictHonest == Spec => []OutcomeHonest
<1>1. Init => OutcomeHonest
  BY DEF Init, OutcomeHonest, Outcomes
<1>2. ASSUME SupervisorInv, OutcomeHonest, [Next]_svars PROVE OutcomeHonest'
  <2>1. CASE outcome # "none"
    BY <1>2, <2>1, VerdictStands DEF OutcomeHonest
  <2>2. CASE outcome = "none" /\ ~Finalize
    <3>1. outcome' = outcome
      BY <1>2, <2>2 DEF Next, Process, ProcUnchanged, Begin, Say, Asks, ReadsReply, Interrupted, Checks,
                        Finish, Exit, Dies, Ingest, IngestStderr, Violation, Discard, Flush, Answer,
                        CancelSoft, CancelForced, Kill, Stop, svars
    <3> QED BY <2>2, <3>1 DEF OutcomeHonest, Outcomes
  <2>3. CASE Finalize /\ outcome' = Judge(run, proc.zero)
    <3>1. /\ run'.failure = run.failure /\ proc' = proc /\ run.failure \in BOOLEAN
          /\ proc.said \in Statuses \cup {"none"} /\ proc.zero \in BOOLEAN
          /\ ~run.failure => run.completed = proc.said
      <4>1. run \in Runs /\ proc \in Processes /\ out = <<>> /\ proc' = proc
        BY <1>2, <2>3 DEF SupervisorInv, TypeOK, Finalize
      <4>2. run'.failure = run.failure
        BY <2>3, <4>1 DEF Finalize, Push, Runs
      <4>3. ~run.failure => run.completed = proc.said
        BY <1>2, <4>1 DEF SupervisorInv, LastWord
      <4> QED BY <4>1, <4>2, <4>3 DEF Runs, Processes
    <3> QED BY <2>3, <3>1 DEF OutcomeHonest, Judge, Statuses, Outcomes
  <2>4. CASE Finalize /\ outcome' = "left"
    BY <2>4 DEF OutcomeHonest, Outcomes
  <2> QED BY <2>1, <2>2, <2>3, <2>4 DEF Finalize
<1> QED BY <1>1, <1>2, SupervisorInvariance, PTL DEF Spec

=============================================================================
