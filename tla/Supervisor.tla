----------------------------- MODULE Supervisor -----------------------------
(***************************************************************************)
(* One run of one job: the supervisor of bmacd (supervisor.rs) and the     *)
(* process it runs, joined by two pipes and by signals.                    *)
(*                                                                         *)
(* The process is a native operation as native/mod.rs writes it (Workflow: *)
(* begin, ask, reply, values, finish).  A script in another language may   *)
(* also break the protocol, forbid soft cancels, ignore SIGTERM or end     *)
(* without a word.  Every method of the supervisor holds the lock on its   *)
(* runs from beginning to end, so each is one action; what races is the    *)
(* pipes, the signals, the operators and the timers.                       *)
(*                                                                         *)
(* Left out: wording, activities, results and next steps (kept or dropped  *)
(* by size and number), the stdin writer, which only forwards lines,       *)
(* secrets shorter than MIN_SECRET, which nothing scrubs, and output still *)
(* unread when a descendant of a dead process holds the pipe open beyond   *)
(* the time finalize waits for the readers.                                *)
(***************************************************************************)
EXTENDS Integers, Sequences, SequencesExt

CONSTANTS
    MaxRequests,   \* bound: requests the process makes
    MaxEmits,      \* bound: lines the process writes
    FlushEvents,   \* how many buffered events are sent on at once
    BreaksProtocol \* whether the process is a script that may break the
                   \* protocol, not a native operation

ASSUME BoundsAssumption ==
    MaxRequests \in Nat /\ MaxEmits \in Nat /\ FlushEvents \in Nat \ {0} /\ BreaksProtocol \in BOOLEAN

VARIABLES
    proc,       \* the process
    out, inp,   \* its stdout and its stdin: lines written and not yet read
    signals,    \* signals sent to its group
    run,        \* the ActiveRun
    log,        \* events handed to the JobSink, in order
    outcome,    \* "none", "left" when bmacd stops, or how the job ended
    killTimer,  \* the task that sends SIGKILL later
    stopping,
    emits, reopened, forced  \* history: lines written, requests opened again,
                             \* whether a forced cancel was accepted

svars == <<proc, out, inp, signals, run, log, outcome, killTimer, stopping,
           emits, reopened, forced>>

None     == 0
Requests == 1..MaxRequests
Statuses == {"success", "failed", "cancelled"}
Outcomes == {"completed", "failed", "cancelled"}

\* A line of stdout.  `secret' says that it repeats a secret the operator
\* typed, `says' is the phase it opens or how the process says it ended.
Line(kind, req, secret, says) ==
    [kind |-> kind, req |-> req, secret |-> secret, says |-> says]
Plain(kind)  == Line(kind, None, FALSE, "none")
Text(secret) == Line("text", None, secret, "none")
Ask(r)       == Line("request", r, FALSE, "none")
Invalid(r)   == Line("invalid", r, FALSE, "none")
Phase(phase) == Line("phase", None, FALSE, phase)
Done(status) == Line("done", None, FALSE, status)

\* The running phases as the cancel rules see them: none, all safe to
\* interrupt, or one that is not.
Phases == {"none", "safe", "unsafe"}

-----------------------------------------------------------------------------
(* The process.                                                            *)

Emit(line) ==
    /\ emits < MaxEmits /\ emits' = emits + 1
    /\ out' = Append(out, line)

ProcUnchanged == UNCHANGED <<signals, run, log, outcome, killTimer, stopping, reopened, forced>>

Begin ==
    /\ proc.st = "new"
    /\ proc' = [proc EXCEPT !.st = "working"]
    /\ \E line \in {Plain("protocol")} \cup (IF BreaksProtocol THEN {Text(FALSE)} ELSE {}) :
          out' = Append(out, line)
    /\ UNCHANGED <<inp, emits>> /\ ProcUnchanged

\* It reports something; a script also says that it cannot be cancelled, or
\* writes a line that is too long.
Say ==
    /\ proc.st = "working"
    /\ \E line \in {Text(proc.knows)} \cup {Phase(p) : p \in Phases}
                     \cup (IF BreaksProtocol THEN {Plain("toolong"), Plain("nocancel")} ELSE {}) :
          Emit(line)
    /\ UNCHANGED <<proc, inp>> /\ ProcUnchanged

\* Workflow::ask, refused once a cancel was asked for.
Asks ==
    /\ proc.st = "working" /\ ~proc.token
    /\ proc.asks < MaxRequests
    /\ proc' = [proc EXCEPT !.st = "asking", !.asks = @ + 1]
    /\ Emit(Ask(proc.asks + 1))
    /\ UNCHANGED inp /\ ProcUnchanged

\* Workflow::reply: a cancel stops the operation whatever request it names,
\* an answer to another request is dropped.
ReadsReply ==
    /\ proc.st = "asking" /\ inp # <<>>
    /\ LET reply == Head(inp) IN
       \/ /\ reply.answer = "cancel"
          /\ proc' = [proc EXCEPT !.st = "stopped"]
          /\ UNCHANGED <<out, emits>>
       \/ /\ reply.answer = "values" /\ reply.req = proc.asks
          /\ \/ /\ proc' = [proc EXCEPT !.st = "working", !.knows = TRUE]
                /\ UNCHANGED <<out, emits>>
             \/ /\ proc' = [proc EXCEPT !.knows = TRUE]
                /\ Emit(Invalid(proc.asks))
       \/ /\ reply.answer = "values" /\ reply.req # proc.asks
          /\ UNCHANGED <<proc, out, emits>>
    /\ inp' = Tail(inp)
    /\ ProcUnchanged

\* SIGINT is a cancel; a process that waits or checks for it stops.
Interrupted ==
    /\ "INT" \in signals /\ proc.st \in {"working", "asking"} /\ ~proc.token
    /\ proc' = [proc EXCEPT !.token = TRUE,
                            !.st = IF @ = "asking" THEN "stopped" ELSE @]
    /\ UNCHANGED <<out, inp, emits>> /\ ProcUnchanged
Checks ==
    /\ proc.st = "working" /\ proc.token
    /\ proc' = [proc EXCEPT !.st = "stopped"]
    /\ UNCHANGED <<out, inp, emits>> /\ ProcUnchanged

\* Workflow::finish, and the exit it leads to.  The first and the last line are
\* not counted against the bound.
Finish ==
    /\ proc.st \in {"working", "stopped"}
    /\ \E status \in (IF proc.st = "stopped" THEN {"cancelled"} ELSE {"success", "failed"}) :
          /\ proc' = [proc EXCEPT !.st = "finished", !.said = status]
          /\ out' = Append(out, Done(status))
    /\ UNCHANGED <<inp, emits>> /\ ProcUnchanged
Exit ==
    /\ proc.st = "finished"
    /\ proc' = [proc EXCEPT !.st = "ended", !.zero = (proc.said = "success")]
    /\ UNCHANGED <<out, inp, emits>> /\ ProcUnchanged

\* It ends without finishing, of itself or from a signal, as a script may.
Dies(zero) ==
    /\ proc.st # "ended"
    /\ proc' = [proc EXCEPT !.st = "ended", !.zero = zero]
    /\ UNCHANGED <<out, inp, emits>> /\ ProcUnchanged

-----------------------------------------------------------------------------
(* The supervisor.                                                         *)

alive == outcome = "none"

NewRun == [ok |-> FALSE, failure |-> FALSE, pending |-> None, awaiting |-> None,
           cancel |-> "none", completed |-> "none", phase |-> "none", supports |-> TRUE,
           secret |-> FALSE, discard |-> FALSE, seq |-> 0, buffer |-> <<>>]

\* An event: its number, whether it ends the job, and whether it shows a secret.
Numbered(r, kind, secret) == [seq |-> r.seq + 1, kind |-> kind, secret |-> secret]

\* Supervisor::push: the event, and what the sink gets now.
Push(r, e, urgent) ==
    LET all == Append(r.buffer, e)
        now == urgent \/ Len(all) >= FlushEvents
    IN [run  |-> [r EXCEPT !.seq = @ + 1, !.buffer = IF now THEN <<>> ELSE all],
        sent |-> IF now THEN all ELSE <<>>]

\* Scrubbing replaces a remembered secret by a mark.
Scrub(r, line) == line.secret /\ ~r.secret

\* A refused answer opens its request again.
Reopen(r, req) ==
    IF r.awaiting = req THEN [r EXCEPT !.pending = req, !.awaiting = None] ELSE r

\* Supervisor::apply: what one event changes.
Applied(r, line) ==
    CASE line.kind = "request" -> [r EXCEPT !.pending = line.req, !.awaiting = None]
      [] line.kind = "invalid" -> Reopen(r, line.req)
      [] line.kind = "phase" -> [r EXCEPT !.phase = line.says]
      [] line.kind = "nocancel" -> [r EXCEPT !.supports = FALSE]
      [] line.kind = "done" -> [r EXCEPT !.completed = line.says]
      [] OTHER -> r

\* The handshake: the first line of stdout decides.
Handshake(r, line) == ~r.ok /\ ~r.failure
Greeted(r, line) ==
    IF line.kind = "protocol" THEN [r EXCEPT !.ok = TRUE] ELSE [r EXCEPT !.failure = TRUE]

Kept(line) == line.kind \notin {"protocol", "nocancel", "done"}

\* A request that arrives after a cancel is answered with a cancel at once.
AutoCancel(r, line) == line.kind = "request" /\ r.cancel # "none" /\ r.pending # None

Cancelled(r) == [req |-> r, answer |-> "cancel"]

\* Supervisor::ingest of one stdout line that is not too long.
Ingest ==
    /\ alive /\ out # <<>>
    /\ ~run.discard /\ Head(out).kind # "toolong"
    /\ LET line  == Head(out)
           shake == Handshake(run, line)
           r1    == IF shake THEN Greeted(run, line) ELSE Applied(run, line)
           p     == IF ~shake /\ Kept(line)
                    THEN Push(r1, Numbered(run, "event", Scrub(run, line)), line.kind # "text")
                    ELSE [run |-> r1, sent |-> <<>>]
           auto  == AutoCancel(p.run, line)
           r2    == IF auto THEN [p.run EXCEPT !.pending = None] ELSE p.run
           stop  == r2.failure /\ r2.cancel = "none"
       IN /\ run' = IF stop THEN [r2 EXCEPT !.cancel = "forced"] ELSE r2
          /\ log' = log \o p.sent
          /\ inp' = IF auto THEN Append(inp, Cancelled(line.req)) ELSE inp
          /\ signals' = IF stop THEN signals \cup {"TERM"} ELSE signals
          /\ reopened' = IF line.kind = "invalid" /\ r1.pending = line.req
                         THEN reopened \cup {line.req} ELSE reopened
    /\ out' = Tail(out)
    /\ UNCHANGED <<proc, outcome, killTimer, stopping, emits, forced>>

\* A line of stderr, which needs no handshake and has a reader of its own: it
\* is read as late as after the process has ended.
IngestStderr ==
    /\ alive
    /\ emits < MaxEmits /\ emits' = emits + 1
    /\ LET p == Push(run, Numbered(run, "event", Scrub(run, Text(proc.knows))), FALSE)
       IN run' = p.run /\ log' = log \o p.sent
    /\ UNCHANGED <<proc, out, inp, signals, outcome, killTimer, stopping, reopened, forced>>

\* Supervisor::violation, and the lines read_stream drops after one.
Violation ==
    /\ alive /\ out # <<>>
    /\ ~run.discard /\ Head(out).kind = "toolong"
    /\ run' = [run EXCEPT !.failure = TRUE, !.discard = TRUE,
                          !.cancel = IF @ = "none" THEN "forced" ELSE @]
    /\ signals' = IF run.cancel = "none" THEN signals \cup {"TERM"} ELSE signals
    /\ out' = Tail(out)
    /\ UNCHANGED <<proc, inp, log, outcome, killTimer, stopping, emits, reopened, forced>>
Discard ==
    /\ alive /\ out # <<>> /\ run.discard
    /\ out' = Tail(out)
    /\ UNCHANGED <<proc, inp, signals, run, log, outcome, killTimer, stopping, emits,
                   reopened, forced>>

\* Supervisor::flush, every 80 ms.
Flush ==
    /\ alive /\ run.buffer # <<>>
    /\ log' = log \o run.buffer
    /\ run' = [run EXCEPT !.buffer = <<>>]
    /\ UNCHANGED <<proc, out, inp, signals, outcome, killTimer, stopping, emits,
                   reopened, forced>>

\* A typed secret is remembered, to be scrubbed from then on.
Remember_never(r, a) == r
Remember(r, a) == [r EXCEPT !.secret = @ \/ a = "values"]

\* An answer is taken only for the request that waits.
Waits_anyRequest(r, req) == r.pending # None \/ r.awaiting = req
Waits(r, req) == r.pending = req

\* Supervisor::answer with values, which hold a secret, or with a cancel.
Answer(req, a) ==
    /\ alive /\ Waits(run, req)
    /\ inp' = Append(inp, [req |-> req, answer |-> a])
    /\ LET r == [Remember(run, a) EXCEPT
                    !.pending = None, !.awaiting = req,
                    !.cancel = IF a = "cancel" /\ @ = "none" THEN "soft" ELSE @]
           p == Push(r, Numbered(r, "event", FALSE), TRUE)
       IN run' = p.run /\ log' = log \o p.sent
    /\ UNCHANGED <<proc, out, signals, outcome, killTimer, stopping, emits, reopened, forced>>

CancelAllowed(r) == (r.supports /\ r.phase # "unsafe") \/ r.pending # None

\* Whether a soft cancel is a signal.
Interrupts_unlessAnswered(r) == r.pending = None /\ r.awaiting = None
Interrupts(r) == r.pending = None

\* Supervisor::cancel, soft: a pending request is answered with a cancel, or
\* the process is interrupted.
CancelSoft ==
    /\ alive /\ CancelAllowed(run)
    /\ run' = [run EXCEPT !.pending = None, !.cancel = IF @ = "forced" THEN @ ELSE "soft"]
    /\ inp' = IF run.pending # None THEN Append(inp, Cancelled(run.pending)) ELSE inp
    /\ signals' = IF Interrupts(run) THEN signals \cup {"INT"} ELSE signals
    /\ UNCHANGED <<proc, out, log, outcome, killTimer, stopping, emits, reopened, forced>>

\* Only the first forced cancel starts the task that kills.
FirstForced(r) == r.cancel # "forced"

\* Supervisor::cancel, forced.
CancelForced ==
    /\ alive
    /\ run' = [run EXCEPT !.cancel = "forced"]
    /\ signals' = signals \cup {"TERM"}
    /\ killTimer' = (killTimer \/ FirstForced(run))
    /\ forced' = TRUE
    /\ UNCHANGED <<proc, out, inp, log, outcome, stopping, emits, reopened>>

Kill ==
    /\ alive /\ killTimer /\ "KILL" \notin signals
    /\ signals' = signals \cup {"KILL"}
    /\ UNCHANGED <<proc, out, inp, run, log, outcome, killTimer, stopping, emits,
                   reopened, forced>>

\* Supervisor::stop: bmacd is asked to end.
Stop ==
    /\ ~stopping
    /\ stopping' = TRUE
    /\ signals' = IF alive THEN signals \cup {"TERM"} ELSE signals
    /\ UNCHANGED <<proc, out, inp, run, log, outcome, killTimer, emits, reopened, forced>>

\* How the job ended: never the process's word alone.
Judge_cancelFirst(r, zero) ==
    IF r.cancel # "none" /\ ~r.failure THEN "cancelled"
    ELSE IF ~r.failure /\ r.completed = "success" /\ zero THEN "completed" ELSE "failed"
Judge(r, zero) ==
    CASE r.failure -> "failed"
      [] ~r.failure /\ r.completed = "success" -> IF zero THEN "completed" ELSE "failed"
      [] ~r.failure /\ r.completed = "failed" -> "failed"
      [] ~r.failure /\ r.completed = "cancelled" -> "cancelled"
      [] ~r.failure /\ r.completed = "none" ->
            IF r.cancel # "none" THEN "cancelled" ELSE "failed"

\* Supervisor::finalize, once the process has ended and its output is read:
\* the phases still running are closed and the last event is pushed.
Finalize ==
    /\ alive /\ proc.st = "ended" /\ out = <<>>
    /\ IF stopping /\ run.completed = "none" /\ run.cancel = "none" /\ ~run.failure
       THEN /\ outcome' = "left"
            /\ log' = log \o run.buffer
            /\ run' = [run EXCEPT !.buffer = <<>>]
       ELSE /\ outcome' = Judge(run, proc.zero)
            /\ LET p == IF run.phase # "none"
                        THEN Push(run, Numbered(run, "event", FALSE), FALSE)
                        ELSE [run |-> run, sent |-> <<>>]
                   q == Push(p.run, Numbered(p.run, "end", FALSE), TRUE)
               IN /\ run' = q.run
                  /\ log' = log \o p.sent \o q.sent
    /\ UNCHANGED <<proc, out, inp, signals, killTimer, stopping, emits, reopened, forced>>

-----------------------------------------------------------------------------

Init ==
    /\ proc = [st |-> "new", asks |-> 0, token |-> FALSE, knows |-> FALSE,
               said |-> "none", zero |-> FALSE]
    /\ out = <<>> /\ inp = <<>> /\ signals = {}
    /\ run = NewRun /\ log = <<>> /\ outcome = "none"
    /\ killTimer = FALSE /\ stopping = FALSE
    /\ emits = 0 /\ reopened = {} /\ forced = FALSE

Process ==
    \/ Begin \/ Say \/ Asks \/ ReadsReply \/ Interrupted \/ Checks \/ Finish \/ Exit
    \/ \E zero \in BOOLEAN : Dies(zero)

Next ==
    \/ Process
    \/ Ingest \/ IngestStderr \/ Violation \/ Discard \/ Flush
    \/ \E r \in Requests, a \in {"values", "cancel"} : Answer(r, a)
    \/ CancelSoft \/ CancelForced \/ Kill \/ Stop \/ Finalize

Spec == Init /\ [][Next]_svars

\* The readers, the timers and the kernel go on.  No operator has to answer or
\* cancel, and the process may hang.
Fairness ==
    /\ WF_svars(Ingest) /\ WF_svars(Violation) /\ WF_svars(Discard)
    /\ WF_svars(Kill) /\ WF_svars(Finalize)
    /\ WF_svars("KILL" \in signals /\ Dies(FALSE))

\* What a process adds that does not hang in its own work: it reads its input
\* and goes on to its end.
NativeFairness ==
    /\ WF_svars(Begin) /\ WF_svars(ReadsReply) /\ WF_svars(Interrupted)
    /\ WF_svars(Finish) /\ WF_svars(Exit)

FairSpec == Spec /\ Fairness

-----------------------------------------------------------------------------
(* Properties.                                                             *)

Lines ==
    [kind : {"protocol", "text", "toolong", "nocancel", "phase", "request", "invalid", "done"},
     req : 0..MaxRequests, secret : BOOLEAN, says : Phases \cup Statuses]
Replies == [req : Requests, answer : {"values", "cancel"}]
Events == [seq : Nat, kind : {"event", "end"}, secret : BOOLEAN]
Processes ==
    [st : {"new", "working", "asking", "stopped", "finished", "ended"}, asks : 0..MaxRequests,
     token : BOOLEAN, knows : BOOLEAN, said : Statuses \cup {"none"}, zero : BOOLEAN]
Runs ==
    [ok : BOOLEAN, failure : BOOLEAN, pending : 0..MaxRequests, awaiting : 0..MaxRequests,
     cancel : {"none", "soft", "forced"}, completed : Statuses \cup {"none"}, phase : Phases,
     supports : BOOLEAN, secret : BOOLEAN, discard : BOOLEAN, seq : Nat, buffer : Seq(Events)]

\* Every variable has its type; the buffer is below its limit.
TypeOK ==
    /\ proc \in Processes /\ run \in Runs
    /\ out \in Seq(Lines) /\ inp \in Seq(Replies) /\ log \in Seq(Events)
    /\ \A i \in DOMAIN out :
          /\ out[i].kind \in {"request", "invalid"} => out[i].req # None
          /\ out[i].kind = "phase" => out[i].says \in Phases
          /\ out[i].kind = "done" => out[i].says \in Statuses
    /\ signals \subseteq {"INT", "TERM", "KILL"}
    /\ outcome \in Outcomes \cup {"none", "left"}
    /\ Len(run.buffer) < FlushEvents

\* The events of a run are numbered without a gap in the order the sink gets
\* them, whatever the two readers, the flush timer and the operators do, and
\* the event that ends the job is its last ("in order", JobSink).
EventLog ==
    LET all == log \o run.buffer IN
    /\ Len(all) = run.seq
    /\ \A i \in DOMAIN all :
          all[i].seq = i /\ (all[i].kind = "end" => i = Len(all) /\ outcome \in Outcomes)
    /\ outcome \in Outcomes => run.seq > 0 /\ all[run.seq].kind = "end"

\* No event shows a secret an operator typed in this run, although the process
\* may repeat it as soon as it has read it ("scrubbed from every later event"):
\* whatever holds the secret came after the run remembered it.
SecretsScrubbed ==
    /\ \A i \in DOMAIN log : ~log[i].secret
    /\ \A i \in DOMAIN run.buffer : ~run.buffer[i].secret
    /\ proc.knows => run.secret
    /\ \A i \in DOMAIN out : out[i].secret => run.secret
    /\ \A i \in DOMAIN inp : inp[i].answer = "values" => run.secret

\* A process that waits for an answer has one question under way, and it is in
\* one place: in the pipe to the supervisor, with the operators, or answered
\* in the pipe back.  A process at work has none (ask, reply, answer, cancel,
\* and the cancel sent for a request that comes too late).
Questions == {i \in DOMAIN out : out[i].kind \in {"request", "invalid"}}
OneQuestion ==
    /\ proc.st = "new" => out = <<>>
    /\ proc.st \in {"new", "working"} => inp = <<>> /\ run.pending = None /\ Questions = {}
    /\ proc.st = "asking" =>
          /\ inp # <<>> => /\ Len(inp) = 1 /\ inp[1].req = proc.asks
                           /\ run.pending = None /\ Questions = {}
          /\ run.pending # None => run.pending = proc.asks /\ Questions = {}
          /\ \A i \in Questions : out[i].req = proc.asks /\ Questions = {i}
    /\ run.pending <= proc.asks /\ run.awaiting <= proc.asks
    /\ \A i \in DOMAIN out : out[i].req <= proc.asks
    /\ ~(run.pending # None /\ run.awaiting # None)

\* Unless the process broke the protocol, the supervisor has its last word or
\* finds it at the end of the pipe, and its first word is the handshake
\* (begin, finish, ingest).
LastWord ==
    /\ run.discard => run.failure
    /\ outcome # "none" => proc.st = "ended"
    /\ proc.said # "none" => proc.st \in {"finished", "ended"}
    /\ ~run.ok /\ ~run.failure =>
          IF out = <<>> THEN proc.st \in {"new", "ended"} /\ proc.said = "none"
                        ELSE out[1].kind \in {"protocol", "text"}
    /\ \A i \in DOMAIN out : out[i].kind = "done" => i = Len(out) /\ out[i].says = proc.said
    /\ ~run.failure =>
          \/ run.completed = proc.said
          \/ run.completed = "none" /\ out # <<>> /\ out[Len(out)].kind = "done"

\* An answer reaches the request it was given for or none: nothing waits in
\* the pipe when the process goes on to another request (answer, cancel, and
\* the cancel sent for a request that comes too late).
AnswersMeetTheirRequest ==
    proc.st \in {"working", "asking"} /\ inp # <<>> =>
        /\ proc.st = "asking" /\ Len(inp) = 1
        /\ Head(inp).req = proc.asks

\* Once a soft cancel is accepted no request waits for an operator, except one
\* the process opened again after refusing an answer.
SoftCancelAsksNothing ==
    run.cancel = "soft" /\ run.pending # None => run.pending \in reopened

\* The state of a run is sound: typed, its events in order and free of secrets,
\* one question at a time, nobody asked after a soft cancel, and the last word
\* of the process not lost.
SupervisorInv ==
    TypeOK /\ EventLog /\ SecretsScrubbed /\ OneQuestion /\ SoftCancelAsksNothing /\ LastWord

\* The verdict is the truth: a job is completed exactly if its process said
\* so, ended with status 0 and kept to the protocol, also when it was
\* cancelled too late ("decided here, not taken from the script's word").
OutcomeHonest ==
    outcome \in Outcomes =>
        (outcome = "completed" <=> proc.said = "success" /\ proc.zero /\ ~run.failure)

\* A forced cancel of a process that kept to the protocol ends the run, also
\* if the process ignores SIGTERM and SIGINT and hangs (cancel).
ForcedEnds ==
    (alive /\ forced /\ ~run.failure) ~> (~alive \/ run.failure)

\* A soft cancel of a process that keeps to the protocol and does not hang ends
\* it without anybody answering: the request it waits for, one on its way or
\* one asked later is answered, or the operation is interrupted (cancel,
\* ingest, Workflow::reply).
SoftCancelEnds ==
    NativeFairness =>
        ((alive /\ run.cancel = "soft" /\ ~run.failure) ~> (~alive \/ run.failure))

\* A cancel of a process that kept to the protocol ends the run, forced or
\* soft.
CancelsEnd == ForcedEnds /\ SoftCancelEnds

\* A forced cancel always leads to SIGKILL for a process that does not stop
\* ("A forced cancel terminates the process group, then kills it if it hasn't
\* stopped").
ForcedIsKilled ==
    forced /\ alive => killTimer

=============================================================================
