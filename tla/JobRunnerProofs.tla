-------------------------- MODULE JobRunnerProofs --------------------------
(***************************************************************************)
(* What JobRunner guarantees for every cluster, every job and launch, and  *)
(* every history of crashes, restarts, splits and lost answers.            *)
(*                                                                         *)
(* The argument: a live script's record keeps the lease the script was     *)
(* started under (ScriptsHoldLocks).  So a record in line for a host whose *)
(* script lives is in line for that very host, which does not claim a job  *)
(* it runs, and an end reported under another nonce is refused.  Most      *)
(* steps change records `gently', start no script and know every end they  *)
(* wait to record; the claim, the recorded end and the operator's          *)
(* intervention are the steps that need an argument of their own.          *)
(***************************************************************************)
EXTENDS JobRunner, JobsProofs

Inv == IInv /\ RunnerInv /\ SingleScript /\ ReportedIsTrue

-----------------------------------------------------------------------------
(* What a step does to the runs.                                           *)

\* The step starts no script, and what lives keeps its nonce.
StartsNone ==
    \A h \in Hosts : \A j \in DOMAIN runs'[h] :
        runs'[h][j].script = "live" =>
            Live(h, j) /\ runs'[h][j].nonce = runs[h][j].nonce

\* What the runs of the next state need, however it was reached.
RunsFine == RunsTypeOK' /\ EndsKnown' /\ StartsNone

\* A step that sets a run sets that run only.
LEMMA SetRunFacts ==
  ASSUME DOMAIN runs = Hosts, NEW h \in Hosts, NEW j, NEW r, SetRun(h, j, r)
  PROVE  /\ DOMAIN runs' = Hosts
         /\ \A g \in Hosts \ {h} : runs'[g] = runs[g]
         /\ DOMAIN runs'[h] = DOMAIN runs[h] \cup {j}
         /\ runs'[h][j] = r
         /\ \A i \in DOMAIN runs[h] \ {j} : runs'[h][i] = runs[h][i]
<1>1. runs' = [runs EXCEPT ![h] = Put(runs[h], j, r)]
  BY DEF SetRun
<1>2. DOMAIN runs' = Hosts /\ runs'[h] = Put(runs[h], j, r)
      /\ \A g \in Hosts \ {h} : runs'[g] = runs[g]
  BY <1>1
<1> QED BY <1>2 DEF Put

\* A step that drops a run drops that run only.
LEMMA DropFacts ==
  ASSUME DOMAIN runs = Hosts, NEW h \in Hosts, NEW j, Drop(h, j)
  PROVE  /\ DOMAIN runs' = Hosts
         /\ \A g \in Hosts \ {h} : runs'[g] = runs[g]
         /\ DOMAIN runs'[h] = DOMAIN runs[h] \ {j}
         /\ \A i \in DOMAIN runs[h] \ {j} : runs'[h][i] = runs[h][i]
<1>1. runs' = [runs EXCEPT ![h] = Without(runs[h], j)]
  BY DEF Drop
<1>2. DOMAIN runs' = Hosts /\ runs'[h] = Without(runs[h], j)
      /\ \A g \in Hosts \ {h} : runs'[g] = runs[g]
  BY <1>1
<1> QED BY <1>2 DEF Without

\* Changing a run in place is fine, if it is not revived and its end is known.
LEMMA ChangeRun ==
  ASSUME RunsTypeOK, EndsKnown, NEW h \in Hosts, NEW j \in Active(h), NEW r \in Run,
         SetRun(h, j, r), Working(h),
         r.nonce = runs[h][j].nonce,
         r.script = "live" => runs[h][j].script = "live",
         r.script # "live" => <<r.nonce, r.script>> \in ends',
         ends \subseteq ends', UNCHANGED <<daemon, issued, nonces>>
  PROVE  RunsFine
<1>1. DOMAIN runs = Hosts
  BY DEF RunsTypeOK
<1>2. /\ DOMAIN runs' = Hosts
      /\ \A g \in Hosts \ {h} : runs'[g] = runs[g]
      /\ DOMAIN runs'[h] = DOMAIN runs[h]
      /\ runs'[h][j] = r
      /\ \A i \in DOMAIN runs[h] \ {j} : runs'[h][i] = runs[h][i]
  BY <1>1, SetRunFacts DEF Active
<1>3. RunsTypeOK'
  BY <1>2 DEF RunsTypeOK, Active, Working
<1>4. EndsKnown'
  BY <1>2 DEF EndsKnown, Active
<1>5. StartsNone
  BY <1>2 DEF StartsNone, Live, Active
<1> QED BY <1>3, <1>4, <1>5 DEF RunsFine

\* Dropping a run is fine.
LEMMA DropRun ==
  ASSUME RunsTypeOK, EndsKnown, NEW h \in Hosts, NEW j, Drop(h, j), Working(h),
         ends \subseteq ends', UNCHANGED <<daemon, issued, nonces>>
  PROVE  RunsFine
<1>1. DOMAIN runs = Hosts
  BY DEF RunsTypeOK
<1>2. /\ DOMAIN runs' = Hosts
      /\ \A g \in Hosts \ {h} : runs'[g] = runs[g]
      /\ DOMAIN runs'[h] = DOMAIN runs[h] \ {j}
      /\ \A i \in DOMAIN runs[h] \ {j} : runs'[h][i] = runs[h][i]
  BY <1>1, DropFacts
<1>3. RunsTypeOK'
  BY <1>2 DEF RunsTypeOK, Active, Working
<1>4. EndsKnown'
  BY <1>2 DEF EndsKnown, Active
<1>5. StartsNone
  BY <1>2 DEF StartsNone, Live, Active
<1> QED BY <1>3, <1>4, <1>5 DEF RunsFine

\* Leaving the runs alone is fine; ids and nonces may be drawn meanwhile.
LEMMA KeepRuns ==
  ASSUME RunsTypeOK, EndsKnown, UNCHANGED <<runs, ends>>,
         \A h \in Hosts : daemon'[h] = "down" => daemon[h] = "down",
         issued \subseteq issued', nonces \in Nat, nonces' \in {nonces, nonces + 1}
  PROVE  RunsFine
<1>1. \A n \in 1..nonces : n \in 1..nonces'
  OBVIOUS
<1>2. RunsTypeOK'
  BY <1>1 DEF RunsTypeOK, Active
<1>3. EndsKnown'
  BY DEF EndsKnown, Active
<1>4. StartsNone
  BY DEF StartsNone, Live, Active
<1> QED BY <1>2, <1>3, <1>4 DEF RunsFine

-----------------------------------------------------------------------------
(* What a step does to the records.                                        *)

\* The lease stays with its host and run, and nobody reports an end.
SameRun(o, r) ==
    /\ r.lease.nonce = o.lease.nonce /\ r.lease.holder = o.lease.holder
    /\ r.message = "reported" => o.message = "reported" /\ r.state = o.state

\* How renewing, cancelling, interrupting, sweeping and a host's own resuming
\* change a record.
Gentle(o, r) ==
    /\ SameRun(o, r)
    /\ r.state = "admitted" =>
          \/ r.target = o.lease.holder
          \/ o.state = "admitted" /\ r.target = o.target
    /\ r.state \in Terminal =>
          \/ r.message \in {"never_started", "cancelled_early"}
          \/ o.state \in Terminal /\ r.message = o.message

\* A record the step adds is of a job whose id was never drawn.
Added(j, r) == j \notin issued /\ r.message # "reported"

Gently ==
    \A j \in DOMAIN records' :
        \/ j \in DOMAIN records /\ Gentle(records[j], records'[j])
        \/ Added(j, records'[j])

\* A gentle step that starts no script keeps every live script's record, the
\* single scripts single and the reported ends true.
LEMMA GentleStep ==
  ASSUME Inv, Gently, StartsNone, UNCHANGED careless, ends \subseteq ends', IInv'
  PROVE  ScriptsHoldLocks' /\ SingleScript' /\ ReportedIsTrue'
<1>1. ScriptsHoldLocks'
  <2> SUFFICES ASSUME ~careless, NEW h \in Hosts, NEW j \in DOMAIN records',
                      j \in DOMAIN runs'[h], runs'[h][j].script = "live"
               PROVE  /\ records'[j].lease.holder = h
                      /\ records'[j].lease.nonce = runs'[h][j].nonce
                      /\ records'[j].state = "admitted" => records'[j].target = h
                      /\ \/ records'[j].state \in Unfinished
                         \/ records'[j].message \in {"never_started", "cancelled_early"}
    BY DEF ScriptsHoldLocks, Live, Active
  <2>1. Live(h, j) /\ runs'[h][j].nonce = runs[h][j].nonce
    BY DEF StartsNone
  <2>2. j \in issued
    BY <2>1 DEF Inv, RunnerInv, RunnerTypeOK, RunsTypeOK, Live
  <2>3. j \in DOMAIN records /\ Gentle(records[j], records'[j])
    BY <2>2 DEF Gently, Added
  <2>4. /\ records[j].lease.holder = h
        /\ records[j].lease.nonce = runs[h][j].nonce
        /\ records[j].state = "admitted" => records[j].target = h
        /\ \/ records[j].state \in Unfinished
           \/ records[j].message \in {"never_started", "cancelled_early"}
    BY <2>1, <2>3 DEF Inv, RunnerInv, ScriptsHoldLocks
  <2>5. records'[j].state \in Unfinished \cup Terminal
    BY DEF IInv, Sound, WellFormed, JobRecord
  <2> QED BY <2>1, <2>3, <2>4, <2>5 DEF Gentle, SameRun, Unfinished, Terminal
<1>2. SingleScript'
  BY DEF SingleScript, Live, Active, StartsNone, Inv
<1>3. ReportedIsTrue'
  BY DEF ReportedIsTrue, Gently, Gentle, SameRun, Added, Inv
<1> QED BY <1>1, <1>2, <1>3

\* A record that does not change is changed gently.
LEMMA GentleNothing ==
  ASSUME NEW r PROVE Gentle(r, r)
<1> QED BY DEF Gentle, SameRun

\* A step that changes no record changes them gently.
LEMMA GentlyNothing ==
  ASSUME UNCHANGED records PROVE Gently
<1> QED BY GentleNothing DEF Gently

\* An operation that changes one record gently, and perhaps prunes.
LEMMA GentleOne ==
  ASSUME NEW j \in DOMAIN records, NEW r, Gentle(records[j], r),
         \/ records' = [records EXCEPT ![j] = r]
         \/ records' \in Prune([records EXCEPT ![j] = r])
  PROVE  Gently
<1> DEFINE Q == [records EXCEPT ![j] = r]
<1>1. DOMAIN Q = DOMAIN records /\ \A i \in DOMAIN records : Gentle(records[i], Q[i])
  BY GentleNothing
<1> HIDE DEF Q
<1>2. records' = Q \/ records' \in Prune(Q)
  BY DEF Q
<1>3. DOMAIN records' \subseteq DOMAIN Q /\ \A i \in DOMAIN records' : records'[i] = Q[i]
  BY <1>2, PruneKeeps
<1> QED BY <1>1, <1>3 DEF Gently

\* A job without a live script may change as it likes, as long as an end that
\* is reported of it is true.
LEMMA QuietJob ==
  ASSUME Inv, StartsNone, careless' \in BOOLEAN, ends \subseteq ends', NEW j,
         ~careless' => ~careless /\ NoScriptLeft(j),
         \A i \in DOMAIN records' :
             i \in DOMAIN records /\ (i # j => records'[i] = records[i]),
         j \in DOMAIN records' /\ records'[j].message = "reported" =>
             <<records'[j].lease.nonce, records'[j].state>> \in ends'
  PROVE  ScriptsHoldLocks' /\ SingleScript' /\ ReportedIsTrue'
<1>1. ScriptsHoldLocks'
  <2> SUFFICES ASSUME ~careless', NEW h \in Hosts, NEW i \in DOMAIN records',
                      i \in DOMAIN runs'[h], runs'[h][i].script = "live"
               PROVE  /\ records'[i].lease.holder = h
                      /\ records'[i].lease.nonce = runs'[h][i].nonce
                      /\ records'[i].state = "admitted" => records'[i].target = h
                      /\ \/ records'[i].state \in Unfinished
                         \/ records'[i].message \in {"never_started", "cancelled_early"}
    BY DEF ScriptsHoldLocks, Live, Active
  <2>1. Live(h, i) /\ runs'[h][i].nonce = runs[h][i].nonce
    BY DEF StartsNone
  <2>2. i # j
    BY <2>1 DEF NoScriptLeft
  <2> QED BY <2>1, <2>2 DEF Inv, RunnerInv, ScriptsHoldLocks
<1>2. SingleScript'
  BY DEF SingleScript, Live, Active, StartsNone, Inv
<1>3. ReportedIsTrue'
  BY DEF ReportedIsTrue, Inv
<1> QED BY <1>1, <1>2, <1>3

-----------------------------------------------------------------------------
(* The gentle operations.                                                  *)

\* Jobs::renew, Jobs::cancel and Jobs::resume_after_restart are gentle.
LEMMA OneRecordGently ==
  ASSUME IInv, NEW h \in Hosts, NEW j,
         \/ \E n, p : Renew(h, j, n, p)
         \/ \E role, force : CancelAdmitted(h, j, role, force) \/ CancelRunning(h, j, role, force)
         \/ ResumeAfterRestart(h, j)
  PROVE  Gently
<1>1. j \in DOMAIN records /\ records[j] \in JobRecord
  BY Typed DEF Renew, CancelAdmitted, CancelRunning, ResumeAfterRestart
<1>2. ASSUME NEW n, NEW p, Renew(h, j, n, p) PROVE Gently
  <2>1. Gentle(records[j], Renewed(records[j], h, p))
    BY <1>1 DEF Renewed, Gentle, SameRun, JobRecord, Lease
  <2> QED BY <1>1, <1>2, <2>1, GentleOne DEF Renew
<1>3. ASSUME NEW role, NEW force, CancelAdmitted(h, j, role, force) PROVE Gently
  <2>1. Gentle(records[j], CancelledEarly(records[j], Clock(h), force))
    BY <1>1 DEF CancelledEarly, Ended, Gentle, SameRun, JobRecord
  <2> QED BY <1>1, <1>3, <2>1, GentleOne DEF CancelAdmitted
<1>4. ASSUME NEW role, NEW force, CancelRunning(h, j, role, force) PROVE Gently
  <2>1. Gentle(records[j], Ordered(records[j], force))
    BY <1>1 DEF Ordered, Gentle, SameRun, JobRecord
  <2> QED BY <1>1, <1>4, <2>1, GentleOne DEF CancelRunning
<1>5. CASE ResumeAfterRestart(h, j)
  <2>1. Gentle(records[j], BackInLine(records[j], h, Clock(h)))
    BY <1>1, <1>5 DEF ResumeAfterRestart, BackInLine, Gentle, SameRun, JobRecord, Terminal
  <2> QED BY <1>1, <1>5, <2>1, GentleOne DEF ResumeAfterRestart
<1> QED BY <1>2, <1>3, <1>4, <1>5

\* Jobs::interrupt_own is gentle.
LEMMA InterruptGently ==
  ASSUME IInv, NEW h \in Hosts, NEW S \in SUBSET Own(h), InterruptOwn(h, S)
  PROVE  Gently
<1>1. records' = Interrupt(records, S)
  BY DEF InterruptOwn
<1>2. \A j \in DOMAIN records : records[j] \in JobRecord
  BY Typed
<1>3. DOMAIN records' = DOMAIN records
  BY <1>1 DEF Interrupt
<1>4. ASSUME NEW j \in DOMAIN records PROVE Gentle(records[j], records'[j])
  <2>1. CASE j \notin S
    BY <1>1, <2>1, GentleNothing DEF Interrupt
  <2>2. CASE j \in S
    <3>1. records'[j] = [records[j] EXCEPT !.state = "interrupted", !.message = "restarted"]
      BY <1>1, <2>2 DEF Interrupt
    <3> QED BY <1>2, <3>1 DEF Gentle, SameRun, JobRecord, Terminal
  <2> QED BY <2>1, <2>2
<1> QED BY <1>3, <1>4 DEF Gently

\* Jobs::sweep is gentle: it interrupts, or ends what nobody claimed.
LEMMA SweepGently ==
  ASSUME IInv, NEW h \in Hosts, Sweep(h)
  PROVE  Gently
<1>1. PICK S \in SUBSET DOMAIN records :
         records' \in Prune([j \in DOMAIN records |->
               IF j \in S THEN Swept(records[j], Clock(h)) ELSE records[j]])
  BY DEF Sweep
<1> DEFINE Q == [j \in DOMAIN records |->
                   IF j \in S THEN Swept(records[j], Clock(h)) ELSE records[j]]
<1>2. ASSUME NEW j \in DOMAIN records PROVE Gentle(records[j], Q[j])
  <2>1. records[j] \in JobRecord
    BY Typed
  <2>2. CASE j \notin S
    BY <2>2, GentleNothing
  <2>3. CASE j \in S
    <3>1. Gentle(records[j], Swept(records[j], Clock(h)))
      BY <2>1 DEF Swept, Ended, Gentle, SameRun, JobRecord, Terminal
    <3> QED BY <2>3, <3>1
  <2> QED BY <2>2, <2>3
<1>3. DOMAIN Q = DOMAIN records /\ records' \in Prune(Q)
  BY <1>1
<1> HIDE DEF Q
<1> QED BY <1>2, <1>3, PruneKeeps DEF Gently

\* Jobs::admit adds a record under a new id, and may prune.
LEMMA AdmitGently ==
  ASSUME IInv, NEW h \in Hosts, NEW l, NEW role, Admit(h, l, role)
  PROVE  Gently
<1>1. PICK j \in JobIds \ issued, t \in ResolveTarget(l, h) :
         records' \in Prune(Put(records, j, NewRecord(l, t, Clock(h))))
  BY DEF Admit
<1> DEFINE Q == Put(records, j, NewRecord(l, t, Clock(h)))
<1>2. /\ DOMAIN Q = DOMAIN records \cup {j}
      /\ Q[j].message = "none"
      /\ \A i \in DOMAIN records \ {j} : Q[i] = records[i]
  BY DEF Put, NewRecord
<1>3. records' \in Prune(Q)
  BY <1>1
<1> HIDE DEF Q
<1>4. DOMAIN records' \subseteq DOMAIN Q /\ \A i \in DOMAIN records' : records'[i] = Q[i]
  BY <1>3, PruneKeeps
<1>5. ASSUME NEW i \in DOMAIN records', i = j PROVE Added(i, records'[i])
  BY <1>2, <1>4, <1>5 DEF Added
<1>6. ASSUME NEW i \in DOMAIN records', i # j
      PROVE  i \in DOMAIN records /\ Gentle(records[i], records'[i])
  BY <1>2, <1>4, <1>6, GentleNothing
<1> QED BY <1>5, <1>6 DEF Gently

-----------------------------------------------------------------------------
(* Putting the parts together.                                             *)

\* What the invariant says of the state before a step.
LEMMA Parts ==
  ASSUME Inv
  PROVE  IInv /\ LocalTypeOK /\ RunsTypeOK /\ EndsKnown /\ nonces \in Nat
<1> QED BY DEF Inv, RunnerInv, RunnerTypeOK, IInv

\* The invariant of the state after a step, from its parts.
LEMMA Assemble ==
  ASSUME IInv', LocalTypeOK', RunsTypeOK', EndsKnown',
         ScriptsHoldLocks', SingleScript', ReportedIsTrue'
  PROVE  Inv'
<1>1. TypeOK'
  BY DEF IInv, Sound, WellFormed, TypeOK
<1> QED BY <1>1 DEF Inv, RunnerInv, RunnerTypeOK

\* A gentle step keeps the invariant.
LEMMA GentleInv ==
  ASSUME Inv, IInv', LocalTypeOK', Gently, RunsFine, UNCHANGED careless, ends \subseteq ends'
  PROVE  Inv'
<1>1. ScriptsHoldLocks' /\ SingleScript' /\ ReportedIsTrue'
  BY GentleStep DEF RunsFine
<1> QED BY <1>1, Assemble DEF RunsFine

\* The records stay sound when they are moved, and when nothing happens to them.
LEMMA KeepIInv ==
  ASSUME IInv, \/ Moves /\ UNCHANGED <<issued, nonces, now, quorate>>
               \/ UNCHANGED vars
               \/ Tick
               \/ ChangeMembership
  PROVE  IInv'
<1>1. CASE Moves /\ UNCHANGED <<issued, nonces, now, quorate>>
  BY <1>1, MovesSound DEF IInv
<1>2. CASE UNCHANGED vars \/ Tick \/ ChangeMembership
  BY <1>2, NextIInv DEF Next
<1> QED BY <1>1, <1>2

\* A step of one host that leaves the records alone.
LEMMA LocalStep ==
  ASSUME Inv, UNCHANGED vars, LocalTypeOK', RunsFine, UNCHANGED careless,
         ends \subseteq ends'
  PROVE  Inv'
<1>1. IInv'
  BY Parts, KeepIInv
<1>2. Gently
  BY GentlyNothing DEF vars
<1> QED BY <1>1, <1>2, GentleInv

\* Nothing of the hosts changed but the runs and how scripts ended.
LEMMA SameLocal ==
  ASSUME LocalTypeOK, UNCHANGED <<daemon, recovering, marker, frozen, careless, faults>>
  PROVE  LocalTypeOK'
<1> QED BY DEF LocalTypeOK

-----------------------------------------------------------------------------
(* The script.                                                             *)

\* What a live script does before it ends keeps the invariant.
LEMMA ScriptSteps ==
  ASSUME Inv, NEW h \in Hosts, NEW j \in JobIds,
         ScriptEvent(h, j) \/ AskRestart(h, j) \/ ForgetRestart(h, j)
  PROVE  Inv'
<1>1. CASE ScriptEvent(h, j)
  <2>1. PICK p \in Reports :
          SetRun(h, j, [runs[h][j] EXCEPT !.cancelAllowed = p.cancelAllowed,
                                          !.pending = p.pending])
    BY <1>1 DEF ScriptEvent
  <2>2. p.cancelAllowed \in BOOLEAN /\ p.pending \in BOOLEAN
    BY ReportsAssumption DEF Progress
  <2>3. j \in Active(h) /\ runs[h][j] \in Run /\ runs[h][j].script = "live"
    BY <1>1, Parts DEF ScriptEvent, Live, RunsTypeOK
  <2> DEFINE r == [runs[h][j] EXCEPT !.cancelAllowed = p.cancelAllowed, !.pending = p.pending]
  <2>4. r \in Run
    BY <2>2, <2>3 DEF Run
  <2>5. r.nonce = runs[h][j].nonce /\ r.script = "live"
    BY <2>3 DEF Run
  <2>6. SetRun(h, j, r)
    BY <2>1
  <2> HIDE DEF r
  <2>7. RunsFine
    BY <1>1, <2>3, <2>4, <2>5, <2>6, Parts, ChangeRun DEF ScriptEvent, vars
  <2> QED BY <1>1, <2>7, Parts, SameLocal, LocalStep DEF ScriptEvent
<1>2. CASE AskRestart(h, j) \/ ForgetRestart(h, j)
  <2>1. LocalTypeOK'
    <3>1. \E m \in Markers : marker' = [marker EXCEPT ![<<h, j>>] = m]
      BY <1>2 DEF AskRestart, ForgetRestart, Markers
    <3>2. marker' \in [Hosts \X JobIds -> Markers]
      BY <3>1, Parts DEF LocalTypeOK
    <3>3. UNCHANGED <<daemon, recovering, frozen, careless, faults>>
      BY <1>2 DEF AskRestart, ForgetRestart
    <3> QED BY <3>2, <3>3, Parts DEF LocalTypeOK
  <2>2. UNCHANGED vars /\ UNCHANGED <<daemon, runs, ends, careless>>
    BY <1>2 DEF AskRestart, ForgetRestart
  <2>3. RunsFine
    BY <2>2, Parts, KeepRuns DEF vars
  <2> QED BY <2>1, <2>2, <2>3, LocalStep
<1> QED BY <1>1, <1>2

\* The script ends, and the run knows how; or it is left behind by a bmacd
\* that stops.
LEMMA ScriptEnding ==
  ASSUME Inv, NEW h \in Hosts, NEW j \in JobIds,
         (\E o \in ScriptEnds : ScriptEnd(h, j, o)) \/ ScriptLeft(h, j)
  PROVE  Inv'
<1>1. ASSUME NEW o \in ScriptEnds, ScriptEnd(h, j, o) PROVE Inv'
  <2>1. j \in Active(h) /\ runs[h][j] \in Run /\ Working(h)
    BY <1>1, Parts DEF ScriptEnd, Live, RunsTypeOK
  <2> DEFINE r == [runs[h][j] EXCEPT !.script = o]
  <2>2. o \in Terminal /\ o \in {"live"} \cup Terminal /\ o # "live"
    BY RunnerAssumption DEF Terminal
  <2>3. r \in Run
    BY <2>1, <2>2 DEF Run
  <2>4. r.nonce = runs[h][j].nonce /\ r.script = o
    BY <2>1 DEF Run
  <2>5. SetRun(h, j, r) /\ ends' = ends \cup {<<runs[h][j].nonce, o>>}
    BY <1>1 DEF ScriptEnd
  <2> HIDE DEF r
  <2>6. RunsFine
    BY <1>1, <2>1, <2>2, <2>3, <2>4, <2>5, Parts, ChangeRun DEF ScriptEnd, vars
  <2> QED BY <1>1, <2>5, <2>6, Parts, SameLocal, LocalStep DEF ScriptEnd
<1>2. CASE ScriptLeft(h, j)
  <2>1. RunsFine
    BY <1>2, Parts, DropRun DEF ScriptLeft, vars, Working
  <2> QED BY <1>2, <2>1, Parts, SameLocal, LocalStep DEF ScriptLeft
<1> QED BY <1>1, <1>2

-----------------------------------------------------------------------------
(* Runner::drive.                                                          *)

\* Obeying an order changes nothing but the order applied.
LEMMA ObeyKeeps ==
  ASSUME NEW run \in Run, NEW order \in Orders
  PROVE  /\ Obey(run, order) \in Run
         /\ Obey(run, order).nonce = run.nonce
         /\ Obey(run, order).script = run.script
<1> DEFINE r == [run EXCEPT !.applied = order]
<1>1. r \in Run
  BY DEF Run
<1>2. r.nonce = run.nonce /\ r.script = run.script
  BY DEF Run
<1>3. Obey(run, order) = r \/ Obey(run, order) = run
  BY DEF Obey
<1> HIDE DEF r
<1> QED BY <1>1, <1>2, <1>3

\* Renewing keeps the invariant: the record changes gently, the run obeys.
LEMMA DriveSteps ==
  ASSUME Inv, NEW h \in Hosts, NEW j \in JobIds, Drives(h, j)
  PROVE  Inv'
<1>1. /\ j \in Active(h) /\ runs[h][j] \in Run /\ Working(h)
      /\ runs[h][j].script = "live"
      /\ UNCHANGED <<daemon, recovering, marker, frozen, ends, careless, faults>>
  BY Parts DEF Drives, DriveRenew, DriveLapsed, DriveCheck, Live, RunsTypeOK
<1>2. LocalTypeOK'
  BY <1>1, Parts, SameLocal
<1>3. CASE DriveRenew(h, j)
  <2>1. Renew(h, j, runs[h][j].nonce, Report(runs[h][j]))
    BY <1>3 DEF DriveRenew
  <2>2. Report(runs[h][j]) \in Progress
    BY <1>1 DEF Report, Progress, Run
  <2>3. Moves
    BY <2>1, <2>2, Parts, RenewMoves
  <2>4. IInv' /\ UNCHANGED <<issued, nonces>>
    BY <2>1, <2>3, Parts, KeepIInv DEF Renew
  <2>5. records[j].cancel \in Orders
    BY <2>1, Parts, Typed DEF Renew, JobRecord
  <2>6. PICK r : r = Obey(runs[h][j], records[j].cancel)
    OBVIOUS
  <2>7. r \in Run /\ r.nonce = runs[h][j].nonce /\ r.script = "live"
    BY <1>1, <2>5, <2>6, ObeyKeeps
  <2>8. SetRun(h, j, r)
    BY <1>3, <2>6 DEF DriveRenew
  <2>9. RunsFine
    BY <1>1, <2>4, <2>7, <2>8, Parts, ChangeRun
  <2>10. Gently
    BY <2>1, Parts, OneRecordGently
  <2> QED BY <1>1, <1>2, <2>4, <2>9, <2>10, GentleInv
<1>4. CASE DriveLapsed(h, j)
  <2> DEFINE r == [runs[h][j] EXCEPT !.leased = FALSE]
  <2>1. r \in Run
    BY <1>1 DEF Run
  <2>2. r.nonce = runs[h][j].nonce /\ r.script = "live"
    BY <1>1 DEF Run
  <2>3. SetRun(h, j, r) /\ UNCHANGED vars
    BY <1>4 DEF DriveLapsed
  <2> HIDE DEF r
  <2>4. RunsFine
    BY <1>1, <2>1, <2>2, <2>3, Parts, ChangeRun DEF vars
  <2> QED BY <1>1, <1>2, <2>3, <2>4, LocalStep
<1>5. CASE DriveCheck(h, j)
  <2>1. j \in DOMAIN View(h) /\ UNCHANGED vars
    BY <1>5 DEF DriveCheck
  <2>2. View(h)[j] \in JobRecord
    BY <2>1, Parts, Typed DEF View, LocalTypeOK
  <2>3. PICK r : r = Obey(runs[h][j], View(h)[j].cancel)
    OBVIOUS
  <2>4. View(h)[j].cancel \in Orders
    BY <2>2 DEF JobRecord
  <2>5. r \in Run /\ r.nonce = runs[h][j].nonce /\ r.script = "live"
    BY <1>1, <2>3, <2>4, ObeyKeeps
  <2>6. SetRun(h, j, r)
    BY <1>5, <2>3 DEF DriveCheck
  <2>7. RunsFine
    BY <1>1, <2>1, <2>5, <2>6, Parts, ChangeRun DEF vars
  <2> QED BY <1>1, <1>2, <2>1, <2>7, LocalStep
<1> QED BY <1>3, <1>4, <1>5 DEF Drives

\* What Jobs::finish leaves of the records.
LEMMA FinishFacts ==
  ASSUME IInv, NEW h \in Hosts, NEW j, NEW n, NEW o \in Terminal, Finish(h, j, n, o, 0)
  PROVE  /\ IInv'
         /\ j \in DOMAIN records
         /\ records[j].lease.nonce = n /\ records[j].lease.holder = h
         /\ \A i \in DOMAIN records' :
               i \in DOMAIN records /\ (i # j => records'[i] = records[i])
         /\ j \in DOMAIN records' =>
               records'[j].lease.nonce = n /\ records'[j].state = o
<1>1. Moves
  BY FinishMoves
<1>2. IInv'
  BY <1>1, KeepIInv DEF Finish
<1>3. j \in DOMAIN records /\ records[j] \in JobRecord
  BY Typed DEF Finish
<1>4. records[j].lease.nonce = n /\ records[j].lease.holder = h
  BY DEF Finish, CheckHolder
<1> DEFINE r == Reported(records[j], o, Clock(h), 0)
           Q == [records EXCEPT ![j] = r]
<1>5. r.lease = records[j].lease /\ r.state = o
  BY <1>3 DEF Reported, Ended, JobRecord
<1>6. records' \in Prune(Q)
  BY DEF Finish
<1> HIDE DEF r
<1>7. DOMAIN Q = DOMAIN records /\ Q[j] = r /\ \A i \in DOMAIN records \ {j} : Q[i] = records[i]
  BY <1>3
<1> HIDE DEF Q
<1>8. DOMAIN records' \subseteq DOMAIN Q /\ \A i \in DOMAIN records' : records'[i] = Q[i]
  BY <1>6, PruneKeeps
<1> QED BY <1>2, <1>3, <1>4, <1>5, <1>7, <1>8

\* An end is recorded under the lease of the run that waits, so no script of
\* the job lives: its run would hold that lease too.
LEMMA RecordingSteps ==
  ASSUME Inv, NEW h \in Hosts, NEW j \in JobIds, Records(h, j)
  PROVE  Inv'
<1>1. /\ j \in Active(h) /\ runs[h][j] \in Run /\ Working(h)
      /\ runs[h][j].script # "live"
      /\ UNCHANGED <<daemon, recovering, marker, frozen, ends, careless>>
  BY Parts DEF Records, RecordEnd, RecordEndLost, RecordEndRefused, Waiting, RunsTypeOK
<1>2. LocalTypeOK'
  <2>1. faults' \in Nat
    BY Parts DEF LocalTypeOK, Records, RecordEnd, RecordEndLost, RecordEndRefused
  <2> QED BY <1>1, <2>1, Parts DEF LocalTypeOK
<1>3. CASE RecordEndRefused(h, j)
  <2>1. RunsFine
    BY <1>1, <1>3, Parts, DropRun DEF RecordEndRefused, vars
  <2> QED BY <1>1, <1>2, <1>3, <2>1, LocalStep DEF RecordEndRefused
<1>4. CASE RecordEnd(h, j) \/ RecordEndLost(h, j)
  <2> DEFINE n == runs[h][j].nonce
             o == runs[h][j].script
  <2>1. o \in Terminal /\ <<n, o>> \in ends
    BY <1>1, Parts DEF Run, EndsKnown
  <2>2. Finish(h, j, n, o, 0)
    BY <1>4 DEF RecordEnd, RecordEndLost
  <2>3. UNCHANGED <<issued, nonces>>
    BY <2>2 DEF Finish
  <2>4. RunsFine
    BY <1>1, <1>4, <2>3, Parts, DropRun, KeepRuns DEF RecordEnd, RecordEndLost
  <2> HIDE DEF n, o
  <2>5. /\ IInv'
        /\ j \in DOMAIN records
        /\ records[j].lease.nonce = n /\ records[j].lease.holder = h
        /\ \A i \in DOMAIN records' :
              i \in DOMAIN records /\ (i # j => records'[i] = records[i])
        /\ j \in DOMAIN records' =>
              records'[j].lease.nonce = n /\ records'[j].state = o
    BY <2>1, <2>2, Parts, FinishFacts
  <2>6. ~careless => NoScriptLeft(j)
    BY <1>1, <2>5 DEF Inv, RunnerInv, ScriptsHoldLocks, NoScriptLeft, Live
  <2>7. careless' \in BOOLEAN /\ (~careless' => ~careless /\ NoScriptLeft(j))
    BY <1>1, <1>2, <2>6 DEF LocalTypeOK
  <2>8. ScriptsHoldLocks' /\ SingleScript' /\ ReportedIsTrue'
    BY <1>1, <2>1, <2>4, <2>5, <2>7, QuietJob DEF RunsFine
  <2> QED BY <1>2, <2>4, <2>5, <2>8, Assemble DEF RunsFine
<1> QED BY <1>3, <1>4 DEF Records

-----------------------------------------------------------------------------
(* Runner::poll.                                                           *)

\* A claim finds no live script: one would have its job in line for its own
\* host, which does not claim what it runs.
LEMMA ClaimFindsNone ==
  ASSUME Inv, NEW h \in Hosts, NEW j, Claim(h, j), NotActive(h, j), ~careless
  PROVE  NoScriptLeft(j)
<1> SUFFICES ASSUME NEW g \in Hosts, Live(g, j) PROVE FALSE
  BY DEF NoScriptLeft
<1>1. j \in DOMAIN records /\ records[j].state = "admitted" /\ records[j].target = h
  BY DEF Claim, Claimable
<1>2. g = h
  BY <1>1 DEF Inv, RunnerInv, ScriptsHoldLocks
<1> QED BY <1>2 DEF NotActive, Live

\* What Jobs::claim leaves of the records.
LEMMA ClaimFacts ==
  ASSUME IInv, NEW h \in Hosts, NEW j, Claim(h, j)
  PROVE  /\ IInv'
         /\ j \in DOMAIN records
         /\ DOMAIN records' = DOMAIN records
         /\ \A i \in DOMAIN records \ {j} : records'[i] = records[i]
         /\ records'[j].lease.nonce = FreshNonce /\ records'[j].lease.holder = h
         /\ records'[j].state = "running" /\ records'[j].message = "none"
<1>1. IInv'
  BY ClaimSound DEF IInv, Claim
<1>2. j \in DOMAIN records /\ records[j] \in JobRecord
  BY Typed DEF Claim
<1>3. records'[j] = Claimed(records[j], h)
  BY <1>2 DEF Claim
<1>4. /\ records'[j].lease.nonce = FreshNonce /\ records'[j].lease.holder = h
      /\ records'[j].state = "running" /\ records'[j].message = "none"
  BY <1>2, <1>3 DEF Claimed, JobRecord
<1> QED BY <1>1, <1>2, <1>4, ClaimSound

\* A claim that starts nothing.
LEMMA ClaimLostStep ==
  ASSUME Inv, NEW h \in Hosts, NEW j \in JobIds, ClaimLost(h, j)
  PROVE  Inv'
<1>1. /\ Claim(h, j) /\ NotActive(h, j) /\ nonces' = nonces + 1 /\ UNCHANGED issued
      /\ UNCHANGED <<daemon, runs, recovering, marker, frozen, ends, careless>>
  BY DEF ClaimLost, Claim
<1>2. LocalTypeOK'
  <2>1. faults' \in Nat
    BY Parts DEF LocalTypeOK, ClaimLost
  <2> QED BY <1>1, <2>1, Parts DEF LocalTypeOK
<1>3. RunsFine
  BY <1>1, Parts, KeepRuns
<1>4. /\ IInv'
      /\ \A i \in DOMAIN records' :
            i \in DOMAIN records /\ (i # j => records'[i] = records[i])
      /\ records'[j].message = "none"
  BY <1>1, Parts, ClaimFacts
<1>5. careless' \in BOOLEAN /\ (~careless' => ~careless /\ NoScriptLeft(j))
  BY <1>1, <1>2, ClaimFindsNone DEF LocalTypeOK
<1>6. ScriptsHoldLocks' /\ SingleScript' /\ ReportedIsTrue'
  BY <1>1, <1>3, <1>4, <1>5, QuietJob DEF RunsFine
<1> QED BY <1>2, <1>3, <1>4, <1>6, Assemble DEF RunsFine

\* A claim that starts the script, or fails to and knows it.
LEMMA PollClaimStep ==
  ASSUME Inv, NEW h \in Hosts, NEW j \in JobIds, PollClaim(h, j)
  PROVE  Inv'
<1>1. PICK script \in {"live", "failed"} :
         /\ SetRun(h, j, NewRun(FreshNonce, script))
         /\ ends' = IF script = "live" THEN ends ELSE ends \cup {<<FreshNonce, script>>}
  BY DEF PollClaim
<1>2. /\ Claim(h, j) /\ NotActive(h, j) /\ Working(h) /\ nonces' = nonces + 1
      /\ UNCHANGED issued
      /\ UNCHANGED <<daemon, recovering, marker, frozen, careless, faults>>
  BY DEF PollClaim, Claim
<1>3. PICK r : r = NewRun(FreshNonce, script)
  OBVIOUS
<1>4. r \in Run /\ r.nonce = FreshNonce /\ r.script = script
  <2>1. FreshNonce \in Nat /\ script \in {"live"} \cup Terminal /\ "none" \in Orders
    BY Parts DEF FreshNonce, Terminal, Orders
  <2>2. r.nonce = FreshNonce /\ r.script = script
    BY <1>3 DEF NewRun
  <2> QED BY <1>3, <2>1, <2>2 DEF NewRun, Run
<1>5. SetRun(h, j, r)
  BY <1>1, <1>3
<1>6. DOMAIN runs = Hosts
  BY Parts DEF RunsTypeOK
<1>7. /\ DOMAIN runs' = Hosts
      /\ \A g \in Hosts \ {h} : runs'[g] = runs[g]
      /\ DOMAIN runs'[h] = DOMAIN runs[h] \cup {j}
      /\ runs'[h][j] = r
      /\ \A i \in DOMAIN runs[h] \ {j} : runs'[h][i] = runs[h][i]
  BY <1>5, <1>6, SetRunFacts
<1>8. /\ IInv'
      /\ j \in DOMAIN records
      /\ DOMAIN records' = DOMAIN records
      /\ \A i \in DOMAIN records \ {j} : records'[i] = records[i]
      /\ records'[j].lease.nonce = FreshNonce /\ records'[j].lease.holder = h
      /\ records'[j].state = "running" /\ records'[j].message = "none"
  BY <1>2, Parts, ClaimFacts
<1>9. LocalTypeOK'
  BY <1>2, Parts, SameLocal
<1>10. RunsTypeOK'
  <2>1. /\ nonces \in Nat /\ nonces' = nonces + 1 /\ FreshNonce = nonces + 1 /\ j \in issued
        /\ \A n \in 1..nonces : n \in 1..nonces'
    BY <1>2, <1>8, Parts DEF FreshNonce, IInv, Sound, WellFormed
  <2>2. FreshNonce \in 1..nonces'
    BY <2>1
  <2> QED BY <1>2, <1>4, <1>7, <2>1, <2>2, Parts DEF RunsTypeOK, Active, Working
<1>11. EndsKnown'
  BY <1>1, <1>4, <1>7, Parts DEF EndsKnown, Active
<1>12. ~careless => NoScriptLeft(j)
  BY <1>2, ClaimFindsNone
<1>13. ReportedIsTrue'
  BY <1>1, <1>8 DEF Inv, ReportedIsTrue
<1>14. ScriptsHoldLocks'
  BY <1>2, <1>4, <1>7, <1>8, <1>12
     DEF Inv, RunnerInv, ScriptsHoldLocks, Live, Active, NoScriptLeft, Unfinished
<1>15. SingleScript'
  BY <1>2, <1>4, <1>7, <1>12 DEF Inv, SingleScript, Live, Active, NoScriptLeft
<1> QED BY <1>8, <1>9, <1>10, <1>11, <1>13, <1>14, <1>15, Assemble

-----------------------------------------------------------------------------
(* Recovery, requests and sweeps.                                          *)

\* A bmacd that recovers interrupts and resumes its own jobs only.
LEMMA RecoverySteps ==
  ASSUME Inv, NEW h \in Hosts, Recovery(h)
  PROVE  Inv'
<1>1. UNCHANGED <<daemon, runs, marker, frozen, ends, careless, faults>>
  BY DEF Recovery, RecoverInterrupt, RecoverNothing, RecoverAgain, RecoverDone,
         RecoverResume, local
<1>2. LocalTypeOK'
  <2>1. CASE UNCHANGED recovering
    BY <1>1, <2>1, Parts, SameLocal
  <2>2. CASE \E s \in Steps : recovering' = [recovering EXCEPT ![h] = s]
    <3>1. recovering' \in [Hosts -> Steps]
      BY <2>2, Parts DEF LocalTypeOK
    <3> QED BY <1>1, <3>1, Parts DEF LocalTypeOK
  <2>3. CASE \E S : recovering' =
                 [recovering EXCEPT ![h] = IF S = Own(h) THEN "resuming" ELSE @]
    <3>1. recovering' \in [Hosts -> Steps]
      BY <2>3, Parts DEF LocalTypeOK, Steps
    <3> QED BY <1>1, <3>1, Parts DEF LocalTypeOK
  <2> QED BY <2>1, <2>2, <2>3 DEF Recovery, RecoverInterrupt, RecoverNothing, RecoverAgain,
                                  RecoverDone, RecoverResume, local, Steps
<1>3. CASE RecoverInterrupt(h)
  <2>1. PICK S \in SUBSET Own(h) : InterruptOwn(h, S)
    BY <1>3 DEF RecoverInterrupt
  <2>2. IInv' /\ UNCHANGED <<issued, nonces>>
    BY <2>1, Parts, InterruptMoves, KeepIInv DEF InterruptOwn
  <2>3. RunsFine
    BY <1>1, <2>2, Parts, KeepRuns
  <2>4. Gently
    BY <2>1, Parts, InterruptGently
  <2> QED BY <1>1, <1>2, <2>2, <2>3, <2>4, GentleInv
<1>4. ASSUME NEW j \in JobIds, RecoverResume(h, j) PROVE Inv'
  <2>1. ResumeAfterRestart(h, j)
    BY <1>4 DEF RecoverResume
  <2>2. IInv' /\ UNCHANGED <<issued, nonces>>
    BY <2>1, Parts, ResumeMoves, KeepIInv DEF ResumeAfterRestart
  <2>3. RunsFine
    BY <1>1, <2>2, Parts, KeepRuns
  <2>4. Gently
    BY <2>1, Parts, OneRecordGently
  <2> QED BY <1>1, <1>2, <2>2, <2>3, <2>4, GentleInv
<1>5. CASE RecoverNothing(h) \/ RecoverAgain(h) \/ RecoverDone(h)
  <2>1. UNCHANGED vars
    BY <1>5 DEF RecoverNothing, RecoverAgain, RecoverDone
  <2>2. RunsFine
    BY <1>1, <2>1, Parts, KeepRuns DEF vars
  <2> QED BY <1>1, <1>2, <2>1, <2>2, LocalStep
<1> QED BY <1>3, <1>4, <1>5 DEF Recovery

\* Requests leave the hosts' own state alone.
LEMMA RequestSteps ==
  ASSUME Inv, NEW h \in Hosts, NEW j \in JobIds, Request(h, j)
  PROVE  Inv'
<1>1. UNCHANGED <<daemon, runs, recovering, marker, frozen, ends, careless, faults>>
  BY DEF Request, local
<1>2. LocalTypeOK'
  BY <1>1, Parts, SameLocal
<1>3. ASSUME NEW l \in Launches, NEW role \in Callers, Admit(h, l, role) PROVE Inv'
  <2>1. IInv'
    BY <1>3, Parts, AdmitSound DEF IInv, Admit
  <2>2. issued \subseteq issued' /\ nonces' = nonces
    BY <1>3 DEF Admit
  <2>3. RunsFine
    BY <1>1, <2>2, Parts, KeepRuns
  <2>4. Gently
    BY <1>3, Parts, AdmitGently
  <2> QED BY <1>1, <1>2, <2>1, <2>3, <2>4, GentleInv
<1>4. ASSUME NEW role \in Callers, NEW force \in BOOLEAN,
             CancelAdmitted(h, j, role, force) \/ CancelRunning(h, j, role, force)
      PROVE  Inv'
  <2>1. IInv' /\ UNCHANGED <<issued, nonces>>
    BY <1>4, Parts, CancelMoves, KeepIInv DEF CancelAdmitted, CancelRunning
  <2>2. RunsFine
    BY <1>1, <2>1, Parts, KeepRuns
  <2>3. Gently
    BY <1>4, Parts, OneRecordGently
  <2> QED BY <1>1, <1>2, <2>1, <2>2, <2>3, GentleInv
<1> QED BY <1>3, <1>4 DEF Request

\* So do sweeps.
LEMMA SweepStep ==
  ASSUME Inv, NEW h \in Hosts, SweepRecords(h)
  PROVE  Inv'
<1>1. Sweep(h) /\ UNCHANGED <<daemon, runs, recovering, marker, frozen, ends, careless, faults>>
  BY DEF SweepRecords, local
<1>2. IInv' /\ UNCHANGED <<issued, nonces>>
  BY <1>1, Parts, SweepMoves, KeepIInv DEF Sweep
<1>3. RunsFine
  BY <1>1, <1>2, Parts, KeepRuns
<1>4. Gently
  BY <1>1, Parts, SweepGently
<1>5. LocalTypeOK'
  BY <1>1, Parts, SameLocal
<1> QED BY <1>1, <1>2, <1>3, <1>4, <1>5, GentleInv

\* An operator who looks finds no script left, and one who does not is
\* careless from then on.
LEMMA InterveneStep ==
  ASSUME Inv, NEW h \in Hosts, NEW j \in JobIds, Intervene(h, j)
  PROVE  Inv'
<1>1. PICK role \in Callers : Resume(h, j, role) \/ Reconcile(h, j, role)
  BY DEF Intervene
<1>2. UNCHANGED <<daemon, runs, recovering, marker, frozen, ends>>
  BY DEF Intervene
<1>3. LocalTypeOK'
  <2>1. careless' \in BOOLEAN
    BY Parts, Zenon DEF LocalTypeOK, Intervene
  <2>2. faults' \in Nat
    BY Parts DEF LocalTypeOK, Intervene
  <2> QED BY <1>2, <2>1, <2>2, Parts DEF LocalTypeOK
<1>4. IInv' /\ UNCHANGED <<issued, nonces>>
  BY <1>1, Parts, ResumeMoves, ReconcileMoves, KeepIInv DEF Resume, Reconcile
<1>5. RunsFine
  BY <1>2, <1>4, Parts, KeepRuns
<1>6. j \in DOMAIN records /\ records[j] \in JobRecord
  BY <1>1, Parts, Typed DEF Resume, Reconcile
<1>7. PICK r : /\ r.message # "reported"
               /\ \/ records' = [records EXCEPT ![j] = r]
                  \/ records' \in Prune([records EXCEPT ![j] = r])
  <2>1. CASE Resume(h, j, role)
    <3>1. PICK t : records' = [records EXCEPT ![j] = BackInLine(@, t, Clock(h))]
      BY <2>1 DEF Resume
    <3>2. BackInLine(records[j], t, Clock(h)).message # "reported"
      BY <1>6 DEF BackInLine, JobRecord
    <3> QED BY <3>1, <3>2
  <2>2. CASE Reconcile(h, j, role)
    <3>1. Ended(records[j], "failed", "reconciled", Clock(h)).message # "reported"
      BY <1>6 DEF Ended, JobRecord
    <3> QED BY <2>2, <3>1 DEF Reconcile
  <2> QED BY <1>1, <2>1, <2>2
<1>8. /\ \A i \in DOMAIN records' :
            i \in DOMAIN records /\ (i # j => records'[i] = records[i])
      /\ j \in DOMAIN records' => records'[j].message # "reported"
  <2> DEFINE Q == [records EXCEPT ![j] = r]
  <2>1. DOMAIN Q = DOMAIN records /\ Q[j] = r
        /\ \A i \in DOMAIN records \ {j} : Q[i] = records[i]
    BY <1>6
  <2> HIDE DEF Q
  <2>2. records' = Q \/ records' \in Prune(Q)
    BY <1>7 DEF Q
  <2>3. DOMAIN records' \subseteq DOMAIN Q /\ \A i \in DOMAIN records' : records'[i] = Q[i]
    BY <2>2, PruneKeeps
  <2> QED BY <1>7, <2>1, <2>3
<1>9. careless' \in BOOLEAN /\ (~careless' => ~careless /\ NoScriptLeft(j))
  BY <1>3 DEF LocalTypeOK, Intervene
<1>10. ScriptsHoldLocks' /\ SingleScript' /\ ReportedIsTrue'
  BY <1>2, <1>5, <1>8, <1>9, QuietJob DEF RunsFine
<1> QED BY <1>3, <1>4, <1>5, <1>10, Assemble DEF RunsFine

-----------------------------------------------------------------------------
(* Stops, crashes, starts, splits and time.                                *)

\* A bmacd that stops, ends or starts starts no script.
LEMMA DaemonSteps ==
  ASSUME Inv, NEW h \in Hosts, Stop(h) \/ Crash(h) \/ Start(h)
  PROVE  Inv'
<1>1. UNCHANGED vars /\ UNCHANGED <<frozen, ends, careless>>
  BY DEF Stop, Crash, Start
<1>2. LocalTypeOK'
  <2>1. daemon' \in [Hosts -> {"up", "stopping", "down"}]
    BY Parts DEF LocalTypeOK, Stop, Crash, Start
  <2>2. recovering' \in [Hosts -> Steps]
    BY Parts DEF LocalTypeOK, Stop, Crash, Start, Steps
  <2>3. faults' \in Nat
    BY Parts DEF LocalTypeOK, Stop, Crash, Start
  <2>4. marker' \in [Hosts \X JobIds -> Markers]
    <3>1. CASE UNCHANGED marker
      BY <3>1, Parts DEF LocalTypeOK
    <3>2. CASE Start(h)
      <4>1. PICK S \in SUBSET {j \in JobIds : marker[<<h, j>>] = "asked"} :
              marker' = [hj \in Hosts \X JobIds |->
                            IF hj[1] = h /\ hj[2] \in S THEN "happened" ELSE marker[hj]]
        BY <3>2 DEF Start
      <4>2. marker \in [Hosts \X JobIds -> Markers] /\ "happened" \in Markers
        BY Parts DEF LocalTypeOK, Markers
      <4> QED BY <4>1, <4>2
    <3> QED BY <3>1, <3>2 DEF Stop, Crash
  <2> QED BY <1>1, <2>1, <2>2, <2>3, <2>4, Parts DEF LocalTypeOK
<1>3. CASE Stop(h) \/ Start(h)
  <2>1. UNCHANGED <<runs, ends>>
    BY <1>3 DEF Stop, Start
  <2>2. \A g \in Hosts : daemon'[g] = "down" => daemon[g] = "down"
    BY <1>3, Parts DEF Stop, Start, LocalTypeOK
  <2>3. RunsFine
    BY <1>1, <2>1, <2>2, Parts, KeepRuns DEF vars
  <2> QED BY <1>1, <1>2, <2>3, LocalStep
<1>4. CASE Crash(h)
  <2>1. DOMAIN runs = Hosts /\ DOMAIN daemon = Hosts
    BY Parts DEF RunsTypeOK, LocalTypeOK
  <2>2. /\ DOMAIN runs' = Hosts /\ runs'[h] = Empty
        /\ \A g \in Hosts \ {h} : runs'[g] = runs[g] /\ daemon'[g] = daemon[g]
    BY <1>4, <2>1 DEF Crash
  <2>3. DOMAIN Empty = {}
    BY DEF Empty
  <2>4. RunsTypeOK'
    BY <1>1, <2>2, <2>3, Parts DEF RunsTypeOK, Active, vars
  <2>5. EndsKnown'
    BY <1>1, <2>2, <2>3, Parts DEF EndsKnown, Active
  <2>6. StartsNone
    BY <2>2, <2>3 DEF StartsNone, Live, Active
  <2> QED BY <1>1, <1>2, <2>4, <2>5, <2>6, LocalStep DEF RunsFine
<1> QED BY <1>3, <1>4

\* When the cluster splits, a host that loses quorum keeps reading the records
\* it last saw; time changes no state of a host.
LEMMA EnvironmentSteps ==
  ASSUME Inv, Split \/ TimePasses
  PROVE  Inv'
<1>1. /\ UNCHANGED <<records, issued, nonces>>
      /\ UNCHANGED <<daemon, runs, recovering, marker, ends, careless>>
  BY DEF Split, TimePasses, ChangeMembership, Tick, local
<1>2. IInv'
  BY Parts, KeepIInv DEF Split, TimePasses
<1>3. LocalTypeOK'
  <2>1. CASE Split
    <3>1. \A j \in DOMAIN records : records[j] \in JobRecord
      BY Parts, Typed
    <3>2. DOMAIN Empty = {} /\ faults' \in Nat
      BY <2>1, Parts DEF Empty, Split, LocalTypeOK
    <3>3. /\ DOMAIN frozen' = Hosts
          /\ \A h \in Hosts : frozen'[h] \in {Empty, records, frozen[h]}
      BY <2>1 DEF Split
    <3>4. \A h \in Hosts : \A j \in DOMAIN frozen'[h] : frozen'[h][j] \in JobRecord
      BY <3>1, <3>2, <3>3, Parts DEF LocalTypeOK
    <3> QED BY <1>1, <3>2, <3>3, <3>4, Parts DEF LocalTypeOK
  <2>2. CASE TimePasses
    BY <2>2, Parts, SameLocal DEF TimePasses, local
  <2> QED BY <2>1, <2>2
<1>4. RunsFine
  BY <1>1, Parts, KeepRuns
<1>5. Gently
  BY <1>1, GentlyNothing
<1> QED BY <1>1, <1>2, <1>3, <1>4, <1>5, GentleInv

-----------------------------------------------------------------------------
(* The invariant.                                                          *)

\* Every initial state satisfies it: nothing runs yet.
LEMMA InitInv == RunnerInit => Inv
<1> SUFFICES ASSUME RunnerInit PROVE Inv
  OBVIOUS
<1>1. IInv
  BY InitIInv DEF RunnerInit
<1>2. TypeOK
  BY <1>1 DEF IInv, Sound, WellFormed, TypeOK
<1>3. DOMAIN Empty = {}
  BY DEF Empty
<1>4. LocalTypeOK
  <2>1. /\ daemon \in [Hosts -> {"up", "stopping", "down"}]
        /\ recovering \in [Hosts -> Steps]
        /\ marker \in [Hosts \X JobIds -> Markers]
    BY DEF RunnerInit, Steps, Markers
  <2>2. careless \in BOOLEAN /\ faults \in Nat
    BY DEF RunnerInit
  <2>3. DOMAIN frozen = Hosts /\ \A h \in Hosts : frozen[h] = Empty
    BY DEF RunnerInit
  <2> QED BY <1>3, <2>1, <2>2, <2>3 DEF LocalTypeOK
<1>5. DOMAIN runs = Hosts /\ \A h \in Hosts : runs[h] = Empty
  BY DEF RunnerInit
<1>6. \A h \in Hosts : Active(h) = {}
  BY <1>3, <1>5 DEF Active
<1>7. RunsTypeOK /\ EndsKnown
  BY <1>5, <1>6 DEF RunsTypeOK, EndsKnown
<1>8. ScriptsHoldLocks /\ SingleScript
  BY <1>6 DEF ScriptsHoldLocks, SingleScript, Live
<1>9. ReportedIsTrue
  BY DEF RunnerInit, Init, ReportedIsTrue
<1> QED BY <1>1, <1>2, <1>4, <1>7, <1>8, <1>9 DEF Inv, RunnerInv, RunnerTypeOK

\* The invariant is inductive.
LEMMA NextInv == Inv /\ [RunnerNext]_rvars => Inv'
<1> SUFFICES ASSUME Inv, [RunnerNext]_rvars PROVE Inv'
  OBVIOUS
<1>1. CASE UNCHANGED rvars
  <2>1. UNCHANGED vars /\ UNCHANGED <<daemon, runs, recovering, marker, frozen, ends,
                                      careless, faults>>
    BY <1>1 DEF rvars, local
  <2>2. RunsFine
    BY <2>1, Parts, KeepRuns DEF vars
  <2> QED BY <2>1, <2>2, Parts, SameLocal, LocalStep
<1>2. ASSUME NEW h \in Hosts, NEW j \in JobIds,
             \/ PollClaim(h, j) \/ ClaimLost(h, j)
             \/ ScriptEvent(h, j) \/ AskRestart(h, j) \/ ForgetRestart(h, j)
             \/ \E o \in ScriptEnds : ScriptEnd(h, j, o)
             \/ ScriptLeft(h, j)
             \/ Drives(h, j) \/ Records(h, j)
             \/ Request(h, j) \/ Intervene(h, j)
      PROVE  Inv'
  BY <1>2, PollClaimStep, ClaimLostStep, ScriptSteps, ScriptEnding, DriveSteps,
     RecordingSteps, RequestSteps, InterveneStep
<1>3. ASSUME NEW h \in Hosts,
             SweepRecords(h) \/ Recovery(h) \/ Stop(h) \/ Crash(h) \/ Start(h)
      PROVE  Inv'
  BY <1>3, SweepStep, RecoverySteps, DaemonSteps
<1>4. CASE Split \/ TimePasses
  BY <1>4, EnvironmentSteps
<1> QED BY <1>1, <1>2, <1>3, <1>4 DEF RunnerNext

\* Every reachable state of the hosts and the records is sound.
THEOREM RunnerInvariance == RunnerSpec => []Inv
<1> QED BY InitInv, NextInv, PTL DEF RunnerSpec

\* Every live script holds its job's resources and lease, and no run waits
\* with an end its script did not have (claim, drive, recover, sweep).
THEOREM RunnerSound == RunnerSpec => []RunnerInv
<1>1. Inv => RunnerInv
  BY DEF Inv
<1> QED BY RunnerInvariance, <1>1, PTL

\* With operators who look before they act a job never has two live scripts,
\* however leases lapse, hosts restart and the cluster splits (poll, claim,
\* resume_after_restart).
THEOREM ScriptsAreSingle == RunnerSpec => []SingleScript
<1>1. Inv => SingleScript
  BY DEF Inv
<1> QED BY RunnerInvariance, <1>1, PTL

\* A reported end is how the script started under the record's lease ended,
\* careless operators included (check_holder in finish).
THEOREM ReportsAreTrue == RunnerSpec => []ReportedIsTrue
<1>1. Inv => ReportedIsTrue
  BY DEF Inv
<1> QED BY RunnerInvariance, <1>1, PTL

-----------------------------------------------------------------------------
(* The hosts keep to the interface of the job records.                     *)

\* Every report a run can make of a script whose events are not numbered.
AllReports == [cancelAllowed: BOOLEAN, pending: BOOLEAN, seq: {0}]

\* Every step of the hosts is a step of Jobs or changes no record.
LEMMA StepImplements ==
  ASSUME AllReports \subseteq Reports, Inv, [RunnerNext]_rvars
  PROVE  [Next]_vars
<1>1. CASE UNCHANGED vars
  BY <1>1
<1>2. ASSUME NEW h \in Hosts, NEW j \in JobIds, DriveRenew(h, j) PROVE Next
  <2> DEFINE n == runs[h][j].nonce
             p == Report(runs[h][j])
  <2>1. runs[h][j] \in Run /\ n \in 1..nonces
    BY <1>2, Parts DEF DriveRenew, Live, RunsTypeOK
  <2>2. p \in AllReports
    BY <2>1 DEF Report, AllReports, Run
  <2>3. Renew(h, j, n, p)
    BY <1>2 DEF DriveRenew
  <2> HIDE DEF n, p
  <2> QED BY <2>1, <2>2, <2>3 DEF Next
<1>3. ASSUME NEW h \in Hosts, NEW j \in JobIds, RecordEnd(h, j) \/ RecordEndLost(h, j)
      PROVE  Next
  <2> DEFINE n == runs[h][j].nonce
             o == runs[h][j].script
  <2>1. runs[h][j] \in Run /\ n \in 1..nonces /\ o # "live"
    BY <1>3, Parts DEF RecordEnd, RecordEndLost, Waiting, RunsTypeOK
  <2>2. o \in Terminal
    BY <2>1 DEF Run
  <2>3. PICK p \in AllReports : p.seq = 0
    <3>1. [cancelAllowed |-> TRUE, pending |-> TRUE, seq |-> 0] \in AllReports
      BY DEF AllReports
    <3> QED BY <3>1
  <2>4. Finish(h, j, n, o, p.seq)
    BY <1>3, <2>3 DEF RecordEnd, RecordEndLost
  <2> HIDE DEF n, o
  <2> QED BY <2>1, <2>2, <2>3, <2>4 DEF Next
<1>4. ASSUME NEW h \in Hosts, NEW j \in JobIds,
             \/ PollClaim(h, j) \/ ClaimLost(h, j) \/ Request(h, j) \/ Intervene(h, j)
             \/ RecoverResume(h, j)
      PROVE  Next
  BY <1>4 DEF PollClaim, ClaimLost, Request, Intervene, RecoverResume, Next
<1>5. ASSUME NEW h \in Hosts, RecoverInterrupt(h) \/ SweepRecords(h) PROVE Next
  BY <1>5 DEF RecoverInterrupt, SweepRecords, Next
<1>6. CASE Split \/ TimePasses
  BY <1>6 DEF Split, TimePasses, Next
<1>7. ASSUME NEW h \in Hosts, NEW j \in JobIds,
             \/ ScriptEvent(h, j) \/ AskRestart(h, j) \/ ForgetRestart(h, j)
             \/ \E o \in ScriptEnds : ScriptEnd(h, j, o)
             \/ ScriptLeft(h, j)
             \/ DriveLapsed(h, j) \/ DriveCheck(h, j) \/ RecordEndRefused(h, j)
      PROVE  UNCHANGED vars
  BY <1>7 DEF ScriptEvent, AskRestart, ForgetRestart, ScriptEnd, ScriptLeft, DriveLapsed,
              DriveCheck, RecordEndRefused
<1>8. ASSUME NEW h \in Hosts,
             \/ RecoverNothing(h) \/ RecoverAgain(h) \/ RecoverDone(h)
             \/ Stop(h) \/ Crash(h) \/ Start(h)
      PROVE  UNCHANGED vars
  BY <1>8 DEF RecoverNothing, RecoverAgain, RecoverDone, Stop, Crash, Start
<1>9. CASE UNCHANGED rvars
  BY <1>9 DEF rvars
<1> QED BY <1>1, <1>2, <1>3, <1>4, <1>5, <1>6, <1>7, <1>8, <1>9
           DEF RunnerNext, Drives, Records, Recovery

\* The hosts use the job records as Jobs specifies them, so everything proved
\* of Jobs holds of the cluster (every call of `Jobs' in runner.rs).
THEOREM RunnerImplementsJobs ==
  ASSUME AllReports \subseteq Reports PROVE RunnerSpec => Spec
<1>1. RunnerInit => Init
  BY DEF RunnerInit
<1>2. Inv /\ [RunnerNext]_rvars => [Next]_vars
  BY StepImplements
<1> QED BY RunnerInvariance, <1>1, <1>2, PTL DEF RunnerSpec, Spec
=============================================================================
