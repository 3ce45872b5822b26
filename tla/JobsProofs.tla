----------------------------- MODULE JobsProofs -----------------------------
(***************************************************************************)
(* What Jobs guarantees for every number of hosts, jobs, launches and      *)
(* locks, every clock skew, lease and timeout, and every history of        *)
(* partitions.                                                             *)
(*                                                                         *)
(* The argument: `Sound' says of a set of records what the properties need *)
(* and what makes that inductive (an operation that cannot resume and      *)
(* waits to be claimed has never run).  It survives pruning, which only    *)
(* removes records, and any change of records that is a `Move': a change   *)
(* that keeps launch, nonce and attempts, revives nothing and keeps cancel *)
(* orders.  Every operation but Admit and Claim is a Move of some records  *)
(* followed, for some, by a prune.                                         *)
(***************************************************************************)
EXTENDS Jobs, FiniteSetTheorems, TLAPS

\* The records R, with ids drawn from I and nonces up to N.
WellFormed(R, I) ==
    DOMAIN R \subseteq I /\ \A j \in DOMAIN R : R[j] \in JobRecord
Exclusive(R) ==
    \A i, j \in DOMAIN R :
        i # j /\ R[i].state \in Unfinished /\ R[j].state \in Unfinished
            => ~Overlap(R[i].launch, R[j].launch)
Keyed(R) ==
    \A i, j \in DOMAIN R : KeyOf[R[i].launch] = KeyOf[R[j].launch] => i = j
Fenced(R, N) ==
    /\ \A i \in DOMAIN R : /\ R[i].lease.nonce <= N
                           /\ R[i].state \in {"running", "interrupted"} => R[i].lease.nonce > 0
    /\ \A i, j \in DOMAIN R : R[i].lease.nonce = R[j].lease.nonce /\ i # j
                                 => R[i].lease.nonce = 0
NotRerun(R) ==
    \A j \in DOMAIN R : R[j].launch \notin Checkpoint =>
        R[j].attempts <= 1 /\ (R[j].state = "admitted" => R[j].attempts = 0)

Sound(R, I, N) ==
    WellFormed(R, I) /\ Exclusive(R) /\ Keyed(R) /\ Fenced(R, N) /\ NotRerun(R)

IInv ==
    /\ Sound(records, issued, nonces)
    /\ issued \subseteq JobIds
    /\ nonces \in Nat
    /\ now \in Nat
    /\ quorate \subseteq Hosts

\* How any operation but a claim may change one record.
Move(o, r) ==
    /\ r \in JobRecord
    /\ r.launch = o.launch /\ r.attempts = o.attempts
    /\ r.lease.nonce = o.lease.nonce
    /\ o.state \in Terminal => r = o
    /\ r.state = "running" => o.state = "running"
    /\ r.state = "interrupted" => o.state \in {"running", "interrupted"}
    /\ r.state = "admitted" =>
          o.state = "admitted" \/ (o.state = "interrupted" /\ o.launch \in Checkpoint)
    /\ r.state \in Unfinished =>
          /\ o.cancel = "forced" => r.cancel = "forced"
          /\ o.cancel = "soft" => r.cancel # "none"

Moved(R, Q) ==
    Q = [j \in DOMAIN R |-> Q[j]] /\ \A j \in DOMAIN R : Move(R[j], Q[j])

-----------------------------------------------------------------------------

\* Sharing a resource is symmetric, so admission need check one way only.
LEMMA OverlapSymmetric ==
  ASSUME NEW k, NEW l, Overlap(k, l) PROVE Overlap(l, k)
<1> QED BY DEF Overlap, LocksConflict

\* A record that does not change is moved.
LEMMA MoveNothing ==
  ASSUME NEW r \in JobRecord PROVE Move(r, r)
<1> QED BY DEF Move

\* Pruning only removes records.
LEMMA PruneKeeps ==
  ASSUME NEW R, NEW Q \in Prune(R)
  PROVE  /\ DOMAIN Q \subseteq DOMAIN R
         /\ \A j \in DOMAIN Q : Q[j] = R[j]
<1> QED BY DEF Prune

\* Removing records keeps the others sound: every part of Sound speaks of
\* records that exist.
LEMMA PruneSound ==
  ASSUME NEW R, NEW I, NEW N, Sound(R, I, N), NEW Q \in Prune(R)
  PROVE  Sound(Q, I, N)
<1>1. DOMAIN Q \subseteq DOMAIN R /\ \A j \in DOMAIN Q : Q[j] = R[j]
  BY PruneKeeps
<1> QED BY <1>1 DEF Sound, WellFormed, Exclusive, Keyed, Fenced, NotRerun

\* A move keeps the records sound.
LEMMA MovedSound ==
  ASSUME NEW R, NEW I, NEW N \in Nat, Sound(R, I, N), NEW Q, Moved(R, Q)
  PROVE  Sound(Q, I, N)
<1>1. DOMAIN Q = DOMAIN R
  BY DEF Moved
<1>2. \A j \in DOMAIN R : Move(R[j], Q[j]) /\ R[j] \in JobRecord
  BY DEF Moved, Sound, WellFormed
<1>3. \A j \in DOMAIN R : Q[j].state \in Unfinished => R[j].state \in Unfinished
  BY <1>2 DEF Move, Unfinished
<1>4. WellFormed(Q, I)
  BY <1>1, <1>2 DEF Sound, WellFormed, Move
<1>5. Exclusive(Q)
  BY <1>1, <1>2, <1>3 DEF Sound, Exclusive, Move
<1>6. Keyed(Q)
  BY <1>1, <1>2 DEF Sound, Keyed, Move
<1>7. Fenced(Q, N)
  BY <1>1, <1>2 DEF Sound, Fenced, Move
<1>8. NotRerun(Q)
  BY <1>1, <1>2 DEF Sound, NotRerun, Move
<1> QED BY <1>4, <1>5, <1>6, <1>7, <1>8 DEF Sound

-----------------------------------------------------------------------------
(* Every operation but Admit and Claim moves records.                      *)

Moves == \E Q : Moved(records, Q) /\ (records' = Q \/ records' \in Prune(Q))

\* An operation that moves one record, and perhaps prunes, moves the records.
LEMMA OneMove ==
  ASSUME IInv, NEW j \in DOMAIN records, NEW r, Move(records[j], r),
         \/ records' = [records EXCEPT ![j] = r]
         \/ records' \in Prune([records EXCEPT ![j] = r])
  PROVE  Moves
<1> DEFINE Q == [records EXCEPT ![j] = r]
<1>1. \A i \in DOMAIN records : records[i] \in JobRecord
  BY DEF IInv, Sound, WellFormed
<1>2. \A i \in DOMAIN records : Move(records[i], Q[i])
  <2> TAKE i \in DOMAIN records
  <2>1. CASE i = j
    BY <2>1
  <2>2. CASE i # j
    BY <2>2, <1>1, MoveNothing
  <2> QED BY <2>1, <2>2
<1>3. Q = [i \in DOMAIN records |-> Q[i]]
  OBVIOUS
<1>4. Moved(records, Q)
  BY <1>2, <1>3 DEF Moved
<1> QED BY <1>4 DEF Moves

\* A host's clock is an integer, whatever its skew.
LEMMA ClockType ==
  ASSUME IInv, NEW h \in Hosts PROVE Clock(h) \in Int
<1> QED BY TimeAssumption DEF IInv, Clock

\* resolve_target answers with hosts of the cluster only.
LEMMA TargetType ==
  ASSUME IInv, NEW h \in Hosts, NEW l \in Launches, NEW t \in ResolveTarget(l, h)
  PROVE  t \in Hosts
<1>1. quorate \subseteq Hosts
  BY DEF IInv
<1>2. TargetOf[l].rule \in {"any", "duty", "host", "any_except", "guest"}
  BY TargetAssumption
<1> QED BY <1>1, <1>2 DEF ResolveTarget, Duty

\* Every record that exists is a JobRecord.
LEMMA Typed ==
  ASSUME IInv, NEW j \in DOMAIN records PROVE records[j] \in JobRecord
<1> QED BY DEF IInv, Sound, WellFormed

\* Jobs::renew moves one record: nonce and attempts stay.
LEMMA RenewMoves ==
  ASSUME IInv, NEW h \in Hosts, NEW j, NEW n, NEW p \in Progress, Renew(h, j, n, p)
  PROVE  Moves
<1>1. j \in DOMAIN records /\ records[j] \in JobRecord
  BY Typed DEF Renew
<1>2. Clock(h) + LeaseTtl \in Int
  BY ClockType, TimeAssumption
<1>3. Move(records[j], Renewed(records[j], h, p))
  BY <1>1, <1>2 DEF Renewed, Move, JobRecord, Progress, Lease, Greater, Renew, Renewable,
                    Terminal, Unfinished
<1> QED BY <1>1, <1>3, OneMove DEF Renew

\* Jobs::finish moves one record: only a started job can be finished.
LEMMA FinishMoves ==
  ASSUME IInv, NEW h \in Hosts, NEW j, NEW n, NEW o \in Terminal, NEW s \in Nat,
         Finish(h, j, n, o, s)
  PROVE  Moves
<1>1. j \in DOMAIN records /\ records[j] \in JobRecord /\ Clock(h) \in Int
  BY Typed, ClockType DEF Finish
<1>2. Move(records[j], Reported(records[j], o, Clock(h), s))
  BY <1>1 DEF Reported, Ended, Move, JobRecord, Greater, Finish, Finishable,
              Terminal, Unfinished, Messages
<1> QED BY <1>1, <1>2, OneMove DEF Finish

\* Jobs::cancel moves one record: an order is set or strengthened.
LEMMA CancelMoves ==
  ASSUME IInv, NEW h \in Hosts, NEW j, NEW role, NEW force \in BOOLEAN,
         CancelAdmitted(h, j, role, force) \/ CancelRunning(h, j, role, force)
  PROVE  Moves
<1>1. j \in DOMAIN records /\ records[j] \in JobRecord /\ Clock(h) \in Int
  BY Typed, ClockType DEF CancelAdmitted, CancelRunning
<1>2. CASE CancelAdmitted(h, j, role, force)
  <2>1. Move(records[j], CancelledEarly(records[j], Clock(h), force))
    BY <1>1, <1>2 DEF CancelledEarly, Ended, Move, JobRecord, CancelAdmitted,
                      Terminal, Unfinished, Messages, Orders
  <2> QED BY <1>1, <1>2, <2>1, OneMove DEF CancelAdmitted
<1>3. CASE CancelRunning(h, j, role, force)
  <2>1. Move(records[j], Ordered(records[j], force))
    BY <1>1, <1>3 DEF Ordered, CancelOrder, Move, JobRecord, CancelRunning,
                      Terminal, Unfinished, Orders
  <2> QED BY <1>1, <1>3, <2>1, OneMove DEF CancelRunning
<1> QED BY <1>2, <1>3

\* Putting an interrupted job that can resume back in line is a move.
LEMMA BackInLineMoves ==
  ASSUME IInv, NEW h \in Hosts, NEW j \in DOMAIN records, NEW t \in Hosts,
         Resumable(records[j])
  PROVE  Move(records[j], BackInLine(records[j], t, Clock(h)))
<1>1. records[j] \in JobRecord /\ Clock(h) \in Int
  BY Typed, ClockType
<1> QED BY <1>1 DEF BackInLine, Resumable, Move, JobRecord, Terminal, Unfinished, Messages

\* Jobs::resume and Jobs::resume_after_restart move one record.
LEMMA ResumeMoves ==
  ASSUME IInv, NEW h \in Hosts, NEW j, NEW role,
         Resume(h, j, role) \/ ResumeAfterRestart(h, j)
  PROVE  Moves
<1>1. j \in DOMAIN records /\ Resumable(records[j]) /\ records[j].launch \in Launches
  BY Typed DEF Resume, ResumeAfterRestart, JobRecord
<1>2. CASE Resume(h, j, role)
  <2>1. PICK t \in ResolveTarget(records[j].launch, h) :
           records' = [records EXCEPT ![j] = BackInLine(@, t, Clock(h))]
    BY <1>2 DEF Resume
  <2>2. t \in Hosts
    BY <1>1, TargetType
  <2> QED BY <1>1, <2>1, <2>2, BackInLineMoves, OneMove
<1>3. CASE ResumeAfterRestart(h, j)
  BY <1>1, <1>3, BackInLineMoves, OneMove DEF ResumeAfterRestart
<1> QED BY <1>2, <1>3

\* Jobs::reconcile moves one record.
LEMMA ReconcileMoves ==
  ASSUME IInv, NEW h \in Hosts, NEW j, NEW role, Reconcile(h, j, role)
  PROVE  Moves
<1>1. j \in DOMAIN records /\ records[j] \in JobRecord /\ Clock(h) \in Int
  BY Typed, ClockType DEF Reconcile
<1>2. Move(records[j], Ended(records[j], "failed", "reconciled", Clock(h)))
  BY <1>1 DEF Ended, Move, JobRecord, Reconcile, Terminal, Unfinished, Messages
<1> QED BY <1>1, <1>2, OneMove DEF Reconcile

\* The operations that save several records one by one.
LEMMA InterruptMoves ==
  ASSUME IInv, NEW h \in Hosts, NEW S \in SUBSET Own(h), InterruptOwn(h, S)
  PROVE  Moves
<1> DEFINE Q == Interrupt(records, S)
<1>1. \A j \in DOMAIN records : Move(records[j], Q[j])
  <2> TAKE j \in DOMAIN records
  <2>1. records[j] \in JobRecord
    BY Typed
  <2>2. CASE j \in S
    BY <2>1, <2>2 DEF Interrupt, Own, Move, JobRecord, Terminal, Unfinished, Messages
  <2>3. CASE j \notin S
    BY <2>1, <2>3, MoveNothing DEF Interrupt
  <2> QED BY <2>2, <2>3
<1>2. Moved(records, Q)
  BY <1>1 DEF Moved, Interrupt
<1> QED BY <1>2 DEF InterruptOwn, Moves

\* Jobs::sweep moves the records it judges stale, and prunes.
LEMMA SweepMoves ==
  ASSUME IInv, NEW h \in Hosts, Sweep(h)
  PROVE  Moves
<1>1. PICK t \in (Clock(h) - LockTimeout)..Clock(h) :
      \E S \in SUBSET {j \in DOMAIN records : Expired(records[j], t) \/ Unclaimed(records[j], t)}
              \ {{}} :
         records' \in Prune([j \in DOMAIN records |->
               IF j \in S THEN Swept(records[j], Clock(h)) ELSE records[j]])
  BY DEF Sweep
<1>2. PICK S \in SUBSET {j \in DOMAIN records : Expired(records[j], t) \/ Unclaimed(records[j], t)} :
         records' \in Prune([j \in DOMAIN records |->
               IF j \in S THEN Swept(records[j], Clock(h)) ELSE records[j]])
  BY <1>1
<1> DEFINE Q == [j \in DOMAIN records |->
                   IF j \in S THEN Swept(records[j], Clock(h)) ELSE records[j]]
<1>3. \A j \in DOMAIN records : Move(records[j], Q[j])
  <2> TAKE j \in DOMAIN records
  <2>1. records[j] \in JobRecord /\ Clock(h) \in Int
    BY Typed, ClockType
  <2>2. CASE j \in S
    <3>1. records[j].state \in {"running", "admitted"}
      BY <2>2 DEF Expired, Unclaimed
    <3>2. Move(records[j], Swept(records[j], Clock(h)))
      BY <2>1, <3>1 DEF Swept, Ended, Move, JobRecord, Terminal, Unfinished, Messages
    <3> QED BY <2>2, <3>2
  <2>3. CASE j \notin S
    BY <2>1, <2>3, MoveNothing
  <2> QED BY <2>2, <2>3
<1>4. Moved(records, Q)
  BY <1>3 DEF Moved
<1> QED BY <1>2, <1>4 DEF Moves

-----------------------------------------------------------------------------
(* The two operations that are not moves.                                  *)

\* A new record breaks nothing: its resources and its key were free, its id
\* was never drawn, and it holds no lease.
LEMMA AdmitSound ==
  ASSUME IInv, NEW h \in Hosts, NEW l \in Launches, NEW role, Admit(h, l, role)
  PROVE  /\ Sound(records', issued', nonces)
         /\ issued' \subseteq JobIds
         /\ \A i \in DOMAIN records \cap DOMAIN records' : records'[i] = records[i]
<1>1. PICK j \in JobIds \ issued, t \in ResolveTarget(l, h) :
         /\ records' \in Prune(Put(records, j, NewRecord(l, t, Clock(h))))
         /\ issued' = issued \cup {j}
  BY DEF Admit
<1> DEFINE r == NewRecord(l, t, Clock(h))
           Q == Put(records, j, r)
<1>2. r \in JobRecord /\ r.launch = l /\ r.lease.nonce = 0 /\ r.attempts = 0
      /\ r.state = "admitted"
  BY TargetType, ClockType DEF NewRecord, NoLease, Lease, JobRecord, Unfinished, Orders, Messages
<1>3. j \notin DOMAIN records /\ nonces \in Nat
  BY DEF IInv, Sound, WellFormed
<1>4. /\ DOMAIN Q = DOMAIN records \cup {j}
      /\ Q[j] = r
      /\ \A i \in DOMAIN records : Q[i] = records[i]
  BY <1>3 DEF Put
<1> HIDE DEF r, Q
<1>5. WellFormed(Q, issued')
  BY <1>1, <1>2, <1>4 DEF IInv, Sound, WellFormed
<1>6. Exclusive(Q)
  <2>1. \A i \in DOMAIN records : records[i].state \in Unfinished =>
           ~Overlap(l, records[i].launch) /\ ~Overlap(records[i].launch, l)
    BY OverlapSymmetric DEF Admit, CheckConflicts, HoldsLocks, Terminal, Unfinished
  <2> QED BY <1>2, <1>3, <1>4, <2>1 DEF IInv, Sound, Exclusive
<1>7. Keyed(Q)
  <2>1. \A i \in DOMAIN records : KeyOf[records[i].launch] # KeyOf[l]
    BY DEF Admit, Existing
  <2> QED BY <1>2, <1>4, <2>1 DEF IInv, Sound, Keyed
<1>8. Fenced(Q, nonces)
  BY <1>2, <1>3, <1>4 DEF IInv, Sound, Fenced
<1>9. NotRerun(Q)
  BY <1>2, <1>4 DEF IInv, Sound, NotRerun
<1>10. Sound(Q, issued', nonces)
  BY <1>5, <1>6, <1>7, <1>8, <1>9 DEF Sound
<1>11. records' \in Prune(Q)
  BY <1>1 DEF Q, r
<1>12. Sound(records', issued', nonces)
  BY <1>10, <1>11, PruneSound
<1>13. \A i \in DOMAIN records \cap DOMAIN records' : records'[i] = records[i]
  BY <1>4, <1>11, PruneKeeps
<1> QED BY <1>1, <1>12, <1>13 DEF IInv

\* A claim takes an admitted job, which an operation that cannot resume is
\* only before its first run, and its nonce is new.
LEMMA ClaimSound ==
  ASSUME IInv, NEW h \in Hosts, NEW j, Claim(h, j)
  PROVE  /\ Sound(records', issued, nonces')
         /\ nonces' \in Nat
         /\ DOMAIN records' = DOMAIN records
         /\ \A i \in DOMAIN records \ {j} : records'[i] = records[i]
         /\ records[j].state = "admitted"
         /\ records'[j].cancel = records[j].cancel
         /\ records'[j].lease.nonce > records[j].lease.nonce
<1> DEFINE r == Claimed(records[j], h)
<1>1. j \in DOMAIN records /\ records[j] \in JobRecord /\ records[j].state = "admitted"
  BY Typed DEF Claim, Claimable
<1>2. Clock(h) + LeaseTtl \in Int /\ nonces \in Nat /\ nonces' = nonces + 1
  BY ClockType, TimeAssumption DEF IInv, Claim
<1>3. r \in JobRecord
  <2>1. [nonce |-> FreshNonce, holder |-> h, expires |-> Clock(h) + LeaseTtl] \in Lease
    BY <1>2 DEF FreshNonce, Lease
  <2>2. records[j].attempts + 1 \in Nat /\ "running" \in Unfinished /\ "none" \in Messages
    BY <1>1 DEF JobRecord, Unfinished, Messages
  <2> QED BY <1>1, <2>1, <2>2 DEF Claimed, JobRecord
<1>4. /\ r.launch = records[j].launch /\ r.state = "running"
      /\ r.lease.nonce = nonces + 1 /\ r.attempts = records[j].attempts + 1
      /\ r.cancel = records[j].cancel
  BY <1>1 DEF Claimed, FreshNonce, JobRecord
<1>5. records' = [records EXCEPT ![j] = r]
  BY DEF Claim
<1>6. /\ DOMAIN records' = DOMAIN records
      /\ records'[j] = r
      /\ \A i \in DOMAIN records \ {j} : records'[i] = records[i]
  BY <1>1, <1>5
<1> HIDE DEF r
<1>7. WellFormed(records', issued)
  BY <1>3, <1>6 DEF IInv, Sound, WellFormed
<1>8. Exclusive(records')
  BY <1>1, <1>4, <1>6 DEF IInv, Sound, Exclusive, Unfinished
<1>9. Keyed(records')
  BY <1>1, <1>4, <1>6 DEF IInv, Sound, Keyed
<1>10. \A i \in DOMAIN records : records[i].lease.nonce \in Nat /\ records[i].lease.nonce <= nonces
  BY Typed DEF IInv, Sound, Fenced, JobRecord, Lease
<1>11. Fenced(records', nonces')
  BY <1>1, <1>2, <1>4, <1>6, <1>10 DEF IInv, Sound, Fenced
<1>12. NotRerun(records')
  BY <1>1, <1>4, <1>6 DEF IInv, Sound, NotRerun
<1> QED BY <1>1, <1>2, <1>4, <1>6, <1>7, <1>8, <1>9, <1>10, <1>11, <1>12 DEF Sound

-----------------------------------------------------------------------------
(* The invariant.                                                          *)

\* Every initial state satisfies the inductive invariant.
LEMMA InitIInv == Init => IInv
<1> QED BY QuorumAssumption DEF Init, IInv, Sound, WellFormed, Exclusive, Keyed, Fenced, NotRerun

\* Everything one step does to the records.
LEMMA NextCases ==
  ASSUME IInv, Next
  PROVE  \/ Moves /\ UNCHANGED <<issued, nonces, now, quorate>>
         \/ \E h \in Hosts, l \in Launches, role \in Callers : Admit(h, l, role)
         \/ \E h \in Hosts, j \in JobIds : Claim(h, j)
         \/ Tick
         \/ ChangeMembership
<1>1. ASSUME NEW h \in Hosts, NEW S \in SUBSET Own(h), InterruptOwn(h, S)
      PROVE  Moves /\ UNCHANGED <<issued, nonces, now, quorate>>
  BY <1>1, InterruptMoves DEF InterruptOwn
<1>2. ASSUME NEW h \in Hosts, Sweep(h)
      PROVE  Moves /\ UNCHANGED <<issued, nonces, now, quorate>>
  BY <1>2, SweepMoves DEF Sweep
<1>3. ASSUME NEW h \in Hosts, NEW j \in JobIds, NEW n \in 1..nonces, NEW p \in Reports,
             Renew(h, j, n, p)
      PROVE  Moves /\ UNCHANGED <<issued, nonces, now, quorate>>
  BY <1>3, RenewMoves, ReportsAssumption DEF Renew
<1>4. ASSUME NEW h \in Hosts, NEW j \in JobIds, NEW n \in 1..nonces, NEW o \in Terminal,
             NEW p \in Reports, Finish(h, j, n, o, p.seq)
      PROVE  Moves /\ UNCHANGED <<issued, nonces, now, quorate>>
  <2>1. p.seq \in Nat
    BY ReportsAssumption DEF Progress
  <2> QED BY <1>4, <2>1, FinishMoves DEF Finish
<1>5. ASSUME NEW h \in Hosts, NEW j \in JobIds, NEW role \in Callers, NEW force \in BOOLEAN,
             CancelAdmitted(h, j, role, force) \/ CancelRunning(h, j, role, force)
      PROVE  Moves /\ UNCHANGED <<issued, nonces, now, quorate>>
  BY <1>5, CancelMoves DEF CancelAdmitted, CancelRunning
<1>6. ASSUME NEW h \in Hosts, NEW j \in JobIds, NEW role \in Callers, Resume(h, j, role)
      PROVE  Moves /\ UNCHANGED <<issued, nonces, now, quorate>>
  BY <1>6, ResumeMoves DEF Resume
<1>7. ASSUME NEW h \in Hosts, NEW j \in JobIds, ResumeAfterRestart(h, j)
      PROVE  Moves /\ UNCHANGED <<issued, nonces, now, quorate>>
  BY <1>7, ResumeMoves DEF ResumeAfterRestart
<1>8. ASSUME NEW h \in Hosts, NEW j \in JobIds, NEW role \in Callers, Reconcile(h, j, role)
      PROVE  Moves /\ UNCHANGED <<issued, nonces, now, quorate>>
  BY <1>8, ReconcileMoves DEF Reconcile
<1> QED BY <1>1, <1>2, <1>3, <1>4, <1>5, <1>6, <1>7, <1>8 DEF Next

\* A step that moves records keeps them sound, the prune included.
LEMMA MovesSound ==
  ASSUME IInv, Moves PROVE Sound(records', issued, nonces)
<1>1. PICK Q : Moved(records, Q) /\ (records' = Q \/ records' \in Prune(Q))
  BY DEF Moves
<1>2. Sound(Q, issued, nonces)
  BY <1>1, MovedSound DEF IInv
<1> QED BY <1>1, <1>2, PruneSound

\* The invariant is inductive.
LEMMA NextIInv == IInv /\ [Next]_vars => IInv'
<1> SUFFICES ASSUME IInv, [Next]_vars PROVE IInv'
  OBVIOUS
<1>1. CASE UNCHANGED vars
  BY <1>1 DEF vars, IInv, Sound, WellFormed, Exclusive, Keyed, Fenced, NotRerun
<1>2. CASE Moves /\ UNCHANGED <<issued, nonces, now, quorate>>
  BY <1>2, MovesSound DEF IInv
<1>3. ASSUME NEW h \in Hosts, NEW l \in Launches, NEW role \in Callers, Admit(h, l, role)
      PROVE  IInv'
  BY <1>3, AdmitSound DEF IInv, Admit
<1>4. ASSUME NEW h \in Hosts, NEW j \in JobIds, Claim(h, j)
      PROVE  IInv'
  BY <1>4, ClaimSound DEF IInv, Claim
<1>5. CASE Tick
  BY <1>5 DEF IInv, Tick
<1>6. CASE ChangeMembership
  BY <1>6, QuorumAssumption DEF IInv, ChangeMembership
<1> QED BY <1>1, <1>2, <1>3, <1>4, <1>5, <1>6, NextCases

\* The records are sound in every reachable state.
THEOREM Invariance == Spec => []IInv
<1> QED BY InitIInv, NextIInv, PTL DEF Spec

\* Every record is well formed in every reachable state: no operation writes a
\* record another host could not read back (JobRecord).
THEOREM Types == Spec => []TypeOK
<1>1. IInv => TypeOK
  BY DEF IInv, Sound, WellFormed, TypeOK
<1> QED BY Invariance, <1>1, PTL

\* Two jobs that could still touch the cluster never cover a common resource,
\* whatever their locks are (check_conflicts at admission is enough).
THEOREM Locks == Spec => []LockExclusion
<1>1. IInv => LockExclusion
  BY DEF IInv, Sound, Exclusive, LockExclusion
<1> QED BY Invariance, <1>1, PTL

\* A user's idempotency key names at most one kept job (admit).
THEOREM Keys == Spec => []UniqueKeys
<1>1. IInv => UniqueKeys
  BY DEF IInv, Sound, Keyed, UniqueKeys
<1> QED BY Invariance, <1>1, PTL

\* An operation without checkpoints is claimed at most once (claim, resume,
\* resume_after_restart, sweep).
THEOREM Reruns == Spec => []NoBlindRerun
<1>1. IInv => NoBlindRerun
  BY DEF IInv, Sound, NotRerun, NoBlindRerun
<1> QED BY Invariance, <1>1, PTL

\* A nonce belongs to one run of one job (claim, check_holder).
THEOREM Fence == Spec => []LeaseFence
<1>1. IInv => LeaseFence
  BY DEF IInv, Sound, Fenced, LeaseFence
<1> QED BY Invariance, <1>1, PTL

-----------------------------------------------------------------------------
(* What a step may never do.                                               *)

Claims(o, r) ==
    /\ o.state = "admitted"
    /\ r.lease.nonce > o.lease.nonce /\ r.cancel = o.cancel

\* A record that survives a step was moved or claimed.
LEMMA RecordSteps ==
  ASSUME IInv, Next, NEW j \in DOMAIN records \cap DOMAIN records'
  PROVE  /\ records[j] \in JobRecord
         /\ Move(records[j], records'[j]) \/ Claims(records[j], records'[j])
<1>1. records[j] \in JobRecord
  BY Typed
<1>2. CASE Moves
  <2>1. PICK Q : Moved(records, Q) /\ (records' = Q \/ records' \in Prune(Q))
    BY <1>2 DEF Moves
  <2>2. records'[j] = Q[j]
    BY <2>1, PruneKeeps
  <2> QED BY <1>1, <2>1, <2>2 DEF Moved
<1>3. ASSUME NEW h \in Hosts, NEW l \in Launches, NEW role \in Callers, Admit(h, l, role)
      PROVE  Move(records[j], records'[j])
  BY <1>1, <1>3, AdmitSound, MoveNothing
<1>4. ASSUME NEW h \in Hosts, NEW i \in JobIds, Claim(h, i)
      PROVE  Move(records[j], records'[j]) \/ Claims(records[j], records'[j])
  <2>1. CASE i = j
    BY <1>4, <2>1, ClaimSound DEF Claims
  <2>2. CASE i # j
    <3>1. records'[j] = records[j]
      BY <1>4, <2>2, ClaimSound
    <3> QED BY <1>1, <3>1, MoveNothing
  <2> QED BY <2>1, <2>2
<1>5. CASE Tick \/ ChangeMembership
  BY <1>1, <1>5, MoveNothing DEF Tick, ChangeMembership
<1> QED BY <1>1, <1>2, <1>3, <1>4, <1>5, NextCases

\* No operation of any host changes a finished record (finish, cancel, sweep,
\* reconcile, interrupt_own).
THEOREM Final == Spec => TerminalIsFinal
<1> DEFINE A == \A j \in DOMAIN records \cap DOMAIN records' :
                   records[j].state \in Terminal => records'[j] = records[j]
<1>1. IInv /\ [Next]_vars => [A]_vars
  <2> SUFFICES ASSUME IInv, Next, NEW j \in DOMAIN records \cap DOMAIN records',
                      records[j].state \in Terminal
               PROVE  records'[j] = records[j]
    BY DEF vars
  <2> QED BY RecordSteps DEF Move, Claims, Terminal
<1> QED BY Invariance, <1>1, PTL DEF Spec, TerminalIsFinal

\* A running job is never taken over, and nonces only grow (claim, renew).
THEOREM NoTakeover == Spec => NeverTakenOver
<1> DEFINE A == \A j \in DOMAIN records \cap DOMAIN records' :
                   LET old == records[j]  new == records'[j] IN
                   /\ new.lease.nonce >= old.lease.nonce
                   /\ old.state = "running" /\ new.state = "running"
                         => new.lease.nonce = old.lease.nonce
<1>1. IInv /\ [Next]_vars => [A]_vars
  <2> SUFFICES ASSUME IInv, Next, NEW j \in DOMAIN records \cap DOMAIN records'
               PROVE  /\ records'[j].lease.nonce >= records[j].lease.nonce
                      /\ records[j].state = "running" /\ records'[j].state = "running"
                            => records'[j].lease.nonce = records[j].lease.nonce
    BY DEF vars
  <2>1. records[j].lease.nonce \in Nat
    BY Typed DEF JobRecord, Lease
  <2>2. records'[j] \in JobRecord
    BY NextIInv DEF IInv, Sound, WellFormed
  <2>3. records'[j].lease.nonce \in Nat
    BY <2>2 DEF JobRecord, Lease
  <2> QED BY <2>1, <2>3, RecordSteps DEF Move, Claims
<1> QED BY Invariance, <1>1, PTL DEF Spec, NeverTakenOver

\* A cancel order stays until the job ends (cancel, claim, resume).
THEOREM OrdersKept == Spec => CancelOrderKept
<1> DEFINE A == \A j \in DOMAIN records \cap DOMAIN records' :
                   records'[j].state \in Unfinished =>
                      /\ records[j].cancel = "forced" => records'[j].cancel = "forced"
                      /\ records[j].cancel = "soft" => records'[j].cancel # "none"
<1>1. IInv /\ [Next]_vars => [A]_vars
  <2> SUFFICES ASSUME IInv, Next, NEW j \in DOMAIN records \cap DOMAIN records',
                      records'[j].state \in Unfinished
               PROVE  /\ records[j].cancel = "forced" => records'[j].cancel = "forced"
                      /\ records[j].cancel = "soft" => records'[j].cancel # "none"
    BY DEF vars
  <2> QED BY RecordSteps DEF Move, Claims
<1> QED BY Invariance, <1>1, PTL DEF Spec, CancelOrderKept

-----------------------------------------------------------------------------
(* What a prune may remove.                                                *)

\* The records Q before the prune: what had ended is as it was, and what ends
\* now ends by the clock of host h.
Endings(Q, h) ==
    /\ DOMAIN records \subseteq DOMAIN Q /\ DOMAIN Q \subseteq JobIds
    /\ \A j \in DOMAIN records :
        /\ records[j].state \in Terminal => Q[j] = records[j]
        /\ Q[j].state \in Terminal /\ records[j].state \notin Terminal =>
              Q[j].finishedAt = Clock(h)

Pruned == \E h \in quorate : \E Q : Endings(Q, h) /\ records' \in Prune(Q)

\* A prune of one changed record.
LEMMA OneEnds ==
  ASSUME IInv, NEW h \in quorate, NEW j \in DOMAIN records, NEW r,
         records[j].state \notin Terminal,
         r.state \in Terminal => r.finishedAt = Clock(h),
         records' \in Prune([records EXCEPT ![j] = r])
  PROVE  Pruned
<1> DEFINE Q == [records EXCEPT ![j] = r]
<1>1. DOMAIN Q = DOMAIN records /\ Q[j] = r /\ \A i \in DOMAIN records \ {j} : Q[i] = records[i]
  OBVIOUS
<1>2. DOMAIN records \subseteq JobIds
  BY DEF IInv, Sound, WellFormed
<1> HIDE DEF Q
<1>3. Endings(Q, h)
  BY <1>1, <1>2 DEF Endings
<1>4. records' \in Prune(Q)
  BY DEF Q
<1> QED BY <1>3, <1>4 DEF Pruned

\* Records disappear in prunes only.
LEMMA OnlyPruned ==
  ASSUME IInv, Next, ~(DOMAIN records \subseteq DOMAIN records')
  PROVE  Pruned
<1>1. ASSUME NEW h \in Hosts, NEW l \in Launches, NEW role \in Callers, Admit(h, l, role)
      PROVE  Pruned
  <2>1. PICK j \in JobIds \ issued, t \in ResolveTarget(l, h) :
           records' \in Prune(Put(records, j, NewRecord(l, t, Clock(h))))
    BY <1>1 DEF Admit
  <2> DEFINE Q == Put(records, j, NewRecord(l, t, Clock(h)))
  <2>2. j \notin DOMAIN records /\ DOMAIN records \subseteq JobIds
    BY DEF IInv, Sound, WellFormed
  <2>3. DOMAIN Q = DOMAIN records \cup {j} /\ \A i \in DOMAIN records : Q[i] = records[i]
    BY <2>2 DEF Put
  <2>4. records' \in Prune(Q) /\ h \in quorate
    BY <1>1, <2>1 DEF Admit
  <2> HIDE DEF Q
  <2>5. Endings(Q, h)
    BY <2>2, <2>3 DEF Endings
  <2> QED BY <2>4, <2>5 DEF Pruned
<1>2. ASSUME NEW h \in Hosts, NEW j \in JobIds, NEW n, NEW o, NEW s, Finish(h, j, n, o, s)
      PROVE  Pruned
  <2>1. h \in quorate /\ j \in DOMAIN records /\ records[j] \in JobRecord
        /\ records[j].state \notin Terminal
    BY <1>2, Typed DEF Finish, Finishable, Terminal
  <2>2. Reported(records[j], o, Clock(h), s).finishedAt = Clock(h)
    BY <2>1 DEF Reported, Ended, JobRecord
  <2> QED BY <1>2, <2>1, <2>2, OneEnds DEF Finish
<1>3. ASSUME NEW h \in Hosts, NEW j \in JobIds, NEW role, NEW force,
             CancelAdmitted(h, j, role, force)
      PROVE  Pruned
  <2>1. h \in quorate /\ j \in DOMAIN records /\ records[j] \in JobRecord
        /\ records[j].state \notin Terminal
    BY <1>3, Typed DEF CancelAdmitted, Terminal
  <2>2. CancelledEarly(records[j], Clock(h), force).finishedAt = Clock(h)
    BY <2>1 DEF CancelledEarly, Ended, JobRecord
  <2> QED BY <1>3, <2>1, <2>2, OneEnds DEF CancelAdmitted
<1>4. ASSUME NEW h \in Hosts, NEW j \in JobIds, NEW role, NEW force,
             CancelRunning(h, j, role, force)
      PROVE  Pruned
  <2>1. h \in quorate /\ j \in DOMAIN records /\ records[j] \in JobRecord
        /\ records[j].state = "running"
    BY <1>4, Typed DEF CancelRunning
  <2>2. Ordered(records[j], force).state = "running"
    BY <2>1 DEF Ordered, JobRecord
  <2> QED BY <1>4, <2>1, <2>2, OneEnds DEF CancelRunning, Terminal
<1>5. ASSUME NEW h \in Hosts, NEW j \in JobIds, NEW role, Reconcile(h, j, role)
      PROVE  Pruned
  <2>1. h \in quorate /\ j \in DOMAIN records /\ records[j] \in JobRecord
        /\ records[j].state \notin Terminal
    BY <1>5, Typed DEF Reconcile, Terminal
  <2>2. Ended(records[j], "failed", "reconciled", Clock(h)).finishedAt = Clock(h)
    BY <2>1 DEF Ended, JobRecord
  <2> QED BY <1>5, <2>1, <2>2, OneEnds DEF Reconcile
<1>6. ASSUME NEW h \in Hosts, Sweep(h) PROVE Pruned
  <2>1. PICK S \in SUBSET {j \in DOMAIN records : records[j].state \in {"running", "admitted"}} :
           records' \in Prune([j \in DOMAIN records |->
                 IF j \in S THEN Swept(records[j], Clock(h)) ELSE records[j]])
    BY <1>6 DEF Sweep, Expired, Unclaimed
  <2> DEFINE Q == [j \in DOMAIN records |->
                     IF j \in S THEN Swept(records[j], Clock(h)) ELSE records[j]]
  <2>2. DOMAIN Q = DOMAIN records /\ DOMAIN records \subseteq JobIds
    BY DEF IInv, Sound, WellFormed
  <2>3. ASSUME NEW j \in DOMAIN records
        PROVE  /\ records[j].state \in Terminal => Q[j] = records[j]
               /\ Q[j].state \in Terminal /\ records[j].state \notin Terminal =>
                     Q[j].finishedAt = Clock(h)
    <3>1. records[j] \in JobRecord
      BY Typed
    <3>2. CASE j \in S
      <4>1. records[j].state \in {"running", "admitted"}
        BY <2>1, <3>2
      <4>2. Q[j] = Swept(records[j], Clock(h))
        BY <3>2
      <4>3. Swept(records[j], Clock(h)).state \in Terminal =>
               Swept(records[j], Clock(h)).finishedAt = Clock(h)
        BY <3>1, <4>1 DEF Swept, Ended, JobRecord, Terminal
      <4> QED BY <4>1, <4>2, <4>3 DEF Terminal
    <3>3. CASE j \notin S
      BY <3>3
    <3> QED BY <3>2, <3>3
  <2>4. records' \in Prune(Q) /\ h \in quorate
    BY <1>6, <2>1 DEF Sweep
  <2> HIDE DEF Q
  <2>5. Endings(Q, h)
    BY <2>2, <2>3 DEF Endings
  <2> QED BY <2>4, <2>5 DEF Pruned
<1>7. CASE \/ \E h \in Hosts, j \in JobIds :
               \/ Claim(h, j) \/ ResumeAfterRestart(h, j)
               \/ \E role \in Callers : Resume(h, j, role)
               \/ \E n \in 1..nonces, p \in Reports : Renew(h, j, n, p)
           \/ \E h \in Hosts : \E S \in SUBSET Own(h) : InterruptOwn(h, S)
           \/ Tick
           \/ ChangeMembership
  <2>1. DOMAIN records' = DOMAIN records
    BY <1>7 DEF Claim, ResumeAfterRestart, Resume, Renew, InterruptOwn, Interrupt, Tick,
                ChangeMembership
  <2> QED BY <2>1
<1> QED BY <1>1, <1>2, <1>3, <1>4, <1>5, <1>6, <1>7 DEF Next

\* Whatever disappears, the newest KeepFinished ended jobs stay (Locked::prune).
THEOREM NewestStay == Spec => PruneOldest
<1> DEFINE A == LET gone == DOMAIN records \ DOMAIN records'
                    kept == Finished(records')
                IN gone # {} =>
                   /\ Cardinality(kept) >= KeepFinished
                   /\ \A j \in gone \cap Finished(records), i \in kept :
                         records[j].finishedAt <= records'[i].finishedAt
                   /\ gone \subseteq Finished(records)
                         \/ \E h \in quorate : \A i \in kept : Clock(h) <= records'[i].finishedAt
           gone == DOMAIN records \ DOMAIN records'
           kept == Finished(records')
<1>1. ASSUME IInv, Next, gone # {} PROVE A
  <2>1. Pruned
    BY <1>1, OnlyPruned
  <2>2. PICK h \in quorate : \E Q : Endings(Q, h) /\ records' \in Prune(Q)
    BY <2>1 DEF Pruned
  <2>3. PICK Q : Endings(Q, h) /\ records' \in Prune(Q)
    BY <2>2
  <2>4. PICK g \in SUBSET Finished(Q) :
          /\ records' = [j \in DOMAIN Q \ g |-> Q[j]]
          /\ Cardinality(g) <= Greater(0, Cardinality(Finished(Q)) - KeepFinished)
          /\ OldestFirst(Q, g)
    BY <2>3 DEF Prune
  <2>5. DOMAIN records' = DOMAIN Q \ g /\ \A j \in DOMAIN Q \ g : records'[j] = Q[j]
    BY <2>4
  <2>6. kept = Finished(Q) \ g
    BY <2>5 DEF Finished
  <2>7. gone \subseteq g /\ g # {}
    BY <1>1, <2>3, <2>5 DEF Endings
  <2>8. Cardinality(kept) >= KeepFinished
    <3>1. IsFiniteSet(Finished(Q))
      BY <2>3, JobIdsAssumption, FS_Subset DEF Endings, Finished
    <3>2. IsFiniteSet(g) /\ Cardinality(g) \in Nat /\ Cardinality(Finished(Q)) \in Nat
          /\ Cardinality(g) # 0
      BY <2>4, <2>7, <3>1, FS_Subset, FS_CardinalityType, FS_EmptySet
    <3>3. Finished(Q) \cap g = g
      BY <2>4
    <3>4. Cardinality(kept) = Cardinality(Finished(Q)) - Cardinality(g)
      BY <2>6, <3>1, <3>3, FS_Difference
    <3>5. KeepFinished \in Nat
      BY TimeAssumption
    <3> HIDE DEF kept
    <3> QED BY <2>4, <3>2, <3>4, <3>5 DEF Greater
  <2>9. ASSUME NEW j \in gone \cap Finished(records), NEW i \in kept
        PROVE  records[j].finishedAt <= records'[i].finishedAt
    <3>1. Q[j] = records[j]
      BY <2>3 DEF Endings, Finished
    <3>2. j \in g /\ i \in Finished(Q) \ g /\ records'[i] = Q[i]
      BY <2>5, <2>6, <2>7 DEF Finished
    <3> QED BY <2>4, <3>1, <3>2 DEF OldestFirst
  <2>10. ASSUME NEW j \in gone, j \notin Finished(records)
        PROVE  \A i \in kept : Clock(h) <= records'[i].finishedAt
    <3>1. j \in g /\ j \in DOMAIN records /\ records[j].state \notin Terminal
      BY <2>7, <2>10 DEF Finished
    <3>2. Q[j].finishedAt = Clock(h)
      BY <2>3, <2>4, <3>1 DEF Endings, Finished
    <3> TAKE i \in kept
    <3>3. i \in Finished(Q) \ g /\ records'[i] = Q[i]
      BY <2>5, <2>6 DEF Finished
    <3> QED BY <2>4, <3>1, <3>2, <3>3 DEF OldestFirst
  <2> QED BY <2>8, <2>9, <2>10
<1>2. IInv /\ [Next]_vars => [A]_vars
  BY <1>1
<1> QED BY Invariance, <1>2, PTL DEF Spec, PruneOldest

=============================================================================
