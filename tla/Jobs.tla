-------------------------------- MODULE Jobs --------------------------------
(***************************************************************************)
(* The job records of bmacd: src/v3/crates/bmacd/src/jobs.rs.              *)
(*                                                                         *)
(* One record per job lives in pmxcfs, the file system every host of the   *)
(* cluster shares.  Each operation of `Jobs' takes the jobs lock, reads    *)
(* every record, changes some and releases the lock (Jobs::locked), so     *)
(* here each operation is one action.  pmxcfs accepts writes only in the   *)
(* part of the cluster that has quorum.  What happens when the lock itself *)
(* fails is the subject of RegistryLock; what the hosts do with a job they *)
(* have claimed is the subject of JobRunner.                               *)
(*                                                                         *)
(* Left out: titles, wording, display fields (phase, created_at,           *)
(* updated_at, who cancelled) and parameter validation.  A launch stands   *)
(* for an operation with prepared parameters and dry_run.                  *)
(***************************************************************************)
EXTENDS Integers, FiniteSets, SequencesExt

CONSTANTS
    Hosts,        \* host slots
    JobIds,       \* the job ids that will ever be drawn
    Launches,     \* what callers can launch
    KeyOf,        \* launch -> the (user, idempotency key) it is sent with
    LocksOf,      \* launch -> its resource locks, each a path of names
    Checkpoint,   \* the launches whose operation resumes from a checkpoint
    TargetOf,     \* launch -> its target rule
    MinRole,      \* launch -> the least role that may act on it
    Callers,      \* the roles of the people and schedules that call
    Quorums,      \* the sets of hosts that can form a quorate partition
    Skew,         \* host -> how far its clock is from true time
    LeaseTtl, ClaimTimeout, LockTimeout, KeepFinished,
    Reports,      \* what a holder can report about its script
    MaxTime,      \* bound: the clock stops here
    MaxClaims     \* bound: how many claims a behaviour makes

Roles == 1..3     \* Viewer, Operator, Admin
Admin == 3
NoHost == 0

ASSUME HostsAssumption == Hosts \subseteq Nat \ {NoHost} /\ IsFiniteSet(Hosts)
ASSUME LaunchAssumption ==
    /\ Checkpoint \subseteq Launches
    /\ MinRole \in [Launches -> Roles] /\ Callers \subseteq Roles
    /\ DOMAIN LocksOf = Launches /\ DOMAIN KeyOf = Launches
ASSUME TargetAssumption ==
    TargetOf \in [Launches -> [rule: {"any", "duty", "host", "any_except", "guest"},
                               host: Hosts \cup {NoHost}]]
ASSUME QuorumAssumption == Quorums \subseteq SUBSET Hosts
ASSUME TimeAssumption ==
    /\ LeaseTtl \in Nat /\ ClaimTimeout \in Nat /\ LockTimeout \in Nat
    /\ KeepFinished \in Nat /\ MaxTime \in Nat /\ MaxClaims \in Nat
    /\ Skew \in [Hosts -> Int]
ASSUME JobIdsAssumption == IsFiniteSet(JobIds)

VARIABLES
    records,      \* job id -> its record, for the records that exist
    issued,       \* ids already drawn: a removed record's id never returns
    nonces,       \* how many lease nonces have been drawn
    now,          \* true time
    quorate       \* the hosts in the partition that has quorum

vars == <<records, issued, nonces, now, quorate>>

-----------------------------------------------------------------------------
(* A record.                                                               *)

Unfinished == {"admitted", "running", "interrupted"}
Terminal   == {"completed", "failed", "cancelled"}
Messages   == {"none", "restarted", "lapsed",
               "reported", "reconciled", "never_started", "cancelled_early"}
Orders     == {"none", "soft", "forced"}

\* A nonce is the number of the draw: two draws never agree.  0 is no lease.
NoLease == [nonce |-> 0, holder |-> NoHost, expires |-> 0]
Lease   == [nonce: Nat, holder: Hosts \cup {NoHost}, expires: Int]

JobRecord ==
    [launch: Launches, target: Hosts, state: Unfinished \cup Terminal,
     admittedAt: Int, finishedAt: Int, lease: Lease, cancel: Orders,
     cancelAllowed: BOOLEAN, pending: BOOLEAN, attempts: Nat, lastSeq: Nat,
     message: Messages]

Progress == [cancelAllowed: BOOLEAN, pending: BOOLEAN, seq: Nat]

ASSUME ReportsAssumption == Reports \subseteq Progress

Clock(h) == now + Skew[h]

\* Two locks cover a common resource: equal, or one is a parent of the other.
LocksConflict(a, b) == IsPrefix(a, b) \/ IsPrefix(b, a)

Overlap(k, l) == \E a \in LocksOf[k], b \in LocksOf[l] : LocksConflict(a, b)

HoldsLocks_droppedWhenInterrupted(r) == r.state \in {"admitted", "running"}
HoldsLocks(r) == r.state \notin Terminal

Put(recs, j, r) == [i \in DOMAIN recs \cup {j} |-> IF i = j THEN r ELSE recs[i]]

\* JobRecord::finish: the end of a job, however it comes.
Ended(r, state, message, at) ==
    [r EXCEPT !.state = state, !.message = message, !.finishedAt = at, !.pending = FALSE]

Greater(a, b) == IF a > b THEN a ELSE b

-----------------------------------------------------------------------------
(* Retention.                                                              *)

Finished(recs) == {j \in DOMAIN recs : recs[j].state \in Terminal}

\* Whether the records `gone' are the ones a prune removes first.
OldestFirst_newest(recs, gone) ==
    \A x \in gone, y \in Finished(recs) \ gone : recs[x].finishedAt >= recs[y].finishedAt
OldestFirst(recs, gone) ==
    \A x \in gone, y \in Finished(recs) \ gone : recs[x].finishedAt <= recs[y].finishedAt

\* What Locked::prune can leave.  Removing stops at the first file pmxcfs
\* refuses to remove, so any number up to the excess may be gone; ties on the
\* finish time are broken by the random job id.
Prune(recs) ==
    {[j \in DOMAIN recs \ gone |-> recs[j]] :
        gone \in {g \in SUBSET Finished(recs) :
                    /\ Cardinality(g) <= Greater(0, Cardinality(Finished(recs)) - KeepFinished)
                    /\ OldestFirst(recs, g)}}

-----------------------------------------------------------------------------
(* Targets.                                                                *)

\* The lowest-numbered host of the quorate partition.
Duty == {h \in quorate : \A g \in quorate : h <= g}

\* The hosts resolve_target may answer with on host h; none refuses the call.
\* "guest" is the owner and standby rules: the owner and the placement come
\* from the cluster's guest configuration, and either must be online.
ResolveTarget(l, h) ==
    LET t == TargetOf[l] IN
    CASE t.rule = "any"        -> {h}
      [] t.rule = "duty"       -> Duty
      [] t.rule = "host"       -> {t.host} \cap quorate
      [] t.rule = "any_except" ->
            IF h # t.host THEN {h}
            ELSE {g \in quorate \ {t.host} : \A i \in quorate \ {t.host} : g <= i}
      [] t.rule = "guest"      -> quorate

-----------------------------------------------------------------------------
(* Admission.                                                              *)

\* The record an earlier launch with the same user and key left, if any.
Existing_unfinished(l) == {j \in DOMAIN records : HoldsLocks(records[j])
                                                  /\ KeyOf[records[j].launch] = KeyOf[l]}
Existing(l) == {j \in DOMAIN records : KeyOf[records[j].launch] = KeyOf[l]}

CheckConflicts(l) ==
    \A j \in DOMAIN records : HoldsLocks(records[j]) => ~Overlap(l, records[j].launch)

NewRecord_unplaced(l, target, at) ==
    [launch |-> l, target |-> NoHost, state |-> "admitted",
     admittedAt |-> at, finishedAt |-> 0, lease |-> NoLease, cancel |-> "none",
     cancelAllowed |-> TRUE, pending |-> FALSE, attempts |-> 0, lastSeq |-> 0,
     message |-> "none"]
NewRecord(l, target, at) ==
    [launch |-> l, target |-> target, state |-> "admitted",
     admittedAt |-> at, finishedAt |-> 0, lease |-> NoLease, cancel |-> "none",
     cancelAllowed |-> TRUE, pending |-> FALSE, attempts |-> 0, lastSeq |-> 0,
     message |-> "none"]

\* Jobs::admit on host h.  A launch whose key is taken returns the existing
\* job or is refused, and changes nothing.
Admit(h, l, role) ==
    /\ h \in quorate
    /\ role >= MinRole[l]
    /\ Existing(l) = {}
    /\ CheckConflicts(l)
    /\ \E j \in JobIds \ issued, t \in ResolveTarget(l, h) :
          /\ records' \in Prune(Put(records, j, NewRecord(l, t, Clock(h))))
          /\ issued' = issued \cup {j}
    /\ UNCHANGED <<nonces, now, quorate>>

-----------------------------------------------------------------------------
(* The host that runs the job.                                             *)

Claimable_takesOver(h, r) ==
    \/ r.state = "admitted" /\ r.target = h
    \/ r.state = "running" /\ Clock(h) >= r.lease.expires
Claimable(h, r) == r.state = "admitted" /\ r.target = h

\* The nonce of a new lease, random in the code.
FreshNonce_perAttempt == 1
FreshNonce == nonces + 1

Claimed(r, h) ==
    [r EXCEPT !.state = "running",
              !.lease = [nonce |-> FreshNonce, holder |-> h, expires |-> Clock(h) + LeaseTtl],
              !.attempts = @ + 1, !.cancelAllowed = TRUE,
              !.pending = FALSE, !.message = "none"]

\* Jobs::claim: the target host takes an admitted job under a fresh nonce.
Claim(h, j) ==
    /\ h \in quorate
    /\ nonces < MaxClaims
    /\ j \in DOMAIN records
    /\ Claimable(h, records[j])
    /\ records' = [records EXCEPT ![j] = Claimed(@, h)]
    /\ nonces' = nonces + 1
    /\ UNCHANGED <<issued, now, quorate>>

CheckHolder_leaseExists(h, r, nonce) == r.lease # NoLease
CheckHolder(h, r, nonce) == r.lease.nonce = nonce /\ r.lease.holder = h

Renewable(h, r) == r.state = "running" /\ Clock(h) < r.lease.expires

Renewed(r, h, p) ==
    [r EXCEPT !.lease = [@ EXCEPT !.expires = Clock(h) + LeaseTtl],
              !.cancelAllowed = p.cancelAllowed, !.pending = p.pending,
              !.lastSeq = Greater(r.lastSeq, p.seq)]

\* Jobs::renew with what the script is doing.
Renew(h, j, nonce, p) ==
    /\ h \in quorate
    /\ j \in DOMAIN records
    /\ CheckHolder(h, records[j], nonce)
    /\ Renewable(h, records[j])
    /\ records' = [records EXCEPT ![j] = Renewed(@, h, p)]
    /\ UNCHANGED <<issued, nonces, now, quorate>>

Finishable_ignoresState(r) == TRUE
Finishable(r) == r.state \in {"running", "interrupted"}

Reported(r, outcome, at, seq) ==
    [Ended(r, outcome, "reported", at) EXCEPT !.lastSeq = Greater(r.lastSeq, seq)]

\* Jobs::finish: the holder reports how the job ended, also after its lease
\* expired.
Finish(h, j, nonce, outcome, seq) ==
    /\ h \in quorate
    /\ j \in DOMAIN records
    /\ CheckHolder(h, records[j], nonce)
    /\ Finishable(records[j])
    /\ records' \in Prune([records EXCEPT ![j] = Reported(@, outcome, Clock(h), seq)])
    /\ UNCHANGED <<issued, nonces, now, quorate>>

-----------------------------------------------------------------------------
(* Operators.                                                              *)

MayAct(r, role) == role >= MinRole[r.launch]

\* The order a cancel leaves on a running job: a forced one is never eased.
CancelOrder(r, force) == IF force \/ r.cancel = "forced" THEN "forced" ELSE "soft"

CancelledEarly(r, at, force) ==
    [Ended(r, "cancelled", "cancelled_early", at) EXCEPT
        !.cancel = IF force THEN "forced" ELSE "soft"]

\* Jobs::cancel of a job nobody has claimed: it ends at once.
CancelAdmitted(h, j, role, force) ==
    /\ h \in quorate
    /\ j \in DOMAIN records
    /\ MayAct(records[j], role) /\ (force => role = Admin)
    /\ records[j].state = "admitted"
    /\ records' \in Prune([records EXCEPT ![j] = CancelledEarly(@, Clock(h), force)])
    /\ UNCHANGED <<issued, nonces, now, quorate>>

Ordered(r, force) == [r EXCEPT !.cancel = CancelOrder(r, force)]

\* Jobs::cancel of a running job: an order its host carries out.  A soft one
\* is refused in a phase the script marked unsafe, unless it waits for an
\* answer.  Cancelling an interrupted or a finished job is refused.
CancelRunning(h, j, role, force) ==
    /\ h \in quorate
    /\ j \in DOMAIN records
    /\ MayAct(records[j], role) /\ (force => role = Admin)
    /\ records[j].state = "running"
    /\ force \/ records[j].cancelAllowed \/ records[j].pending
    /\ records' \in Prune([records EXCEPT ![j] = Ordered(@, force)])
    /\ UNCHANGED <<issued, nonces, now, quorate>>

Resumable_always(r) == r.state = "interrupted"
Resumable(r) == r.state = "interrupted" /\ r.launch \in Checkpoint

\* The record of a job put back in line; its lease and its cancel order stay.
BackInLine(r, target, at) ==
    [r EXCEPT !.state = "admitted", !.target = target, !.admittedAt = at,
              !.message = "none"]

\* Jobs::resume: an operator restarts an interrupted job from its checkpoint,
\* on the host its target rule picks now.
Resume(h, j, role) ==
    /\ h \in quorate
    /\ j \in DOMAIN records
    /\ MayAct(records[j], role)
    /\ Resumable(records[j])
    /\ \E t \in ResolveTarget(records[j].launch, h) :
          records' = [records EXCEPT ![j] = BackInLine(@, t, Clock(h))]
    /\ UNCHANGED <<issued, nonces, now, quorate>>

\* Jobs::reconcile: an operator marks an interrupted job failed.
Reconcile(h, j, role) ==
    /\ h \in quorate
    /\ j \in DOMAIN records
    /\ MayAct(records[j], role)
    /\ records[j].state = "interrupted"
    /\ records' \in Prune([records EXCEPT ![j] =
          Ended(@, "failed", "reconciled", Clock(h))])
    /\ UNCHANGED <<issued, nonces, now, quorate>>

-----------------------------------------------------------------------------
(* A bmacd that starts, and the sweep every bmacd runs.                    *)

Own(h) == {j \in DOMAIN records : records[j].state = "running"
                                  /\ records[j].lease.holder = h}

\* The records of S interrupted, the others as they were.
Interrupt(recs, S) ==
    [j \in DOMAIN recs |->
        IF j \in S THEN [recs[j] EXCEPT !.state = "interrupted", !.message = "restarted"]
        ELSE recs[j]]

\* Jobs::interrupt_own.  Each record is saved on its own and the first save
\* that fails ends the call, so S may be any part of the host's jobs.
InterruptOwn(h, S) ==
    /\ h \in quorate
    /\ S # {} /\ S \subseteq Own(h)
    /\ records' = Interrupt(records, S)
    /\ UNCHANGED <<issued, nonces, now, quorate>>

\* Jobs::resume_after_restart, for a job that asked for the restart.
ResumeAfterRestart(h, j) ==
    /\ h \in quorate
    /\ j \in DOMAIN records
    /\ Resumable(records[j])
    /\ records[j].lease.holder = h
    /\ records' = [records EXCEPT ![j] = BackInLine(@, h, Clock(h))]
    /\ UNCHANGED <<issued, nonces, now, quorate>>

Expired_unlessOrdered(r, t) ==
    r.state = "running" /\ t >= r.lease.expires /\ r.cancel = "none"
Expired(r, t)   == r.state = "running" /\ t >= r.lease.expires
Unclaimed(r, t) == r.state = "admitted" /\ t >= r.admittedAt + ClaimTimeout

\* One record as the sweep leaves it.
Swept_ended(r, at) ==
    Ended(r, "failed", IF r.state = "running" THEN "lapsed" ELSE "never_started", at)
Swept(r, at) ==
    IF r.state = "running"
    THEN [r EXCEPT !.state = "interrupted", !.message = "lapsed"]
    ELSE Ended(r, "failed", "never_started", at)

\* Jobs::sweep.  Staleness is judged by the time t read before the lock was
\* waited for, at most LockTimeout ago.  Each record is saved on its own and
\* a failed save ends the call.
Sweep(h) ==
    /\ h \in quorate
    /\ \E t \in (Clock(h) - LockTimeout)..Clock(h) :
       \E S \in SUBSET {j \in DOMAIN records : Expired(records[j], t) \/ Unclaimed(records[j], t)}
               \ {{}} :
          records' \in Prune([j \in DOMAIN records |->
                IF j \in S THEN Swept(records[j], Clock(h)) ELSE records[j]])
    /\ UNCHANGED <<issued, nonces, now, quorate>>

-----------------------------------------------------------------------------
(* The environment.                                                        *)

Tick ==
    /\ now < MaxTime
    /\ now' = now + 1
    /\ UNCHANGED <<records, issued, nonces, quorate>>

\* Corosync forms another partition, or none has quorum.
ChangeMembership ==
    /\ quorate' \in (Quorums \cup {{}}) \ {quorate}
    /\ UNCHANGED <<records, issued, nonces, now>>

Init ==
    /\ records = [j \in {} |-> NoLease]
    /\ issued = {}
    /\ nonces = 0
    /\ now = 0
    /\ quorate \in Quorums

Next ==
    \/ \E h \in Hosts :
        \/ \E l \in Launches, role \in Callers : Admit(h, l, role)
        \/ \E S \in SUBSET Own(h) : InterruptOwn(h, S)
        \/ Sweep(h)
        \/ \E j \in JobIds :
            \/ Claim(h, j)
            \/ \E n \in 1..nonces, p \in Reports : Renew(h, j, n, p)
            \/ \E n \in 1..nonces, o \in Terminal, p \in Reports : Finish(h, j, n, o, p.seq)
            \/ ResumeAfterRestart(h, j)
            \/ \E role \in Callers :
                \/ \E force \in BOOLEAN : CancelAdmitted(h, j, role, force)
                \/ \E force \in BOOLEAN : CancelRunning(h, j, role, force)
                \/ Resume(h, j, role)
                \/ Reconcile(h, j, role)
    \/ Tick
    \/ ChangeMembership

Spec == Init /\ [][Next]_vars

-----------------------------------------------------------------------------
(* Properties.                                                             *)

\* Every record is well formed, its id was drawn, and its nonce too.
TypeOK ==
    /\ DOMAIN records \subseteq issued
    /\ \A j \in DOMAIN records : records[j] \in JobRecord
    /\ issued \subseteq JobIds
    /\ nonces \in Nat
    /\ now \in Nat
    /\ quorate \subseteq Hosts

\* No two jobs that could still touch the cluster cover a common resource,
\* although admission checks this only once: an interrupted job keeps its
\* resources and a resumed one takes nothing back (check_conflicts, resume).
LockExclusion ==
    \A i, j \in DOMAIN records :
        /\ i # j
        /\ records[i].state \in Unfinished
        /\ records[j].state \in Unfinished
        => ~Overlap(records[i].launch, records[j].launch)

\* A repeated launch never makes a second record, finished jobs included, as
\* long as the first one is kept (the idempotency key of admit).
UniqueKeys ==
    \A i, j \in DOMAIN records :
        KeyOf[records[i].launch] = KeyOf[records[j].launch] => i = j

\* An operation that cannot continue from a checkpoint is started at most
\* once, whatever expires, restarts or is swept (ResumeRule::Never).
NoBlindRerun ==
    \A j \in DOMAIN records :
        records[j].launch \notin Checkpoint => records[j].attempts <= 1

\* A lease belongs to one run of one job: no nonce is in two records, and a
\* job that has started has one (check_holder fences by it).
LeaseFence ==
    \A i, j \in DOMAIN records :
        /\ records[i].lease.nonce <= nonces
        /\ records[i].lease.nonce = records[j].lease.nonce /\ i # j
              => records[i].lease.nonce = 0
        /\ records[i].state \in {"running", "interrupted"} => records[i].lease.nonce > 0

\* The lease of a running job is never taken over: another run can start only
\* after the job was seen interrupted, and no nonce comes back (claim, renew).
NeverTakenOver ==
    [][\A j \in DOMAIN records \cap DOMAIN records' :
          LET old == records[j]  new == records'[j] IN
          /\ new.lease.nonce >= old.lease.nonce
          /\ old.state = "running" /\ new.state = "running"
                => new.lease.nonce = old.lease.nonce]_vars

\* How a job ended is never rewritten: a late finish, a cancel, a sweep or an
\* operator changes no finished record; it stays until it is pruned.
TerminalIsFinal ==
    [][\A j \in DOMAIN records \cap DOMAIN records' :
          records[j].state \in Terminal => records'[j] = records[j]]_vars

\* Whenever records disappear at least KeepFinished finished ones stay, and
\* none of those ended before one that went ("Unfinished jobs and the newest
\* finished ones are kept").  A job can go in the very step that ends it, but
\* only if every one kept ended no earlier by that host's clock.
PruneOldest ==
    [][LET gone == DOMAIN records \ DOMAIN records'
           kept == Finished(records')
       IN gone # {} =>
          /\ Cardinality(kept) >= KeepFinished
          /\ \A j \in gone \cap Finished(records), i \in kept :
                records[j].finishedAt <= records'[i].finishedAt
          /\ gone \subseteq Finished(records)
                \/ \E h \in quorate : \A i \in kept : Clock(h) <= records'[i].finishedAt]_vars

\* A cancel order placed on a job survives until the job ends: nothing eases a
\* forced order or forgets one, interruption and resumption included.
CancelOrderKept ==
    [][\A j \in DOMAIN records \cap DOMAIN records' :
          records'[j].state \in Unfinished =>
             /\ records[j].cancel = "forced" => records'[j].cancel = "forced"
             /\ records[j].cancel = "soft" => records'[j].cancel # "none"]_vars

=============================================================================
