----------------------------- MODULE JobRunner -----------------------------
(***************************************************************************)
(* What the hosts do with the job records: src/v3/crates/bmacd/src/        *)
(* runner.rs, with the part of supervisor.rs and main.rs that starts and   *)
(* ends a run.  Every host runs one bmacd; each bmacd polls for the jobs   *)
(* targeted at it, runs their scripts, renews their leases, carries out    *)
(* cancel orders, records how they ended, sweeps, and recovers its jobs    *)
(* when it starts.  Hosts crash and restart, and the cluster splits.       *)
(*                                                                         *)
(* A script is abstracted to whether it lives, what a soft cancel may do   *)
(* to it and how it ends; it keeps to the bmac-ui protocol, which is the   *)
(* subject of Supervisor.  The numbering of its events is that of          *)
(* JobEvents, so every report here carries number 0.                       *)
(***************************************************************************)
EXTENDS Jobs

CONSTANTS
    ScriptEnds,       \* bound: the ways in which scripts end
    MaxFaults         \* bound: crashes, stops, membership changes, lost answers
                      \* and careless operators

ASSUME RunnerAssumption ==
    ScriptEnds \subseteq Terminal /\ MaxFaults \in Nat

VARIABLES
    daemon,     \* host -> "up", "stopping" (asked to stop) or "down"
    runs,       \* host -> the runs in Runner::active, by job
    recovering, \* host -> where its spawn_recover is
    marker,     \* <<host, job>> -> the restart marker in the work directory
    frozen,     \* host -> the records it saw when it last lost quorum
    ends,       \* how scripts ended: <<nonce, outcome>>
    careless,   \* an operator dealt with an interrupted job without looking
    faults

local  == <<daemon, runs, recovering, marker, frozen, ends, careless, faults>>
rvars  == <<vars, local>>

Steps   == {"interrupting", "resuming", "idle"}
Markers == {"none", "asked", "happened"}

\* script: "live", or how it ended and waits to be recorded.
Run == [nonce: Nat, script: {"live"} \cup Terminal, leased: BOOLEAN,
        applied: Orders, cancelAllowed: BOOLEAN, pending: BOOLEAN]

Empty == [j \in {} |-> NoLease]
Without(f, j) == [i \in DOMAIN f \ {j} |-> f[i]]
Active(h) == DOMAIN runs[h]
Live(h, j) == j \in Active(h) /\ runs[h][j].script = "live"
Drop(h, j) == runs' = [runs EXCEPT ![h] = Without(@, j)]
SetRun(h, j, r) == runs' = [runs EXCEPT ![h] = Put(@, j, r)]

\* bmacd works until its process ends, a stop included.
Working(h) == daemon[h] # "down"

\* What host h reads: pmxcfs outside the quorate partition is a stale copy.
View(h) == IF h \in quorate THEN records ELSE frozen[h]

-----------------------------------------------------------------------------
(* Runner::poll and Runner::start.                                         *)

NewRun(nonce, script) ==
    [nonce |-> nonce, script |-> script, leased |-> TRUE, applied |-> "none",
     cancelAllowed |-> TRUE, pending |-> FALSE]

NotActive(h, j) == j \notin Active(h)

\* The script starts, or cannot be started and the job ends failed.
PollClaim(h, j) ==
    /\ Working(h)
    /\ NotActive(h, j)
    /\ Claim(h, j)
    /\ \E script \in {"live", "failed"} :
          /\ SetRun(h, j, NewRun(FreshNonce, script))
          /\ ends' = IF script = "live" THEN ends ELSE ends \cup {<<FreshNonce, script>>}
    /\ UNCHANGED <<daemon, recovering, marker, frozen, careless, faults>>

\* The claim is written but releasing the lock fails, so the claim is an
\* error to the runner and nothing starts.
ClaimLost(h, j) ==
    /\ Working(h)
    /\ NotActive(h, j)
    /\ Claim(h, j)
    /\ faults < MaxFaults /\ faults' = faults + 1
    /\ UNCHANGED <<daemon, runs, recovering, marker, frozen, ends, careless>>

-----------------------------------------------------------------------------
(* The script, as the supervisor sees it.                                  *)

\* The script enters a phase, asks for an answer or gets one.
ScriptEvent(h, j) ==
    /\ Working(h) /\ Live(h, j)
    /\ \E p \in Reports :
          SetRun(h, j, [runs[h][j] EXCEPT !.cancelAllowed = p.cancelAllowed,
                                          !.pending = p.pending])
    /\ UNCHANGED <<vars, daemon, recovering, marker, frozen, ends, careless, faults>>

\* A checkpoint job writes the marker before it restarts its host or bmacd.
AskRestart(h, j) ==
    /\ Working(h) /\ Live(h, j)
    /\ j \in DOMAIN records /\ records[j].launch \in Checkpoint
    /\ marker[<<h, j>>] = "none"
    /\ marker' = [marker EXCEPT ![<<h, j>>] = "asked"]
    /\ UNCHANGED <<vars, daemon, runs, recovering, frozen, ends, careless, faults>>

\* It forgets the marker once the restart is behind it.
ForgetRestart(h, j) ==
    /\ Working(h) /\ Live(h, j)
    /\ marker[<<h, j>>] # "none"
    /\ marker' = [marker EXCEPT ![<<h, j>>] = "none"]
    /\ UNCHANGED <<vars, daemon, runs, recovering, frozen, ends, careless, faults>>

\* Supervisor::finalize: the script ended and the run knows how.
ScriptEnd(h, j, outcome) ==
    /\ Working(h) /\ Live(h, j)
    /\ SetRun(h, j, [runs[h][j] EXCEPT !.script = outcome])
    /\ ends' = ends \cup {<<runs[h][j].nonce, outcome>>}
    /\ UNCHANGED <<vars, daemon, recovering, marker, frozen, careless, faults>>

\* Supervisor::finalize while bmacd stops: a script that said nothing and was
\* not being cancelled is left to the next start's recovery.
ScriptLeft(h, j) ==
    /\ daemon[h] = "stopping" /\ Live(h, j)
    /\ runs[h][j].applied = "none"
    /\ Drop(h, j)
    /\ UNCHANGED <<vars, daemon, recovering, marker, frozen, ends, careless, faults>>

-----------------------------------------------------------------------------
(* Runner::drive.                                                          *)

Report(run) == [cancelAllowed |-> run.cancelAllowed, pending |-> run.pending, seq |-> 0]

\* The order is passed to Supervisor::cancel once, and again when it became
\* forced.  The supervisor refuses a soft one in an unsafe phase with nothing
\* to answer, and drive tries again later.
Obey_once(run, order) ==
    IF /\ order # "none" /\ run.applied = "none"
       /\ order = "forced" \/ run.cancelAllowed \/ run.pending
    THEN [run EXCEPT !.applied = order] ELSE run
Obey(run, order) ==
    IF /\ order # "none"
       /\ run.applied = "none" \/ (order = "forced" /\ run.applied = "soft")
       /\ order = "forced" \/ run.cancelAllowed \/ run.pending
    THEN [run EXCEPT !.applied = order] ELSE run

\* The lease is renewed; the record that comes back carries any order.
DriveRenew(h, j) ==
    /\ Working(h) /\ Live(h, j) /\ runs[h][j].leased
    /\ Renew(h, j, runs[h][j].nonce, Report(runs[h][j]))
    /\ SetRun(h, j, Obey(runs[h][j], records[j].cancel))
    /\ UNCHANGED <<daemon, recovering, marker, frozen, ends, careless, faults>>

\* Renewing is refused as a conflict.  The script keeps running.
DriveLapsed(h, j) ==
    /\ Working(h) /\ Live(h, j) /\ runs[h][j].leased
    /\ h \in quorate /\ j \in DOMAIN records
    /\ ~(CheckHolder(h, records[j], runs[h][j].nonce) /\ Renewable(h, records[j]))
    /\ SetRun(h, j, [runs[h][j] EXCEPT !.leased = FALSE])
    /\ UNCHANGED <<vars, daemon, recovering, marker, frozen, ends, careless, faults>>

\* Between renewals, and once the lease is lost, the record is only read.
DriveCheck(h, j) ==
    /\ Working(h) /\ Live(h, j)
    /\ j \in DOMAIN View(h)
    /\ Obey(runs[h][j], View(h)[j].cancel) # runs[h][j]
    /\ SetRun(h, j, Obey(runs[h][j], View(h)[j].cancel))
    /\ UNCHANGED <<vars, daemon, recovering, marker, frozen, ends, careless, faults>>

Waiting(h, j) == Working(h) /\ j \in Active(h) /\ runs[h][j].script # "live"

\* The end is recorded and the run leaves Runner::active.
RecordEnd(h, j) ==
    /\ Waiting(h, j)
    /\ Finish(h, j, runs[h][j].nonce, runs[h][j].script, 0)
    /\ Drop(h, j)
    /\ UNCHANGED <<daemon, recovering, marker, frozen, ends, careless, faults>>

\* The end is written but the answer is an error, so it is tried again.
RecordEndLost(h, j) ==
    /\ Waiting(h, j)
    /\ Finish(h, j, runs[h][j].nonce, runs[h][j].script, 0)
    /\ faults < MaxFaults /\ faults' = faults + 1
    /\ UNCHANGED <<daemon, runs, recovering, marker, frozen, ends, careless>>

\* The records refuse the end for good, or refused writes for FINISH_TRIES.
RecordEndRefused(h, j) ==
    /\ Waiting(h, j)
    /\ \/ h \notin quorate
       \/ j \notin DOMAIN records
       \/ ~(CheckHolder(h, records[j], runs[h][j].nonce) /\ Finishable(records[j]))
    /\ Drop(h, j)
    /\ UNCHANGED <<vars, daemon, recovering, marker, frozen, ends, careless, faults>>

-----------------------------------------------------------------------------
(* Runner::spawn_recover, which runs beside the poll.                      *)

Recovers(h, step) == Working(h) /\ recovering[h] = step

\* Runner::recover starts with interrupt_own; part of it may be refused, and
\* then the pass is repeated.
RecoverInterrupt(h) ==
    /\ Recovers(h, "interrupting")
    /\ \E S \in SUBSET Own(h) :
          /\ InterruptOwn(h, S)
          /\ recovering' = [recovering EXCEPT ![h] = IF S = Own(h) THEN "resuming" ELSE @]
    /\ UNCHANGED <<daemon, runs, marker, frozen, ends, careless, faults>>

\* Nothing of this host is running, as it reads the records without the lock.
RecoverNothing(h) ==
    /\ Recovers(h, "interrupting")
    /\ ~\E j \in DOMAIN View(h) :
          View(h)[j].state = "running" /\ View(h)[j].lease.holder = h
    /\ recovering' = [recovering EXCEPT ![h] = "resuming"]
    /\ UNCHANGED <<vars, daemon, runs, marker, frozen, ends, careless, faults>>

\* The interrupted jobs of this host whose restart has happened.
ToResume(h) ==
    {j \in DOMAIN View(h) : /\ View(h)[j].state = "interrupted"
                            /\ View(h)[j].lease.holder = h
                            /\ marker[<<h, j>>] = "happened"}

RecoverResume(h, j) ==
    /\ Recovers(h, "resuming")
    /\ j \in ToResume(h)
    /\ ResumeAfterRestart(h, j)
    /\ UNCHANGED local

\* A job could not be resumed because writing was refused: another pass.
RecoverAgain(h) ==
    /\ Recovers(h, "resuming")
    /\ ToResume(h) # {} /\ h \notin quorate
    /\ recovering' = [recovering EXCEPT ![h] = "interrupting"]
    /\ UNCHANGED <<vars, daemon, runs, marker, frozen, ends, careless, faults>>

\* Nothing is left to resume, or the passes took RECOVER_WITHIN.
RecoverDone(h) ==
    /\ \/ Recovers(h, "resuming") /\ ToResume(h) = {}
       \/ (Recovers(h, "resuming") \/ Recovers(h, "interrupting")) /\ h \notin quorate
    /\ recovering' = [recovering EXCEPT ![h] = "idle"]
    /\ UNCHANGED <<vars, daemon, runs, marker, frozen, ends, careless, faults>>

-----------------------------------------------------------------------------
(* Requests served by a host's bmacd, its sweep, and the environment.      *)

NoScriptLeft(j) == \A h \in Hosts : ~Live(h, j)

Request(h, j) ==
    /\ Working(h)
    /\ \E role \in Callers :
          \/ \E l \in Launches : Admit(h, l, role)
          \/ \E force \in BOOLEAN : CancelAdmitted(h, j, role, force)
          \/ \E force \in BOOLEAN : CancelRunning(h, j, role, force)
    /\ UNCHANGED local

\* An operator deals with an interrupted job.  The messages ask for a look at
\* the live state first; an operator who does not look may act while a script
\* of the job is left.
Intervene(h, j) ==
    /\ Working(h)
    /\ \E role \in Callers : Resume(h, j, role) \/ Reconcile(h, j, role)
    /\ \/ NoScriptLeft(j) /\ UNCHANGED <<careless, faults>>
       \/ /\ ~NoScriptLeft(j) /\ faults < MaxFaults /\ faults' = faults + 1
          /\ careless' = TRUE
    /\ UNCHANGED <<daemon, runs, recovering, marker, frozen, ends>>

SweepRecords(h) == Working(h) /\ Sweep(h) /\ UNCHANGED local

\* SIGTERM: bmacd goes on until it exits, and its scripts get SIGTERM.
Stop(h) ==
    /\ daemon[h] = "up"
    /\ faults < MaxFaults /\ faults' = faults + 1
    /\ daemon' = [daemon EXCEPT ![h] = "stopping"]
    /\ UNCHANGED <<vars, runs, recovering, marker, frozen, ends, careless>>

\* The process ends, of itself or with its host; systemd kills what it ran.
Crash(h) ==
    /\ Working(h)
    /\ daemon[h] = "up" => faults < MaxFaults
    /\ faults' = IF daemon[h] = "up" THEN faults + 1 ELSE faults
    /\ daemon' = [daemon EXCEPT ![h] = "down"]
    /\ runs' = [runs EXCEPT ![h] = Empty]
    /\ UNCHANGED <<vars, recovering, marker, frozen, ends, careless>>

\* bmacd starts; the restarts its jobs asked for have happened, unless one
\* asked for a boot and only bmacd restarted.
Start(h) ==
    /\ daemon[h] = "down"
    /\ daemon' = [daemon EXCEPT ![h] = "up"]
    /\ recovering' = [recovering EXCEPT ![h] = "interrupting"]
    /\ \E S \in SUBSET {j \in JobIds : marker[<<h, j>>] = "asked"} :
          marker' = [hj \in Hosts \X JobIds |->
                        IF hj[1] = h /\ hj[2] \in S THEN "happened" ELSE marker[hj]]
    /\ UNCHANGED <<vars, runs, frozen, ends, careless, faults>>

Split ==
    /\ faults < MaxFaults /\ faults' = faults + 1
    /\ ChangeMembership
    /\ frozen' = [h \in Hosts |-> IF h \in quorate' THEN Empty
                                  ELSE IF h \in quorate THEN records ELSE frozen[h]]
    /\ UNCHANGED <<daemon, runs, recovering, marker, ends, careless>>

TimePasses == Tick /\ UNCHANGED local

RunnerInit ==
    /\ Init
    /\ daemon = [h \in Hosts |-> "up"]
    /\ runs = [h \in Hosts |-> Empty]
    /\ recovering = [h \in Hosts |-> "idle"]
    /\ marker = [hj \in Hosts \X JobIds |-> "none"]
    /\ frozen = [h \in Hosts |-> Empty]
    /\ ends = {}
    /\ careless = FALSE
    /\ faults = 0

Drives(h, j) == DriveRenew(h, j) \/ DriveLapsed(h, j) \/ DriveCheck(h, j)
Records(h, j) == RecordEnd(h, j) \/ RecordEndLost(h, j) \/ RecordEndRefused(h, j)
Recovery(h) ==
    \/ RecoverInterrupt(h) \/ RecoverNothing(h) \/ RecoverAgain(h) \/ RecoverDone(h)
    \/ \E j \in JobIds : RecoverResume(h, j)

RunnerNext ==
    \/ \E h \in Hosts :
        \/ \E j \in JobIds :
            \/ PollClaim(h, j) \/ ClaimLost(h, j)
            \/ ScriptEvent(h, j) \/ AskRestart(h, j) \/ ForgetRestart(h, j)
            \/ \E o \in ScriptEnds : ScriptEnd(h, j, o)
            \/ ScriptLeft(h, j)
            \/ Drives(h, j) \/ Records(h, j)
            \/ Request(h, j) \/ Intervene(h, j)
        \/ Recovery(h)
        \/ SweepRecords(h)
        \/ Stop(h) \/ Crash(h) \/ Start(h)
    \/ Split
    \/ TimePasses

RunnerSpec == RunnerInit /\ [][RunnerNext]_rvars

\* A forced order is SIGTERM and, ten seconds on, SIGKILL (for a script that
\* kept to the protocol: ForcedIsKilled in Supervisor).
Killed(h, j) == runs[h][j].applied = "forced" /\ \E o \in ScriptEnds : ScriptEnd(h, j, o)

\* What keeps happening: time, the sweep, the two-second check of a running
\* job's record, SIGKILL, recording an end, and systemd restarting bmacd.
Fairness ==
    /\ WF_rvars(TimePasses)
    /\ \A h \in Hosts :
        /\ WF_rvars(SweepRecords(h)) /\ WF_rvars(Start(h)) /\ WF_rvars(Recovery(h))
        /\ \A j \in JobIds :
            /\ WF_rvars(PollClaim(h, j))
            /\ WF_rvars(DriveCheck(h, j))
            /\ WF_rvars(Live(h, j) /\ Killed(h, j))
            /\ WF_rvars(RecordEnd(h, j) \/ RecordEndRefused(h, j))

FairSpec == RunnerSpec /\ Fairness

-----------------------------------------------------------------------------
(* Properties.                                                             *)

LocalTypeOK ==
    /\ daemon \in [Hosts -> {"up", "stopping", "down"}]
    /\ recovering \in [Hosts -> Steps]
    /\ marker \in [Hosts \X JobIds -> Markers]
    /\ DOMAIN frozen = Hosts
    /\ \A h \in Hosts : \A j \in DOMAIN frozen[h] : frozen[h][j] \in JobRecord
    /\ careless \in BOOLEAN /\ faults \in Nat

RunsTypeOK ==
    /\ DOMAIN runs = Hosts
    /\ \A h \in Hosts :
        /\ Active(h) \subseteq issued
        /\ \A j \in Active(h) : runs[h][j] \in Run /\ runs[h][j].nonce \in 1..nonces
        /\ daemon[h] = "down" => runs[h] = Empty

\* Every variable has its type, a run's job and nonce were drawn, and a bmacd
\* that is down runs nothing.
RunnerTypeOK == TypeOK /\ LocalTypeOK /\ RunsTypeOK

\* With operators who look before they act, a job has at most one live script
\* in the cluster: leases lapse, hosts restart and split, and still nothing
\* starts a second one (poll, claim, resume, recover).
SingleScript ==
    ~careless => \A g, h \in Hosts, j \in JobIds : Live(g, j) /\ Live(h, j) => g = h

\* A live script's job still holds its resources, so nothing conflicting is
\* admitted beside it: the only ways it can lose them are the two ends a job
\* gets while it waits to be claimed.  While the script lives its record keeps
\* the lease it was started under, and is put back in line for its host only.
ScriptsHoldLocks ==
    ~careless => \A h \in Hosts : \A j \in DOMAIN records :
        Live(h, j) =>
            /\ records[j].lease.holder = h
            /\ records[j].lease.nonce = runs[h][j].nonce
            /\ records[j].state = "admitted" => records[j].target = h
            /\ \/ records[j].state \in Unfinished
               \/ records[j].message \in {"never_started", "cancelled_early"}

\* What a run waits to record is how its script ended.
EndsKnown ==
    \A h \in Hosts : \A j \in Active(h) :
        runs[h][j].script # "live" => <<runs[h][j].nonce, runs[h][j].script>> \in ends

\* The runner's state is sound: typed, every live script holds its job's
\* resources, and no run waits with an end its script did not have.
RunnerInv == RunnerTypeOK /\ ScriptsHoldLocks /\ EndsKnown

\* A reported end is the truth about the last run: the outcome recorded is the
\* one the script started under the record's lease ended with, whatever older
\* runs reported in between (check_holder), and also when an operator resumed
\* the job while an older script still ran.
ReportedIsTrue ==
    \A j \in DOMAIN records :
        records[j].message = "reported" =>
            <<records[j].lease.nonce, records[j].state>> \in ends

\* Nobody runs job j under the lease its record names.  MaxTime bounds the
\* clock, so leases that would end later never do in the model.
Abandoned(j) ==
    /\ j \in DOMAIN records
    /\ records[j].state = "running" /\ records[j].lease.expires <= MaxTime
    /\ \A h \in Hosts : j \in Active(h) => runs[h][j].nonce # records[j].lease.nonce

\* No record stays running for ever after its run is gone: whether the host
\* died, the claim's answer was lost or its end could not be recorded, some
\* host of the lasting quorate partition sweeps it (Jobs::sweep).
AbandonedIsNoticed ==
    <>[](quorate # {}) => \A j \in JobIds : Abandoned(j) ~> ~Abandoned(j)

Waits(j) == /\ j \in DOMAIN records /\ records[j].state = "admitted"
            /\ records[j].admittedAt + ClaimTimeout <= MaxTime

\* A job nobody claims does not wait, holding its resources, for ever.
AdmittedMovesOn ==
    <>[](quorate # {}) => \A j \in JobIds : Waits(j) ~> ~Waits(j)

\* No job stays behind: one that nobody claims any more and one whose run is
\* gone give up the resources they hold.
NoJobStaysBehind == AbandonedIsNoticed /\ AdmittedMovesOn

\* A forced cancel reaches the script wherever it runs, once its host can read
\* the record again: also when the lease lapsed meanwhile (Runner::drive keeps
\* reading the record after it stops renewing).
ForcedCancelArrives ==
    <>[](quorate = Hosts) =>
        \A h \in Hosts, j \in JobIds :
            (Live(h, j) /\ j \in DOMAIN records /\ records[j].cancel = "forced")
                ~> ~Live(h, j)

=============================================================================
