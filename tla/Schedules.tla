----------------------------- MODULE Schedules -----------------------------
(***************************************************************************)
(* One schedule and the hosts that evaluate it: bmacd/src/schedules.rs.    *)
(*                                                                         *)
(* Every host reads the schedule by its own clock and admits the slot that *)
(* is due under a key made of the schedule and the slot; Jobs::admit       *)
(* returns the job that already has the key.  What a host has handled is   *)
(* memory.  A slot is named by the time it is due; hosts agree on the      *)
(* cluster's time zone.                                                    *)
(***************************************************************************)
EXTENDS Integers, FiniteSets

CONSTANTS
    SchedHosts,
    Ahead,          \* host -> how far its clock is ahead
    Period, Grace,  \* the recurrence, and GRACE_MS
    KeepFor,        \* how long the records of ended jobs are kept at least
    MaxClock,       \* bound: time
    MaxSlips     \* bound: saves of the schedule, hosts that stop, failed admissions

VARIABLES
    now,
    schedule,   \* the record: [rev, enabled, updated]
    records,    \* the slots of the job records kept under the schedule's keys
    handled,    \* host -> the last slot handled, by its memory
    began,      \* host -> its clock when it started; -1 while it is down
    reading,    \* host -> the evaluation in progress: [rev, enabled, updated, clock]
    admitted,   \* history: every job that was created: [slot, rev, n]
    refused,    \* history: <<host, slot>> refused outright
    slips

schedVars == <<now, schedule, records, handled, began, reading, admitted, refused, slips>>

Down == -1
NoSlot == -1
Idle == [rev |-> 0, enabled |-> FALSE, updated |-> 0, clock |-> -1]
ClockOf(h) == now + Ahead[h]

\* Recurrence::latest: the newest slot at or before the given time.
Latest(t) == t - (t % Period)

\* Scheduler::evaluate reads the clock and the records once.
Evaluate(h) ==
    /\ began[h] # Down /\ reading[h] = Idle
    /\ reading' = [reading EXCEPT ![h] = [rev |-> schedule.rev, enabled |-> schedule.enabled,
                                          updated |-> schedule.updated, clock |-> ClockOf(h)]]
    /\ UNCHANGED <<now, schedule, records, handled, began, admitted, refused, slips>>

\* The slot an evaluation is about, where there is something to do.
Slot(h) == Latest(reading[h].clock)
Due(h) == reading[h].enabled /\ Slot(h) >= reading[h].updated /\ handled[h] # Slot(h)
Late(h) == reading[h].clock - Slot(h) > Grace
Done(h) == reading' = [reading EXCEPT ![h] = Idle]
Handled(h) == handled' = [handled EXCEPT ![h] = Slot(h)]

NothingDue(h) ==
    /\ reading[h] # Idle /\ ~Due(h)
    /\ Done(h)
    /\ UNCHANGED <<now, schedule, records, handled, began, admitted, refused, slips>>

\* Past the grace time the slot is given up (and reported as missed, unless
\* the host started after it).
GivesUp(h) ==
    /\ reading[h] # Idle /\ Due(h) /\ Late(h)
    /\ Done(h) /\ Handled(h)
    /\ UNCHANGED <<now, schedule, records, began, admitted, refused, slips>>

\* Jobs::admit: the first admission creates the job, the others find it.
KeyOf(h) == <<Slot(h), 0>>
Job(h) == [slot |-> Slot(h), rev |-> reading[h].rev, n |-> Cardinality(admitted)]
Admits(h) ==
    /\ reading[h] # Idle /\ Due(h) /\ ~Late(h)
    /\ Done(h) /\ Handled(h)
    /\ records' = records \cup {KeyOf(h)}
    /\ admitted' = IF KeyOf(h) \in records THEN admitted
                   ELSE admitted \cup {Job(h)}
    /\ UNCHANGED <<now, schedule, began, refused, slips>>

\* No quorum, a conflict, a busy cluster: tried again at the next evaluation;
\* the job may have been created all the same.
Waits_handled(h) == Handled(h)
Waits(h) == UNCHANGED handled
AdmitFails(h) ==
    /\ reading[h] # Idle /\ Due(h) /\ ~Late(h) /\ slips < MaxSlips
    /\ Done(h) /\ slips' = slips + 1
    /\ Waits(h)
    /\ \/ UNCHANGED <<records, admitted>>
       \/ /\ KeyOf(h) \notin records
          /\ records' = records \cup {KeyOf(h)}
          /\ admitted' = admitted \cup {Job(h)}
    /\ UNCHANGED <<now, schedule, began, refused>>

\* Any other refusal: not tried again for this slot by this host.
AdmitRefused(h) ==
    /\ reading[h] # Idle /\ Due(h) /\ ~Late(h) /\ slips < MaxSlips
    /\ Done(h) /\ Handled(h) /\ slips' = slips + 1
    /\ refused' = refused \cup {<<h, Slot(h)>>}
    /\ UNCHANGED <<now, schedule, records, began, admitted>>

\* Schedules::save through a host: the time of the change is that host's.
\* Slots before it are this schedule's no more.
SaveSchedule(h) ==
    /\ slips < MaxSlips /\ slips' = slips + 1
    /\ \E on \in BOOLEAN :
          schedule' = [rev |-> schedule.rev + 1, enabled |-> on, updated |-> ClockOf(h)]
    /\ UNCHANGED <<now, records, handled, began, reading, admitted, refused>>

Memory(h) == handled' = [handled EXCEPT ![h] = NoSlot]
StopHost(h) ==
    /\ began[h] # Down /\ slips < MaxSlips /\ slips' = slips + 1
    /\ began' = [began EXCEPT ![h] = Down]
    /\ reading' = [reading EXCEPT ![h] = Idle]
    /\ Memory(h)
    /\ UNCHANGED <<now, schedule, records, admitted, refused>>
StartHost(h) ==
    /\ began[h] = Down
    /\ began' = [began EXCEPT ![h] = ClockOf(h)]
    /\ UNCHANGED <<now, schedule, records, handled, reading, admitted, refused, slips>>

\* The 500 newest ended jobs are kept: longer than the slot is in time on any
\* host, and longer than an evaluation takes.
Forget(k) ==
    /\ k \in records /\ now > k[1] + KeepFor
    /\ \A h \in SchedHosts : reading[h] # Idle => Slot(h) # k[1]
    /\ records' = records \ {k}
    /\ UNCHANGED <<now, schedule, handled, began, reading, admitted, refused, slips>>

SchedTick ==
    /\ now < MaxClock /\ now' = now + 1
    /\ UNCHANGED <<schedule, records, handled, began, reading, admitted, refused, slips>>

SchedInit ==
    /\ now = Period
    /\ schedule = [rev |-> 1, enabled |-> TRUE, updated |-> Period]
    /\ records = {} /\ handled = [h \in SchedHosts |-> NoSlot]
    /\ began = [h \in SchedHosts |-> ClockOf(h)] /\ reading = [h \in SchedHosts |-> Idle]
    /\ admitted = {} /\ refused = {}
    /\ slips = 0

Evaluates(h) ==
    \/ Evaluate(h) \/ NothingDue(h) \/ GivesUp(h) \/ Admits(h) \/ AdmitFails(h) \/ AdmitRefused(h)
SchedNext ==
    \/ \E h \in SchedHosts : Evaluates(h) \/ SaveSchedule(h) \/ StopHost(h) \/ StartHost(h)
    \/ \E k \in records : Forget(k)
    \/ SchedTick

SchedSpec ==
    /\ SchedInit /\ [][SchedNext]_schedVars
    /\ \A h \in SchedHosts : WF_schedVars(Evaluates(h))

-----------------------------------------------------------------------------
(* Properties.                                                             *)

Readings == [rev : Nat, enabled : BOOLEAN, updated : Int, clock : Int]

\* Every variable has its type, and a host that is down evaluates nothing and
\* remembers nothing.
SchedTypeOK ==
    /\ now \in Nat /\ schedule \in [rev : Nat, enabled : BOOLEAN, updated : Int]
    /\ records \subseteq Int \X {0} /\ \A a \in admitted : a.slot \in Int
    /\ handled \in [SchedHosts -> Int] /\ began \in [SchedHosts -> Int]
    /\ reading \in [SchedHosts -> Readings]
    /\ \A h \in SchedHosts : began[h] = Down => handled[h] = NoSlot /\ reading[h] = Idle

\* The record of a slot's job is there for as long as a host may take the slot
\* for one that is in time.
RecordOutlasts ==
    \A a \in admitted :
        \/ <<a.slot, 0>> \in records
        \/ /\ now > a.slot + KeepFor
           /\ \A h \in SchedHosts : reading[h] # Idle /\ Slot(h) = a.slot => Late(h)

\* A slot is run once, whichever hosts evaluate it, however often they stop,
\* whatever their clocks say, also when an admission failed after it had
\* created the job and while the schedule is edited ("the first admission
\* creates the job and the rest find it").
SlotOnce == \A a, b \in admitted : a.slot = b.slot => a = b

InTime(h, s) ==
    /\ began[h] # Down /\ schedule.enabled
    /\ s = Latest(ClockOf(h)) /\ s >= schedule.updated /\ ClockOf(h) - s <= Grace

\* A host that is up does not stop trying while a slot of the schedule is in
\* time: it is started in the end, unless it is refused outright ("tried
\* again until it is GRACE_MS old").
SlotIsTried ==
    \A h \in SchedHosts, s \in {k * Period : k \in 1 .. MaxClock \div Period} :
        InTime(h, s) ~> \/ \E a \in admitted : a.slot = s
                        \/ <<h, s>> \in refused \/ ~InTime(h, s)

=============================================================================
