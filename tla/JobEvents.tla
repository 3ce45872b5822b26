----------------------------- MODULE JobEvents -----------------------------
(***************************************************************************)
(* The numbers of one job's events over its runs: the run's own counter    *)
(* (supervisor.rs), the record's last_seq (jobs.rs, runner.rs), the writer *)
(* of EngineSink (runner.rs) and what a reader of the store sees           *)
(* (store.rs: append, job_events).                                         *)
(*                                                                         *)
(* A run counts on from the record's last_seq, which the host brings up to *)
(* date with every renewal and when the job ends.  Events pass through a   *)
(* buffer of the supervisor and the queue of the writer before they are    *)
(* stored; both are memory.  Each bmacd process stores under a stream of   *)
(* its own, later ones sorting after earlier ones of the same host.  The   *)
(* readers here have every host's rows (copying them is the mesh's work).  *)
(***************************************************************************)
EXTENDS Integers, Sequences, SequencesExt, FiniteSets

CONSTANTS
    Hosts,      \* host slots, in the order their names sort
    MaxRuns,    \* bound: how often the job is claimed
    MaxPush,    \* bound: events of all runs
    MaxErrors   \* bound: appends that fail

ASSUME EventsAssumption == MaxRuns \in Nat /\ Hosts \subseteq Int

VARIABLES
    lastSeq,    \* the record's last_seq
    state,      \* "waiting" (admitted), "running", "ending" (the script ended,
                \* the record does not say so yet), "interrupted", "ended"
    run,        \* the number of the current or last run
    host,       \* where it runs
    seq, base,  \* its newest number, and the record's when it started
    buffer,     \* the run's events the supervisor has not handed over
    queue,      \* the writer's queue
    rows,       \* what is stored: the job's rows, all hosts together
    shown,      \* what the hub published, in order
    lost,       \* whether a killed process took queued events with it
    pushed, errors

evars == <<lastSeq, state, run, host, seq, base, buffer, queue, rows, shown, lost,
           pushed, errors>>

\* An event is what was pushed: its run and its place there tell it apart.
EventSet == [run : Nat, host : Hosts, seq : Nat, kind : {"started", "event", "end"}]
Event(n, kind) == [run |-> run, host |-> host, seq |-> n, kind |-> kind]

Greater(a, b) == IF a > b THEN a ELSE b

\* A later run starts in a later process or after its job was put back in
\* line, so runs of a host sort by number.
Before(a, b) == a.host < b.host \/ (a.host = b.host /\ a.run < b.run)

\* read_page: for every number the first row in the order of origin, stream.
Page(all) == {e \in all : ~\E f \in all : f.seq = e.seq /\ Before(f, e)}

\* Jobs::claim and Runner::start: the run counts on from the record and
\* begins with a `started' event.
FirstSeq_restart(last) == 1
FirstSeq(last) == last + 1
NextRun == run + 1

Start(h) ==
    /\ state = "waiting" /\ run < MaxRuns /\ pushed < MaxPush
    /\ state' = "running" /\ host' = h /\ run' = NextRun
    /\ base' = lastSeq /\ seq' = FirstSeq(lastSeq)
    /\ queue' = Append(queue, [run |-> NextRun, host |-> h, seq |-> FirstSeq(lastSeq),
                               kind |-> "started"])
    /\ pushed' = pushed + 1
    /\ UNCHANGED <<lastSeq, buffer, rows, shown, lost, errors>>

\* Supervisor::push: an urgent event goes to the sink behind the buffered
\* ones; an output line waits for the flush.
HandOver(e) == queue \o Append(buffer, e)

PushUrgent(kind) ==
    /\ state = "running" /\ pushed < MaxPush
    /\ seq' = seq + 1 /\ pushed' = pushed + 1
    /\ queue' = HandOver(Event(seq + 1, kind))
    /\ buffer' = <<>>
    /\ state' = IF kind = "end" THEN "ending" ELSE state
    /\ UNCHANGED <<lastSeq, run, host, base, rows, shown, lost, errors>>
PushOutput ==
    /\ state = "running" /\ pushed < MaxPush
    /\ seq' = seq + 1 /\ pushed' = pushed + 1
    /\ buffer' = Append(buffer, Event(seq + 1, "event"))
    /\ UNCHANGED <<lastSeq, state, run, host, base, queue, rows, shown, lost, errors>>
Flush ==
    /\ buffer # <<>>
    /\ queue' = queue \o buffer
    /\ buffer' = <<>>
    /\ UNCHANGED <<lastSeq, state, run, host, seq, base, rows, shown, lost, pushed, errors>>

Published_ifStored(batch, ok) == IF ok THEN batch ELSE <<>>
Published(batch, ok) == batch

\* store_and_publish: the writer takes what is queued and appends it in one
\* transaction.  If the store refuses, the events are published all the same.
Write ==
    /\ queue # <<>>
    /\ \E n \in 1..Len(queue), ok \in BOOLEAN :
          LET batch == SubSeq(queue, 1, n) IN
          /\ ~ok => errors < MaxErrors
          /\ errors' = IF ok THEN errors ELSE errors + 1
          /\ rows' = IF ok THEN rows \cup ToSet(batch) ELSE rows
          /\ shown' = shown \o Published(batch, ok)
          /\ queue' = SubSeq(queue, n + 1, Len(queue))
    /\ UNCHANGED <<lastSeq, state, run, host, seq, base, buffer, lost, pushed>>

\* Jobs::renew, and Jobs::finish once the script ended, with the run's count.
LastSeq(last, s) == Greater(last, s)

Renew ==
    /\ state = "running"
    /\ lastSeq' = LastSeq(lastSeq, seq)
    /\ UNCHANGED <<state, run, host, seq, base, buffer, queue, rows, shown, lost, pushed, errors>>
Finish ==
    /\ state = "ending"
    /\ lastSeq' = LastSeq(lastSeq, seq)
    /\ state' = "ended"
    /\ UNCHANGED <<run, host, seq, base, buffer, queue, rows, shown, lost, pushed, errors>>

\* bmacd stops: the run's buffer is handed over and the writer flushed, but
\* the count is not reported.
Stop ==
    /\ state = "running"
    /\ queue' = queue \o buffer
    /\ buffer' = <<>>
    /\ state' = "interrupted"
    /\ UNCHANGED <<lastSeq, run, host, seq, base, rows, shown, lost, pushed, errors>>

\* bmacd is killed: what was not stored is gone.
EventsCrash ==
    /\ state \in {"running", "ending"} \/ queue # <<>>
    /\ state' = IF state \in {"running", "ending"} THEN "interrupted" ELSE state
    /\ buffer' = <<>> /\ queue' = <<>>
    /\ lost' = (lost \/ queue # <<>>)
    /\ UNCHANGED <<lastSeq, run, host, seq, base, rows, shown, pushed, errors>>

\* Jobs::resume or Jobs::resume_after_restart, once the writer of the process
\* that stopped is through or gone.
Resume ==
    /\ state = "interrupted" /\ queue = <<>>
    /\ state' = "waiting"
    /\ UNCHANGED <<lastSeq, run, host, seq, base, buffer, queue, rows, shown, lost, pushed, errors>>

EventsInit ==
    /\ lastSeq = 0 /\ state = "waiting" /\ run = 0 /\ host \in Hosts
    /\ seq = 0 /\ base = 0 /\ buffer = <<>> /\ queue = <<>>
    /\ rows = {} /\ shown = <<>> /\ lost = FALSE /\ pushed = 0 /\ errors = 0

EventsNext ==
    \/ \E h \in Hosts : Start(h)
    \/ \E kind \in {"event", "end"} : PushUrgent(kind)
    \/ PushOutput \/ Flush \/ Write
    \/ Renew \/ Finish \/ Stop \/ EventsCrash \/ Resume

EventsSpec == EventsInit /\ [][EventsNext]_evars

-----------------------------------------------------------------------------
(* Properties.                                                             *)

\* Every variable has its type.
EventsTypeOK ==
    /\ lastSeq \in Nat /\ seq \in Nat /\ base \in Nat /\ errors \in Nat /\ lost \in BOOLEAN
    /\ state \in {"waiting", "running", "ending", "interrupted", "ended"}
    /\ run \in 0 .. MaxRuns /\ host \in Hosts
    /\ buffer \in Seq(EventSet) /\ queue \in Seq(EventSet) /\ shown \in Seq(EventSet)
    /\ rows \subseteq EventSet

\* Everything a run has pushed and no crash has taken, in order.
Told == shown \o queue \o buffer

\* One run's events are published and kept in order and without a gap, over
\* buffer, queue and store, behind those of the runs before: what a live viewer
\* of one run has seen is always base + 1 up to some number (push, flush,
\* store_and_publish).  Nothing is missing at the end while no process dies.
RunInOrder ==
    \E n \in 0 .. Len(shown) :
        /\ \A i \in DOMAIN Told :
             /\ Told[i].run = run <=> i > n
             /\ i > n => Told[i].seq = base + i - n /\ Told[i].host = host
        /\ state = "running" \/ (state \in {"ending", "ended"} /\ ~lost) => seq = base + Len(Told) - n

\* Where a run's events may be, and what the record knows of its count
\* (Supervisor::finalize, renew, finish, claim).
RunsInTurn ==
    /\ state # "running" => buffer = <<>>
    /\ state = "waiting" => queue = <<>>
    /\ \A i \in DOMAIN Told : Told[i].run \in 1 .. run
    /\ lastSeq <= seq /\ (state = "ended" => lastSeq = seq)
    /\ run = 0 => seq = 0 /\ state = "waiting"
    /\ run <= 1 => base = 0

\* What is stored was published, and all of it unless the store refused it
\* (store_and_publish).
StoredWasShown == rows \subseteq ToSet(shown) /\ (errors = 0 => rows = ToSet(shown))

EventsInv == EventsTypeOK /\ RunInOrder /\ RunsInTurn /\ StoredWasShown

\* No number is ever given out twice once the record knows of it: a run never
\* shows an event under a number the record had counted when it started, so
\* a viewer that reads on from there misses nothing (renew, claim, start).
CountedIsTaken ==
    \A e \in rows : e.run = run => e.seq > base

\* A job that was never interrupted is read complete: every number from 1 to
\* the record's last_seq, once its events are stored.
OneRunIsComplete ==
    state = "ended" /\ run = 1 /\ errors = 0 /\ ~lost /\ queue = <<>> =>
        {e.seq : e \in Page(rows)} = 1..lastSeq /\ Page(rows) = rows

\* Whatever is queued is published in the end, the event that ends the job
\* included, also when the store refuses it, unless bmacd is killed first.
EndIsShown ==
    state = "ended" ~> lost \/ \E i \in DOMAIN shown : shown[i].kind = "end"

=============================================================================
