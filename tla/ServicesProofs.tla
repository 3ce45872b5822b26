--------------------------- MODULE ServicesProofs ---------------------------
(***************************************************************************)
(* The theorems about the services every host runs for the others: the     *)
(* registry lock (RegistryLock), the event hub (EventHub), the numbers of  *)
(* a job's events (JobEvents) and the schedules (Schedules).               *)
(***************************************************************************)
EXTENDS Services, SequenceTheorems, TLAPS

-----------------------------------------------------------------------------
(***************************************************************************)
(* For any number of processes and any times with HoldTime < DropAge, the  *)
(* registry lock excludes and no update of the record is lost.  The        *)
(* inductive invariant IInv adds to the two properties that a process past *)
(* mkdir still has the directory and that the directory is then as old as  *)
(* the hold: HoldTime < DropAge makes pmxcfs refuse every waiter's request *)
(* until the holder is out or dead.                                        *)
(***************************************************************************)
\* Every initial state satisfies the inductive invariant.
LEMMA InitIInv == Init => IInv
  BY ProcsAssumption, HoldAssumption
     DEF Init, IInv, TypeOK, HolderHasLock, CheckStillValid, NoLostUpdate, Places

\* Every step of acquire preserves it: mkdir finds no directory, hence nobody
\* past mkdir, and a request is honoured only for a directory nobody holds.
LEMMA AcquireIInv == ASSUME IInv, NEW p \in Procs, Acquires(p) PROVE IInv'
<1> USE ProcsAssumption, HoldAssumption DEF IInv, TypeOK, Places, At, Goto, RemoveDir
<1>1. CASE Mkdir(p)
  BY <1>1 DEF Mkdir, MkdirSucceeds, HolderHasLock, CheckStillValid, NoLostUpdate
<1>2. CASE RequestUnlock(p)
  BY <1>2 DEF RequestUnlock, DropHonoured, HolderHasLock, CheckStillValid, NoLostUpdate
<1>3. CASE WriteOwner(p)
  BY <1>3 DEF WriteOwner, HolderHasLock, CheckStillValid, NoLostUpdate
<1>4. CASE WriteOwnerFails(p)
  BY <1>4 DEF WriteOwnerFails, HolderHasLock, CheckStillValid, NoLostUpdate
<1> QED BY <1>1, <1>2, <1>3, <1>4 DEF Acquires

\* Every step on the record preserves it: whoever renames has the lock, so no
\* other process has checked the old revision.
LEMMA ChangeIInv == ASSUME IInv, NEW p \in Procs, Changes(p) PROVE IInv'
<1> USE ProcsAssumption, HoldAssumption DEF IInv, TypeOK, Places, At, Goto
<1>1. CASE Read(p)
  BY <1>1 DEF Read, HolderHasLock, CheckStillValid, NoLostUpdate
<1>2. CASE CheckRevision(p)
  BY <1>2 DEF CheckRevision, HolderHasLock, CheckStillValid, NoLostUpdate
<1>3. CASE Rename(p)
  <2>1. \A q \in Procs : q # p => pc[q] = "idle"
    BY <1>3 DEF Rename, HolderHasLock
  <2>2. rev' = writes'
    BY <1>3 DEF Rename, CheckStillValid, NoLostUpdate
  <2> QED BY <1>3, <2>1, <2>2 DEF Rename, HolderHasLock, CheckStillValid, NoLostUpdate
<1>4. CASE NoChange(p)
  BY <1>4 DEF NoChange, HolderHasLock, CheckStillValid, NoLostUpdate
<1> QED BY <1>1, <1>2, <1>3, <1>4 DEF Changes

\* Every step of release preserves it.
LEMMA ReleaseIInv == ASSUME IInv, NEW p \in Procs, Releases(p) PROVE IInv'
<1> USE ProcsAssumption, HoldAssumption DEF IInv, TypeOK, Places, At, Goto, RemoveDir
<1>1. CASE Verify(p)
  BY <1>1 DEF Verify, StillOurs, HolderHasLock, CheckStillValid, NoLostUpdate
<1>2. CASE Unlink(p)
  BY <1>2 DEF Unlink, HolderHasLock, CheckStillValid, NoLostUpdate
<1>3. CASE Rmdir(p)
  BY <1>3 DEF Rmdir, HolderHasLock, CheckStillValid, NoLostUpdate
<1> QED BY <1>1, <1>2, <1>3 DEF Releases

\* Crashes, quorum and time preserve it: the clock cannot pass HoldTime while
\* a live process holds the lock.
LEMMA EnvironmentIInv ==
  ASSUME IInv, (\E p \in Procs : Crash(p)) \/ LoseQuorum \/ RegainQuorum \/ Tick
  PROVE  IInv'
<1> USE ProcsAssumption, HoldAssumption, BoundsAssumption
    DEF IInv, TypeOK, Places, At, Goto, Fault
<1>1. CASE \E p \in Procs : Crash(p)
  BY <1>1 DEF Crash, HolderHasLock, CheckStillValid, NoLostUpdate
<1>2. CASE LoseQuorum
  <2>1. quorate' \in BOOLEAN
    BY <1>2, Zenon DEF LoseQuorum
  <2>2. (HolderHasLock /\ CheckStillValid /\ NoLostUpdate)'
    BY <1>2 DEF LoseQuorum, HolderHasLock, CheckStillValid, NoLostUpdate
  <2>3. faults' \in Nat
    BY <1>2 DEF LoseQuorum
  <2> QED BY <1>2, <2>1, <2>2, <2>3 DEF LoseQuorum
<1>3. CASE RegainQuorum
  BY <1>3 DEF RegainQuorum, HolderHasLock, CheckStillValid, NoLostUpdate
<1>4. CASE Tick
  BY <1>4 DEF Tick, Aged, HolderHasLock, CheckStillValid, NoLostUpdate
<1> QED BY <1>1, <1>2, <1>3, <1>4

\* The invariant is inductive.
LEMMA NextIInv == IInv /\ [Next]_vars => IInv'
<1> SUFFICES ASSUME IInv, [Next]_vars PROVE IInv'
  OBVIOUS
<1>1. CASE UNCHANGED vars
  BY <1>1 DEF vars, IInv, TypeOK, HolderHasLock, CheckStillValid, NoLostUpdate
<1>2. CASE Next
  BY <1>2, AcquireIInv, ChangeIInv, ReleaseIInv, EnvironmentIInv DEF Next
<1> QED BY <1>1, <1>2

\* The types, and what a holder can rely on, hold in every reachable state.
THEOREM Invariance == Spec => []IInv
<1> QED BY InitIInv, NextIInv, PTL DEF Spec

\* Two processes are never between acquire and release at once, for any
\* number of processes, crashes and losses of quorum (RegistryLock).
THEOREM Exclusion == Spec => []MutualExclusion
<1>1. IInv => MutualExclusion
  BY DEF IInv, HolderHasLock, MutualExclusion, Inside
<1> QED BY Invariance, <1>1, PTL

\* No successful write of a record is lost, although write_record compares the
\* revision and renames the file in two steps.
THEOREM Updates == Spec => []NoLostUpdate
<1>1. IInv => NoLostUpdate
  BY DEF IInv
<1> QED BY Invariance, <1>1, PTL

\* The directory disappears under a live process only by that process's own
\* step: neither a waiter's request nor another release takes it away.
THEOREM OwnReleases == Spec => ReleaseOwnOnly
<1> DEFINE A == \A p \in Procs : dir = p /\ dir' = None /\ pc[p] # "idle" => pc'[p] = "idle"
<1>1. IInv /\ [Next]_vars => [A]_vars
  <2> SUFFICES ASSUME IInv, Next, NEW p \in Procs,
                      dir = p, dir' = None, pc[p] # "idle"
               PROVE  pc'[p] = "idle"
    BY DEF vars
  <2> USE ProcsAssumption, HoldAssumption DEF IInv, TypeOK, HolderHasLock, At, Goto
  <2>1. age = held[p] /\ held[p] <= HoldTime /\ p # None
    OBVIOUS
  <2>2. ASSUME NEW q \in Procs, Acquires(q) PROVE pc'[p] = "idle"
    BY <2>1, <2>2 DEF Acquires, Mkdir, MkdirSucceeds, RequestUnlock, DropHonoured,
                      WriteOwner, WriteOwnerFails, RemoveDir
  <2>3. ASSUME NEW q \in Procs, Changes(q) PROVE pc'[p] = "idle"
    BY <2>1, <2>3 DEF Changes, Read, CheckRevision, Rename, NoChange
  <2>4. ASSUME NEW q \in Procs, Releases(q) PROVE pc'[p] = "idle"
    BY <2>1, <2>4 DEF Releases, Verify, Unlink, Rmdir, RemoveDir
  <2>5. CASE (\E q \in Procs : Crash(q)) \/ LoseQuorum \/ RegainQuorum \/ Tick
    BY <2>1, <2>5 DEF Crash, LoseQuorum, RegainQuorum, Tick
  <2> QED BY <2>2, <2>3, <2>4, <2>5 DEF Next
<1> QED BY Invariance, <1>1, PTL DEF Spec, ReleaseOwnOnly

-----------------------------------------------------------------------------
(***************************************************************************)
(* For any set of tabs, any window, queue and any messages, the hub        *)
(* implements the safety part of LiveStream: whatever is evicted, lagged   *)
(* or restarted, a stream sends every message after the place it was       *)
(* opened at or a notice.  The inductive invariant is HubInv, whose part   *)
(* ReplayExact says that what is left to replay is what the abstract       *)
(* stream still owes.                                                      *)
(***************************************************************************)
HubSafety == HubInit /\ [][HubSteps]_hubVars

\* Initially no tab is connected.
LEMMA InitHubInv == ASSUME MaxPublish \in Nat, Wire \in Nat \ {0} PROVE HubInit => HubInv
  BY DEF HubInit, HubInv, HubTypeOK, ReplayExact, Exact, Subscriptions, Off, NoId, Ids, Current

\* A message published moves no stream: the places before the receivers stay.
LEMMA PublishHubInv ==
  ASSUME MaxPublish \in Nat, HubInv, HubPublish PROVE HubInv'
<1>1. /\ nextSeq' = nextSeq + 1 /\ UNCHANGED <<epoch, server, wire, tab>>
      /\ oldest' \in 1 .. nextSeq /\ nextSeq \in 1 .. MaxPublish
  BY DEF HubPublish, HubInv, HubTypeOK
<1>2. ASSUME NEW s \in Subscriptions PROVE s \in Subscriptions'
  BY <1>1, <1>2 DEF Subscriptions, Current, HubInv, HubTypeOK
<1>3. server' \in [Tabs -> Subscriptions']
  BY <1>1, <1>2 DEF HubInv, HubTypeOK
<1>4. HubTypeOK'
  BY <1>1, <1>3 DEF HubInv, HubTypeOK, Ids
<1>5. ReplayExact'
  BY <1>1 DEF HubInv, ReplayExact, Exact, Pending
<1> QED BY <1>4, <1>5 DEF HubInv

\* A step of one tab's loop keeps the invariant if the subscription it leaves
\* is typed and exact and what it puts on the wire fits.
LEMMA OneSubscription ==
  ASSUME HubInv, UNCHANGED <<hub, tab>>, NEW t \in Tabs, NEW s \in Subscriptions, Exact(s),
         server' = [server EXCEPT ![t] = s],
         wire' \in [Tabs -> Seq([kind : {"hello", "message", "resnapshot"}, id : Ids])],
         Len(wire'[t]) <= Wire, s.pc = "off" => wire'[t] = <<>>,
         \A u \in Tabs \ {t} : wire'[u] = wire[u]
  PROVE  HubInv'
<1>1. server' \in [Tabs -> Subscriptions'] /\ \A u \in Tabs \ {t} : server'[u] = server[u]
  BY DEF HubInv, HubTypeOK, Subscriptions, Current, hub
<1>2. server'[t] = s
  BY DEF HubInv, HubTypeOK
<1>3. HubTypeOK'
  BY <1>1, <1>2 DEF HubInv, HubTypeOK, Ids, hub
<1>4. ReplayExact'
  <2>1. ASSUME NEW u \in Tabs PROVE Exact(server'[u])
    <3>1. CASE u = t
      BY <3>1, <1>2
    <3>2. CASE u # t
      BY <3>2, <1>1 DEF HubInv, ReplayExact
    <3> QED BY <3>1, <3>2
  <2> QED BY <2>1 DEF ReplayExact, Exact, Pending
<1> QED BY <1>3, <1>4 DEF HubInv

\* One more message on a wire with room for it.
LEMMA SendFits ==
  ASSUME HubInv, Wire \in Nat \ {0}, NEW t \in Tabs, Room(t), NEW n \in Nat,
         NEW kind \in {"hello", "message", "resnapshot"}, Send(t, kind, n)
  PROVE  /\ wire' \in [Tabs -> Seq([kind : {"hello", "message", "resnapshot"}, id : Ids])]
         /\ Len(wire'[t]) <= Wire
         /\ \A u \in Tabs \ {t} : wire'[u] = wire[u]
<1> DEFINE M == [kind : {"hello", "message", "resnapshot"}, id : Ids]
           m == [kind |-> kind, id |-> Id(n)]
           q == Append(wire[t], m)
<1>1. m \in M
  BY DEF HubInv, HubTypeOK, Id, Ids
<1>2. wire' = [wire EXCEPT ![t] = q] /\ wire \in [Tabs -> Seq(M)]
  BY DEF Send, HubInv, HubTypeOK
<1> HIDE DEF m, M
<1>3. q \in Seq(M) /\ Len(q) = Len(wire[t]) + 1 /\ Len(wire[t]) \in Nat
  BY <1>1, <1>2, AppendProperties, LenProperties
<1> HIDE DEF q
<1>4. wire' \in [Tabs -> Seq(M)] /\ Len(wire'[t]) <= Wire /\ \A u \in Tabs \ {t} : wire'[u] = wire[u]
  BY <1>2, <1>3 DEF Room
<1> QED BY <1>4 DEF M

\* A tab connects: the kept messages after its id are all the ones since then.
LEMMA ConnectHubInv ==
  ASSUME HubInv, Wire \in Nat \ {0}, NEW t \in Tabs, HubConnect(t) PROVE HubInv'
<1> DEFINE id == tab[t].id
           first == id = NoId
           ok == first \/ Replayable(id)
           from == IF first THEN Current ELSE id[2]
           owes == ~ok
           since == IF ok THEN from ELSE 0
           rest == IF ok THEN {n \in Kept : n > from} ELSE {}
           s == [Off EXCEPT !.pc = "hello", !.at = nextSeq, !.reset = owes, !.since = since,
                            !.rest = rest]
<1>1. /\ server' = [server EXCEPT ![t] = s] /\ wire[t] = <<>>
      /\ Send(t, "hello", Current) /\ UNCHANGED <<hub, tab>>
  BY DEF HubConnect, HubInv, HubTypeOK
<1>2. nextSeq \in Nat \ {0} /\ Current \in Nat /\ oldest \in 1 .. nextSeq /\ id[2] \in Nat
  BY DEF HubInv, HubTypeOK, Current, Ids
<1>3. ok => from \in 0 .. Current /\ {n \in Kept : n > from} = from + 1 .. Current
  BY <1>2 DEF Replayable, Kept, Current
<1>4. /\ owes \in BOOLEAN /\ since \in 0 .. Current /\ rest \in SUBSET (1 .. Current)
      /\ owes => since = 0
      /\ ~owes => rest = since + 1 .. nextSeq - 1
  <2> HIDE DEF ok, from
  <2>1. CASE ok
    BY <1>2, <1>3, <2>1 DEF Current
  <2>2. CASE ~ok
    BY <1>2, <2>2 DEF Current
  <2> QED BY <2>1, <2>2
<1> HIDE DEF owes, since, rest
<1>5. /\ s.pc = "hello" /\ s.since = since /\ s.rest = rest /\ s.at = nextSeq
      /\ s.reset <=> owes
  BY DEF Off
<1>6. s \in Subscriptions
  <2>1. Off \in Subscriptions
    BY <1>2 DEF Subscriptions, Off
  <2>2. since \in Nat /\ nextSeq \in 1 .. nextSeq
    BY <1>2, <1>4
  <2> QED BY <2>1, <2>2, <1>4 DEF Subscriptions
<1> HIDE DEF s
<1>7. Exact(s)
  BY <1>2, <1>4, <1>5 DEF Exact, Pending, Current
<1>8. Room(t)
  BY <1>1 DEF Room
<1> QED BY <1>1, <1>2, <1>5, <1>6, <1>7, <1>8, SendFits, OneSubscription

\* The notice, or what the tab wants of the kept messages.
LEMMA StartHubInv ==
  ASSUME HubInv, Wire \in Nat \ {0}, NEW t \in Tabs, HubStart(t) PROVE HubInv'
<1> DEFINE s == server[t]
<1>1. s \in Subscriptions /\ Exact(s) /\ s.pc = "hello" /\ UNCHANGED <<hub, tab>> /\ Room(t)
  BY DEF HubStart, HubInv, HubTypeOK, ReplayExact
<1>2. CASE s.reset
  <2> DEFINE r == [s EXCEPT !.pc = "live", !.reset = FALSE, !.sent = <<"resnapshot", s.at - 1>>]
  <2>1. server' = [server EXCEPT ![t] = r] /\ Send(t, "resnapshot", s.at - 1)
    BY <1>2 DEF HubStart
  <2>2. s.at - 1 \in Nat
    BY <1>1 DEF Subscriptions, HubInv, HubTypeOK
  <2>3. r \in Subscriptions
    BY <1>1, <2>2 DEF Subscriptions
  <2>4. Exact(r) /\ r.pc = "live"
    BY <1>1 DEF Exact, Subscriptions
  <2> HIDE DEF r
  <2> QED BY <1>1, <2>1, <2>2, <2>3, <2>4, SendFits, OneSubscription
<1>3. CASE ~s.reset
  <2> DEFINE w == {n \in s.rest : Wanted(t, n)}
             r == [s EXCEPT !.pc = "replay", !.chosen = s.watch, !.rest = w]
  <2>1. server' = [server EXCEPT ![t] = r] /\ UNCHANGED wire
    BY <1>3 DEF HubStart
  <2>2. w = {n \in Pending(s) : IsEvent(n) => s.watch}
    BY <1>1, <1>3 DEF Exact, Wanted
  <2>3. r \in Subscriptions /\ Exact(r) /\ r.pc = "replay"
    BY <1>1, <1>3, <2>2 DEF Subscriptions, Exact, Pending
  <2> QED BY <1>1, <2>1, <2>3, OneSubscription DEF HubInv, HubTypeOK
<1> QED BY <1>2, <1>3

\* The smallest message left goes out; with none left the stream is live.
LEMMA ReplayHubInv ==
  ASSUME HubInv, Wire \in Nat \ {0}, NEW t \in Tabs, HubReplay(t) PROVE HubInv'
<1> DEFINE s == server[t]
<1>1. s \in Subscriptions /\ Exact(s) /\ s.pc = "replay" /\ UNCHANGED <<hub, tab>>
  BY DEF HubReplay, HubInv, HubTypeOK, ReplayExact
<1>2. CASE s.rest = {}
  <2> DEFINE r == [s EXCEPT !.pc = "live", !.chosen = FALSE]
  <2>1. server' = [server EXCEPT ![t] = r] /\ UNCHANGED wire
    BY <1>2 DEF HubReplay
  <2>2. r \in Subscriptions
    BY <1>1 DEF Subscriptions
  <2>3. Exact(r) /\ r.pc = "live"
    BY <1>1 DEF Exact, Subscriptions
  <2> QED BY <1>1, <2>1, <2>2, <2>3, OneSubscription DEF HubInv, HubTypeOK
<1>3. CASE s.rest # {}
  <2>1. PICK n \in s.rest :
          /\ \A m \in s.rest : n <= m
          /\ Send(t, "message", n) /\ Room(t)
          /\ server' = [server EXCEPT ![t].rest = @ \ {n}, ![t].since = n,
                                        ![t].sent = <<"message", n>>]
    BY <1>3 DEF HubReplay
  <2> DEFINE r == [s EXCEPT !.rest = s.rest \ {n}, !.since = n, !.sent = <<"message", n>>]
  <2>2. server' = [server EXCEPT ![t] = r]
    BY <2>1
  <2>3. n \in Nat /\ s.rest \ {n} \in SUBSET (1 .. Current)
    BY <1>1 DEF Subscriptions
  <2>4. r \in Subscriptions
    BY <1>1, <2>3 DEF Subscriptions
  <2>5. /\ r.pc = "replay" /\ r.since = n /\ r.rest = s.rest \ {n} /\ r.at = s.at
        /\ r.chosen = s.chosen /\ r.reset = s.reset
    BY <1>1 DEF Subscriptions
  <2>6. s.since \in Nat /\ s.at \in Nat
    BY <1>1 DEF Subscriptions, HubInv, HubTypeOK
  <2>7. s.rest = {m \in Pending(s) : IsEvent(m) => s.chosen} /\ ~s.reset
    BY <1>1 DEF Exact
  <2> HIDE DEF r, s
  <2>8. r.rest = {m \in Pending(r) : IsEvent(m) => r.chosen} /\ n < s.at
    BY <2>1, <2>3, <2>5, <2>6, <2>7 DEF Pending
  <2>9. Exact(r)
    BY <2>5, <2>7, <2>8 DEF Exact
  <2> QED BY <1>1, <2>1, <2>2, <2>3, <2>4, <2>5, <2>9, SendFits, OneSubscription
<1> QED BY <1>2, <1>3

\* The next message, or the notice after a lag, moves only the receiver.
LEMMA LiveHubInv ==
  ASSUME HubInv, Wire \in Nat \ {0}, NEW t \in Tabs, HubNext(t) \/ HubLags(t) PROVE HubInv'
<1> DEFINE s == server[t]
<1>1. s \in Subscriptions /\ Exact(s) /\ s.pc = "live" /\ UNCHANGED <<hub, tab>>
  BY DEF HubNext, HubLags, HubInv, HubTypeOK, ReplayExact
<1>2. nextSeq \in Nat \ {0} /\ s.at \in Nat /\ Current \in Nat
  BY <1>1 DEF Subscriptions, HubInv, HubTypeOK, Current
<1>3. ASSUME NEW a \in 1 .. nextSeq, NEW m \in {<<>>} \cup ({"message", "resnapshot"} \X Nat)
      PROVE  LET r == [s EXCEPT !.at = a, !.sent = m] IN r \in Subscriptions /\ Exact(r) /\ r.pc = "live"
  <2> DEFINE r == [s EXCEPT !.at = a, !.sent = m]
  <2>1. r \in Subscriptions
    BY <1>1 DEF Subscriptions
  <2>2. r.pc = "live" /\ r.reset = s.reset
    BY <1>1 DEF Subscriptions
  <2>3. Exact(r)
    BY <1>1, <2>2 DEF Exact
  <2> QED BY <2>1, <2>2, <2>3
<1>4. CASE HubNext(t)
  <2> DEFINE m == IF Wanted(t, s.at) THEN <<"message", s.at>> ELSE s.sent
             r == [s EXCEPT !.at = s.at + 1, !.sent = m]
  <2>1. server' = [server EXCEPT ![t] = r] /\ s.at + 1 \in 1 .. nextSeq
    <3>1. server' = [server EXCEPT ![t] = r]
      BY <1>4 DEF HubNext
    <3>2. s.at < nextSeq
      BY <1>4 DEF HubNext
    <3> QED BY <1>2, <3>1, <3>2
  <2>2. m \in {<<>>} \cup ({"message", "resnapshot"} \X Nat)
    <3>1. s.sent \in {<<>>} \cup ({"message", "resnapshot"} \X Nat)
      BY <1>1 DEF Subscriptions
    <3>2. <<"message", s.at>> \in {<<>>} \cup ({"message", "resnapshot"} \X Nat)
      BY <1>2
    <3> QED BY <3>1, <3>2
  <2> HIDE DEF m
  <2>3. r \in Subscriptions /\ Exact(r) /\ r.pc = "live"
    BY <1>3, <2>1, <2>2
  <2> HIDE DEF r
  <2>4. CASE Wanted(t, s.at)
    <3>1. Room(t) /\ Send(t, "message", s.at)
      BY <1>4, <2>4 DEF HubNext
    <3> QED BY <1>1, <1>2, <2>1, <2>3, <3>1, SendFits, OneSubscription
  <2>5. CASE ~Wanted(t, s.at)
    BY <1>1, <1>4, <2>1, <2>3, <2>5, OneSubscription DEF HubNext, HubInv, HubTypeOK
  <2> QED BY <2>4, <2>5
<1>5. CASE HubLags(t)
  <2> DEFINE r == [s EXCEPT !.at = nextSeq, !.sent = <<"resnapshot", Current>>]
  <2>1. server' = [server EXCEPT ![t] = r] /\ Room(t) /\ Send(t, "resnapshot", Current)
    BY <1>5 DEF HubLags
  <2>2. nextSeq \in 1 .. nextSeq
    BY <1>2
  <2>3. r \in Subscriptions /\ Exact(r) /\ r.pc = "live"
    BY <1>2, <1>3, <2>2
  <2> HIDE DEF r
  <2> QED BY <1>1, <1>2, <2>1, <2>3, SendFits, OneSubscription
<1> QED BY <1>4, <1>5

\* What a tab watches bears on no replay that has begun.
LEMMA WatchHubInv == ASSUME HubInv, NEW t \in Tabs, HubWatch(t) PROVE HubInv'
<1> DEFINE s == server[t]
           r == [s EXCEPT !.watch = ~s.watch]
<1>1. s \in Subscriptions /\ Exact(s) /\ s.pc # "off" /\ UNCHANGED <<hub, tab, wire>>
  BY DEF HubWatch, HubInv, HubTypeOK, ReplayExact
<1>2. server' = [server EXCEPT ![t] = r]
  BY DEF HubWatch
<1>3. r \in Subscriptions
  BY <1>1 DEF Subscriptions
<1>4. /\ r.pc = s.pc /\ r.since = s.since /\ r.rest = s.rest /\ r.at = s.at
      /\ r.chosen = s.chosen /\ r.reset = s.reset
  BY <1>1 DEF Subscriptions
<1> HIDE DEF r
<1>5. Exact(r) /\ r.pc # "off"
  BY <1>1, <1>4 DEF Exact, Pending
<1> QED BY <1>1, <1>2, <1>3, <1>5, OneSubscription DEF HubInv, HubTypeOK

\* A tab reads the first message of its wire and takes its id over.
LEMMA ReadHubInv ==
  ASSUME HubInv, Wire \in Nat \ {0}, NEW t \in Tabs, TabReads(t)
  PROVE  HubInv'
<1> DEFINE M == [kind : {"hello", "message", "resnapshot"}, id : Ids]
           m == Head(wire[t])
<1>1. /\ wire \in [Tabs -> Seq(M)] /\ wire[t] # <<>> /\ wire' = [wire EXCEPT ![t] = Tail(@)]
      /\ UNCHANGED <<hub, server>> /\ Len(wire[t]) <= Wire
      /\ server[t].pc = "off" => wire[t] = <<>>
  BY DEF TabReads, HubInv, HubTypeOK
<1> HIDE DEF M
<1>2. /\ m \in M /\ Tail(wire[t]) \in Seq(M) /\ Len(Tail(wire[t])) = Len(wire[t]) - 1
      /\ Len(wire[t]) \in Nat
  BY <1>1, HeadTailProperties, LenProperties
<1>3. m.id \in Ids
  BY <1>2 DEF M
<1>4. tab' \in [Tabs -> [id : Ids, hello : BOOLEAN, got : Ids]]
  <2> DEFINE g == IF m.kind = "hello" /\ tab[t].id # NoId THEN tab[t].got ELSE m.id
  <2>1. tab' = [tab EXCEPT ![t] = [id |-> m.id, hello |-> TRUE, got |-> g]]
    BY DEF TabReads
  <2>2. g \in Ids
    BY <1>3 DEF HubInv, HubTypeOK
  <2> HIDE DEF g
  <2> QED BY <1>3, <2>1, <2>2 DEF HubInv, HubTypeOK
<1>5. /\ wire' \in [Tabs -> Seq(M)]
      /\ \A u \in Tabs : Len(wire'[u]) <= Wire /\ (server[u].pc = "off" => wire'[u] = <<>>)
  <2>1. wire' \in [Tabs -> Seq(M)]
    BY <1>1, <1>2
  <2>2. ASSUME NEW u \in Tabs
        PROVE  Len(wire'[u]) <= Wire /\ (server[u].pc = "off" => wire'[u] = <<>>)
    <3>1. CASE u = t
      BY <1>1, <1>2, <3>1
    <3>2. CASE u # t
      BY <1>1, <3>2 DEF HubInv, HubTypeOK
    <3> QED BY <3>1, <3>2
  <2> QED BY <2>1, <2>2
<1>6. server' \in [Tabs -> Subscriptions']
  BY <1>1 DEF HubInv, HubTypeOK, Subscriptions, Current, hub
<1>7. HubTypeOK'
  BY <1>1, <1>4, <1>5, <1>6 DEF HubInv, HubTypeOK, hub, M, Ids
<1>8. ReplayExact'
  BY <1>1 DEF HubInv, ReplayExact, Exact, Pending
<1> QED BY <1>7, <1>8 DEF HubInv

\* A connection breaks, or the engine starts again: nothing is left of it.
LEMMA CutHubInv ==
  ASSUME MaxPublish \in Nat, Wire \in Nat \ {0}, HubInv,
         (\E t \in Tabs : TabCut(t)) \/ HubRestart
  PROVE  HubInv'
<1>1. Exact(Off) /\ Off.pc = "off"
  BY DEF Exact, Off
<1>2. CASE \E t \in Tabs : TabCut(t)
  <2>1. PICK t \in Tabs : TabCut(t)
    BY <1>2
  <2>2. /\ UNCHANGED hub /\ server' = [server EXCEPT ![t] = Off] /\ wire' = [wire EXCEPT ![t] = <<>>]
        /\ tab' = [tab EXCEPT ![t].hello = FALSE]
    BY <2>1 DEF TabCut
  <2>3. server' \in [Tabs -> Subscriptions']
    <3>1. Off \in Subscriptions
      BY DEF HubInv, HubTypeOK, Subscriptions, Off
    <3>2. server' \in [Tabs -> Subscriptions]
      BY <2>2, <3>1 DEF HubInv, HubTypeOK
    <3> QED BY <2>2, <3>2 DEF Subscriptions, Current, hub
  <2>4. tab' \in [Tabs -> [id : Ids, hello : BOOLEAN, got : Ids]]
    BY <2>2 DEF HubInv, HubTypeOK
  <2>5. /\ wire' \in [Tabs -> Seq([kind : {"hello", "message", "resnapshot"}, id : Ids])]
        /\ \A u \in Tabs : Len(wire'[u]) <= Wire /\ (server'[u].pc = "off" => wire'[u] = <<>>)
    <3> DEFINE M == [kind : {"hello", "message", "resnapshot"}, id : Ids]
    <3>1. wire \in [Tabs -> Seq(M)] /\ server \in [Tabs -> Subscriptions]
      BY DEF HubInv, HubTypeOK
    <3> HIDE DEF M
    <3>2. wire'[t] = <<>> /\ wire' \in [Tabs -> Seq(M)]
      BY <2>2, <3>1
    <3>5. Len(wire'[t]) <= Wire
      BY <3>2
    <3>3. \A u \in Tabs \ {t} : wire'[u] = wire[u] /\ server'[u] = server[u]
      BY <2>2, <3>1
    <3>4. \A u \in Tabs : Len(wire'[u]) <= Wire /\ (server'[u].pc = "off" => wire'[u] = <<>>)
      BY <3>2, <3>5, <3>3 DEF HubInv, HubTypeOK
    <3> QED BY <3>2, <3>4 DEF M
  <2>6. HubTypeOK'
    BY <2>2, <2>3, <2>4, <2>5 DEF HubInv, HubTypeOK, hub, Ids
  <2>7. \A u \in Tabs : Exact(server'[u])
    BY <1>1, <2>2 DEF HubInv, HubTypeOK, ReplayExact
  <2> QED BY <2>6, <2>7 DEF HubInv, ReplayExact, Exact, Pending
<1>3. CASE HubRestart
  <2>1. /\ epoch' = epoch + 1 /\ nextSeq' = 1 /\ oldest' = 1
        /\ server' = [t \in Tabs |-> Off] /\ wire' = [t \in Tabs |-> <<>>]
        /\ tab' = [t \in Tabs |-> [tab[t] EXCEPT !.hello = FALSE]]
    BY <1>3 DEF HubRestart
  <2>2. server' \in [Tabs -> Subscriptions']
    BY <2>1 DEF Subscriptions, Off, Current
  <2>3. tab' \in [Tabs -> [id : Ids, hello : BOOLEAN, got : Ids]]
    BY <2>1 DEF HubInv, HubTypeOK
  <2>4. HubTypeOK'
    BY <2>1, <2>2, <2>3 DEF HubInv, HubTypeOK, Ids
  <2>5. \A u \in Tabs : Exact(server'[u])
    BY <1>1, <2>1
  <2> QED BY <2>4, <2>5 DEF HubInv, ReplayExact, Exact, Pending
<1> QED BY <1>2, <1>3

\* Every step of the hub preserves it.
LEMMA HubNextInv ==
  ASSUME MaxPublish \in Nat, Wire \in Nat \ {0}, HubInv, [HubSteps]_hubVars PROVE HubInv'
<1>1. CASE UNCHANGED hubVars
  BY <1>1 DEF hubVars, hub, HubInv, HubTypeOK, ReplayExact, Subscriptions, Current, Exact, Pending, Ids
<1>2. CASE HubSteps
  BY <1>2, PublishHubInv, ConnectHubInv, StartHubInv, ReplayHubInv, LiveHubInv, WatchHubInv,
     ReadHubInv, CutHubInv DEF HubSteps, Serves
<1> QED BY <1>1, <1>2

\* HubInv holds for any tabs, messages, window and queue: the replay that is
\* left is always exactly what its tab wants between the place the stream was
\* opened at and its receiver's.
THEOREM HubInvariance ==
  ASSUME MaxPublish \in Nat, Wire \in Nat \ {0} PROVE HubSafety => []HubInv
<1>1. HubInv /\ [HubSteps]_hubVars => HubInv'
  BY HubNextInv
<1> QED BY <1>1, InitHubInv, PTL DEF HubSafety

-----------------------------------------------------------------------------
(* The refinement.                                                         *)

\* Initially no stream is open.
LEMMA InitStream == HubInit => Stream!StreamInit
<1> SUFFICES ASSUME HubInit PROVE Stream!StreamInit
  OBVIOUS
<1>1. Current = 0
  BY DEF HubInit, Current
<1>2. /\ Off.pc = "off" /\ Off.reset = FALSE /\ Off.sent = <<>>
      /\ Upto(Off) = 0 /\ Watching(Off) = FALSE
  BY DEF Off, Upto, Watching
<1>3. server = [t \in Tabs |-> Off]
  BY DEF HubInit
<1>4. ASSUME NEW t \in Tabs PROVE server[t] = Off
  BY <1>3
<1>5. [t \in Tabs |-> Upto(server[t])] = [t \in Tabs |-> 0]
  BY <1>2, <1>4, Zenon
<1>6. [t \in Tabs |-> server[t].reset] = [t \in Tabs |-> FALSE]
  BY <1>2, <1>4, Zenon
<1>7. [t \in Tabs |-> server[t].pc # "off"] = [t \in Tabs |-> FALSE]
  BY <1>2, <1>4, Zenon
<1>8. [t \in Tabs |-> Watching(server[t])] = [t \in Tabs |-> FALSE]
  BY <1>2, <1>4, Zenon
<1>9. [t \in Tabs |-> server[t].sent] = [t \in Tabs |-> <<>>]
  BY <1>2, <1>4, Zenon
<1> QED BY <1>1, <1>5, <1>6, <1>7, <1>8, <1>9, Zenon DEF Stream!StreamInit

\* The abstract stream's functions of two states that differ at one tab
\* differ at that tab only.
MappedOne(f, g, t) ==
    /\ [u \in Tabs |-> Upto(g[u])] = [[u \in Tabs |-> Upto(f[u])] EXCEPT ![t] = Upto(g[t])]
    /\ [u \in Tabs |-> g[u].reset] = [[u \in Tabs |-> f[u].reset] EXCEPT ![t] = g[t].reset]
    /\ [u \in Tabs |-> g[u].pc # "off"]
           = [[u \in Tabs |-> f[u].pc # "off"] EXCEPT ![t] = g[t].pc # "off"]
    /\ [u \in Tabs |-> Watching(g[u])]
           = [[u \in Tabs |-> Watching(f[u])] EXCEPT ![t] = Watching(g[t])]
    /\ [u \in Tabs |-> g[u].sent] = [[u \in Tabs |-> f[u].sent] EXCEPT ![t] = g[t].sent]
LEMMA MapOne ==
  ASSUME NEW f, NEW g, NEW t \in Tabs, \A u \in Tabs \ {t} : g[u] = f[u] PROVE MappedOne(f, g, t)
  BY Zenon DEF MappedOne

\* A step of one tab's loop that leaves it connected is a step of its abstract
\* stream alone.
LEMMA OnlyOne ==
  ASSUME HubInv, HubInv', UNCHANGED hub, NEW t \in Tabs,
         \A v \in Tabs \ {t} : server'[v] = server[v],
         NEW u, NEW o, NEW w, NEW m, server'[t].pc # "off", u = Upto(server'[t]),
         o = server'[t].reset, w = Watching(server'[t]), m = server'[t].sent
  PROVE  Stream!Only(t, u, o, TRUE, w, m)
<1>1. Current' = Current
  BY DEF Current, hub
<1>2. MappedOne(server, server', t)
  BY MapOne
<1>3. (server'[t].pc # "off") = TRUE
  OBVIOUS
<1> QED BY <1>1, <1>2, <1>3, Zenon DEF Stream!Only, MappedOne

\* Connecting opens the stream at the tab's place, or with a notice owed.
LEMMA ConnectStream ==
  ASSUME HubInv, HubInv', NEW t \in Tabs, HubConnect(t) PROVE Stream!Open(t)
<1> DEFINE s == server[t]
           r == server'[t]
<1>1. /\ UNCHANGED hub /\ \A v \in Tabs \ {t} : server'[v] = server[v]
      /\ s.pc = "off" /\ r.pc = "hello" /\ r.at = nextSeq /\ r.watch = FALSE /\ r.sent = <<>>
  BY DEF HubConnect, HubInv, HubTypeOK, Off
<1>2. Exact(r) /\ r \in Subscriptions' /\ Upto(r) = r.since /\ Watching(r) = FALSE
  BY <1>1 DEF HubInv, HubTypeOK, ReplayExact, Upto, Watching
<1>3. r.since \in Nat /\ nextSeq \in Nat \ {0} /\ r.reset \in BOOLEAN /\ r.pc # "off"
  BY <1>1, <1>2 DEF Subscriptions, HubInv, HubTypeOK
<1>4. ~[u \in Tabs |-> server[u].pc # "off"][t]
  BY <1>1
<1>5. CASE r.reset
  <2>1. r.since = 0 /\ r.reset = TRUE
    BY <1>2, <1>3, <1>5 DEF Exact
  <2>2. Stream!Only(t, 0, TRUE, TRUE, FALSE, <<>>)
    BY <1>1, <1>2, <1>3, <2>1, OnlyOne
  <2> QED BY <1>4, <2>2 DEF Stream!Open
<1>6. CASE ~r.reset
  <2>1. r.since \in 0 .. Current /\ r.reset = FALSE
    BY <1>1, <1>2, <1>3, <1>6 DEF Exact, Current
  <2>2. Stream!Only(t, r.since, FALSE, TRUE, FALSE, <<>>)
    BY <1>1, <1>2, <1>3, <2>1, OnlyOne
  <2> QED BY <1>4, <2>1, <2>2 DEF Stream!Open
<1> QED BY <1>5, <1>6

\* A step that changes nothing of what the abstract stream of a tab shows.
LEMMA NothingSeen ==
  ASSUME UNCHANGED nextSeq, NEW t \in Tabs,
         \A v \in Tabs \ {t} : server'[v] = server[v],
         server'[t].pc # "off", server[t].pc # "off", Upto(server'[t]) = Upto(server[t]),
         server'[t].reset = server[t].reset, Watching(server'[t]) = Watching(server[t]),
         server'[t].sent = server[t].sent
  PROVE  UNCHANGED Stream!streamVars
<1>1. Current' = Current
  BY DEF Current
<1>2. \A v \in Tabs : /\ Upto(server'[v]) = Upto(server[v]) /\ server'[v].reset = server[v].reset
                      /\ server'[v].pc # "off" <=> server[v].pc # "off"
                      /\ Watching(server'[v]) = Watching(server[v])
                      /\ server'[v].sent = server[v].sent
  OBVIOUS
<1>3. [v \in Tabs |-> Upto(server'[v])] = [v \in Tabs |-> Upto(server[v])]
  BY <1>2, Zenon
<1>4. [v \in Tabs |-> server'[v].reset] = [v \in Tabs |-> server[v].reset]
  BY <1>2, Zenon
<1>5. [v \in Tabs |-> server'[v].pc # "off"] = [v \in Tabs |-> server[v].pc # "off"]
  BY <1>2
<1>6. [v \in Tabs |-> Watching(server'[v])] = [v \in Tabs |-> Watching(server[v])]
  BY <1>2, Zenon
<1>7. [v \in Tabs |-> server'[v].sent] = [v \in Tabs |-> server[v].sent]
  BY <1>2, Zenon
<1> QED BY <1>1, <1>3, <1>4, <1>5, <1>6, <1>7, Zenon DEF Stream!streamVars

\* What a subscription has to do in a step for it to be the abstract stream's
\* notice, or its next message or passing over some.
LEMMA ResnapshotOne ==
  ASSUME HubInv, HubInv', UNCHANGED hub, NEW t \in Tabs,
         \A v \in Tabs \ {t} : server'[v] = server[v],
         server'[t].pc # "off", server[t].pc # "off", server'[t].reset = FALSE,
         Watching(server'[t]) = Watching(server[t]),
         NEW n \in Upto(server[t]) .. Current, n = Upto(server'[t]),
         server'[t].sent = <<"resnapshot", n>>
  PROVE  Stream!Resnapshot(t)
<1>1. /\ [v \in Tabs |-> Upto(server[v])][t] = Upto(server[t])
      /\ [v \in Tabs |-> Watching(server[v])][t] = Watching(server[t])
      /\ [v \in Tabs |-> server[v].pc # "off"][t]
  OBVIOUS
<1> DEFINE w == [v \in Tabs |-> Watching(server[v])][t]
           m == <<"resnapshot", n>>
<1>2. w = Watching(server'[t]) /\ m = server'[t].sent
  BY <1>1
<1> HIDE DEF w, m
<1>3. Stream!Only(t, n, FALSE, TRUE, w, m)
  BY <1>2, OnlyOne
<1> QED BY <1>1, <1>3, Zenon DEF Stream!Resnapshot, w, m

LEMMA WatchOne ==
  ASSUME HubInv, HubInv', UNCHANGED hub, NEW t \in Tabs,
         \A v \in Tabs \ {t} : server'[v] = server[v],
         server'[t].pc # "off", server[t].pc # "off",
         NEW u, u = Upto(server[t]), u = Upto(server'[t]),
         NEW o, o = server[t].reset, o = server'[t].reset,
         NEW w \in BOOLEAN, w = Watching(server[t]), (~w) = Watching(server'[t]),
         NEW m, m = server[t].sent, m = server'[t].sent
  PROVE  Stream!Watch(t)
<1>1. /\ [v \in Tabs |-> Upto(server[v])][t] = u
      /\ [v \in Tabs |-> server[v].reset][t] = o
      /\ [v \in Tabs |-> Watching(server[v])][t] = w
      /\ [v \in Tabs |-> server[v].sent][t] = m
      /\ [v \in Tabs |-> server[v].pc # "off"][t]
  OBVIOUS
<1>2. Stream!Only(t, u, o, TRUE, ~w, m)
  BY OnlyOne
<1> QED BY <1>1, <1>2, Zenon DEF Stream!Watch, Stream!Only

LEMMA PassOne ==
  ASSUME HubInv, HubInv', UNCHANGED hub, NEW t \in Tabs,
         \A v \in Tabs \ {t} : server'[v] = server[v],
         server'[t].pc # "off", server[t].pc # "off",
         server[t].reset = FALSE, server'[t].reset = FALSE,
         Watching(server'[t]) = Watching(server[t]), server'[t].sent = server[t].sent,
         NEW n \in Upto(server[t]) + 1 .. Current, n = Upto(server'[t]),
         \A k \in Upto(server[t]) + 1 .. n : IsEvent(k) /\ ~Watching(server[t])
  PROVE  Stream!Pass(t)
<1>1. PICK u : u = Upto(server[t])
  OBVIOUS
<1>2. PICK w : w = Watching(server[t]) /\ w = Watching(server'[t])
  OBVIOUS
<1>3. PICK m : m = server[t].sent /\ m = server'[t].sent
  OBVIOUS
<1>4. /\ [v \in Tabs |-> Upto(server[v])][t] = u
      /\ [v \in Tabs |-> Watching(server[v])][t] = w
      /\ [v \in Tabs |-> server[v].sent][t] = m
      /\ [v \in Tabs |-> server[v].pc # "off"][t]
      /\ ~[v \in Tabs |-> server[v].reset][t]
  BY <1>1, <1>2, <1>3
<1>5. Stream!Only(t, n, FALSE, TRUE, w, m)
  BY <1>2, <1>3, OnlyOne
<1>6. Stream!Unasked(t, u + 1 .. n)
  BY <1>4, <1>1, <1>2 DEF Stream!Unasked
<1>7. n \in u + 1 .. Current
  BY <1>1
<1> QED BY <1>4, <1>5, <1>6, <1>7, Zenon DEF Stream!Pass, Stream!Unasked, Stream!Only

LEMMA DeliverOne ==
  ASSUME HubInv, HubInv', UNCHANGED hub, NEW t \in Tabs,
         \A v \in Tabs \ {t} : server'[v] = server[v],
         server'[t].pc # "off", server[t].pc # "off",
         server[t].reset = FALSE, server'[t].reset = FALSE,
         Watching(server'[t]) = Watching(server[t]),
         NEW n \in Upto(server[t]) + 1 .. Current, n = Upto(server'[t]),
         NEW m \in Upto(server[t]) + 1 .. n, server'[t].sent = <<"message", m>>,
         \A k \in (Upto(server[t]) + 1 .. n) \ {m} : IsEvent(k) /\ ~Watching(server[t])
  PROVE  Stream!Deliver(t)
<1> DEFINE u == [v \in Tabs |-> Upto(server[v])][t]
           w == [v \in Tabs |-> Watching(server[v])][t]
           last == <<"message", m>>
<1>1. /\ u = Upto(server[t]) /\ w = Watching(server'[t]) /\ w = Watching(server[t])
      /\ last = server'[t].sent
      /\ [v \in Tabs |-> server[v].pc # "off"][t]
      /\ ~[v \in Tabs |-> server[v].reset][t]
  OBVIOUS
<1> HIDE DEF w, u, last
<1>2. Stream!Only(t, n, FALSE, TRUE, w, last)
  BY <1>1, OnlyOne
<1>3. /\ Stream!Unasked(t, (u + 1 .. n) \ {m})
      /\ n \in u + 1 .. Current /\ m \in u + 1 .. n
  BY <1>1 DEF Stream!Unasked
<1> QED BY <1>1, <1>2, <1>3, Zenon DEF Stream!Deliver, u, w, last

\* The start of a stream sends the notice it owes, or passes over kept messages
\* none of which its tab wants.
LEMMA StartStream ==
  ASSUME HubInv, HubInv', NEW t \in Tabs, HubStart(t)
  PROVE  Stream!Resnapshot(t) \/ Stream!Pass(t) \/ UNCHANGED Stream!streamVars
<1> DEFINE s == server[t]
           r == server'[t]
<1>1. /\ UNCHANGED hub /\ \A v \in Tabs \ {t} : server'[v] = server[v]
      /\ s.pc = "hello" /\ s \in Subscriptions /\ Exact(s) /\ Exact(r)
  BY DEF HubStart, HubInv, HubTypeOK, ReplayExact
<1>2. /\ Upto(s) = s.since /\ Watching(s) = s.watch /\ s.since \in Nat /\ s.at \in 1 .. nextSeq
      /\ nextSeq \in Nat /\ Current = nextSeq - 1 /\ UNCHANGED nextSeq
  BY <1>1 DEF Upto, Watching, Subscriptions, HubInv, HubTypeOK, Current, hub
<1>3. CASE s.reset
  <2>1. /\ r.pc = "live" /\ r.reset = FALSE /\ r.sent = <<"resnapshot", s.at - 1>>
        /\ r.watch = s.watch /\ r.at = s.at
    BY <1>1, <1>3 DEF HubStart, HubInv, HubTypeOK, Subscriptions
  <2>2. Upto(r) = s.at - 1 /\ Watching(r) = s.watch /\ r.pc # "off" /\ s.pc # "off"
    BY <1>1, <1>2, <2>1 DEF Upto, Watching
  <2>3. s.at - 1 \in Upto(s) .. Current
    BY <1>1, <1>2, <1>3 DEF Exact
  <2> QED BY <1>1, <1>2, <2>1, <2>2, <2>3, ResnapshotOne
<1>4. CASE ~s.reset
  <2>1. /\ r.pc = "replay" /\ r.reset = s.reset /\ r.sent = s.sent /\ r.since = s.since
        /\ r.chosen = s.watch /\ r.at = s.at
    BY <1>1, <1>4 DEF HubStart, HubInv, HubTypeOK, Subscriptions
  <2>2. s.reset = FALSE
    BY <1>1, <1>4 DEF Subscriptions
  <2>3. Watching(r) = Watching(s) /\ r.pc # "off" /\ s.pc # "off"
    BY <1>1, <1>2, <2>1 DEF Watching
  <2>4. CASE Upto(r) = s.since
    BY <1>1, <1>2, <2>1, <2>3, <2>4, NothingSeen
  <2>5. CASE Upto(r) # s.since
    <3>1. Upto(r) = s.at - 1 /\ r.rest = {}
      BY <2>1, <2>5 DEF Upto
    <3>2. /\ s.at - 1 \in Upto(s) + 1 .. Current
          /\ \A m \in Upto(s) + 1 .. s.at - 1 : IsEvent(m) /\ ~Watching(s)
      BY <1>1, <1>2, <1>4, <2>1, <2>5, <3>1, SMTT(30) DEF Exact, Pending
    <3> QED BY <1>1, <2>1, <2>2, <2>3, <3>1, <3>2, PassOne
  <2> QED BY <2>4, <2>5
<1> QED BY <1>3, <1>4

\* A replayed message is the next the tab wants, and once nothing is left the
\* stream has passed over the rest; going live only changes what is watched.
LEMMA ReplayStream ==
  ASSUME HubInv, HubInv', NEW t \in Tabs, HubReplay(t)
  PROVE  Stream!Deliver(t) \/ Stream!Watch(t) \/ UNCHANGED Stream!streamVars
<1> DEFINE s == server[t]
           r == server'[t]
<1>1. /\ UNCHANGED hub /\ \A v \in Tabs \ {t} : server'[v] = server[v]
      /\ s.pc = "replay" /\ s \in Subscriptions /\ Exact(s) /\ r \in Subscriptions' /\ Exact(r)
  BY DEF HubReplay, HubInv, HubTypeOK, ReplayExact
<1>2. /\ Watching(s) = s.chosen /\ s.since \in Nat /\ s.at \in 1 .. nextSeq /\ s.since < s.at
      /\ nextSeq \in Nat /\ Current = nextSeq - 1 /\ UNCHANGED nextSeq /\ s.reset = FALSE
      /\ s.chosen \in BOOLEAN /\ s.watch \in BOOLEAN /\ s.pc # "off"
  BY <1>1 DEF Watching, Subscriptions, HubInv, HubTypeOK, Current, hub, Exact
<1>3. CASE s.rest = {}
  <2>1. /\ r.pc = "live" /\ r.reset = s.reset /\ r.sent = s.sent /\ r.watch = s.watch /\ r.at = s.at
    BY <1>1, <1>3 DEF HubReplay, HubInv, HubTypeOK, Subscriptions
  <2>2. Upto(s) = s.at - 1 /\ Upto(r) = s.at - 1 /\ Watching(r) = s.watch /\ r.pc # "off"
    BY <1>1, <1>3, <2>1 DEF Upto, Watching
  <2>3. CASE s.watch = s.chosen
    BY <1>1, <1>2, <2>1, <2>2, <2>3, NothingSeen
  <2>4. CASE s.watch # s.chosen
    <3>1. r.watch = (~s.chosen)
      BY <1>2, <2>1, <2>4
    <3> QED BY <1>1, <1>2, <2>1, <2>2, <3>1, WatchOne
  <2> QED BY <2>3, <2>4
<1>4. CASE s.rest # {}
  <2>1. PICK n \in s.rest :
          /\ \A k \in s.rest : n <= k
          /\ server' = [server EXCEPT ![t].rest = @ \ {n}, ![t].since = n,
                                        ![t].sent = <<"message", n>>]
    BY <1>4 DEF HubReplay
  <2>2. /\ r.pc = "replay" /\ r.reset = s.reset /\ r.sent = <<"message", n>> /\ r.at = s.at
        /\ r.chosen = s.chosen /\ r.since = n /\ r.rest = s.rest \ {n}
    BY <1>1, <2>1 DEF HubInv, HubTypeOK, Subscriptions
  <2>3. Upto(s) = s.since /\ Watching(r) = Watching(s) /\ r.pc # "off"
    BY <1>1, <1>2, <1>4, <2>2 DEF Upto, Watching
  <2>4. /\ n \in s.since + 1 .. s.at - 1 /\ n \in Nat
        /\ \A k \in s.since + 1 .. s.at - 1 : k \notin s.rest => IsEvent(k) /\ ~Watching(s)
    BY <1>1, <1>2 DEF Exact, Pending
  <2>5. CASE r.rest = {}
    <3>1. Upto(r) = s.at - 1
      BY <2>2, <2>5 DEF Upto
    <3>2. \A k \in (s.since + 1 .. s.at - 1) \ {n} : IsEvent(k) /\ ~Watching(s)
      BY <2>2, <2>4, <2>5
    <3>3. s.at - 1 \in s.since + 1 .. Current /\ n \in s.since + 1 .. s.at - 1
      BY <1>2, <2>4
    <3> QED BY <1>1, <1>2, <2>2, <2>3, <3>1, <3>2, <3>3, DeliverOne
  <2>6. CASE r.rest # {}
    <3>1. Upto(r) = n
      BY <2>2, <2>6 DEF Upto
    <3>2. \A k \in (s.since + 1 .. n) \ {n} : IsEvent(k) /\ ~Watching(s)
      BY <1>2, <2>1, <2>4
    <3>3. n \in s.since + 1 .. Current /\ n \in s.since + 1 .. n
      BY <1>2, <2>4
    <3> QED BY <1>1, <1>2, <2>2, <2>3, <3>1, <3>2, <3>3, DeliverOne
  <2> QED BY <2>5, <2>6
<1> QED BY <1>3, <1>4

\* A live stream takes one message, or gives the notice that covers what the
\* channel dropped.
LEMMA LiveStreams ==
  ASSUME HubInv, HubInv', NEW t \in Tabs, HubNext(t) \/ HubLags(t)
  PROVE  Stream!Pass(t) \/ Stream!Deliver(t) \/ Stream!Resnapshot(t)
<1> DEFINE s == server[t]
           r == server'[t]
<1>1. /\ UNCHANGED hub /\ \A v \in Tabs \ {t} : server'[v] = server[v]
      /\ s.pc = "live" /\ s \in Subscriptions /\ Exact(s)
      /\ r.pc = "live" /\ r.reset = s.reset /\ r.watch = s.watch
  <2>1. server \in [Tabs -> Subscriptions] /\ s \in Subscriptions /\ Exact(s)
    BY DEF HubInv, HubTypeOK, ReplayExact
  <2>2. CASE HubNext(t)
    BY <2>1, <2>2 DEF HubNext, Subscriptions
  <2>3. CASE HubLags(t)
    BY <2>1, <2>3 DEF HubLags, Subscriptions
  <2> QED BY <2>1, <2>2, <2>3
<1>2. /\ Watching(s) = s.watch /\ Watching(r) = s.watch /\ s.at \in 1 .. nextSeq
      /\ Upto(s) = s.at - 1 /\ Upto(r) = r.at - 1
      /\ nextSeq \in Nat \ {0} /\ Current = nextSeq - 1 /\ s.reset = FALSE
      /\ s.pc # "off" /\ r.pc # "off"
  BY <1>1 DEF Watching, Upto, Subscriptions, HubInv, HubTypeOK, Current, Exact
<1>3. CASE HubNext(t)
  <2>1. r.at = s.at + 1 /\ s.at \in Upto(s) + 1 .. Current /\ Upto(r) = s.at
    <3>1. r.at = s.at + 1 /\ s.at < nextSeq
      BY <1>3 DEF HubNext, HubInv, HubTypeOK, Subscriptions
    <3> QED BY <1>2, <3>1
  <2>2. CASE Wanted(t, s.at)
    <3>1. r.sent = <<"message", s.at>>
      BY <1>3, <2>2 DEF HubNext, HubInv, HubTypeOK, Subscriptions
    <3>2. s.at \in Upto(s) + 1 .. s.at /\ (Upto(s) + 1 .. s.at) \ {s.at} = {}
      BY <1>2
    <3> QED BY <1>1, <1>2, <2>1, <3>1, <3>2, DeliverOne
  <2>3. CASE ~Wanted(t, s.at)
    <3>1. r.sent = s.sent
      BY <1>3, <2>3 DEF HubNext, HubInv, HubTypeOK, Subscriptions
    <3>2. \A k \in Upto(s) + 1 .. s.at : IsEvent(k) /\ ~Watching(s)
      BY <1>2, <2>3 DEF Wanted
    <3> QED BY <1>1, <1>2, <2>1, <3>1, <3>2, PassOne
  <2> QED BY <2>2, <2>3
<1>4. CASE HubLags(t)
  <2>1. r.at = nextSeq /\ r.sent = <<"resnapshot", Current>>
    BY <1>4 DEF HubLags, HubInv, HubTypeOK, Subscriptions
  <2>2. Current = Upto(r) /\ Current \in Upto(s) .. Current
    BY <1>2, <2>1
  <2> QED BY <1>1, <1>2, <2>1, <2>2, ResnapshotOne
<1> QED BY <1>3, <1>4

\* A change of what a tab watches is seen at once, but not by a replay.
LEMMA WatchStream ==
  ASSUME HubInv, HubInv', NEW t \in Tabs, HubWatch(t)
  PROVE  Stream!Watch(t) \/ UNCHANGED Stream!streamVars
<1> DEFINE s == server[t]
           r == server'[t]
<1>1. /\ UNCHANGED hub /\ \A v \in Tabs \ {t} : server'[v] = server[v]
      /\ s.pc # "off" /\ s \in Subscriptions /\ UNCHANGED nextSeq
  BY DEF HubWatch, HubInv, HubTypeOK, hub
<1>2. /\ r.pc = s.pc /\ r.reset = s.reset /\ r.sent = s.sent /\ r.at = s.at /\ r.since = s.since
      /\ r.rest = s.rest /\ r.chosen = s.chosen /\ r.watch = (~s.watch)
  BY <1>1 DEF HubWatch, HubInv, HubTypeOK, Subscriptions
<1>3. Upto(r) = Upto(s)
  BY <1>2 DEF Upto
<1>4. CASE s.pc = "replay"
  <2>1. Watching(r) = Watching(s) /\ r.pc # "off"
    BY <1>2, <1>4 DEF Watching
  <2> QED BY <1>1, <1>2, <1>3, <2>1, NothingSeen
<1>5. CASE s.pc # "replay"
  <2>1. Watching(s) = s.watch /\ Watching(r) = (~s.watch) /\ r.pc # "off" /\ s.watch \in BOOLEAN
    BY <1>1, <1>2, <1>5 DEF Watching, Subscriptions
  <2> QED BY <1>1, <1>2, <1>3, <2>1, WatchOne
<1> QED BY <1>4, <1>5

\* A broken connection closes the stream.
LEMMA CutStream == ASSUME HubInv, NEW t \in Tabs, TabCut(t) PROVE Stream!Close(t)
<1>1. Current' = Current /\ server[t].pc # "off"
  BY DEF TabCut, Current, hub
<1>2. server'[t] = Off /\ \A v \in Tabs \ {t} : server'[v] = server[v]
  BY DEF TabCut, HubInv, HubTypeOK
<1>3. MappedOne(server, server', t)
  BY <1>2, MapOne
<1>4. /\ Upto(server'[t]) = 0 /\ server'[t].reset = FALSE /\ (server'[t].pc # "off") = FALSE
      /\ Watching(server'[t]) = FALSE /\ server'[t].sent = <<>>
  BY <1>2 DEF Off, Upto, Watching
<1>5. Stream!Only(t, 0, FALSE, FALSE, FALSE, <<>>)
  BY <1>1, <1>3, <1>4, Zenon DEF Stream!Only, MappedOne
<1>6. [v \in Tabs |-> server[v].pc # "off"][t]
  BY <1>1
<1> QED BY <1>5, <1>6, Zenon DEF Stream!Close

\* A new engine closes every stream and numbers its messages from the start.
LEMMA RestartStream == HubRestart => Stream!Restart
<1> SUFFICES ASSUME HubRestart PROVE Stream!Restart
  OBVIOUS
<1>1. Current' = 0
  BY DEF HubRestart, Current
<1>2. /\ Off.pc = "off" /\ Off.reset = FALSE /\ Off.sent = <<>>
      /\ Upto(Off) = 0 /\ Watching(Off) = FALSE
  BY DEF Off, Upto, Watching
<1>3. ASSUME NEW t \in Tabs PROVE server'[t] = Off
  BY DEF HubRestart
<1>4. [t \in Tabs |-> Upto(server'[t])] = [t \in Tabs |-> 0]
  BY <1>2, <1>3, Zenon
<1>5. [t \in Tabs |-> server'[t].reset] = [t \in Tabs |-> FALSE]
  BY <1>2, <1>3, Zenon
<1>6. [t \in Tabs |-> server'[t].pc # "off"] = [t \in Tabs |-> FALSE]
  BY <1>2, <1>3, Zenon
<1>7. [t \in Tabs |-> Watching(server'[t])] = [t \in Tabs |-> FALSE]
  BY <1>2, <1>3, Zenon
<1>8. [t \in Tabs |-> server'[t].sent] = [t \in Tabs |-> <<>>]
  BY <1>2, <1>3, Zenon
<1> QED BY <1>1, <1>4, <1>5, <1>6, <1>7, <1>8, Zenon DEF Stream!Restart

\* A message published moves no stream, and neither does a tab that reads.
LEMMA NoStreamMoves ==
  ASSUME HubInv, UNCHANGED server
  PROVE  /\ nextSeq' = nextSeq + 1 => Stream!Publish
         /\ UNCHANGED nextSeq => UNCHANGED Stream!streamVars
<1>1. ASSUME NEW t \in Tabs PROVE server'[t] = server[t]
  OBVIOUS
<1>2. /\ nextSeq' = nextSeq + 1 => Current' = Current + 1
      /\ UNCHANGED nextSeq => Current' = Current
  BY DEF Current, HubInv, HubTypeOK
<1> QED BY <1>1, <1>2, Zenon DEF Stream!Publish, Stream!streamVars

\* Every step of the hub is a step of the abstract stream, or changes nothing
\* of what it shows.
LEMMA StepStream ==
  ASSUME HubInv, HubInv', [HubSteps]_hubVars
  PROVE  [Stream!StreamNext]_(Stream!streamVars)
<1>1. CASE HubPublish
  BY <1>1, NoStreamMoves DEF HubPublish, Stream!StreamNext
<1>2. CASE HubRestart
  BY <1>2, RestartStream DEF Stream!StreamNext
<1>3. ASSUME NEW t \in Tabs, HubConnect(t) \/ Serves(t) \/ HubWatch(t) \/ TabCut(t)
      PROVE  [Stream!StreamNext]_(Stream!streamVars)
  <2>1. \/ Stream!Open(t) \/ Stream!Close(t) \/ Stream!Watch(t) \/ Stream!Pass(t)
        \/ Stream!Deliver(t) \/ Stream!Resnapshot(t) \/ UNCHANGED Stream!streamVars
    BY <1>3, ConnectStream, StartStream, ReplayStream, LiveStreams, WatchStream, CutStream DEF Serves
  <2> QED BY <2>1 DEF Stream!StreamNext
<1>4. ASSUME NEW t \in Tabs, TabReads(t) PROVE UNCHANGED Stream!streamVars
  BY <1>4, NoStreamMoves DEF TabReads, hub
<1>5. CASE UNCHANGED hubVars
  BY <1>5, NoStreamMoves DEF hubVars, hub
<1> QED BY <1>1, <1>2, <1>3, <1>4, <1>5 DEF HubSteps

\* The hub implements the safety part of LiveStream for any tabs, messages,
\* window, queue and wire: over replay, live messages, eviction from the
\* window, lag and restarts, a stream sends every message after the place it
\* was opened at, in order, or a notice (EventHub::subscribe,
\* Subscription::next, Engine::subscribe).
THEOREM HubImplementsStream ==
  ASSUME MaxPublish \in Nat, Wire \in Nat \ {0}
  PROVE  HubSafety => Stream!StreamInit /\ [][Stream!StreamNext]_(Stream!streamVars)
<1>1. HubInv /\ HubInv' /\ [HubSteps]_hubVars => [Stream!StreamNext]_(Stream!streamVars)
  BY StepStream
<1> QED BY <1>1, HubInvariance, InitStream, PTL DEF HubSafety

-----------------------------------------------------------------------------
(* Schedules: the record of a slot's job outlasts the time in which a host *)
(* may still admit the slot, so that every later admission finds it.       *)

\* No clock is behind the time, and the records of ended jobs are kept for
\* longer than a slot may be late.
SchedTimes ==
    /\ Period \in Nat \ {0} /\ Grace \in Nat /\ KeepFor \in Nat /\ Grace <= KeepFor
    /\ Ahead \in [SchedHosts -> Nat]

SchedInv == SchedTypeOK /\ RecordOutlasts /\ SlotOnce

LEMMA SlotIsInt == ASSUME SchedTimes, NEW t \in Int PROVE Latest(t) \in Int
<1>1. t % Period \in Int
  BY DEF SchedTimes
<1> QED BY <1>1 DEF Latest

LEMMA SchedInitInv == ASSUME SchedTimes PROVE SchedInit => SchedInv
<1> SUFFICES ASSUME SchedInit PROVE SchedInv
  OBVIOUS
<1>1. Idle \in Readings
  BY DEF Idle, Readings
<1>2. schedule \in [rev : Nat, enabled : BOOLEAN, updated : Int]
  BY DEF SchedInit, SchedTimes
<1>3. began \in [SchedHosts -> Int] /\ \A h \in SchedHosts : began[h] # Down
  BY DEF SchedInit, SchedTimes, ClockOf, Down
<1>4. SchedTypeOK
  BY <1>1, <1>2, <1>3 DEF SchedInit, SchedTimes, SchedTypeOK, NoSlot
<1> QED BY <1>4 DEF SchedInit, SchedInv, RecordOutlasts, SlotOnce

\* A host's evaluation ends, or begins with a reading of its clock: the other
\* readings stay, and a slot whose record is gone is late by this one.
LEMMA ReadingFrame ==
  ASSUME SchedTimes, SchedInv, NEW h \in SchedHosts, NEW r \in Readings, r = Idle \/ r.clock = ClockOf(h),
         reading' = [reading EXCEPT ![h] = r], UNCHANGED <<now, records, admitted>>
  PROVE  RecordOutlasts' /\ SlotOnce'
<1>1. SlotOnce'
  BY DEF SchedInv, SlotOnce
<1>2. reading'[h] = r /\ \A g \in SchedHosts : g # h => reading'[g] = reading[g]
  BY DEF SchedInv, SchedTypeOK
<1>3. ASSUME NEW a \in admitted, <<a.slot, 0>> \notin records
      PROVE  /\ now > a.slot + KeepFor
             /\ \A g \in SchedHosts : reading'[g] # Idle /\ Latest(reading'[g].clock) = a.slot
                   => reading'[g].clock - Latest(reading'[g].clock) > Grace
  <2>1. /\ now > a.slot + KeepFor
        /\ \A g \in SchedHosts : reading[g] # Idle /\ Latest(reading[g].clock) = a.slot
                => reading[g].clock - Latest(reading[g].clock) > Grace
    BY <1>3 DEF SchedInv, RecordOutlasts, Slot, Late
  <2>2. a.slot \in Int /\ now \in Nat
    BY DEF SchedInv, SchedTypeOK
  <2>3. r # Idle => r.clock - a.slot > Grace
    <3>1. Ahead[h] \in Nat /\ Grace \in Nat /\ KeepFor \in Nat /\ Grace <= KeepFor
      BY DEF SchedTimes
    <3>2. r # Idle => r.clock = now + Ahead[h]
      BY DEF ClockOf
    <3> QED BY <2>1, <2>2, <3>1, <3>2
  <2> QED BY <1>2, <2>1, <2>3
<1>4. RecordOutlasts'
  BY <1>3 DEF RecordOutlasts, Slot, Late
<1> QED BY <1>1, <1>4

\* An admission of a slot that is in time finds the record of every earlier
\* job of the slot.
LEMMA AdmissionIsNew ==
  ASSUME SchedTimes, SchedInv, NEW h \in SchedHosts, reading[h] # Idle, ~Late(h), KeyOf(h) \notin records
  PROVE  \A a \in admitted : a.slot # Slot(h)
  BY DEF SchedInv, RecordOutlasts, KeyOf

\* A job is admitted, or found.
LEMMA AdmitFrame ==
  ASSUME SchedTimes, SchedInv, NEW h \in SchedHosts, reading[h] # Idle, ~Late(h),
         records' = records \cup {KeyOf(h)},
         admitted' = IF KeyOf(h) \in records THEN admitted ELSE admitted \cup {Job(h)},
         Done(h), UNCHANGED now
  PROVE  /\ RecordOutlasts' /\ SlotOnce'
         /\ records' \subseteq Int \X {0} /\ \A a \in admitted' : a.slot \in Int
<1>1. Slot(h) \in Int
  BY SlotIsInt DEF SchedInv, SchedTypeOK, Readings, Slot
<1>2. PICK j : j = Job(h)
  OBVIOUS
<1>3. j.slot = Slot(h)
  BY <1>2 DEF Job
<1>4. \A a \in admitted' : a \in admitted \/ (a = j /\ KeyOf(h) \notin records)
  BY <1>2
<1>5. records' \subseteq Int \X {0} /\ \A a \in admitted' : a.slot \in Int
  BY <1>1, <1>3, <1>4 DEF SchedInv, SchedTypeOK, KeyOf
<1>6. SlotOnce'
  BY <1>3, <1>4, AdmissionIsNew DEF SchedInv, SlotOnce
<1>7. RecordOutlasts'
  <2> SUFFICES ASSUME NEW a \in admitted', <<a.slot, 0>> \notin records'
               PROVE  /\ now' > a.slot + KeepFor
                      /\ \A g \in SchedHosts : reading'[g] # Idle /\ Latest(reading'[g].clock) = a.slot
                            => reading'[g].clock - Latest(reading'[g].clock) > Grace
    BY DEF RecordOutlasts, Slot, Late
  <2>1. a \in admitted /\ <<a.slot, 0>> \notin records
    BY <1>3, <1>4 DEF KeyOf
  <2>2. \A g \in SchedHosts : reading'[g] = Idle \/ reading'[g] = reading[g]
    BY DEF Done, SchedInv, SchedTypeOK
  <2> QED BY <2>1, <2>2 DEF SchedInv, RecordOutlasts, Slot, Late
<1> QED BY <1>5, <1>6, <1>7

LEMMA EvaluatesInv == ASSUME SchedTimes, SchedInv, NEW h \in SchedHosts, Evaluates(h) PROVE SchedInv'
<1>1. Idle \in Readings
  BY DEF Idle, Readings
<1>2. Slot(h) \in Int
  BY SlotIsInt DEF SchedInv, SchedTypeOK, Readings, Slot
<1>3. CASE Evaluate(h)
  <2>1. PICK r : r = [rev |-> schedule.rev, enabled |-> schedule.enabled, updated |-> schedule.updated,
                      clock |-> ClockOf(h)]
    OBVIOUS
  <2>2. ClockOf(h) \in Int
    BY DEF ClockOf, SchedTimes, SchedInv, SchedTypeOK
  <2>3. r \in Readings
    BY <2>1, <2>2 DEF Readings, SchedInv, SchedTypeOK
  <2>4. r.clock = ClockOf(h) /\ reading' = [reading EXCEPT ![h] = r]
    BY <1>3, <2>1 DEF Evaluate
  <2>5. RecordOutlasts' /\ SlotOnce'
    BY <1>3, <2>3, <2>4, ReadingFrame DEF Evaluate
  <2>6. SchedTypeOK'
    BY <1>3, <2>3, <2>4 DEF Evaluate, SchedInv, SchedTypeOK
  <2> QED BY <2>5, <2>6 DEF SchedInv
<1>4. CASE NothingDue(h) \/ GivesUp(h)
  <2>1. reading' = [reading EXCEPT ![h] = Idle] /\ UNCHANGED <<now, schedule, records, admitted, began>>
    BY <1>4 DEF NothingDue, GivesUp, Done
  <2>2. RecordOutlasts' /\ SlotOnce'
    BY <1>1, <2>1, ReadingFrame
  <2>3. reading[h] # Idle /\ (handled' = handled \/ handled' = [handled EXCEPT ![h] = Slot(h)])
    BY <1>4 DEF NothingDue, GivesUp, Handled
  <2>4. SchedTypeOK'
    BY <1>1, <1>2, <2>1, <2>3 DEF SchedInv, SchedTypeOK
  <2> QED BY <2>2, <2>4 DEF SchedInv
<1>5. CASE AdmitRefused(h)
  <2>1. reading' = [reading EXCEPT ![h] = Idle] /\ UNCHANGED <<now, schedule, records, admitted, began>>
    BY <1>5 DEF AdmitRefused, Done
  <2>2. RecordOutlasts' /\ SlotOnce'
    BY <1>1, <2>1, ReadingFrame
  <2>3. SchedTypeOK'
    BY <1>1, <1>2, <1>5, <2>1 DEF AdmitRefused, Handled, SchedInv, SchedTypeOK
  <2> QED BY <2>2, <2>3 DEF SchedInv
<1>6. CASE Admits(h)
  <2>1. /\ RecordOutlasts' /\ SlotOnce'
        /\ records' \subseteq Int \X {0} /\ \A a \in admitted' : a.slot \in Int
    BY <1>6, AdmitFrame DEF Admits
  <2>2. SchedTypeOK'
    BY <1>1, <1>2, <1>6, <2>1 DEF Admits, Done, Handled, SchedInv, SchedTypeOK
  <2> QED BY <2>1, <2>2 DEF SchedInv
<1>7. CASE AdmitFails(h)
  <2>1. CASE UNCHANGED <<records, admitted>>
    <3>1. reading' = [reading EXCEPT ![h] = Idle] /\ UNCHANGED <<now, schedule, records, admitted, began, handled>>
      BY <1>7, <2>1 DEF AdmitFails, Done, Waits
    <3>2. RecordOutlasts' /\ SlotOnce'
      BY <1>1, <3>1, ReadingFrame
    <3>3. SchedTypeOK'
      BY <1>1, <3>1 DEF SchedInv, SchedTypeOK
    <3> QED BY <3>2, <3>3 DEF SchedInv
  <2>2. CASE KeyOf(h) \notin records /\ records' = records \cup {KeyOf(h)} /\ admitted' = admitted \cup {Job(h)}
    <3>1. /\ RecordOutlasts' /\ SlotOnce'
          /\ records' \subseteq Int \X {0} /\ \A a \in admitted' : a.slot \in Int
      BY <1>7, <2>2, AdmitFrame DEF AdmitFails
    <3>2. SchedTypeOK'
      BY <1>1, <1>7, <3>1 DEF AdmitFails, Done, Waits, SchedInv, SchedTypeOK
    <3> QED BY <3>1, <3>2 DEF SchedInv
  <2> QED BY <1>7, <2>1, <2>2 DEF AdmitFails
<1> QED BY <1>3, <1>4, <1>5, <1>6, <1>7 DEF Evaluates

\* The hosts, the schedule, the records and time.
LEMMA AroundSchedInv ==
  ASSUME SchedTimes, SchedInv,
         \/ \E h \in SchedHosts : SaveSchedule(h) \/ StopHost(h) \/ StartHost(h)
         \/ \E k \in records : Forget(k)
         \/ SchedTick
  PROVE  SchedInv'
<1>1. Idle \in Readings
  BY DEF Idle, Readings
<1>2. ASSUME NEW h \in SchedHosts, SaveSchedule(h) PROVE SchedInv'
  <2>1. ClockOf(h) \in Int
    BY DEF ClockOf, SchedTimes, SchedInv, SchedTypeOK
  <2>2. schedule' \in [rev : Nat, enabled : BOOLEAN, updated : Int]
    BY <1>2, <2>1 DEF SaveSchedule, SchedInv, SchedTypeOK
  <2> QED BY <1>2, <2>2 DEF SaveSchedule, SchedInv, SchedTypeOK, RecordOutlasts, SlotOnce, Slot, Late
<1>3. ASSUME NEW h \in SchedHosts, StopHost(h) PROVE SchedInv'
  <2>1. reading' = [reading EXCEPT ![h] = Idle] /\ UNCHANGED <<now, schedule, records, admitted>>
    BY <1>3 DEF StopHost
  <2>2. RecordOutlasts' /\ SlotOnce'
    BY <1>1, <2>1, ReadingFrame
  <2>3. SchedTypeOK'
    BY <1>1, <1>3 DEF StopHost, Memory, SchedInv, SchedTypeOK, Down, NoSlot
  <2> QED BY <2>2, <2>3 DEF SchedInv
<1>4. ASSUME NEW h \in SchedHosts, StartHost(h) PROVE SchedInv'
  <2>1. ClockOf(h) \in Int /\ ClockOf(h) # Down
    BY DEF ClockOf, SchedTimes, SchedInv, SchedTypeOK, Down
  <2> QED BY <1>4, <2>1 DEF StartHost, SchedInv, SchedTypeOK, RecordOutlasts, SlotOnce, Slot, Late
<1>5. ASSUME NEW k \in records, Forget(k) PROVE SchedInv'
  <2>1. SchedTypeOK' /\ SlotOnce'
    BY <1>5 DEF Forget, SchedInv, SchedTypeOK, SlotOnce
  <2>2. RecordOutlasts'
    <3> SUFFICES ASSUME NEW a \in admitted', <<a.slot, 0>> \notin records'
                 PROVE  /\ now > a.slot + KeepFor
                        /\ \A g \in SchedHosts : reading[g] # Idle /\ Slot(g) = a.slot => Late(g)
      BY <1>5 DEF RecordOutlasts, Forget, Slot, Late
    <3>1. CASE <<a.slot, 0>> \notin records
      BY <1>5, <3>1 DEF Forget, SchedInv, RecordOutlasts
    <3>2. CASE <<a.slot, 0>> \in records
      <4>1. k = <<a.slot, 0>>
        BY <1>5, <3>2 DEF Forget
      <4> QED BY <1>5, <4>1 DEF Forget
    <3> QED BY <3>1, <3>2
  <2> QED BY <2>1, <2>2 DEF SchedInv
<1>6. CASE SchedTick
  BY <1>6 DEF SchedTick, SchedInv, SchedTypeOK, RecordOutlasts, SlotOnce, SchedTimes, Slot, Late
<1> QED BY <1>2, <1>3, <1>4, <1>5, <1>6

LEMMA SchedNextInv == ASSUME SchedTimes, SchedInv, [SchedNext]_schedVars PROVE SchedInv'
<1>1. CASE SchedNext
  BY <1>1, EvaluatesInv, AroundSchedInv DEF SchedNext
<1>2. CASE UNCHANGED schedVars
  BY <1>2 DEF schedVars, SchedInv, SchedTypeOK, RecordOutlasts, SlotOnce, Slot, Late
<1> QED BY <1>1, <1>2

\* A slot is launched once, whichever hosts evaluate it, however often they
\* stop, by clocks as far ahead as they like, also when Jobs::admit failed
\* after it had created the job, as long as the records of ended jobs are kept
\* for longer than Scheduler::evaluate_one takes a slot for one in time.
THEOREM SlotsRunOnce == ASSUME SchedTimes PROVE SchedSpec => [](SchedTypeOK /\ SlotOnce)
<1>1. SchedInit => SchedInv
  BY SchedInitInv
<1>2. SchedInv /\ [SchedNext]_schedVars => SchedInv'
  BY SchedNextInv
<1>3. SchedInv => SchedTypeOK /\ SlotOnce
  BY DEF SchedInv
<1> QED BY <1>1, <1>2, <1>3, PTL DEF SchedSpec

-----------------------------------------------------------------------------
(***************************************************************************)
(* For any hosts and any number of runs, events and refused appends, a     *)
(* job's events are told in order.  RunInOrder is inductive only with what *)
(* says that a new run finds queue and buffer empty and that every earlier *)
(* event has an earlier run's number (RunsInTurn).  The argument follows   *)
(* Told, the published, queued and buffered events as one sequence: a step *)
(* appends to it, cuts its end off or leaves it as it is.                  *)
(***************************************************************************)
\* Told is the three sequences one after the other.
ToldShape ==
    /\ Told \in Seq(EventSet) /\ DOMAIN Told = 1 .. Len(Told)
    /\ Len(Told) = Len(shown) + Len(queue) + Len(buffer)
    /\ Len(Told) \in Nat /\ Len(shown) \in Nat /\ Len(shown) <= Len(Told)
    /\ DOMAIN shown = 1 .. Len(shown)
    /\ \A i \in 1 .. Len(shown) : Told[i] = shown[i]

LEMMA ToldFacts == ASSUME EventsTypeOK PROVE ToldShape
<1>1. shown \in Seq(EventSet) /\ queue \in Seq(EventSet) /\ buffer \in Seq(EventSet)
  BY DEF EventsTypeOK
<1>2. /\ shown \o queue \in Seq(EventSet) /\ Len(shown \o queue) = Len(shown) + Len(queue)
      /\ \A i \in 1 .. Len(shown) + Len(queue) : (shown \o queue)[i] =
             IF i <= Len(shown) THEN shown[i] ELSE queue[i - Len(shown)]
  BY <1>1, ConcatProperties, Zenon
<1>3. /\ Told \in Seq(EventSet) /\ Len(Told) = Len(shown \o queue) + Len(buffer)
      /\ \A i \in 1 .. Len(shown \o queue) + Len(buffer) : Told[i] =
             IF i <= Len(shown \o queue) THEN (shown \o queue)[i] ELSE buffer[i - Len(shown \o queue)]
  <2>1. PICK sq : sq = shown \o queue
    OBVIOUS
  <2>2. Told = sq \o buffer
    BY <2>1 DEF Told
  <2>3. sq \in Seq(EventSet)
    BY <1>2, <2>1
  <2>4. /\ sq \o buffer \in Seq(EventSet)
        /\ Len(sq \o buffer) = Len(sq) + Len(buffer)
        /\ \A i \in 1 .. Len(sq) + Len(buffer) :
             (sq \o buffer)[i] = IF i <= Len(sq) THEN sq[i] ELSE buffer[i - Len(sq)]
    BY <1>1, <2>3, ConcatProperties, Zenon
  <2> QED BY <2>1, <2>2, <2>4, Zenon
<1>4. Len(shown) \in Nat /\ Len(queue) \in Nat /\ Len(buffer) \in Nat
  BY <1>1, LenProperties
<1>5. DOMAIN Told = 1 .. Len(Told) /\ DOMAIN shown = 1 .. Len(shown)
  BY <1>1, <1>3, LenProperties
<1>6. \A i \in 1 .. Len(shown) : Told[i] = shown[i]
  BY <1>2, <1>3, <1>4
<1> QED BY <1>2, <1>3, <1>4, <1>5, <1>6 DEF ToldShape

LEMMA ToldFactsNext == EventsTypeOK' => ToldShape'
<1>1. EventsTypeOK => ToldShape
  BY ToldFacts
<1> QED BY <1>1, PTL

\* What is told stays as it is while it moves from one place to the next
\* (flush, store_and_publish, finalize), and when the record is written.
LEMMA ToldStays ==
  ASSUME EventsTypeOK, EventsTypeOK', RunInOrder, Told' = Told, Len(shown) <= Len(shown'),
         UNCHANGED <<run, host, seq, base, lost>>,
         state' = "running" => state = "running",
         state' \in {"ending", "ended"} => state \in {"running", "ending", "ended"}
  PROVE  RunInOrder'
<1>1. PICK n \in 0 .. Len(shown) :
        /\ \A i \in DOMAIN Told :
             /\ Told[i].run = run <=> i > n
             /\ i > n => Told[i].seq = base + i - n /\ Told[i].host = host
        /\ state = "running" \/ (state \in {"ending", "ended"} /\ ~lost) => seq = base + Len(Told) - n
  BY DEF RunInOrder
<1>2. n \in 0 .. Len(shown')
  BY ToldFacts, ToldFactsNext DEF ToldShape
<1>3. state' = "running" \/ (state' \in {"ending", "ended"} /\ ~lost')
        => state = "running" \/ (state \in {"ending", "ended"} /\ ~lost)
  OBVIOUS
<1>4. \A i \in DOMAIN Told' :
             /\ Told'[i].run = run' <=> i > n
             /\ i > n => Told'[i].seq = base' + i - n /\ Told'[i].host = host'
  BY <1>1
<1>5. state' = "running" \/ (state' \in {"ending", "ended"} /\ ~lost') => seq' = base' + Len(Told') - n
  BY <1>1, <1>3
<1>6. \E m \in 0 .. Len(shown') :
        /\ \A i \in DOMAIN Told' :
             /\ Told'[i].run = run' <=> i > m
             /\ i > m => Told'[i].seq = base' + i - m /\ Told'[i].host = host'
        /\ state' = "running" \/ (state' \in {"ending", "ended"} /\ ~lost') => seq' = base' + Len(Told') - m
  BY <1>2, <1>4, <1>5
<1> QED BY <1>6, Zenon DEF RunInOrder

\* A run pushes its next event (Supervisor::push).
LEMMA ToldGrows ==
  ASSUME EventsTypeOK, EventsTypeOK', RunInOrder, state = "running", NEW e \in EventSet,
         e.run = run, e.host = host, e.seq = seq + 1, Told' = Append(Told, e), shown' = shown,
         seq' = seq + 1, UNCHANGED <<run, host, base, lost>>
  PROVE  RunInOrder'
<1>1. PICK n \in 0 .. Len(shown) :
        /\ \A i \in DOMAIN Told :
             /\ Told[i].run = run <=> i > n
             /\ i > n => Told[i].seq = base + i - n /\ Told[i].host = host
        /\ seq = base + Len(Told) - n
  BY DEF RunInOrder
<1>2. /\ Len(Told') = Len(Told) + 1 /\ Told'[Len(Told) + 1] = e
      /\ \A i \in 1 .. Len(Told) : Told'[i] = Told[i]
  BY ToldFacts, AppendProperties DEF ToldShape
<1>3. base \in Nat /\ Len(Told) \in Nat /\ n \in Nat /\ n <= Len(Told) /\ DOMAIN Told = 1 .. Len(Told)
  BY ToldFacts DEF ToldShape, EventsTypeOK
<1>4. DOMAIN Told' = 1 .. Len(Told) + 1
  BY <1>2, ToldFactsNext DEF ToldShape
<1>5. \A i \in DOMAIN Told' :
             /\ Told'[i].run = run' <=> i > n
             /\ i > n => Told'[i].seq = base' + i - n /\ Told'[i].host = host'
  <2> SUFFICES ASSUME NEW i \in DOMAIN Told'
               PROVE  /\ Told'[i].run = run' <=> i > n
                      /\ i > n => Told'[i].seq = base' + i - n /\ Told'[i].host = host'
    OBVIOUS
  <2>1. CASE i \in 1 .. Len(Told)
    BY <1>1, <1>2, <1>3, <2>1
  <2>2. CASE i = Len(Told) + 1
    BY <1>1, <1>2, <1>3, <2>2
  <2> QED BY <1>3, <1>4, <2>1, <2>2
<1>6. seq' = base' + Len(Told') - n
  BY <1>1, <1>2, <1>3
<1>7. \E m \in 0 .. Len(shown') :
        /\ \A i \in DOMAIN Told' :
             /\ Told'[i].run = run' <=> i > m
             /\ i > m => Told'[i].seq = base' + i - m /\ Told'[i].host = host'
        /\ state' = "running" \/ (state' \in {"ending", "ended"} /\ ~lost') => seq' = base' + Len(Told') - m
  BY <1>5, <1>6
<1> QED BY <1>7, Zenon DEF RunInOrder

\* The events a run pushes.
LEMMA EventIsOne ==
  ASSUME EventsTypeOK, NEW n \in Nat, NEW kind \in {"event", "end"}
  PROVE  /\ Event(n, kind) \in EventSet
         /\ Event(n, kind).run = run /\ Event(n, kind).host = host /\ Event(n, kind).seq = n
BY DEF Event, EventSet, EventsTypeOK

LEMMA FirstIsOne ==
  ASSUME EventsTypeOK, NEW h \in Hosts, NEW e,
         e = [run |-> NextRun, host |-> h, seq |-> FirstSeq(lastSeq), kind |-> "started"]
  PROVE  e \in EventSet /\ e.run = run + 1 /\ e.host = h /\ e.seq = lastSeq + 1
BY DEF NextRun, FirstSeq, EventSet, EventsTypeOK

\* What the writer takes is the first part of its queue.
LEMMA QueueParts ==
  ASSUME EventsTypeOK, NEW n \in 1 .. Len(queue)
  PROVE  /\ SubSeq(queue, 1, n) \in Seq(EventSet) /\ SubSeq(queue, n + 1, Len(queue)) \in Seq(EventSet)
         /\ SubSeq(queue, 1, n) \o SubSeq(queue, n + 1, Len(queue)) = queue
<1>1. queue \in Seq(EventSet) /\ Len(queue) \in Nat
  BY LenProperties DEF EventsTypeOK
<1>2. \A i \in 1 .. Len(queue) : queue[i] \in EventSet
  BY <1>1, ElementOfSeq
<1>3. SubSeq(queue, 1, n) \in Seq(EventSet)
  BY <1>1, <1>2, SubSeqProperties, Z3
<1>4. SubSeq(queue, n + 1, Len(queue)) \in Seq(EventSet)
  <2>1. n + 1 \in Int /\ Len(queue) \in Int /\ \A i \in n + 1 .. Len(queue) : queue[i] \in EventSet
    BY <1>1, <1>2
  <2> QED BY <2>1, SubSeqProperties, Zenon
<1>5. SubSeq(queue, 1, n) \o SubSeq(queue, n + 1, Len(queue)) = SubSeq(queue, 1, Len(queue))
  <2>1. 1 \in 1 .. Len(queue) + 1 /\ n \in 1 - 1 .. Len(queue) /\ Len(queue) \in n .. Len(queue)
    BY <1>1
  <2> QED BY <1>1, <2>1, ConcatAdjacentSubSeq, Zenon
<1> QED BY <1>1, <1>3, <1>4, <1>5, SubSeqFull

\* What the writer does, in one go.
LEMMA WriteSteps ==
  ASSUME EventsTypeOK, Write
  PROVE  \E batch, rest \in Seq(EventSet) :
           /\ queue = batch \o rest /\ queue' = rest /\ shown' = shown \o batch
           /\ \/ rows' = rows \cup ToSet(batch) /\ errors' = errors
              \/ rows' = rows /\ errors' = errors + 1
           /\ UNCHANGED <<lastSeq, state, run, host, seq, base, buffer, lost, pushed>>
<1>1. PICK n \in 1 .. Len(queue), ok \in BOOLEAN :
          LET batch == SubSeq(queue, 1, n) IN
          /\ errors' = IF ok THEN errors ELSE errors + 1
          /\ rows' = IF ok THEN rows \cup ToSet(batch) ELSE rows
          /\ shown' = shown \o Published(batch, ok)
          /\ queue' = SubSeq(queue, n + 1, Len(queue))
  BY DEF Write
<1>2. PICK batch : batch = SubSeq(queue, 1, n)
  OBVIOUS
<1>3. PICK rest : rest = SubSeq(queue, n + 1, Len(queue))
  OBVIOUS
<1>4. batch \in Seq(EventSet) /\ rest \in Seq(EventSet) /\ queue = batch \o rest
  BY <1>2, <1>3, QueueParts
<1>5. /\ errors' = IF ok THEN errors ELSE errors + 1
      /\ rows' = IF ok THEN rows \cup ToSet(batch) ELSE rows
      /\ shown' = shown \o batch /\ queue' = rest
  BY <1>1, <1>2, <1>3 DEF Published
<1>6. UNCHANGED <<lastSeq, state, run, host, seq, base, buffer, lost, pushed>>
  BY DEF Write
<1> QED BY <1>4, <1>5, <1>6, Zenon

LEMMA BatchIsEvents ==
  ASSUME NEW batch \in Seq(EventSet) PROVE ToSet(batch) \subseteq EventSet
BY LenProperties DEF ToSet

LEMMA EventsTypesStay == ASSUME EventsTypeOK, EventsNext PROVE EventsTypeOK'
<1> USE DEF EventsTypeOK
<1>0. <<>> \in Seq(EventSet)
  BY EmptySeq
<1>1. ASSUME NEW h \in Hosts, Start(h) PROVE EventsTypeOK'
  <2>1. PICK e : e = [run |-> NextRun, host |-> h, seq |-> FirstSeq(lastSeq), kind |-> "started"]
    OBVIOUS
  <2>2. e \in EventSet
    BY <2>1, FirstIsOne
  <2>3. queue' \in Seq(EventSet)
    <3>1. queue' = Append(queue, e)
      BY <1>1, <2>1 DEF Start
    <3> QED BY <2>2, <3>1, AppendProperties
  <2>4. run' \in 0 .. MaxRuns
    BY <1>1, EventsAssumption DEF Start, NextRun
  <2> QED BY <1>1, <2>3, <2>4 DEF Start, FirstSeq
<1>2. ASSUME NEW kind \in {"event", "end"}, PushUrgent(kind) PROVE EventsTypeOK'
  <2>1. PICK e \in EventSet : e = Event(seq + 1, kind)
    BY EventIsOne
  <2>2. Append(buffer, e) \in Seq(EventSet)
    BY AppendProperties
  <2>3. queue' \in Seq(EventSet)
    <3>1. queue' = queue \o Append(buffer, e)
      BY <1>2, <2>1 DEF PushUrgent, HandOver
    <3> QED BY <2>2, <3>1, ConcatProperties
  <2>4. state' \in {"waiting", "running", "ending", "interrupted", "ended"}
    BY <1>2 DEF PushUrgent
  <2> QED BY <1>0, <1>2, <2>3, <2>4 DEF PushUrgent
<1>3. CASE PushOutput
  <2>1. PICK e \in EventSet : e = Event(seq + 1, "event")
    BY EventIsOne
  <2>2. buffer' \in Seq(EventSet)
    <3>1. buffer' = Append(buffer, e)
      BY <1>3, <2>1 DEF PushOutput
    <3> QED BY <3>1, AppendProperties
  <2> QED BY <1>3, <2>2 DEF PushOutput
<1>4. CASE Flush \/ Stop
  <2>1. queue' \in Seq(EventSet)
    <3>1. queue' = queue \o buffer
      BY <1>4 DEF Flush, Stop
    <3> QED BY <3>1, ConcatProperties
  <2> QED BY <1>0, <1>4, <2>1 DEF Flush, Stop
<1>5. CASE Write
  <2>1. PICK batch, rest \in Seq(EventSet) :
           /\ queue = batch \o rest /\ queue' = rest /\ shown' = shown \o batch
           /\ \/ rows' = rows \cup ToSet(batch) /\ errors' = errors
              \/ rows' = rows /\ errors' = errors + 1
           /\ UNCHANGED <<lastSeq, state, run, host, seq, base, buffer, lost, pushed>>
    BY <1>5, WriteSteps
  <2>2. shown' \in Seq(EventSet)
    BY <2>1, ConcatProperties
  <2>3. rows' \subseteq EventSet /\ errors' \in Nat
    BY <2>1, BatchIsEvents
  <2> QED BY <2>1, <2>2, <2>3
<1>6. CASE Renew \/ Finish \/ Resume
  BY <1>6 DEF Renew, Finish, Resume, LastSeq, Greater
<1>7. CASE EventsCrash
  <2>1. lost' \in BOOLEAN
    BY <1>7 DEF EventsCrash
  <2>2. state' \in {"waiting", "running", "ending", "interrupted", "ended"}
    BY <1>7 DEF EventsCrash
  <2> QED BY <1>0, <1>7, <2>1, <2>2 DEF EventsCrash
<1> QED BY <1>1, <1>2, <1>3, <1>4, <1>5, <1>6, <1>7 DEF EventsNext

\* What each step does to what is told.
LEMMA StartTells ==
  ASSUME EventsTypeOK, RunsInTurn, NEW h \in Hosts, Start(h)
  PROVE  \E e \in EventSet : /\ Told' = Append(Told, e) /\ Told = shown /\ buffer = <<>>
                             /\ e.run = run + 1 /\ e.host = h /\ e.seq = lastSeq + 1
<1>1. PICK e : e = [run |-> NextRun, host |-> h, seq |-> FirstSeq(lastSeq), kind |-> "started"]
  OBVIOUS
<1>2. e \in EventSet /\ e.run = run + 1 /\ e.host = h /\ e.seq = lastSeq + 1
  BY <1>1, FirstIsOne
<1>3. queue = <<>> /\ buffer = <<>>
  BY DEF Start, RunsInTurn
<1>4. queue' = Append(<<>>, e) /\ shown' = shown /\ buffer' = <<>>
  BY <1>1, <1>3 DEF Start
<1>5. shown \in Seq(EventSet)
  BY DEF EventsTypeOK
<1>6. shown \o <<>> = shown /\ Told = shown
  BY <1>3, <1>5, ConcatEmptySeq DEF Told
<1>7. Append(<<>>, e) = <<e>> /\ <<e>> \in Seq(EventSet)
  BY <1>2
<1>8. Append(shown, e) = shown \o <<e>> /\ Append(shown, e) \in Seq(EventSet)
  BY <1>2, <1>5, AppendIsConcat, AppendProperties
<1>9. Told' = (shown \o <<e>>) \o <<>>
  BY <1>4, <1>7 DEF Told
<1>10. Told' = Append(Told, e)
  BY <1>6, <1>8, <1>9, ConcatEmptySeq
<1> QED BY <1>2, <1>3, <1>6, <1>10

LEMMA Regroup ==
  ASSUME NEW s \in Seq(EventSet), NEW t \in Seq(EventSet), NEW u \in Seq(EventSet)
  PROVE  s \o (t \o u) = (s \o t) \o u
BY ConcatAssociative, SMTT(30)

LEMMA PushTells ==
  ASSUME EventsTypeOK, NEW kind \in {"event", "end"}, PushUrgent(kind) \/ (PushOutput /\ kind = "event")
  PROVE  Told' = Append(Told, Event(seq + 1, kind)) /\ Event(seq + 1, kind) \in EventSet
<1>1. PICK e : e = Event(seq + 1, kind)
  OBVIOUS
<1>2. e \in EventSet
  BY <1>1, EventIsOne DEF EventsTypeOK
<1>3. PICK sq : sq = shown \o queue
  OBVIOUS
<1>4. shown \in Seq(EventSet) /\ queue \in Seq(EventSet) /\ buffer \in Seq(EventSet) /\ sq \in Seq(EventSet)
  BY <1>3, ConcatProperties DEF EventsTypeOK
<1>5. /\ Append(buffer, e) = buffer \o <<e>> /\ Append(buffer, e) \in Seq(EventSet) /\ <<e>> \in Seq(EventSet)
      /\ sq \o buffer \in Seq(EventSet) /\ queue \o Append(buffer, e) \in Seq(EventSet)
  <2>1. Append(buffer, e) = buffer \o <<e>> /\ Append(buffer, e) \in Seq(EventSet)
    BY <1>2, <1>4, AppendIsConcat, AppendProperties
  <2>2. <<e>> \in Seq(EventSet)
    BY <1>2
  <2> QED BY <1>4, <2>1, <2>2, ConcatProperties, Zenon
<1>6. sq \o Append(buffer, e) = Append(Told, e)
  <2>1. Told = sq \o buffer
    BY <1>3 DEF Told
  <2>2. sq \o (buffer \o <<e>>) = (sq \o buffer) \o <<e>>
    BY <1>4, <1>5, ConcatAssociative
  <2>3. Append(sq \o buffer, e) = (sq \o buffer) \o <<e>>
    BY <1>2, <1>5, AppendIsConcat
  <2> QED BY <1>5, <2>1, <2>2, <2>3
<1>7. CASE PushUrgent(kind)
  <2>1. Told' = (shown \o (queue \o Append(buffer, e))) \o <<>>
    BY <1>1, <1>7 DEF PushUrgent, HandOver, Told
  <2>2. shown \o (queue \o Append(buffer, e)) = sq \o Append(buffer, e)
    <3>1. PICK tail \in Seq(EventSet) : tail = Append(buffer, e)
      BY <1>5
    <3>2. shown \o (queue \o tail) = (shown \o queue) \o tail
      BY <1>4, Regroup, SMTT(30)
    <3> QED BY <1>3, <3>1, <3>2
  <2>3. shown \o (queue \o Append(buffer, e)) \in Seq(EventSet)
    BY <1>4, <1>5, ConcatProperties
  <2>4. Told' = sq \o Append(buffer, e)
    BY <2>1, <2>2, <2>3, ConcatEmptySeq
  <2> QED BY <1>1, <1>2, <1>6, <2>4
<1>8. CASE PushOutput /\ kind = "event"
  <2>1. Told' = sq \o Append(buffer, e)
    BY <1>1, <1>3, <1>8 DEF PushOutput, Told
  <2> QED BY <1>1, <1>2, <1>6, <2>1
<1> QED BY <1>7, <1>8

LEMMA HandedOver ==
  ASSUME EventsTypeOK, queue' = queue \o buffer, buffer' = <<>>, shown' = shown PROVE Told' = Told
<1>1. shown \in Seq(EventSet) /\ queue \in Seq(EventSet) /\ buffer \in Seq(EventSet)
  BY DEF EventsTypeOK
<1>2. Told' = (shown \o (queue \o buffer)) \o <<>>
  BY DEF Told
<1>3. shown \o (queue \o buffer) = (shown \o queue) \o buffer
  BY <1>1, ConcatAssociative, SMTT(30)
<1>4. shown \o (queue \o buffer) \in Seq(EventSet)
  BY <1>1, ConcatProperties
<1> QED BY <1>2, <1>3, <1>4, ConcatEmptySeq DEF Told

LEMMA Written ==
  ASSUME EventsTypeOK, NEW batch \in Seq(EventSet), NEW rest \in Seq(EventSet), queue = batch \o rest,
         queue' = rest, shown' = shown \o batch, buffer' = buffer
  PROVE  /\ Told' = Told /\ Len(shown) <= Len(shown')
         /\ ToSet(shown') = ToSet(shown) \cup ToSet(batch)
<1>1. shown \in Seq(EventSet)
  BY DEF EventsTypeOK
<1>2. (shown \o batch) \o rest = shown \o (batch \o rest)
  BY <1>1, ConcatAssociative
<1>3. Told' = Told
  BY <1>2 DEF Told
<1>4. /\ Len(shown \o batch) = Len(shown) + Len(batch) /\ shown \o batch \in Seq(EventSet)
      /\ \A i \in 1 .. Len(shown) + Len(batch) :
           (shown \o batch)[i] = IF i <= Len(shown) THEN shown[i] ELSE batch[i - Len(shown)]
  BY <1>1, ConcatProperties
<1>5. /\ Len(shown) \in Nat /\ Len(batch) \in Nat /\ DOMAIN shown = 1 .. Len(shown)
      /\ DOMAIN batch = 1 .. Len(batch) /\ DOMAIN shown' = 1 .. Len(shown) + Len(batch)
  BY <1>1, <1>4, LenProperties
<1>6. ToSet(shown') = ToSet(shown) \cup ToSet(batch)
  <2>1. ASSUME NEW i \in DOMAIN shown' PROVE shown'[i] \in ToSet(shown) \cup ToSet(batch)
    <3>1. CASE i <= Len(shown)
      BY <1>4, <1>5, <3>1 DEF ToSet
    <3>2. CASE i > Len(shown)
      <4>1. i - Len(shown) \in DOMAIN batch /\ shown'[i] = batch[i - Len(shown)]
        BY <1>4, <1>5, <3>2
      <4> QED BY <4>1 DEF ToSet
    <3> QED BY <1>5, <3>1, <3>2
  <2>2. ASSUME NEW i \in DOMAIN shown PROVE i \in DOMAIN shown' /\ shown'[i] = shown[i]
    BY <1>4, <1>5
  <2>3. ASSUME NEW i \in DOMAIN batch
        PROVE  i + Len(shown) \in DOMAIN shown' /\ shown'[i + Len(shown)] = batch[i]
    BY <1>4, <1>5
  <2>4. ToSet(shown') \subseteq ToSet(shown) \cup ToSet(batch)
    BY <2>1, Zenon DEF ToSet
  <2>5. ToSet(shown) \subseteq ToSet(shown')
    BY <2>2, Zenon DEF ToSet
  <2>6. ToSet(batch) \subseteq ToSet(shown')
    BY <2>3, Zenon DEF ToSet
  <2> QED BY <2>4, <2>5, <2>6
<1> QED BY <1>3, <1>4, <1>5, <1>6

LEMMA CrashTells ==
  ASSUME EventsTypeOK, EventsCrash PROVE Told' = shown /\ shown' = shown
<1>1. Told' = (shown \o <<>>) \o <<>> /\ shown' = shown
  BY DEF EventsCrash, Told
<1>2. shown \in Seq(EventSet)
  BY DEF EventsTypeOK
<1> QED BY <1>1, <1>2, ConcatEmptySeq

-----------------------------------------------------------------------------
\* The record and the places, as every step leaves them.
TurnsStay ==
    /\ \A i \in DOMAIN Told' : Told'[i].run \in 1 .. run'
    /\ rows' \subseteq ToSet(shown') /\ (errors' = 0 => rows' = ToSet(shown'))

\* The next event of a run leaves the numbers of the runs in place.
LEMMA GrowingTurns ==
  ASSUME EventsInv, EventsTypeOK', NEW e \in EventSet, Told' = Append(Told, e), e.run = run',
         run' \in {run, run + 1}, run' >= 1, UNCHANGED <<shown, rows, errors>>
  PROVE  TurnsStay
<1>1. /\ Len(Told') = Len(Told) + 1 /\ Told'[Len(Told) + 1] = e
      /\ \A i \in 1 .. Len(Told) : Told'[i] = Told[i]
  BY ToldFacts, AppendProperties DEF ToldShape, EventsInv
<1>2. Len(Told) \in Nat /\ DOMAIN Told = 1 .. Len(Told) /\ DOMAIN Told' = 1 .. Len(Told) + 1
  BY <1>1, ToldFacts, ToldFactsNext DEF ToldShape, EventsInv
<1>3. run \in Nat
  BY EventsAssumption DEF EventsInv, EventsTypeOK
<1>4. \A i \in DOMAIN Told' : Told'[i].run \in 1 .. run'
  <2> SUFFICES ASSUME NEW i \in DOMAIN Told' PROVE Told'[i].run \in 1 .. run'
    OBVIOUS
  <2>1. CASE i \in 1 .. Len(Told)
    BY <1>1, <1>2, <1>3, <2>1 DEF EventsInv, RunsInTurn
  <2>2. CASE i = Len(Told) + 1
    BY <1>1, <1>3, <2>2
  <2> QED BY <1>2, <2>1, <2>2
<1> QED BY <1>4 DEF TurnsStay, EventsInv, StoredWasShown

\* A new run begins behind all that was told (claim, start).
LEMMA StartInv == ASSUME EventsInv, EventsTypeOK', NEW h \in Hosts, Start(h) PROVE EventsInv'
<1>1. PICK e \in EventSet : /\ Told' = Append(Told, e) /\ Told = shown /\ buffer = <<>>
                            /\ e.run = run + 1 /\ e.host = h /\ e.seq = lastSeq + 1
  BY StartTells DEF EventsInv
<1>2. /\ Len(Told') = Len(shown) + 1 /\ Told'[Len(shown) + 1] = e
      /\ \A i \in 1 .. Len(shown) : Told'[i] = shown[i]
  BY <1>1, ToldFacts, AppendProperties DEF ToldShape, EventsInv
<1>3. /\ Len(shown) \in Nat /\ DOMAIN Told = 1 .. Len(shown) /\ DOMAIN Told' = 1 .. Len(shown) + 1
      /\ run \in Nat /\ lastSeq \in Nat
  BY <1>1, <1>2, ToldFacts, ToldFactsNext, EventsAssumption, SMTT(30) DEF ToldShape, EventsInv, EventsTypeOK
<1>4. /\ run' = run + 1 /\ base' = lastSeq /\ seq' = lastSeq + 1 /\ host' = h /\ state' = "running"
      /\ UNCHANGED <<lastSeq, buffer, rows, shown, lost, errors>>
  BY DEF Start, NextRun, FirstSeq
<1>5. \A i \in DOMAIN Told' :
             /\ Told'[i].run = run' <=> i > Len(shown)
             /\ i > Len(shown) => Told'[i].seq = base' + i - Len(shown) /\ Told'[i].host = host'
  <2> SUFFICES ASSUME NEW i \in DOMAIN Told'
               PROVE  /\ Told'[i].run = run' <=> i > Len(shown)
                      /\ i > Len(shown) => Told'[i].seq = base' + i - Len(shown) /\ Told'[i].host = host'
    OBVIOUS
  <2>1. CASE i \in 1 .. Len(shown)
    <3>1. Told'[i].run \in 1 .. run
      BY <1>1, <1>2, <1>3, <2>1 DEF EventsInv, RunsInTurn
    <3> QED BY <1>3, <1>4, <2>1, <3>1
  <2>2. CASE i = Len(shown) + 1
    BY <1>1, <1>2, <1>3, <1>4, <2>2
  <2> QED BY <1>3, <2>1, <2>2
<1>6. \E m \in 0 .. Len(shown') :
        /\ \A i \in DOMAIN Told' :
             /\ Told'[i].run = run' <=> i > m
             /\ i > m => Told'[i].seq = base' + i - m /\ Told'[i].host = host'
        /\ state' = "running" \/ (state' \in {"ending", "ended"} /\ ~lost') => seq' = base' + Len(Told') - m
  <2>1. Len(shown) \in 0 .. Len(shown') /\ seq' = base' + Len(Told') - Len(shown)
    BY <1>2, <1>3, <1>4
  <2> QED BY <1>5, <2>1
<1>7. RunInOrder'
  BY <1>6, Zenon DEF RunInOrder
<1>8. TurnsStay
  BY <1>1, <1>3, <1>4, GrowingTurns
<1>9. /\ state' # "running" => buffer' = <<>>
      /\ state' = "waiting" => queue' = <<>>
      /\ lastSeq' <= seq' /\ (state' = "ended" => lastSeq' = seq')
      /\ run' = 0 => seq' = 0 /\ state' = "waiting"
      /\ run' <= 1 => base' = 0
  <2>1. run = 0 => lastSeq = 0
    BY <1>3 DEF EventsInv, RunsInTurn
  <2> QED BY <1>3, <1>4, <2>1
<1> QED BY <1>7, <1>8, <1>9 DEF EventsInv, RunsInTurn, StoredWasShown, TurnsStay

LEMMA PushInv ==
  ASSUME EventsInv, EventsTypeOK', NEW kind \in {"event", "end"},
         PushUrgent(kind) \/ (PushOutput /\ kind = "event")
  PROVE  EventsInv'
<1>1. PICK e : e = Event(seq + 1, kind)
  OBVIOUS
<1>2. /\ Told' = Append(Told, e) /\ e \in EventSet /\ e.run = run /\ e.host = host /\ e.seq = seq + 1
  BY <1>1, PushTells, EventIsOne, SMTT(30) DEF EventsInv, EventsTypeOK
<1>3. /\ state = "running" /\ seq' = seq + 1 /\ state' \in {"running", "ending"}
      /\ state' # "running" => buffer' = <<>>
      /\ UNCHANGED <<lastSeq, run, host, base, rows, shown, lost, errors>>
  BY DEF PushUrgent, PushOutput
<1>4. RunInOrder'
  BY <1>2, <1>3, ToldGrows DEF EventsInv
<1>5. run >= 1 /\ run \in Nat
  BY <1>3, EventsAssumption DEF EventsInv, EventsTypeOK, RunsInTurn
<1>6. TurnsStay
  BY <1>2, <1>3, <1>5, GrowingTurns
<1>7. /\ lastSeq' <= seq' /\ (run' <= 1 => base' = 0) /\ state' # "ended" /\ state' # "waiting" /\ run' # 0
  BY <1>3, <1>5 DEF EventsInv, EventsTypeOK, RunsInTurn
<1> QED BY <1>3, <1>4, <1>6, <1>7 DEF EventsInv, RunsInTurn, StoredWasShown, TurnsStay

\* What is told does not change: it moves on, or the record is written.
LEMMA MoveInv ==
  ASSUME EventsInv, EventsTypeOK', Flush \/ Stop \/ Write \/ Renew \/ Finish \/ Resume
  PROVE  EventsInv'
<1>1. /\ Told' = Told /\ Len(shown) <= Len(shown')
      /\ rows' \subseteq ToSet(shown') /\ (errors' = 0 => rows' = ToSet(shown'))
  <2>1. CASE Flush \/ Stop
    <3>1. queue' = queue \o buffer /\ buffer' = <<>> /\ UNCHANGED <<shown, rows, errors>>
      BY <2>1 DEF Flush, Stop
    <3>2. Told' = Told
      BY <3>1, HandedOver DEF EventsInv
    <3>3. Len(shown) <= Len(shown')
      BY <3>1, ToldFacts DEF EventsInv, ToldShape
    <3> QED BY <3>1, <3>2, <3>3 DEF EventsInv, StoredWasShown
  <2>2. CASE Write
    <3>1. PICK batch, rest \in Seq(EventSet) :
           /\ queue = batch \o rest /\ queue' = rest /\ shown' = shown \o batch
           /\ \/ rows' = rows \cup ToSet(batch) /\ errors' = errors
              \/ rows' = rows /\ errors' = errors + 1
           /\ UNCHANGED <<lastSeq, state, run, host, seq, base, buffer, lost, pushed>>
      BY <2>2, WriteSteps DEF EventsInv
    <3>2. /\ Told' = Told /\ Len(shown) <= Len(shown')
          /\ ToSet(shown') = ToSet(shown) \cup ToSet(batch)
      BY <3>1, Written DEF EventsInv
    <3>3. rows \subseteq ToSet(shown) /\ (errors = 0 => rows = ToSet(shown)) /\ errors \in Nat
      BY DEF EventsInv, StoredWasShown, EventsTypeOK
    <3> QED BY <3>1, <3>2, <3>3
  <2>3. CASE Renew \/ Finish \/ Resume
    <3>1. UNCHANGED <<shown, queue, buffer, rows, errors>>
      BY <2>3 DEF Renew, Finish, Resume
    <3>2. Len(shown) <= Len(shown')
      BY <3>1, ToldFacts DEF EventsInv, ToldShape
    <3> QED BY <3>1, <3>2 DEF Told, EventsInv, StoredWasShown
  <2> QED BY <2>1, <2>2, <2>3
<1>2. UNCHANGED <<run, host, seq, base, lost>>
  BY DEF Flush, Stop, Write, Renew, Finish, Resume
<1>3. /\ state' = "running" => state = "running"
      /\ state' \in {"ending", "ended"} => state \in {"running", "ending", "ended"}
      /\ run = 0 => state' = "waiting"
  BY DEF Flush, Stop, Write, Renew, Finish, Resume, EventsInv, RunsInTurn
<1>4. RunInOrder'
  BY <1>1, <1>2, <1>3, ToldStays DEF EventsInv
<1>5. lastSeq' <= seq' /\ (state' = "ended" => lastSeq' = seq')
  BY SMTT(30) DEF Flush, Stop, Write, Renew, Finish, Resume, LastSeq, Greater, EventsInv, EventsTypeOK, RunsInTurn
<1>6. state' # "running" => buffer' = <<>>
  BY DEF Flush, Stop, Write, Renew, Finish, Resume, EventsInv, RunsInTurn
<1>7. state' = "waiting" => queue' = <<>>
  <2>1. CASE Flush \/ Write
    <3>1. state' = "waiting" => queue = <<>> /\ buffer = <<>>
      BY <2>1 DEF Flush, Write, EventsInv, RunsInTurn
    <3> QED BY <2>1, <3>1 DEF Flush, Write
  <2> QED BY <2>1 DEF Stop, Renew, Finish, Resume, EventsInv, RunsInTurn
<1> QED BY <1>1, <1>2, <1>3, <1>4, <1>5, <1>6, <1>7 DEF EventsInv, RunsInTurn, StoredWasShown

\* A process that is killed takes the end of what is told with it.
LEMMA EventsCrashInv == ASSUME EventsInv, EventsTypeOK', EventsCrash PROVE EventsInv'
<1>1. Told' = shown /\ shown' = shown
  BY CrashTells DEF EventsInv
<1>2. ToldShape /\ ToldShape'
  BY ToldFacts, ToldFactsNext DEF EventsInv
<1>3. PICK n \in 0 .. Len(shown) :
        /\ \A i \in DOMAIN Told :
             /\ Told[i].run = run <=> i > n
             /\ i > n => Told[i].seq = base + i - n /\ Told[i].host = host
        /\ state = "running" \/ (state \in {"ending", "ended"} /\ ~lost) => seq = base + Len(Told) - n
  BY DEF EventsInv, RunInOrder
<1>4. UNCHANGED <<lastSeq, run, host, seq, base, rows, errors>> /\ buffer' = <<>> /\ queue' = <<>>
  BY DEF EventsCrash
<1>5. \A i \in DOMAIN Told' : i \in DOMAIN Told /\ Told'[i] = Told[i]
  BY <1>1, <1>2 DEF ToldShape
<1>6. state' # "running" /\ (state' = "waiting" => state = "waiting") /\ (state' = "ended" => state = "ended")
      /\ (state = "waiting" => queue = <<>>) /\ state' # "ending"
      /\ (state = "ended" /\ queue = <<>> => ~EventsCrash)
  BY DEF EventsCrash, EventsInv, RunsInTurn
<1>7. state' = "ended" => lost'
  BY <1>6 DEF EventsCrash, EventsInv, EventsTypeOK
<1>8. \E m \in 0 .. Len(shown') :
        /\ \A i \in DOMAIN Told' :
             /\ Told'[i].run = run' <=> i > m
             /\ i > m => Told'[i].seq = base' + i - m /\ Told'[i].host = host'
        /\ state' = "running" \/ (state' \in {"ending", "ended"} /\ ~lost') => seq' = base' + Len(Told') - m
  BY <1>1, <1>3, <1>4, <1>5, <1>6, <1>7
<1>9. RunInOrder'
  BY <1>8, Zenon DEF RunInOrder
<1>10. run = 0 => state' = "waiting"
  BY DEF EventsCrash, EventsInv, RunsInTurn
<1> QED BY <1>1, <1>4, <1>5, <1>6, <1>9, <1>10 DEF EventsInv, RunsInTurn, StoredWasShown

LEMMA EventsNextInv == ASSUME EventsInv, [EventsNext]_evars PROVE EventsInv'
<1>1. CASE EventsNext
  <2>1. EventsTypeOK'
    BY <1>1, EventsTypesStay DEF EventsInv
  <2>2. PushOutput => EventsInv'
    BY <2>1, PushInv
  <2> QED BY <1>1, <2>1, <2>2, StartInv, PushInv, MoveInv, EventsCrashInv DEF EventsNext
<1>2. CASE UNCHANGED evars
  BY <1>2 DEF evars, EventsInv, EventsTypeOK, RunInOrder, RunsInTurn, StoredWasShown, Told
<1> QED BY <1>1, <1>2

LEMMA EventsInitInv == ASSUME EventsInit PROVE EventsInv
<1> USE DEF EventsInit
<1>1. EventsTypeOK
  <2>1. <<>> \in Seq(EventSet)
    BY EmptySeq
  <2>2. 0 \in 0 .. MaxRuns
    BY EventsAssumption
  <2> QED BY <2>1, <2>2 DEF EventsTypeOK
<1>2. Len(Told) = 0 /\ DOMAIN Told = {} /\ Len(shown) = 0
  BY <1>1, ToldFacts DEF ToldShape
<1>3. RunInOrder
  BY <1>2 DEF RunInOrder
<1>4. RunsInTurn
  BY <1>2 DEF RunsInTurn
<1>5. ToSet(shown) = {}
  BY DEF ToSet
<1> QED BY <1>1, <1>3, <1>4, <1>5 DEF EventsInv, StoredWasShown

\* What a run has stored is numbered from the record's count on.
LEMMA TakenIsCounted == ASSUME EventsInv PROVE CountedIsTaken
<1> SUFFICES ASSUME NEW e \in rows, e.run = run PROVE e.seq > base
  BY DEF CountedIsTaken
<1>1. ToldShape /\ base \in Nat
  BY ToldFacts DEF EventsInv, EventsTypeOK
<1>2. PICK i \in DOMAIN shown : e = shown[i]
  BY DEF EventsInv, StoredWasShown, ToSet
<1>3. i \in DOMAIN Told /\ Told[i] = e
  BY <1>1, <1>2 DEF ToldShape
<1>4. PICK n \in 0 .. Len(shown) : \A j \in DOMAIN Told :
        /\ Told[j].run = run <=> j > n
        /\ j > n => Told[j].seq = base + j - n
  BY DEF EventsInv, RunInOrder
<1> QED BY <1>1, <1>3, <1>4 DEF ToldShape

\* A job that ran once, without a crash and without a refused append, is read
\* as it was told.
LEMMA OneRunIsRead == ASSUME EventsInv PROVE OneRunIsComplete
<1> SUFFICES ASSUME state = "ended", run = 1, errors = 0, ~lost, queue = <<>>
             PROVE  {e.seq : e \in Page(rows)} = 1 .. lastSeq /\ Page(rows) = rows
  BY DEF OneRunIsComplete
<1>1. ToldShape /\ base = 0 /\ lastSeq = seq /\ buffer = <<>> /\ rows = ToSet(shown) /\ seq \in Nat
  BY ToldFacts DEF EventsInv, EventsTypeOK, RunsInTurn, StoredWasShown
<1>2. Len(Told) = Len(shown)
  BY <1>1 DEF ToldShape
<1>3. PICK n \in 0 .. Len(shown) :
        /\ \A i \in DOMAIN Told :
             /\ Told[i].run = run <=> i > n
             /\ i > n => Told[i].seq = base + i - n /\ Told[i].host = host
        /\ seq = base + Len(Told) - n
  BY DEF EventsInv, RunInOrder
<1>4. \A i \in DOMAIN Told : Told[i].run = run
  BY DEF EventsInv, RunsInTurn
<1>5. n = 0
  <2>1. n > 0 => 1 \in DOMAIN Told
    BY <1>1, <1>2 DEF ToldShape
  <2> QED BY <1>3, <1>4, <2>1
<1>6. /\ DOMAIN shown = 1 .. seq
      /\ \A i \in 1 .. seq : shown[i].seq = i /\ shown[i].host = host /\ shown[i].run = run
  BY <1>1, <1>2, <1>3, <1>4, <1>5 DEF ToldShape
<1>7. \A e \in rows : e.host = host /\ e.run = run /\ e.seq \in 1 .. seq
  BY <1>1, <1>6 DEF ToSet
<1>8. host \in Int /\ run \in Int
  BY EventsAssumption DEF EventsInv, EventsTypeOK
<1>9. Page(rows) = rows
  <2>1. \A e, f \in rows : ~Before(f, e)
    BY <1>7, <1>8 DEF Before
  <2> QED BY <2>1 DEF Page
<1>10. \A i \in 1 .. seq : shown[i] \in rows /\ shown[i].seq = i
  BY <1>1, <1>6 DEF ToSet
<1>11. {e.seq : e \in rows} = 1 .. seq
  BY <1>7, <1>10
<1> QED BY <1>1, <1>9, <1>11

\* The events of a job, over any runs, stops, kills, renewals and refused
\* appends, are told in the order they were pushed, run after run and without a
\* gap; no run gives out a number that the record knew when it began; and a job
\* that ran once is read complete (Supervisor::push, EngineSink, Jobs::renew,
\* read_page).
THEOREM EventsAreTold == EventsSpec => [](EventsInv /\ CountedIsTaken /\ OneRunIsComplete)
<1>1. EventsInit => EventsInv
  BY EventsInitInv
<1>2. EventsInv /\ [EventsNext]_evars => EventsInv'
  BY EventsNextInv
<1>3. EventsInv => EventsInv /\ CountedIsTaken /\ OneRunIsComplete
  BY TakenIsCounted, OneRunIsRead
<1> QED BY <1>1, <1>2, <1>3, PTL DEF EventsSpec

-----------------------------------------------------------------------------
(* The services side by side.                                              *)

SoundParts == IInv /\ EventsInv /\ HubInv /\ SchedInv

\* A step of one service keeps its own invariant and leaves the others alone.
LEMMA SoundPartsStay ==
  ASSUME MaxPublish \in Nat, Wire \in Nat \ {0}, SchedTimes, SoundParts, [ServicesNext]_allVars PROVE SoundParts'
<1>1. IInv'
  BY NextIInv DEF SoundParts, ServicesNext, allVars
<1>2. EventsInv'
  BY EventsNextInv DEF SoundParts, ServicesNext, allVars
<1>3. HubInv'
  BY HubNextInv DEF SoundParts, ServicesNext, allVars
<1>4. SchedInv'
  BY SchedNextInv DEF SoundParts, ServicesNext, allVars
<1> QED BY <1>1, <1>2, <1>3, <1>4 DEF SoundParts

\* All the services stay sound, for every value of the constants: the lock's
\* state is typed, a job's events are told in order and read complete, what is
\* replayed to a tab is what it missed, and no slot is launched twice.
THEOREM ServicesSound ==
  ASSUME MaxPublish \in Nat, Wire \in Nat \ {0}, SchedTimes
  PROVE  ServicesSafe => []ServicesInv
<1>1. ServicesInit => SoundParts
  BY InitIInv, EventsInitInv, InitHubInv, SchedInitInv DEF ServicesInit, SoundParts
<1>2. SoundParts /\ [ServicesNext]_allVars => SoundParts'
  BY SoundPartsStay
<1>3. SoundParts => ServicesInv
  BY TakenIsCounted, OneRunIsRead DEF SoundParts, ServicesInv, IInv, SchedInv
<1> QED BY <1>1, <1>2, <1>3, PTL DEF ServicesSafe

=============================================================================
