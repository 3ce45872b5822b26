------------------------------ MODULE EventHub ------------------------------
(***************************************************************************)
(* Live updates: the hub of bmacd/src/engine/events.rs, the loop that      *)
(* serves a tab (Engine::subscribe), the web relay and the web app's       *)
(* client (webui/src/lib/backend.ts).                                      *)
(*                                                                         *)
(* Messages are their numbers.  The window of kept messages is a range     *)
(* that ends at the newest one; a tab's receiver is the number it reads    *)
(* next from the broadcast channel.  An id is the engine's epoch and a     *)
(* number.                                                                 *)
(***************************************************************************)
EXTENDS Integers, Sequences, FiniteSetsExt

CONSTANTS
    Tabs,
    IsEvent(_),     \* whether the message of this number is a job's event
    SizeOf(_),      \* its size in the window
    ReplayMessages, ReplayBytes, TabQueue,  \* REPLAY_MESSAGES, REPLAY_BYTES, TAB_QUEUE
    Wire,           \* how many messages fit between the loop and the tab
    MaxPublish,     \* bound: messages of one epoch
    MaxCuts,        \* bound: connections that break, and restarts
    MaxWatches      \* bound: changes of what a tab watches

VARIABLES
    epoch, nextSeq, oldest,  \* the hub: its epoch and its window
    server,     \* tab -> its Subscription and where the loop is; what it sent last (history)
    wire,       \* tab -> what was sent and not read yet
    tab,        \* tab -> the client: last id, stream name known; what it got up to (history)
    cuts, watches

hub == <<epoch, nextSeq, oldest>>
hubVars == <<hub, server, wire, tab, cuts, watches>>

NoId == <<0, 0>>
Off == [pc |-> "off", since |-> 0, reset |-> FALSE, rest |-> {}, at |-> 1, watch |-> FALSE,
        chosen |-> FALSE, sent |-> <<>>]
Current == nextSeq - 1
Kept == oldest .. Current
Id(n) == <<epoch, n>>
Wanted(t, n) == IsEvent(n) => server[t].watch
Send(t, kind, n) == wire' = [wire EXCEPT ![t] = Append(@, [kind |-> kind, id |-> Id(n)])]
Room(t) == Len(wire[t]) < Wire

\* publish_copy: the oldest messages leave the window when it holds too many
\* or too much, but never the newest.
Fits(lo, newest) ==
    /\ newest - lo < ReplayMessages
    /\ lo = newest \/ MapThenSumSet(SizeOf, lo .. newest) <= ReplayBytes
HubPublish ==
    /\ nextSeq <= MaxPublish
    /\ nextSeq' = nextSeq + 1
    /\ \E lo \in oldest .. nextSeq :
          /\ Fits(lo, nextSeq) /\ \A k \in oldest .. lo - 1 : ~Fits(k, nextSeq)
          /\ oldest' = lo
    /\ UNCHANGED <<epoch, server, wire, tab, cuts, watches>>

\* start_from: whether the messages after the given id can be replayed.
Replayable(id) == id[1] = epoch /\ id[2] <= Current /\ id[2] + 1 >= oldest

\* EventHub::subscribe, under the window's lock: a tab without an id gets
\* what comes from now on.  The hello that follows carries the newest id.
HubConnect(t) ==
    /\ server[t].pc = "off"
    /\ LET id == tab[t].id
           first == id = NoId
           ok == first \/ Replayable(id)
           from == IF first THEN Current ELSE id[2]
       IN server' = [server EXCEPT ![t] =
             [Off EXCEPT !.pc = "hello", !.at = nextSeq, !.reset = ~ok,
                         !.since = IF ok THEN from ELSE 0,
                         !.rest = IF ok THEN {n \in Kept : n > from} ELSE {}]]
    /\ Send(t, "hello", Current)
    /\ UNCHANGED <<hub, tab, cuts, watches>>

\* Engine::subscribe then sends the notice, or what Subscription::replay()
\* leaves of the kept messages.
HubStart(t) ==
    /\ server[t].pc = "hello" /\ Room(t)
    /\ IF server[t].reset
       THEN /\ Send(t, "resnapshot", server[t].at - 1)
            /\ server' = [server EXCEPT ![t].pc = "live", ![t].reset = FALSE,
                                          ![t].sent = <<"resnapshot", server[t].at - 1>>]
       ELSE /\ server' = [server EXCEPT ![t].pc = "replay", ![t].chosen = server[t].watch,
                              ![t].rest = {n \in @ : Wanted(t, n)}]
            /\ UNCHANGED wire
    /\ UNCHANGED <<hub, tab, cuts, watches>>
HubReplay(t) ==
    /\ server[t].pc = "replay"
    /\ IF server[t].rest = {}
       THEN server' = [server EXCEPT ![t].pc = "live", ![t].chosen = FALSE] /\ UNCHANGED wire
       ELSE /\ Room(t)
            /\ \E n \in server[t].rest :
                  /\ \A m \in server[t].rest : n <= m
                  /\ Send(t, "message", n)
                  /\ server' = [server EXCEPT ![t].rest = @ \ {n}, ![t].since = n,
                                                ![t].sent = <<"message", n>>]
    /\ UNCHANGED <<hub, tab, cuts, watches>>

\* Subscription::next: the next message, unless the channel has dropped it.
Lagging(t) == nextSeq - server[t].at > TabQueue
HubNext(t) ==
    /\ server[t].pc = "live" /\ server[t].at < nextSeq /\ ~Lagging(t)
    /\ IF Wanted(t, server[t].at)
       THEN Room(t) /\ Send(t, "message", server[t].at) ELSE UNCHANGED wire
    /\ server' = [server EXCEPT ![t].at = @ + 1,
                      ![t].sent = IF Wanted(t, server[t].at) THEN <<"message", server[t].at>> ELSE @]
    /\ UNCHANGED <<hub, tab, cuts, watches>>

\* After a lag the channel goes on with the oldest message it has.
HubLags_silently(t) ==
    /\ server[t].pc = "live" /\ Lagging(t)
    /\ server' = [server EXCEPT ![t].at = nextSeq - TabQueue]
    /\ UNCHANGED <<hub, wire, tab, cuts, watches>>
HubLags(t) ==
    /\ server[t].pc = "live" /\ Lagging(t) /\ Room(t)
    /\ server' = [server EXCEPT ![t].at = nextSeq, ![t].sent = <<"resnapshot", Current>>]
    /\ Send(t, "resnapshot", Current)
    /\ UNCHANGED <<hub, tab, cuts, watches>>

\* EventHub::watch, once the tab knows its stream's name.
HubWatch(t) ==
    /\ server[t].pc # "off" /\ tab[t].hello /\ watches < MaxWatches
    /\ server' = [server EXCEPT ![t].watch = ~@]
    /\ watches' = watches + 1
    /\ UNCHANGED <<hub, wire, tab, cuts>>

\* The client takes over every id it reads.  A hello brings nothing, but the
\* first one says where the snapshots the app has fetched belong.
TabReads(t) ==
    /\ wire[t] # <<>>
    /\ LET m == Head(wire[t]) IN
       tab' = [tab EXCEPT ![t] = [id |-> m.id, hello |-> TRUE,
                                  got |-> IF m.kind = "hello" /\ @.id # NoId THEN @.got ELSE m.id]]
    /\ wire' = [wire EXCEPT ![t] = Tail(@)]
    /\ UNCHANGED <<hub, server, cuts, watches>>

\* The connection breaks, or its session ends.
TabCut(t) ==
    /\ server[t].pc # "off" /\ cuts < MaxCuts
    /\ server' = [server EXCEPT ![t] = Off]
    /\ wire' = [wire EXCEPT ![t] = <<>>]
    /\ tab' = [tab EXCEPT ![t].hello = FALSE]
    /\ cuts' = cuts + 1
    /\ UNCHANGED <<hub, watches>>

HubRestart ==
    /\ cuts < MaxCuts /\ cuts' = cuts + 1
    /\ epoch' = epoch + 1 /\ nextSeq' = 1 /\ oldest' = 1
    /\ server' = [t \in Tabs |-> Off] /\ wire' = [t \in Tabs |-> <<>>]
    /\ tab' = [t \in Tabs |-> [tab[t] EXCEPT !.hello = FALSE]]
    /\ UNCHANGED watches

HubInit ==
    /\ epoch = 1 /\ nextSeq = 1 /\ oldest = 1
    /\ server = [t \in Tabs |-> Off] /\ wire = [t \in Tabs |-> <<>>]
    /\ tab = [t \in Tabs |-> [id |-> NoId, hello |-> FALSE, got |-> NoId]]
    /\ cuts = 0 /\ watches = 0

Serves(t) == HubStart(t) \/ HubReplay(t) \/ HubNext(t) \/ HubLags(t)
HubSteps ==
    \/ HubPublish \/ HubRestart
    \/ \E t \in Tabs : HubConnect(t) \/ Serves(t) \/ HubWatch(t) \/ TabReads(t) \/ TabCut(t)

HubSpec ==
    /\ HubInit /\ [][HubSteps]_hubVars
    /\ \A t \in Tabs : WF_hubVars(Serves(t)) /\ WF_hubVars(TabReads(t))

-----------------------------------------------------------------------------
(* Properties.                                                             *)

Ids == Nat \X Nat
Subscriptions ==
    [pc : {"off", "hello", "replay", "live"}, since : Nat, reset : BOOLEAN, rest : SUBSET (1 .. Current),
     at : 1 .. nextSeq, watch : BOOLEAN, chosen : BOOLEAN,
     sent : {<<>>} \cup ({"message", "resnapshot"} \X Nat)]

\* Every variable has its type; the window ends at the newest message and is
\* not empty once there is one, and what is on its way to a tab fits.
HubTypeOK ==
    /\ epoch \in Nat /\ nextSeq \in 1 .. MaxPublish + 1 /\ oldest \in 1 .. nextSeq
    /\ nextSeq > 1 => oldest < nextSeq
    /\ server \in [Tabs -> Subscriptions]
    /\ wire \in [Tabs -> Seq([kind : {"hello", "message", "resnapshot"}, id : Ids])]
    /\ \A t \in Tabs : Len(wire[t]) <= Wire /\ (server[t].pc = "off" => wire[t] = <<>>)
    /\ tab \in [Tabs -> [id : Ids, hello : BOOLEAN, got : Ids]]

\* Between its opening and its receiver's place a stream still has to replay
\* exactly the messages its tab wanted when the replay began: nothing the
\* window gave up since, nothing twice, and a notice that is owed is the
\* first thing to be sent (subscribe, replay, next).
Pending(s) == s.since + 1 .. s.at - 1
Exact(s) ==
    /\ s.reset => s.pc = "hello" /\ s.since = 0
    /\ s.pc = "hello" /\ ~s.reset => s.since < s.at /\ s.rest = Pending(s)
    /\ s.pc = "replay" => s.since < s.at /\ s.rest = {n \in Pending(s) : IsEvent(n) => s.chosen}
ReplayExact == \A t \in Tabs : Exact(server[t])
HubInv == HubTypeOK /\ ReplayExact

\* What a tab's stream has covered: the place it was opened at, the message
\* replayed last, and once nothing is left to replay the message before the
\* receiver's.
Upto(s) ==
    CASE s.pc = "off" -> 0
      [] s.pc = "hello" \/ (s.pc = "replay" /\ s.rest # {}) -> s.since
      [] OTHER -> s.at - 1

\* A replay goes by what its tab watched when it began.
Watching(s) == IF s.pc = "replay" THEN s.chosen ELSE s.watch

Stream == INSTANCE LiveStream WITH
    published <- Current,
    upto <- [t \in Tabs |-> Upto(server[t])],
    owed <- [t \in Tabs |-> server[t].reset],
    open <- [t \in Tabs |-> server[t].pc # "off"],
    watching <- [t \in Tabs |-> Watching(server[t])],
    sent <- [t \in Tabs |-> server[t].sent]

\* The hub implements LiveStream: over replay, live messages, eviction from
\* the window, lag and restarts, a stream sends every message after the place
\* it was opened at or a notice, and does not stop while its tab is behind.
HubStreams == Stream!StreamSpec

\* After a disconnect "the server replays what was missed, or tells the app to
\* fetch fresh snapshots" (design/ARCHITECTURE.md:405-407): a stream that
\* opens without a notice begins no later than what its tab has got.
MissedIsReplayed ==
    [][\A t \in Tabs :
          HubConnect(t) /\ tab[t].id # NoId /\ ~server'[t].reset =>
              tab[t].got[1] = epoch /\ server'[t].since <= tab[t].got[2]]_hubVars

=============================================================================
