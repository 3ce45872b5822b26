-------------------------------- MODULE Mesh --------------------------------
(***************************************************************************)
(* The copies of one host's records on every host (mesh/mod.rs,            *)
(* mesh/catchup.rs, store.rs, records/): the live stream that each peer    *)
(* pulls from the origin, catch-up with any peer, and retention by age     *)
(* (what leaves for space keeps its row).  A record is <<stream,           *)
(* sequence>>; the streams are numbered in the order in which the origin's *)
(* bmacd began them.                                                       *)
(***************************************************************************)
EXTENDS Integers, Sequences, FiniteSets, FiniteSetsExt, Functions

CONSTANTS MHosts,       \* the members
          Origin,       \* the member whose records are followed
          Linked,       \* the hosts that reach the origin for its stream
          Catching,     \* the hosts that catch up
          Failing,      \* the hosts whose bmacd may stop
          MaxRounds,    \* bounds the rounds of catch-up at a time
          MaxStreams,   \* bounds the starts of its bmacd
          MaxSeq,       \* bounds the records of a stream
          MaxRecords,   \* bounds the records of all streams
          Page,         \* PAGE and FETCH: records read at a time
          Channel,      \* the capacity of the broadcast of appended records
          Wire,         \* the frames in flight on a link
          Keep,         \* Policy::keep_days
          MaxNow,       \* bounds the clock
          MaxMeshTroubles

ASSUME MeshAssumption ==
    /\ Origin \in MHosts /\ MaxStreams \in Nat \ {0} /\ MaxSeq \in Nat
    /\ Page \in Nat \ {0} /\ Channel \in Nat /\ Keep \in Nat

VARIABLES rows,      \* host -> the records its bmac.db has a row of, evicted ones too
          floors,    \* host -> streams.floor, NoRow for a stream it does not know
          keepFrom,  \* host -> Inner::keep_from_ms
          up,        \* the hosts whose bmacd runs
          current,   \* the origin's stream, the last that was begun
          started,   \* stream -> streams.started_ms
          chain,     \* stream -> the records appended to it
          stamps,    \* record -> time_ms
          link,      \* host -> its link to the origin
          round,     \* host -> its round of catch-up
          ever,      \* host -> what its database has held (history)
          mnow, mtroubles

meshVars == <<rows, floors, keepFrom, up, current, started, chain, stamps, link, round, ever, mnow, mtroubles>>
dbVars == <<rows, floors, ever>>
originVars == <<current, started, chain, stamps>>

Streams == 1 .. MaxStreams
Records == Streams \X (1 .. MaxSeq)
NoRow == -1

\* A link: what the origin has still to read for it, a number after which for
\* each stream; last and the position of the receiver; the pages in flight.
\* owed and from are what it was opened for (history).
Link(plan, last, cursor, wire, owed, from) ==
    [on |-> TRUE, plan |-> plan, last |-> last, cursor |-> cursor, wire |-> wire, owed |-> owed, from |-> from]
NoLink == [Link({}, 0, 0, <<>>, {}, <<0, 0>>) EXCEPT !.on = FALSE]

\* A round: the peer, the holdings to look at, the stream it is at and its
\* ranges to fetch; what the peer held when it began (history), and whether an
\* error cut a range short.
Round(peer, todo, stream, ranges, seen, cut) ==
    [on |-> TRUE, peer |-> peer, todo |-> todo, stream |-> stream, ranges |-> ranges, seen |-> seen, cut |-> cut]
NoRound == [Round(0, {}, 0, {}, {}, FALSE) EXCEPT !.on = FALSE]

MeshTrouble == mtroubles < MaxMeshTroubles /\ mtroubles' = mtroubles + 1

SeqsOf(h, s) == {q \in 1 .. MaxSeq : <<s, q>> \in rows[h]}
LastSeq(h, s) == Max(SeqsOf(h, s) \cup {0})
StreamsOf(h) == {s \in Streams : floors[h][s] # NoRow}
Newest(S) == CHOOSE s \in S : \A t \in S : started[t] <= started[s]
Oldest(s, S) == \A x \in S : started[s] <= started[x[1]]
Appended == FoldFunction(+, 0, chain)

MeshInit ==
    /\ rows = [h \in MHosts |-> {}]
    /\ floors = [h \in MHosts |-> [s \in Streams |-> IF h = Origin /\ s = 1 THEN 0 ELSE NoRow]]
    /\ keepFrom = [h \in MHosts |-> 0]
    /\ up = MHosts
    /\ current = 1 /\ started = <<2>>
    /\ chain = [s \in Streams |-> 0]
    /\ stamps = [r \in Records |-> 0]
    /\ link = [h \in MHosts |-> NoLink] /\ round = [h \in MHosts |-> NoRound]
    /\ ever = [h \in MHosts |-> {}]
    /\ mnow = 0 /\ mtroubles = 0

-----------------------------------------------------------------------------
(* The store.                                                              *)

\* Store::append: the origin's own records.  An entry carries the time of
\* what it tells of, which may lie back.
Append1(t) ==
    /\ Origin \in up /\ chain[current] < MaxSeq
    /\ Appended < MaxRecords
    /\ LET r == <<current, chain[current] + 1>> IN
       /\ chain' = [chain EXCEPT ![current] = @ + 1]
       /\ stamps' = [stamps EXCEPT ![r] = t]
       /\ rows' = [rows EXCEPT ![Origin] = @ \cup {r}]
       /\ ever' = [ever EXCEPT ![Origin] = @ \cup {r}]
    /\ UNCHANGED <<floors, keepFrom, up, current, started, link, round, mnow, mtroubles>>

\* read_records: the records of a stream after a number up to another, which
\* is a page if no more than n, and all there are unless n.
Between(p, s, after, upto) == {<<s, q>> : q \in {x \in SeqsOf(p, s) : after < x /\ x <= upto}}
IsPage(p, s, after, upto, n) ==
    /\ upto = after \/ (upto > after /\ upto \in SeqsOf(p, s))
    /\ Cardinality(Between(p, s, after, upto)) <= n
    /\ Cardinality(Between(p, s, after, upto)) < n => \A q \in SeqsOf(p, s) : q <= upto

\* insert_copies: what is held, was deleted for age or would be is skipped.
Refused(h, r) == r[2] <= floors[h][r[1]] \/ stamps[r] < keepFrom[h]
Inserted_belowFloor(h, copies) ==
    LET recs == {r \in copies \ rows[h] : stamps[r] >= keepFrom[h]} IN
    /\ rows' = [rows EXCEPT ![h] = @ \cup recs]
    /\ ever' = [ever EXCEPT ![h] = @ \cup recs]
    /\ floors' = [floors EXCEPT ![h] = [s \in Streams |->
                    IF @[s] = NoRow /\ \E r \in recs : r[1] = s THEN 0 ELSE @[s]]]
Inserted(h, copies) ==
    LET recs == {r \in copies \ rows[h] : ~Refused(h, r)} IN
    /\ rows' = [rows EXCEPT ![h] = @ \cup recs]
    /\ ever' = [ever EXCEPT ![h] = @ \cup recs]
    /\ floors' = [floors EXCEPT ![h] = [s \in Streams |->
                    IF @[s] = NoRow /\ \E r \in recs : r[1] = s THEN 0 ELSE @[s]]]

\* retention::enforce: records before the cutoff leave with all before them
\* in their stream.  What is evicted for space keeps its row.
Floor(h, s, cutoff) ==
    Max({floors[h][s]} \cup {q \in SeqsOf(h, s) : stamps[<<s, q>>] < cutoff})
Enforce(h) ==
    /\ h \in up
    /\ LET cutoff == IF mnow > Keep THEN mnow - Keep ELSE 0 IN
       /\ keepFrom' = [keepFrom EXCEPT ![h] = cutoff]
       /\ \/ /\ rows' = [rows EXCEPT ![h] = {r \in @ : r[2] > Floor(h, r[1], cutoff)}]
             /\ floors' = [floors EXCEPT ![h] = [s \in Streams |-> Floor(h, s, cutoff)]]
             /\ UNCHANGED mtroubles
          \/ MeshTrouble /\ UNCHANGED <<rows, floors>>
    /\ <<rows, floors, keepFrom>>' # <<rows, floors, keepFrom>>
    /\ UNCHANGED <<up, originVars, link, round, ever, mnow>>

-----------------------------------------------------------------------------
(* The live stream: pull on the peer's side, feed on the origin's.         *)

Tell(h, l) == link' = [link EXCEPT ![h] = l]
LinkOnly == UNCHANGED <<dbVars, keepFrom, up, originVars, round, mnow>>

\* The peer asks for the newest stream it knows, after the last record it
\* holds; the origin finishes that stream and sends its later ones from the
\* start, or only the current one if it does not know what was asked for or
\* cannot read.  It subscribes to what is appended from now on first.
Later(s) == {t \in StreamsOf(Origin) : started[t] > started[s]}
OnlyCurrent == {<<current, 0>>}
Replays(h) ==
    LET asked == Newest(StreamsOf(h)) IN
    IF StreamsOf(h) # {} /\ asked \in StreamsOf(Origin)
      THEN {<<asked, LastSeq(h, asked)>>} \cup {<<t, 0>> : t \in Later(asked)}
      ELSE OnlyCurrent
Covers(plan, r) == \E item \in plan : r[1] = item[1] /\ r[2] > item[2]
EndsWithCurrent(plan) == (\E item \in plan : item[1] = current)
                         /\ \A item \in plan : started[item[1]] <= started[current]
LinkOpens(h) ==
    /\ h \in Linked \cap up /\ Origin \in up /\ ~link[h].on
    /\ \E plan \in {Replays(h), OnlyCurrent} :
       /\ IF plan = Replays(h) THEN UNCHANGED mtroubles ELSE MeshTrouble
       /\ Tell(h, Link(plan, 0, chain[current], <<>>, {r \in rows[Origin] : Covers(plan, r)},
                       IF EndsWithCurrent(plan) THEN <<current, chain[current]>> ELSE <<0, 0>>))
    /\ LinkOnly

\* send_from: the records of a stream a page at a time, until one is not full
\* or cannot be read; then the link owes nothing.
Sent(wire, page) == IF page = {} THEN wire ELSE Append(wire, page)
SendsPage(h) ==
    LET l == link[h] IN
    /\ l.on /\ Len(l.wire) < Wire
    /\ \E item \in l.plan :
       /\ Oldest(item[1], l.plan)
       /\ \/ \E upto \in {item[2]} \cup SeqsOf(Origin, item[1]) :
             LET page == Between(Origin, item[1], item[2], upto)
                 more == IF Cardinality(page) = Page THEN {<<item[1], upto>>} ELSE {} IN
             /\ IsPage(Origin, item[1], item[2], upto, Page)
             /\ Tell(h, Link((l.plan \ {item}) \cup more, upto, l.cursor, Sent(l.wire, page), l.owed, l.from))
             /\ UNCHANGED mtroubles
          \/ /\ Tell(h, Link(l.plan \ {item}, item[2], l.cursor, l.wire, {}, <<0, 0>>))
             /\ MeshTrouble
    /\ LinkOnly

\* The live loop of feed: a record that follows the last one sent goes out as
\* it is; after a gap or a lag the store is read from the last one sent.
Resend(l, cursor) == Link({<<current, l.last>>}, l.last, cursor, l.wire, l.owed, l.from)
Lags(l) == chain[current] - l.cursor > Channel
SendsLive(h) ==
    LET l == link[h]
        next == l.cursor + 1
    IN /\ l.on /\ l.plan = {} /\ l.cursor < chain[current] /\ Len(l.wire) < Wire
       /\ \/ Lags(l) /\ Tell(h, Resend(l, chain[current] - Channel))
          \/ ~Lags(l) /\ next <= l.last /\ Tell(h, Link({}, l.last, next, l.wire, l.owed, l.from))
          \/ ~Lags(l) /\ next = l.last + 1
             /\ Tell(h, Link({}, next, next, Append(l.wire, {<<current, next>>}), l.owed, l.from))
          \/ ~Lags(l) /\ next > l.last + 1 /\ Tell(h, Resend(l, next))
       /\ LinkOnly /\ UNCHANGED mtroubles

\* store_copies of what arrived.
Received(wire, r) == IF Head(wire) = {r} THEN Tail(wire) ELSE <<Head(wire) \ {r}>> \o Tail(wire)
Receives(h) ==
    LET l == link[h] IN
    /\ l.on /\ l.wire # <<>>
    /\ \E r \in Head(l.wire) :
       /\ \A o \in Head(l.wire) : r[2] <= o[2]
       /\ Inserted(h, {r})
       /\ Tell(h, Link(l.plan, l.last, l.cursor, Received(l.wire, r), l.owed, l.from))
    /\ UNCHANGED <<keepFrom, up, originVars, round, mnow, mtroubles>>

\* The connection breaks, falls silent, or the peer cannot store what came.
LinkBreaks(h) == link[h].on /\ MeshTrouble /\ Tell(h, NoLink) /\ LinkOnly

-----------------------------------------------------------------------------
(* Catch-up: catch_up_with, for every origin a peer knows.                 *)

Turns(h, r) == round' = [round EXCEPT ![h] = r]
RoundOnly == UNCHANGED <<keepFrom, up, originVars, link, mnow>>

\* stream_holdings: a stream with its first and last record there.
HoldingOf(p, s) == <<s, Min(SeqsOf(p, s)), LastSeq(p, s)>>

\* The peer's holdings, and the streams worth looking at.
Worth(h, p) ==
    {s \in Streams : /\ SeqsOf(p, s) # {}
                     /\ \E q \in SeqsOf(p, s) : stamps[<<s, q>>] >= keepFrom[h]
                     /\ ~(h = Origin /\ s = current)}
RoundStarts(h, p) ==
    /\ h \in Catching \cap up /\ p \in up \ {h} /\ ~round[h].on
    /\ Cardinality({g \in MHosts : round[g].on}) < MaxRounds
    /\ \E s \in Streams : SeqsOf(p, s) # {}
    /\ Turns(h, Round(p, {HoldingOf(p, s) : s \in Worth(h, p)}, 0, {}, rows[p], FALSE))
    /\ RoundOnly /\ UNCHANGED <<dbVars, mtroubles>>

\* missing_ranges: what this host lacks of a stream from lo to hi, above the
\* floor; of each run the number before it and its last one.
Lack(h, s, lo, hi) == {q \in lo .. hi : q > floors[h][s] /\ q \notin SeqsOf(h, s)}
Missing(h, s, lo, hi) ==
    LET lack == Lack(h, s, lo, hi)
        runs == {x \in lack \X lack : /\ x[1] <= x[2] /\ x[1] .. x[2] \subseteq lack
                                      /\ {x[1] - 1, x[2] + 1} \cap lack = {}}
    IN {<<x[1] - 1, x[2]>> : x \in runs}
RoundStream(h) ==
    LET r == round[h] IN
    /\ r.on /\ r.ranges = {}
    /\ \E held \in r.todo :
       /\ Oldest(held[1], r.todo)
       /\ Turns(h, Round(r.peer, r.todo \ {held}, held[1], Missing(h, held[1], held[2], held[3]), r.seen, r.cut))
    /\ RoundOnly /\ UNCHANGED <<dbVars, mtroubles>>

\* serve_records and store_copies: a page after what was fetched last.  An
\* empty page ends the range, and so does an error of the own store.
Rest_onePage(range, last) == {}
Rest(range, last) == IF last < range[2] THEN {<<last, range[2]>>} ELSE {}
RoundFetches(h) ==
    LET r == round[h] IN
    /\ r.on
    /\ \E range \in r.ranges : \E upto \in {range[1]} \cup SeqsOf(r.peer, r.stream) :
       LET left == range[2] - range[1]
           page == Between(r.peer, r.stream, range[1], upto)
           rest == IF page = {} THEN {} ELSE Rest(range, upto) IN
       /\ \A o \in r.ranges : range[1] <= o[1]
       /\ IsPage(r.peer, r.stream, range[1], upto, IF left < Page THEN left ELSE Page)
       /\ \/ /\ Inserted(h, {c \in page : c[2] <= range[2]}) /\ UNCHANGED mtroubles
             /\ Turns(h, Round(r.peer, r.todo, r.stream, (r.ranges \ {range}) \cup rest, r.seen, r.cut))
          \/ /\ page # {} /\ MeshTrouble /\ UNCHANGED dbVars
             /\ Turns(h, Round(r.peer, r.todo, r.stream, r.ranges \ {range}, r.seen, TRUE))
    /\ RoundOnly

Through(r) == r.on /\ r.todo = {} /\ r.ranges = {}
RoundEnds(h) ==
    /\ round[h].on
    /\ \/ Through(round[h]) /\ UNCHANGED mtroubles
       \/ ~Through(round[h]) /\ MeshTrouble
    /\ Turns(h, NoRound) /\ RoundOnly /\ UNCHANGED dbVars

-----------------------------------------------------------------------------
(* The hosts.                                                              *)

\* What a host kept in memory, and every connection to it, ends with bmacd.
Stop(h) ==
    /\ h \in Failing \cap up /\ MeshTrouble
    /\ up' = up \ {h}
    /\ keepFrom' = [keepFrom EXCEPT ![h] = 0]
    /\ link' = [g \in MHosts |-> IF h \in {g, Origin} THEN NoLink ELSE link[g]]
    /\ round' = [g \in MHosts |-> IF h \in {g, round[g].peer} THEN NoRound ELSE round[g]]
    /\ UNCHANGED <<dbVars, originVars, mnow>>

\* Store::open begins a stream; the clock may have been set back since the
\* stream before it began.
Start(h) ==
    /\ h \in MHosts \ up
    /\ up' = up \cup {h}
    /\ IF h = Origin
         THEN /\ current < MaxStreams /\ current' = current + 1
              /\ floors' = [floors EXCEPT ![h][current + 1] = 0]
              /\ \E t \in {2 * current + 2, 2 * current - 1} : started' = Append(started, t)
         ELSE UNCHANGED <<current, floors, started>>
    /\ UNCHANGED <<rows, keepFrom, chain, stamps, link, round, ever, mnow, mtroubles>>

\* A host is installed afresh under its name.
Rebuild(h) ==
    /\ h \in MHosts \ up /\ ever[h] # {}
    /\ rows' = [rows EXCEPT ![h] = {}]
    /\ floors' = [floors EXCEPT ![h] = [s \in Streams |-> NoRow]]
    /\ ever' = [ever EXCEPT ![h] = {}]
    /\ UNCHANGED <<keepFrom, up, originVars, link, round, mnow, mtroubles>>

Passes ==
    /\ mnow < MaxNow /\ mnow' = mnow + 1
    /\ UNCHANGED <<dbVars, keepFrom, up, originVars, link, round, mtroubles>>

MeshNext ==
    \/ \E t \in 0 .. mnow : Append1(t)
    \/ Passes
    \/ \E h \in MHosts :
        \/ Enforce(h)
        \/ LinkOpens(h) \/ SendsPage(h) \/ SendsLive(h) \/ Receives(h) \/ LinkBreaks(h)
        \/ \E p \in MHosts : RoundStarts(h, p)
        \/ RoundStream(h) \/ RoundFetches(h) \/ RoundEnds(h)
        \/ Stop(h) \/ Start(h) \/ Rebuild(h)

MeshSpec == MeshInit /\ [][MeshNext]_meshVars

-----------------------------------------------------------------------------
(* Properties.                                                             *)

\* The variables' types.
Links == [on : BOOLEAN, plan : SUBSET (Streams \X (0 .. MaxSeq)), last : 0 .. MaxSeq, cursor : 0 .. MaxSeq,
          wire : Seq(SUBSET Records), owed : SUBSET Records, from : ({0} \cup Streams) \X (0 .. MaxSeq)]
Rounds == [on : BOOLEAN, peer : {0} \cup MHosts, todo : SUBSET (Streams \X (1 .. MaxSeq) \X (1 .. MaxSeq)),
           stream : {0} \cup Streams, ranges : SUBSET ((0 .. MaxSeq) \X (1 .. MaxSeq)),
           seen : SUBSET Records, cut : BOOLEAN]
MeshTypeOK ==
    /\ rows \in [MHosts -> SUBSET Records] /\ ever \in [MHosts -> SUBSET Records]
    /\ floors \in [MHosts -> [Streams -> {NoRow} \cup 0 .. MaxSeq]]
    /\ keepFrom \in [MHosts -> Nat] /\ mnow \in Nat
    /\ up \subseteq MHosts /\ current \in Streams
    /\ started \in Seq(Int) /\ Len(started) = current
    /\ chain \in [Streams -> 0 .. MaxSeq] /\ stamps \in [Records -> Nat]
    /\ link \in [MHosts -> Links] /\ round \in [MHosts -> Rounds]

\* A record is of a stream that was begun and was appended to it; the streams
\* began at different times; a row that is gone is at or below the floor.
RowsAreAppended ==
    /\ \A s \in Streams : s > current => chain[s] = 0
    /\ \A s \in 1 .. current : started[s] \in {2 * s, 2 * s - 3}
    /\ \A h \in MHosts : /\ rows[h] \subseteq ever[h]
                         /\ keepFrom[h] = 0 \/ keepFrom[h] <= mnow - Keep
                         /\ \A r \in ever[h] : r[2] <= chain[r[1]]
                         /\ \A r \in ever[h] \ rows[h] : r[2] <= floors[h][r[1]]
                         /\ \A s \in Streams : floors[h][s] # NoRow => s <= current
    /\ Origin \in up => \A q \in 1 .. chain[current] : <<current, q>> \in ever[Origin]

\* A round accounts for what the peer held when it began and still holds: it
\* is here, or refused here, or in a holding or a range still to be read.
Done(h, r) == r \in rows[h] \/ Refused(h, r)
Ahead(w, r) == \/ \E held \in w.todo : r[1] = held[1] /\ held[2] <= r[2] /\ r[2] <= held[3]
               \/ r[1] = w.stream /\ \E range \in w.ranges : range[1] < r[2] /\ r[2] <= range[2]
RoundAccounts(h, w) ==
    w.on => /\ {h, w.peer} \subseteq up /\ w.seen \subseteq ever[w.peer]
            /\ \A range \in w.ranges : range[1] < range[2]
            /\ w.ranges # {} => w.stream # 0
            /\ ~w.cut => \A r \in w.seen \cap rows[w.peer] :
                            Done(h, r) \/ (h = Origin /\ r[1] = current) \/ Ahead(w, r)

\* A link accounts for what it was opened for: a record is at the peer, or
\* refused there, or in flight, or will be read or broadcast.
InFlight(l, r) == \E i \in 1 .. Len(l.wire) : r \in l.wire[i]
Promised(l, r) == r[1] = l.from[1] /\ r[2] > l.from[2]
LinkAccounts(h, l) ==
    l.on => /\ {h, Origin} \subseteq up /\ l.cursor <= chain[current]
            /\ \A item \in l.plan : item[1] <= current
            /\ l.owed \subseteq ever[Origin]
            /\ \A r \in Records : InFlight(l, r) => r[2] <= chain[r[1]]
            /\ \A r \in l.owed \cap rows[Origin] : Done(h, r) \/ InFlight(l, r) \/ Covers(l.plan, r)
            /\ l.from[1] # 0 =>
                /\ l.from[1] = current
                /\ l.plan # {} => EndsWithCurrent(l.plan)
                /\ \A item \in l.plan : item[1] = current => item[2] <= chain[current]
                /\ l.plan = {} => l.last <= chain[current]
                /\ \A r \in rows[Origin] : Promised(l, r) =>
                    \/ Done(h, r) \/ InFlight(l, r) \/ Covers(l.plan, r)
                    \/ l.plan = {} /\ r[2] > l.last /\ r[2] > l.cursor

\* Every host's round and link accounts for all of it, whatever came between.
MeshInv ==
    /\ MeshTypeOK /\ RowsAreAppended
    /\ \A h \in MHosts : RoundAccounts(h, round[h]) /\ LinkAccounts(h, link[h])

\* A round of catch-up that came through leaves no hole: what the peer held
\* when it began, and still holds, is here too, unless retention deleted it or
\* would ("a gap is filled from any peer that has it", MONITORING.md:393).
\* Meanwhile the peer, this host and the origin append, receive and delete.
RoundLeavesNoHole ==
    \A h \in MHosts : Through(round[h]) /\ ~round[h].cut =>
        \A r \in round[h].seen \cap rows[round[h].peer] :
            Done(h, r) \/ (h = Origin /\ r[1] = current)

\* A link that has sent all there is left nothing out: every record after the
\* point that was asked for, of that stream and of the later ones, is on the
\* peer, however appends, lags and pages fell together (feed).
LinkLeavesNoGap ==
    \A h \in MHosts :
        LET l == link[h] IN
        l.on /\ l.plan = {} /\ l.wire = <<>> /\ l.cursor = chain[current] =>
            \A r \in rows[Origin] :
                r \in l.owed \/ Promised(l, r) => Done(h, r)

\* Copies are complete where a link or a round of catch-up has come through.
CopiesComplete == RoundLeavesNoHole /\ LinkLeavesNoGap

\* A database takes a record once: what is held is not stored or shown again,
\* and what was deleted for age "is never copied back" (records/retention.rs).
StoredOnce ==
    [][\A h \in MHosts : (rows'[h] \ rows[h]) \cap ever[h] = {}]_meshVars
=============================================================================
