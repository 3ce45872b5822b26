-------------------------- MODULE ApplianceProofs --------------------------
(***************************************************************************)
(* For any PITs, branches and volumes: what the appliance has published    *)
(* can be restored, what is streamed out stays, and a prune spares what is *)
(* pinned, although a pull transfers and a grant is given while the lock   *)
(* of the journal is free and bmac-backupd may die at any step.            *)
(*                                                                         *)
(* The inductive invariant is JournalInv with PublishedIsWhole and         *)
(* StreamedStays.  The heart of the argument is that no step destroys a    *)
(* snapshot that is held, except a prune's, which gives up its own hold on *)
(* a doomed PIT; and that what is doomed is neither pinned nor being       *)
(* published, because pulls and prunes read the journal under its lock.    *)
(***************************************************************************)
EXTENDS Appliance, WellFoundedInduction, TLAPS

Inv == JournalInv /\ PublishedIsWhole /\ StreamedStays

-----------------------------------------------------------------------------
(* Records.                                                                *)

\* The steps of a pull.
PullPcs == {"idle", "look", "forget", "transfer", "mark", "publish", "quarantine"}

\* A pull at another step is otherwise the same.
LEMMA PullGoes ==
  ASSUME NEW r \in Pulls, NEW pc \in PullPcs
  PROVE  /\ [r EXCEPT !.pc = pc] \in Pulls
         /\ [r EXCEPT !.pc = pc].pc = pc /\ [r EXCEPT !.pc = pc].pit = r.pit
         /\ [r EXCEPT !.pc = pc].base = r.base /\ [r EXCEPT !.pc = pc].vols = r.vols
<1>1. [r EXCEPT !.pc = pc] \in Pulls
  BY DEF Pulls, PullPcs
<1> QED BY <1>1 DEF Pulls

\* No pull and no receive.
LEMMA NoPullFacts ==
  /\ NoPull \in Pulls /\ NoPull.pc = "idle"
  /\ NoReceiving \in Receivings /\ NoReceiving.pit = None /\ NoReceiving.base = None
  /\ NoReceiving.vols = <<>>
  BY DEF NoPull, Pulls, NoReceiving, Receivings, Layouts

\* A journal with another receive is otherwise the same.
LEMMA JournalReceives ==
  ASSUME NEW P, NEW j \in Journals(P), NEW r \in Receivings
  PROVE  /\ [j EXCEPT !.receiving = r] \in Journals(P)
         /\ [j EXCEPT !.receiving = r].receiving = r
         /\ [j EXCEPT !.receiving = r].pits = j.pits
         /\ [j EXCEPT !.receiving = r].quarantined = j.quarantined
<1>1. [j EXCEPT !.receiving = r] \in Journals(P)
  BY DEF Journals
<1> QED BY <1>1 DEF Journals

\* The parts of a journal.
LEMMA JournalFields ==
  ASSUME NEW P, NEW j \in Journals(P)
  PROVE  /\ j.pits \in [P -> Entries] /\ j.receiving \in Receivings
         /\ j.quarantined \subseteq Quarantines /\ DOMAIN j.pits = P
  BY DEF Journals

\* No prune.
LEMMA NoPruneFacts ==
  /\ NoPrune.pc = "idle" /\ NoPrune.pits = <<>> /\ DOMAIN NoPrune.pits = {}
  /\ NoPrune \in Prunes({})
<1>1. <<>> \in [{} -> Entries]
  OBVIOUS
<1>2. NoPrune \in Prunes({})
  BY <1>1 DEF NoPrune, Prunes
<1> QED BY <1>2 DEF NoPrune

\* Initially there is nothing.
LEMMA InitInv == Init => Inv
<1> SUFFICES ASSUME Init PROVE Inv
  OBVIOUS
<1>1. <<>> \in [{} -> Entries] /\ <<>> \in [{} -> Zvols] /\ DOMAIN <<>> = {}
  OBVIOUS
<1>2. journal \in Journals({}) /\ Published = {}
  BY <1>1, NoPullFacts DEF Init, Journals, Published
<1>3. exporter \in Exports
  BY DEF Init, NoExport, Exports
<1>4. TypeOK
  BY <1>1, <1>2, <1>3, NoPullFacts, NoPruneFacts DEF Init, TypeOK
<1>5. BaseIsThere /\ NewZvolsAreNew
  BY NoPullFacts DEF Init, BaseIsThere, NewZvolsAreNew
<1>6. Locked /\ PullAgrees /\ PruneAgrees
  BY NoPullFacts, NoPruneFacts DEF Init, Locked, PullAgrees, PruneAgrees, At
<1>7. PublishedIsWhole /\ StreamedStays
  BY <1>2 DEF PublishedIsWhole, StreamedStays, Init, NoExport
<1> QED BY <1>4, <1>5, <1>6, <1>7 DEF Inv, JournalInv

-----------------------------------------------------------------------------
(* What stays in the pool.                                                 *)

\* A snapshot that is held stays, unless a prune gave up its hold and struck
\* the PIT.
HeldStays ==
    \A z \in DOMAIN pool : \A s \in pool[z].snaps : \A t \in {"retain", "export"} :
        <<z, s.pit, t>> \in holds /\ (t = "export" \/ s.pit \notin struck' \cap Published) =>
            z \in DOMAIN pool' /\ s \in pool'[z].snaps
HoldsStay ==
    \A h \in holds : h \in holds' \/ (h[3] = "retain" /\ h[2] \in struck' \cap Published)
WholeNext(p, vols) ==
    /\ p \in manifests'
    /\ \A v \in Volumes :
          /\ vols[v] \in DOMAIN pool' /\ [pit |-> p, good |-> TRUE] \in pool'[vols[v]].snaps
          /\ <<vols[v], p, "retain">> \in holds'

\* A PIT that no prune strikes stays whole.
LEMMA WholeStays ==
  ASSUME HeldStays, HoldsStay, NEW p, NEW vols, p \notin struck' \cap Published, p \in manifests',
         Whole(p, vols)
  PROVE  WholeNext(p, vols)
<1> SUFFICES ASSUME NEW v \in Volumes
             PROVE  /\ vols[v] \in DOMAIN pool' /\ [pit |-> p, good |-> TRUE] \in pool'[vols[v]].snaps
                    /\ <<vols[v], p, "retain">> \in holds'
  BY DEF WholeNext
<1> DEFINE s == [pit |-> p, good |-> TRUE]
           h == <<vols[v], p, "retain">>
<1>1. vols[v] \in DOMAIN pool /\ s \in pool[vols[v]].snaps /\ h \in holds
  BY DEF Whole, Good
<1>2. s.pit = p /\ h[2] = p /\ h[3] = "retain"
  OBVIOUS
<1>3. h \in holds'
  BY <1>1, <1>2 DEF HoldsStay
<1>4. vols[v] \in DOMAIN pool' /\ s \in pool'[vols[v]].snaps
  BY <1>1, <1>2 DEF HeldStays
<1> QED BY <1>3, <1>4

\* What is streamed out stays.
LEMMA StreamsStay ==
  ASSUME TypeOK, StreamedStays, HeldStays, HoldsStay, exporter' = exporter PROVE StreamedStays'
<1> SUFFICES ASSUME exporter.pc = "streaming", NEW e \in exporter.snaps
             PROVE  (e[2] \in PitsOn(e[1]))' /\ <<e[1], e[2], "export">> \in holds'
  BY DEF StreamedStays
<1>1. e[2] \in PitsOn(e[1]) /\ <<e[1], e[2], "export">> \in holds
  BY DEF StreamedStays
<1>2. e[1] \in DOMAIN pool
  BY <1>1 DEF PitsOn
<1>3. PICK s \in pool[e[1]].snaps : s.pit = e[2]
  BY <1>1 DEF PitsOn
<1>4. e[1] \in DOMAIN pool' /\ s \in pool'[e[1]].snaps
  BY <1>1, <1>2, <1>3 DEF HeldStays
<1>5. <<e[1], e[2], "export">> \in holds'
  BY <1>1 DEF HoldsStay
<1> QED BY <1>3, <1>4, <1>5 DEF PitsOn

\* A pool nobody touches.
LEMMA PoolStays ==
  ASSUME UNCHANGED <<pool, holds>> PROVE HeldStays /\ HoldsStay
  BY DEF HeldStays, HoldsStay

\* What is published stays whole while the journal names the same PITs, or
\* fewer, and the manifests stay.
LEMMA PublishedStay ==
  ASSUME Inv, HeldStays, HoldsStay, Published' \subseteq Published,
         \A p \in Published' : journal'.pits[p] = journal.pits[p],
         \A p \in Published' \ struck' : p \notin struck /\ p \in manifests'
  PROVE  PublishedIsWhole'
<1> SUFFICES ASSUME NEW p \in Published' \ struck' PROVE Whole(p, journal.pits[p].vols)'
  BY DEF PublishedIsWhole
<1>1. Whole(p, journal.pits[p].vols)
  BY DEF Inv, PublishedIsWhole
<1>2. WholeNext(p, journal.pits[p].vols)
  BY <1>1, WholeStays
<1>3. journal'.pits[p] = journal.pits[p]
  OBVIOUS
<1> QED BY <1>2, <1>3 DEF WholeNext, Whole, Good

-----------------------------------------------------------------------------
(* Puller::pull.                                                           *)

\* A step of a pull that leaves the journal alone.
LEMMA PullFrame ==
  ASSUME Inv, UNCHANGED <<journal, grants, kept, pruner, exporter, struck, strays>>,
         pool' \in [DOMAIN pool' -> Zvols], DOMAIN pool' \subseteq Names,
         holds' \subseteq Names \X Pits \X {"retain", "export"},
         manifests \subseteq manifests', manifests' \subseteq Pits,
         puller' \in Pulls, HeldStays, HoldsStay, Locked', PullAgrees'
  PROVE  Inv'
<1> USE DEF Inv, JournalInv
<1>1. Published' = Published
  BY DEF Published
<1>2. TypeOK'
  BY <1>1 DEF TypeOK
<1>3. BaseIsThere' /\ NewZvolsAreNew' /\ PruneAgrees'
  BY <1>1 DEF BaseIsThere, NewZvolsAreNew, PruneAgrees, Taken
<1>4. PublishedIsWhole'
  <2>1. ASSUME NEW p \in Published' \ struck' PROVE p \notin struck /\ p \in manifests'
    BY <1>1, <2>1 DEF PublishedIsWhole, Whole
  <2> QED BY <1>1, <2>1, PublishedStay
<1>5. StreamedStays'
  BY StreamsStay
<1> QED BY <1>2, <1>3, <1>4, <1>5

\* A pull begins, with the lock.
LEMMA PullStartInv ==
  ASSUME Inv, NEW p \in Pits, NEW b \in Pits \cup {None}, PullStart(p, b) PROVE Inv'
<1> USE DEF Inv, JournalInv
<1>1. /\ UNCHANGED <<disk, grants, kept, pruner, exporter, struck, strays>>
      /\ puller.pc = "idle" /\ lock = "free" /\ lock' = "pull" /\ p \notin Published
      /\ puller' = [NoPull EXCEPT !.pc = "look", !.pit = p, !.base = b]
  BY DEF PullStart, At
<1>2. puller' \in Pulls
  BY <1>1, NoPullFacts DEF Pulls
<1>3. puller'.pc = "look" /\ puller'.pit = p
  BY <1>1 DEF NoPull
<1>4. UNCHANGED <<pool, holds, journal, manifests>>
  BY <1>1 DEF disk
<1>5. Locked'
  BY <1>1, <1>3 DEF Locked
<1>6. PullAgrees'
  BY <1>1, <1>3, <1>4 DEF PullAgrees, At, Published
<1> QED BY <1>1, <1>2, <1>4, <1>5, <1>6, PoolStays, PullFrame DEF TypeOK

\* An attempt ends.
LEMMA PullGivesUpInv == ASSUME Inv, PullGivesUp PROVE Inv'
<1> USE DEF Inv, JournalInv
<1>1. /\ UNCHANGED <<pool, holds, journal, manifests, grants, kept, pruner, exporter, struck, strays>>
      /\ lock' = (IF lock = "pull" THEN "free" ELSE lock) /\ puller' = NoPull
  BY DEF PullGivesUp, disk
<1>2. puller' \in Pulls /\ puller'.pc = "idle"
  BY <1>1, NoPullFacts
<1>3. Locked' /\ PullAgrees'
  BY <1>1, <1>2 DEF Locked, PullAgrees, At
<1> QED BY <1>1, <1>2, <1>3, PoolStays, PullFrame DEF TypeOK

\* The parts of a zvol.
LEMMA ZvolFields ==
  ASSUME TypeOK, NEW z \in DOMAIN pool
  PROVE  /\ pool[z] \in Zvols /\ z \in Names /\ pool[z].snaps \subseteq Snapshots
         /\ pool[z].token \in Pits \cup {None} /\ pool[z].origin \in {<<>>} \cup (Names \X Pits)
<1>1. pool[z] \in Zvols /\ z \in Names
  BY DEF TypeOK
<1> QED BY <1>1 DEF Zvols

\* Aborting receives removes zvols without a snapshot, and no snapshot.
LEMMA AbortKeeps ==
  ASSUME TypeOK, UNCHANGED <<holds, struck>>, NEW zs, pool' = Aborted(zs)
  PROVE  /\ pool' \in [DOMAIN pool' -> Zvols] /\ DOMAIN pool' \subseteq Names
         /\ HeldStays /\ HoldsStay
<1> DEFINE left == {y \in DOMAIN pool : y \notin zs \/ pool[y].snaps # {}}
<1>1. pool' = [z \in left |-> IF z \in zs THEN [pool[z] EXCEPT !.token = None] ELSE pool[z]]
  BY DEF Aborted
<1>2. DOMAIN pool' = left
  BY <1>1
<1>3. ASSUME NEW z \in left PROVE pool'[z] \in Zvols /\ pool'[z].snaps = pool[z].snaps
  <2>1. pool[z] \in Zvols
    BY ZvolFields
  <2>2. CASE z \in zs
    <3>1. pool'[z] = [pool[z] EXCEPT !.token = None]
      BY <1>1, <2>2
    <3>2. pool'[z] \in Zvols
      BY <2>1, <3>1 DEF Zvols
    <3> QED BY <2>1, <3>1, <3>2 DEF Zvols
  <2>3. CASE z \notin zs
    BY <1>1, <2>1, <2>3
  <2> QED BY <2>2, <2>3
<1>4. pool' \in [left -> Zvols]
  BY <1>1, <1>3
<1>5. left \subseteq Names
  BY DEF TypeOK
<1>6. HeldStays
  BY <1>2, <1>3 DEF HeldStays
<1>7. HoldsStay
  BY DEF HoldsStay
<1> QED BY <1>2, <1>4, <1>5, <1>6, <1>7

\* What was left of another PIT is aborted.
LEMMA PullAbandonInv == ASSUME Inv, PullAbandon PROVE Inv'
<1> USE DEF Inv, JournalInv
<1>1. PICK zs : pool' = Aborted(zs)
  BY DEF PullAbandon
<1>2. /\ UNCHANGED <<holds, journal, manifests, grants, kept, lock, pruner, exporter, struck, strays>>
      /\ puller.pc = "look" /\ puller' = [puller EXCEPT !.pc = "forget"] /\ puller \in Pulls
  BY DEF PullAbandon, At, Goes, TypeOK
<1>3. puller' \in Pulls /\ puller'.pc = "forget" /\ puller'.pit = puller.pit
  BY <1>2, PullGoes DEF PullPcs
<1>4. Locked' /\ PullAgrees'
  BY <1>2, <1>3 DEF Locked, PullAgrees, At, Published
<1>5. /\ pool' \in [DOMAIN pool' -> Zvols] /\ DOMAIN pool' \subseteq Names
      /\ HeldStays /\ HoldsStay
  BY <1>1, <1>2, AbortKeeps
<1> QED BY <1>2, <1>3, <1>4, <1>5, PullFrame DEF TypeOK

\* The zvol a stream comes into.
LEMMA BegunFacts ==
  ASSUME Inv, At("transfer"), NEW v \in Volumes, Receivable(v)
  PROVE  /\ puller.vols[v] \in Names /\ Begun(v) \in Zvols
         /\ puller.vols[v] \in DOMAIN pool => Begun(v).snaps = pool[puller.vols[v]].snaps
<1> USE DEF Inv, JournalInv
<1> DEFINE z == puller.vols[v]
<1>1. z \in Names /\ puller.pit \in Pits /\ puller.base \in Published \cup {None}
  BY DEF At, PullAgrees, BaseIsThere
<1>2. CASE z \in DOMAIN pool
  <2>1. Begun(v) = [pool[z] EXCEPT !.token = puller.pit] /\ pool[z] \in Zvols
    BY <1>2, ZvolFields DEF Begun
  <2>2. puller.pit \in Pits \cup {None}
    BY <1>1
  <2>3. Begun(v) \in Zvols
    BY <2>1, <2>2 DEF Zvols
  <2> QED BY <1>1, <2>1, <2>3 DEF Zvols
<1>3. CASE z \notin DOMAIN pool
  <2> DEFINE o == IF puller.method[v] = "clone"
                  THEN <<journal.pits[puller.base].vols[v], puller.base>> ELSE <<>>
  <2>1. Begun(v) = [snaps |-> {}, token |-> puller.pit, origin |-> o]
    BY <1>3 DEF Begun
  <2>2. o \in {<<>>} \cup (Names \X Pits)
    <3>1. CASE puller.method[v] # "clone"
      BY <3>1
    <3>2. CASE puller.method[v] = "clone"
      <4> DEFINE y == journal.pits[puller.base].vols[v]
      <4>1. puller.base \in PitsOn(y)
        BY <1>1, <1>3, <3>2 DEF Receivable, Token, None, Pits
      <4>2. y \in DOMAIN pool
        BY <4>1 DEF PitsOn
      <4>3. PICK s \in pool[y].snaps : s.pit = puller.base
        BY <4>1, <4>2 DEF PitsOn
      <4>4. puller.base \in Pits
        BY <4>2, <4>3, ZvolFields DEF Snapshots
      <4>5. y \in Names
        BY <4>2 DEF TypeOK
      <4> HIDE DEF y
      <4>6. <<y, puller.base>> \in Names \X Pits
        BY <4>4, <4>5
      <4> QED BY <3>2, <4>6 DEF y
    <3> QED BY <3>1, <3>2
  <2>3. puller.pit \in Pits \cup {None} /\ {} \in SUBSET Snapshots
    BY <1>1
  <2> HIDE DEF o
  <2> QED BY <1>1, <1>3, <2>1, <2>2, <2>3 DEF Zvols
<1> QED BY <1>2, <1>3

\* A zvol that is put in place with at least its snapshots.
LEMMA PutKeeps ==
  ASSUME TypeOK, UNCHANGED <<holds, struck>>, NEW z \in Names, NEW x \in Zvols, pool' = Put(pool, z, x),
         z \in DOMAIN pool => pool[z].snaps \subseteq x.snaps
  PROVE  /\ pool' \in [DOMAIN pool' -> Zvols] /\ DOMAIN pool' \subseteq Names
         /\ HeldStays /\ HoldsStay
<1>1. pool' = [y \in DOMAIN pool \cup {z} |-> IF y = z THEN x ELSE pool[y]]
  BY DEF Put
<1>2. DOMAIN pool' = DOMAIN pool \cup {z}
  BY <1>1
<1>3. ASSUME NEW y \in DOMAIN pool \cup {z} PROVE pool'[y] \in Zvols
  BY <1>1, ZvolFields
<1>4. pool' \in [DOMAIN pool \cup {z} -> Zvols]
  BY <1>1, <1>3
<1>5. DOMAIN pool \cup {z} \subseteq Names
  BY DEF TypeOK
<1>6. ASSUME NEW y \in DOMAIN pool PROVE pool[y].snaps \subseteq pool'[y].snaps
  BY <1>1
<1>7. HeldStays /\ HoldsStay
  BY <1>2, <1>6 DEF HeldStays, HoldsStay
<1> QED BY <1>2, <1>4, <1>5, <1>7

\* A volume is received, or was here.
LEMMA PullReceiveInv == ASSUME Inv, NEW v \in Volumes, PullReceive(v) PROVE Inv'
<1> USE DEF Inv, JournalInv
<1> DEFINE z == puller.vols[v]
           Done(good) == [Begun(v) EXCEPT !.token = None,
                                          !.snaps = @ \cup {[pit |-> puller.pit, good |-> good]}]
<1>1. /\ UNCHANGED <<holds, journal, manifests, grants, kept, lock, pruner, exporter, struck, strays>>
      /\ puller.pc = "transfer" /\ puller' = [puller EXCEPT !.pc = "mark"] /\ puller \in Pulls
  BY DEF PullReceive, At, TypeOK
<1>2. /\ puller' \in Pulls /\ puller'.pc = "mark" /\ puller'.pit = puller.pit
      /\ puller'.base = puller.base /\ puller'.vols = puller.vols
  BY <1>1, PullGoes DEF PullPcs
<1>3. Locked' /\ PullAgrees'
  BY <1>1, <1>2 DEF Locked, PullAgrees, At, Published
<1>4. /\ pool' \in [DOMAIN pool' -> Zvols] /\ DOMAIN pool' \subseteq Names
      /\ HeldStays /\ HoldsStay
  <2>1. CASE UNCHANGED pool
    BY <1>1, <2>1, PoolStays DEF TypeOK
  <2>2. ASSUME NEW good \in BOOLEAN, Receivable(v), pool' = Put(pool, z, Done(good))
        PROVE  /\ pool' \in [DOMAIN pool' -> Zvols] /\ DOMAIN pool' \subseteq Names
               /\ HeldStays /\ HoldsStay
    <3>1. /\ z \in Names /\ Begun(v) \in Zvols
          /\ z \in DOMAIN pool => Begun(v).snaps = pool[z].snaps
      BY <1>1, <2>2, BegunFacts DEF At
    <3>2. puller.pit \in Pits
      BY <1>1 DEF PullAgrees, At
    <3>3. [pit |-> puller.pit, good |-> good] \in Snapshots
      BY <3>2 DEF Snapshots
    <3>4. Begun(v).snaps \cup {[pit |-> puller.pit, good |-> good]} \in SUBSET Snapshots
      BY <3>1, <3>3 DEF Zvols
    <3>5. Done(good) \in Zvols
      BY <3>1, <3>4 DEF Zvols
    <3>6. Done(good).snaps = Begun(v).snaps \cup {[pit |-> puller.pit, good |-> good]}
      BY <3>1 DEF Zvols
    <3> HIDE DEF Done, z
    <3>7. z \in DOMAIN pool => pool[z].snaps \subseteq Done(good).snaps
      BY <3>1, <3>6
    <3> QED BY <1>1, <2>2, <3>1, <3>5, <3>7, PutKeeps
  <2> QED BY <2>1, <2>2 DEF PullReceive
<1> QED BY <1>1, <1>2, <1>3, <1>4, PullFrame DEF TypeOK

\* A stream breaks and leaves its token.
LEMMA PullBreaksInv == ASSUME Inv, NEW v \in Volumes, PullBreaks(v) PROVE Inv'
<1> USE DEF Inv, JournalInv
<1> DEFINE z == puller.vols[v]
<1>1. /\ UNCHANGED <<holds, journal, manifests, grants, kept, lock, pruner, exporter, struck, strays>>
      /\ puller.pc = "transfer" /\ puller' = NoPull /\ Receivable(v) /\ pool' = Put(pool, z, Begun(v))
  BY DEF PullBreaks, At
<1>2. puller' \in Pulls /\ puller'.pc = "idle"
  BY <1>1, NoPullFacts
<1>3. Locked' /\ PullAgrees'
  BY <1>1, <1>2 DEF Locked, PullAgrees, At
<1>4. /\ z \in Names /\ Begun(v) \in Zvols
      /\ z \in DOMAIN pool => Begun(v).snaps = pool[z].snaps
  BY <1>1, BegunFacts DEF At
<1>5. /\ pool' \in [DOMAIN pool' -> Zvols] /\ DOMAIN pool' \subseteq Names
      /\ HeldStays /\ HoldsStay
  BY <1>1, <1>4, PutKeeps
<1> QED BY <1>1, <1>2, <1>3, <1>5, PullFrame DEF TypeOK

\* The snapshots of one PIT are destroyed on some zvols.
LEMMA DropTypes ==
  ASSUME TypeOK, NEW zs, NEW p, pool' = Drop(zs, p)
  PROVE  /\ pool' \in [DOMAIN pool' -> Zvols] /\ DOMAIN pool' = DOMAIN pool
         /\ \A z \in DOMAIN pool : \A s \in pool[z].snaps : z \notin zs \/ s.pit # p => s \in pool'[z].snaps
<1>1. pool' = [z \in DOMAIN pool |-> IF z \in zs
                 THEN [pool[z] EXCEPT !.snaps = {s \in @ : s.pit # p}] ELSE pool[z]]
  BY DEF Drop
<1>2. DOMAIN pool' = DOMAIN pool
  BY <1>1
<1>3. ASSUME NEW z \in DOMAIN pool
      PROVE  /\ pool'[z] \in Zvols
             /\ \A s \in pool[z].snaps : z \notin zs \/ s.pit # p => s \in pool'[z].snaps
  <2>1. pool[z] \in Zvols /\ pool[z].snaps \subseteq Snapshots
    BY ZvolFields
  <2>2. CASE z \in zs
    <3> DEFINE rest == {s \in pool[z].snaps : s.pit # p}
    <3>1. pool'[z] = [pool[z] EXCEPT !.snaps = rest]
      BY <1>1, <2>2
    <3>2. rest \in SUBSET Snapshots
      BY <2>1
    <3>3. \A s \in pool[z].snaps : s.pit # p => s \in rest
      OBVIOUS
    <3> HIDE DEF rest
    <3>4. pool'[z] \in Zvols
      BY <2>1, <3>1, <3>2 DEF Zvols
    <3>5. pool'[z].snaps = rest
      BY <2>1, <3>1 DEF Zvols
    <3> QED BY <2>2, <3>3, <3>4, <3>5
  <2>3. CASE z \notin zs
    BY <1>1, <2>1, <2>3
  <2> QED BY <2>2, <2>3
<1>4. pool' \in [DOMAIN pool -> Zvols]
  BY <1>1, <1>3
<1> QED BY <1>2, <1>3, <1>4

\* A receive that is not what the manifest describes is thrown away, where no
\* hold forbids it.
LEMMA PullQuarantineInv == ASSUME Inv, PullQuarantine PROVE Inv'
<1> USE DEF Inv, JournalInv
<1>1. /\ UNCHANGED <<holds, journal, manifests, grants, kept, pruner, exporter, struck, strays>>
      /\ puller.pc = "transfer" /\ puller' = [puller EXCEPT !.pc = "quarantine"] /\ puller \in Pulls
      /\ lock = "free" /\ lock' = "pull"
  BY DEF PullQuarantine, Received, At, Goes, TypeOK
<1>2. /\ puller' \in Pulls /\ puller'.pc = "quarantine" /\ puller'.pit = puller.pit
      /\ puller'.base = puller.base /\ puller'.vols = puller.vols
  BY <1>1, PullGoes DEF PullPcs
<1>3. Locked' /\ PullAgrees'
  BY <1>1, <1>2 DEF Locked, PullAgrees, At, Published
<1>4. /\ pool' \in [DOMAIN pool' -> Zvols] /\ DOMAIN pool' \subseteq Names
      /\ HeldStays /\ HoldsStay
  <2>1. CASE UNCHANGED pool
    BY <1>1, <2>1, PoolStays DEF TypeOK
  <2>2. ASSUME NEW onto, pool' = Drop({z \in onto : Destroyable(z, puller.pit, {})}, puller.pit)
        PROVE  /\ pool' \in [DOMAIN pool' -> Zvols] /\ DOMAIN pool' \subseteq Names
               /\ HeldStays /\ HoldsStay
    <3> DEFINE zs == {z \in onto : Destroyable(z, puller.pit, {})}
    <3>1. /\ pool' \in [DOMAIN pool' -> Zvols] /\ DOMAIN pool' = DOMAIN pool
          /\ \A z \in DOMAIN pool : \A s \in pool[z].snaps :
                z \notin zs \/ s.pit # puller.pit => s \in pool'[z].snaps
      BY <2>2, DropTypes
    <3>2. ASSUME NEW z \in DOMAIN pool, NEW t, <<z, puller.pit, t>> \in holds PROVE z \notin zs
      BY <3>2 DEF Destroyable
    <3> HIDE DEF zs
    <3>3. HeldStays
      BY <3>1, <3>2 DEF HeldStays
    <3> QED BY <1>1, <3>1, <3>3 DEF HoldsStay, TypeOK
  <2> QED BY <2>1, <2>2 DEF PullQuarantine
<1> QED BY <1>1, <1>2, <1>3, <1>4, PullFrame DEF TypeOK

\* The snapshots are checked and held, and the manifest is written.
LEMMA PullHoldInv == ASSUME Inv, PullHold PROVE Inv'
<1> USE DEF Inv, JournalInv
<1> DEFINE new == {<<puller.vols[v], puller.pit, "retain">> : v \in Volumes}
<1>1. /\ UNCHANGED <<pool, journal, grants, kept, lock, pruner, exporter, struck, strays>>
      /\ puller.pc = "transfer" /\ puller' = [puller EXCEPT !.pc = "publish"] /\ puller \in Pulls
      /\ holds' = holds \cup new /\ manifests' = manifests \cup {puller.pit} /\ Checked
  BY DEF PullHold, Received, At, Goes, TypeOK
<1>2. /\ puller' \in Pulls /\ puller'.pc = "publish" /\ puller'.pit = puller.pit
      /\ puller'.base = puller.base /\ puller'.vols = puller.vols
  BY <1>1, PullGoes DEF PullPcs
<1>3. puller.pit \in Pits /\ puller.vols \in [Volumes -> Names]
  BY <1>1 DEF PullAgrees, At
<1>4. new \subseteq Names \X Pits \X {"retain", "export"}
  BY <1>3
<1>5. WholeNext(puller.pit, puller.vols)
  BY <1>1 DEF WholeNext, Checked, Good
<1>6. PullAgrees'
  BY <1>1, <1>2, <1>5 DEF PullAgrees, At, Published, Whole, WholeNext, Good
<1>7. Locked'
  BY <1>1, <1>2 DEF Locked
<1>8. HeldStays /\ HoldsStay
  BY <1>1 DEF HeldStays, HoldsStay
<1>9. holds' \subseteq Names \X Pits \X {"retain", "export"}
  BY <1>1, <1>4 DEF TypeOK
<1> QED BY <1>1, <1>2, <1>3, <1>6, <1>7, <1>8, <1>9, PullFrame DEF TypeOK

\* A step of a pull that changes the receive in the journal.
LEMMA ReceivingFrame ==
  ASSUME Inv, lock # "prune", puller' \in Pulls,
         UNCHANGED <<pool, holds, manifests, grants, kept, pruner, exporter, struck, strays>>,
         journal' \in Journals(Published), journal'.pits = journal.pits,
         journal'.receiving.pit # None => journal'.receiving.vols \in [Volumes -> Names],
         BaseIsThere', NewZvolsAreNew', Locked', PullAgrees'
  PROVE  Inv'
<1> USE DEF Inv, JournalInv
<1>1. Published' = Published
  BY DEF Published
<1>2. TypeOK'
  BY <1>1 DEF TypeOK
<1>3. PruneAgrees'
  BY DEF PruneAgrees, Locked
<1>4. PublishedIsWhole'
  BY <1>1, PoolStays, PublishedStay DEF PublishedIsWhole, Whole
<1>5. StreamedStays'
  BY PoolStays, StreamsStay
<1> QED BY <1>2, <1>3, <1>4, <1>5

\* The journal forgets a receive.
LEMMA PullForgetInv == ASSUME Inv, PullForget PROVE Inv'
<1> USE DEF Inv, JournalInv
<1>1. /\ UNCHANGED <<pool, holds, manifests, grants, kept, lock, pruner, exporter, struck, strays>>
      /\ puller.pc = "forget" /\ puller' = [puller EXCEPT !.pc = "look"] /\ puller \in Pulls
      /\ journal' = [journal EXCEPT !.receiving = NoReceiving] /\ journal \in Journals(Published)
  BY DEF PullForget, At, Goes, TypeOK
<1>2. puller' \in Pulls /\ puller'.pc = "look" /\ puller'.pit = puller.pit
  BY <1>1, PullGoes DEF PullPcs
<1>3. /\ journal' \in Journals(Published) /\ journal'.receiving = NoReceiving
      /\ journal'.pits = journal.pits /\ journal'.quarantined = journal.quarantined
  BY <1>1, JournalReceives, NoPullFacts
<1>4. journal'.receiving.pit = None /\ journal'.receiving.base = None
  BY <1>3, NoPullFacts
<1>5. BaseIsThere' /\ NewZvolsAreNew'
  BY <1>4 DEF BaseIsThere, NewZvolsAreNew
<1>6. Locked' /\ PullAgrees'
  BY <1>1, <1>2, <1>3 DEF Locked, PullAgrees, At, Published
<1>7. lock # "prune"
  BY <1>1 DEF Locked
<1> QED BY <1>1, <1>2, <1>3, <1>4, <1>5, <1>6, <1>7, ReceivingFrame

\* A volume is marked as received.
LEMMA PullMarkInv == ASSUME Inv, NEW v \in Volumes, PullMark(v) PROVE Inv'
<1> USE DEF Inv, JournalInv
<1> DEFINE r == journal.receiving
           r1 == [r EXCEPT !.done = @ \cup {v}]
<1>1. /\ UNCHANGED <<pool, holds, manifests, grants, kept, lock, pruner, exporter, struck, strays>>
      /\ puller.pc = "mark" /\ puller \in Pulls /\ lock = "free"
      /\ puller' = [puller EXCEPT !.pc = "transfer", !.done = @ \cup {v}]
      /\ journal \in Journals(Published) /\ r \in Receivings
  BY JournalFields DEF PullMark, At, TypeOK
<1>2. r.pit = puller.pit
  BY <1>1 DEF PullAgrees
<1>3. journal' = [journal EXCEPT !.receiving = r1]
  BY <1>1, <1>2 DEF PullMark, Journals
<1>4. r1 \in Receivings /\ r1.pit = r.pit /\ r1.base = r.base /\ r1.vols = r.vols
  <2>1. r.done \cup {v} \in SUBSET Volumes
    BY <1>1 DEF Receivings
  <2>2. r1 \in Receivings
    BY <1>1, <2>1 DEF Receivings
  <2> QED BY <1>1, <2>2 DEF Receivings
<1> HIDE DEF r1
<1>5. /\ journal' \in Journals(Published) /\ journal'.receiving = r1
      /\ journal'.pits = journal.pits /\ journal'.quarantined = journal.quarantined
  BY <1>1, <1>3, <1>4, JournalReceives
<1>6. /\ puller' \in Pulls /\ puller'.pc = "transfer" /\ puller'.pit = puller.pit
      /\ puller'.base = puller.base /\ puller'.vols = puller.vols
  <2>1. puller.done \cup {v} \in SUBSET Volumes
    BY <1>1 DEF Pulls
  <2>2. puller' \in Pulls
    BY <1>1, <2>1 DEF Pulls
  <2> QED BY <1>1, <2>2 DEF Pulls
<1>7. BaseIsThere' /\ NewZvolsAreNew'
  BY <1>4, <1>5 DEF BaseIsThere, NewZvolsAreNew, Published, Taken
<1>8. Locked' /\ PullAgrees'
  BY <1>1, <1>4, <1>5, <1>6 DEF Locked, PullAgrees, At, Published
<1>9. journal'.receiving.pit # None => journal'.receiving.vols \in [Volumes -> Names]
  BY <1>4, <1>5 DEF TypeOK
<1> QED BY <1>1, <1>5, <1>6, <1>7, <1>8, <1>9, ReceivingFrame

\* A receive that was thrown away is recorded.
LEMMA PullRecordInv == ASSUME Inv, PullRecord PROVE Inv'
<1> USE DEF Inv, JournalInv
<1> DEFINE zs == {puller.vols[v] : v \in {u \in Volumes : puller.method[u] # "incremental"}}
           q == [pit |-> puller.pit, zvols |-> zs]
           quarantined == journal.quarantined \cup {q}
<1>1. /\ UNCHANGED <<pool, holds, manifests, grants, kept, pruner, exporter, struck, strays>>
      /\ puller.pc = "quarantine" /\ lock' = "free" /\ puller' = NoPull
      /\ journal \in Journals(Published)
  BY DEF PullRecord, At, TypeOK
<1>2. journal.receiving.pit = puller.pit /\ puller.pit \in Pits /\ puller.vols \in [Volumes -> Names]
  BY <1>1 DEF PullAgrees, At
<1>3. journal' = [journal EXCEPT !.receiving = NoReceiving, !.quarantined = quarantined]
  BY <1>1, <1>2 DEF PullRecord, Journals
<1>4. quarantined \in SUBSET Quarantines
  <2>1. zs \in SUBSET Names
    BY <1>2
  <2> HIDE DEF zs
  <2>2. q \in Quarantines
    BY <1>2, <2>1 DEF Quarantines
  <2> HIDE DEF q
  <2> QED BY <1>1, <2>2, JournalFields
<1> HIDE DEF quarantined
<1>5. journal' \in Journals(Published)
  BY <1>1, <1>3, <1>4, NoPullFacts DEF Journals
<1>6. journal'.receiving = NoReceiving /\ journal'.pits = journal.pits
  BY <1>1, <1>3 DEF Journals
<1>7. puller' \in Pulls /\ puller'.pc = "idle"
  BY <1>1, NoPullFacts
<1>8. journal'.receiving.pit = None /\ journal'.receiving.base = None
  BY <1>6, NoPullFacts
<1>9. BaseIsThere' /\ NewZvolsAreNew'
  BY <1>8 DEF BaseIsThere, NewZvolsAreNew
<1>10. Locked' /\ PullAgrees' /\ lock # "prune"
  BY <1>1, <1>7 DEF Locked, PullAgrees, At
<1> QED BY <1>1, <1>5, <1>6, <1>7, <1>8, <1>9, <1>10, ReceivingFrame

\* The first lineage without a zvol is there, and no zvol the journal knows is
\* in it.
LEMMA LineageIsFree ==
  ASSUME TypeOK, NEW b
  PROVE  /\ Lineage(b) \in 1 .. MaxLineage + 1
         /\ \A v \in Volumes : <<b, Lineage(b), v>> \notin Named(journal.pits) \cup Taken
<1> DEFINE Free(k) == \A v \in Volumes : <<b, k, v>> \notin Named(journal.pits) \cup Taken
           T == {k \in Nat : k >= 1 /\ Free(k)}
<1>1. Named(journal.pits) \cup Taken \subseteq Names
  <2>1. journal \in Journals(Published)
    BY DEF TypeOK
  <2>2. /\ journal.pits \in [Published -> Entries] /\ journal.receiving \in Receivings
        /\ journal.quarantined \subseteq Quarantines
    BY <2>1, JournalFields
  <2>3. Taken \subseteq Names
    BY <2>2 DEF Taken, Quarantines
  <2>4. ASSUME NEW p \in DOMAIN journal.pits PROVE Range(journal.pits[p].vols) \subseteq Names
    <3>1. journal.pits[p].vols \in [Volumes -> Names]
      BY <2>2 DEF Entries
    <3> QED BY <3>1 DEF Range
  <2>5. Range(journal.receiving.vols) \subseteq Names
    <3>1. journal.receiving.vols \in Layouts
      BY <2>2 DEF Receivings
    <3>2. CASE journal.receiving.vols \in [Volumes -> Names]
      BY <3>2 DEF Range
    <3>3. CASE journal.receiving.vols = <<>>
      <4>1. DOMAIN journal.receiving.vols = {}
        BY <3>3
      <4> QED BY <4>1 DEF Range
    <3> QED BY <3>1, <3>2, <3>3 DEF Layouts
  <2>6. UNION {Range(journal.pits[p].vols) : p \in DOMAIN journal.pits} \subseteq Names
    BY <2>4
  <2> QED BY <2>3, <2>5, <2>6 DEF Named
<1>2. ASSUME NEW v \in Volumes PROVE <<b, MaxLineage + 1, v>> \notin Names
  <2>1. MaxLineage + 1 \notin 1 .. MaxLineage
    BY ApplianceAssumption
  <2> QED BY <2>1 DEF Names
<1>3. Free(MaxLineage + 1)
  BY <1>1, <1>2
<1> HIDE DEF Free
<1>4. MaxLineage + 1 \in T
  BY <1>3, ApplianceAssumption
<1>5. PICK n \in T : \A k \in T : ~(k < n)
  <2>1. IsWellFoundedOn(OpToRel(<, Nat), Nat)
    BY NatLessThanWellFounded
  <2>2. PICK n \in T : \A k \in T : <<k, n>> \notin OpToRel(<, Nat)
    BY <1>4, <2>1, WFMin
  <2>3. \A k \in T : ~(k < n)
    BY <2>2 DEF OpToRel
  <2> QED BY <2>3
<1>6. n \in 1 .. MaxLineage + 1 /\ Free(n) /\ \A k \in 1 .. n - 1 : ~Free(k)
  BY <1>4, <1>5, ApplianceAssumption
<1>7. \E m \in 1 .. MaxLineage + 1 : Free(m) /\ \A k \in 1 .. m - 1 : ~Free(k)
  BY <1>6
<1>8. Lineage(b) \in 1 .. MaxLineage + 1 /\ Free(Lineage(b))
  BY <1>7 DEF Lineage, Free
<1> QED BY <1>8 DEF Free

\* The zvols of a new lineage.
LEMMA TargetsFacts ==
  ASSUME Inv, puller.pc = "look", puller.base # None => puller.base \in Published,
         SameBranch \/ Lineage(BranchOf[puller.pit]) <= MaxLineage
  PROVE  /\ Targets \in [Volumes -> Names]
         /\ ~SameBranch =>
               /\ Range(Targets) \cap Taken = {}
               /\ \A p \in Published : Range(Targets) \cap Range(journal.pits[p].vols) = {}
<1> USE DEF Inv, JournalInv
<1>1. CASE SameBranch
  <2>1. puller.base \in Published /\ Targets = journal.pits[puller.base].vols
    BY <1>1 DEF SameBranch, Targets
  <2>2. journal \in Journals(Published)
    BY DEF TypeOK
  <2>3. journal.pits[puller.base] \in Entries
    BY <2>1, <2>2, JournalFields
  <2> QED BY <1>1, <2>1, <2>3 DEF Entries
<1>2. CASE ~SameBranch
  <2> DEFINE b == BranchOf[puller.pit]
             n == Lineage(b)
  <2>1. /\ n \in 1 .. MaxLineage + 1
        /\ \A v \in Volumes : <<b, n, v>> \notin Named(journal.pits) \cup Taken
    BY LineageIsFree
  <2>2. n \in 1 .. MaxLineage
    BY <1>2, <2>1, ApplianceAssumption
  <2>3. b \in Range(BranchOf)
    <3>1. puller.pit \in Pits
      BY DEF PullAgrees, At
    <3> QED BY <3>1, ApplianceAssumption DEF Range
  <2>4. Targets = [v \in Volumes |-> <<b, n, v>>]
    BY <1>2 DEF Targets
  <2> HIDE DEF b, n
  <2>5. Targets \in [Volumes -> Names]
    BY <2>2, <2>3, <2>4 DEF Names
  <2>6. ASSUME NEW z \in Range(Targets) PROVE z \notin Named(journal.pits) \cup Taken
    BY <2>1, <2>4 DEF Range
  <2>7. \A p \in Published : Range(journal.pits[p].vols) \subseteq Named(journal.pits)
    BY DEF Named, Published
  <2> QED BY <1>2, <2>5, <2>6, <2>7
<1> QED BY <1>1, <1>2

\* A pull plans what it receives, or goes on with what it had planned.
LEMMA PullPlanInv == ASSUME Inv, PullPlan PROVE Inv'
<1> USE DEF Inv, JournalInv
<1>1. /\ UNCHANGED <<pool, holds, manifests, grants, kept, pruner, exporter, struck, strays>>
      /\ puller.pc = "look" /\ puller \in Pulls /\ lock' = "free"
      /\ puller.base # None => puller.base \in Published
      /\ journal \in Journals(Published) /\ journal.receiving \in Receivings
      /\ puller.pit \in Pits \ Published /\ puller.base \in Pits \cup {None}
  BY JournalFields DEF PullPlan, At, TypeOK, Pulls, PullAgrees
<1>2. Methods \in [Volumes -> {"full", "incremental", "clone"}] \cup {<<>>}
  BY DEF Methods
<1>3. lock # "prune" /\ puller.pit # None
  BY <1>1, ApplianceAssumption DEF Locked, None, Pits
<1>4. CASE Resumes
  <2> DEFINE vols == journal.receiving.vols
             done == journal.receiving.done
  <2>1. /\ puller' = [puller EXCEPT !.pc = "transfer", !.vols = vols, !.method = Methods, !.done = done]
        /\ journal' = journal /\ journal.receiving.pit = puller.pit /\ journal.receiving.base = puller.base
    BY <1>4 DEF PullPlan, Resumes
  <2>2. vols \in [Volumes -> Names] /\ vols \in Layouts /\ done \in SUBSET Volumes
    BY <1>1, <1>3, <2>1 DEF TypeOK, Layouts, Receivings
  <2> HIDE DEF vols, done
  <2>3. puller' \in Pulls
    BY <1>1, <1>2, <2>1, <2>2 DEF Pulls
  <2>4. /\ puller'.pc = "transfer" /\ puller'.pit = puller.pit
        /\ puller'.base = puller.base /\ puller'.vols = vols
    BY <1>1, <2>1 DEF Pulls
  <2>5. BaseIsThere' /\ NewZvolsAreNew'
    BY <2>1 DEF BaseIsThere, NewZvolsAreNew, Published, Taken
  <2>6. Locked' /\ PullAgrees'
    BY <1>1, <2>1, <2>2, <2>4 DEF Locked, PullAgrees, At, Published, vols
  <2>7. journal'.receiving.pit # None => journal'.receiving.vols \in [Volumes -> Names]
    BY <2>1 DEF TypeOK
  <2> QED BY <1>1, <1>3, <2>1, <2>3, <2>5, <2>6, <2>7, ReceivingFrame
<1>5. CASE ~Resumes
  <2> DEFINE vols == Targets
             r == [pit |-> puller.pit, base |-> puller.base, vols |-> vols, done |-> {}]
  <2>1. /\ puller' = [puller EXCEPT !.pc = "transfer", !.vols = vols, !.method = Methods]
        /\ journal' = [journal EXCEPT !.receiving = r]
        /\ SameBranch \/ Lineage(BranchOf[puller.pit]) <= MaxLineage
    BY <1>5 DEF PullPlan
  <2>2. /\ vols \in [Volumes -> Names]
        /\ ~SameBranch =>
              /\ Range(vols) \cap Taken = {}
              /\ \A p \in Published : Range(vols) \cap Range(journal.pits[p].vols) = {}
    BY <1>1, <2>1, TargetsFacts
  <2>3. SameBranch <=> ~(puller.base = None \/ BranchOf[puller.base] # BranchOf[puller.pit])
    BY DEF SameBranch
  <2>4. vols \in Layouts
    BY <2>2 DEF Layouts
  <2> HIDE DEF vols
  <2>5. puller' \in Pulls
    BY <1>1, <1>2, <2>1, <2>4 DEF Pulls
  <2>6. /\ puller'.pc = "transfer" /\ puller'.pit = puller.pit
        /\ puller'.base = puller.base /\ puller'.vols = vols
    BY <1>1, <2>1 DEF Pulls
  <2>7. r \in Receivings
    <3>1. puller.pit \in Pits \cup {None} /\ {} \in SUBSET Volumes
      BY <1>1
    <3> QED BY <1>1, <2>4, <3>1 DEF Receivings
  <2>8. r.pit = puller.pit /\ r.base = puller.base /\ r.vols = vols
    OBVIOUS
  <2> HIDE DEF r
  <2>9. /\ journal' \in Journals(Published) /\ journal'.receiving = r
        /\ journal'.pits = journal.pits /\ journal'.quarantined = journal.quarantined
    BY <1>1, <2>1, <2>7, JournalReceives
  <2>10. BaseIsThere'
    BY <1>1, <2>8, <2>9 DEF BaseIsThere, Published
  <2>11. NewZvolsAreNew'
    <3>1. Published' = Published /\ Taken' = Taken
      BY <2>9 DEF Published, Taken
    <3> QED BY <2>2, <2>3, <2>8, <2>9, <3>1 DEF NewZvolsAreNew
  <2>12. Locked' /\ PullAgrees'
    BY <1>1, <2>2, <2>6, <2>8, <2>9 DEF Locked, PullAgrees, At, Published
  <2> QED BY <1>1, <1>3, <2>2, <2>5, <2>8, <2>9, <2>10, <2>11, <2>12, ReceivingFrame
<1> QED BY <1>4, <1>5

\* A PIT that is whole is published.
LEMMA PullPublishInv == ASSUME Inv, PullPublish PROVE Inv'
<1> USE DEF Inv, JournalInv
<1> DEFINE p0 == puller.pit
           e == [base |-> puller.base, vols |-> puller.vols]
           pits == Put(journal.pits, p0, e)
<1>1. /\ UNCHANGED <<pool, holds, manifests, grants, kept, lock, pruner, exporter, struck, strays>>
      /\ puller.pc = "publish" /\ lock = "free" /\ puller' = NoPull /\ puller \in Pulls
      /\ journal \in Journals(Published) /\ journal.pits \in [Published -> Entries]
  BY JournalFields DEF PullPublish, At, TypeOK
<1>2. /\ journal.receiving.pit = p0 /\ p0 \in Pits \ Published
      /\ puller.vols \in [Volumes -> Names] /\ Whole(p0, puller.vols)
      /\ puller.base \in Pits \cup {None}
  BY <1>1 DEF PullAgrees, At, Pulls
<1>3. journal' = [journal EXCEPT !.receiving = NoReceiving, !.pits = pits]
  BY <1>1, <1>2 DEF PullPublish, Journals
<1>4. e \in Entries /\ e.vols = puller.vols
  BY <1>2 DEF Entries
<1> HIDE DEF e
<1>5. pits = [y \in Published \cup {p0} |-> IF y = p0 THEN e ELSE journal.pits[y]]
  BY <1>1 DEF Put
<1>6. pits \in [Published \cup {p0} -> Entries]
  BY <1>1, <1>4, <1>5
<1>7. pits[p0] = e /\ \A y \in Published : pits[y] = journal.pits[y]
  BY <1>2, <1>5
<1> HIDE DEF pits
<1>8. journal' \in Journals(Published \cup {p0})
  BY <1>1, <1>3, <1>6, NoPullFacts DEF Journals
<1>9. journal'.receiving = NoReceiving /\ journal'.pits = pits
  BY <1>1, <1>3 DEF Journals
<1>10. Published' = Published \cup {p0}
  BY <1>6, <1>9 DEF Published
<1>11. puller' \in Pulls /\ puller'.pc = "idle"
  BY <1>1, NoPullFacts
<1>12. journal'.receiving.pit = None /\ journal'.receiving.base = None
  BY <1>9, NoPullFacts
<1>13. TypeOK'
  BY <1>1, <1>2, <1>8, <1>10, <1>11, <1>12 DEF TypeOK
<1>14. BaseIsThere' /\ NewZvolsAreNew'
  BY <1>12 DEF BaseIsThere, NewZvolsAreNew
<1>15. Locked' /\ PullAgrees' /\ PruneAgrees'
  BY <1>1, <1>11 DEF Locked, PullAgrees, PruneAgrees, At
<1>16. PublishedIsWhole'
  <2> SUFFICES ASSUME NEW p \in Published' \ struck' PROVE Whole(p, journal.pits[p].vols)'
    BY DEF PublishedIsWhole
  <2>1. HeldStays /\ HoldsStay /\ manifests' = manifests /\ struck' = struck
    BY <1>1, PoolStays
  <2>2. PICK vols : vols = journal'.pits[p].vols
    OBVIOUS
  <2>3. Whole(p, vols)
    <3>1. CASE p = p0
      BY <1>2, <1>4, <1>7, <1>9, <2>2, <3>1
    <3>2. CASE p # p0
      BY <1>7, <1>9, <1>10, <2>1, <2>2, <3>2 DEF PublishedIsWhole
    <3> QED BY <3>1, <3>2
  <2>4. p \in manifests' /\ p \notin struck' \cap Published
    BY <2>1, <2>3 DEF Whole
  <2>5. WholeNext(p, vols)
    BY <2>1, <2>3, <2>4, WholeStays
  <2> QED BY <2>2, <2>5 DEF WholeNext, Whole, Good
<1>17. StreamedStays'
  BY <1>1, PoolStays, StreamsStay
<1> QED BY <1>13, <1>14, <1>15, <1>16, <1>17

\* Every step of a pull.
LEMMA PullStepInv == ASSUME Inv, PullStep PROVE Inv'
  BY PullAbandonInv, PullForgetInv, PullPlanInv, PullHoldInv, PullPublishInv, PullQuarantineInv,
     PullRecordInv, PullGivesUpInv, PullReceiveInv, PullBreaksInv, PullMarkInv DEF PullStep

-----------------------------------------------------------------------------
(* Retention, exports and the rest.                                        *)

\* A step that leaves the journal, the pull and what is held of it alone.
LEMMA OtherFrame ==
  ASSUME Inv, UNCHANGED <<journal, puller>>,
         manifests' \subseteq manifests, manifests \ manifests' \subseteq Published \cap struck',
         struck' \subseteq Pits, struck \subseteq struck',
         pool' \in [DOMAIN pool' -> Zvols], DOMAIN pool' \subseteq Names,
         holds' \subseteq Names \X Pits \X {"retain", "export"}, HeldStays, HoldsStay,
         grants' \subseteq Pits, kept' \subseteq Pits,
         pruner' \in Prunes(DOMAIN pruner'.pits), DOMAIN pruner'.pits \subseteq Pits,
         exporter' = exporter, Locked', PruneAgrees'
  PROVE  Inv'
<1> USE DEF Inv, JournalInv
<1>1. Published' = Published
  BY DEF Published
<1>2. TypeOK'
  BY <1>1 DEF TypeOK
<1>3. BaseIsThere' /\ NewZvolsAreNew'
  BY <1>1 DEF BaseIsThere, NewZvolsAreNew, Taken
<1>4. PullAgrees'
  <2>1. ASSUME puller.pc = "publish" PROVE WholeNext(puller.pit, puller.vols)
    <3>1. Whole(puller.pit, puller.vols) /\ puller.pit \notin Published
      BY <2>1 DEF PullAgrees, At
    <3>2. puller.pit \in manifests' /\ puller.pit \notin struck' \cap Published
      BY <3>1 DEF Whole
    <3> QED BY <3>1, <3>2, WholeStays
  <2>2. puller.pc = "publish" => Whole(puller.pit, puller.vols)'
    BY <2>1 DEF WholeNext, Whole, Good
  <2> QED BY <1>1, <2>2 DEF PullAgrees, At
<1>5. PublishedIsWhole'
  BY <1>1, PublishedStay DEF PublishedIsWhole, Whole
<1>6. StreamedStays'
  BY StreamsStay
<1> QED BY <1>2, <1>3, <1>4, <1>5, <1>6

\* The pins are read.
LEMMA PruneReadsInv == ASSUME Inv, PruneReads PROVE Inv'
<1> USE DEF Inv, JournalInv
<1>1. /\ UNCHANGED <<pool, holds, journal, manifests, grants, kept, lock, puller, exporter, struck>>
      /\ pruner.pc = "idle" /\ strays' = {} /\ grants \in SUBSET Pits
      /\ pruner' = [NoPrune EXCEPT !.pc = "read", !.pins = grants]
  BY DEF PruneReads, disk, TypeOK
<1>2. pruner' \in Prunes({})
  BY <1>1, NoPruneFacts DEF Prunes
<1>3. pruner'.pc = "read" /\ pruner'.pins = grants /\ DOMAIN pruner'.pits = {}
  BY <1>1, <1>2, NoPruneFacts DEF Prunes
<1>4. Locked' /\ PruneAgrees'
  BY <1>1, <1>3 DEF Locked, PruneAgrees
<1> QED BY <1>1, <1>2, <1>3, <1>4, PoolStays, OtherFrame DEF TypeOK

\* The parts of a prune.
LEMMA PruneFields ==
  ASSUME NEW P, NEW r \in Prunes(P)
  PROVE  /\ r.pc \in {"idle", "read", "prune", "zvols", "quarantined"} /\ r.pins \subseteq Pits
         /\ r.doomed \subseteq Pits /\ r.freed \subseteq Names /\ r.pits \in [P -> Entries]
         /\ r.gone \subseteq Quarantines
  BY DEF Prunes

\* What is pinned is kept, and the lock is taken with the plan.
LEMMA PrunePlanInv == ASSUME Inv, NEW T, PrunePlan(T) PROVE Inv'
<1> USE DEF Inv, JournalInv
<1> DEFINE doomed == Published \ KeepSet(journal.pits, T, Pinned(pruner.pins))
<1>1. /\ UNCHANGED <<pool, holds, journal, manifests, grants, kept, puller, exporter, struck, strays>>
      /\ pruner.pc = "read" /\ lock = "free"
      /\ journal.pits \in [Published -> Entries] /\ Published \subseteq Pits
      /\ pruner \in Prunes(DOMAIN pruner.pits) /\ pruner.pins \subseteq Pits
  BY JournalFields, PruneFields DEF PrunePlan, disk, TypeOK
<1>2. CASE pruner' = NoPrune /\ UNCHANGED lock
  <2>1. pruner' \in Prunes({}) /\ DOMAIN pruner'.pits = {} /\ pruner'.pc = "idle"
    BY <1>2, NoPruneFacts
  <2>2. Locked' /\ PruneAgrees'
    BY <1>1, <1>2, <2>1 DEF Locked, PruneAgrees
  <2> QED BY <1>1, <2>1, <2>2, PoolStays, OtherFrame DEF TypeOK
<1>3. CASE /\ pruner' = [pruner EXCEPT !.pc = "prune", !.doomed = doomed, !.pits = journal.pits]
           /\ lock' = "prune"
  <2>1. doomed \in SUBSET Pits /\ doomed \subseteq Published
    BY <1>1
  <2>2. doomed \cap (pruner.pins \cup kept \cup {journal.receiving.base}) = {}
    BY DEF KeepSet, Pinned
  <2> HIDE DEF doomed
  <2>3. pruner' \in Prunes(Published)
    BY <1>1, <1>3, <2>1 DEF Prunes
  <2>4. /\ pruner'.pc = "prune" /\ pruner'.doomed = doomed /\ pruner'.pits = journal.pits
        /\ pruner'.pins = pruner.pins /\ DOMAIN pruner'.pits = Published
    BY <1>1, <1>3 DEF Prunes
  <2>5. Locked'
    BY <1>1, <1>3, <2>4 DEF Locked
  <2>6. PruneAgrees'
    BY <1>1, <2>1, <2>2, <2>4 DEF PruneAgrees, BaseIsThere, Published
  <2> QED BY <1>1, <2>3, <2>4, <2>5, <2>6, PoolStays, OtherFrame DEF TypeOK
<1> QED BY <1>2, <1>3 DEF PrunePlan

\* A prune destroys a snapshot that nothing but its own hold protects.
LEMMA PruneDestroysInv ==
  ASSUME Inv, NEW p \in Pits, NEW v \in Volumes, PruneDestroys(p, v) PROVE Inv'
<1> USE DEF Inv, JournalInv
<1> DEFINE z == pruner.pits[p].vols[v]
<1>1. /\ UNCHANGED <<journal, manifests, grants, kept, lock, puller, pruner, exporter, strays>>
      /\ Destroyable(z, p, {"retain"}) /\ pool' = Drop({z}, p) /\ holds' = holds \ {<<z, p, "retain">>}
      /\ struck' = struck \cup {p} /\ p \in pruner.doomed /\ pruner.pc = "prune"
  BY DEF PruneDestroys, Victim
<1>2. p \in Published
  BY <1>1 DEF PruneAgrees
<1> HIDE DEF z
<1>3. /\ pool' \in [DOMAIN pool' -> Zvols] /\ DOMAIN pool' = DOMAIN pool
      /\ \A y \in DOMAIN pool : \A s \in pool[y].snaps : y \notin {z} \/ s.pit # p => s \in pool'[y].snaps
  BY <1>1, DropTypes
<1>4. <<z, p, "export">> \notin holds
  <2>1. ASSUME <<z, p, "export">> \in holds PROVE FALSE
    <3> DEFINE h == <<z, p, "export">>
    <3>1. h \in holds /\ <<h[1], h[2]>> = <<z, p>> /\ h[3] = "export"
      BY <2>1
    <3> HIDE DEF h
    <3> QED BY <1>1, <3>1 DEF Destroyable
  <2> QED BY <2>1
<1>5. HeldStays
  <2> SUFFICES ASSUME NEW y \in DOMAIN pool, NEW s \in pool[y].snaps, NEW t \in {"retain", "export"},
                      <<y, s.pit, t>> \in holds, t = "export" \/ s.pit \notin struck' \cap Published
               PROVE  y \in DOMAIN pool' /\ s \in pool'[y].snaps
    BY DEF HeldStays
  <2>1. CASE y = z /\ s.pit = p
    <3>1. t # "export"
      BY <1>4, <2>1
    <3> QED BY <1>1, <1>2, <2>1, <3>1
  <2>2. CASE y # z \/ s.pit # p
    BY <1>3, <2>2
  <2> QED BY <2>1, <2>2
<1>6. HoldsStay
  <2> SUFFICES ASSUME NEW h \in holds, h \notin holds' PROVE h[3] = "retain" /\ h[2] \in struck' \cap Published
    BY DEF HoldsStay
  <2>1. h = <<z, p, "retain">>
    BY <1>1
  <2> QED BY <1>1, <1>2, <2>1
<1>7. Locked' /\ PruneAgrees'
  BY <1>1 DEF Locked, PruneAgrees, Published
<1> QED BY <1>1, <1>3, <1>5, <1>6, <1>7, OtherFrame DEF TypeOK

\* A PIT whose snapshot is missing was struck.
LEMMA MissingIsStruck ==
  ASSUME Inv, NEW p, Victim(p), Present(p) # Volumes PROVE p \in Published \cap struck
<1> USE DEF Inv, JournalInv
<1>1. p \in Published /\ pruner.pits[p] = journal.pits[p]
  BY DEF Victim, PruneAgrees
<1>2. PICK v \in Volumes : p \notin PitsOn(journal.pits[p].vols[v])
  BY <1>1 DEF Present
<1> DEFINE z == journal.pits[p].vols[v]
<1>3. ~Good(z, p)
  <2> SUFFICES ASSUME Good(z, p) PROVE FALSE
    OBVIOUS
  <2>1. z \in DOMAIN pool /\ [pit |-> p, good |-> TRUE] \in pool[z].snaps
    BY DEF Good
  <2>2. [pit |-> p, good |-> TRUE].pit \in {s.pit : s \in pool[z].snaps}
    BY <2>1
  <2> QED BY <1>2, <2>1, <2>2 DEF PitsOn
<1> QED BY <1>1, <1>3 DEF PublishedIsWhole, Whole

\* What a prune has left of the journal when a PIT is through.
LEMMA UnpublishFacts ==
  ASSUME Inv, NEW p, Victim(p), Unpublish(p)
  PROVE  /\ pruner' \in Prunes(DOMAIN pruner'.pits)
         /\ pruner'.pc = "prune" /\ pruner'.pins = pruner.pins
         /\ pruner'.doomed = pruner.doomed \ {p}
         /\ DOMAIN pruner'.pits = DOMAIN pruner.pits \ {p}
         /\ \A q \in DOMAIN pruner'.pits : pruner'.pits[q] = pruner.pits[q]
<1> USE DEF Inv, JournalInv
<1> DEFINE D == DOMAIN pruner.pits
           doomed == pruner.doomed \ {p}
           pits == Without(pruner.pits, {p})
           freed == pruner.freed \cup Range(pruner.pits[p].vols)
<1>1. pruner \in Prunes(D) /\ p \in pruner.doomed /\ p \in D /\ pruner.pc = "prune"
  BY DEF TypeOK, Victim, PruneAgrees
<1>2. /\ pruner.doomed \subseteq Pits /\ pruner.freed \subseteq Names
      /\ pruner.pits \in [D -> Entries]
  BY <1>1, PruneFields
<1>3. pruner' = [pruner EXCEPT !.doomed = doomed, !.pits = pits, !.freed = freed]
  BY DEF Unpublish
<1>4. pits = [x \in D \ {p} |-> pruner.pits[x]]
  BY DEF Without
<1>5. pits \in [D \ {p} -> Entries] /\ DOMAIN pits = D \ {p} /\ \A q \in D \ {p} : pits[q] = pruner.pits[q]
  BY <1>2, <1>4
<1>6. doomed \in SUBSET Pits
  BY <1>2
<1>7. freed \in SUBSET Names
  <2>1. pruner.pits[p] \in Entries
    BY <1>1, <1>2
  <2>2. pruner.pits[p].vols \in [Volumes -> Names]
    BY <2>1 DEF Entries
  <2> QED BY <1>2, <2>2 DEF Range
<1> HIDE DEF doomed, pits, freed, D
<1>8. pruner' \in Prunes(D \ {p})
  BY <1>1, <1>3, <1>5, <1>6, <1>7 DEF Prunes
<1>9. /\ pruner'.pc = pruner.pc /\ pruner'.pins = pruner.pins /\ pruner'.doomed = doomed
      /\ pruner'.pits = pits
  BY <1>1, <1>3 DEF Prunes
<1> QED BY <1>1, <1>5, <1>8, <1>9 DEF D, doomed

\* A PIT that is gone, or can not be destroyed whole, leaves the journal of the
\* prune; one that is still whole stays.
LEMMA PruneThroughInv ==
  ASSUME Inv, NEW p \in Pits, PruneStuck(p) \/ PruneGone(p) PROVE Inv'
<1> USE DEF Inv, JournalInv
<1>1. /\ UNCHANGED <<pool, holds, journal, grants, kept, lock, puller, exporter, struck, strays>>
      /\ Victim(p) /\ pruner.pc = "prune"
  BY DEF PruneStuck, PruneGone, Victim
<1>2. Published' = Published
  BY <1>1 DEF Published
<1>3. CASE Unpublish(p) /\ Present(p) # Volumes
  <2>1. /\ pruner' \in Prunes(DOMAIN pruner'.pits)
        /\ pruner'.pc = "prune" /\ pruner'.pins = pruner.pins
        /\ pruner'.doomed = pruner.doomed \ {p}
        /\ DOMAIN pruner'.pits = DOMAIN pruner.pits \ {p}
        /\ \A q \in DOMAIN pruner'.pits : pruner'.pits[q] = pruner.pits[q]
    BY <1>1, <1>3, UnpublishFacts
  <2>2. p \in Published \cap struck /\ manifests' = manifests \ {p}
    BY <1>1, <1>3, MissingIsStruck DEF Unpublish
  <2>3. p \in pruner.doomed
    BY <1>1 DEF Victim
  <2>4. Locked' /\ PruneAgrees'
    BY <1>1, <1>2, <2>1, <2>3 DEF Locked, PruneAgrees
  <2> QED BY <1>1, <2>1, <2>2, <2>4, PoolStays, OtherFrame DEF TypeOK
<1>4. CASE pruner' = [pruner EXCEPT !.doomed = @ \ {p}] /\ UNCHANGED manifests
  <2> DEFINE D == DOMAIN pruner.pits
             doomed == pruner.doomed \ {p}
  <2>1. pruner \in Prunes(D) /\ pruner' = [pruner EXCEPT !.doomed = doomed]
    BY <1>4 DEF TypeOK
  <2>2. doomed \in SUBSET Pits
    BY <2>1, PruneFields
  <2>3. doomed \subseteq pruner.doomed
    OBVIOUS
  <2> HIDE DEF doomed, D
  <2>4. pruner' \in Prunes(D)
    BY <2>1, <2>2 DEF Prunes
  <2>5. /\ pruner'.pc = pruner.pc /\ pruner'.pins = pruner.pins /\ pruner'.doomed = doomed
        /\ pruner'.pits = pruner.pits
    BY <2>1 DEF Prunes
  <2>6. Locked' /\ PruneAgrees'
    BY <1>1, <1>2, <2>3, <2>5 DEF Locked, PruneAgrees
  <2> QED BY <1>1, <1>4, <2>4, <2>5, <2>6, PoolStays, OtherFrame DEF TypeOK, D
<1> QED BY <1>3, <1>4, ApplianceAssumption DEF PruneStuck, PruneGone

\* Zvols without a held snapshot are destroyed.
LEMMA WithoutKeeps ==
  ASSUME TypeOK, UNCHANGED <<holds, struck>>, NEW zs, pool' = Without(pool, zs),
         \A z \in zs : z \in DOMAIN pool => pool[z].snaps = {} \/ \A h \in holds : h[1] # z
  PROVE  /\ pool' \in [DOMAIN pool' -> Zvols] /\ DOMAIN pool' \subseteq Names
         /\ HeldStays /\ HoldsStay
<1>1. pool' = [z \in DOMAIN pool \ zs |-> pool[z]] /\ DOMAIN pool' = DOMAIN pool \ zs
  BY DEF Without
<1>2. pool' \in [DOMAIN pool \ zs -> Zvols] /\ DOMAIN pool \ zs \subseteq Names
  BY <1>1 DEF TypeOK
<1>3. ASSUME NEW z \in DOMAIN pool, NEW s \in pool[z].snaps, NEW t, <<z, s.pit, t>> \in holds
      PROVE  z \in DOMAIN pool' /\ s \in pool'[z].snaps
  <2> DEFINE h == <<z, s.pit, t>>
  <2>1. h \in holds /\ h[1] = z
    BY <1>3
  <2> HIDE DEF h
  <2>2. z \notin zs
    BY <2>1
  <2> QED BY <1>1, <2>2
<1>4. HeldStays /\ HoldsStay
  BY <1>3 DEF HeldStays, HoldsStay
<1> QED BY <1>1, <1>2, <1>4

\* Empty zvols go.
LEMMA PruneZvolsInv == ASSUME Inv, PruneZvols PROVE Inv'
<1> USE DEF Inv, JournalInv
<1> DEFINE zs == {z \in pruner.freed \ Named(pruner.pits) : z \in DOMAIN pool /\ pool[z].snaps = {}}
           D == DOMAIN pruner.pits
<1>1. /\ UNCHANGED <<holds, journal, manifests, grants, kept, lock, puller, exporter, struck, strays>>
      /\ pruner.pc = "prune" /\ pruner.doomed = {} /\ pool' = Without(pool, zs)
      /\ pruner' = [pruner EXCEPT !.pc = "zvols"] /\ pruner \in Prunes(D)
  BY DEF PruneZvols, TypeOK
<1>2. \A z \in zs : z \in DOMAIN pool => pool[z].snaps = {}
  OBVIOUS
<1> HIDE DEF zs, D
<1>3. /\ pool' \in [DOMAIN pool' -> Zvols] /\ DOMAIN pool' \subseteq Names
      /\ HeldStays /\ HoldsStay
  BY <1>1, <1>2, WithoutKeeps
<1>4. pruner' \in Prunes(D)
  BY <1>1 DEF Prunes
<1>5. /\ pruner'.pc = "zvols" /\ pruner'.doomed = pruner.doomed /\ pruner'.pits = pruner.pits
  BY <1>1 DEF Prunes
<1>6. Locked' /\ PruneAgrees'
  BY <1>1, <1>5 DEF Locked, PruneAgrees, Published
<1> QED BY <1>1, <1>3, <1>4, <1>5, <1>6, OtherFrame DEF TypeOK, D

\* A quarantined receive goes, when nothing holds its zvols.
LEMMA PruneQuarantineInv ==
  ASSUME Inv, NEW q \in journal.quarantined, PruneQuarantine(q) PROVE Inv'
<1> USE DEF Inv, JournalInv
<1> DEFINE zs == q.zvols \ Named(pruner.pits)
           D == DOMAIN pruner.pits
<1>1. /\ UNCHANGED <<holds, journal, manifests, grants, kept, lock, puller, exporter, struck, strays>>
      /\ pruner.pc = "zvols" /\ pool' = Without(pool, zs) /\ \A h \in holds : h[1] \notin zs
      /\ pruner' = [pruner EXCEPT !.pc = "quarantined", !.pins = {}, !.gone = {q}]
      /\ pruner \in Prunes(D)
  BY DEF PruneQuarantine, TypeOK
<1>2. \A z \in zs : \A h \in holds : h[1] # z
  BY <1>1
<1> HIDE DEF zs, D
<1>3. /\ pool' \in [DOMAIN pool' -> Zvols] /\ DOMAIN pool' \subseteq Names
      /\ HeldStays /\ HoldsStay
  BY <1>1, <1>2, WithoutKeeps
<1>4. {q} \in SUBSET Quarantines /\ {} \in SUBSET Pits
  BY JournalFields DEF TypeOK
<1>5. pruner' \in Prunes(D)
  BY <1>1, <1>4 DEF Prunes
<1>6. /\ pruner'.pc = "quarantined" /\ pruner'.doomed = pruner.doomed /\ pruner'.pits = pruner.pits
  BY <1>1 DEF Prunes
<1>7. Locked' /\ PruneAgrees'
  BY <1>1, <1>6 DEF Locked, PruneAgrees, Published
<1> QED BY <1>1, <1>3, <1>5, <1>6, <1>7, OtherFrame DEF TypeOK, D

\* The journal is saved: what the prune has left of it is whole.
LEMMA PruneSaveInv == ASSUME Inv, PruneSave PROVE Inv'
<1> USE DEF Inv, JournalInv
<1> DEFINE D == DOMAIN pruner.pits
           quarantined == journal.quarantined \ pruner.gone
<1>1. /\ UNCHANGED <<pool, holds, manifests, grants, kept, puller, exporter, strays>>
      /\ pruner.pc \in {"zvols", "quarantined"} /\ pruner' = NoPrune
      /\ struck' = struck \cap D /\ lock' = "free"
      /\ journal' = [journal EXCEPT !.pits = pruner.pits, !.quarantined = quarantined]
      /\ journal \in Journals(Published) /\ pruner \in Prunes(D) /\ D \subseteq Pits
  BY DEF PruneSave, TypeOK
<1>2. quarantined \in SUBSET Quarantines /\ quarantined \subseteq journal.quarantined
  BY <1>1, JournalFields
<1>3. pruner.pits \in [D -> Entries]
  BY <1>1, PruneFields
<1>4. /\ D \subseteq Published /\ \A p \in D : pruner.pits[p] = journal.pits[p]
      /\ journal.receiving.base \in D \cup {None}
  BY <1>1 DEF PruneAgrees
<1>5. lock = "prune"
  BY <1>1 DEF Locked
<1> HIDE DEF D, quarantined
<1>6. journal' \in Journals(D)
  BY <1>1, <1>2, <1>3 DEF Journals
<1>7. /\ journal'.pits = pruner.pits /\ journal'.receiving = journal.receiving
      /\ journal'.quarantined = quarantined
  BY <1>1 DEF Journals
<1>8. Published' = D
  BY <1>7 DEF Published, D
<1>9. pruner' \in Prunes({}) /\ DOMAIN pruner'.pits = {} /\ pruner'.pc = "idle"
  BY <1>1, NoPruneFacts
<1>10. TypeOK'
  BY <1>1, <1>6, <1>7, <1>8, <1>9 DEF TypeOK
<1>11. BaseIsThere'
  BY <1>4, <1>7, <1>8 DEF BaseIsThere
<1>12. NewZvolsAreNew'
  <2>1. Taken' \subseteq Taken
    BY <1>2, <1>7 DEF Taken
  <2> QED BY <1>4, <1>7, <1>8, <2>1 DEF NewZvolsAreNew
<1>13. Locked' /\ PruneAgrees'
  BY <1>1, <1>5, <1>9 DEF Locked, PruneAgrees
<1>14. PullAgrees'
  <2>1. puller.pc = "publish" => Whole(puller.pit, puller.vols)'
    BY <1>1 DEF PullAgrees, At, Whole, Good
  <2> QED BY <1>1, <1>4, <1>7, <1>8, <2>1 DEF PullAgrees, At
<1>15. PublishedIsWhole'
  <2>1. HeldStays /\ HoldsStay
    BY <1>1, PoolStays
  <2>2. ASSUME NEW p \in Published' \ struck' PROVE p \notin struck /\ p \in manifests'
    BY <1>1, <1>4, <1>8 DEF PublishedIsWhole, Whole
  <2> QED BY <1>4, <1>7, <1>8, <2>1, <2>2, PublishedStay
<1>16. StreamedStays'
  BY <1>1, PoolStays, StreamsStay
<1> QED BY <1>10, <1>11, <1>12, <1>13, <1>14, <1>15, <1>16

\* Every step of retention.
LEMMA PruneStepInv == ASSUME Inv, PruneStep PROVE Inv'
  BY PrunePlanInv, PruneReadsInv, PruneZvolsInv, PruneSaveInv, PruneQuarantineInv, PruneThroughInv,
     PruneDestroysInv DEF PruneStep

\* A step of an export: holds come, or an export that has ended loses its own.
LEMMA ExportFrame ==
  ASSUME Inv, UNCHANGED <<pool, journal, manifests, grants, kept, lock, puller, pruner, struck, strays>>,
         holds' \subseteq Names \X Pits \X {"retain", "export"}, exporter' \in Exports,
         \A h \in holds : h[3] = "retain" => h \in holds', StreamedStays'
  PROVE  Inv'
<1> USE DEF Inv, JournalInv
<1>1. Published' = Published
  BY DEF Published
<1>2. TypeOK'
  BY <1>1 DEF TypeOK
<1>3. BaseIsThere' /\ NewZvolsAreNew' /\ Locked' /\ PruneAgrees'
  BY <1>1 DEF BaseIsThere, NewZvolsAreNew, Taken, Locked, PruneAgrees
<1>4. ASSUME NEW p, NEW vols, Whole(p, vols) PROVE WholeNext(p, vols)
  <2>1. ASSUME NEW v \in Volumes PROVE <<vols[v], p, "retain">> \in holds'
    BY <1>4 DEF Whole
  <2> QED BY <1>4, <2>1 DEF Whole, WholeNext, Good
<1>5. PullAgrees'
  <2>1. puller.pc = "publish" => WholeNext(puller.pit, puller.vols)
    BY <1>4 DEF PullAgrees, At
  <2>2. puller.pc = "publish" => Whole(puller.pit, puller.vols)'
    BY <2>1 DEF Whole, WholeNext, Good
  <2> QED BY <1>1, <2>2 DEF PullAgrees, At
<1>6. PublishedIsWhole'
  <2> SUFFICES ASSUME NEW p \in Published' \ struck' PROVE Whole(p, journal.pits[p].vols)'
    BY DEF PublishedIsWhole
  <2>1. WholeNext(p, journal.pits[p].vols)
    BY <1>1, <1>4 DEF PublishedIsWhole
  <2> QED BY <2>1 DEF Whole, WholeNext, Good
<1> QED BY <1>2, <1>3, <1>5, <1>6

\* No export.
LEMMA NoExportFacts == NoExport \in Exports /\ NoExport.pc = "idle"
  BY DEF NoExport, Exports

\* An export is planned.
LEMMA ExportPlanInv ==
  ASSUME Inv, NEW p \in Pits, NEW b \in Pits \cup {None}, ExportPlan(p, b) PROVE Inv'
<1> USE DEF Inv, JournalInv
<1> DEFINE v == CHOOSE v \in Volumes : TRUE
           snaps == {<<journal.pits[q].vols[v], q>> : q \in {p, b} \ {None}}
<1>1. /\ UNCHANGED <<pool, holds, journal, manifests, grants, kept, lock, puller, pruner, struck, strays>>
      /\ {p, b} \ {None} \subseteq Published /\ exporter' = [pc |-> "planned", snaps |-> snaps]
  BY DEF ExportPlan, disk
<1>2. v \in Volumes
  BY ApplianceAssumption
<1> HIDE DEF v
<1>3. ASSUME NEW q \in {p, b} \ {None} PROVE <<journal.pits[q].vols[v], q>> \in Names \X Pits
  <2>1. journal.pits \in [Published -> Entries] /\ Published \subseteq Pits
    BY JournalFields DEF TypeOK
  <2>2. journal.pits[q] \in Entries /\ q \in Pits
    BY <1>1, <2>1
  <2>3. journal.pits[q].vols[v] \in Names
    BY <1>2, <2>2 DEF Entries
  <2> QED BY <2>2, <2>3
<1>4. snaps \in SUBSET (Names \X Pits)
  BY <1>3
<1> HIDE DEF snaps
<1>5. exporter' \in Exports
  BY <1>1, <1>4 DEF Exports
<1>6. StreamedStays'
  BY <1>1 DEF StreamedStays
<1> QED BY <1>1, <1>5, <1>6, ExportFrame DEF TypeOK

\* The snapshots are held, if they are there.
LEMMA ExportHoldInv == ASSUME Inv, ExportHold PROVE Inv'
<1> USE DEF Inv, JournalInv
<1> DEFINE new == {<<s[1], s[2], "export">> : s \in exporter.snaps}
<1>1. /\ UNCHANGED <<pool, journal, manifests, grants, kept, lock, puller, pruner, struck, strays>>
      /\ exporter \in Exports
  BY DEF ExportHold, TypeOK
<1>2. CASE exporter' = NoExport /\ UNCHANGED holds
  <2>1. exporter' \in Exports /\ StreamedStays'
    BY <1>2, NoExportFacts DEF StreamedStays
  <2> QED BY <1>1, <1>2, <2>1, ExportFrame DEF TypeOK
<1>3. CASE /\ holds' = holds \cup new /\ exporter' = [exporter EXCEPT !.pc = "streaming"]
           /\ \A s \in exporter.snaps : s[2] \in PitsOn(s[1])
  <2>1. exporter.snaps \subseteq Names \X Pits
    BY <1>1 DEF Exports
  <2>2. new \subseteq Names \X Pits \X {"retain", "export"}
    <3>1. ASSUME NEW s \in exporter.snaps PROVE s[1] \in Names /\ s[2] \in Pits
      BY <2>1
    <3> QED BY <3>1
  <2>3. exporter' \in Exports
    BY <1>1, <1>3 DEF Exports
  <2>4. exporter'.snaps = exporter.snaps
    BY <1>1, <1>3 DEF Exports
  <2>5. StreamedStays'
    BY <1>1, <1>3, <2>4 DEF StreamedStays, PitsOn
  <2>6. holds' \subseteq Names \X Pits \X {"retain", "export"}
    BY <1>3, <2>2 DEF TypeOK
  <2> QED BY <1>1, <1>3, <2>3, <2>5, <2>6, ExportFrame
<1> QED BY <1>2, <1>3 DEF ExportHold

\* The stream has ended.
LEMMA ExportEndInv == ASSUME Inv, ExportEnd PROVE Inv'
<1> USE DEF Inv, JournalInv
<1> DEFINE old == {<<s[1], s[2], "export">> : s \in exporter.snaps}
<1>1. /\ UNCHANGED <<pool, journal, manifests, grants, kept, lock, puller, pruner, struck, strays>>
      /\ holds' = holds \ old /\ exporter' = NoExport
  BY DEF ExportEnd
<1>2. exporter' \in Exports /\ StreamedStays'
  BY <1>1, NoExportFacts DEF StreamedStays
<1>3. \A h \in old : h[3] = "export"
  OBVIOUS
<1> HIDE DEF old
<1>4. \A h \in holds : h[3] = "retain" => h \in holds'
  BY <1>1, <1>3
<1> QED BY <1>1, <1>2, <1>4, ExportFrame DEF TypeOK

\* Grants and holds come and go, under the lock where they come.
LEMMA GrantInv ==
  ASSUME Inv, NEW p \in Pits, Grant(p) \/ GrantEnds(p) \/ AdminHold(p) PROVE Inv'
<1> USE DEF Inv, JournalInv
<1>1. /\ UNCHANGED <<pool, holds, journal, manifests, lock, puller, pruner, exporter, struck>>
      /\ grants' \subseteq Pits /\ kept' \subseteq Pits
      /\ pruner.pc # "idle" => grants' \ strays' \subseteq grants \ strays
      /\ kept' = kept \/ lock = "free"
  BY DEF Grant, GrantEnds, AdminHold, disk, TypeOK
<1>2. Locked' /\ PruneAgrees'
  BY <1>1 DEF Locked, PruneAgrees, Published
<1> QED BY <1>1, <1>2, PoolStays, OtherFrame DEF TypeOK

\* A crash leaves what is on disk.
LEMMA CrashInv == ASSUME Inv, Crash PROVE Inv'
<1> USE DEF Inv, JournalInv
<1>1. /\ UNCHANGED <<pool, holds, journal, manifests, grants, kept, struck, strays>>
      /\ puller' = NoPull /\ pruner' = NoPrune /\ exporter' = NoExport /\ lock' = "free"
  BY DEF Crash, disk
<1>2. Published' = Published
  BY <1>1 DEF Published
<1>3. /\ puller' \in Pulls /\ puller'.pc = "idle" /\ exporter' \in Exports /\ exporter'.pc = "idle"
      /\ pruner' \in Prunes({}) /\ DOMAIN pruner'.pits = {} /\ pruner'.pc = "idle"
  BY <1>1, NoPullFacts, NoExportFacts, NoPruneFacts
<1>4. TypeOK'
  BY <1>1, <1>2, <1>3 DEF TypeOK
<1>5. BaseIsThere' /\ NewZvolsAreNew'
  BY <1>1, <1>2 DEF BaseIsThere, NewZvolsAreNew, Taken
<1>6. Locked' /\ PullAgrees' /\ PruneAgrees' /\ StreamedStays'
  BY <1>1, <1>3 DEF Locked, PullAgrees, PruneAgrees, StreamedStays, At
<1>7. PublishedIsWhole'
  BY <1>1, <1>2, PoolStays, PublishedStay DEF PublishedIsWhole, Whole
<1> QED BY <1>4, <1>5, <1>6, <1>7

\* Inv is inductive.
LEMMA NextInv == ASSUME Inv, [Next]_vars PROVE Inv'
<1>1. CASE UNCHANGED vars
  BY <1>1 DEF Inv, JournalInv, vars, disk, TypeOK, Published, BaseIsThere, NewZvolsAreNew, Taken, Locked,
              PullAgrees, PruneAgrees, At, PublishedIsWhole, Whole, Good, StreamedStays, PitsOn
<1>2. CASE Outside
  BY <1>2, PullStartInv, ExportPlanInv, ExportHoldInv, ExportEndInv, GrantInv, CrashInv DEF Outside
<1> QED BY <1>1, <1>2, PullStepInv, PruneStepInv DEF Next

\* The three invariants hold together.
LEMMA Invariance == Spec => []Inv
  BY InitInv, NextInv, PTL DEF Spec

-----------------------------------------------------------------------------
(* What holds of the appliance.                                            *)

\* Pulls, prunes and the journal agree, although a pull transfers without the
\* lock and either may be cut short (pull.rs, retention.rs, journal.rs).
THEOREM JournalSound == Spec => []JournalInv
<1>1. Inv => JournalInv
  BY DEF Inv
<1> QED BY <1>1, Invariance, PTL

\* What is published can be restored: every volume of it is in the pool, checked
\* and held, with its manifest, unless a prune has begun on it (Puller::publish,
\* Puller::quarantine, prune).
THEOREM PublishedStaysWhole == Spec => []PublishedIsWhole
<1>1. Inv => PublishedIsWhole
  BY DEF Inv
<1> QED BY <1>1, Invariance, PTL

\* What is streamed out is not destroyed under the stream (Exporter::export and
\* the prunes meanwhile).
THEOREM StreamsAreSafe == Spec => []StreamedStays
<1>1. Inv => StreamedStays
  BY DEF Inv
<1> QED BY <1>1, Invariance, PTL

\* Only a prune strikes a PIT, and only one that it doomed.
LEMMA OnlyPrunesStrike ==
  ASSUME [Next]_vars, NEW p \in struck' \ struck
  PROVE  pruner.pc = "prune" /\ p \in pruner.doomed
<1>1. ASSUME ~\E q \in Pits, v \in Volumes : PruneDestroys(q, v) PROVE struck' \subseteq struck
  <2>1. CASE PullStep
    BY <2>1 DEF PullStep, PullAbandon, PullForget, PullPlan, PullHold, PullPublish, PullQuarantine,
                PullRecord, PullGivesUp, PullReceive, PullBreaks, PullMark
  <2>2. CASE PruneStep
    BY <1>1, <2>2 DEF PruneStep, PrunePlan, PruneReads, PruneZvols, PruneSave, PruneQuarantine,
                      PruneStuck, PruneGone
  <2>3. CASE Outside
    BY <2>3 DEF Outside, PullStart, ExportPlan, ExportHold, ExportEnd, Grant, GrantEnds, AdminHold, Crash
  <2> QED BY <2>1, <2>2, <2>3 DEF Next, vars
<1>2. PICK q \in Pits, v \in Volumes : PruneDestroys(q, v)
  BY <1>1
<1> QED BY <1>2 DEF PruneDestroys, Victim

\* A prune destroys nothing of a PIT that is pinned: not of one that an
\* administrator holds, that a grant or a branch root named when the prune read
\* them, or that the receive in progress is based on (retention::prune, the
\* loop in daemon.rs, and pulls that transfer meanwhile).
THEOREM PinnedAreSpared == Spec => PinnedSurvive
<1>1. ASSUME Inv, [Next]_vars
      PROVE  [(struck' \ struck) \cap (kept \cup (grants \ strays) \cup {journal.receiving.base}) = {}]_vars
  <2>1. ASSUME NEW p \in struck' \ struck
        PROVE  p \notin kept \cup (grants \ strays) \cup {journal.receiving.base}
    <3>1. pruner.pc = "prune" /\ p \in pruner.doomed
      BY <1>1, OnlyPrunesStrike
    <3> QED BY <1>1, <3>1 DEF Inv, JournalInv, PruneAgrees
  <2> QED BY <2>1
<1> QED BY <1>1, Invariance, PTL DEF Spec, PinnedSurvive

=============================================================================
