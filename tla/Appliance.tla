----------------------------- MODULE Appliance -----------------------------
(***************************************************************************)
(* A backup appliance and one VM: src/v3/crates/bmac-backupd/src/.         *)
(*                                                                         *)
(* pull.rs receives an offered point in time (PIT), volume by volume, into *)
(* zvols of the pool and publishes it in the journal; checkin.rs repeats   *)
(* what did not succeed; retention.rs prunes published PITs; grants.rs and *)
(* export.rs let a cluster read them back.  The journal file is written    *)
(* under a lock that a pull releases while it transfers.  bmac-backupd may *)
(* die at any step: the pool, the journal, the manifests and the grants    *)
(* are what it finds again.                                                *)
(*                                                                         *)
(* A zvol is its snapshots, the receive it was left with and the snapshot  *)
(* it is a clone of.  A zvol is named by its branch, the number of the     *)
(* lineage and the volume.  A snapshot is its PIT and whether its GUID and *)
(* size are the manifest's; those of a zvol are in the order of their      *)
(* PITs, because a receive goes only onto its base as the newest one.      *)
(***************************************************************************)
EXTENDS Naturals, FiniteSets, FiniteSetsExt, Functions

CONSTANTS
    Newest,     \* PITs are 1..Newest, in the order they were taken
    BranchOf,   \* PIT -> its branch
    Volumes,    \* the VM's volumes, in the manifest's order (1, 2, ...)
    MaxLineage, \* bound: lineages of one branch
    MaxPulls,   \* bound: attempts to pull
    MaxReads,   \* bound: exports, grants and administrator's holds
    MaxFaults   \* bound: crashes, failed commands and snapshots that differ

Pits == 1 .. Newest

ASSUME ApplianceAssumption ==
    /\ Newest \in Nat /\ MaxLineage \in Nat
    /\ Volumes \subseteq Nat /\ Volumes # {}
    /\ DOMAIN BranchOf = Pits

VARIABLES
    pool,       \* the zvols: name -> [snaps, token, origin]
    holds,      \* ZFS holds: <<zvol, PIT, tag>>
    journal,    \* Journal: pits, receiving, quarantined
    manifests,  \* the PITs whose manifest file is there
    grants,     \* the PITs live grants and pending branch roots name
    kept,       \* the PITs an administrator holds
    lock,       \* who has the journal lock: "free", "pull" or "prune"
    puller,     \* Puller::pull: where it is, its offer and its plan
    pruner,     \* retention::prune and the loop around it
    exporter,   \* one export and its stream
    struck,     \* ghost: PITs a prune destroyed snapshots of
    strays,     \* ghost: PITs granted after the prune in progress read the grants
    asked,      \* how much was asked for, by kind
    faults

disk == <<pool, holds, journal, manifests>>
vars == <<disk, grants, kept, lock, puller, pruner, exporter, struck, strays, asked, faults>>

None == 0
NoReceiving == [pit |-> None, base |-> None, vols |-> <<>>, done |-> {}]
NoPull == [pc |-> "idle", pit |-> None, base |-> None, vols |-> <<>>, method |-> <<>>,
           done |-> {}]
NoPrune == [pc |-> "idle", pins |-> {}, doomed |-> {}, freed |-> {}, pits |-> <<>>,
            gone |-> {}]
NoExport == [pc |-> "idle", snaps |-> {}]

Without(f, S) == [x \in DOMAIN f \ S |-> f[x]]
Put(f, x, v) == [y \in DOMAIN f \cup {x} |-> IF y = x THEN v ELSE f[y]]
Published == DOMAIN journal.pits
Fault == faults < MaxFaults /\ faults' = faults + 1
Asked(what, max) == asked[what] < max /\ asked' = [asked EXCEPT ![what] = @ + 1]

-----------------------------------------------------------------------------
(* The pool: what ZFS answers and allows.                                  *)

PitsOn(z) == IF z \in DOMAIN pool THEN {s.pit : s \in pool[z].snaps} ELSE {}
Good(z, p) == z \in DOMAIN pool /\ [pit |-> p, good |-> TRUE] \in pool[z].snaps
Token(z) == IF z \in DOMAIN pool THEN pool[z].token ELSE None
TipOf(z) == IF PitsOn(z) = {} THEN None ELSE Max(PitsOn(z))
Drop(zs, p) ==
    [z \in DOMAIN pool |-> IF z \in zs
        THEN [pool[z] EXCEPT !.snaps = {s \in @ : s.pit # p}] ELSE pool[z]]

\* zfs destroy refuses a snapshot that is held or that a clone came from.
Destroyable(z, p, tags) ==
    /\ \A h \in holds : <<h[1], h[2]>> = <<z, p>> => h[3] \in tags
    /\ \A y \in DOMAIN pool : pool[y].origin # <<z, p>>

\* zfs receive -s, never -F: a full stream or a clone makes a new zvol, an
\* incremental goes only onto its base as the newest snapshot, and what an
\* interrupted receive left is resumed by its token.
Receivable(v) ==
    LET z == puller.vols[v] IN
    \/ Token(z) = puller.pit
    \/ puller.method[v] = "full" /\ z \notin DOMAIN pool
    \/ /\ puller.method[v] = "clone" /\ z \notin DOMAIN pool
       /\ puller.base \in PitsOn(journal.pits[puller.base].vols[v])
    \/ /\ puller.method[v] = "incremental" /\ Token(z) = None
       /\ puller.base = TipOf(z)

\* The zvol as it is while the stream comes in, with the token.
Begun(v) ==
    LET z == puller.vols[v] IN
    IF z \in DOMAIN pool THEN [pool[z] EXCEPT !.token = puller.pit]
    ELSE [snaps |-> {}, token |-> puller.pit,
          origin |-> IF puller.method[v] = "clone"
                     THEN <<journal.pits[puller.base].vols[v], puller.base>> ELSE <<>>]

-----------------------------------------------------------------------------
(* Puller::pull.                                                           *)

At(pc) == puller.pc = pc
Goes(pc) == puller' = [puller EXCEPT !.pc = pc]

\* The cluster offers a PIT newer than what is here, from a base it knows to
\* be published or in full (also Agent::repair, with its head for a base).
PullStart(p, b) ==
    /\ At("idle") /\ lock = "free" /\ Asked("pulls", MaxPulls)
    /\ p \notin Published
    /\ \A q \in Published : BranchOf[q] = BranchOf[p] => q < p
    /\ b = None \/ (b \in Published /\ b < p)
    /\ lock' = "pull"
    /\ puller' = [NoPull EXCEPT !.pc = "look", !.pit = p, !.base = b]
    /\ UNCHANGED <<disk, grants, kept, pruner, exporter, struck, strays, faults>>

Stale == journal.receiving.pit \notin {None, puller.pit}

\* What an aborted receive leaves: nothing of a zvol it had created.
Aborted(zs) ==
    [z \in {y \in DOMAIN pool : y \notin zs \/ pool[y].snaps # {}} |->
        IF z \in zs THEN [pool[z] EXCEPT !.token = None] ELSE pool[z]]

\* Puller::abandon: the receives in progress of another PIT are aborted, where
\* that works, and then the journal forgets it.
PullAbandon ==
    /\ At("look") /\ Stale
    /\ LET left == {z \in Range(journal.receiving.vols) : Token(z) # None} IN
       \/ pool' = Aborted(left) /\ UNCHANGED faults
       \/ left # {} /\ Fault /\ \E S \in SUBSET left : S # left /\ pool' = Aborted(S)
    /\ Goes("forget")
    /\ UNCHANGED <<holds, journal, manifests, grants, kept, lock, pruner, exporter, struck, strays, asked>>

PullForget ==
    /\ At("forget")
    /\ journal' = [journal EXCEPT !.receiving = NoReceiving]
    /\ Goes("look")
    /\ UNCHANGED <<pool, holds, manifests, grants, kept, lock, pruner, exporter, struck, strays, asked, faults>>

\* Journal::datasets, and the quarantined ones a new lineage avoids as well.
Named(pits) == (UNION {Range(pits[p].vols) : p \in DOMAIN pits}) \cup Range(journal.receiving.vols)
Taken == UNION {q.zvols : q \in journal.quarantined}

\* The first lineage of the branch that no zvol known to the journal is in.
Lineage(b) ==
    CHOOSE n \in 1 .. MaxLineage + 1 :
        LET Free(k) == \A v \in Volumes : <<b, k, v>> \notin Named(journal.pits) \cup Taken
        IN  Free(n) /\ \A k \in 1 .. n - 1 : ~Free(k)

SameBranch == puller.base # None /\ BranchOf[puller.base] = BranchOf[puller.pit]

\* plan(): the zvols to receive into, and method_for().
Targets ==
    IF SameBranch THEN journal.pits[puller.base].vols
    ELSE [v \in Volumes |-> <<BranchOf[puller.pit], Lineage(BranchOf[puller.pit]), v>>]
Methods ==
    [v \in Volumes |-> IF puller.base = None THEN "full"
                       ELSE IF SameBranch THEN "incremental" ELSE "clone"]

Resumes == journal.receiving.pit = puller.pit /\ journal.receiving.base = puller.base

PullPlan ==
    /\ At("look") /\ ~Stale
    /\ puller.base # None => puller.base \in Published
    /\ IF Resumes
       THEN /\ puller' = [puller EXCEPT !.pc = "transfer", !.vols = journal.receiving.vols,
                                        !.method = Methods, !.done = journal.receiving.done]
            /\ UNCHANGED journal
       ELSE /\ SameBranch \/ Lineage(BranchOf[puller.pit]) <= MaxLineage
            /\ puller' = [puller EXCEPT !.pc = "transfer", !.vols = Targets, !.method = Methods]
            /\ journal' = [journal EXCEPT !.receiving =
                  [pit |-> puller.pit, base |-> puller.base, vols |-> Targets, done |-> {}]]
    /\ lock' = "free"
    /\ UNCHANGED <<pool, holds, manifests, grants, kept, pruner, exporter, struck, strays, asked, faults>>

\* The volume whose turn it is.
Turn(v) == v \in Volumes \ puller.done /\ \A u \in Volumes \ puller.done : v <= u

\* Puller::receive_volume: the snapshot is here already, or it is received;
\* what comes may not be what the manifest describes.
PullReceive(v) ==
    /\ At("transfer") /\ Turn(v)
    /\ LET z == puller.vols[v]
           Done(good) == Put(pool, z, [Begun(v) EXCEPT !.token = None,
                                !.snaps = @ \cup {[pit |-> puller.pit, good |-> good]}])
       IN \/ Good(z, puller.pit) /\ UNCHANGED <<pool, faults>>
          \/ /\ ~Good(z, puller.pit) /\ Receivable(v)
             /\ \/ pool' = Done(TRUE) /\ UNCHANGED faults
                \/ pool' = Done(FALSE) /\ Fault
    /\ puller' = [puller EXCEPT !.pc = "mark"]
    /\ UNCHANGED <<holds, journal, manifests, grants, kept, lock, pruner, exporter, struck, strays, asked>>

\* The stream breaks; the pull is tried again later.
PullBreaks(v) ==
    /\ At("transfer") /\ Turn(v)
    /\ ~Good(puller.vols[v], puller.pit) /\ Receivable(v)
    /\ pool' = Put(pool, puller.vols[v], Begun(v))
    /\ puller' = NoPull
    /\ UNCHANGED <<holds, journal, manifests, grants, kept, lock, pruner, exporter, struck, strays, asked, faults>>

PullMark(v) ==
    /\ At("mark") /\ Turn(v) /\ lock = "free"
    /\ puller' = [puller EXCEPT !.pc = "transfer", !.done = @ \cup {v}]
    /\ journal' = IF journal.receiving.pit = puller.pit
                  THEN [journal EXCEPT !.receiving.done = @ \cup {v}] ELSE journal
    /\ UNCHANGED <<pool, holds, manifests, grants, kept, lock, pruner, exporter, struck, strays, asked, faults>>

Checked == \A v \in Volumes : Good(puller.vols[v], puller.pit)
Received == At("transfer") /\ puller.done = Volumes

PullHold_unchecked ==
    /\ Received
    /\ holds' = holds \cup {<<puller.vols[v], puller.pit, "retain">> : v \in Volumes}
    /\ manifests' = manifests \cup {puller.pit}
    /\ Goes("publish")
    /\ UNCHANGED <<pool, journal, grants, kept, lock, pruner, exporter, struck, strays, asked, faults>>

\* Puller::publish checks the snapshots, holds them and writes the manifest.
PullHold ==
    /\ Received /\ Checked
    /\ holds' = holds \cup {<<puller.vols[v], puller.pit, "retain">> : v \in Volumes}
    /\ manifests' = manifests \cup {puller.pit}
    /\ Goes("publish")
    /\ UNCHANGED <<pool, journal, grants, kept, lock, pruner, exporter, struck, strays, asked, faults>>

PullPublish ==
    /\ At("publish") /\ lock = "free"
    /\ journal' = [journal EXCEPT
          !.receiving = IF @.pit = puller.pit THEN NoReceiving ELSE @,
          !.pits = Put(@, puller.pit, [base |-> puller.base, vols |-> puller.vols])]
    /\ puller' = NoPull
    /\ UNCHANGED <<pool, holds, manifests, grants, kept, lock, pruner, exporter, struck, strays, asked, faults>>

\* Puller::quarantine: incremental snapshots go (a failure is ignored), other
\* zvols stay and are recorded.
PullQuarantine ==
    /\ Received /\ ~Checked /\ lock = "free"
    /\ lock' = "pull"
    /\ LET onto == {puller.vols[v] : v \in {u \in Volumes : puller.method[u] = "incremental"}}
       IN \/ pool' = Drop({z \in onto : Destroyable(z, puller.pit, {})}, puller.pit)
             /\ UNCHANGED faults
          \/ onto # {} /\ Fault /\ UNCHANGED pool
    /\ Goes("quarantine")
    /\ UNCHANGED <<holds, journal, manifests, grants, kept, pruner, exporter, struck, strays, asked>>

PullRecord ==
    /\ At("quarantine")
    /\ journal' = [journal EXCEPT
          !.receiving = IF @.pit = puller.pit THEN NoReceiving ELSE @,
          !.quarantined = @ \cup {[pit |-> puller.pit, zvols |->
              {puller.vols[v] : v \in {u \in Volumes : puller.method[u] # "incremental"}}]}]
    /\ lock' = "free"
    /\ puller' = NoPull
    /\ UNCHANGED <<pool, holds, manifests, grants, kept, pruner, exporter, struck, strays, asked, faults>>

\* Every other error ends the attempt: no room, the claim refused, no host
\* has it, "already exists", a failed command or a failed write.
PullGivesUp ==
    /\ ~At("idle")
    /\ puller' = NoPull
    /\ lock' = IF lock = "pull" THEN "free" ELSE lock
    /\ UNCHANGED <<disk, grants, kept, pruner, exporter, struck, strays, asked, faults>>

-----------------------------------------------------------------------------
(* Retention: plan() with appliance_keep, and prune().                     *)

Of(b, P) == {p \in P : BranchOf[p] = b}
NewestOf(P) == {p \in P : \A q \in P : q <= p}

KeepSet_unpinned(pits, tiers, pinned) ==
    LET P == DOMAIN pits IN
    NewestOf(P) \cup tiers \cup UNION {NewestOf(Of(BranchOf[p], P)) : p \in P}

\* appliance_keep: the newest PIT, those the calendar's tiers keep as of now,
\* every branch's head and newest full receive, every fork with the PIT it
\* came from, and the pinned ones.
KeepSet(pits, tiers, pinned) ==
    LET P == DOMAIN pits
        Seeds == {p \in P : pits[p].base = None}
        Forks == {p \in P : pits[p].base \in P /\ BranchOf[pits[p].base] # BranchOf[p]}
    IN  NewestOf(P) \cup tiers
        \cup (UNION {NewestOf(Of(BranchOf[p], P)) \cup NewestOf(Of(BranchOf[p], Seeds)) : p \in P})
        \cup Forks \cup {pits[p].base : p \in Forks}
        \cup pinned

\* What prune() pins: the reasons it was given, the administrator's holds and
\* the base of the receive in progress.
Pinned_withoutTransfer(pins) == pins \cup kept
Pinned(pins) == pins \cup kept \cup {journal.receiving.base}

\* The loop in daemon.rs reads the grants and the branch roots ...
PruneReads ==
    /\ pruner.pc = "idle"
    /\ pruner' = [NoPrune EXCEPT !.pc = "read", !.pins = grants]
    /\ strays' = {}
    /\ UNCHANGED <<disk, grants, kept, lock, puller, exporter, struck, asked, faults>>

\* ... and then prune() takes the lock and plans.
PrunePlan(tiers) ==
    /\ pruner.pc = "read" /\ lock = "free"
    /\ LET doomed == Published \ KeepSet(journal.pits, tiers, Pinned(pruner.pins)) IN
       IF doomed = {} /\ journal.quarantined = {}
       THEN pruner' = NoPrune /\ UNCHANGED lock
       ELSE /\ pruner' = [pruner EXCEPT !.pc = "prune", !.doomed = doomed, !.pits = journal.pits]
            /\ lock' = "prune"
    /\ UNCHANGED <<disk, grants, kept, puller, exporter, struck, strays, asked, faults>>

\* The doomed PIT at hand, and its snapshots that are still there.
Victim(p) == pruner.pc = "prune" /\ p \in pruner.doomed /\ \A q \in pruner.doomed : p <= q
Present(p) == {v \in Volumes : p \in PitsOn(pruner.pits[p].vols[v])}

\* destroy_pit: the hold is released and the snapshot destroyed.
PruneDestroys(p, v) ==
    /\ Victim(p) /\ v \in Present(p) /\ \A u \in Present(p) : v <= u
    /\ LET z == pruner.pits[p].vols[v] IN
       /\ Destroyable(z, p, {"retain"})
       /\ pool' = Drop({z}, p)
       /\ holds' = holds \ {<<z, p, "retain">>}
    /\ struck' = struck \cup {p}
    /\ UNCHANGED <<journal, manifests, grants, kept, lock, puller, pruner, exporter, strays, asked, faults>>

Unpublish(p) ==
    /\ pruner' = [pruner EXCEPT !.doomed = @ \ {p}, !.pits = Without(@, {p}),
                                !.freed = @ \cup Range(pruner.pits[p].vols)]
    /\ manifests' = manifests \ {p}

\* A destroy failed, and the hold is back: with nothing destroyed the PIT
\* stays published, otherwise it goes like one that is destroyed.
PruneStuck(p) ==
    /\ Victim(p) /\ Present(p) # {}
    /\ \/ /\ \E v \in Present(p) : /\ \A u \in Present(p) : v <= u
                                   /\ ~Destroyable(pruner.pits[p].vols[v], p, {"retain"})
          /\ UNCHANGED faults
       \/ Fault
    /\ IF Present(p) = Volumes
       THEN pruner' = [pruner EXCEPT !.doomed = @ \ {p}] /\ UNCHANGED manifests
       ELSE Unpublish(p)
    /\ UNCHANGED <<pool, holds, journal, grants, kept, lock, puller, exporter, struck, strays, asked>>

PruneGone_missingFails(p) ==
    /\ Victim(p) /\ Present(p) = {}
    /\ pruner' = [pruner EXCEPT !.doomed = @ \ {p}]
    /\ UNCHANGED <<disk, grants, kept, lock, puller, exporter, struck, strays, asked, faults>>

PruneGone(p) ==
    /\ Victim(p) /\ Present(p) = {}
    /\ Unpublish(p)
    /\ UNCHANGED <<pool, holds, journal, grants, kept, lock, puller, exporter, struck, strays, asked, faults>>

\* Zvols nothing uses any more go when no snapshot is left on them.  (The
\* journal named by pruner.pits keeps the receive in progress.)
PruneZvols ==
    /\ pruner.pc = "prune" /\ pruner.doomed = {}
    /\ pool' = Without(pool, {z \in pruner.freed \ Named(pruner.pits) :
                                 z \in DOMAIN pool /\ pool[z].snaps = {}})
    /\ pruner' = [pruner EXCEPT !.pc = "zvols"]
    /\ UNCHANGED <<holds, journal, manifests, grants, kept, lock, puller, exporter, struck, strays, asked, faults>>

\* A quarantined receive old enough goes with its zvols, which nothing uses.
PruneQuarantine(q) ==
    /\ pruner.pc = "zvols" /\ q \in journal.quarantined
    /\ LET gone == q.zvols \ Named(pruner.pits) IN
       /\ \A y \in DOMAIN pool : pool[y].origin # <<>> => pool[y].origin[1] \notin gone
       /\ \A h \in holds : h[1] \notin gone
       /\ pool' = Without(pool, gone)
    /\ pruner' = [pruner EXCEPT !.pc = "quarantined", !.pins = {}, !.gone = {q}]
    /\ UNCHANGED <<holds, journal, manifests, grants, kept, lock, puller, exporter, struck, strays, asked, faults>>

\* Only now is the journal saved.
PruneSave ==
    /\ pruner.pc \in {"zvols", "quarantined"}
    /\ journal' = [journal EXCEPT !.pits = pruner.pits, !.quarantined = @ \ pruner.gone]
    /\ struck' = struck \cap DOMAIN pruner.pits
    /\ lock' = "free"
    /\ pruner' = NoPrune
    /\ UNCHANGED <<pool, holds, manifests, grants, kept, puller, exporter, strays, asked, faults>>

-----------------------------------------------------------------------------
(* Exports: plan_export, export and stream.                                *)

\* Exporter::check_live.
CheckLive(snaps) == \A s \in snaps : Good(s[1], s[2])

\* The journal is read without the lock and the snapshots are looked up.
ExportPlan(p, b) ==
    /\ exporter.pc = "idle" /\ Asked("reads", MaxReads)
    /\ p \in Published /\ (b = None \/ (b \in Published /\ b < p))
    /\ LET v == CHOOSE v \in Volumes : TRUE
           snaps == {<<journal.pits[q].vols[v], q>> : q \in {p, b} \ {None}}
       IN  /\ CheckLive(snaps)
           /\ exporter' = [pc |-> "planned", snaps |-> snaps]
    /\ UNCHANGED <<disk, grants, kept, lock, puller, pruner, struck, strays, faults>>

ExportHold_unheld ==
    /\ exporter.pc = "planned"
    /\ exporter' = [exporter EXCEPT !.pc = "streaming"]
    /\ UNCHANGED <<disk, grants, kept, lock, puller, pruner, struck, strays, asked, faults>>

\* Both snapshots are held under a tag of this export, or it is refused.
ExportHold ==
    /\ exporter.pc = "planned"
    /\ IF \A s \in exporter.snaps : s[2] \in PitsOn(s[1])
       THEN /\ holds' = holds \cup {<<s[1], s[2], "export">> : s \in exporter.snaps}
            /\ exporter' = [exporter EXCEPT !.pc = "streaming"]
       ELSE exporter' = NoExport /\ UNCHANGED holds
    /\ UNCHANGED <<pool, journal, manifests, grants, kept, lock, puller, pruner, struck, strays, asked, faults>>

\* The stream ends, for whatever reason, and the holds are released.
ExportEnd ==
    /\ exporter.pc = "streaming"
    /\ holds' = holds \ {<<s[1], s[2], "export">> : s \in exporter.snaps}
    /\ exporter' = NoExport
    /\ UNCHANGED <<pool, journal, manifests, grants, kept, lock, puller, pruner, struck, strays, asked, faults>>

-----------------------------------------------------------------------------
(* The administrator, the clock and the end of the process.                *)

\* Grants::issue and Roots::named, under the lock.
Grant(p) ==
    /\ lock = "free" /\ p \in Published \ grants
    /\ Asked("reads", MaxReads)
    /\ grants' = grants \cup {p}
    /\ strays' = IF pruner.pc = "idle" THEN strays ELSE strays \cup {p}
    /\ UNCHANGED <<disk, kept, lock, puller, pruner, exporter, struck, faults>>

\* A grant expires or is revoked, or the cluster stops naming a root.
GrantEnds(p) ==
    /\ p \in grants
    /\ grants' = grants \ {p}
    /\ UNCHANGED <<disk, kept, lock, puller, pruner, exporter, struck, strays, asked, faults>>

\* Settings::hold and Settings::release, under the lock.
AdminHold(p) ==
    /\ lock = "free" /\ p \in Published
    /\ Asked("reads", MaxReads)
    /\ kept' = IF p \in kept THEN kept \ {p} ELSE kept \cup {p}
    /\ UNCHANGED <<disk, grants, lock, puller, pruner, exporter, struck, strays, faults>>

\* bmac-backupd ends; the export's tag is forgotten with it.
Crash ==
    /\ Fault
    /\ puller' = NoPull /\ pruner' = NoPrune /\ exporter' = NoExport
    /\ lock' = "free"
    /\ UNCHANGED <<disk, grants, kept, struck, strays, asked>>

Init ==
    /\ pool = <<>> /\ holds = {} /\ manifests = {}
    /\ journal = [pits |-> <<>>, receiving |-> NoReceiving, quarantined |-> {}]
    /\ grants = {} /\ kept = {}
    /\ lock = "free" /\ puller = NoPull /\ pruner = NoPrune /\ exporter = NoExport
    /\ struck = {} /\ strays = {}
    /\ asked = [pulls |-> 0, reads |-> 0] /\ faults = 0

PullStep ==
    \/ PullAbandon \/ PullForget \/ PullPlan \/ PullHold \/ PullPublish
    \/ PullQuarantine \/ PullRecord \/ PullGivesUp
    \/ \E v \in Volumes : PullReceive(v) \/ PullBreaks(v) \/ PullMark(v)
PruneStep ==
    \/ \E T \in SUBSET Published : PrunePlan(T)
    \/ PruneReads \/ PruneZvols \/ PruneSave
    \/ \E q \in journal.quarantined : PruneQuarantine(q)
    \/ \E p \in Pits : PruneStuck(p) \/ PruneGone(p) \/ \E v \in Volumes : PruneDestroys(p, v)
Outside ==
    \/ \E p \in Pits, b \in Pits \cup {None} : PullStart(p, b) \/ ExportPlan(p, b)
    \/ ExportHold \/ ExportEnd
    \/ \E p \in Pits : Grant(p) \/ GrantEnds(p) \/ AdminHold(p)
    \/ Crash

Next == PullStep \/ PruneStep \/ Outside
Spec == Init /\ [][Next]_vars

\* The prune loop goes on (hourly), a pull that holds the lock goes on, and
\* PITs grow old enough to leave their tiers.
Fairness == WF_vars(PruneStep) /\ WF_vars(PullStep) /\ SF_vars(PrunePlan({}))
FairSpec == Spec /\ Fairness

-----------------------------------------------------------------------------
(* Properties.                                                             *)

Names == Range(BranchOf) \X (1 .. MaxLineage) \X Volumes
Layouts == [Volumes -> Names] \cup {<<>>}
Snapshots == [pit : Pits, good : BOOLEAN]
Zvols == [snaps : SUBSET Snapshots, token : Pits \cup {None}, origin : {<<>>} \cup (Names \X Pits)]
Entries == [base : Pits \cup {None}, vols : [Volumes -> Names]]
Receivings == [pit : Pits \cup {None}, base : Pits \cup {None}, vols : Layouts, done : SUBSET Volumes]
Quarantines == [pit : Pits, zvols : SUBSET Names]
Journals(P) == [pits : [P -> Entries], receiving : Receivings, quarantined : SUBSET Quarantines]
Pulls ==
    [pc : {"idle", "look", "forget", "transfer", "mark", "publish", "quarantine"},
     pit : Pits \cup {None}, base : Pits \cup {None}, vols : Layouts,
     method : [Volumes -> {"full", "incremental", "clone"}] \cup {<<>>}, done : SUBSET Volumes]
Prunes(P) ==
    [pc : {"idle", "read", "prune", "zvols", "quarantined"}, pins : SUBSET Pits, doomed : SUBSET Pits,
     freed : SUBSET Names, pits : [P -> Entries], gone : SUBSET Quarantines]
Exports == [pc : {"idle", "planned", "streaming"}, snaps : SUBSET (Names \X Pits)]

\* Every variable has its type.
TypeOK ==
    /\ pool \in [DOMAIN pool -> Zvols] /\ DOMAIN pool \subseteq Names
    /\ holds \subseteq Names \X Pits \X {"retain", "export"}
    /\ journal \in Journals(Published) /\ Published \subseteq Pits
    /\ journal.receiving.pit # None => journal.receiving.vols \in [Volumes -> Names]
    /\ manifests \subseteq Pits /\ struck \subseteq Pits
    /\ grants \subseteq Pits /\ kept \subseteq Pits
    /\ pruner \in Prunes(DOMAIN pruner.pits) /\ DOMAIN pruner.pits \subseteq Pits
    /\ puller \in Pulls /\ exporter \in Exports

\* Every snapshot of a PIT is in the pool, is the one the manifest describes
\* and is held against destroying, and the manifest is there.
Whole(p, vols) ==
    /\ p \in manifests
    /\ \A v \in Volumes : Good(vols[v], p) /\ <<vols[v], p, "retain">> \in holds

\* A published PIT can be restored: it is whole, unless a prune has begun to
\* destroy it.  No abandoned, resumed, quarantined or crashed pull of another
\* PIT and no export changes that ("A PIT missing any volume is never
\* published").
PublishedIsWhole ==
    \A p \in Published \ struck : Whole(p, journal.pits[p].vols)

\* A prune destroys nothing of a PIT that an administrator holds, that a grant
\* or branch root named when the prune read them, or that the receive in
\* progress is based on.
PinnedSurvive ==
    [][(struck' \ struck) \cap (kept \cup (grants \ strays) \cup {journal.receiving.base}) = {}]_vars

\* What is being streamed out stays in the pool until the stream has ended,
\* whatever the prunes do meanwhile (the export's holds).
StreamedStays ==
    exporter.pc = "streaming" =>
        \A s \in exporter.snaps : s[2] \in PitsOn(s[1]) /\ <<s[1], s[2], "export">> \in holds

\* The PIT a receive in progress builds on is published: prunes and pulls
\* agree through the journal although a pull transfers without the lock.
BaseIsThere == journal.receiving.base \in Published \cup {None}

\* A zvol that the journal gives to a receive as new is used by nothing else:
\* no published PIT and no quarantined receive has it.
NewZvolsAreNew ==
    LET r == journal.receiving IN
    (r.pit # None /\ (r.base = None \/ BranchOf[r.base] # BranchOf[r.pit])) =>
        /\ Range(r.vols) \cap Taken = {}
        /\ \A p \in Published : Range(r.vols) \cap Range(journal.pits[p].vols) = {}

\* Who changes the journal has its lock, from reading it to saving it.
Locked ==
    /\ lock \in {"free", "pull", "prune"}
    /\ lock = "pull" <=> puller.pc \in {"look", "forget", "quarantine"}
    /\ lock = "prune" <=> pruner.pc \in {"prune", "zvols", "quarantined"}

\* What a pull works on is unpublished, and what it transfers is the receive
\* in the journal; when it goes on to publish, the PIT is whole.
PullAgrees ==
    /\ ~At("idle") => puller.pit \in Pits \ Published
    /\ puller.pc \in {"transfer", "mark", "publish", "quarantine"} =>
          /\ puller.vols \in [Volumes -> Names]
          /\ journal.receiving.pit = puller.pit /\ journal.receiving.base = puller.base
          /\ journal.receiving.vols = puller.vols
    /\ At("publish") => Whole(puller.pit, puller.vols)

\* What a prune works on is the journal as it is, less what it has destroyed,
\* and nothing pinned is doomed, although it read the pins before the lock.
PruneAgrees ==
    /\ pruner.pc \in {"read", "prune"} => grants \ strays \subseteq pruner.pins
    /\ pruner.pc \in {"prune", "zvols", "quarantined"} =>
          /\ DOMAIN pruner.pits \subseteq Published
          /\ \A p \in DOMAIN pruner.pits : pruner.pits[p] = journal.pits[p]
          /\ pruner.doomed \subseteq DOMAIN pruner.pits
          /\ journal.receiving.base \in DOMAIN pruner.pits \cup {None}
          /\ pruner.doomed \cap (kept \cup {journal.receiving.base}) = {}
    /\ pruner.pc = "prune" => pruner.doomed \cap pruner.pins = {}

\* The journal and those who work on it agree: typed, the base of a receive is
\* there, a new zvol is used by nothing else, and pulls and prunes keep to the
\* lock and to what the journal says.
JournalInv ==
    TypeOK /\ BaseIsThere /\ NewZvolsAreNew /\ Locked /\ PullAgrees /\ PruneAgrees

\* A prune that was cut short is finished by a later one: a PIT that can no
\* longer be restored does not stay published, while nothing pins it.
CutPruneIsFinished ==
    \A p \in Pits :
        <>[](p \notin KeepSet(journal.pits, {}, Pinned(grants))) =>
            (p \in Published \cap struck ~> p \notin Published \cap struck)

=============================================================================
