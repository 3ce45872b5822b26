------------------------------ MODULE Capture ------------------------------
(***************************************************************************)
(* The points in time (PITs) of one VM on the cluster (bmacd/src/backup):  *)
(* the capture job that freezes the guest, snapshots its disks, waits for  *)
(* replication and offers the PIT; the appliances' check-ins and claims    *)
(* (source.rs); and the upkeep of each host that releases snapshots, keeps *)
(* bookmarks and drops PITs from the catalog (upkeep.rs, lifetime.rs).     *)
(* Time is abstracted: an offer that holds may stop holding at any time.   *)
(***************************************************************************)
EXTENDS Naturals, FiniteSets

CONSTANTS
    Hosts,          \* the VM's placement hosts
    Appliances,     \* the appliances its policy names
    Delinquent,     \* those that count as delinquent
    Freeze,         \* the policy: "never", "wanted" or "required"
    MaxPits,        \* bound: PITs taken
    LastMove,       \* bound: the VM moves until the capture of this PIT starts
    MaxTroubles     \* bound: failures, deaths, moves and late reports

ASSUME CaptureAssumption ==
    /\ Hosts # {}
    /\ MaxPits \in Nat /\ LastMove \in Nat /\ MaxTroubles \in Nat

VARIABLES
    owner,      \* the host the VM runs on
    vmlease,    \* who holds its orchestration lease: "none", "capture" or "dead"
    frozen,     \* the guest's filesystems are frozen
    timer,      \* the systemd timer that thaws them is armed
    cap,        \* the capture job: pc, host, the PIT, the appliances it offers it to
    catalog,    \* the PIT records, by PIT
    lineage,    \* Lineage: head and branch
    snaps,      \* per host, the PITs whose snapshots it has
    marks,      \* per host, the PITs whose bookmarks it has
    heads,      \* per appliance, the head its record names
    applied,    \* per appliance: what it holds, and the PIT it is pulling
    pass,       \* per host, its upkeep pass: pc, plan, the PITs left, the PIT in hand
    nextPit, ctroubles,
    ancestry,   \* per PIT, every PIT its content descends from
    severed,    \* PITs taken on a branch whose start had been dropped
    late,       \* PITs an appliance came back to after they were given up
    outrun,     \* PITs published while a pass ran whose plan keeps no bookmark of them
    thawFailed  \* the agent refused to thaw

captureVars == <<owner, vmlease, frozen, timer, cap, catalog, lineage, snaps, marks, heads,
                 applied, pass, nextPit, ctroubles, ancestry, severed, late, outrun, thawFailed>>

Pits == 1 .. MaxPits
None == 0
Cataloged == DOMAIN catalog

\* Offer::holds: an open offer in its claim window, a claimed one whose
\* bytes move. The others are "lapsed" and "stalled" ones, "published", "failed".
Holds(offer) == offer \in {"open", "claimed"}
Held(p) == \E a \in DOMAIN catalog[p].offers : Holds(catalog[p].offers[a])
\* The offers a check-in may still change.
Unsettled == {"open", "claimed", "lapsed", "stalled"}

Idle == [pc |-> "idle", host |-> None, pit |-> None, avail |-> {}]
NoPass == [pc |-> "idle", keep |-> {}, marks |-> {}, left |-> {}, pit |-> None, rev |-> 0]

Trouble == ctroubles < MaxTroubles /\ ctroubles' = ctroubles + 1

CaptureInit ==
    /\ owner = (CHOOSE h \in Hosts : TRUE) /\ vmlease = "none" /\ frozen = FALSE /\ timer = FALSE
    /\ cap = Idle /\ catalog = <<>> /\ lineage = [head |-> None, branch |-> 1]
    /\ snaps = [h \in Hosts |-> {}] /\ marks = [h \in Hosts |-> {}]
    /\ heads = [a \in Appliances |-> None]
    /\ applied = [a \in Appliances |-> [head |-> None, pulling |-> None]]
    /\ pass = [h \in Hosts |-> NoPass]
    /\ nextPit = 1 /\ ctroubles = 0 /\ ancestry = <<>> /\ severed = {} /\ late = {} /\ outrun = {} /\ thawFailed = FALSE

(***************************************************************************)
(* The capture job                                                         *)
(***************************************************************************)
At(pc) == cap.pc = pc
Goto(pc) == cap' = [cap EXCEPT !.pc = pc]

freezeVars == <<frozen, timer, thawFailed>>
recordVars == <<catalog, lineage, heads, ancestry, severed>>
zfsVars == <<snaps, marks>>
otherVars == <<owner, applied, pass, late, outrun>>

\* still_pulling: an appliance of the policy moves bytes of one of the PITs.
StillPulling == \E p \in Cataloged : \E a \in Appliances :
    a \in DOMAIN catalog[p].offers /\ catalog[p].offers[a] = "claimed"

\* The checks pass and the lease is taken; avail are the appliances that
\* checked in lately, none when only local retention wants the PIT.
StartCapture ==
    /\ At("idle") /\ nextPit \in Pits /\ ~StillPulling /\ vmlease = "none"
    /\ vmlease' = "capture" /\ nextPit' = nextPit + 1
    /\ \E av \in SUBSET Appliances :
         cap' = [pc |-> IF Freeze = "never" THEN "snapshot" ELSE "arm",
                 host |-> owner, pit |-> nextPit, avail |-> av]
    /\ UNCHANGED <<freezeVars, recordVars, zfsVars, otherVars, ctroubles>>

\* The timer is armed before the guest is frozen.
Arm ==
    /\ At("arm")
    /\ \/ timer' = TRUE /\ Goto("freeze") /\ UNCHANGED ctroubles
       \/ Trouble /\ Goto("release") /\ UNCHANGED timer
    /\ UNCHANGED <<frozen, thawFailed, recordVars, zfsVars, otherVars, vmlease, nextPit>>

\* The agent freezes; when it reports an error, the guest is thawed, the
\* timer stopped, and the PIT fails if the policy requires the freeze.
FreezeGuest ==
    /\ At("freeze")
    /\ \/ frozen' = TRUE /\ Goto("snapshot") /\ UNCHANGED <<timer, thawFailed, ctroubles>>
       \/ /\ Trouble /\ timer' = FALSE
          /\ \/ frozen' = FALSE /\ UNCHANGED thawFailed
             \/ frozen' = TRUE /\ thawFailed' = TRUE
          /\ Goto(IF Freeze = "required" THEN "release" ELSE "plain")
    /\ UNCHANGED <<recordVars, zfsVars, otherVars, vmlease, nextPit>>

\* One zfs snapshot of every disk.
Snapshot ==
    /\ cap.pc \in {"snapshot", "plain"}
    /\ \/ snaps' = [snaps EXCEPT ![cap.host] = @ \cup {cap.pit}] /\ UNCHANGED ctroubles
          /\ Goto(IF At("snapshot") /\ Freeze # "never" THEN "thaw" ELSE "replicate")
       \/ Trouble /\ UNCHANGED snaps
          /\ Goto(IF At("snapshot") /\ Freeze # "never" THEN "thawfail" ELSE "release")
    /\ UNCHANGED <<freezeVars, marks, recordVars, otherVars, vmlease, nextPit>>

\* The guest is thawed, and the timer is stopped whether it was or not.
Thaw ==
    /\ cap.pc \in {"thaw", "thawfail"}
    /\ \/ frozen' = FALSE /\ UNCHANGED <<thawFailed, ctroubles>>
       \/ Trouble /\ thawFailed' = TRUE /\ UNCHANGED frozen
    /\ timer' = FALSE
    /\ Goto(IF At("thaw") THEN "replicate" ELSE "release")
    /\ UNCHANGED <<recordVars, zfsVars, otherVars, vmlease, nextPit>>

\* The configuration is the same when it is read again, every placement host
\* has the snapshots with their GUIDs, and the VM has not moved.
Everywhere(p) == \A h \in Hosts : p \in snaps[h]
Replicated ==
    /\ At("replicate")
    /\ \/ Everywhere(cap.pit) /\ owner = cap.host /\ Goto("catalog") /\ UNCHANGED ctroubles
       \/ owner # cap.host /\ Goto("discard") /\ UNCHANGED ctroubles
       \/ Trouble /\ Goto("discard")
    /\ UNCHANGED <<freezeVars, recordVars, zfsVars, otherVars, vmlease, nextPit>>

\* The record, its offers and the lineage's new head, under the store's lock.
Catalog ==
    /\ At("catalog")
    /\ LET p == cap.pit
           rec == [parent |-> lineage.head, branch |-> lineage.branch, presence |-> "snapshot",
                   offers |-> [a \in cap.avail |-> "open"], rev |-> 1]
           above == IF lineage.head = None THEN {} ELSE {lineage.head} \cup ancestry[lineage.head]
       IN \/ /\ catalog' = [q \in Cataloged \cup {p} |-> IF q = p THEN rec ELSE catalog[q]]
             /\ lineage' = [lineage EXCEPT !.head = p]
             /\ ancestry' = [q \in DOMAIN ancestry \cup {p} |-> IF q = p THEN above ELSE ancestry[q]]
             /\ severed' = IF lineage.head \in Cataloged \cup {None} THEN severed ELSE severed \cup {p}
             /\ Goto("release") /\ UNCHANGED ctroubles
          \/ Trouble /\ Goto("discard") /\ UNCHANGED <<catalog, lineage, ancestry, severed>>
    /\ UNCHANGED <<freezeVars, heads, zfsVars, otherVars, vmlease, nextPit>>

\* A PIT that fails after its snapshot has it destroyed on this host.
Discard ==
    /\ At("discard") /\ Goto("release")
    /\ \/ snaps' = [snaps EXCEPT ![cap.host] = @ \ {cap.pit}] /\ UNCHANGED ctroubles
       \/ Trouble /\ UNCHANGED snaps
    /\ UNCHANGED <<freezeVars, marks, recordVars, otherVars, vmlease, nextPit>>

ReleaseLease ==
    /\ At("release") /\ cap' = Idle
    /\ vmlease' = IF vmlease = "capture" THEN "none" ELSE vmlease
    /\ UNCHANGED <<freezeVars, recordVars, zfsVars, otherVars, nextPit, ctroubles>>

\* The job's process dies; the lease stays until it lapses.
CaptureDies ==
    /\ ~At("idle") /\ Trouble
    /\ cap' = Idle /\ vmlease' = "dead"
    /\ UNCHANGED <<freezeVars, recordVars, zfsVars, otherVars, nextPit>>

VmLeaseLapses ==
    /\ vmlease = "dead" /\ vmlease' = "none"
    /\ UNCHANGED <<freezeVars, cap, recordVars, zfsVars, otherVars, nextPit, ctroubles>>

\* The timer thaws what is still frozen when it fires, a minute after it was
\* armed: the agent has answered the freeze by then.
TimerFires ==
    /\ timer /\ ~At("freeze") /\ timer' = FALSE /\ frozen' = FALSE
    /\ UNCHANGED <<thawFailed, vmlease, cap, recordVars, zfsVars, otherVars, nextPit, ctroubles>>

(***************************************************************************)
(* Proxmox: replication and failover                                       *)
(***************************************************************************)
\* A run of storage replication: the host has the owner's snapshots.
Replication(h) ==
    /\ h # owner /\ snaps[h] # snaps[owner]
    /\ snaps' = [snaps EXCEPT ![h] = snaps[owner]]
    /\ UNCHANGED <<freezeVars, vmlease, cap, marks, recordVars, otherVars, nextPit, ctroubles>>

\* The VM moves, or fails over, to another placement host.
Moves(h) ==
    /\ h # owner /\ nextPit <= LastMove /\ Trouble /\ owner' = h /\ frozen' = FALSE
    /\ UNCHANGED <<timer, thawFailed, vmlease, cap, recordVars, zfsVars, applied, pass, late, outrun, nextPit>>

(***************************************************************************)
(* The appliances, as bmac-source serves them                              *)
(***************************************************************************)
\* ancestors(): the walk up the catalog, whose PITs are the least set that has
\* the parent of this one and of each of its own; a parent that is gone ends it.
Up(p) == {catalog[p].parent} \cap Cataloged
Ancestors(p) ==
    {q \in Cataloged : \A S \in SUBSET Cataloged :
        Up(p) \subseteq S /\ (\A r \in S : Up(r) \subseteq S) => q \in S}

\* A release in hand: the pass has read the record and not saved it. The
\* revision of a record is counted while somebody has it in hand.
Releasing(p) == \E h \in Hosts : pass[h].pc \in {"mark", "destroy", "save", "drop"} /\ pass[h].pit = p
Bumped(p, rec) == [rec EXCEPT !.rev = IF Releasing(p) THEN @ + 1 ELSE @]
Saved(p, rec) == [catalog EXCEPT ![p] = Bumped(p, rec)]
OfferOf(p, a) == IF a \in DOMAIN catalog[p].offers THEN catalog[p].offers[a] ELSE "none"

\* The newest PIT of the catalog still offered to the appliance, as a
\* check-in that reported its head tells it; it claims it, and pulls.
Offered(a) == {p \in Cataloged : catalog[p].presence = "snapshot" /\ Holds(OfferOf(p, a))}
Claim(a) ==
    /\ applied[a].pulling = None /\ heads[a] = applied[a].head /\ Offered(a) # {}
    /\ LET p == CHOOSE q \in Offered(a) : \A r \in Offered(a) : r <= q IN
       /\ OfferOf(p, a) \in {"open", "claimed"}
       /\ catalog' = Saved(p, [catalog[p] EXCEPT !.offers[a] = "claimed"])
       /\ applied' = [applied EXCEPT ![a].pulling = p]
    /\ UNCHANGED <<freezeVars, lineage, heads, ancestry, severed, zfsVars, owner, pass, late, outrun,
                   vmlease, cap, nextPit, ctroubles>>

\* What the appliance has fully received becomes its head, or the pull ends.
Publish(a) ==
    /\ applied[a].pulling # None
    /\ applied' = [applied EXCEPT ![a] = [head |-> applied[a].pulling, pulling |-> None]]
    /\ UNCHANGED <<freezeVars, recordVars, zfsVars, owner, pass, late, outrun, vmlease, cap, nextPit, ctroubles>>

\* settle() and superseded() for every PIT, under the store's lock: the head
\* is published, the pull in progress is claimed anew, older offers of the
\* head's branch go.
Settled(p, a, fails) ==
    LET o == OfferOf(p, a) IN
    IF o \notin Unsettled THEN o
    ELSE IF applied[a].head = p THEN "published"
    ELSE IF applied[a].pulling # p THEN o
    ELSE IF fails THEN "failed" ELSE "claimed"

Superseded(p, a) ==
    LET h == applied[a].head IN
    /\ h \in Cataloged /\ p < h /\ catalog[p].branch = catalog[h].branch
    /\ OfferOf(p, a) \in Unsettled

\* The record after the check-in, its revision raised when it changed.
CheckedIn(p, a, fails) ==
    LET rec == catalog[p]
        kept == IF Superseded(p, a) THEN DOMAIN rec.offers \ {a} ELSE DOMAIN rec.offers
        offers == [b \in kept |-> IF b = a THEN Settled(p, a, fails) ELSE rec.offers[b]]
    IN IF offers = rec.offers THEN rec ELSE Bumped(p, [rec EXCEPT !.offers = offers])

\* The PITs the appliance comes back to after their offers stopped holding:
\* published, or revived when their release has begun or is done.
Going(p) == Releasing(p) \/ ~Everywhere(p) \/ catalog[p].presence = "bookmark"
BackLate(a, after) == {p \in Cataloged : OfferOf(p, a) \in {"lapsed", "stalled"}
    /\ a \in DOMAIN after[p].offers
    /\ \/ after[p].offers[a] = "published"
       \/ (after[p].offers[a] = "claimed" /\ Going(p))}

\* The PITs a check-in makes a head behind the back of a pass.
Outrun(a, after) == {p \in Cataloged :
    /\ a \in DOMAIN after[p].offers /\ after[p].offers[a] = "published" /\ OfferOf(p, a) # "published"
    /\ \E h \in Hosts : pass[h].pc # "idle" /\ p \notin pass[h].marks}

CheckIn(a, fails) ==
    LET after == [p \in Cataloged |-> CheckedIn(p, a, fails)] IN
    /\ fails => applied[a].pulling # None
    /\ catalog' = after
    /\ heads' = [heads EXCEPT ![a] = applied[a].head]
    /\ late' = late \cup BackLate(a, after) /\ outrun' = outrun \cup Outrun(a, after)
    /\ applied' = IF fails THEN [applied EXCEPT ![a].pulling = None] ELSE applied
    /\ UNCHANGED <<freezeVars, lineage, ancestry, severed, zfsVars, owner, pass, vmlease, cap, nextPit, ctroubles>>

\* Time passes: a claim window closes, a transfer stalls.
Lapses(p, a) ==
    /\ p \in Cataloged /\ Holds(OfferOf(p, a)) /\ Trouble
    /\ catalog' = [catalog EXCEPT ![p].offers[a] = IF @ = "open" THEN "lapsed" ELSE "stalled"]
    /\ UNCHANGED <<freezeVars, lineage, heads, ancestry, severed, zfsVars, otherVars, vmlease, cap, nextPit>>

(***************************************************************************)
(* Upkeep, on every host                                                   *)
(***************************************************************************)
Newest == CHOOSE p \in Cataloged : \A q \in Cataloged : q <= p
LiveHeads == {heads[a] : a \in Appliances \ Delinquent} \cap Cataloged

\* The restored PIT the current branch starts from, until it has one itself.
BranchStart == {p \in Cataloged : p = lineage.head /\ catalog[p].branch # lineage.branch}

\* lifetime::plan, with bookmarks proven: which PITs keep their snapshots and
\* which their bookmarks. Local retention keeps none here.
SnapshotsKept == {p \in Cataloged : Held(p)}
\* (Or only the newest one's.)
BookmarksKept_newestOnly == {Newest}
BookmarksKept == LiveHeads \cup {Newest} \cup BranchStart

Pass(h, rec) == pass' = [pass EXCEPT ![h] = rec]

StartPass(h) ==
    /\ pass[h].pc = "idle" /\ owner = h /\ vmlease = "none" /\ Cataloged # {}
    /\ Pass(h, [NoPass EXCEPT !.pc = "next", !.keep = SnapshotsKept,
                              !.marks = BookmarksKept, !.left = Cataloged])
    /\ UNCHANGED <<freezeVars, recordVars, zfsVars, owner, applied, late, outrun, vmlease, cap, nextPit, ctroubles>>

\* The offers are read again before a release: one that holds stops it.
MayRelease_planned(p) == TRUE
MayRelease(p) == ~Held(p)

\* What a pass does for a PIT of its list: release its snapshots, remove its
\* bookmarks, or nothing.
Releases(s, p) == p \in Cataloged /\ catalog[p].presence = "snapshot" /\ p \notin s.keep /\ MayRelease(p)
Unmarks(s, p) ==
    /\ p \in Cataloged /\ p \notin s.marks
    /\ \/ catalog[p].presence = "bookmark"
       \/ p \in s.keep /\ \E g \in Hosts : p \in marks[g]

\* The next PIT it does something for, oldest first, or the end of the pass.
NextPit(h) ==
    LET s == pass[h]
        todo == {p \in s.left : Releases(s, p) \/ Unmarks(s, p)}
        p == CHOOSE q \in todo : \A q2 \in todo : q <= q2
    IN
    /\ s.pc = "next"
    /\ Pass(h, IF todo = {} THEN NoPass
               ELSE [s EXCEPT !.left = {q \in @ : q > p}, !.pit = p, !.rev = catalog[p].rev,
                              !.pc = IF ~Releases(s, p) THEN "unmark"
                                     ELSE IF p \in s.marks THEN "mark" ELSE "destroy"])
    /\ UNCHANGED <<freezeVars, recordVars, zfsVars, owner, applied, late, outrun, vmlease, cap, nextPit, ctroubles>>

\* bookmark_everywhere: one host after the other, from its own snapshot; a
\* host with neither blocks the release.
MarkHost(h) ==
    LET s == pass[h]
        missing == {g \in Hosts : s.pit \notin marks[g]}
    IN
    /\ s.pc = "mark"
    /\ \/ \E g \in missing :
            /\ s.pit \in snaps[g]
            /\ marks' = [marks EXCEPT ![g] = @ \cup {s.pit}] /\ UNCHANGED <<pass, ctroubles>>
       \/ missing = {} /\ Pass(h, [s EXCEPT !.pc = "destroy"]) /\ UNCHANGED <<marks, ctroubles>>
       \/ /\ \/ Trouble
             \/ (\E g \in missing : s.pit \notin snaps[g]) /\ UNCHANGED ctroubles
          /\ Pass(h, [s EXCEPT !.pc = "next"]) /\ UNCHANGED marks
    /\ UNCHANGED <<freezeVars, recordVars, snaps, owner, applied, late, outrun, vmlease, cap, nextPit>>

\* The snapshots go on this host.
DestroySnapshots(h) ==
    LET s == pass[h] IN
    /\ s.pc = "destroy"
    /\ \/ /\ snaps' = [snaps EXCEPT ![h] = @ \ {s.pit}]
          /\ Pass(h, [s EXCEPT !.pc = IF s.pit \in s.marks THEN "save" ELSE "drop"]) /\ UNCHANGED ctroubles
       \/ Trouble /\ UNCHANGED snaps
          /\ Pass(h, [s EXCEPT !.pc = IF s.pit \in s.marks THEN "next" ELSE "unmark"])
    /\ UNCHANGED <<freezeVars, recordVars, marks, owner, applied, late, outrun, vmlease, cap, nextPit>>

\* A record saved at the revision it was read at, or not at all.
Save(h) ==
    LET s == pass[h] IN
    /\ s.pc = "save" /\ Pass(h, [s EXCEPT !.pc = "next"])
    /\ catalog' = IF s.pit \in Cataloged /\ catalog[s.pit].rev = s.rev
                  THEN Saved(s.pit, [catalog[s.pit] EXCEPT !.presence = "bookmark"]) ELSE catalog
    /\ UNCHANGED <<freezeVars, lineage, heads, ancestry, severed, zfsVars, owner, applied, late, outrun, vmlease, cap, nextPit, ctroubles>>

\* delete_pit: its children descend from its parent.
Reparent_plain(p) == [q \in Cataloged \ {p} |-> catalog[q]]
Reparent(p) == [q \in Cataloged \ {p} |->
    IF catalog[q].parent = p THEN Bumped(q, [catalog[q] EXCEPT !.parent = catalog[p].parent])
    ELSE catalog[q]]

\* The bookmarks of a PIT that keeps none go on every host, and the record
\* with them once its snapshots are released ("drop": they just were).
Unmark(h) ==
    LET s == pass[h]
        bare == s.pc = "drop" \/ (s.pit \in Cataloged /\ catalog[s.pit].presence = "bookmark")
    IN
    /\ s.pc \in {"unmark", "drop"}
    /\ \/ /\ marks' = [g \in Hosts |-> marks[g] \ {s.pit}]
          /\ catalog' = IF bare /\ s.pit \in Cataloged THEN Reparent(s.pit) ELSE catalog
          /\ Pass(h, [s EXCEPT !.pc = "next"]) /\ UNCHANGED ctroubles
       \/ /\ Trouble /\ UNCHANGED catalog
          /\ \E some \in SUBSET Hosts :
               marks' = [g \in Hosts |-> IF g \in some THEN marks[g] \ {s.pit} ELSE marks[g]]
          /\ Pass(h, [s EXCEPT !.pc = IF s.pc = "drop" THEN "save" ELSE "next"])
    /\ UNCHANGED <<freezeVars, lineage, heads, ancestry, severed, snaps, owner, applied, late, outrun, vmlease, cap, nextPit>>

\* bmacd ends on a host: its pass is gone.
PassDies(h) ==
    /\ pass[h].pc # "idle" /\ Trouble /\ Pass(h, NoPass)
    /\ UNCHANGED <<freezeVars, recordVars, zfsVars, owner, applied, late, outrun, vmlease, cap, nextPit>>

\* continue_from: a restore or a rollback starts a branch from the PIT.
ContinueFrom(p) ==
    /\ p \in Cataloged /\ vmlease = "none" /\ At("idle") /\ Trouble
    /\ lineage' = [head |-> p, branch |-> lineage.branch + 1]
    /\ UNCHANGED <<freezeVars, catalog, heads, ancestry, severed, zfsVars, otherVars, vmlease, cap, nextPit>>

CaptureNext ==
    \/ StartCapture \/ Arm \/ FreezeGuest \/ Snapshot \/ Thaw \/ Replicated
    \/ Catalog \/ Discard \/ ReleaseLease \/ CaptureDies \/ VmLeaseLapses \/ TimerFires
    \/ \E h \in Hosts : Replication(h) \/ Moves(h)
    \/ \E a \in Appliances : Claim(a) \/ Publish(a) \/ CheckIn(a, FALSE) \/ CheckIn(a, TRUE)
    \/ \E p \in Pits, a \in Appliances : Lapses(p, a)
    \/ \E h \in Hosts : \/ StartPass(h) \/ NextPit(h) \/ MarkHost(h) \/ DestroySnapshots(h)
                        \/ Save(h) \/ Unmark(h) \/ PassDies(h)
    \/ \E p \in Pits : ContinueFrom(p)

CaptureSpec == CaptureInit /\ [][CaptureNext]_captureVars

(***************************************************************************)
(* Properties                                                              *)
(***************************************************************************)
JobSteps == {"idle", "arm", "freeze", "snapshot", "plain", "thaw", "thawfail", "replicate",
             "catalog", "discard", "release"}
Captures == [pc: JobSteps, host: Hosts \cup {None}, pit: {None} \cup Pits,
             avail: SUBSET Appliances]
Offers == {"open", "lapsed", "claimed", "stalled", "published", "failed"}
PitRecords(A) == [parent: {None} \cup Pits, branch: Nat, presence: {"snapshot", "bookmark"},
                  offers: [A -> Offers], rev: Nat]
Lineages == [head: {None} \cup Pits, branch: Nat]
Pulls == [head: {None} \cup Pits, pulling: {None} \cup Pits]
PassSteps == {"idle", "next", "mark", "destroy", "save", "drop", "unmark"}
Passes == [pc: PassSteps, keep: SUBSET Pits, marks: SUBSET Pits, left: SUBSET Pits,
           pit: {None} \cup Pits, rev: Nat]

CatalogTypeOK ==
    /\ Cataloged \subseteq Pits
    /\ \A p \in Cataloged : /\ DOMAIN catalog[p].offers \subseteq Appliances
                            /\ catalog[p] \in PitRecords(DOMAIN catalog[p].offers)

\* Every variable has its type.
CaptureTypeOK ==
    /\ owner \in Hosts /\ vmlease \in {"none", "capture", "dead"}
    /\ frozen \in BOOLEAN /\ timer \in BOOLEAN /\ thawFailed \in BOOLEAN
    /\ cap \in Captures
    /\ CatalogTypeOK
    /\ lineage \in Lineages
    /\ snaps \in [Hosts -> SUBSET Pits] /\ marks \in [Hosts -> SUBSET Pits]
    /\ heads \in [Appliances -> {None} \cup Pits]
    /\ applied \in [Appliances -> Pulls]
    /\ pass \in [Hosts -> Passes]
    /\ nextPit \in Nat /\ ctroubles \in Nat
    /\ late \subseteq Pits /\ outrun \subseteq Pits

\* A PIT that is being captured is new: nothing knows of it, and what is
\* about to be cataloged is on every host.  ancestry has every PIT that was
\* ever cataloged.
CapturesNew ==
    /\ Cataloged \subseteq DOMAIN ancestry
    /\ \A p \in DOMAIN ancestry : p \in Pits /\ p < nextPit
    /\ cap.pc \notin {"idle", "release"} =>
          /\ cap.host \in Hosts /\ cap.pit \in Pits
          /\ cap.pit = nextPit - 1 /\ cap.pit \notin DOMAIN ancestry
    /\ cap.pc = "catalog" => Everywhere(cap.pit)
    /\ \A h \in Hosts : ({pass[h].pit} \cup pass[h].left) \subseteq DOMAIN ancestry \cup {None}
    /\ \A a \in Appliances :
          {heads[a], applied[a].head, applied[a].pulling} \subseteq DOMAIN ancestry \cup {None}

\* An appliance has claimed what it pulls, and what it published and did not
\* report; nothing it has superseded is still offered to it.
PullsAgree ==
    \A a \in Appliances :
        LET h == applied[a].head IN
        /\ applied[a].pulling # None => heads[a] = h
        /\ \A p \in Cataloged :
              /\ (p = applied[a].pulling \/ (p = h /\ heads[a] # h)) =>
                    OfferOf(p, a) \in {"claimed", "stalled"}
              /\ (h \in Cataloged /\ heads[a] = h /\ p <= h /\ catalog[p].branch = catalog[h].branch) =>
                    OfferOf(p, a) \notin Unsettled

\* What a pass does to the PIT in hand is what its plan says of its bookmarks.
PassesAgree ==
    \A h \in Hosts :
        /\ pass[h].pc = "mark" => pass[h].pit \in pass[h].marks
        /\ pass[h].pc \in {"unmark", "drop"} => pass[h].pit \notin pass[h].marks

\* A guest is never left frozen without the timer that thaws it, whatever
\* dies, unless the agent refused to thaw it.
FrozenIsTimed == (frozen => timer \/ thawFailed) /\ (cap.pc = "freeze" => timer)

\* As the warning of snapshot_frozen says: "the timer thaws the guest
\* shortly", also when the thaw failed.
ThawIsSure == frozen => timer

\* An appliance whose offer of a PIT holds finds its snapshots on every
\* placement host, wherever the VM moves, and no pass is about to release
\* them, unless it came back to an offer that had lapsed when the release had
\* begun.
HeldIsThere ==
    \A p \in Cataloged \ late :
        Held(p) => catalog[p].presence = "snapshot" /\ Everywhere(p) /\ ~Releasing(p)

\* The head of an appliance that is not delinquent stays a base on every
\* placement host, as a snapshot on all or as a bookmark on all, so its next
\* pull is incremental from any of them, unless it was published late, or
\* behind the back of a pass that had already planned to keep no bookmark.
Marked(p) == \A h \in Hosts : p \in marks[h]
LivePits == {heads[a] : a \in Appliances \ Delinquent} \cap (Cataloged \ (late \cup outrun))
HeadStaysABase == \A p \in LivePits : Everywhere(p) \/ Marked(p)

\* Every pass keeps their bookmarks, and destroys no snapshot before they are
\* there.
HeadsArePlanned ==
    \A p \in LivePits : \A h \in Hosts : pass[h].pc # "idle" =>
        /\ p \in pass[h].marks
        /\ (pass[h].pit = p /\ pass[h].pc \in {"destroy", "save"}) => Marked(p)

\* The catalog and the disks agree: typed, no guest left frozen, what an
\* offer holds is there, and captures, pulls and passes agree with it.
PitsInv ==
    /\ CaptureTypeOK /\ FrozenIsTimed /\ HeldIsThere
    /\ CapturesNew /\ PullsAgree /\ PassesAgree /\ HeadsArePlanned

\* A PIT whose line goes back to a PIT taken on a branch start that was gone.
CutOff(p) == ({p} \cup ancestry[p]) \cap severed # {}

\* What the walk rests on: a PIT descends from older ones and from all they
\* descend from; its parent is the nearest of them left in the catalog.
AncestryTypeOK ==
    /\ \A p \in DOMAIN ancestry : \A q \in ancestry[p] :
          q \in DOMAIN ancestry /\ q < p /\ ancestry[q] \subseteq ancestry[p]
    /\ lineage.head \in DOMAIN ancestry \cup {None}
    /\ \A p \in Cataloged : catalog[p].parent \in ancestry[p] \cup {None}
ParentIsNearest ==
    \A p \in Cataloged : ~CutOff(p) =>
        LET q == catalog[p].parent IN
        ancestry[p] \cap Cataloged = IF q = None THEN {} ELSE {q} \cup (ancestry[q] \cap Cataloged)
LineInv == AncestryTypeOK /\ ParentIsNearest

\* The catalog, the disks and the lines of descent are sound.
CaptureInv == PitsInv /\ LineInv

\* The walk up the catalog reaches every PIT left in it that the content of
\* this one descends from, whatever was dropped between them ("so a walk up
\* the catalog still reaches every remaining ancestor", delete_pit), and no
\* other.  Unless it comes to a PIT that was taken on a dropped branch start:
\* delete_pit corrects the children of a PIT, and not a lineage that continues
\* from it.
WalkReachesAncestors ==
    \A p \in Cataloged :
        LET walk == Ancestors(p) IN
        /\ walk \subseteq ancestry[p]
        /\ ~CutOff(p) => walk = ancestry[p] \cap Cataloged
=============================================================================
