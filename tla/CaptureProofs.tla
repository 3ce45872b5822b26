--------------------------- MODULE CaptureProofs ---------------------------
(***************************************************************************)
(* What Capture guarantees for every set of hosts and appliances, every    *)
(* freeze policy, and every number of PITs, failures and late reports.     *)
(*                                                                         *)
(* The argument: a PIT that an offer holds is a snapshot on every host and *)
(* no pass has it in hand (HeldIsThere), because a pass reads the offers   *)
(* again before it takes one up, and an offer is revived over a release    *)
(* only by a check-in that makes the PIT `late'.  So the head an appliance *)
(* reports was everywhere when it was reported, and every pass that runs   *)
(* then keeps its bookmarks (else it is `outrun'); from there on a pass    *)
(* destroys its snapshots only after it is bookmarked on every host, and   *)
(* removes no bookmark its plan keeps.                                     *)
(*                                                                         *)
(* The lines of descent: a PIT's parent is the nearest of its ancestors    *)
(* that is left (ParentIsNearest), and stays so when delete_pit takes one  *)
(* out, unless the branch began at a PIT that had been dropped. A walk that*)
(* missed an ancestor would miss one for an oldest PIT, whose parent's walk*)
(* then does not.                                                          *)
(***************************************************************************)
EXTENDS Capture, WellFoundedInduction, TLAPS

CInv == PitsInv /\ HeadStaysABase

-----------------------------------------------------------------------------
(* Frames                                                                  *)

\* A step that leaves the records, the bookmarks and the passes alone, and
\* removes no snapshot of a PIT that is cataloged on every host, keeps what
\* relates them.
LEMMA RecordFrame ==
  ASSUME CInv,
         UNCHANGED <<catalog, heads, applied, pass, marks, late, outrun>>,
         \A p \in DOMAIN ancestry : Everywhere(p) => Everywhere(p)'
  PROVE  HeldIsThere' /\ PullsAgree' /\ PassesAgree' /\ HeadsArePlanned' /\ HeadStaysABase'
<1>1. Cataloged \subseteq DOMAIN ancestry
  BY DEF CInv, PitsInv, CapturesNew
<1>2. HeldIsThere'
  BY <1>1 DEF CInv, PitsInv, HeldIsThere, Held, Holds, Cataloged, Releasing
<1>3. PullsAgree'
  BY DEF CInv, PitsInv, PullsAgree, OfferOf, Cataloged, Unsettled
<1>4. PassesAgree'
  BY DEF CInv, PitsInv, PassesAgree
<1>5. LivePits' = LivePits /\ \A p : Marked(p)' <=> Marked(p)
  BY DEF LivePits, Cataloged, Marked
<1>6. HeadsArePlanned'
  BY <1>5 DEF CInv, PitsInv, HeadsArePlanned
<1>7. HeadStaysABase'
  BY <1>1, <1>5 DEF CInv, HeadStaysABase, LivePits
<1> QED BY <1>2, <1>3, <1>4, <1>6, <1>7

\* What the capture job of the next state must know of its PIT.
JobFits ==
    cap'.pc \notin {"idle", "release"} =>
        /\ cap'.host \in Hosts /\ cap'.pit \in Pits
        /\ cap'.pit = nextPit' - 1 /\ cap'.pit \notin DOMAIN ancestry

\* The steps of the capture job but the one that catalogs.
LEMMA JobFrame ==
  ASSUME CInv, CaptureTypeOK', FrozenIsTimed',
         UNCHANGED <<catalog, heads, applied, pass, marks, late, outrun, ancestry>>,
         \A p \in DOMAIN ancestry : Everywhere(p) => Everywhere(p)',
         nextPit' \in {nextPit, nextPit + 1}, JobFits,
         cap'.pc = "catalog" => \A h \in Hosts : cap'.pit \in snaps'[h]
  PROVE  CInv'
<1>1. HeldIsThere' /\ PullsAgree' /\ PassesAgree' /\ HeadsArePlanned' /\ HeadStaysABase'
  BY RecordFrame
<1>2. nextPit \in Nat /\ \A p \in DOMAIN ancestry : p \in Pits /\ p < nextPit
  BY DEF CInv, PitsInv, CapturesNew, CaptureTypeOK
<1>3. \A p \in DOMAIN ancestry : p \in Pits /\ p < nextPit'
  BY <1>2, CaptureAssumption DEF Pits
<1>4. CapturesNew'
  BY <1>3 DEF CInv, PitsInv, CapturesNew, JobFits, Cataloged, Everywhere
<1> QED BY <1>1, <1>4 DEF CInv, PitsInv

LEMMA GotoFacts ==
  ASSUME cap \in Captures, NEW s \in JobSteps, Goto(s)
  PROVE  /\ cap' \in Captures /\ cap'.pc = s
         /\ cap'.host = cap.host /\ cap'.pit = cap.pit /\ cap'.avail = cap.avail
<1>1. cap' = [cap EXCEPT !.pc = s]
  BY DEF Goto
<1>2. cap' \in Captures
  BY <1>1 DEF Captures
<1>3. cap'.pc = s /\ cap'.host = cap.host /\ cap'.pit = cap.pit /\ cap'.avail = cap.avail
  BY <1>1 DEF Captures
<1> QED BY <1>2, <1>3

LEMMA IdleFacts == Idle \in Captures /\ Idle.pc = "idle"
BY DEF Idle, Captures, JobSteps

\* The bound on troubles.
LEMMA TroubleFacts ==
  ASSUME ctroubles \in Nat, Trouble \/ UNCHANGED ctroubles
  PROVE  ctroubles' \in Nat
BY DEF Trouble

-----------------------------------------------------------------------------
(* The capture job                                                         *)

LEMMA InitInv == CaptureInit => CInv
<1> SUFFICES ASSUME CaptureInit PROVE CInv
  OBVIOUS
<1>1. /\ vmlease = "none" /\ frozen = FALSE /\ timer = FALSE /\ thawFailed = FALSE
      /\ cap = Idle /\ catalog = <<>> /\ lineage = [head |-> None, branch |-> 1]
      /\ snaps = [h \in Hosts |-> {}] /\ marks = [h \in Hosts |-> {}]
      /\ heads = [a \in Appliances |-> None]
      /\ applied = [a \in Appliances |-> [head |-> None, pulling |-> None]]
      /\ pass = [h \in Hosts |-> NoPass]
      /\ nextPit = 1 /\ ctroubles = 0 /\ ancestry = <<>> /\ late = {} /\ outrun = {}
  BY DEF CaptureInit
<1>2. owner \in Hosts
  BY CaptureAssumption DEF CaptureInit
<1>3. DOMAIN catalog = {} /\ DOMAIN ancestry = {}
  BY <1>1
<1>4. NoPass \in Passes /\ NoPass.pc = "idle" /\ NoPass.pit = None /\ NoPass.left = {}
  BY DEF NoPass, Passes, PassSteps
<1>5. [head |-> None, branch |-> 1] \in Lineages /\ [head |-> None, pulling |-> None] \in Pulls
  BY DEF Lineages, Pulls
<1>6. CaptureTypeOK
  <2>1. CatalogTypeOK
    BY <1>3 DEF CatalogTypeOK, Cataloged
  <2>2. frozen \in BOOLEAN /\ timer \in BOOLEAN /\ thawFailed \in BOOLEAN
    BY <1>1
  <2>3. cap \in Captures /\ lineage \in Lineages
    BY <1>1, <1>5, IdleFacts
  <2>4. snaps \in [Hosts -> SUBSET Pits] /\ marks \in [Hosts -> SUBSET Pits]
    BY <1>1
  <2>5. heads \in [Appliances -> {None} \cup Pits] /\ applied \in [Appliances -> Pulls]
    BY <1>1, <1>5
  <2>6. pass \in [Hosts -> Passes]
    BY <1>1, <1>4
  <2> QED BY <1>1, <1>2, <2>1, <2>2, <2>3, <2>4, <2>5, <2>6 DEF CaptureTypeOK
<1>7. FrozenIsTimed
  BY <1>1, IdleFacts DEF FrozenIsTimed
<1>8. HeldIsThere /\ PullsAgree /\ LivePits = {}
  <2>1. HeldIsThere
    BY <1>3 DEF HeldIsThere, Cataloged
  <2>2. PullsAgree
    BY <1>1, <1>3 DEF PullsAgree, Cataloged
  <2> QED BY <1>3, <2>1, <2>2 DEF LivePits, Cataloged
<1>9. CapturesNew
  BY <1>1, <1>3, <1>4, IdleFacts DEF CapturesNew, Cataloged
<1>10. PassesAgree
  BY <1>1, <1>4 DEF PassesAgree
<1> QED
  BY <1>6, <1>7, <1>8, <1>9, <1>10 DEF CInv, PitsInv, HeadsArePlanned, HeadStaysABase

LEMMA StartPitsInv == ASSUME CInv, StartCapture PROVE CInv'
<1>1. /\ nextPit \in Pits /\ nextPit' = nextPit + 1 /\ vmlease' = "capture"
      /\ UNCHANGED <<freezeVars, recordVars, zfsVars, otherVars, ctroubles>>
  BY DEF StartCapture
<1>2. PICK av \in SUBSET Appliances :
        cap' = [pc |-> IF Freeze = "never" THEN "snapshot" ELSE "arm",
                host |-> owner, pit |-> nextPit, avail |-> av]
  BY DEF StartCapture
<1>3. owner \in Hosts /\ nextPit \in Nat /\ nextPit \notin DOMAIN ancestry
  BY DEF CInv, PitsInv, CaptureTypeOK, CapturesNew
<1>4. cap' \in Captures /\ cap'.pc \in {"snapshot", "arm"} /\ cap'.host = owner /\ cap'.pit = nextPit
  BY <1>1, <1>2, <1>3 DEF Captures, JobSteps
<1>5. CaptureTypeOK'
  BY <1>1, <1>3, <1>4
  DEF CInv, PitsInv, CaptureTypeOK, CatalogTypeOK, Cataloged, freezeVars, recordVars, zfsVars, otherVars
<1>6. FrozenIsTimed'
  BY <1>1, <1>4 DEF CInv, PitsInv, FrozenIsTimed, freezeVars
<1>7. JobFits
  BY <1>1, <1>3, <1>4 DEF JobFits
<1>8. \A p : Everywhere(p) => Everywhere(p)'
  BY <1>1 DEF Everywhere, zfsVars
<1> QED
  BY <1>1, <1>4, <1>5, <1>6, <1>7, <1>8, JobFrame DEF recordVars, zfsVars, otherVars

\* A step of the job to another step of it.
LEMMA JobStep ==
  ASSUME CInv, ~At("idle"), ~At("release"), NEW s \in JobSteps, Goto(s),
         UNCHANGED <<recordVars, marks, otherVars, vmlease, nextPit>>,
         Trouble \/ UNCHANGED ctroubles,
         frozen' \in BOOLEAN, timer' \in BOOLEAN, thawFailed' \in BOOLEAN,
         (frozen' => timer' \/ thawFailed') /\ (s = "freeze" => timer'),
         snaps' \in [Hosts -> SUBSET Pits],
         \A p \in DOMAIN ancestry : Everywhere(p) => Everywhere(p)',
         s = "catalog" => \A h \in Hosts : cap.pit \in snaps'[h]
  PROVE  CInv'
<1>1. CaptureTypeOK /\ cap \in Captures /\ ctroubles \in Nat
  BY DEF CInv, PitsInv, CaptureTypeOK
<1>2. /\ cap' \in Captures /\ cap'.pc = s
      /\ cap'.host = cap.host /\ cap'.pit = cap.pit /\ cap'.avail = cap.avail
  BY <1>1, GotoFacts
<1>3. ctroubles' \in Nat
  BY <1>1, TroubleFacts
<1>4. CaptureTypeOK'
  BY <1>1, <1>2, <1>3 DEF CaptureTypeOK, CatalogTypeOK, Cataloged, recordVars, otherVars
<1>5. FrozenIsTimed'
  BY <1>2 DEF FrozenIsTimed
<1>6. JobFits
  BY <1>2 DEF CInv, PitsInv, CapturesNew, JobFits, At
<1> QED
  BY <1>2, <1>4, <1>5, <1>6, JobFrame DEF recordVars, otherVars

\* What the job's steps know of the guest, the disks and the PIT in hand.
LEMMA JobFacts ==
  ASSUME CInv
  PROVE  /\ frozen \in BOOLEAN /\ timer \in BOOLEAN /\ thawFailed \in BOOLEAN
         /\ frozen => timer \/ thawFailed
         /\ At("freeze") => timer
         /\ snaps \in [Hosts -> SUBSET Pits]
         /\ cap.pc \notin {"idle", "release"} =>
              cap.host \in Hosts /\ cap.pit \in Pits /\ cap.pit \notin DOMAIN ancestry
BY DEF CInv, PitsInv, CaptureTypeOK, FrozenIsTimed, CapturesNew, At

LEMMA ArmInv == ASSUME CInv, Arm PROVE CInv'
<1>1. /\ At("arm") /\ UNCHANGED <<frozen, thawFailed, recordVars, zfsVars, otherVars, vmlease, nextPit>>
      /\ Trouble \/ UNCHANGED ctroubles
  BY DEF Arm
<1>2. PICK s \in JobSteps : /\ Goto(s) /\ s # "catalog"
                            /\ \/ timer' = TRUE
                               \/ s = "release" /\ timer' = timer
  BY DEF Arm, JobSteps
<1>3. ~At("idle") /\ ~At("release")
  BY <1>1 DEF At
<1>4. frozen' \in BOOLEAN /\ timer' \in BOOLEAN /\ thawFailed' \in BOOLEAN
  BY <1>1, <1>2, JobFacts
<1>5. (frozen' => timer' \/ thawFailed') /\ (s = "freeze" => timer')
  BY <1>1, <1>2, JobFacts
<1>6. snaps' \in [Hosts -> SUBSET Pits] /\ \A p : Everywhere(p) => Everywhere(p)'
  BY <1>1, JobFacts DEF Everywhere, zfsVars
<1> QED BY <1>1, <1>2, <1>3, <1>4, <1>5, <1>6, JobStep DEF zfsVars

LEMMA FreezeGuestInv == ASSUME CInv, FreezeGuest PROVE CInv'
<1>1. /\ At("freeze") /\ UNCHANGED <<recordVars, zfsVars, otherVars, vmlease, nextPit>>
      /\ Trouble \/ UNCHANGED ctroubles
  BY DEF FreezeGuest
<1>2. PICK s \in JobSteps :
         /\ Goto(s) /\ s \notin {"catalog", "freeze"}
         /\ \/ frozen' = TRUE /\ UNCHANGED <<timer, thawFailed>>
            \/ timer' = FALSE /\ frozen' = FALSE /\ UNCHANGED thawFailed
            \/ timer' = FALSE /\ frozen' = TRUE /\ thawFailed' = TRUE
  BY DEF FreezeGuest, JobSteps
<1>3. ~At("idle") /\ ~At("release")
  BY <1>1 DEF At
<1>4. frozen' \in BOOLEAN /\ timer' \in BOOLEAN /\ thawFailed' \in BOOLEAN
  BY <1>2, JobFacts
<1>5. (frozen' => timer' \/ thawFailed') /\ (s = "freeze" => timer')
  <2>1. timer
    BY <1>1, JobFacts
  <2>2. frozen' => timer' \/ thawFailed'
    BY <1>2, <2>1, Zenon
  <2> QED BY <1>2, <2>2
<1>6. snaps' \in [Hosts -> SUBSET Pits] /\ \A p : Everywhere(p) => Everywhere(p)'
  BY <1>1, JobFacts DEF Everywhere, zfsVars
<1> QED BY <1>1, <1>2, <1>3, <1>4, <1>5, <1>6, JobStep DEF zfsVars

LEMMA ThawInv == ASSUME CInv, Thaw PROVE CInv'
<1>1. /\ cap.pc \in {"thaw", "thawfail"}
      /\ UNCHANGED <<recordVars, zfsVars, otherVars, vmlease, nextPit>>
      /\ Trouble \/ UNCHANGED ctroubles
  BY DEF Thaw
<1>2. PICK s \in JobSteps :
         /\ Goto(s) /\ s \notin {"catalog", "freeze"} /\ timer' = FALSE
         /\ \/ frozen' = FALSE /\ UNCHANGED thawFailed
            \/ UNCHANGED frozen /\ thawFailed' = TRUE
  BY DEF Thaw, JobSteps
<1>3. ~At("idle") /\ ~At("release")
  BY <1>1 DEF At
<1>4. frozen' \in BOOLEAN /\ timer' \in BOOLEAN /\ thawFailed' \in BOOLEAN
  BY <1>2, JobFacts
<1>5. (frozen' => timer' \/ thawFailed') /\ (s = "freeze" => timer')
  BY <1>2
<1>6. snaps' \in [Hosts -> SUBSET Pits] /\ \A p : Everywhere(p) => Everywhere(p)'
  BY <1>1, JobFacts DEF Everywhere, zfsVars
<1> QED BY <1>1, <1>2, <1>3, <1>4, <1>5, <1>6, JobStep DEF zfsVars

LEMMA SnapshotInv == ASSUME CInv, Snapshot PROVE CInv'
<1>1. /\ cap.pc \in {"snapshot", "plain"}
      /\ UNCHANGED <<freezeVars, marks, recordVars, otherVars, vmlease, nextPit>>
      /\ Trouble \/ UNCHANGED ctroubles
      /\ \/ snaps' = [snaps EXCEPT ![cap.host] = @ \cup {cap.pit}]
         \/ UNCHANGED snaps
  BY DEF Snapshot
<1>2. PICK s \in JobSteps : Goto(s) /\ s \notin {"catalog", "freeze"}
  BY DEF Snapshot, JobSteps
<1>3. ~At("idle") /\ ~At("release")
  BY <1>1 DEF At
<1>4. frozen' \in BOOLEAN /\ timer' \in BOOLEAN /\ thawFailed' \in BOOLEAN
  BY <1>1, JobFacts DEF freezeVars
<1>5. (frozen' => timer' \/ thawFailed') /\ (s = "freeze" => timer')
  BY <1>1, <1>2, JobFacts DEF freezeVars
<1>6. snaps' \in [Hosts -> SUBSET Pits] /\ \A p : Everywhere(p) => Everywhere(p)'
  BY <1>1, JobFacts DEF Everywhere
<1> QED BY <1>1, <1>2, <1>3, <1>4, <1>5, <1>6, JobStep

LEMMA ReplicatedInv == ASSUME CInv, Replicated PROVE CInv'
<1>1. /\ At("replicate")
      /\ UNCHANGED <<freezeVars, recordVars, zfsVars, otherVars, vmlease, nextPit>>
      /\ Trouble \/ UNCHANGED ctroubles
  BY DEF Replicated
<1>2. PICK s \in JobSteps : Goto(s) /\ s # "freeze" /\ (s = "catalog" => Everywhere(cap.pit))
  BY DEF Replicated, JobSteps
<1>3. ~At("idle") /\ ~At("release")
  BY <1>1 DEF At
<1>4. frozen' \in BOOLEAN /\ timer' \in BOOLEAN /\ thawFailed' \in BOOLEAN
  BY <1>1, JobFacts DEF freezeVars
<1>5. (frozen' => timer' \/ thawFailed') /\ (s = "freeze" => timer')
  BY <1>1, <1>2, JobFacts DEF freezeVars
<1>6. snaps' \in [Hosts -> SUBSET Pits] /\ (\A p : Everywhere(p) => Everywhere(p)')
      /\ (s = "catalog" => \A h \in Hosts : cap.pit \in snaps'[h])
  BY <1>1, <1>2, JobFacts DEF Everywhere, zfsVars
<1> QED BY <1>1, <1>2, <1>3, <1>4, <1>5, <1>6, JobStep DEF zfsVars

LEMMA DiscardInv == ASSUME CInv, Discard PROVE CInv'
<1>1. /\ At("discard") /\ Goto("release")
      /\ UNCHANGED <<freezeVars, marks, recordVars, otherVars, vmlease, nextPit>>
      /\ Trouble \/ UNCHANGED ctroubles
      /\ \/ snaps' = [snaps EXCEPT ![cap.host] = @ \ {cap.pit}]
         \/ UNCHANGED snaps
  BY DEF Discard
<1>2. "release" \in JobSteps /\ ~At("idle") /\ ~At("release")
  BY <1>1 DEF At, JobSteps
<1>3. frozen' \in BOOLEAN /\ timer' \in BOOLEAN /\ thawFailed' \in BOOLEAN
  BY <1>1, JobFacts DEF freezeVars
<1>4. (frozen' => timer' \/ thawFailed')
  BY <1>1, JobFacts DEF freezeVars
<1>5. cap.pit \notin DOMAIN ancestry
  BY <1>1, JobFacts DEF At
<1>6. snaps' \in [Hosts -> SUBSET Pits]
  BY <1>1, JobFacts
<1>7. \A p \in DOMAIN ancestry : Everywhere(p) => Everywhere(p)'
  BY <1>1, <1>5, JobFacts DEF Everywhere
<1> QED BY <1>1, <1>2, <1>3, <1>4, <1>6, <1>7, JobStep

\* The end of the job, however it ends.
LEMMA JobEnds ==
  ASSUME CInv, cap' = Idle, vmlease' \in {"none", "capture", "dead"},
         Trouble \/ UNCHANGED ctroubles,
         UNCHANGED <<freezeVars, recordVars, zfsVars, otherVars, nextPit>>
  PROVE  CInv'
<1>1. CaptureTypeOK /\ ctroubles \in Nat
  BY DEF CInv, PitsInv, CaptureTypeOK
<1>2. ctroubles' \in Nat
  BY <1>1, TroubleFacts
<1>3. CaptureTypeOK'
  BY <1>1, <1>2, IdleFacts
  DEF CaptureTypeOK, CatalogTypeOK, Cataloged, freezeVars, recordVars, zfsVars, otherVars
<1>4. FrozenIsTimed'
  BY IdleFacts DEF CInv, PitsInv, FrozenIsTimed, freezeVars
<1>5. JobFits
  BY IdleFacts DEF JobFits
<1>6. \A p : Everywhere(p) => Everywhere(p)'
  BY DEF Everywhere, zfsVars
<1> QED
  BY <1>3, <1>4, <1>5, <1>6, IdleFacts, JobFrame DEF recordVars, zfsVars, otherVars

LEMMA ReleaseLeaseInv == ASSUME CInv, ReleaseLease PROVE CInv'
<1>1. vmlease \in {"none", "capture", "dead"}
  BY DEF CInv, PitsInv, CaptureTypeOK
<1> QED BY <1>1, JobEnds DEF ReleaseLease

LEMMA CaptureDiesInv == ASSUME CInv, CaptureDies PROVE CInv'
BY JobEnds DEF CaptureDies

\* The steps around the job: its record stays as it is.
LEMMA JobStays ==
  ASSUME CInv, UNCHANGED <<cap, nextPit, ancestry>>,
         UNCHANGED <<catalog, heads, applied, pass, marks, late, outrun>>,
         CaptureTypeOK', FrozenIsTimed', \A p : Everywhere(p) => Everywhere(p)'
  PROVE  CInv'
<1>1. JobFits
  BY DEF CInv, PitsInv, CapturesNew, JobFits
<1>2. cap'.pc = "catalog" => \A h \in Hosts : cap'.pit \in snaps'[h]
  <2>1. cap.pc = "catalog" => Everywhere(cap.pit)
    BY DEF CInv, PitsInv, CapturesNew
  <2>2. PICK p : p = cap.pit
    OBVIOUS
  <2>3. Everywhere(p) => Everywhere(p)'
    OBVIOUS
  <2> QED BY <2>1, <2>2, <2>3 DEF Everywhere
<1> QED BY <1>1, <1>2, JobFrame

LEMMA VmLeaseLapsesInv == ASSUME CInv, VmLeaseLapses PROVE CInv'
<1>1. CaptureTypeOK'
  BY DEF CInv, PitsInv, CaptureTypeOK, CatalogTypeOK, Cataloged, VmLeaseLapses,
         freezeVars, recordVars, zfsVars, otherVars
<1>2. FrozenIsTimed'
  BY DEF CInv, PitsInv, FrozenIsTimed, VmLeaseLapses, freezeVars
<1>3. \A p : Everywhere(p) => Everywhere(p)'
  BY DEF VmLeaseLapses, Everywhere, zfsVars
<1> QED BY <1>1, <1>2, <1>3, JobStays DEF VmLeaseLapses, recordVars, zfsVars, otherVars

LEMMA TimerFiresInv == ASSUME CInv, TimerFires PROVE CInv'
<1>1. timer' = FALSE /\ frozen' = FALSE /\ UNCHANGED thawFailed /\ ~At("freeze") /\ UNCHANGED cap
      /\ UNCHANGED <<vmlease, recordVars, zfsVars, otherVars, nextPit, ctroubles>>
  BY DEF TimerFires
<1>2. frozen' \in BOOLEAN /\ timer' \in BOOLEAN /\ thawFailed' \in BOOLEAN
  BY <1>1, JobFacts
<1>3. CaptureTypeOK'
  BY <1>1, <1>2 DEF CInv, PitsInv, CaptureTypeOK, CatalogTypeOK, Cataloged,
                    recordVars, zfsVars, otherVars
<1>4. FrozenIsTimed'
  BY <1>1 DEF FrozenIsTimed, At
<1>5. \A p : Everywhere(p) => Everywhere(p)'
  BY <1>1 DEF Everywhere, zfsVars
<1> QED BY <1>1, <1>3, <1>4, <1>5, JobStays DEF recordVars, zfsVars, otherVars

LEMMA ReplicationInv == ASSUME CInv, NEW h \in Hosts, Replication(h) PROVE CInv'
<1>1. /\ snaps' = [snaps EXCEPT ![h] = snaps[owner]]
      /\ UNCHANGED <<freezeVars, vmlease, cap, marks, recordVars, otherVars, nextPit, ctroubles>>
  BY DEF Replication
<1>2. owner \in Hosts /\ snaps \in [Hosts -> SUBSET Pits]
  BY DEF CInv, PitsInv, CaptureTypeOK
<1>3. snaps' \in [Hosts -> SUBSET Pits] /\ \A p : Everywhere(p) => Everywhere(p)'
  BY <1>1, <1>2 DEF Everywhere
<1>4. CaptureTypeOK'
  BY <1>1, <1>3 DEF CInv, PitsInv, CaptureTypeOK, CatalogTypeOK, Cataloged,
                    freezeVars, recordVars, otherVars
<1>5. FrozenIsTimed'
  BY <1>1 DEF CInv, PitsInv, FrozenIsTimed, freezeVars
<1> QED BY <1>1, <1>3, <1>4, <1>5, JobStays DEF recordVars, otherVars

LEMMA MovesInv == ASSUME CInv, NEW h \in Hosts, Moves(h) PROVE CInv'
<1>1. /\ Trouble /\ owner' = h /\ frozen' = FALSE
      /\ UNCHANGED <<timer, thawFailed, vmlease, cap, recordVars, zfsVars, applied, pass, late,
                     outrun, nextPit>>
  BY DEF Moves
<1>2. ctroubles \in Nat
  BY DEF CInv, PitsInv, CaptureTypeOK
<1>3. frozen' \in BOOLEAN /\ timer' \in BOOLEAN /\ thawFailed' \in BOOLEAN /\ ctroubles' \in Nat
  BY <1>1, <1>2, JobFacts, TroubleFacts
<1>4. CaptureTypeOK'
  BY <1>1, <1>3 DEF CInv, PitsInv, CaptureTypeOK, CatalogTypeOK, Cataloged, recordVars, zfsVars
<1>5. FrozenIsTimed'
  BY <1>1 DEF CInv, PitsInv, FrozenIsTimed
<1>6. \A p : Everywhere(p) => Everywhere(p)'
  BY <1>1 DEF Everywhere, zfsVars
<1> QED BY <1>1, <1>4, <1>5, <1>6, JobStays DEF recordVars, zfsVars

LEMMA ContinueFromInv == ASSUME CInv, NEW p \in Pits, ContinueFrom(p) PROVE CInv'
<1>1. /\ Trouble /\ lineage' = [head |-> p, branch |-> lineage.branch + 1]
      /\ UNCHANGED <<freezeVars, catalog, heads, ancestry, zfsVars, otherVars, vmlease, cap, nextPit>>
  BY DEF ContinueFrom
<1>2. ctroubles \in Nat /\ lineage \in Lineages
  BY DEF CInv, PitsInv, CaptureTypeOK
<1>3. lineage.branch + 1 \in Nat
  BY <1>2 DEF Lineages
<1>4. lineage' \in Lineages /\ ctroubles' \in Nat
  BY <1>1, <1>2, <1>3, TroubleFacts DEF Lineages
<1>5. CaptureTypeOK'
  BY <1>1, <1>4 DEF CInv, PitsInv, CaptureTypeOK, CatalogTypeOK, Cataloged,
                    freezeVars, zfsVars, otherVars
<1>6. FrozenIsTimed'
  BY <1>1 DEF CInv, PitsInv, FrozenIsTimed, freezeVars
<1>7. \A q : Everywhere(q) => Everywhere(q)'
  BY <1>1 DEF Everywhere, zfsVars
<1> QED BY <1>1, <1>5, <1>6, <1>7, JobStays DEF zfsVars, otherVars

-----------------------------------------------------------------------------
(* Numbers and records                                                     *)

\* A set of PITs has a newest one and an oldest one.
LEMMA OldestExists ==
  ASSUME NEW S, S \subseteq Nat, S # {}
  PROVE  \E p \in S : \A q \in S : p <= q
<1>1. IsWellFoundedOn(OpToRel(<, Nat), Nat)
  BY NatLessThanWellFounded
<1>2. PICK p \in S : \A q \in S : <<q, p>> \notin OpToRel(<, Nat)
  BY <1>1, WFMin
<1>3. \A q \in S : ~(q < p)
  BY <1>2 DEF OpToRel
<1> QED BY <1>3

LEMMA NewestExists ==
  ASSUME NEW S, S \subseteq Pits, S # {}
  PROVE  \E p \in S : \A q \in S : q <= p
<1> DEFINE U == {n \in Nat : \A q \in S : q <= n}
<1>1. S \subseteq Nat /\ \A q \in S : q >= 1 /\ q <= MaxPits
  BY CaptureAssumption DEF Pits
<1>2. MaxPits \in U
  BY <1>1, CaptureAssumption
<1>3. PICK u \in U : \A n \in U : u <= n
  <2>1. U \subseteq Nat /\ U # {}
    BY <1>2
  <2> HIDE DEF U
  <2> QED BY <2>1, OldestExists
<1>4. u \in S
  <2> SUFFICES ASSUME u \notin S PROVE FALSE
    OBVIOUS
  <2>1. \A q \in S : q <= u - 1
    BY <1>1, <1>3
  <2>2. u - 1 \in Nat
    <3>1. PICK q \in S : TRUE
      OBVIOUS
    <3>2. q >= 1 /\ q <= u /\ q \in Nat /\ u \in Nat
      BY <1>1, <1>3, <3>1
    <3> QED BY <3>2
  <2>3. u - 1 \in U
    BY <2>1, <2>2
  <2>4. u <= u - 1
    BY <1>3, <2>3
  <2> QED BY <1>3, <2>4
<1> QED BY <1>3, <1>4

\* The revision is all that Bumped changes.
LEMMA BumpFacts ==
  ASSUME NEW p, NEW A, NEW r \in PitRecords(A)
  PROVE  /\ Bumped(p, r) \in PitRecords(A)
         /\ Bumped(p, r).offers = r.offers /\ Bumped(p, r).branch = r.branch
         /\ Bumped(p, r).presence = r.presence /\ Bumped(p, r).parent = r.parent
<1>1. PICK n \in Nat : Bumped(p, r) = [r EXCEPT !.rev = n]
  <2>1. r.rev \in Nat /\ r.rev + 1 \in Nat
    BY DEF PitRecords
  <2> QED BY <2>1 DEF Bumped
<1>2. [r EXCEPT !.rev = n] \in PitRecords(A)
  BY DEF PitRecords
<1>3. /\ [r EXCEPT !.rev = n].offers = r.offers /\ [r EXCEPT !.rev = n].branch = r.branch
      /\ [r EXCEPT !.rev = n].presence = r.presence /\ [r EXCEPT !.rev = n].parent = r.parent
  BY DEF PitRecords
<1> QED BY <1>1, <1>2, <1>3

\* Nor do new offers change anything else.
LEMMA OffersFacts ==
  ASSUME NEW A, NEW B, NEW r \in PitRecords(A), NEW o \in [B -> Offers]
  PROVE  /\ [r EXCEPT !.offers = o] \in PitRecords(B)
         /\ [r EXCEPT !.offers = o].offers = o
         /\ [r EXCEPT !.offers = o].branch = r.branch
         /\ [r EXCEPT !.offers = o].presence = r.presence
<1>1. [r EXCEPT !.offers = o] \in PitRecords(B)
  BY DEF PitRecords
<1>2. /\ [r EXCEPT !.offers = o].offers = o
      /\ [r EXCEPT !.offers = o].branch = r.branch
      /\ [r EXCEPT !.offers = o].presence = r.presence
  BY DEF PitRecords
<1> QED BY <1>1, <1>2

LEMMA OfferSetFacts ==
  ASSUME NEW A, NEW r \in PitRecords(A), NEW a \in A, NEW x \in Offers
  PROVE  /\ [r EXCEPT !.offers[a] = x] \in PitRecords(A)
         /\ [r EXCEPT !.offers[a] = x].offers = [r.offers EXCEPT ![a] = x]
         /\ [r EXCEPT !.offers[a] = x].branch = r.branch
         /\ [r EXCEPT !.offers[a] = x].presence = r.presence
<1>1. [r.offers EXCEPT ![a] = x] \in [A -> Offers]
  BY DEF PitRecords
<1>2. [r EXCEPT !.offers[a] = x] = [r EXCEPT !.offers = [r.offers EXCEPT ![a] = x]]
  OBVIOUS
<1>3. PICK o \in [A -> Offers] : o = [r.offers EXCEPT ![a] = x]
  BY <1>1
<1>4. /\ [r EXCEPT !.offers = o] \in PitRecords(A)
      /\ [r EXCEPT !.offers = o].offers = o
      /\ [r EXCEPT !.offers = o].branch = r.branch
      /\ [r EXCEPT !.offers = o].presence = r.presence
  BY OffersFacts
<1> QED BY <1>2, <1>3, <1>4, Zenon

\* The records of the catalog.
LEMMA RecordFacts ==
  ASSUME CInv, NEW p \in Cataloged
  PROVE  /\ p \in Pits /\ p \in Nat /\ p > 0 /\ p \in DOMAIN ancestry
         /\ DOMAIN catalog[p].offers \subseteq Appliances
         /\ catalog[p] \in PitRecords(DOMAIN catalog[p].offers)
         /\ catalog[p].offers \in [DOMAIN catalog[p].offers -> Offers]
<1>1. /\ p \in Pits /\ p \in DOMAIN ancestry /\ DOMAIN catalog[p].offers \subseteq Appliances
      /\ catalog[p] \in PitRecords(DOMAIN catalog[p].offers)
  BY DEF CInv, PitsInv, CaptureTypeOK, CatalogTypeOK, CapturesNew
<1>2. p \in Nat /\ p > 0
  BY <1>1, CaptureAssumption DEF Pits
<1>3. catalog[p].offers \in [DOMAIN catalog[p].offers -> Offers]
  BY <1>1 DEF PitRecords
<1> QED BY <1>1, <1>2, <1>3

-----------------------------------------------------------------------------
(* Frames of the steps outside the job                                     *)

\* What the job and the guest keep.
jobVars == <<frozen, timer, thawFailed, owner, vmlease, cap, lineage, nextPit, ancestry>>

LEMMA OuterFrame ==
  ASSUME CInv, UNCHANGED jobVars, Trouble \/ UNCHANGED ctroubles,
         CatalogTypeOK', Cataloged' \subseteq Cataloged,
         snaps' \in [Hosts -> SUBSET Pits], marks' \in [Hosts -> SUBSET Pits],
         heads' \in [Appliances -> {None} \cup Pits], applied' \in [Appliances -> Pulls],
         pass' \in [Hosts -> Passes], late' \subseteq Pits, outrun' \subseteq Pits,
         \A p \in Pits \ DOMAIN ancestry : Everywhere(p) => Everywhere(p)',
         \A h \in Hosts : ({pass'[h].pit} \cup pass'[h].left) \subseteq DOMAIN ancestry \cup {None},
         \A a \in Appliances :
            {heads'[a], applied'[a].head, applied'[a].pulling} \subseteq DOMAIN ancestry \cup {None}
  PROVE  CaptureTypeOK' /\ FrozenIsTimed' /\ CapturesNew'
<1>1. ctroubles \in Nat
  BY DEF CInv, PitsInv, CaptureTypeOK
<1>2. ctroubles' \in Nat
  BY <1>1, TroubleFacts
<1>3. frozen' \in BOOLEAN /\ timer' \in BOOLEAN /\ thawFailed' \in BOOLEAN
  BY JobFacts DEF jobVars
<1>4. CaptureTypeOK'
  BY <1>2, <1>3 DEF CInv, PitsInv, CaptureTypeOK, jobVars
<1>5. FrozenIsTimed'
  BY DEF CInv, PitsInv, FrozenIsTimed, jobVars
<1>6. cap.pc = "catalog" => \A h \in Hosts : cap.pit \in snaps'[h]
  <2>1. cap.pc = "catalog" => Everywhere(cap.pit) /\ cap.pit \in Pits \ DOMAIN ancestry
    BY DEF CInv, PitsInv, CapturesNew
  <2>2. PICK p : p = cap.pit
    OBVIOUS
  <2>3. p \in Pits \ DOMAIN ancestry => (Everywhere(p) => Everywhere(p)')
    OBVIOUS
  <2> QED BY <2>1, <2>2, <2>3 DEF Everywhere
<1>7. CapturesNew'
  BY <1>6 DEF CInv, PitsInv, CapturesNew, jobVars, Everywhere
<1> QED BY <1>4, <1>5, <1>7

\* A step that leaves the disks and the passes alone: what it makes hold
\* anew must not be going.
LEMMA HeldFrame ==
  ASSUME CInv, UNCHANGED <<snaps, pass>>, Cataloged' \subseteq Cataloged, late \subseteq late',
         \A p \in Cataloged' : catalog'[p].presence = catalog[p].presence,
         \A p \in Cataloged' \ late' : Held(p)' => Held(p) \/ ~Going(p)
  PROVE  HeldIsThere'
<1> SUFFICES ASSUME NEW p \in Cataloged' \ late', Held(p)'
             PROVE  catalog'[p].presence = "snapshot" /\ Everywhere(p)' /\ ~Releasing(p)'
  BY DEF HeldIsThere
<1>1. p \in Cataloged \ late
  OBVIOUS
<1>2. Everywhere(p)' <=> Everywhere(p)
  BY DEF Everywhere
<1>3. Releasing(p)' <=> Releasing(p)
  BY DEF Releasing
<1>4. catalog[p].presence \in {"snapshot", "bookmark"}
  BY <1>1, RecordFacts DEF PitRecords
<1> QED BY <1>1, <1>2, <1>3, <1>4 DEF CInv, PitsInv, HeldIsThere, Going

LEMMA HeadFrame ==
  ASSUME CInv, UNCHANGED <<snaps, marks, pass>>, LivePits' \subseteq LivePits
  PROVE  HeadsArePlanned' /\ HeadStaysABase' /\ PassesAgree'
<1>1. \A p : (Marked(p)' <=> Marked(p)) /\ (Everywhere(p)' <=> Everywhere(p))
  BY DEF Marked, Everywhere
<1>2. HeadsArePlanned'
  BY <1>1 DEF CInv, PitsInv, HeadsArePlanned
<1>3. HeadStaysABase'
  BY <1>1 DEF CInv, HeadStaysABase
<1>4. PassesAgree'
  BY DEF CInv, PitsInv, PassesAgree
<1> QED BY <1>2, <1>3, <1>4

-----------------------------------------------------------------------------
(* The PIT is cataloged                                                    *)

LEMMA CatalogInv == ASSUME CInv, Catalog PROVE CInv'
<1> USE DEF At
<1>1. CASE UNCHANGED <<catalog, lineage, ancestry, severed>> /\ Goto("discard")
  <2>1. /\ ~At("idle") /\ ~At("release") /\ "discard" \in JobSteps
        /\ UNCHANGED <<recordVars, marks, otherVars, vmlease, nextPit, snaps, freezeVars>>
        /\ Trouble \/ UNCHANGED ctroubles
    BY <1>1 DEF Catalog, recordVars, zfsVars, JobSteps
  <2>2. frozen' \in BOOLEAN /\ timer' \in BOOLEAN /\ thawFailed' \in BOOLEAN
    BY <2>1, JobFacts DEF freezeVars
  <2>3. frozen' => timer' \/ thawFailed'
    BY <2>1, JobFacts DEF freezeVars
  <2>4. snaps' \in [Hosts -> SUBSET Pits] /\ \A p : Everywhere(p) => Everywhere(p)'
    BY <2>1, JobFacts DEF Everywhere
  <2> QED BY <1>1, <2>1, <2>2, <2>3, <2>4, JobStep
<1>2. CASE ~(UNCHANGED <<catalog, lineage, ancestry, severed>> /\ Goto("discard"))
  <2> DEFINE p == cap.pit
             rec == [parent |-> lineage.head, branch |-> lineage.branch, presence |-> "snapshot",
                     offers |-> [a \in cap.avail |-> "open"], rev |-> 1]
  <2>1. /\ cap.pc = "catalog"
        /\ catalog' = [q \in Cataloged \cup {p} |-> IF q = p THEN rec ELSE catalog[q]]
        /\ lineage' = [lineage EXCEPT !.head = p]
        /\ DOMAIN ancestry' = DOMAIN ancestry \cup {p}
        /\ Goto("release") /\ UNCHANGED ctroubles
        /\ UNCHANGED <<freezeVars, heads, zfsVars, otherVars, vmlease, nextPit>>
    BY <1>2 DEF Catalog
  <2>2. /\ p \in Pits /\ p = nextPit - 1 /\ p \notin DOMAIN ancestry /\ Everywhere(p)
        /\ nextPit \in Nat /\ p \in Nat /\ p # None
    <3>1. /\ p \in Pits /\ p = nextPit - 1 /\ p \notin DOMAIN ancestry /\ Everywhere(p)
          /\ nextPit \in Nat
      BY <2>1 DEF CInv, PitsInv, CapturesNew, CaptureTypeOK
    <3> QED BY <3>1, CaptureAssumption DEF Pits, None
  <2>3. /\ \A q \in Cataloged : q \in DOMAIN ancestry /\ q # p
        /\ \A q \in DOMAIN ancestry : q \in Nat /\ q < nextPit /\ q # p
    <3>1. \A q \in DOMAIN ancestry : q \in Nat /\ q < nextPit /\ q # p
      BY <2>2, CaptureAssumption DEF CInv, PitsInv, CapturesNew, Pits
    <3> QED BY <3>1 DEF CInv, PitsInv, CapturesNew
  <2>4. DOMAIN rec.offers \subseteq Appliances /\ rec \in PitRecords(DOMAIN rec.offers)
        /\ rec.presence = "snapshot" /\ rec.offers = [a \in cap.avail |-> "open"]
    <3>1. lineage.head \in {None} \cup Pits /\ lineage.branch \in Nat /\ cap.avail \subseteq Appliances
      BY DEF CInv, PitsInv, CaptureTypeOK, Lineages, Captures
    <3>2. [a \in cap.avail |-> "open"] \in [cap.avail -> Offers]
      BY DEF Offers
    <3>3. rec \in PitRecords(cap.avail)
      BY <3>1, <3>2 DEF PitRecords
    <3>4. rec.offers = [a \in cap.avail |-> "open"] /\ rec.presence = "snapshot"
      OBVIOUS
    <3> QED BY <3>1, <3>3, <3>4
  <2> HIDE DEF p, rec
  <2>5. /\ Cataloged' = Cataloged \cup {p} /\ catalog'[p] = rec
        /\ \A q \in Cataloged : catalog'[q] = catalog[q]
    BY <2>1, <2>3 DEF Cataloged
  <2>6. cap' \in Captures /\ cap'.pc = "release"
    <3>1. cap \in Captures /\ "release" \in JobSteps
      BY DEF CInv, PitsInv, CaptureTypeOK, JobSteps
    <3> QED BY <2>1, <3>1, GotoFacts
  <2>7. CaptureTypeOK'
    <3>1. CatalogTypeOK'
      BY <2>2, <2>4, <2>5 DEF CInv, PitsInv, CaptureTypeOK, CatalogTypeOK
    <3>2. lineage' \in Lineages
      BY <2>1, <2>2 DEF CInv, PitsInv, CaptureTypeOK, Lineages
    <3>3. frozen' \in BOOLEAN /\ timer' \in BOOLEAN /\ thawFailed' \in BOOLEAN
      BY <2>1, JobFacts DEF freezeVars
    <3> QED
      BY <2>1, <2>6, <3>1, <3>2, <3>3 DEF CInv, PitsInv, CaptureTypeOK, zfsVars, otherVars
  <2>8. FrozenIsTimed'
    BY <2>1, <2>6 DEF CInv, PitsInv, FrozenIsTimed, freezeVars
  <2>9. CapturesNew'
    <3>1. Cataloged' \subseteq DOMAIN ancestry'
      BY <2>1, <2>3, <2>5
    <3>2. \A q \in DOMAIN ancestry' : q \in Pits /\ q < nextPit'
      BY <2>1, <2>2 DEF CInv, PitsInv, CapturesNew
    <3> QED BY <2>1, <2>6, <3>1, <3>2 DEF CInv, PitsInv, CapturesNew, otherVars
  <2>10. /\ \A h \in Hosts : pass[h].pit # p
         /\ \A a \in Appliances : heads[a] # p /\ applied[a].head # p /\ applied[a].pulling # p
    BY <2>2 DEF CInv, PitsInv, CapturesNew
  <2>11. HeldIsThere'
    <3>1. \A q : (Everywhere(q)' <=> Everywhere(q)) /\ (Releasing(q)' <=> Releasing(q))
      BY <2>1 DEF Everywhere, Releasing, zfsVars, otherVars
    <3>2. \A q \in Cataloged : Held(q)' <=> Held(q)
      BY <2>5 DEF Held
    <3>3. ~Releasing(p)
      BY <2>10 DEF Releasing
    <3> QED
      BY <2>1, <2>2, <2>4, <2>5, <3>1, <3>2, <3>3 DEF CInv, PitsInv, HeldIsThere, otherVars
  <2>12. PullsAgree'
    <3>1. \A q \in Cataloged, a \in Appliances : OfferOf(q, a)' = OfferOf(q, a)
      BY <2>5 DEF OfferOf
    <3>2. UNCHANGED <<heads, applied>>
      BY <2>1 DEF otherVars
    <3>3. \A a \in Appliances : applied[a].head \in Cataloged => ~(p <= applied[a].head)
      BY <2>2, <2>3
    <3> QED
      BY <2>3, <2>5, <2>10, <3>1, <3>2, <3>3 DEF CInv, PitsInv, PullsAgree, Unsettled
  <2>13. LivePits' \subseteq LivePits /\ UNCHANGED <<snaps, marks, pass>>
    BY <2>1, <2>5, <2>10 DEF LivePits, otherVars, zfsVars
  <2> QED
    BY <2>7, <2>8, <2>9, <2>11, <2>12, <2>13, HeadFrame DEF CInv, PitsInv
<1> QED BY <1>1, <1>2

-----------------------------------------------------------------------------
(* The appliances                                                          *)

\* One offer changes, and with it at most the revision of its record.
OneOffer(p, a, x) ==
    /\ Cataloged' = Cataloged /\ \A q \in Cataloged \ {p} : catalog'[q] = catalog[q]
    /\ catalog'[p] \in PitRecords(DOMAIN catalog[p].offers)
    /\ DOMAIN catalog'[p].offers = DOMAIN catalog[p].offers
    /\ catalog'[p].offers[a] = x
    /\ \A b \in DOMAIN catalog[p].offers \ {a} : catalog'[p].offers[b] = catalog[p].offers[b]
    /\ catalog'[p].branch = catalog[p].branch /\ catalog'[p].presence = catalog[p].presence

LEMMA OneOfferFacts ==
  ASSUME CInv, NEW p \in Cataloged, NEW a \in DOMAIN catalog[p].offers, NEW x, OneOffer(p, a, x)
  PROVE  /\ CatalogTypeOK' /\ Cataloged' = Cataloged
         /\ \A q \in Cataloged : /\ catalog'[q].branch = catalog[q].branch
                                 /\ catalog'[q].presence = catalog[q].presence
                                 /\ Held(q)' => Held(q) \/ (q = p /\ Holds(x))
         /\ OfferOf(p, a)' = x
         /\ \A q \in Cataloged, b \in Appliances :
               (q # p \/ b # a) => OfferOf(q, b)' = OfferOf(q, b)
<1>1. /\ Cataloged' = Cataloged
      /\ \A q \in Cataloged \ {p} : catalog'[q] = catalog[q]
  BY DEF OneOffer
<1>2. /\ DOMAIN catalog'[p].offers = DOMAIN catalog[p].offers
      /\ catalog'[p].offers[a] = x
      /\ \A b \in DOMAIN catalog[p].offers \ {a} : catalog'[p].offers[b] = catalog[p].offers[b]
      /\ catalog'[p] \in PitRecords(DOMAIN catalog[p].offers)
      /\ catalog'[p].branch = catalog[p].branch /\ catalog'[p].presence = catalog[p].presence
  BY DEF OneOffer
<1>3. CatalogTypeOK'
  BY <1>1, <1>2 DEF CInv, PitsInv, CaptureTypeOK, CatalogTypeOK
<1>4. \A q \in Cataloged : /\ catalog'[q].branch = catalog[q].branch
                           /\ catalog'[q].presence = catalog[q].presence
  BY <1>1, <1>2
<1>5. \A q \in Cataloged : Held(q)' => Held(q) \/ (q = p /\ Holds(x))
  BY <1>1, <1>2 DEF Held, Holds
<1>6. /\ OfferOf(p, a)' = x
      /\ \A q \in Cataloged, b \in Appliances :
            (q # p \/ b # a) => OfferOf(q, b)' = OfferOf(q, b)
  BY <1>1, <1>2 DEF OfferOf
<1> QED BY <1>1, <1>3, <1>4, <1>5, <1>6

\* The types of what only the other actors change.
LEMMA OtherFacts ==
  ASSUME CInv
  PROVE  /\ snaps \in [Hosts -> SUBSET Pits] /\ marks \in [Hosts -> SUBSET Pits]
         /\ heads \in [Appliances -> {None} \cup Pits] /\ applied \in [Appliances -> Pulls]
         /\ pass \in [Hosts -> Passes] /\ late \subseteq Pits /\ outrun \subseteq Pits
         /\ CatalogTypeOK /\ ctroubles \in Nat
         /\ \A h \in Hosts : ({pass[h].pit} \cup pass[h].left) \subseteq DOMAIN ancestry \cup {None}
         /\ \A a \in Appliances :
              {heads[a], applied[a].head, applied[a].pulling} \subseteq DOMAIN ancestry \cup {None}
BY DEF CInv, PitsInv, CaptureTypeOK, CapturesNew

LEMMA PullFacts ==
  ASSUME CInv, NEW a \in Appliances
  PROVE  /\ applied[a] \in Pulls
         /\ applied[a].pulling # None => heads[a] = applied[a].head
         /\ \A p \in Cataloged :
              /\ (p = applied[a].pulling \/ (p = applied[a].head /\ heads[a] # applied[a].head)) =>
                    OfferOf(p, a) \in {"claimed", "stalled"}
              /\ ( /\ applied[a].head \in Cataloged /\ heads[a] = applied[a].head
                   /\ p <= applied[a].head
                   /\ catalog[p].branch = catalog[applied[a].head].branch ) =>
                    OfferOf(p, a) \notin Unsettled
BY DEF CInv, PitsInv, CaptureTypeOK, PullsAgree

LEMMA LapsesInv == ASSUME CInv, NEW p \in Pits, NEW a \in Appliances, Lapses(p, a) PROVE CInv'
<1>1. /\ p \in Cataloged /\ Holds(OfferOf(p, a)) /\ Trouble
      /\ catalog' = [catalog EXCEPT ![p].offers[a] = IF @ = "open" THEN "lapsed" ELSE "stalled"]
      /\ UNCHANGED <<freezeVars, lineage, heads, ancestry, zfsVars, otherVars, vmlease, cap, nextPit>>
  BY DEF Lapses
<1>2. a \in DOMAIN catalog[p].offers
  BY <1>1 DEF OfferOf, Holds
<1>3. PICK x \in Offers : /\ x = (IF catalog[p].offers[a] = "open" THEN "lapsed" ELSE "stalled")
                          /\ x \in {"lapsed", "stalled"}
  BY DEF Offers
<1>4. PICK r : r = [catalog[p] EXCEPT !.offers[a] = x]
  OBVIOUS
<1>5. r \in PitRecords(DOMAIN catalog[p].offers)
  BY <1>1, <1>2, <1>3, <1>4, RecordFacts, OfferSetFacts
<1>6. r.offers = [catalog[p].offers EXCEPT ![a] = x] /\ r.branch = catalog[p].branch
      /\ r.presence = catalog[p].presence
  BY <1>1, <1>2, <1>3, <1>4, RecordFacts, OfferSetFacts
<1>7. catalog' = [catalog EXCEPT ![p] = r]
  BY <1>1, <1>3, <1>4
<1>8. /\ CatalogTypeOK' /\ Cataloged' = Cataloged
      /\ \A q \in Cataloged : /\ catalog'[q].branch = catalog[q].branch
                              /\ catalog'[q].presence = catalog[q].presence
                              /\ Held(q)' => Held(q) \/ (q = p /\ Holds(x))
      /\ OfferOf(p, a)' = x
      /\ \A q \in Cataloged, b \in Appliances :
            (q # p \/ b # a) => OfferOf(q, b)' = OfferOf(q, b)
  <2>1. OneOffer(p, a, x)
    BY <1>1, <1>2, <1>5, <1>6, <1>7, RecordFacts DEF OneOffer, Cataloged
  <2> QED BY <1>1, <1>2, <2>1, OneOfferFacts
<1>9. UNCHANGED jobVars /\ UNCHANGED <<snaps, marks, heads, applied, pass, late, outrun>>
  BY <1>1 DEF jobVars, freezeVars, zfsVars, otherVars
<1>10. CaptureTypeOK' /\ FrozenIsTimed' /\ CapturesNew'
  <2>1. \A q : Everywhere(q) => Everywhere(q)'
    BY <1>9 DEF Everywhere
  <2> QED BY <1>1, <1>8, <1>9, <2>1, OtherFacts, OuterFrame
<1>11. HeldIsThere'
  <2>1. ~Holds(x)
    BY <1>3 DEF Holds
  <2> QED BY <1>8, <1>9, <2>1, HeldFrame
<1>12. PullsAgree'
  <2>1. OfferOf(p, a) \in {"open", "claimed"} /\ (OfferOf(p, a) = "claimed" => x = "stalled")
    BY <1>1, <1>2, <1>3 DEF OfferOf, Holds
  <2>2. \A q \in Cataloged, b \in Appliances :
          /\ OfferOf(q, b) \in {"claimed", "stalled"} => OfferOf(q, b)' \in {"claimed", "stalled"}
          /\ OfferOf(q, b) \notin Unsettled => OfferOf(q, b)' \notin Unsettled
    BY <1>8, <2>1 DEF Unsettled
  <2> QED BY <1>8, <1>9, <2>2 DEF CInv, PitsInv, PullsAgree, Unsettled
<1>13. LivePits' \subseteq LivePits
  BY <1>8, <1>9 DEF LivePits
<1> QED BY <1>9, <1>10, <1>11, <1>12, <1>13, HeadFrame DEF CInv, PitsInv

LEMMA PublishInv == ASSUME CInv, NEW a \in Appliances, Publish(a) PROVE CInv'
<1>1. /\ applied[a].pulling # None
      /\ applied' = [applied EXCEPT ![a] = [head |-> applied[a].pulling, pulling |-> None]]
      /\ UNCHANGED <<freezeVars, recordVars, zfsVars, owner, pass, late, outrun, vmlease, cap,
                     nextPit, ctroubles>>
  BY DEF Publish
<1>2. applied[a] \in Pulls /\ applied \in [Appliances -> Pulls]
  BY OtherFacts
<1>3. /\ applied'[a].head = applied[a].pulling /\ applied'[a].pulling = None
      /\ \A b \in Appliances \ {a} : applied'[b] = applied[b]
  BY <1>1, <1>2
<1>4. applied' \in [Appliances -> Pulls]
  <2>1. [head |-> applied[a].pulling, pulling |-> None] \in Pulls
    BY <1>2 DEF Pulls
  <2> QED BY <1>1, <1>2, <2>1
<1>5. UNCHANGED jobVars /\ UNCHANGED <<catalog, snaps, marks, heads, pass, late, outrun, ctroubles>>
  BY <1>1 DEF jobVars, freezeVars, recordVars, zfsVars
<1>6. CatalogTypeOK' /\ Cataloged' = Cataloged /\ \A q : Everywhere(q) => Everywhere(q)'
  BY <1>5, OtherFacts DEF CatalogTypeOK, Cataloged, Everywhere
<1>7. CaptureTypeOK' /\ FrozenIsTimed' /\ CapturesNew'
  <2>1. \A b \in Appliances :
          {heads'[b], applied'[b].head, applied'[b].pulling} \subseteq DOMAIN ancestry \cup {None}
    BY <1>3, <1>5, OtherFacts
  <2> QED BY <1>4, <1>5, <1>6, <2>1, OtherFacts, OuterFrame
<1>8. HeldIsThere'
  <2>1. \A q : Held(q)' => Held(q)
    BY <1>5 DEF Held
  <2> QED BY <1>5, <1>6, <2>1, HeldFrame
<1>9. PullsAgree'
  <2>1. \A q, b : OfferOf(q, b)' = OfferOf(q, b)
    BY <1>5 DEF OfferOf
  <2>2. \A b \in Appliances \ {a} :
        /\ applied[b].pulling # None => heads[b] = applied[b].head
        /\ \A p \in Cataloged :
              /\ (p = applied[b].pulling \/ (p = applied[b].head /\ heads[b] # applied[b].head)) =>
                    OfferOf(p, b) \in {"claimed", "stalled"}
              /\ ( /\ applied[b].head \in Cataloged /\ heads[b] = applied[b].head
                   /\ p <= applied[b].head
                   /\ catalog[p].branch = catalog[applied[b].head].branch ) =>
                    OfferOf(p, b) \notin Unsettled
    BY PullFacts
  <2>3. /\ \A p \in Cataloged : p # None
        /\ heads[a] = applied[a].head
        /\ applied[a].pulling \in Cataloged => OfferOf(applied[a].pulling, a) \in {"claimed", "stalled"}
        /\ applied[a].pulling \in Cataloged => heads[a] # applied[a].pulling
    <3>1. \A p \in Cataloged : p # None /\ p \in Nat
      BY RecordFacts DEF None
    <3>2. \A p \in Nat : p <= p
      OBVIOUS
    <3> QED BY <1>1, <3>1, <3>2, PullFacts DEF Unsettled
  <2> QED BY <1>3, <1>5, <1>6, <2>1, <2>2, <2>3 DEF PullsAgree, Unsettled
<1>10. LivePits' \subseteq LivePits
  BY <1>5 DEF LivePits, Cataloged
<1> QED BY <1>5, <1>7, <1>8, <1>9, <1>10, HeadFrame DEF CInv, PitsInv

LEMMA ClaimInv == ASSUME CInv, NEW a \in Appliances, Claim(a) PROVE CInv'
<1> DEFINE Q == Offered(a)
<1>1. PICK p : /\ p = CHOOSE q \in Q : \A r \in Q : r <= q
               /\ catalog' = Saved(p, [catalog[p] EXCEPT !.offers[a] = "claimed"])
               /\ applied' = [applied EXCEPT ![a].pulling = p]
  BY DEF Claim
<1>2. /\ applied[a].pulling = None /\ heads[a] = applied[a].head /\ Q # {}
      /\ UNCHANGED <<freezeVars, lineage, heads, ancestry, zfsVars, owner, pass, late, outrun,
                     vmlease, cap, nextPit, ctroubles>>
  BY DEF Claim
<1>3. Q \subseteq Cataloged /\ \A q \in Q : Holds(OfferOf(q, a))
  BY DEF Offered
<1>4. Q \subseteq Pits
  BY <1>3, RecordFacts
<1> HIDE DEF Q
<1>5. p \in Q
  BY <1>1, <1>2, <1>4, NewestExists
<1>6. p \in Cataloged /\ Holds(OfferOf(p, a)) /\ p \in DOMAIN ancestry /\ p \in Pits
  BY <1>3, <1>5, RecordFacts
<1>7. a \in DOMAIN catalog[p].offers /\ "claimed" \in Offers
  BY <1>6 DEF OfferOf, Holds, Offers
<1>8. PICK c : c = [catalog[p] EXCEPT !.offers[a] = "claimed"]
  OBVIOUS
<1>9. /\ c \in PitRecords(DOMAIN catalog[p].offers)
      /\ c.offers = [catalog[p].offers EXCEPT ![a] = "claimed"]
      /\ c.branch = catalog[p].branch /\ c.presence = catalog[p].presence
  BY <1>6, <1>7, <1>8, RecordFacts, OfferSetFacts
<1>10. PICK r : r = Bumped(p, c)
  OBVIOUS
<1>11. /\ r \in PitRecords(DOMAIN catalog[p].offers)
       /\ r.offers = [catalog[p].offers EXCEPT ![a] = "claimed"]
       /\ r.branch = catalog[p].branch /\ r.presence = catalog[p].presence
  BY <1>9, <1>10, BumpFacts
<1>12. catalog' = [catalog EXCEPT ![p] = r]
  BY <1>1, <1>8, <1>10 DEF Saved
<1>13. /\ CatalogTypeOK' /\ Cataloged' = Cataloged
       /\ \A q \in Cataloged : /\ catalog'[q].branch = catalog[q].branch
                               /\ catalog'[q].presence = catalog[q].presence
                               /\ Held(q)' => Held(q) \/ (q = p /\ Holds("claimed"))
       /\ OfferOf(p, a)' = "claimed"
       /\ \A q \in Cataloged, b \in Appliances :
             (q # p \/ b # a) => OfferOf(q, b)' = OfferOf(q, b)
  <2>1. OneOffer(p, a, "claimed")
    BY <1>6, <1>7, <1>11, <1>12, RecordFacts DEF OneOffer, Cataloged
  <2> QED BY <1>6, <1>7, <2>1, OneOfferFacts
<1>14. Held(p)
  BY <1>6, <1>7 DEF Held, OfferOf
<1>15. UNCHANGED jobVars /\ UNCHANGED <<snaps, marks, heads, pass, late, outrun, ctroubles>>
  BY <1>2 DEF jobVars, freezeVars, zfsVars
<1>16. applied[a] \in Pulls /\ applied \in [Appliances -> Pulls]
  BY OtherFacts
<1>17. /\ applied'[a].head = applied[a].head /\ applied'[a].pulling = p
       /\ \A b \in Appliances \ {a} : applied'[b] = applied[b]
  BY <1>1, <1>16 DEF Pulls
<1>18. applied' \in [Appliances -> Pulls]
  <2>1. [applied[a] EXCEPT !.pulling = p] \in Pulls
    BY <1>6, <1>16 DEF Pulls
  <2> QED BY <1>1, <1>16, <2>1
<1>19. CaptureTypeOK' /\ FrozenIsTimed' /\ CapturesNew'
  <2>1. \A b \in Appliances :
          {heads'[b], applied'[b].head, applied'[b].pulling} \subseteq DOMAIN ancestry \cup {None}
    BY <1>6, <1>15, <1>17, OtherFacts
  <2>2. \A q : Everywhere(q) => Everywhere(q)'
    BY <1>15 DEF Everywhere
  <2> QED BY <1>13, <1>15, <1>18, <2>1, <2>2, OtherFacts, OuterFrame
<1>20. HeldIsThere'
  BY <1>13, <1>14, <1>15, HeldFrame
<1>21. PullsAgree'
  <2>1. \A b \in Appliances \ {a} :
        /\ applied[b].pulling # None => heads[b] = applied[b].head
        /\ \A q \in Cataloged :
              /\ (q = applied[b].pulling \/ (q = applied[b].head /\ heads[b] # applied[b].head)) =>
                    OfferOf(q, b) \in {"claimed", "stalled"}
              /\ ( /\ applied[b].head \in Cataloged /\ heads[b] = applied[b].head
                   /\ q <= applied[b].head
                   /\ catalog[q].branch = catalog[applied[b].head].branch ) =>
                    OfferOf(q, b) \notin Unsettled
    BY PullFacts
  <2>2. \A q \in Cataloged :
          ( /\ applied[a].head \in Cataloged /\ heads[a] = applied[a].head
            /\ q <= applied[a].head
            /\ catalog[q].branch = catalog[applied[a].head].branch ) =>
          q # p /\ OfferOf(q, a) \notin Unsettled
    BY <1>6, PullFacts DEF Holds, Unsettled
  <2> QED BY <1>2, <1>13, <1>15, <1>17, <2>1, <2>2 DEF PullsAgree, Unsettled
<1>22. LivePits' \subseteq LivePits
  BY <1>13, <1>15 DEF LivePits
<1> QED BY <1>15, <1>19, <1>20, <1>21, <1>22, HeadFrame DEF CInv, PitsInv

\* What a check-in makes of the offer of one PIT.
LEMMA SettledFacts ==
  ASSUME CInv, NEW p \in Cataloged, NEW a \in DOMAIN catalog[p].offers, NEW f \in BOOLEAN
  PROVE  /\ Settled(p, a, f) \in Offers
         /\ OfferOf(p, a) = catalog[p].offers[a]
         /\ OfferOf(p, a) \notin Unsettled => Settled(p, a, f) = OfferOf(p, a)
         /\ OfferOf(p, a) \in Unsettled =>
              /\ applied[a].head = p => Settled(p, a, f) = "published"
              /\ applied[a].head # p /\ applied[a].pulling = p =>
                    Settled(p, a, f) = IF f THEN "failed" ELSE "claimed"
              /\ applied[a].head # p /\ applied[a].pulling # p => Settled(p, a, f) = OfferOf(p, a)
<1>1. OfferOf(p, a) = catalog[p].offers[a] /\ OfferOf(p, a) \in Offers
  BY RecordFacts DEF OfferOf
<1>2. OfferOf(p, a) \notin Unsettled => Settled(p, a, f) = OfferOf(p, a)
  BY DEF Settled
<1>3. ASSUME OfferOf(p, a) \in Unsettled
      PROVE  /\ applied[a].head = p => Settled(p, a, f) = "published"
             /\ applied[a].head # p /\ applied[a].pulling = p =>
                   Settled(p, a, f) = IF f THEN "failed" ELSE "claimed"
             /\ applied[a].head # p /\ applied[a].pulling # p => Settled(p, a, f) = OfferOf(p, a)
  BY <1>3 DEF Settled
<1>4. Settled(p, a, f) \in Offers
  BY <1>1, <1>2, <1>3 DEF Offers
<1> QED BY <1>1, <1>2, <1>3, <1>4

\* The record of the PIT after it.
LEMMA CheckedInFacts ==
  ASSUME CInv, NEW p \in Cataloged, NEW a \in Appliances, NEW f \in BOOLEAN,
         NEW r, r = CheckedIn(p, a, f)
  PROVE  /\ DOMAIN r.offers =
              IF Superseded(p, a) THEN DOMAIN catalog[p].offers \ {a} ELSE DOMAIN catalog[p].offers
         /\ \A b \in DOMAIN r.offers \ {a} : r.offers[b] = catalog[p].offers[b]
         /\ a \in DOMAIN r.offers => r.offers[a] = Settled(p, a, f)
         /\ r \in PitRecords(DOMAIN r.offers)
         /\ r.branch = catalog[p].branch /\ r.presence = catalog[p].presence
<1> DEFINE rec == catalog[p]
           kept == IF Superseded(p, a) THEN DOMAIN rec.offers \ {a} ELSE DOMAIN rec.offers
           offers == [b \in kept |-> IF b = a THEN Settled(p, a, f) ELSE rec.offers[b]]
<1>1. rec \in PitRecords(DOMAIN rec.offers) /\ rec.offers \in [DOMAIN rec.offers -> Offers]
  BY RecordFacts
<1>2. offers \in [kept -> Offers]
  <2>1. a \in kept => Settled(p, a, f) \in Offers
    BY SettledFacts
  <2> QED BY <1>1, <2>1
<1>3. r = IF offers = rec.offers THEN rec ELSE Bumped(p, [rec EXCEPT !.offers = offers])
  BY DEF CheckedIn
<1>4. /\ DOMAIN offers = kept /\ \A b \in kept \ {a} : offers[b] = rec.offers[b]
      /\ a \in kept => offers[a] = Settled(p, a, f)
  OBVIOUS
<1>5. r.offers = offers /\ r \in PitRecords(kept) /\ r.branch = rec.branch /\ r.presence = rec.presence
  <2>1. CASE offers = rec.offers
    <3>1. kept = DOMAIN rec.offers
      BY <1>4, <2>1
    <3> HIDE DEF offers, kept
    <3> QED BY <1>1, <1>3, <2>1, <3>1
  <2>2. CASE offers # rec.offers
    <3> HIDE DEF offers, kept
    <3>1. PICK o \in [kept -> Offers] : o = offers
      BY <1>2
    <3>2. PICK s : s = [rec EXCEPT !.offers = o]
      OBVIOUS
    <3>3. s \in PitRecords(kept) /\ s.offers = o /\ s.branch = rec.branch /\ s.presence = rec.presence
      BY <1>1, <3>2, OffersFacts
    <3>4. r = Bumped(p, s)
      BY <1>3, <2>2, <3>1, <3>2
    <3> QED BY <3>1, <3>3, <3>4, BumpFacts
  <2> QED BY <2>1, <2>2
<1> QED BY <1>4, <1>5

LEMMA CheckInInv ==
  ASSUME CInv, NEW a \in Appliances, NEW f \in BOOLEAN, CheckIn(a, f)
  PROVE  CInv'
<1> DEFINE head == applied[a].head
<1>1. /\ catalog' = [p \in Cataloged |-> CheckedIn(p, a, f)]
      /\ heads' = [heads EXCEPT ![a] = head]
      /\ late' = late \cup BackLate(a, catalog') /\ outrun' = outrun \cup Outrun(a, catalog')
      /\ applied' = IF f THEN [applied EXCEPT ![a].pulling = None] ELSE applied
      /\ UNCHANGED <<freezeVars, lineage, ancestry, zfsVars, owner, pass, vmlease, cap, nextPit,
                     ctroubles>>
  BY DEF CheckIn
<1>2. Cataloged' = Cataloged
  BY <1>1 DEF Cataloged
<1>3. ASSUME NEW p \in Cataloged
      PROVE  /\ DOMAIN catalog'[p].offers =
                  IF Superseded(p, a) THEN DOMAIN catalog[p].offers \ {a}
                  ELSE DOMAIN catalog[p].offers
             /\ \A b \in DOMAIN catalog'[p].offers \ {a} : catalog'[p].offers[b] = catalog[p].offers[b]
             /\ a \in DOMAIN catalog'[p].offers => catalog'[p].offers[a] = Settled(p, a, f)
             /\ catalog'[p] \in PitRecords(DOMAIN catalog'[p].offers)
             /\ catalog'[p].branch = catalog[p].branch /\ catalog'[p].presence = catalog[p].presence
  <2>1. catalog'[p] = CheckedIn(p, a, f)
    BY <1>1
  <2>2. PICK r : r = CheckedIn(p, a, f)
    OBVIOUS
  <2>3. /\ DOMAIN r.offers =
              IF Superseded(p, a) THEN DOMAIN catalog[p].offers \ {a} ELSE DOMAIN catalog[p].offers
        /\ \A b \in DOMAIN r.offers \ {a} : r.offers[b] = catalog[p].offers[b]
        /\ a \in DOMAIN r.offers => r.offers[a] = Settled(p, a, f)
        /\ r \in PitRecords(DOMAIN r.offers)
        /\ r.branch = catalog[p].branch /\ r.presence = catalog[p].presence
    BY <2>2, CheckedInFacts
  <2> QED BY <2>1, <2>2, <2>3
<1>4. /\ \A p \in Cataloged, b \in Appliances \ {a} : OfferOf(p, b)' = OfferOf(p, b)
      /\ \A p \in Cataloged : OfferOf(p, a)' =
            IF a \in DOMAIN catalog[p].offers /\ ~Superseded(p, a) THEN Settled(p, a, f) ELSE "none"
  BY <1>3 DEF OfferOf
<1>5. UNCHANGED jobVars /\ UNCHANGED <<snaps, marks, pass, ctroubles>>
  BY <1>1 DEF jobVars, freezeVars, zfsVars
<1>6. /\ applied'[a].head = head
      /\ applied'[a].pulling \in {None, applied[a].pulling}
      /\ f => applied'[a].pulling = None
      /\ \A b \in Appliances \ {a} : applied'[b] = applied[b]
      /\ applied' \in [Appliances -> Pulls]
  <2>1. applied \in [Appliances -> Pulls] /\ applied[a] \in Pulls
    BY OtherFacts
  <2>2. [applied[a] EXCEPT !.pulling = None] \in Pulls
    BY <2>1 DEF Pulls
  <2>3. applied' \in [Appliances -> Pulls]
    BY <1>1, <2>1, <2>2
  <2>4. /\ applied'[a].head = head
        /\ applied'[a].pulling \in {None, applied[a].pulling}
        /\ f => applied'[a].pulling = None
        /\ \A b \in Appliances \ {a} : applied'[b] = applied[b]
    BY <1>1, <2>1 DEF Pulls
  <2> QED BY <2>3, <2>4
<1>7. /\ heads \in [Appliances -> {None} \cup Pits] /\ heads'[a] = head
      /\ \A b \in Appliances \ {a} : heads'[b] = heads[b]
      /\ heads' \in [Appliances -> {None} \cup Pits]
  <2>1. heads \in [Appliances -> {None} \cup Pits] /\ head \in {None} \cup Pits
    BY OtherFacts DEF Pulls
  <2> HIDE DEF head
  <2> QED BY <1>1, <2>1
<1>8. CaptureTypeOK' /\ FrozenIsTimed' /\ CapturesNew'
  <2>1. CatalogTypeOK'
    BY <1>2, <1>3, RecordFacts DEF CatalogTypeOK
  <2>2. late' \subseteq Pits /\ outrun' \subseteq Pits
    <3>1. BackLate(a, catalog') \subseteq Cataloged /\ Outrun(a, catalog') \subseteq Cataloged
      BY DEF BackLate, Outrun
    <3> QED BY <1>1, <3>1, RecordFacts, OtherFacts
  <2>3. \A b \in Appliances :
          {heads'[b], applied'[b].head, applied'[b].pulling} \subseteq DOMAIN ancestry \cup {None}
    BY <1>6, <1>7, OtherFacts
  <2>4. \A q : Everywhere(q) => Everywhere(q)'
    BY <1>5 DEF Everywhere
  <2> QED BY <1>2, <1>5, <1>6, <1>7, <2>1, <2>2, <2>3, <2>4, OtherFacts, OuterFrame
<1>9. HeldIsThere'
  <2>1. ASSUME NEW p \in Cataloged \ late', Held(p)', ~Held(p) PROVE ~Going(p)
    <3>1. PICK b \in DOMAIN catalog'[p].offers : Holds(catalog'[p].offers[b])
      BY <2>1 DEF Held
    <3>2. b = a
      BY <1>3, <2>1, <3>1 DEF Held
    <3>3. a \in DOMAIN catalog[p].offers /\ catalog'[p].offers[a] = Settled(p, a, f)
      BY <1>3, <3>1, <3>2
    <3>4. OfferOf(p, a) = catalog[p].offers[a] /\ ~Holds(OfferOf(p, a))
      BY <2>1, <3>3, SettledFacts DEF Held
    <3>5. Settled(p, a, f) = "claimed" /\ OfferOf(p, a) \in {"lapsed", "stalled"}
      BY <3>1, <3>2, <3>3, <3>4, SettledFacts DEF Holds, Unsettled
    <3>6. p \notin BackLate(a, catalog')
      BY <1>1, <2>1
    <3> QED BY <3>1, <3>2, <3>3, <3>5, <3>6 DEF BackLate
  <2> QED BY <1>1, <1>2, <1>3, <1>5, <2>1, HeldFrame
<1>10. PullsAgree'
  <2> SUFFICES ASSUME NEW b \in Appliances
               PROVE  /\ applied'[b].pulling # None => heads'[b] = applied'[b].head
                      /\ \A p \in Cataloged :
                           /\ (p = applied'[b].pulling \/ (p = applied'[b].head /\ heads'[b] # applied'[b].head)) =>
                                 OfferOf(p, b)' \in {"claimed", "stalled"}
                           /\ ( /\ applied'[b].head \in Cataloged /\ heads'[b] = applied'[b].head
                                /\ p <= applied'[b].head
                                /\ catalog'[p].branch = catalog'[applied'[b].head].branch ) =>
                                 OfferOf(p, b)' \notin Unsettled
    BY <1>2 DEF PullsAgree, Unsettled
  <2>1. CASE b # a
    <3>1. applied'[b] = applied[b] /\ heads'[b] = heads[b]
          /\ \A p \in Cataloged : OfferOf(p, b)' = OfferOf(p, b)
      BY <1>4, <1>6, <1>7, <2>1
    <3>2. \A p \in Cataloged : catalog'[p].branch = catalog[p].branch
      BY <1>3
    <3> QED BY <3>1, <3>2, PullFacts
  <2>2. CASE b = a
    <3>1. \A p \in Cataloged : p \in Nat /\ p # None
      BY RecordFacts DEF None
    <3>2. ASSUME NEW p \in Cataloged, p = applied'[a].pulling
          PROVE  OfferOf(p, a)' \in {"claimed", "stalled"}
      <4>1. p = applied[a].pulling /\ ~f /\ heads[a] = head
        BY <1>6, <3>1, <3>2, PullFacts
      <4>2. OfferOf(p, a) \in {"claimed", "stalled"}
        BY <4>1, PullFacts
      <4>3. p # head /\ ~Superseded(p, a)
        BY <3>1, <4>1, <4>2, PullFacts DEF Superseded, Unsettled
      <4>4. a \in DOMAIN catalog[p].offers
        BY <4>2 DEF OfferOf
      <4> QED BY <1>4, <4>1, <4>2, <4>3, <4>4, SettledFacts DEF Unsettled
    <3>3. ASSUME NEW p \in Cataloged, head \in Cataloged, p <= head,
                 catalog[p].branch = catalog[head].branch
          PROVE  OfferOf(p, a)' \notin Unsettled
      <4>1. CASE a \notin DOMAIN catalog[p].offers \/ Superseded(p, a)
        BY <1>4, <4>1 DEF Unsettled
      <4>2. CASE a \in DOMAIN catalog[p].offers /\ ~Superseded(p, a)
        <5>1. p = head \/ OfferOf(p, a) \notin Unsettled
          BY <3>1, <3>3, <4>2 DEF Superseded
        <5> QED BY <1>4, <4>2, <5>1, SettledFacts DEF Unsettled
      <4> QED BY <4>1, <4>2
    <3> QED BY <1>3, <1>6, <1>7, <2>2, <3>2, <3>3, ZenonT(30)
  <2> QED BY <2>1, <2>2
<1>11. ASSUME NEW p \in LivePits', p \notin LivePits
       PROVE  /\ Everywhere(p) /\ ~Releasing(p)
              /\ \A h \in Hosts : pass[h].pc # "idle" => p \in pass[h].marks
  <2>1. /\ p \in Cataloged /\ p \notin late /\ p \notin outrun
        /\ p \notin BackLate(a, catalog') /\ p \notin Outrun(a, catalog')
        /\ \E b \in Appliances \ Delinquent : p = heads'[b]
    BY <1>1, <1>2, <1>11 DEF LivePits
  <2>2. \A b \in Appliances \ Delinquent : p # heads[b]
    BY <1>11, <2>1 DEF LivePits
  <2>3. p = head /\ heads[a] # head
    BY <1>7, <2>1, <2>2
  <2>4. OfferOf(p, a) \in {"claimed", "stalled"}
    BY <2>1, <2>3, PullFacts
  <2>5. a \in DOMAIN catalog[p].offers /\ ~Superseded(p, a)
    <3>1. ~(p < p)
      BY <2>1, RecordFacts
    <3> QED BY <2>3, <2>4, <3>1 DEF OfferOf, Superseded
  <2>6. a \in DOMAIN catalog'[p].offers /\ catalog'[p].offers[a] = "published"
    <3>1. Settled(p, a, f) = "published"
      BY <2>1, <2>3, <2>4, <2>5, SettledFacts DEF Unsettled
    <3>2. a \in DOMAIN catalog'[p].offers
      BY <1>3, <2>1, <2>5
    <3> QED BY <1>3, <2>1, <3>1, <3>2
  <2>7. OfferOf(p, a) = "claimed"
    BY <2>1, <2>4, <2>6 DEF BackLate
  <2>8. Held(p)
    BY <2>5, <2>7 DEF Held, Holds, OfferOf
  <2>9. Everywhere(p) /\ ~Releasing(p)
    BY <2>1, <2>8 DEF CInv, PitsInv, HeldIsThere
  <2> QED BY <2>1, <2>6, <2>7, <2>9 DEF Outrun
<1>12. \A p : /\ (Everywhere(p)' <=> Everywhere(p)) /\ (Marked(p)' <=> Marked(p))
  BY <1>5 DEF Everywhere, Marked
<1>13. HeadsArePlanned'
  <2> SUFFICES ASSUME NEW p \in LivePits', NEW h \in Hosts, pass[h].pc # "idle"
               PROVE  /\ p \in pass[h].marks
                      /\ (pass[h].pit = p /\ pass[h].pc \in {"destroy", "save"}) => Marked(p)
    BY <1>5, <1>12 DEF HeadsArePlanned
  <2>1. CASE p \in LivePits
    BY <2>1 DEF CInv, PitsInv, HeadsArePlanned
  <2>2. CASE p \notin LivePits
    BY <1>11, <2>2 DEF Releasing
  <2> QED BY <2>1, <2>2
<1>14. HeadStaysABase'
  <2> SUFFICES ASSUME NEW p \in LivePits' PROVE Everywhere(p) \/ Marked(p)
    BY <1>12 DEF HeadStaysABase
  <2>1. CASE p \in LivePits
    BY <2>1 DEF CInv, HeadStaysABase
  <2>2. CASE p \notin LivePits
    BY <1>11, <2>2
  <2> QED BY <2>1, <2>2
<1>15. PassesAgree'
  BY <1>5 DEF CInv, PitsInv, PassesAgree
<1> QED
  BY <1>8, <1>9, <1>10, <1>13, <1>14, <1>15 DEF CInv, PitsInv

-----------------------------------------------------------------------------
(* Upkeep                                                                  *)

InHand == {"mark", "destroy", "save", "drop"}

\* What every step of a pass does to the records, the disks and the pass.
KeepsRecords(h) ==
    /\ CatalogTypeOK' /\ Cataloged' \subseteq Cataloged
    /\ \A p \in Cataloged' :
          /\ Held(p)' => Held(p)
          /\ catalog'[p].branch = catalog[p].branch
          /\ catalog'[p].presence = catalog[p].presence \/ (p = pass[h].pit /\ pass[h].pc \in InHand)
          /\ \A a \in Appliances : OfferOf(p, a)' = OfferOf(p, a)

KeepsDisks(h) ==
    /\ snaps' \in [Hosts -> SUBSET Pits] /\ marks' \in [Hosts -> SUBSET Pits]
    /\ \A p : Everywhere(p) => Everywhere(p)' \/ (p = pass[h].pit /\ pass[h].pc = "destroy")
    /\ \A p \in LivePits : Marked(p) => Marked(p)'

KeepsPlan(h, s) ==
    /\ pass' = [pass EXCEPT ![h] = s]
    /\ ({s.pit} \cup s.left) \subseteq DOMAIN ancestry \cup {None}
    /\ s.pc \in InHand => ~Held(s.pit) \/ (s.pit = pass[h].pit /\ pass[h].pc \in InHand)
    /\ s.pc = "mark" => s.pit \in s.marks
    /\ s.pc \in {"unmark", "drop"} => s.pit \notin s.marks
    /\ s.pc # "idle" => LivePits \subseteq s.marks
    /\ (s.pc \in {"destroy", "save"} /\ s.pit \in LivePits) => Marked(s.pit)'

\* And a step that does so keeps the invariant.
LEMMA PassFrame ==
  ASSUME CInv, NEW h \in Hosts, NEW s \in Passes,
         KeepsRecords(h), KeepsDisks(h), KeepsPlan(h, s),
         UNCHANGED jobVars, Trouble \/ UNCHANGED ctroubles,
         UNCHANGED <<heads, applied, late, outrun>>
  PROVE  CInv'
<1>1. pass \in [Hosts -> Passes]
  BY OtherFacts
<1>2. pass' \in [Hosts -> Passes] /\ pass'[h] = s /\ \A g \in Hosts \ {h} : pass'[g] = pass[g]
  BY <1>1 DEF KeepsPlan
<1>3. \A p \in Pits \ DOMAIN ancestry : Everywhere(p) => Everywhere(p)'
  <2>1. pass[h].pit \in DOMAIN ancestry \cup {None} /\ None \notin Pits
    BY OtherFacts DEF None, Pits
  <2> QED BY <2>1 DEF KeepsDisks
<1>4. CaptureTypeOK' /\ FrozenIsTimed' /\ CapturesNew'
  <2>1. \A g \in Hosts : ({pass'[g].pit} \cup pass'[g].left) \subseteq DOMAIN ancestry \cup {None}
    BY <1>2, OtherFacts DEF KeepsPlan
  <2> QED BY <1>2, <1>3, <2>1, OtherFacts, OuterFrame DEF KeepsRecords, KeepsDisks
<1>5. HeldIsThere'
  <2> SUFFICES ASSUME NEW p \in Cataloged' \ late', Held(p)'
               PROVE  catalog'[p].presence = "snapshot" /\ Everywhere(p)' /\ ~Releasing(p)'
    BY DEF HeldIsThere
  <2>1. p \in Cataloged \ late /\ Held(p)
    BY DEF KeepsRecords
  <2>2. catalog[p].presence = "snapshot" /\ Everywhere(p) /\ ~Releasing(p)
    BY <2>1 DEF CInv, PitsInv, HeldIsThere
  <2>3. ~(p = pass[h].pit /\ pass[h].pc \in InHand)
    BY <2>2 DEF Releasing, InHand
  <2>4. catalog'[p].presence = "snapshot" /\ Everywhere(p)'
    BY <2>2, <2>3 DEF KeepsRecords, KeepsDisks, InHand
  <2>5. ~(s.pc \in InHand /\ s.pit = p)
    BY <2>1, <2>3 DEF KeepsPlan
  <2>6. ~Releasing(p)'
    BY <1>2, <2>2, <2>5 DEF Releasing, InHand
  <2> QED BY <2>4, <2>6
<1>6. PullsAgree'
  BY DEF CInv, PitsInv, PullsAgree, KeepsRecords, Unsettled
<1>7. PassesAgree'
  BY <1>2 DEF CInv, PitsInv, PassesAgree, KeepsPlan
<1>8. LivePits' \subseteq LivePits
  BY DEF LivePits, KeepsRecords
<1>9. HeadsArePlanned'
  <2> SUFFICES ASSUME NEW p \in LivePits, NEW g \in Hosts, pass'[g].pc # "idle"
               PROVE  /\ p \in pass'[g].marks
                      /\ (pass'[g].pit = p /\ pass'[g].pc \in {"destroy", "save"}) => Marked(p)'
    BY <1>8 DEF HeadsArePlanned
  <2>1. CASE g = h
    BY <1>2, <2>1 DEF KeepsPlan
  <2>2. CASE g # h
    BY <1>2, <2>2 DEF CInv, PitsInv, HeadsArePlanned, KeepsDisks
  <2> QED BY <2>1, <2>2
<1>10. HeadStaysABase'
  <2> SUFFICES ASSUME NEW p \in LivePits PROVE Everywhere(p)' \/ Marked(p)'
    BY <1>8 DEF HeadStaysABase
  <2>1. Everywhere(p) \/ Marked(p)
    BY DEF CInv, HeadStaysABase
  <2>2. (p = pass[h].pit /\ pass[h].pc = "destroy") => Marked(p)
    BY DEF CInv, PitsInv, HeadsArePlanned
  <2> QED BY <2>1, <2>2 DEF KeepsDisks
<1> QED BY <1>4, <1>5, <1>6, <1>7, <1>9, <1>10 DEF CInv, PitsInv

\* The parts a step leaves alone.
LEMMA RecordsStay ==
  ASSUME CInv, NEW h \in Hosts, UNCHANGED catalog
  PROVE  KeepsRecords(h)
BY OtherFacts DEF KeepsRecords, CatalogTypeOK, Cataloged, Held, Holds, OfferOf

LEMMA DisksStay ==
  ASSUME CInv, NEW h \in Hosts, UNCHANGED <<snaps, marks>>
  PROVE  KeepsDisks(h)
BY OtherFacts DEF KeepsDisks, Everywhere, Marked

\* The pass of a host, and what it plans for the heads.
LEMMA PassFacts ==
  ASSUME CInv, NEW h \in Hosts
  PROVE  /\ pass[h] \in Passes
         /\ ({pass[h].pit} \cup pass[h].left) \subseteq DOMAIN ancestry \cup {None}
         /\ pass[h].pc = "mark" => pass[h].pit \in pass[h].marks
         /\ pass[h].pc \in {"unmark", "drop"} => pass[h].pit \notin pass[h].marks
         /\ pass[h].pc # "idle" => LivePits \subseteq pass[h].marks
         /\ (pass[h].pc \in {"destroy", "save"} /\ pass[h].pit \in LivePits) => Marked(pass[h].pit)
<1>1. pass[h] \in Passes /\ ({pass[h].pit} \cup pass[h].left) \subseteq DOMAIN ancestry \cup {None}
  BY OtherFacts
<1>2. /\ pass[h].pc = "mark" => pass[h].pit \in pass[h].marks
      /\ pass[h].pc \in {"unmark", "drop"} => pass[h].pit \notin pass[h].marks
  BY DEF CInv, PitsInv, PassesAgree
<1>3. /\ pass[h].pc # "idle" => LivePits \subseteq pass[h].marks
      /\ (pass[h].pc \in {"destroy", "save"} /\ pass[h].pit \in LivePits) => Marked(pass[h].pit)
  BY DEF CInv, PitsInv, HeadsArePlanned
<1> QED BY <1>1, <1>2, <1>3

\* The next step of a pass with the same PIT in hand.
LEMMA PcFacts ==
  ASSUME NEW r \in Passes, NEW c \in PassSteps
  PROVE  /\ [r EXCEPT !.pc = c] \in Passes /\ [r EXCEPT !.pc = c].pc = c
         /\ [r EXCEPT !.pc = c].pit = r.pit /\ [r EXCEPT !.pc = c].left = r.left
         /\ [r EXCEPT !.pc = c].marks = r.marks
<1>1. [r EXCEPT !.pc = c] \in Passes
  BY DEF Passes
<1>2. /\ [r EXCEPT !.pc = c].pc = c
      /\ [r EXCEPT !.pc = c].pit = r.pit /\ [r EXCEPT !.pc = c].left = r.left
      /\ [r EXCEPT !.pc = c].marks = r.marks
  BY DEF Passes
<1> QED BY <1>1, <1>2

LEMMA NoPassFacts ==
  /\ NoPass \in Passes /\ NoPass.pc = "idle" /\ NoPass.pit = None /\ NoPass.left = {}
BY DEF NoPass, Passes, PassSteps

LEMMA PassDiesInv == ASSUME CInv, NEW h \in Hosts, PassDies(h) PROVE CInv'
<1>1. /\ Trouble /\ pass' = [pass EXCEPT ![h] = NoPass] /\ UNCHANGED jobVars
      /\ UNCHANGED <<catalog, snaps, marks, heads, applied, late, outrun>>
  BY DEF PassDies, Pass, jobVars, freezeVars, recordVars, zfsVars
<1>2. KeepsPlan(h, NoPass)
  BY <1>1, NoPassFacts DEF KeepsPlan, InHand
<1>3. KeepsRecords(h) /\ KeepsDisks(h)
  BY <1>1, RecordsStay, DisksStay
<1> QED BY <1>1, <1>2, <1>3, NoPassFacts, PassFrame

LEMMA StartPassInv == ASSUME CInv, NEW h \in Hosts, StartPass(h) PROVE CInv'
<1>1. PICK s : s = [NoPass EXCEPT !.pc = "next", !.keep = SnapshotsKept,
                                  !.marks = BookmarksKept, !.left = Cataloged]
  OBVIOUS
<1>2. /\ Cataloged # {} /\ pass' = [pass EXCEPT ![h] = s] /\ UNCHANGED jobVars
      /\ UNCHANGED <<catalog, snaps, marks, heads, applied, late, outrun, ctroubles>>
  BY <1>1 DEF StartPass, Pass, jobVars, freezeVars, recordVars, zfsVars
<1>3. Cataloged \subseteq Pits /\ Cataloged \subseteq DOMAIN ancestry
  BY RecordFacts
<1>4. SnapshotsKept \subseteq Pits /\ BookmarksKept \subseteq Pits /\ LivePits \subseteq BookmarksKept
  <2>1. Newest \in Cataloged
    BY <1>2, <1>3, NewestExists DEF Newest
  <2>2. LiveHeads \subseteq Cataloged /\ BranchStart \subseteq Cataloged /\ SnapshotsKept \subseteq Cataloged
    BY DEF LiveHeads, BranchStart, SnapshotsKept
  <2>3. LivePits \subseteq LiveHeads
    BY DEF LivePits, LiveHeads
  <2> QED BY <1>3, <2>1, <2>2, <2>3 DEF BookmarksKept
<1>5. s = [pc |-> "next", keep |-> SnapshotsKept, marks |-> BookmarksKept, left |-> Cataloged,
           pit |-> None, rev |-> 0]
  BY <1>1 DEF NoPass
<1>6. s \in Passes /\ s.pc = "next" /\ s.pit = None /\ s.left = Cataloged /\ s.marks = BookmarksKept
  BY <1>3, <1>4, <1>5 DEF Passes, PassSteps
<1>7. KeepsPlan(h, s)
  BY <1>2, <1>3, <1>4, <1>6 DEF KeepsPlan, InHand
<1>8. KeepsRecords(h) /\ KeepsDisks(h)
  BY <1>2, RecordsStay, DisksStay
<1> QED BY <1>2, <1>6, <1>7, <1>8, PassFrame

LEMMA NextPitInv == ASSUME CInv, NEW h \in Hosts, NextPit(h) PROVE CInv'
<1> DEFINE s == pass[h]
           todo == {q \in s.left : Releases(s, q) \/ Unmarks(s, q)}
           p == CHOOSE q \in todo : \A q2 \in todo : q <= q2
           c == IF ~Releases(s, p) THEN "unmark" ELSE IF p \in s.marks THEN "mark" ELSE "destroy"
           t == [s EXCEPT !.left = {q \in @ : q > p}, !.pit = p, !.rev = catalog[p].rev, !.pc = c]
<1>1. /\ s.pc = "next" /\ UNCHANGED jobVars
      /\ pass' = [pass EXCEPT ![h] = IF todo = {} THEN NoPass ELSE t]
      /\ UNCHANGED <<catalog, snaps, marks, heads, applied, late, outrun, ctroubles>>
  BY DEF NextPit, Pass, jobVars, freezeVars, recordVars, zfsVars
<1>2. KeepsRecords(h) /\ KeepsDisks(h)
  BY <1>1, RecordsStay, DisksStay
<1>3. CASE todo = {}
  <2>1. pass' = [pass EXCEPT ![h] = NoPass]
    BY <1>1, <1>3
  <2>2. KeepsPlan(h, NoPass)
    BY <2>1, NoPassFacts DEF KeepsPlan, InHand
  <2> QED BY <1>1, <1>2, <2>2, NoPassFacts, PassFrame
<1>4. CASE todo # {}
  <2>1. s \in Passes /\ s.left \subseteq DOMAIN ancestry \cup {None} /\ s.left \subseteq Pits
        /\ LivePits \subseteq s.marks
    BY <1>1, PassFacts DEF Passes
  <2>2. todo \subseteq s.left /\ todo \subseteq Nat
    BY <2>1, CaptureAssumption DEF Pits
  <2>3. p \in todo
    <3> HIDE DEF todo
    <3> QED BY <1>4, <2>2, OldestExists
  <2>4. p \in s.left /\ (Releases(s, p) \/ Unmarks(s, p)) /\ p \in Cataloged
    BY <2>3 DEF Releases, Unmarks
  <2>5. c \in {"unmark", "mark", "destroy"}
        /\ (c = "unmark" => p \notin s.marks) /\ (c = "mark" => p \in s.marks)
        /\ (c = "destroy" => p \notin s.marks) /\ (c # "unmark" => ~Held(p))
    BY <2>4 DEF Releases, Unmarks, MayRelease
  <2> DEFINE left == {q \in s.left : q > p}
  <2>6. left \subseteq s.left
    OBVIOUS
  <2>7. catalog[p].rev \in Nat /\ p \in Pits
    BY <2>4, RecordFacts DEF PitRecords
  <2> HIDE DEF p, c, left, todo
  <2>8. PICK r \in Nat, k \in PassSteps, l \in SUBSET Pits :
          r = catalog[p].rev /\ k = c /\ l = left
    BY <2>1, <2>5, <2>6, <2>7 DEF PassSteps
  <2>9. PICK u : u = t
    OBVIOUS
  <2>10. u \in Passes /\ u.pc = c /\ u.pit = p /\ u.left = left /\ u.marks = s.marks
    <3>1. u = [s EXCEPT !.left = l, !.pit = p, !.rev = r, !.pc = k]
      BY <2>8, <2>9 DEF left
    <3>2. u \in Passes
      BY <2>1, <2>7, <3>1 DEF Passes
    <3>3. u.pc = c /\ u.pit = p /\ u.left = left /\ u.marks = s.marks
      BY <2>1, <2>8, <3>1 DEF Passes
    <3> QED BY <3>2, <3>3
  <2>11. u.pc = c /\ u.pit = p /\ u.left = left /\ u.marks = s.marks
    BY <2>10
  <2>12. pass' = [pass EXCEPT ![h] = u]
    BY <1>1, <1>4, <2>9
  <2>13. KeepsPlan(h, u)
    <3>1. ({u.pit} \cup u.left) \subseteq DOMAIN ancestry \cup {None}
      BY <2>1, <2>4, <2>6, <2>11
    <3>2. u.pc \in InHand => ~Held(u.pit)
      BY <2>5, <2>11 DEF InHand
    <3>3. ~(u.pc \in {"destroy", "save"} /\ u.pit \in LivePits)
      BY <2>1, <2>5, <2>11
    <3> QED BY <2>1, <2>5, <2>11, <2>12, <3>1, <3>2, <3>3 DEF KeepsPlan
  <2> QED BY <1>1, <1>2, <2>10, <2>13, PassFrame
<1> QED BY <1>3, <1>4

\* A pass moves on with the PIT it has in hand, or lets it go.
LEMMA MovesOn ==
  ASSUME CInv, NEW h \in Hosts, NEW c \in PassSteps, NEW s,
         s = [pass[h] EXCEPT !.pc = c], pass' = [pass EXCEPT ![h] = s],
         pass[h].pc # "idle", c # "mark" \/ pass[h].pc = "mark",
         c \in InHand => pass[h].pc \in InHand,
         c \in {"unmark", "drop"} => pass[h].pit \notin pass[h].marks,
         (c \in {"destroy", "save"} /\ pass[h].pit \in LivePits) =>
            \A g \in Hosts : pass[h].pit \in marks'[g]
  PROVE  s \in Passes /\ KeepsPlan(h, s)
<1>1. /\ pass[h] \in Passes
      /\ ({pass[h].pit} \cup pass[h].left) \subseteq DOMAIN ancestry \cup {None}
      /\ pass[h].pc = "mark" => pass[h].pit \in pass[h].marks
      /\ LivePits \subseteq pass[h].marks
  BY PassFacts
<1>2. s \in Passes /\ s.pc = c /\ s.pit = pass[h].pit /\ s.left = pass[h].left
      /\ s.marks = pass[h].marks
  BY <1>1, PcFacts
<1>3. (s.pc \in {"destroy", "save"} /\ s.pit \in LivePits) => Marked(s.pit)'
  BY <1>2 DEF Marked
<1>4. KeepsPlan(h, s)
  BY <1>1, <1>2, <1>3 DEF KeepsPlan
<1> QED BY <1>2, <1>4

LEMMA MarkHostInv == ASSUME CInv, NEW h \in Hosts, MarkHost(h) PROVE CInv'
<1> DEFINE s == pass[h]
           missing == {g \in Hosts : s.pit \notin marks[g]}
<1>1. /\ s.pc = "mark" /\ UNCHANGED jobVars
      /\ UNCHANGED <<catalog, snaps, heads, applied, late, outrun>>
      /\ Trouble \/ UNCHANGED ctroubles
      /\ \/ /\ \E g \in missing : s.pit \in snaps[g] /\ marks' = [marks EXCEPT ![g] = @ \cup {s.pit}]
            /\ UNCHANGED pass
         \/ missing = {} /\ UNCHANGED marks /\ pass' = [pass EXCEPT ![h] = [s EXCEPT !.pc = "destroy"]]
         \/ UNCHANGED marks /\ pass' = [pass EXCEPT ![h] = [s EXCEPT !.pc = "next"]]
  BY DEF MarkHost, Pass, jobVars, freezeVars, recordVars
<1>2. KeepsRecords(h)
  BY <1>1, RecordsStay
<1>3. pass \in [Hosts -> Passes] /\ snaps \in [Hosts -> SUBSET Pits] /\ marks \in [Hosts -> SUBSET Pits]
  BY OtherFacts
<1>4. marks' \in [Hosts -> SUBSET Pits] /\ \A p : Marked(p) => Marked(p)'
  <2>1. CASE UNCHANGED marks
    BY <1>3, <2>1 DEF Marked
  <2>2. CASE \E g \in missing : s.pit \in snaps[g] /\ marks' = [marks EXCEPT ![g] = @ \cup {s.pit}]
    <3>1. PICK g \in Hosts : s.pit \in Pits /\ marks' = [marks EXCEPT ![g] = @ \cup {s.pit}]
      BY <1>3, <2>2
    <3> QED BY <1>3, <3>1 DEF Marked
  <2> QED BY <1>1, <2>1, <2>2
<1>5. KeepsDisks(h)
  BY <1>1, <1>3, <1>4 DEF KeepsDisks, Everywhere
<1>6. CASE UNCHANGED pass
  <2>1. PICK c \in PassSteps, t \in Passes : c = "mark" /\ t = pass[h]
    BY <1>3 DEF PassSteps
  <2>2. pass' = [pass EXCEPT ![h] = t]
    BY <1>3, <1>6, <2>1
  <2>3. KeepsPlan(h, t)
    BY <1>1, <2>1, <2>2, PassFacts DEF KeepsPlan, InHand
  <2> QED BY <1>1, <1>2, <1>5, <2>3, PassFrame
<1>7. CASE missing = {} /\ UNCHANGED marks /\ pass' = [pass EXCEPT ![h] = [s EXCEPT !.pc = "destroy"]]
  <2>1. PICK t : t = [s EXCEPT !.pc = "destroy"]
    OBVIOUS
  <2>2. "destroy" \in PassSteps /\ \A g \in Hosts : s.pit \in marks'[g]
    BY <1>7 DEF PassSteps
  <2>3. t \in Passes /\ KeepsPlan(h, t)
    BY <1>1, <1>7, <2>1, <2>2, MovesOn DEF InHand
  <2> QED BY <1>1, <1>2, <1>5, <2>3, PassFrame
<1>8. CASE UNCHANGED marks /\ pass' = [pass EXCEPT ![h] = [s EXCEPT !.pc = "next"]]
  <2>1. PICK t : t = [s EXCEPT !.pc = "next"]
    OBVIOUS
  <2>2. "next" \in PassSteps
    BY DEF PassSteps
  <2>3. t \in Passes /\ KeepsPlan(h, t)
    BY <1>1, <1>8, <2>1, <2>2, MovesOn DEF InHand
  <2> QED BY <1>1, <1>2, <1>5, <2>3, PassFrame
<1> QED BY <1>1, <1>6, <1>7, <1>8

LEMMA DestroySnapshotsInv == ASSUME CInv, NEW h \in Hosts, DestroySnapshots(h) PROVE CInv'
<1> DEFINE s == pass[h]
<1>1. PICK c \in PassSteps :
        /\ pass' = [pass EXCEPT ![h] = [s EXCEPT !.pc = c]]
        /\ c \in {"save", "drop", "next", "unmark"}
        /\ c \in {"drop", "unmark"} => s.pit \notin s.marks
  BY DEF DestroySnapshots, Pass, PassSteps
<1>2. /\ s.pc = "destroy" /\ UNCHANGED jobVars
      /\ UNCHANGED <<catalog, marks, heads, applied, late, outrun>>
      /\ Trouble \/ UNCHANGED ctroubles
      /\ \/ snaps' = [snaps EXCEPT ![h] = @ \ {s.pit}]
         \/ UNCHANGED snaps
  BY DEF DestroySnapshots, jobVars, freezeVars, recordVars
<1>3. KeepsRecords(h)
  BY <1>2, RecordsStay
<1>4. KeepsDisks(h)
  <2>1. snaps \in [Hosts -> SUBSET Pits] /\ marks \in [Hosts -> SUBSET Pits]
    BY OtherFacts
  <2>2. snaps' \in [Hosts -> SUBSET Pits]
    BY <1>2, <2>1
  <2>3. \A p : Everywhere(p) => Everywhere(p)' \/ p = s.pit
    BY <1>2, <2>1 DEF Everywhere
  <2>4. \A p : Marked(p) => Marked(p)'
    BY <1>2 DEF Marked
  <2> QED BY <1>2, <2>1, <2>2, <2>3, <2>4 DEF KeepsDisks
<1>5. PICK t : t = [s EXCEPT !.pc = c]
  OBVIOUS
<1>6. s.pit \in LivePits => \A g \in Hosts : s.pit \in marks'[g]
  BY <1>2, PassFacts DEF Marked
<1>7. t \in Passes /\ KeepsPlan(h, t)
  BY <1>1, <1>2, <1>5, <1>6, MovesOn DEF InHand
<1> QED BY <1>2, <1>3, <1>4, <1>7, PassFrame

LEMMA SaveInv == ASSUME CInv, NEW h \in Hosts, Save(h) PROVE CInv'
<1> DEFINE s == pass[h]
<1>1. /\ s.pc = "save" /\ pass' = [pass EXCEPT ![h] = [s EXCEPT !.pc = "next"]]
      /\ UNCHANGED jobVars /\ UNCHANGED <<snaps, marks, heads, applied, late, outrun, ctroubles>>
      /\ \/ UNCHANGED catalog
         \/ /\ s.pit \in Cataloged
            /\ catalog' = Saved(s.pit, [catalog[s.pit] EXCEPT !.presence = "bookmark"])
  BY DEF Save, Pass, jobVars, freezeVars, zfsVars
<1>2. KeepsRecords(h)
  <2>1. CASE UNCHANGED catalog
    BY <2>1, RecordsStay
  <2>2. CASE /\ s.pit \in Cataloged
             /\ catalog' = Saved(s.pit, [catalog[s.pit] EXCEPT !.presence = "bookmark"])
    <3>1. PICK p \in Cataloged : p = s.pit
      BY <2>2
    <3>2. PICK A : A = DOMAIN catalog[p].offers
      OBVIOUS
    <3>3. catalog[p] \in PitRecords(A) /\ A \subseteq Appliances
      BY <3>1, <3>2, RecordFacts
    <3>4. PICK c : c = [catalog[p] EXCEPT !.presence = "bookmark"]
      OBVIOUS
    <3>5. c \in PitRecords(A)
      BY <3>3, <3>4 DEF PitRecords
    <3>6. c.offers = catalog[p].offers /\ c.branch = catalog[p].branch
      BY <3>3, <3>4 DEF PitRecords
    <3>7. PICK r : r = Bumped(p, c)
      OBVIOUS
    <3>8. r \in PitRecords(A) /\ r.offers = catalog[p].offers /\ r.branch = catalog[p].branch
      BY <3>5, <3>6, <3>7, BumpFacts
    <3>9. catalog' = [catalog EXCEPT ![p] = r]
      BY <2>2, <3>1, <3>4, <3>7 DEF Saved
    <3>10. /\ Cataloged' = Cataloged /\ catalog'[p] = r
           /\ \A q \in Cataloged \ {p} : catalog'[q] = catalog[q]
      BY <3>1, <3>9 DEF Cataloged
    <3>11. CatalogTypeOK'
      BY <3>2, <3>3, <3>8, <3>10, OtherFacts DEF CatalogTypeOK
    <3>12. \A q \in Cataloged :
             /\ catalog'[q].offers = catalog[q].offers /\ catalog'[q].branch = catalog[q].branch
             /\ catalog'[q].presence = catalog[q].presence \/ q = s.pit
      BY <3>1, <3>8, <3>10
    <3>13. \A q \in Cataloged : Held(q)' => Held(q)
      BY <3>12 DEF Held
    <3>14. \A q \in Cataloged, a \in Appliances : OfferOf(q, a)' = OfferOf(q, a)
      BY <3>12 DEF OfferOf
    <3> QED BY <1>1, <3>10, <3>11, <3>12, <3>13, <3>14 DEF KeepsRecords, InHand
  <2> QED BY <1>1, <2>1, <2>2
<1>3. KeepsDisks(h)
  BY <1>1, DisksStay
<1>4. PICK t : t = [s EXCEPT !.pc = "next"]
  OBVIOUS
<1>5. "next" \in PassSteps
  BY DEF PassSteps
<1>6. t \in Passes /\ KeepsPlan(h, t)
  BY <1>1, <1>4, <1>5, MovesOn DEF InHand
<1> QED BY <1>1, <1>2, <1>3, <1>6, PassFrame

LEMMA UnmarkInv == ASSUME CInv, NEW h \in Hosts, Unmark(h) PROVE CInv'
<1> DEFINE s == pass[h]
<1>1. PICK c \in PassSteps : /\ pass' = [pass EXCEPT ![h] = [s EXCEPT !.pc = c]]
                             /\ c \in {"next", "save"} /\ (c = "save" => s.pc = "drop")
  BY DEF Unmark, Pass, PassSteps
<1>2. /\ s.pc \in {"unmark", "drop"} /\ UNCHANGED jobVars
      /\ UNCHANGED <<snaps, heads, applied, late, outrun>>
      /\ Trouble \/ UNCHANGED ctroubles
      /\ UNCHANGED catalog \/ (s.pit \in Cataloged /\ catalog' = Reparent(s.pit))
      /\ \E some \in SUBSET Hosts :
            marks' = [g \in Hosts |-> IF g \in some THEN marks[g] \ {s.pit} ELSE marks[g]]
  <2>1. /\ s.pc \in {"unmark", "drop"} /\ UNCHANGED jobVars
        /\ UNCHANGED <<snaps, heads, applied, late, outrun>>
        /\ Trouble \/ UNCHANGED ctroubles
        /\ UNCHANGED catalog \/ (s.pit \in Cataloged /\ catalog' = Reparent(s.pit))
    BY DEF Unmark, jobVars, freezeVars
  <2>2. \/ marks' = [g \in Hosts |-> marks[g] \ {s.pit}]
        \/ \E some \in SUBSET Hosts :
              marks' = [g \in Hosts |-> IF g \in some THEN marks[g] \ {s.pit} ELSE marks[g]]
    BY DEF Unmark
  <2>3. [g \in Hosts |-> marks[g] \ {s.pit}] =
        [g \in Hosts |-> IF g \in Hosts THEN marks[g] \ {s.pit} ELSE marks[g]]
    OBVIOUS
  <2> QED BY <2>1, <2>2, <2>3
<1>3. s.pit \notin s.marks /\ s.pit \notin LivePits
  BY <1>2, PassFacts
<1>4. KeepsRecords(h)
  <2>1. CASE UNCHANGED catalog
    BY <2>1, RecordsStay
  <2>2. CASE s.pit \in Cataloged /\ catalog' = Reparent(s.pit)
    <3>1. PICK p \in Cataloged : p = s.pit
      BY <2>2
    <3>2. Cataloged' = Cataloged \ {p}
      BY <2>2, <3>1 DEF Reparent, Cataloged
    <3>3. ASSUME NEW q \in Cataloged \ {p}
          PROVE  /\ catalog'[q].offers = catalog[q].offers /\ catalog'[q].branch = catalog[q].branch
                 /\ catalog'[q].presence = catalog[q].presence
                 /\ catalog'[q] \in PitRecords(DOMAIN catalog[q].offers)
      <4>1. catalog'[q] = IF catalog[q].parent = p
                          THEN Bumped(q, [catalog[q] EXCEPT !.parent = catalog[p].parent])
                          ELSE catalog[q]
        BY <2>2, <3>1 DEF Reparent
      <4>2. PICK A : A = DOMAIN catalog[q].offers
        OBVIOUS
      <4>3. catalog[q] \in PitRecords(A) /\ catalog[p].parent \in {None} \cup Pits
        BY <3>1, <4>2, RecordFacts DEF PitRecords
      <4>4. PICK u \in {None} \cup Pits : u = catalog[p].parent
        BY <4>3
      <4>5. PICK r : r = [catalog[q] EXCEPT !.parent = u]
        OBVIOUS
      <4>6. r \in PitRecords(A)
        BY <4>3, <4>5 DEF PitRecords
      <4>7. r.offers = catalog[q].offers /\ r.branch = catalog[q].branch
            /\ r.presence = catalog[q].presence
        BY <4>3, <4>5 DEF PitRecords
      <4>8. catalog'[q] \in {Bumped(q, r), catalog[q]}
        BY <4>1, <4>4, <4>5
      <4> QED BY <4>2, <4>3, <4>6, <4>7, <4>8, BumpFacts
    <3>4. CatalogTypeOK'
      BY <3>2, <3>3, RecordFacts DEF CatalogTypeOK
    <3>5. \A q \in Cataloged' : Held(q)' => Held(q)
      BY <3>2, <3>3 DEF Held
    <3>6. \A q \in Cataloged', a \in Appliances : OfferOf(q, a)' = OfferOf(q, a)
      BY <3>2, <3>3 DEF OfferOf
    <3> QED BY <3>2, <3>3, <3>4, <3>5, <3>6 DEF KeepsRecords
  <2> QED BY <1>2, <2>1, <2>2
<1>5. KeepsDisks(h)
  <2>1. snaps \in [Hosts -> SUBSET Pits] /\ marks \in [Hosts -> SUBSET Pits]
    BY OtherFacts
  <2>2. PICK some \in SUBSET Hosts :
          marks' = [g \in Hosts |-> IF g \in some THEN marks[g] \ {s.pit} ELSE marks[g]]
    BY <1>2
  <2>3. marks' \in [Hosts -> SUBSET Pits]
    BY <2>1, <2>2
  <2>4. \A p \in LivePits : Marked(p) => Marked(p)'
    BY <1>3, <2>2 DEF Marked
  <2>5. \A p : Everywhere(p) => Everywhere(p)'
    BY <1>2 DEF Everywhere
  <2> QED BY <1>2, <2>1, <2>3, <2>4, <2>5 DEF KeepsDisks
<1>6. PICK t : t = [s EXCEPT !.pc = c]
  OBVIOUS
<1>7. t \in Passes /\ KeepsPlan(h, t)
  BY <1>1, <1>2, <1>3, <1>6, MovesOn DEF InHand
<1> QED BY <1>2, <1>4, <1>5, <1>7, PassFrame

-----------------------------------------------------------------------------
(* The theorems                                                            *)

LEMMA Stutters == ASSUME CInv, UNCHANGED captureVars PROVE CInv'
<1>1. UNCHANGED jobVars /\ UNCHANGED <<catalog, snaps, marks, heads, applied, pass, late, outrun, ctroubles>>
  BY DEF captureVars, jobVars
<1>2. CatalogTypeOK' /\ Cataloged' = Cataloged /\ \A p : Everywhere(p) => Everywhere(p)'
  BY <1>1, OtherFacts DEF CatalogTypeOK, Cataloged, Everywhere
<1>3. CaptureTypeOK' /\ FrozenIsTimed' /\ CapturesNew'
  BY <1>1, <1>2, OtherFacts, OuterFrame
<1> QED BY <1>1, <1>2, <1>3, RecordFrame DEF CInv, PitsInv

LEMMA NextInv == ASSUME CInv, [CaptureNext]_captureVars PROVE CInv'
<1>1. CASE UNCHANGED captureVars
  BY <1>1, Stutters
<1>2. CASE CaptureNext
  <2>1. ASSUME NEW a \in Appliances, Claim(a) \/ Publish(a) \/ CheckIn(a, FALSE) \/ CheckIn(a, TRUE)
        PROVE  CInv'
    <3>1. FALSE \in BOOLEAN /\ TRUE \in BOOLEAN
      OBVIOUS
    <3> QED BY <2>1, <3>1, ClaimInv, PublishInv, CheckInInv
  <2>2. ASSUME NEW h \in Hosts,
               \/ Replication(h) \/ Moves(h)
               \/ StartPass(h) \/ NextPit(h) \/ MarkHost(h) \/ DestroySnapshots(h)
               \/ Save(h) \/ Unmark(h) \/ PassDies(h)
        PROVE  CInv'
    BY <2>2, ReplicationInv, MovesInv, StartPassInv, NextPitInv, MarkHostInv, DestroySnapshotsInv,
       SaveInv, UnmarkInv, PassDiesInv
  <2> QED
    BY <1>2, <2>1, <2>2, StartPitsInv, ArmInv, FreezeGuestInv, SnapshotInv, ThawInv,
       ReplicatedInv, CatalogInv, DiscardInv, ReleaseLeaseInv, CaptureDiesInv, VmLeaseLapsesInv,
       TimerFiresInv, LapsesInv, ContinueFromInv
    DEF CaptureNext
<1> QED BY <1>1, <1>2

LEMMA Invariance == CaptureSpec => []CInv
BY InitInv, NextInv, PTL DEF CaptureSpec

-----------------------------------------------------------------------------
(* Lines of descent                                                        *)

\* What every step but Catalog and Unmark leaves alone.
LinesStay ==
    /\ UNCHANGED <<ancestry, severed>> /\ Cataloged' = Cataloged
    /\ \A p \in Cataloged : catalog'[p].parent = catalog[p].parent
    /\ lineage'.head \in {lineage.head} \cup Cataloged

LEMMA LinesStayInv == ASSUME CInv, LineInv, LinesStay PROVE LineInv'
<1> USE DEF LineInv, LinesStay
<1>1. Cataloged \subseteq DOMAIN ancestry
  BY DEF CInv, PitsInv, CapturesNew
<1>2. AncestryTypeOK'
  BY <1>1 DEF AncestryTypeOK
<1>3. ParentIsNearest'
  BY DEF ParentIsNearest, CutOff
<1> QED BY <1>2, <1>3

\* A record whose offers or presence change keeps its parent.
LEMMA KeepsParent ==
  ASSUME CInv, NEW p \in Cataloged, NEW o
  PROVE  /\ [catalog[p] EXCEPT !.offers = o].parent = catalog[p].parent
         /\ [catalog[p] EXCEPT !.presence = o].parent = catalog[p].parent
         /\ [catalog[p] EXCEPT !.parent = o].parent = o
<1>1. catalog[p] \in PitRecords(DOMAIN catalog[p].offers)
  BY RecordFacts
<1> QED BY <1>1 DEF PitRecords

LEMMA BumpKeeps ==
  ASSUME NEW p, NEW r, "parent" \in DOMAIN r
  PROVE  Bumped(p, r).parent = r.parent
BY DEF Bumped

LEMMA HasParent ==
  ASSUME CInv, NEW p \in Cataloged, NEW o
  PROVE  /\ "parent" \in DOMAIN catalog[p] /\ "parent" \in DOMAIN [catalog[p] EXCEPT !.offers = o]
         /\ "parent" \in DOMAIN [catalog[p] EXCEPT !.presence = o]
         /\ "parent" \in DOMAIN [catalog[p] EXCEPT !.parent = o]
<1>1. catalog[p] \in PitRecords(DOMAIN catalog[p].offers)
  BY RecordFacts
<1> QED BY <1>1 DEF PitRecords

\* A record saved anew with the parent it had.
LEMMA SavedKeeps ==
  ASSUME CInv, NEW p \in Cataloged, NEW s, "parent" \in DOMAIN s, s.parent = catalog[p].parent,
         catalog' = Saved(p, s)
  PROVE  Cataloged' = Cataloged /\ \A q \in Cataloged : catalog'[q].parent = catalog[q].parent
<1>1. PICK t : t = Bumped(p, s)
  OBVIOUS
<1>2. t.parent = catalog[p].parent
  BY <1>1, BumpKeeps
<1>3. catalog' = [catalog EXCEPT ![p] = t]
  BY <1>1 DEF Saved
<1> QED BY <1>2, <1>3 DEF Cataloged

LEMMA OutsideStays ==
  ASSUME CInv, NEW a \in Appliances,
         \/ Claim(a) \/ Publish(a) \/ CheckIn(a, FALSE) \/ CheckIn(a, TRUE) \/ \E p \in Pits : Lapses(p, a)
  PROVE  LinesStay
<1>1. CASE Claim(a)
  <2>0. PICK p : /\ p = CHOOSE q \in Offered(a) : \A r \in Offered(a) : r <= q
                 /\ catalog' = Saved(p, [catalog[p] EXCEPT !.offers[a] = "claimed"])
    BY <1>1 DEF Claim
  <2>1. p \in Cataloged
    <3>1. Offered(a) \subseteq Pits /\ Offered(a) # {}
      BY <1>1 DEF Claim, Offered, CInv, PitsInv, CaptureTypeOK, CatalogTypeOK
    <3>2. p \in Offered(a)
      BY <2>0, <3>1, NewestExists
    <3> QED BY <3>2 DEF Offered
  <2>2. Cataloged' = Cataloged /\ \A q \in Cataloged : catalog'[q].parent = catalog[q].parent
    <3>1. PICK o : o = [catalog[p].offers EXCEPT ![a] = "claimed"]
      OBVIOUS
    <3>2. PICK s : s = [catalog[p] EXCEPT !.offers = o]
      OBVIOUS
    <3>3. [catalog[p] EXCEPT !.offers[a] = "claimed"] = s
      BY <3>1, <3>2
    <3>4. catalog' = Saved(p, s)
      BY <2>0, <3>3
    <3>5. "parent" \in DOMAIN s /\ s.parent = catalog[p].parent
      BY <2>1, <3>2, KeepsParent, HasParent
    <3> QED BY <2>1, <3>4, <3>5, SavedKeeps
  <2> QED BY <1>1, <2>2 DEF Claim, LinesStay
<1>2. CASE Publish(a)
  BY <1>2 DEF Publish, LinesStay, recordVars, Cataloged
<1>3. ASSUME NEW f \in BOOLEAN, CheckIn(a, f) PROVE LinesStay
  <2>1. \A q \in Cataloged : CheckedIn(q, a, f).parent = catalog[q].parent
    <3> SUFFICES ASSUME NEW q \in Cataloged PROVE CheckedIn(q, a, f).parent = catalog[q].parent
      OBVIOUS
    <3>1. PICK o : \/ CheckedIn(q, a, f) = catalog[q]
                   \/ CheckedIn(q, a, f) = Bumped(q, [catalog[q] EXCEPT !.offers = o])
      BY DEF CheckedIn
    <3>2. PICK s : s = [catalog[q] EXCEPT !.offers = o]
      OBVIOUS
    <3>3. "parent" \in DOMAIN s /\ s.parent = catalog[q].parent
      BY <3>2, KeepsParent, HasParent
    <3> QED BY <3>1, <3>2, <3>3, BumpKeeps
  <2> QED BY <1>3, <2>1 DEF CheckIn, LinesStay, Cataloged
<1>4. CASE \E p \in Pits : Lapses(p, a)
  BY <1>4 DEF Lapses, LinesStay, Cataloged
<1> QED BY <1>1, <1>2, <1>3, <1>4

LEMMA UpkeepStays ==
  ASSUME CInv, NEW h \in Hosts,
         StartPass(h) \/ NextPit(h) \/ MarkHost(h) \/ DestroySnapshots(h) \/ Save(h) \/ PassDies(h)
  PROVE  LinesStay
<1>1. CASE Save(h)
  <2>1. Cataloged' = Cataloged /\ \A q \in Cataloged : catalog'[q].parent = catalog[q].parent
    <3>1. CASE catalog' = catalog
      BY <3>1 DEF Cataloged
    <3>2. CASE catalog' # catalog
      <4>1. PICK p : p = pass[h].pit
        OBVIOUS
      <4>2. PICK s : s = [catalog[p] EXCEPT !.presence = "bookmark"]
        OBVIOUS
      <4>3. p \in Cataloged /\ catalog' = Saved(p, s)
        BY <1>1, <3>2, <4>1, <4>2 DEF Save
      <4>4. "parent" \in DOMAIN s /\ s.parent = catalog[p].parent
        BY <4>2, <4>3, KeepsParent, HasParent
      <4> QED BY <4>3, <4>4, SavedKeeps
    <3> QED BY <3>1, <3>2
  <2> QED BY <1>1, <2>1 DEF Save, LinesStay
<1>2. CASE StartPass(h) \/ NextPit(h) \/ MarkHost(h) \/ DestroySnapshots(h) \/ PassDies(h)
  BY <1>2 DEF StartPass, NextPit, MarkHost, DestroySnapshots, PassDies, recordVars, LinesStay, Cataloged
<1> QED BY <1>1, <1>2

LEMMA JobStaysInLine ==
  ASSUME CInv,
         \/ StartCapture \/ Arm \/ FreezeGuest \/ Snapshot \/ Thaw \/ Replicated
         \/ Discard \/ ReleaseLease \/ CaptureDies \/ VmLeaseLapses \/ TimerFires
         \/ \E h \in Hosts : Replication(h) \/ Moves(h)
         \/ \E p \in Pits : ContinueFrom(p)
         \/ UNCHANGED captureVars
  PROVE  LinesStay
<1>1. CASE \E p \in Pits : ContinueFrom(p)
  BY <1>1 DEF ContinueFrom, LinesStay, Cataloged
<1>2. CASE UNCHANGED captureVars
  BY <1>2 DEF captureVars, LinesStay, Cataloged
<1>3. CASE \/ StartCapture \/ Arm \/ FreezeGuest \/ Snapshot \/ Thaw \/ Replicated
           \/ Discard \/ ReleaseLease \/ CaptureDies \/ VmLeaseLapses \/ TimerFires
           \/ \E h \in Hosts : Replication(h) \/ Moves(h)
  <2>1. UNCHANGED recordVars
    BY <1>3 DEF StartCapture, Arm, FreezeGuest, Snapshot, Thaw, Replicated, Discard, ReleaseLease,
                CaptureDies, VmLeaseLapses, TimerFires, Replication, Moves
  <2> QED BY <2>1 DEF recordVars, LinesStay, Cataloged
<1> QED BY <1>1, <1>2, <1>3

\* A new PIT descends from the lineage's head and from all that descends from.
LEMMA CatalogLines == ASSUME CInv, LineInv, Catalog PROVE LineInv'
<1> DEFINE p == cap.pit
           h == lineage.head
           above == IF h = None THEN {} ELSE {h} \cup ancestry[h]
<1>1. CASE UNCHANGED <<catalog, lineage, ancestry, severed>>
  BY <1>1, LinesStayInv DEF LinesStay, Cataloged
<1>2. CASE ~UNCHANGED <<catalog, lineage, ancestry, severed>>
  <2>1. /\ Cataloged' = Cataloged \cup {p}
        /\ catalog'[p].parent = h
        /\ \A q \in Cataloged \ {p} : catalog'[q].parent = catalog[q].parent
        /\ lineage'.head = p
        /\ DOMAIN ancestry' = DOMAIN ancestry \cup {p}
        /\ ancestry'[p] = above
        /\ \A q \in DOMAIN ancestry \ {p} : ancestry'[q] = ancestry[q]
        /\ severed' = IF h \in Cataloged \cup {None} THEN severed ELSE severed \cup {p}
    <3> DEFINE rec == [parent |-> h, branch |-> lineage.branch, presence |-> "snapshot",
                       offers |-> [a \in cap.avail |-> "open"], rev |-> 1]
    <3>1. /\ catalog' = [q \in Cataloged \cup {p} |-> IF q = p THEN rec ELSE catalog[q]]
          /\ lineage' = [lineage EXCEPT !.head = p]
          /\ ancestry' = [q \in DOMAIN ancestry \cup {p} |-> IF q = p THEN above ELSE ancestry[q]]
          /\ severed' = IF h \in Cataloged \cup {None} THEN severed ELSE severed \cup {p}
      BY <1>2 DEF Catalog
    <3>2. rec.parent = h
      OBVIOUS
    <3>3. lineage \in Lineages
      BY DEF CInv, PitsInv, CaptureTypeOK
    <3>4. lineage'.head = p
      BY <3>1, <3>3 DEF Lineages
    <3> HIDE DEF rec, above
    <3> QED BY <3>1, <3>2, <3>4 DEF Cataloged
  <2>2. /\ p \notin DOMAIN ancestry /\ p \in Pits /\ p = nextPit - 1 /\ Cataloged \subseteq DOMAIN ancestry
        /\ \A q \in DOMAIN ancestry : q \in Pits /\ q < p
    <3>1. /\ p \notin DOMAIN ancestry /\ p \in Pits /\ p = nextPit - 1 /\ Cataloged \subseteq DOMAIN ancestry
          /\ \A q \in DOMAIN ancestry : q \in Pits /\ q < nextPit
      BY DEF CInv, PitsInv, CapturesNew, Catalog, At
    <3>2. nextPit \in Nat /\ Pits \subseteq Nat
      BY CaptureAssumption DEF CInv, PitsInv, CaptureTypeOK, Pits
    <3>3. \A q \in DOMAIN ancestry : q # p /\ q \in Nat /\ q < nextPit
      BY <3>1, <3>2
    <3> QED BY <3>1, <3>2, <3>3
  <2>3. h \in DOMAIN ancestry \cup {None} /\ None \notin DOMAIN ancestry
    BY <2>2, CaptureAssumption DEF LineInv, AncestryTypeOK, None, Pits
  <2>4. \A q \in DOMAIN ancestry : ancestry[q] \subseteq DOMAIN ancestry /\ q # p /\ p \notin ancestry[q]
    BY <2>2 DEF LineInv, AncestryTypeOK
  <2>5. above \subseteq DOMAIN ancestry /\ p \notin above
    BY <2>2, <2>3, <2>4
  <2>6. \A q \in above : ancestry[q] \subseteq above
    BY <2>3 DEF LineInv, AncestryTypeOK
  <2>7. AncestryTypeOK'
    <3>1. \A q \in above : q \in DOMAIN ancestry' /\ q < p /\ ancestry'[q] \subseteq above
      BY <2>1, <2>2, <2>4, <2>5, <2>6
    <3>2. ASSUME NEW q \in DOMAIN ancestry, NEW r \in ancestry'[q]
          PROVE  r \in DOMAIN ancestry' /\ r < q /\ ancestry'[r] \subseteq ancestry'[q]
      BY <2>1, <2>4, <3>2 DEF LineInv, AncestryTypeOK
    <3>3. \A q \in DOMAIN ancestry' : \A r \in ancestry'[q] :
             r \in DOMAIN ancestry' /\ r < q /\ ancestry'[r] \subseteq ancestry'[q]
      BY <2>1, <3>1, <3>2
    <3>4. lineage'.head \in DOMAIN ancestry' \cup {None}
      BY <2>1
    <3>5. \A q \in Cataloged' : catalog'[q].parent \in ancestry'[q] \cup {None}
      <4>1. h \in above \cup {None}
        OBVIOUS
      <4> HIDE DEF above
      <4> QED BY <2>1, <2>2, <4>1 DEF LineInv, AncestryTypeOK
    <3> HIDE DEF above
    <3> QED BY <3>3, <3>4, <3>5 DEF AncestryTypeOK
  <2>8. ParentIsNearest'
    <3> SUFFICES ASSUME NEW q \in Cataloged', ~CutOff(q)', NEW t, t = catalog'[q].parent
                 PROVE  ancestry'[q] \cap Cataloged'
                          = IF t = None THEN {} ELSE {t} \cup (ancestry'[t] \cap Cataloged')
      BY DEF ParentIsNearest
    <3>1. CASE q = p
      <4>1. h \in Cataloged \cup {None}
        BY <2>1, <3>1 DEF CutOff
      <4>2. h # None => h \in Cataloged /\ h \in DOMAIN ancestry /\ h # p /\ ancestry'[h] = ancestry[h]
        BY <2>1, <2>2, <2>3, <4>1
      <4>3. t = h /\ ancestry'[q] = above
        BY <2>1, <3>1
      <4>4. CASE h = None
        BY <4>3, <4>4
      <4>5. CASE h # None
        <5>1. above = {h} \cup ancestry[h] /\ h \in Cataloged'
          BY <2>1, <4>2, <4>5
        <5> HIDE DEF above
        <5> QED BY <4>2, <4>3, <4>5, <5>1
      <4> QED BY <4>4, <4>5
    <3>2. CASE q # p
      <4>1. q \in Cataloged /\ q \in DOMAIN ancestry /\ ancestry'[q] = ancestry[q] /\ t = catalog[q].parent
        BY <2>1, <2>2, <3>2
      <4>2. ~CutOff(q)
        BY <2>1, <4>1 DEF CutOff
      <4>3. ancestry[q] \cap Cataloged = IF t = None THEN {} ELSE {t} \cup (ancestry[t] \cap Cataloged)
        BY <4>1, <4>2 DEF LineInv, ParentIsNearest
      <4>4. t # None => t \in Cataloged /\ t \in DOMAIN ancestry /\ t # p /\ ancestry'[t] = ancestry[t]
        BY <2>1, <2>2, <4>3
      <4>5. ancestry[q] \cap Cataloged' = ancestry[q] \cap Cataloged
        BY <2>1, <2>4, <4>1
      <4>6. t # None => ancestry[t] \cap Cataloged' = ancestry[t] \cap Cataloged
        BY <2>1, <2>4, <4>4
      <4> QED BY <4>1, <4>3, <4>4, <4>5, <4>6
    <3> QED BY <3>1, <3>2
  <2> QED BY <2>7, <2>8 DEF LineInv
<1> QED BY <1>1, <1>2

\* The children of a PIT that is dropped descend from its parent.
LEMMA UnmarkLines == ASSUME CInv, LineInv, NEW g \in Hosts, Unmark(g) PROVE LineInv'
<1> DEFINE d == pass[g].pit
<1>0. UNCHANGED <<ancestry, severed, lineage>>
  BY DEF Unmark
<1>1. CASE catalog' = catalog
  BY <1>0, <1>1, LinesStayInv DEF LinesStay, Cataloged
<1>2. CASE catalog' # catalog
  <2>1. d \in Cataloged /\ catalog' = Reparent(d)
    BY <1>2 DEF Unmark
  <2>2. /\ Cataloged' = Cataloged \ {d}
        /\ \A q \in Cataloged \ {d} :
             catalog'[q].parent = IF catalog[q].parent = d THEN catalog[d].parent ELSE catalog[q].parent
    <3>1. ASSUME NEW q \in Cataloged \ {d}, catalog[q].parent = d PROVE catalog'[q].parent = catalog[d].parent
      <4>1. PICK s : s = [catalog[q] EXCEPT !.parent = catalog[d].parent]
        OBVIOUS
      <4>2. catalog'[q] = Bumped(q, s)
        BY <2>1, <3>1, <4>1 DEF Reparent
      <4>3. "parent" \in DOMAIN s /\ s.parent = catalog[d].parent
        BY <4>1, KeepsParent, HasParent
      <4> QED BY <4>2, <4>3, BumpKeeps
    <3> QED BY <2>1, <3>1 DEF Reparent, Cataloged
  <2>3. Cataloged \subseteq DOMAIN ancestry /\ DOMAIN ancestry \subseteq Pits /\ None \notin Pits /\ Pits \subseteq Nat
    BY CaptureAssumption DEF CInv, PitsInv, CapturesNew, None, Pits
  <2>4. /\ \A x \in DOMAIN ancestry : \A y \in ancestry[x] :
              y \in DOMAIN ancestry /\ y < x /\ ancestry[y] \subseteq ancestry[x]
        /\ \A x \in Cataloged : catalog[x].parent \in ancestry[x] \cup {None}
    BY DEF LineInv, AncestryTypeOK
  <2>5. AncestryTypeOK'
    <3>1. \A q \in Cataloged' : catalog'[q].parent \in ancestry[q] \cup {None}
      BY <2>1, <2>2, <2>3, <2>4
    <3> QED BY <1>0, <2>4, <3>1 DEF LineInv, AncestryTypeOK
  <2>6. ASSUME NEW q \in Cataloged \ {d}, ~CutOff(q)
        PROVE  LET t == catalog'[q].parent IN
               ancestry[q] \cap Cataloged' = IF t = None THEN {} ELSE {t} \cup (ancestry[t] \cap Cataloged')
    <3>1. PICK u : u = catalog[q].parent
      OBVIOUS
    <3>2. ancestry[q] \cap Cataloged = IF u = None THEN {} ELSE {u} \cup (ancestry[u] \cap Cataloged)
      BY <2>6, <3>1 DEF LineInv, ParentIsNearest
    <3>3. CASE u # d
      <4>1. catalog'[q].parent = u
        BY <2>2, <3>1, <3>3
      <4> QED BY <2>2, <3>2, <3>3, <4>1
    <3>4. CASE u = d
      <4>1. PICK t : t = catalog[d].parent
        OBVIOUS
      <4>2. d \in ancestry[q] /\ d # None /\ d \in DOMAIN ancestry
        BY <2>1, <2>3, <2>4, <3>1, <3>4, ZenonT(30)
      <4>3. ~CutOff(d)
        BY <2>3, <2>4, <2>6, <4>2 DEF CutOff
      <4>4. ancestry[d] \cap Cataloged = IF t = None THEN {} ELSE {t} \cup (ancestry[t] \cap Cataloged)
        BY <2>1, <4>1, <4>3 DEF LineInv, ParentIsNearest
      <4>5. d \notin ancestry[d]
        <5>1. d \in Nat
          BY <2>3, <4>2
        <5>2. \A x \in Nat : ~(x < x)
          OBVIOUS
        <5> HIDE DEF d
        <5> QED BY <2>4, <4>2, <5>1, <5>2
      <4>6. t # None => t \in Cataloged /\ t # d /\ d \notin ancestry[t]
        BY <2>3, <2>4, <4>2, <4>4, <4>5
      <4>7. catalog'[q].parent = t
        BY <2>2, <3>1, <3>4, <4>1
      <4>8. ancestry[q] \cap Cataloged' = ancestry[d] \cap Cataloged
        BY <2>2, <3>2, <3>4, <4>2, <4>5
      <4>9. t # None => ancestry[t] \cap Cataloged' = ancestry[t] \cap Cataloged
        BY <2>2, <4>6
      <4> QED BY <4>4, <4>7, <4>8, <4>9
    <3> QED BY <3>3, <3>4
  <2>7. \A q : CutOff(q)' <=> CutOff(q)
    BY <1>0 DEF CutOff
  <2>8. ParentIsNearest'
    BY <1>0, <2>2, <2>6, <2>7 DEF ParentIsNearest
  <2> QED BY <2>5, <2>8 DEF LineInv
<1> QED BY <1>1, <1>2

LEMMA NextLines == ASSUME CInv, LineInv, [CaptureNext]_captureVars PROVE LineInv'
<1>1. CASE Catalog
  BY <1>1, CatalogLines
<1>2. CASE \E h \in Hosts : Unmark(h)
  BY <1>2, UnmarkLines
<1>3. CASE ~Catalog /\ ~\E h \in Hosts : Unmark(h)
  <2>1. LinesStay
    BY <1>3, OutsideStays, UpkeepStays, JobStaysInLine DEF CaptureNext
  <2> QED BY <2>1, LinesStayInv
<1> QED BY <1>1, <1>2, <1>3

LEMMA InitLines == CaptureInit => LineInv
BY DEF CaptureInit, LineInv, AncestryTypeOK, ParentIsNearest, CutOff, Cataloged, None

\* A closed set holds what a PIT on it or below it descends from: else the
\* oldest PIT that could tell the difference has a parent that can, too.
LEMMA WalkIsComplete ==
  ASSUME CInv, LineInv, NEW p \in Cataloged, ~CutOff(p), NEW q \in ancestry[p] \cap Cataloged,
         NEW S \in SUBSET Cataloged, Up(p) \subseteq S, \A r \in S : Up(r) \subseteq S
  PROVE  q \in S
<1> SUFFICES ASSUME q \notin S PROVE FALSE
  OBVIOUS
<1> DEFINE B == {r \in S \cup {p} : q \in ancestry[r] /\ (r = p \/ r \in ancestry[p])}
<1>1. Cataloged \subseteq DOMAIN ancestry /\ DOMAIN ancestry \subseteq Nat
  BY CaptureAssumption DEF CInv, PitsInv, CapturesNew, Pits
<1>2. B \subseteq Nat /\ B # {} /\ B \subseteq Cataloged
  BY <1>1
<1>3. PICK r \in B : \A x \in B : r <= x
  <2> HIDE DEF B
  <2> QED BY <1>2, OldestExists
<1>4. /\ \A x \in DOMAIN ancestry : \A y \in ancestry[x] :
            y \in DOMAIN ancestry /\ y < x /\ ancestry[y] \subseteq ancestry[x]
      /\ r \in Cataloged /\ r \in DOMAIN ancestry
  BY <1>1, <1>2 DEF LineInv, AncestryTypeOK
<1>5. ~CutOff(r)
  BY <1>1, <1>4 DEF CutOff
<1>6. PICK t : t = catalog[r].parent
  OBVIOUS
<1>7. ancestry[r] \cap Cataloged = IF t = None THEN {} ELSE {t} \cup (ancestry[t] \cap Cataloged)
  BY <1>4, <1>5, <1>6 DEF LineInv, ParentIsNearest
<1>8. t \in Cataloged /\ t \in ancestry[r] /\ (q = t \/ q \in ancestry[t])
  BY <1>7
<1>9. t \in S
  BY <1>6, <1>8 DEF Up
<1>10. t \in B /\ t < r
  BY <1>1, <1>4, <1>8, <1>9
<1>11. r <= t /\ r \in Nat /\ t \in Nat
  BY <1>2, <1>3, <1>10
<1> QED BY <1>10, <1>11

LEMMA WalkIsRight == ASSUME CInv, LineInv PROVE WalkReachesAncestors
<1> SUFFICES ASSUME NEW p \in Cataloged
             PROVE  /\ Ancestors(p) \subseteq ancestry[p]
                    /\ ~CutOff(p) => Ancestors(p) = ancestry[p] \cap Cataloged
  BY DEF WalkReachesAncestors
<1>1. Ancestors(p) \subseteq ancestry[p]
  <2> DEFINE S == ancestry[p] \cap Cataloged
  <2>1. /\ Cataloged \subseteq DOMAIN ancestry
        /\ \A x \in DOMAIN ancestry : \A y \in ancestry[x] : ancestry[y] \subseteq ancestry[x]
        /\ \A x \in Cataloged : catalog[x].parent \in ancestry[x] \cup {None}
        /\ None \notin Cataloged
    BY CaptureAssumption DEF CInv, PitsInv, CapturesNew, Pits, None, LineInv, AncestryTypeOK
  <2>2. \A x \in Cataloged : Up(x) \subseteq ancestry[x] \cap Cataloged
    BY <2>1 DEF Up
  <2>3. Up(p) \subseteq S /\ S \in SUBSET Cataloged /\ \A r \in S : Up(r) \subseteq S
    BY <2>1, <2>2
  <2> QED BY <2>3 DEF Ancestors
<1>2. ASSUME ~CutOff(p), NEW q \in ancestry[p] \cap Cataloged PROVE q \in Ancestors(p)
  BY <1>2, WalkIsComplete DEF Ancestors
<1>3. Ancestors(p) \subseteq Cataloged
  BY DEF Ancestors
<1> QED BY <1>1, <1>2, <1>3

LEMMA LinesInvariance == CaptureSpec => [](CInv /\ LineInv)
<1>1. CInv /\ LineInv /\ [CaptureNext]_captureVars => LineInv'
  BY NextLines
<1> QED BY <1>1, InitLines, Invariance, PTL DEF CaptureSpec

-----------------------------------------------------------------------------
(* The theorems                                                            *)

\* The catalog, the disks, the captures, the pulls and the passes of upkeep
\* agree; in particular no guest stays frozen without its timer, and what an
\* offer holds is a snapshot on every placement host, whatever dies, moves,
\* lapses or comes back.
THEOREM CaptureSound == CaptureSpec => []CaptureInv
<1>1. CInv /\ LineInv => CaptureInv
  BY DEF CInv, CaptureInv
<1> QED BY <1>1, LinesInvariance, PTL

\* An appliance's next pull is incremental from any host: upkeep never takes
\* both the snapshots and the bookmarks of its head.
THEOREM BasesStay == CaptureSpec => []HeadStaysABase
<1>1. CInv => HeadStaysABase
  BY DEF CInv
<1> QED BY <1>1, Invariance, PTL

\* Whatever PITs upkeep drops, the walk up the catalog from one that is left
\* finds all the others left that it descends from, unless it was taken on a
\* branch whose start had been dropped: so the base of an incremental pull is
\* found when there is one (source.rs: ancestors, delete_pit).
THEOREM WalksReachAncestors == CaptureSpec => []WalkReachesAncestors
<1>1. CInv /\ LineInv => WalkReachesAncestors
  BY WalkIsRight
<1> QED BY <1>1, LinesInvariance, PTL
=============================================================================
