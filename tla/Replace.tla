------------------------------ MODULE Replace ------------------------------
(***************************************************************************)
(* Bringing a production VM's own disks back to a point in time            *)
(* (bmacd/src/backup/replace.rs): restore into the VM, rollback in place   *)
(* and promotion of a restored VM, each fencing the VM, changing its disks *)
(* and unfencing it, next to the cleanup of the disks that were set aside. *)
(* One VM on its owner, Proxmox replication and HA as the code uses them.  *)
(* The jobs never resume: a process that dies leaves what it had done.     *)
(***************************************************************************)
EXTENDS Naturals, Sequences, FiniteSets, SequencesExt

CONSTANTS
    Slots,          \* the VM's disks: 1 .. n, changed in this order
    Targets,        \* the hosts it replicates to
    Origins,        \* what a restored disk may be a clone of, nearest first
    MaxOps,         \* bound: jobs that change the disks
    MaxTroubles     \* bound: failed commands, timeouts and deaths

ASSUME DisksNumbered == Slots \subseteq Nat \ {0} /\ \A s \in Slots : 1 .. s \subseteq Slots
ASSUME CloneChains == Origins \subseteq Seq({"ours", "foreign"})
ASSUME ReplaceBounds == MaxOps \in Nat /\ MaxTroubles \in Nat

VARIABLES
    rop,        \* the job: "none", "into", "rollback" or "promote"
    rpc,        \* where it is
    slot,       \* the disk it is changing
    moved,      \* the renames of the swap so far, <<slot, leg>>
    fenced,     \* Fenced: HA managed, the replication jobs, was running; and the disks then
    bad,        \* the outcome is an error
    changed,    \* the outcome of the change: "none", "ok" or "err"
    lease,      \* the job that holds the VM's orchestration lease, 0 if none
    on,         \* the VM runs
    ha,         \* HA manages the VM, and what it asks for
    jobs,       \* the replication jobs Proxmox has
    synced,     \* the targets with a full copy of the disks as they are
    disk,       \* per slot, the content under the VM's own dataset
    origin,     \* per slot, what the restored disk is still a clone of
    aside,      \* per slot, the disks set aside: the job that did it and the content
    restored,   \* per source and slot, the disks to swap in
    twin,       \* the configuration of the restored VM: "absent", "off", "on"
    head,       \* the PIT the next backup continues from
    listed,     \* the catalog still lists the later PIT
    rrecord,    \* the RestoreRecord of the job
    cleaning,   \* the slots the cleanup still has to remove a disk of
    ops, rtroubles,
    stuck       \* a disk could not be put back: its rename failed, or a cleanup took it

procVars == <<rop, rpc, slot, moved, fenced, bad, changed, rrecord>>
vmVars == <<on, ha, twin>>
replVars == <<jobs, synced>>
diskVars == <<disk, origin, aside, restored>>
catVars == <<head, listed>>
replaceVars == <<procVars, vmVars, replVars, diskVars, catVars, lease, cleaning, ops, rtroubles, stuck>>

Content == {"old", "pit"}
Gone == "gone"

\* Where the disks to swap in are: a restore into the VM stages them, a
\* promotion takes those of the restored VM.
Trees == {"staging", "twin"}
Source == IF rop = "promote" THEN "twin" ELSE "staging"

EveryDisk(c) == [s \in Slots |-> c]
NoFence == [ha |-> FALSE, jobs |-> {}, was |-> FALSE, disks |-> EveryDisk(Gone)]

\* A command fails, a wait times out.
Trouble == rtroubles < MaxTroubles /\ rtroubles' = rtroubles + 1

Goto(pc) == rpc' = pc /\ UNCHANGED <<rop, slot, moved, fenced, bad, changed, rrecord>>
Fails(pc) == rpc' = pc /\ bad' = TRUE /\ UNCHANGED <<rop, slot, moved, fenced, changed, rrecord>>

ReplaceInit ==
    /\ rop = "none" /\ rpc = "idle" /\ slot = 1 /\ moved = <<>> /\ fenced = NoFence
    /\ bad = FALSE /\ changed = "none" /\ rrecord = "none"
    /\ lease = 0 /\ on \in BOOLEAN
    /\ ha \in {"unmanaged", IF on THEN "started" ELSE "stopped"}
    /\ jobs = Targets /\ synced = Targets
    /\ disk = EveryDisk("old") /\ origin = EveryDisk(<<>>) /\ aside = EveryDisk({})
    /\ twin \in {"absent", "on"}
    /\ restored = [p \in Trees |-> EveryDisk(IF p = "twin" /\ twin = "on" THEN "pit" ELSE Gone)]
    /\ head = "later" /\ listed = TRUE /\ cleaning = {}
    /\ ops = 0 /\ rtroubles = 0 /\ stuck = FALSE

(***************************************************************************)
(* Planning: the checks have passed, the operator has typed the name.      *)
(***************************************************************************)
\* Rollback in place: every disk has the PIT's snapshot, and nothing clones
\* a newer one.
MayRollBack == \A s \in Slots : disk[s] # Gone /\ origin[s] = <<>> /\ restored["staging"][s] = Gone

MayPlan(o) ==
    CASE o = "into" -> TRUE
      [] o = "rollback" -> MayRollBack
      [] o = "promote" -> twin # "absent"

Begin(o) ==
    /\ rpc = "idle" /\ ops < MaxOps /\ MayPlan(o)
    /\ rop' = o /\ ops' = ops + 1 /\ rrecord' = "open"
    /\ rpc' = CASE o = "into" -> "receive" [] o = "rollback" -> "lease" [] o = "promote" -> "twin"
    /\ slot' = 1 /\ moved' = <<>> /\ fenced' = NoFence /\ bad' = FALSE /\ changed' = "none"
    /\ UNCHANGED <<vmVars, replVars, diskVars, catVars, lease, cleaning, rtroubles, stuck>>

\* restore_into brings every volume to the PIT under the staging tree.
Receive ==
    /\ rpc = "receive"
    /\ \/ /\ restored' = [restored EXCEPT !["staging"] = EveryDisk("pit")]
          /\ Goto("lease") /\ UNCHANGED rtroubles
       \/ Trouble /\ Fails("tidy") /\ UNCHANGED restored
    /\ UNCHANGED <<vmVars, replVars, disk, origin, aside, catVars, lease, cleaning, ops, stuck>>

\* promote stops the restored VM; an error here returns before finish().
StopTwin ==
    /\ rpc = "twin"
    /\ \/ twin' = "off" /\ Goto("lease") /\ UNCHANGED rtroubles
       \/ /\ Trouble /\ twin = "on"
          /\ Goto("idle") /\ UNCHANGED twin
    /\ UNCHANGED <<on, ha, replVars, diskVars, catVars, lease, cleaning, ops, stuck>>

(***************************************************************************)
(* fence                                                                   *)
(***************************************************************************)
\* The lease, and what the VM has: HA, replication jobs, running.
Fence ==
    /\ rpc = "lease"
    /\ \/ /\ lease = 0
          /\ lease' = ops
          /\ fenced' = [ha |-> ha # "unmanaged", jobs |-> jobs, was |-> on, disks |-> disk]
          /\ rpc' = "stop" /\ UNCHANGED <<rop, slot, moved, bad, changed, rrecord, rtroubles>>
       \/ lease # 0 /\ Fails("tidy") /\ UNCHANGED <<lease, rtroubles>>
    /\ UNCHANGED <<vmVars, replVars, diskVars, catVars, cleaning, ops, stuck>>

\* HA is asked to stop it, or the VM shuts down; the wait may time out.
StopVm ==
    /\ rpc = "stop"
    /\ \/ /\ on' = FALSE
          /\ ha' = IF fenced.ha THEN "stopped" ELSE ha
          /\ Goto("drop") /\ UNCHANGED rtroubles
       \/ /\ Trouble /\ Fails("unfence")
          /\ ha' \in {ha, IF fenced.ha THEN "stopped" ELSE ha}
          /\ UNCHANGED on
    /\ UNCHANGED <<twin, replVars, diskVars, catVars, lease, cleaning, ops, stuck>>

\* The replication jobs go one by one, each with its replica.
DropJob ==
    /\ rpc = "drop"
    /\ \/ \E t \in fenced.jobs \cap jobs :
            jobs' = jobs \ {t} /\ synced' = synced \ {t} /\ UNCHANGED <<procVars, rtroubles>>
       \/ fenced.jobs \cap jobs = {} /\ Goto("change") /\ UNCHANGED <<replVars, rtroubles>>
       \/ Trouble /\ fenced.jobs # {} /\ Fails("unfence") /\ UNCHANGED replVars
    /\ UNCHANGED <<vmVars, diskVars, catVars, lease, cleaning, ops, stuck>>

(***************************************************************************)
(* The change: a swap of every disk, or a rollback of every disk           *)
(***************************************************************************)
Changes(pc, outcome) ==
    /\ rpc' = pc /\ changed' = outcome /\ bad' = (outcome = "err")
    /\ UNCHANGED <<rop, moved, fenced, rrecord>>

\* The name of a set-aside disk holds the time: it never meets an older one.
Kept_sameName(s) == {<<ops, disk[s]>>}
Kept(s) == aside[s] \cup {<<ops, disk[s]>>}

\* The current zvol is renamed under bmac-replaced ...
SetAside ==
    /\ rpc = "change" /\ rop # "rollback" /\ slot \in Slots
    /\ \/ /\ disk[slot] # Gone
          /\ aside' = [aside EXCEPT ![slot] = Kept(slot)]
          /\ disk' = [disk EXCEPT ![slot] = Gone]
          /\ moved' = Append(moved, <<slot, "aside">>) /\ rpc' = "swapin"
          /\ UNCHANGED <<rop, slot, fenced, bad, changed, rrecord, rtroubles>>
       \/ /\ \/ Trouble
             \/ disk[slot] = Gone /\ UNCHANGED rtroubles
          /\ Fails("putback") /\ UNCHANGED <<disk, aside>>
    /\ UNCHANGED <<vmVars, replVars, origin, restored, catVars, lease, cleaning, ops, stuck>>

\* ... and the restored one to the disk's name.
SwapIn ==
    /\ rpc = "swapin"
    /\ LET from == restored[Source][slot] IN
       \/ /\ from # Gone
          /\ disk' = [disk EXCEPT ![slot] = from]
          /\ restored' = [restored EXCEPT ![Source][slot] = Gone]
          /\ \E o \in Origins : origin' = [origin EXCEPT ![slot] = o]
          /\ moved' = Append(moved, <<slot, "in">>)
          /\ \/ slot' = slot + 1 /\ rpc' = "change" /\ UNCHANGED <<bad, rtroubles>>
             \/ Trouble /\ rpc' = "putback" /\ bad' = TRUE /\ UNCHANGED slot  \* inherit_volmode
          /\ UNCHANGED <<rop, fenced, changed, rrecord>>
       \/ /\ \/ Trouble
             \/ from = Gone /\ UNCHANGED rtroubles
          /\ Fails("putback") /\ UNCHANGED <<disk, restored, origin>>
    /\ UNCHANGED <<vmVars, replVars, aside, catVars, lease, cleaning, ops, stuck>>

MyAside(s) == {a \in aside[s] : a[1] = ops}

\* A rename back is possible when its place is free and the disk still there.
CanReturn(m) ==
    IF m[2] = "aside" THEN disk[m[1]] = Gone /\ MyAside(m[1]) # {}
    ELSE disk[m[1]] # Gone /\ restored[Source][m[1]] = Gone

Return(m) ==
    LET s == m[1] IN
    IF m[2] = "aside" THEN
        /\ \E a \in MyAside(s) :
             disk' = [disk EXCEPT ![s] = a[2]] /\ aside' = [aside EXCEPT ![s] = @ \ {a}]
        /\ UNCHANGED <<restored, origin>>
    ELSE
        /\ restored' = [restored EXCEPT ![Source][s] = disk[s]]
        /\ disk' = [disk EXCEPT ![s] = Gone]
        /\ origin' = [origin EXCEPT ![s] = <<>>]
        /\ UNCHANGED aside

\* The renames left to undo once the next one is done: newest first.
NextBack_oldestFirst == <<Head(moved), Tail(moved)>>
NextBack == <<Last(moved), Front(moved)>>

\* A failed swap puts back what moved; a rename that fails is only reported.
PutBack ==
    /\ rpc = "putback"
    /\ IF moved = <<>>
       THEN /\ Changes("unfence", "err") /\ UNCHANGED <<slot, diskVars, rtroubles, stuck>>
       ELSE LET m == NextBack[1] IN
            /\ moved' = NextBack[2]
            /\ UNCHANGED <<rop, rpc, slot, fenced, bad, changed, rrecord>>
            /\ \/ CanReturn(m) /\ Return(m) /\ UNCHANGED <<rtroubles, stuck>>
               \/ /\ \/ Trouble /\ stuck' = TRUE
                     \/ ~CanReturn(m) /\ stuck' = (stuck \/ MyAside(m[1]) = {}) /\ UNCHANGED rtroubles
                  /\ UNCHANGED diskVars
    /\ UNCHANGED <<vmVars, replVars, catVars, lease, cleaning, ops>>

\* Every disk is in; each is then made to own its history.
SwapDone ==
    /\ rpc = "change" /\ rop # "rollback" /\ slot \notin Slots
    /\ rpc' = "own" /\ slot' = 1 /\ UNCHANGED <<rop, moved, fenced, bad, changed, rrecord>>
    /\ UNCHANGED <<vmVars, replVars, diskVars, catVars, lease, cleaning, ops, rtroubles, stuck>>

\* copy_clone: the copy takes the disk's name; or the copy, its check or the
\* destruction of the clone fails; or the clone is gone and the rename fails.
CopyClone ==
    \/ /\ origin' = [origin EXCEPT ![slot] = <<>>] /\ slot' = slot + 1
       /\ UNCHANGED <<rop, rpc, moved, fenced, bad, changed, rrecord, disk, rtroubles>>
    \/ /\ Trouble /\ Changes("unfence", "err")
       /\ disk' \in {disk, [disk EXCEPT ![slot] = Gone]} /\ UNCHANGED <<slot, origin>>

\* The disk is promoted over the set-aside and staging datasets it is a clone
\* of, one level each; a promotion that fails, or a chain of more than 16, is
\* only reported. A clone of another VM's disk is replaced by a copy.
OwnHistory ==
    /\ rpc = "own" /\ slot \in Slots
    /\ \/ /\ origin[slot] = <<>>
          /\ slot' = slot + 1 /\ UNCHANGED <<rop, rpc, moved, fenced, bad, changed, rrecord, disk, origin, rtroubles>>
       \/ /\ origin[slot] # <<>> /\ Head(origin[slot]) = "ours"
          /\ \/ origin' = [origin EXCEPT ![slot] = Tail(@)] /\ UNCHANGED <<slot, rtroubles>>
             \/ Trouble /\ slot' = slot + 1 /\ UNCHANGED origin
          /\ UNCHANGED <<rop, rpc, moved, fenced, bad, changed, rrecord, disk>>
       \/ /\ origin[slot] # <<>> /\ Head(origin[slot]) = "foreign"
          /\ CopyClone
    /\ UNCHANGED <<vmVars, replVars, aside, restored, catVars, lease, cleaning, ops, stuck>>

\* The change stands; a promotion forgets the restored VM's configuration.
ChangeDone ==
    /\ \/ rpc = "own" /\ slot \notin Slots
       \/ rpc = "change" /\ rop = "rollback" /\ slot \notin Slots
    /\ Changes("unfence", "ok") /\ UNCHANGED slot
    /\ IF rop = "promote"
       THEN \/ twin' = "absent" /\ UNCHANGED rtroubles
            \/ Trouble /\ UNCHANGED twin
       ELSE UNCHANGED <<twin, rtroubles>>
    /\ UNCHANGED <<on, ha, replVars, diskVars, catVars, lease, cleaning, ops, stuck>>

\* zfs rollback: the newer snapshots of this disk are destroyed.
RollBackDisk ==
    /\ rpc = "change" /\ rop = "rollback" /\ slot \in Slots
    /\ \/ /\ disk' = [disk EXCEPT ![slot] = "pit"] /\ slot' = slot + 1
          /\ UNCHANGED <<rop, rpc, moved, fenced, bad, changed, rrecord, rtroubles>>
       \/ Trouble /\ Changes("unfence", "err") /\ UNCHANGED <<slot, disk>>
    /\ UNCHANGED <<vmVars, replVars, origin, aside, restored, catVars, lease, cleaning, ops, stuck>>

(***************************************************************************)
(* unfence                                                                 *)
(***************************************************************************)

\* The missing replication jobs are created again.
CreateJobs ==
    /\ rpc = "unfence"
    /\ \/ /\ jobs' = jobs \cup fenced.jobs /\ Goto("sync") /\ UNCHANGED rtroubles
       \/ /\ Trouble /\ fenced.jobs # {}
          /\ \E some \in SUBSET (fenced.jobs \ jobs) : jobs' = jobs \cup some
          /\ Fails("release")
    /\ UNCHANGED <<vmVars, synced, diskVars, catVars, lease, cleaning, ops, stuck>>

\* Proxmox copies every disk to a target in full; it can't send a clone.
Sync(t) ==
    /\ t \in jobs \ synced /\ \A s \in Slots : disk[s] # Gone /\ origin[s] = <<>>
    /\ synced' = synced \cup {t}
    /\ UNCHANGED <<procVars, vmVars, jobs, diskVars, catVars, lease, cleaning, ops, rtroubles, stuck>>

\* The VM starts again when the change stands, or when only the fence failed.
Starts == changed = "ok" \/ (changed = "none" /\ fenced.was)

\* Every target has its copy; or three failures, or the time is up.
AwaitSync ==
    /\ rpc = "sync"
    /\ \/ fenced.jobs \subseteq synced /\ Goto(IF Starts THEN "start" ELSE "release") /\ UNCHANGED rtroubles
       \/ ~(fenced.jobs \subseteq synced) /\ Trouble /\ Fails("release")
    /\ UNCHANGED <<vmVars, replVars, diskVars, catVars, lease, cleaning, ops, stuck>>

StartVm ==
    /\ rpc = "start"
    /\ \/ /\ on' = TRUE /\ ha' = IF fenced.ha THEN "started" ELSE ha
          /\ Goto("release") /\ UNCHANGED rtroubles
       \/ Trouble /\ Fails("release") /\ UNCHANGED <<on, ha>>
    /\ UNCHANGED <<twin, replVars, diskVars, catVars, lease, cleaning, ops, stuck>>

Release ==
    /\ rpc = "release"
    /\ lease' = IF lease = ops THEN 0 ELSE lease
    /\ Goto("tidy")
    /\ UNCHANGED <<vmVars, replVars, diskVars, catVars, cleaning, ops, rtroubles, stuck>>

\* What the staging tree still holds is destroyed, or stays with a warning.
Tidy ==
    /\ rpc = "tidy"
    /\ \/ /\ restored' = IF rop = "into" THEN [restored EXCEPT !["staging"] = EveryDisk(Gone)] ELSE restored
          /\ UNCHANGED rtroubles
       \/ Trouble /\ UNCHANGED restored
    /\ Goto("finish")
    /\ UNCHANGED <<vmVars, replVars, disk, origin, aside, catVars, lease, cleaning, ops, stuck>>

\* finish(): a change that stood drops the later PITs it rolled back over
\* and continues the backups from the PIT; an error is only recorded.
Finish ==
    /\ rpc = "finish" /\ rpc' = "idle"
    /\ IF bad
       THEN rrecord' = "failed" /\ UNCHANGED catVars
       ELSE /\ rrecord' = "stands" /\ head' = "pit"
            /\ listed' = (listed /\ rop # "rollback")
    /\ UNCHANGED <<rop, slot, moved, fenced, bad, changed>>
    /\ UNCHANGED <<vmVars, replVars, diskVars, lease, cleaning, ops, rtroubles, stuck>>

(***************************************************************************)
(* Cleanup, and what surrounds the job                                     *)
(***************************************************************************)
\* The disks set aside that no staging clone depends on, of which the
\* operator chooses some; the job takes no lease on the VM.
Offered == {s \in Slots : aside[s] # {} /\ restored["staging"][s] = Gone}

Cleanup ==
    /\ cleaning = {} /\ Offered # {}
    /\ cleaning' \in SUBSET Offered \ {{}}
    /\ UNCHANGED <<procVars, vmVars, replVars, diskVars, catVars, lease, ops, rtroubles, stuck>>

\* remove(): a disk that is still a clone of the set-aside one is promoted
\* first, then the set-aside one is destroyed.
RemoveAside(s) ==
    /\ s \in cleaning
    /\ cleaning' = cleaning \ {s}
    /\ \/ \E a \in aside[s] :
            /\ restored["staging"][s] = Gone
            /\ aside' = [aside EXCEPT ![s] = @ \ {a}]
            /\ origin' = [origin EXCEPT ![s] = IF @ # <<>> /\ Head(@) = "ours" THEN Tail(@) ELSE @]
            /\ UNCHANGED rtroubles
       \/ Trouble /\ UNCHANGED <<aside, origin>>
       \/ (aside[s] = {} \/ restored["staging"][s] # Gone) /\ UNCHANGED <<aside, origin, rtroubles>>
    /\ UNCHANGED <<procVars, vmVars, replVars, disk, restored, catVars, lease, ops, stuck>>

\* The process of the job dies; it never resumes.
Dies ==
    /\ rpc # "idle" /\ Trouble
    /\ Goto("idle")
    /\ UNCHANGED <<vmVars, replVars, diskVars, catVars, lease, cleaning, ops, stuck>>

\* The lease of a job that died lapses after 48 hours.
LeaseLapses ==
    /\ lease # 0 /\ rpc = "idle" /\ lease' = 0
    /\ UNCHANGED <<procVars, vmVars, replVars, diskVars, catVars, cleaning, ops, rtroubles, stuck>>

ReplaceNext ==
    \/ \E o \in {"into", "rollback", "promote"} : Begin(o)
    \/ Receive \/ StopTwin \/ Fence \/ StopVm \/ DropJob
    \/ SetAside \/ SwapIn \/ PutBack \/ SwapDone \/ OwnHistory \/ ChangeDone \/ RollBackDisk
    \/ CreateJobs \/ AwaitSync \/ StartVm \/ Release \/ Tidy \/ Finish
    \/ \E t \in Targets : Sync(t)
    \/ Cleanup \/ \E s \in Slots : RemoveAside(s)
    \/ Dies \/ LeaseLapses

ReplaceSpec == ReplaceInit /\ [][ReplaceNext]_replaceVars

(***************************************************************************)
(* Properties                                                              *)
(***************************************************************************)
Pcs == {"idle", "receive", "twin", "lease", "stop", "drop", "change", "swapin", "putback",
        "own", "unfence", "sync", "start", "release", "tidy", "finish"}
Disks == [Slots -> Content \cup {Gone}]
Fences == [ha : BOOLEAN, jobs : SUBSET Targets, was : BOOLEAN, disks : Disks]

\* Every variable has its type; a disk set aside has the number of a job.
ReplaceTypeOK ==
    /\ rop \in {"none", "into", "rollback", "promote"} /\ rpc \in Pcs
    /\ slot \in Nat /\ (slot = 1 \/ slot - 1 \in Slots)
    /\ moved \in Seq(Slots \X {"aside", "in"}) /\ fenced \in Fences
    /\ changed \in {"none", "ok", "err"} /\ bad \in BOOLEAN
    /\ rrecord \in {"none", "open", "stands", "failed"}
    /\ lease \in 0 .. MaxOps /\ on \in BOOLEAN /\ ha \in {"unmanaged", "started", "stopped"}
    /\ jobs \subseteq Targets /\ synced \subseteq jobs
    /\ disk \in Disks /\ origin \in [Slots -> Seq({"ours", "foreign"})]
    /\ aside \in [Slots -> SUBSET ((1 .. ops) \X Content)]
    /\ restored \in [Trees -> [Slots -> {"pit", Gone}]]
    /\ twin \in {"absent", "off", "on"} /\ head \in {"later", "pit"} /\ listed \in BOOLEAN
    /\ cleaning \subseteq Slots /\ ops \in 0 .. MaxOps /\ rtroubles \in 0 .. MaxTroubles
    /\ stuck \in BOOLEAN

\* The VM never runs on disks of two points in time, nor with one missing:
\* change() starts it only when every disk has changed, whatever failed,
\* died or was cleaned up before, and fence() only when none has.
RunsWhole == on => \E c \in Content : \A s \in Slots : disk[s] = c

\* A swap that fails while it renames puts every disk back where it was,
\* unless a rename back failed or a cleanup took the set-aside disk.
PutBackIsComplete ==
    (rpc = "unfence" /\ changed = "err" /\ rop # "rollback" /\ moved = <<>> /\ ~stuck)
        => disk = fenced.disks

\* What a failed swap leaves: replace.rs (swap) says "A failure puts back
\* what moved", of whichever step of the change failed.
FailureIsPutBack ==
    (rpc = "unfence" /\ changed = "err" /\ rop # "rollback" /\ ~stuck) => disk = fenced.disks

\* The renames of a swap go slot by slot, aside and then in: the place of a
\* rename in `moved' says which it is, also while they are undone.
RenamesInOrder ==
    \A i \in 1 .. Len(moved) :
        i = IF moved[i][2] = "in" THEN 2 * moved[i][1] ELSE 2 * moved[i][1] - 1

\* Where the job is, what it has done is what these steps leave.
Preparing == rpc \in {"receive", "twin", "lease", "stop", "drop"}
Swapping == rpc \in {"change", "swapin", "putback"} /\ rop # "rollback"
StepsInOrder ==
    /\ rpc # "idle" => ops > 0
    /\ Preparing => slot = 1 /\ moved = <<>> /\ changed = "none"
    /\ rpc = "change" /\ rop # "rollback" => Len(moved) = 2 * slot - 2
    /\ rpc = "swapin" => slot \in Slots /\ Len(moved) = 2 * slot - 1 /\ disk[slot] = Gone
    /\ rpc \in {"swapin", "putback", "own"} => rop # "rollback"
    /\ rpc = "own" => moved # <<>> \/ Slots = {}
    /\ rpc = "start" => Starts

\* The disks are where the renames took them: a slot not yet touched, or put
\* back, has the disk it had; one set aside has none until the restored one
\* is in; what this job set aside, and no cleanup took, is the disk there was.
SlotAsMoved(s) ==
    /\ 2 * s <= Len(moved) => disk[s] = "pit" /\ restored[Source][s] = Gone
    /\ 2 * s - 1 > Len(moved) => stuck \/ disk[s] = fenced.disks[s]
    /\ 2 * s - 1 = Len(moved) => stuck \/ disk[s] = Gone
    /\ \A a \in MyAside(s) : stuck \/ a[2] = fenced.disks[s]
DisksAsMoved ==
    /\ Preparing => \A s \in Slots : MyAside(s) = {}
    /\ rpc \in {"stop", "drop"} => disk = fenced.disks
    /\ Swapping => \A s \in Slots : SlotAsMoved(s)

\* A VM that was fenced stays off until its disks are of one point in time.
Whole == \E c \in Content : \A s \in Slots : disk[s] = c
AllRestored == \A s \in Slots : disk[s] = "pit"
WholeBeforeStart ==
    /\ rpc \in {"drop", "change", "swapin", "putback", "own"} => ~on
    /\ rpc \in {"stop", "drop", "unfence", "sync", "start"} /\ changed = "none" /\ fenced.was => Whole
    /\ rpc \in {"unfence", "sync", "start"} /\ changed = "ok" => AllRestored
    /\ rpc = "own" => AllRestored
    /\ rpc = "change" /\ rop = "rollback" => \A s \in Slots : s < slot => disk[s] = "pit"

ReplaceInv ==
    /\ ReplaceTypeOK /\ RenamesInOrder /\ StepsInOrder /\ DisksAsMoved
    /\ WholeBeforeStart /\ RunsWhole /\ PutBackIsComplete

HoldsOld(s) == disk[s] = "old" \/ \E a \in aside[s] : a[2] = "old"

\* The disk the VM had is destroyed by nothing but a rollback in place and a
\* cleanup of that slot: no restore, promotion, failure or death loses it.
OldIsKept ==
    [][\A s \in Slots : (HoldsOld(s) /\ ~HoldsOld(s)')
          => s \in cleaning \/ (rop = "rollback" /\ rpc = "change")]_replaceVars

=============================================================================
