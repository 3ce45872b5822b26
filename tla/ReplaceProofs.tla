--------------------------- MODULE ReplaceProofs ---------------------------
(***************************************************************************)
(* For any number of disks, targets, jobs and failures: a VM whose disks   *)
(* are brought back never runs on a mixture of two points in time, a swap  *)
(* that fails while it renames is put back, and the old disks are kept.    *)
(*                                                                         *)
(* ReplaceInv is inductive.  The swap is tied down by the list of renames: *)
(* they go slot by slot (RenamesInOrder), so its length says where every   *)
(* disk is (SlotAsMoved), while the list grows and while it is undone.  A  *)
(* cleanup may take a disk the job set aside; it cannot put another in its *)
(* place, and then the job is stuck.                                       *)
(***************************************************************************)
EXTENDS Replace, TLAPS

-----------------------------------------------------------------------------
(* Types, in parts that different steps touch.                             *)

NameType ==
    /\ rop \in {"none", "into", "rollback", "promote"} /\ rpc \in Pcs
    /\ changed \in {"none", "ok", "err"} /\ rrecord \in {"none", "open", "stands", "failed"}
    /\ ha \in {"unmanaged", "started", "stopped"} /\ twin \in {"absent", "off", "on"}
    /\ head \in {"later", "pit"}
CountType ==
    /\ slot \in Nat /\ (slot = 1 \/ slot - 1 \in Slots)
    /\ lease \in 0 .. MaxOps /\ ops \in 0 .. MaxOps /\ rtroubles \in 0 .. MaxTroubles
    /\ cleaning \subseteq Slots
FlagType == bad \in BOOLEAN /\ on \in BOOLEAN /\ listed \in BOOLEAN /\ stuck \in BOOLEAN
FenceType == fenced \in Fences /\ jobs \subseteq Targets /\ synced \subseteq jobs
DiskType ==
    /\ moved \in Seq(Slots \X {"aside", "in"})
    /\ disk \in Disks /\ origin \in [Slots -> Seq({"ours", "foreign"})]
    /\ aside \in [Slots -> SUBSET ((1 .. ops) \X Content)]
    /\ restored \in [Trees -> [Slots -> {"pit", Gone}]]

\* The type invariant is the conjunction of its parts.
LEMMA TypeParts ==
  ReplaceTypeOK <=> NameType /\ CountType /\ FlagType /\ FenceType /\ DiskType
  BY DEF ReplaceTypeOK, NameType, CountType, FlagType, FenceType, DiskType
\* ... also in the next state.
LEMMA TypePartsNext ==
  ReplaceTypeOK' <=> (NameType /\ CountType /\ FlagType /\ FenceType /\ DiskType)'
  BY TypeParts, PTL

\* Every step keeps the names.
LEMMA NameTypeKept ==
  ASSUME NameType, [ReplaceNext]_replaceVars
  PROVE  NameType'
<1> USE DEF replaceVars, procVars, vmVars, replVars, diskVars, catVars, Goto, Fails, Changes, NameType, Pcs
<1>1. CASE \/ UNCHANGED replaceVars \/ \E o \in {"into", "rollback", "promote"} : Begin(o)
           \/ Receive \/ StopTwin \/ Fence \/ StopVm \/ DropJob
  BY <1>1 DEF Begin, Receive, StopTwin, Fence, StopVm, DropJob
<1>2. CASE SetAside \/ SwapIn \/ PutBack \/ SwapDone \/ OwnHistory \/ ChangeDone \/ RollBackDisk
  BY <1>2 DEF SetAside, SwapIn, PutBack, SwapDone, OwnHistory, CopyClone, ChangeDone, RollBackDisk
<1>3. CASE CreateJobs \/ AwaitSync \/ StartVm \/ Release \/ Tidy \/ Finish
  BY <1>3 DEF CreateJobs, AwaitSync, StartVm, Release, Tidy, Finish
<1>4. CASE \/ \E t \in Targets : Sync(t)
           \/ Cleanup \/ \E s \in Slots : RemoveAside(s)
           \/ Dies \/ LeaseLapses
  BY <1>4 DEF Sync, Cleanup, RemoveAside, Dies, LeaseLapses
<1> QED
  BY <1>1, <1>2, <1>3, <1>4 DEF ReplaceNext

\* Every step keeps the counters within their bounds.
LEMMA CountTypeKept ==
  ASSUME CountType, StepsInOrder, [ReplaceNext]_replaceVars
  PROVE  CountType'
<1> USE ReplaceBounds
    DEF replaceVars, procVars, vmVars, replVars, diskVars, catVars, Trouble, Goto, Fails, Changes, CountType
<1>1. CASE \/ UNCHANGED replaceVars \/ \E o \in {"into", "rollback", "promote"} : Begin(o)
           \/ Receive \/ StopTwin \/ Fence \/ StopVm \/ DropJob
  BY <1>1 DEF Begin, Receive, StopTwin, Fence, StopVm, DropJob
<1>2. CASE SetAside \/ PutBack \/ SwapDone \/ ChangeDone
  BY <1>2 DEF SetAside, PutBack, SwapDone, ChangeDone
<1>3. CASE SwapIn
  BY <1>3, SMTT(30) DEF SwapIn, StepsInOrder
<1>4. CASE OwnHistory \/ RollBackDisk
  BY <1>4 DEF OwnHistory, CopyClone, RollBackDisk
<1>5. CASE CreateJobs \/ AwaitSync \/ StartVm \/ Release \/ Tidy \/ Finish
  BY <1>5 DEF CreateJobs, AwaitSync, StartVm, Release, Tidy, Finish
<1>6. CASE \/ \E t \in Targets : Sync(t)
           \/ Cleanup \/ \E s \in Slots : RemoveAside(s)
           \/ Dies \/ LeaseLapses
  BY <1>6 DEF Sync, Cleanup, Offered, RemoveAside, Dies, LeaseLapses
<1> QED
  BY <1>1, <1>2, <1>3, <1>4, <1>5, <1>6 DEF ReplaceNext

\* Every step keeps the flags.
LEMMA FlagTypeKept ==
  ASSUME FlagType, [ReplaceNext]_replaceVars
  PROVE  FlagType'
<1> USE DEF replaceVars, procVars, vmVars, replVars, diskVars, catVars, Trouble, Goto, Fails, Changes, FlagType
<1>1. CASE \/ UNCHANGED replaceVars \/ \E o \in {"into", "rollback", "promote"} : Begin(o)
           \/ Receive \/ StopTwin \/ Fence \/ StopVm \/ DropJob
  BY <1>1 DEF Begin, Receive, StopTwin, Fence, StopVm, DropJob
<1>2. CASE SetAside \/ SwapIn \/ PutBack \/ SwapDone \/ OwnHistory \/ ChangeDone \/ RollBackDisk
  BY <1>2 DEF SetAside, SwapIn, PutBack, SwapDone, OwnHistory, CopyClone, ChangeDone, RollBackDisk
<1>3. CASE CreateJobs \/ AwaitSync \/ StartVm \/ Release \/ Tidy \/ Finish
  BY <1>3 DEF CreateJobs, AwaitSync, StartVm, Release, Tidy, Finish
<1>4. CASE \/ \E t \in Targets : Sync(t)
           \/ Cleanup \/ \E s \in Slots : RemoveAside(s)
           \/ Dies \/ LeaseLapses
  BY <1>4 DEF Sync, Cleanup, RemoveAside, Dies, LeaseLapses
<1> QED
  BY <1>1, <1>2, <1>3, <1>4 DEF ReplaceNext

\* Every step keeps the record of the fence and the replication.
LEMMA FenceTypeKept ==
  ASSUME FenceType, FlagType, disk \in Disks, [ReplaceNext]_replaceVars
  PROVE  FenceType'
<1> USE DEF replaceVars, procVars, vmVars, replVars, diskVars, catVars, Trouble, Goto, Fails, Changes
<1>1. CASE UNCHANGED replaceVars
  BY <1>1 DEF FenceType
<1>2. ASSUME NEW o \in {"into", "rollback", "promote"}, Begin(o) PROVE FenceType'
  <2>1. NoFence \in Fences
    BY DEF NoFence, Fences, EveryDisk, Disks
  <2> QED
    BY <1>2, <2>1 DEF Begin, FenceType
<1>3. CASE Fence
  <2>1. [ha |-> ha # "unmanaged", jobs |-> jobs, was |-> on, disks |-> disk] \in Fences
    BY DEF Fences, FenceType, FlagType
  <2> QED
    BY <1>3, <2>1 DEF Fence, FenceType
<1>4. CASE CreateJobs
  BY <1>4 DEF CreateJobs, FenceType, Fences
<1>5. CASE \/ DropJob \/ \E t \in Targets : Sync(t)
  BY <1>5 DEF DropJob, Sync, FenceType
<1>6. CASE Receive \/ StopTwin \/ StopVm \/ SetAside \/ SwapIn \/ PutBack \/ SwapDone \/ OwnHistory
           \/ ChangeDone \/ RollBackDisk
  BY <1>6 DEF Receive, StopTwin, StopVm, SetAside, SwapIn, PutBack, SwapDone, OwnHistory, CopyClone,
              ChangeDone, RollBackDisk, FenceType
<1>7. CASE \/ AwaitSync \/ StartVm \/ Release \/ Tidy \/ Finish \/ Cleanup
           \/ \E s \in Slots : RemoveAside(s)
           \/ Dies \/ LeaseLapses
  BY <1>7 DEF AwaitSync, StartVm, Release, Tidy, Finish, Cleanup, RemoveAside, Dies, LeaseLapses, FenceType
<1> QED
  BY <1>1, <1>2, <1>3, <1>4, <1>5, <1>6, <1>7 DEF ReplaceNext

-----------------------------------------------------------------------------
(* The steps that change disks.                                            *)

\* The newest rename, and those before it.
LEMMA Popped ==
  ASSUME moved \in Seq(Slots \X {"aside", "in"}), RenamesInOrder, moved # <<>>
  PROVE  \E s \in Slots, leg \in {"aside", "in"}, rest \in Seq(Slots \X {"aside", "in"}) :
           /\ NextBack = <<<<s, leg>>, rest>>
           /\ Len(moved) = IF leg = "in" THEN 2 * s ELSE 2 * s - 1
           /\ Len(rest) = Len(moved) - 1 /\ \A i \in 1 .. Len(rest) : rest[i] = moved[i]
<1>1. PICK n \in Nat : n = Len(moved) /\ n > 0
  OBVIOUS
<1>2. moved[n] \in Slots \X {"aside", "in"}
  BY <1>1
<1>3. PICK s \in Slots, leg \in {"aside", "in"} : moved[n] = <<s, leg>>
  BY <1>2
<1>4. Len(moved) = IF leg = "in" THEN 2 * s ELSE 2 * s - 1
  BY <1>1, <1>3 DEF RenamesInOrder
<1>5. PICK rest : rest = SubSeq(moved, 1, n - 1)
  OBVIOUS
<1>6. /\ rest \in Seq(Slots \X {"aside", "in"}) /\ Len(rest) = n - 1
      /\ \A i \in 1 .. Len(rest) : rest[i] = moved[i]
  BY <1>1, <1>5
<1>7. NextBack = <<<<s, leg>>, rest>>
  BY <1>1, <1>3, <1>5 DEF NextBack, Last, Front
<1> QED
  BY <1>1, <1>4, <1>6, <1>7

\* A step of PutBack: the set-aside disk returns, the restored one does, or
\* the rename fails and the job is stuck.
AsideReturns(s) ==
    /\ Len(moved) = 2 * s - 1 /\ disk[s] = Gone
    /\ \E a \in MyAside(s) : disk' = [disk EXCEPT ![s] = a[2]] /\ aside' = [aside EXCEPT ![s] = @ \ {a}]
    /\ UNCHANGED <<restored, origin, stuck>>
RestoredReturns(s) ==
    /\ Len(moved) = 2 * s /\ disk[s] = "pit"
    /\ restored' = [restored EXCEPT ![Source][s] = "pit"] /\ disk' = [disk EXCEPT ![s] = Gone]
    /\ origin' = [origin EXCEPT ![s] = <<>>]
    /\ UNCHANGED <<aside, stuck>>
LEMMA PutBackSteps ==
  ASSUME ReplaceInv, PutBack, moved # <<>>
  PROVE  /\ moved' \in Seq(Slots \X {"aside", "in"}) /\ Len(moved') = Len(moved) - 1
         /\ \A i \in 1 .. Len(moved') : moved'[i] = moved[i]
         /\ UNCHANGED <<rop, rpc, slot, fenced, changed, on, ops>>
         /\ \/ \E s \in Slots : AsideReturns(s)
            \/ \E s \in Slots : RestoredReturns(s)
            \/ UNCHANGED <<disk, origin, aside, restored>> /\ stuck' = TRUE
<1> USE DEF ReplaceInv
<1>1. PICK s \in Slots, leg \in {"aside", "in"}, rest \in Seq(Slots \X {"aside", "in"}) :
           /\ NextBack = <<<<s, leg>>, rest>>
           /\ Len(moved) = IF leg = "in" THEN 2 * s ELSE 2 * s - 1
           /\ Len(rest) = Len(moved) - 1 /\ \A i \in 1 .. Len(rest) : rest[i] = moved[i]
  BY Popped DEF ReplaceTypeOK
<1>2. moved' = rest /\ UNCHANGED <<rop, rpc, slot, fenced, changed, on, ops>>
  BY <1>1 DEF PutBack, vmVars
<1>3. PICK m : m = <<s, leg>>
  OBVIOUS
<1>4. NextBack[1] = m /\ m[1] = s /\ m[2] = leg
  BY <1>1, <1>3
<1>5. Swapping /\ rpc = "putback"
  BY DEF PutBack, Swapping, StepsInOrder
<1>6. /\ leg = "in" => disk[s] = "pit" /\ restored[Source][s] = Gone
      /\ leg = "aside" => stuck \/ disk[s] = Gone
  BY <1>1, <1>5, DisksNumbered DEF DisksAsMoved, SlotAsMoved
<1>7. CASE CanReturn(m) /\ Return(m) /\ UNCHANGED stuck
  <2>1. CASE leg = "in"
    <3>1. restored' = [restored EXCEPT ![Source][s] = disk[s]] /\ disk' = [disk EXCEPT ![s] = Gone]
          /\ origin' = [origin EXCEPT ![s] = <<>>] /\ UNCHANGED aside
      BY <1>4, <1>7, <2>1 DEF Return
    <3> QED
      BY <1>1, <1>2, <1>6, <1>7, <2>1, <3>1 DEF RestoredReturns
  <2>2. CASE leg = "aside"
    <3>1. /\ \E a \in MyAside(s) :
               disk' = [disk EXCEPT ![s] = a[2]] /\ aside' = [aside EXCEPT ![s] = @ \ {a}]
          /\ UNCHANGED <<restored, origin>> /\ disk[s] = Gone
      BY <1>4, <1>7, <2>2 DEF Return, CanReturn
    <3> QED
      BY <1>1, <1>2, <1>7, <2>2, <3>1 DEF AsideReturns
  <2> QED
    BY <2>1, <2>2
<1>8. CASE stuck' = TRUE /\ UNCHANGED diskVars
  BY <1>1, <1>2, <1>8 DEF diskVars
<1>9. CASE ~CanReturn(m) /\ stuck' = (stuck \/ MyAside(m[1]) = {}) /\ UNCHANGED diskVars
  <2>1. CASE leg = "in"
    BY <1>4, <1>6, <1>9, <2>1 DEF CanReturn, Gone
  <2>2. CASE leg = "aside"
    <3>1. stuck \/ MyAside(s) = {}
      BY <1>4, <1>6, <1>9, <2>2 DEF CanReturn
    <3>2. stuck' = TRUE
      BY <1>4, <1>9, <3>1
    <3> QED
      BY <1>1, <1>2, <1>9, <3>2 DEF diskVars
  <2> QED
    BY <2>1, <2>2
<1> QED
  BY <1>4, <1>7, <1>8, <1>9 DEF PutBack

\* A step of SwapIn: the restored disk takes the place, or does not.
Arrives ==
    /\ restored[Source][slot] # Gone /\ disk' = [disk EXCEPT ![slot] = restored[Source][slot]]
    /\ restored' = [restored EXCEPT ![Source][slot] = Gone]
    /\ \E o \in Origins : origin' = [origin EXCEPT ![slot] = o]
    /\ moved' = Append(moved, <<slot, "in">>)
    /\ (rpc' = "change" /\ slot' = slot + 1) \/ (rpc' = "putback" /\ slot' = slot)
LEMMA SwapInSteps ==
  ASSUME SwapIn, StepsInOrder
  PROVE  /\ rpc = "swapin" /\ slot \in Slots /\ Source \in Trees
         /\ Len(moved) = 2 * slot - 1 /\ disk[slot] = Gone /\ rop # "rollback" /\ ops > 0
         /\ UNCHANGED <<rop, fenced, changed, aside, on, ops, stuck>>
         /\ \/ Arrives
            \/ rpc' = "putback" /\ UNCHANGED <<slot, disk, origin, restored, moved>>
<1>1. rpc = "swapin" /\ UNCHANGED <<rop, fenced, changed, aside, on, ops, stuck>>
  BY DEF SwapIn, vmVars, Fails
<1>2. /\ slot \in Slots /\ Source \in Trees
      /\ Len(moved) = 2 * slot - 1 /\ disk[slot] = Gone /\ rop # "rollback" /\ ops > 0
  BY <1>1 DEF StepsInOrder, Source, Trees
<1>3. Arrives \/ (rpc' = "putback" /\ UNCHANGED <<slot, disk, origin, restored, moved>>)
  BY DEF SwapIn, Fails, Arrives
<1> QED
  BY <1>1, <1>2, <1>3

\* A step of SetAside: the disk leaves its place, or does not.
Leaves ==
    /\ disk[slot] # Gone /\ rpc' = "swapin"
    /\ aside' = [aside EXCEPT ![slot] = Kept(slot)] /\ disk' = [disk EXCEPT ![slot] = Gone]
    /\ moved' = Append(moved, <<slot, "aside">>)
LEMMA SetAsideSteps ==
  ASSUME SetAside, StepsInOrder
  PROVE  /\ rpc = "change" /\ slot \in Slots /\ rop # "rollback" /\ Len(moved) = 2 * slot - 2 /\ ops > 0
         /\ UNCHANGED <<rop, slot, fenced, changed, origin, restored, on, ops, stuck>>
         /\ Leaves \/ (rpc' = "putback" /\ UNCHANGED <<disk, aside, moved>>)
  BY DEF SetAside, StepsInOrder, Leaves, Fails, vmVars

\* Every other step leaves the disks where they are.
DisksStill == UNCHANGED <<disk, origin, aside, restored, moved, ops, stuck, rop>>
LEMMA DiskSteps ==
  ASSUME [ReplaceNext]_replaceVars
  PROVE  \/ DisksStill \/ \E o \in {"into", "rollback", "promote"} : Begin(o)
         \/ Receive \/ SetAside \/ SwapIn \/ PutBack \/ OwnHistory \/ RollBackDisk \/ Tidy
         \/ \E s \in Slots : RemoveAside(s)
<1> USE DEF replaceVars, procVars, vmVars, replVars, diskVars, catVars, Goto, Fails, Changes, DisksStill
<1>1. CASE UNCHANGED replaceVars
  BY <1>1
<1>2. CASE StopTwin \/ Fence \/ StopVm \/ DropJob \/ SwapDone \/ ChangeDone
  BY <1>2 DEF StopTwin, Fence, StopVm, DropJob, SwapDone, ChangeDone
<1>3. CASE CreateJobs \/ AwaitSync \/ StartVm \/ Release \/ Finish
  BY <1>3 DEF CreateJobs, AwaitSync, StartVm, Release, Finish
<1>4. CASE \/ \E t \in Targets : Sync(t)
           \/ Cleanup \/ Dies \/ LeaseLapses
  BY <1>4 DEF Sync, Cleanup, Dies, LeaseLapses
<1> QED
  BY <1>1, <1>2, <1>3, <1>4 DEF ReplaceNext

\* Every step keeps the disks typed: no rename brings in what is no disk.
LEMMA DiskTypeKept ==
  ASSUME ReplaceInv, [ReplaceNext]_replaceVars
  PROVE  DiskType'
<1> USE DEF procVars, vmVars, replVars, diskVars, catVars, Goto, Fails, Changes
<1>0. NameType /\ CountType /\ DiskType /\ StepsInOrder
  BY TypeParts DEF ReplaceInv
<1>1. CASE DisksStill
  BY <1>0, <1>1 DEF DisksStill, DiskType
<1>2. ASSUME NEW o \in {"into", "rollback", "promote"}, Begin(o) PROVE DiskType'
  <2>1. UNCHANGED <<disk, origin, restored, aside>> /\ moved' = <<>> /\ ops' = ops + 1
    BY <1>2 DEF Begin
  <2>2. aside' \in [Slots -> SUBSET ((1 .. ops') \X Content)]
    <3>1. (1 .. ops) \X Content \subseteq (1 .. ops') \X Content
      BY <1>0, <2>1 DEF CountType
    <3> QED
      BY <1>0, <2>1, <3>1 DEF DiskType
  <2>3. moved' \in Seq(Slots \X {"aside", "in"})
    BY <2>1
  <2> QED
    BY <1>0, <2>1, <2>2, <2>3 DEF DiskType
<1>3. CASE Receive \/ Tidy
  <2>1. UNCHANGED <<disk, origin, aside, moved, ops>>
    BY <1>3 DEF Receive, Tidy
  <2>2. \/ restored' = restored
        \/ \E c \in {"pit", Gone} : restored' = [restored EXCEPT !["staging"] = EveryDisk(c)]
    BY <1>3 DEF Receive, Tidy
  <2>3. \A c \in {"pit", Gone} : EveryDisk(c) \in [Slots -> {"pit", Gone}]
    BY DEF EveryDisk
  <2>4. restored' \in [Trees -> [Slots -> {"pit", Gone}]]
    BY <1>0, <2>2, <2>3 DEF DiskType
  <2> QED
    BY <1>0, <2>1, <2>4 DEF DiskType
<1>4. CASE SetAside
  <2>1. CASE UNCHANGED <<disk, origin, aside, restored, moved, ops>>
    BY <1>0, <2>1 DEF DiskType
  <2>2. CASE /\ disk[slot] # Gone /\ slot \in Slots /\ UNCHANGED <<origin, restored, ops>>
             /\ aside' = [aside EXCEPT ![slot] = Kept(slot)] /\ disk' = [disk EXCEPT ![slot] = Gone]
             /\ moved' = Append(moved, <<slot, "aside">>) /\ rpc # "idle"
    <3>1. Kept(slot) \in SUBSET ((1 .. ops) \X Content)
      <4>1. disk[slot] \in Content
        BY <1>0, <2>2 DEF DiskType, Disks
      <4>2. ops \in 1 .. ops
        BY <1>0, <2>2 DEF StepsInOrder, CountType
      <4> QED
        BY <1>0, <2>2, <4>1, <4>2 DEF DiskType, Kept
    <3>2. aside' \in [Slots -> SUBSET ((1 .. ops') \X Content)]
      BY <1>0, <2>2, <3>1 DEF DiskType
    <3>3. disk' \in Disks
      BY <1>0, <2>2 DEF DiskType, Disks
    <3>4. moved' \in Seq(Slots \X {"aside", "in"})
      BY <1>0, <2>2 DEF DiskType
    <3> QED
      BY <1>0, <2>2, <3>2, <3>3, <3>4 DEF DiskType
  <2> QED
    BY <1>4, <2>1, <2>2 DEF SetAside
<1>5. CASE SwapIn
  <2>1. CASE UNCHANGED <<disk, origin, aside, restored, moved, ops>>
    BY <1>0, <2>1 DEF DiskType
  <2>2. CASE Arrives
    <3>1. slot \in Slots /\ Source \in Trees /\ UNCHANGED <<aside, ops>>
      BY <1>0, <1>5, SwapInSteps
    <3>2. restored[Source][slot] \in {"pit", Gone}
      BY <1>0, <3>1 DEF DiskType
    <3>3. disk' \in Disks
      BY <1>0, <2>2, <3>1, <3>2 DEF DiskType, Disks, Content, Arrives
    <3>4. restored' \in [Trees -> [Slots -> {"pit", Gone}]]
      BY <1>0, <2>2, <3>1 DEF DiskType, Arrives
    <3>5. origin' \in [Slots -> Seq({"ours", "foreign"})]
      BY <1>0, <2>2, <3>1, CloneChains DEF DiskType, Arrives
    <3>6. moved' \in Seq(Slots \X {"aside", "in"})
      BY <1>0, <2>2, <3>1 DEF DiskType, Arrives
    <3> QED
      BY <1>0, <3>1, <3>3, <3>4, <3>5, <3>6 DEF DiskType
  <2> QED
    BY <1>0, <1>5, <2>1, <2>2, SwapInSteps
<1>6. CASE PutBack
  <2>1. CASE moved = <<>>
    BY <1>0, <1>6, <2>1 DEF PutBack, DiskType
  <2>2. CASE moved # <<>>
    <3>1. /\ moved' \in Seq(Slots \X {"aside", "in"}) /\ UNCHANGED ops
          /\ \/ \E s \in Slots : AsideReturns(s)
             \/ \E s \in Slots : RestoredReturns(s)
             \/ UNCHANGED <<disk, origin, aside, restored>>
      BY <1>6, <2>2, PutBackSteps
    <3>2. ASSUME NEW s \in Slots, AsideReturns(s) PROVE DiskType'
      <4>1. PICK a \in aside[s] :
                disk' = [disk EXCEPT ![s] = a[2]] /\ aside' = [aside EXCEPT ![s] = @ \ {a}]
        BY <3>2 DEF AsideReturns, MyAside
      <4>2. a[2] \in Content
        BY <1>0 DEF DiskType
      <4>3. disk' \in Disks
        BY <1>0, <4>1, <4>2 DEF DiskType, Disks
      <4>4. aside' \in [Slots -> SUBSET ((1 .. ops') \X Content)]
        BY <1>0, <3>1, <4>1 DEF DiskType
      <4> QED
        BY <1>0, <3>1, <3>2, <4>3, <4>4 DEF DiskType, AsideReturns
    <3>3. ASSUME NEW s \in Slots, RestoredReturns(s) PROVE DiskType'
      <4>1. Source \in Trees
        BY DEF Source, Trees
      <4>2. restored' \in [Trees -> [Slots -> {"pit", Gone}]]
        BY <1>0, <3>3, <4>1 DEF DiskType, RestoredReturns
      <4>3. disk' \in Disks
        BY <1>0, <3>3 DEF DiskType, Disks, RestoredReturns
      <4>4. origin' \in [Slots -> Seq({"ours", "foreign"})]
        BY <1>0, <3>3 DEF DiskType, RestoredReturns
      <4> QED
        BY <1>0, <3>1, <3>3, <4>2, <4>3, <4>4 DEF DiskType, RestoredReturns
    <3>4. CASE UNCHANGED <<disk, origin, aside, restored>>
      BY <1>0, <3>1, <3>4 DEF DiskType
    <3> QED
      BY <3>1, <3>2, <3>3, <3>4
  <2> QED
    BY <2>1, <2>2
<1>7. CASE OwnHistory
  <2>1. UNCHANGED <<aside, restored, moved, ops>> /\ slot \in Slots
    BY <1>7 DEF OwnHistory, CopyClone
  <2>2. disk' = disk \/ disk' = [disk EXCEPT ![slot] = Gone]
    BY <1>7 DEF OwnHistory, CopyClone
  <2>3. \/ origin' = origin \/ origin' = [origin EXCEPT ![slot] = <<>>]
        \/ origin[slot] # <<>> /\ origin' = [origin EXCEPT ![slot] = Tail(@)]
    BY <1>7 DEF OwnHistory, CopyClone
  <2>4. disk' \in Disks
    BY <1>0, <2>1, <2>2 DEF DiskType, Disks
  <2>5. origin' \in [Slots -> Seq({"ours", "foreign"})]
    <3>1. origin[slot] \in Seq({"ours", "foreign"})
      BY <1>0, <2>1 DEF DiskType
    <3>2. origin[slot] # <<>> => Tail(origin[slot]) \in Seq({"ours", "foreign"})
      BY <3>1
    <3>3. PICK o \in Seq({"ours", "foreign"}) : origin' = origin \/ origin' = [origin EXCEPT ![slot] = o]
      <4>1. <<>> \in Seq({"ours", "foreign"})
        OBVIOUS
      <4>2. CASE origin' = origin \/ origin' = [origin EXCEPT ![slot] = <<>>]
        BY <4>1, <4>2
      <4>3. CASE origin[slot] # <<>> /\ origin' = [origin EXCEPT ![slot] = Tail(@)]
        BY <3>2, <4>3
      <4> QED
        BY <2>3, <4>2, <4>3
    <3> QED
      BY <1>0, <3>3 DEF DiskType
  <2> QED
    BY <1>0, <2>1, <2>4, <2>5 DEF DiskType
<1>8. CASE RollBackDisk
  <2>1. disk' \in Disks
    BY <1>0, <1>8 DEF RollBackDisk, DiskType, Disks, Content
  <2> QED
    BY <1>0, <1>8, <2>1 DEF RollBackDisk, DiskType
<1>9. ASSUME NEW s \in Slots, RemoveAside(s) PROVE DiskType'
  <2>1. UNCHANGED <<disk, restored, moved, ops>>
    BY <1>9 DEF RemoveAside
  <2>2. /\ aside' = aside \/ \E a : aside' = [aside EXCEPT ![s] = @ \ {a}]
        /\ \/ origin' = origin
           \/ origin' = [origin EXCEPT ![s] = IF @ # <<>> /\ Head(@) = "ours" THEN Tail(@) ELSE @]
    BY <1>9 DEF RemoveAside
  <2>3. aside' \in [Slots -> SUBSET ((1 .. ops') \X Content)]
    BY <1>0, <2>1, <2>2, ZenonT(30) DEF DiskType
  <2>4. origin' \in [Slots -> Seq({"ours", "foreign"})]
    <3>1. origin[s] \in Seq({"ours", "foreign"})
      BY <1>0 DEF DiskType
    <3>2. origin[s] # <<>> => Tail(origin[s]) \in Seq({"ours", "foreign"})
      BY <3>1
    <3>3. PICK o \in Seq({"ours", "foreign"}) : origin' = origin \/ origin' = [origin EXCEPT ![s] = o]
      BY <2>2, <3>1, <3>2
    <3> QED
      BY <1>0, <3>3 DEF DiskType
  <2> QED
    BY <1>0, <2>1, <2>3, <2>4 DEF DiskType
<1> QED
  BY <1>1, <1>2, <1>3, <1>4, <1>5, <1>6, <1>7, <1>8, <1>9, DiskSteps

-----------------------------------------------------------------------------
(* The order of the steps.                                                 *)

\* Renames are added and undone at the end of the list.
LEMMA RenamesInOrderKept ==
  ASSUME ReplaceInv, [ReplaceNext]_replaceVars
  PROVE  RenamesInOrder'
<1> USE DEF procVars, vmVars, replVars, diskVars, catVars, Goto, Fails, Changes
<1>0. DiskType /\ CountType /\ RenamesInOrder /\ StepsInOrder
  BY TypeParts DEF ReplaceInv
<1>1. CASE UNCHANGED moved
  BY <1>0, <1>1 DEF RenamesInOrder
<1>2. CASE moved' = <<>>
  BY <1>2 DEF RenamesInOrder
<1>3. ASSUME NEW s \in Slots, NEW leg \in {"aside", "in"}, moved' = Append(moved, <<s, leg>>),
             Len(moved) + 1 = IF leg = "in" THEN 2 * s ELSE 2 * s - 1
      PROVE  RenamesInOrder'
  <2>1. moved \in Seq(Slots \X {"aside", "in"})
    BY <1>0 DEF DiskType
  <2>2. /\ Len(moved') = Len(moved) + 1 /\ moved'[Len(moved) + 1] = <<s, leg>>
        /\ \A i \in 1 .. Len(moved) : moved'[i] = moved[i]
    BY <1>3, <2>1
  <2> QED
    BY <1>0, <1>3, <2>1, <2>2 DEF RenamesInOrder
<1>4. CASE SetAside
  BY <1>0, <1>1, <1>3, <1>4, DisksNumbered DEF SetAside, StepsInOrder, DiskType
<1>5. CASE SwapIn
  <2>1. moved' = moved \/ moved' = Append(moved, <<slot, "in">>)
    BY <1>0, <1>5, SwapInSteps DEF Arrives
  <2>2. slot \in Slots /\ Len(moved) + 1 = 2 * slot
    <3>1. slot \in Slots /\ Len(moved) = 2 * slot - 1
      BY <1>0, <1>5, SwapInSteps
    <3> QED
      BY <3>1, DisksNumbered
  <2> QED
    BY <1>1, <1>3, <2>1, <2>2
<1>6. CASE PutBack /\ moved # <<>>
  BY <1>0, <1>6, PutBackSteps DEF RenamesInOrder, DiskType
<1>7. CASE PutBack /\ moved = <<>>
  BY <1>1, <1>7 DEF PutBack
<1>8. CASE \E o \in {"into", "rollback", "promote"} : Begin(o)
  BY <1>2, <1>8 DEF Begin
<1>9. CASE \/ DisksStill \/ Receive \/ OwnHistory \/ RollBackDisk \/ Tidy
           \/ \E s \in Slots : RemoveAside(s)
  BY <1>1, <1>9 DEF DisksStill, Receive, OwnHistory, CopyClone, RollBackDisk, Tidy, RemoveAside
<1> QED
  BY <1>4, <1>5, <1>6, <1>7, <1>8, <1>9, DiskSteps

\* Every step goes where the ones after it expect it.
LEMMA StepsInOrderKept ==
  ASSUME ReplaceInv, [ReplaceNext]_replaceVars
  PROVE  StepsInOrder'
<1> USE DEF replaceVars, procVars, vmVars, replVars, diskVars, catVars, Goto, Fails, Changes
<1>0. DiskType /\ CountType /\ NameType /\ StepsInOrder
  BY TypeParts DEF ReplaceInv
<1>1. CASE \/ UNCHANGED replaceVars \/ \E o \in {"into", "rollback", "promote"} : Begin(o)
           \/ Receive \/ StopTwin \/ Fence \/ StopVm \/ DropJob
  BY <1>0, <1>1 DEF Begin, Receive, StopTwin, Fence, StopVm, DropJob, StepsInOrder, Preparing, Starts, CountType
<1>2. CASE SetAside
  BY <1>0, <1>2, SMTT(30) DEF SetAside, StepsInOrder, Preparing, Starts, CountType, DiskType, Disks
<1>3. CASE SwapIn
  <2>1. CASE rpc' = "putback"
    BY <1>0, <1>3, <2>1, SwapInSteps DEF StepsInOrder, Preparing, Starts
  <2>2. CASE Arrives /\ rpc' = "change" /\ slot' = slot + 1
    <3>1. Len(moved') = Len(moved) + 1
      BY <1>0, <2>2 DEF Arrives, DiskType
    <3>2. Len(moved') = 2 * slot' - 2
      <4>1. slot \in Slots /\ Len(moved) = 2 * slot - 1
        BY <1>0, <1>3, SwapInSteps
      <4> QED
        BY <2>2, <3>1, <4>1, DisksNumbered
    <3> QED
      BY <1>0, <1>3, <2>2, <3>2, SwapInSteps DEF StepsInOrder, Preparing, Starts
  <2> QED
    BY <1>0, <1>3, <2>1, <2>2, SwapInSteps DEF Arrives
<1>4. CASE PutBack
  BY <1>0, <1>4 DEF PutBack, StepsInOrder, Preparing, Starts, CountType
<1>5. CASE SwapDone
  BY <1>0, <1>5, DisksNumbered DEF SwapDone, StepsInOrder, Preparing, Starts, CountType, DiskType
<1>6. CASE OwnHistory \/ RollBackDisk \/ ChangeDone
  BY <1>0, <1>6 DEF OwnHistory, CopyClone, RollBackDisk, ChangeDone, StepsInOrder, Preparing, Starts, CountType
<1>7. CASE CreateJobs \/ AwaitSync \/ StartVm \/ Release \/ Tidy \/ Finish
  BY <1>0, <1>7 DEF CreateJobs, AwaitSync, StartVm, Release, Tidy, Finish, StepsInOrder, Preparing, Starts
<1>8. CASE \/ \E t \in Targets : Sync(t)
           \/ Cleanup \/ \E s \in Slots : RemoveAside(s)
           \/ Dies \/ LeaseLapses
  BY <1>0, <1>8 DEF Sync, Cleanup, RemoveAside, Dies, LeaseLapses, StepsInOrder, Preparing, Starts
<1> QED
  BY <1>1, <1>2, <1>3, <1>4, <1>5, <1>6, <1>7, <1>8 DEF ReplaceNext

-----------------------------------------------------------------------------
(* The disks are where the renames took them.                              *)

\* The steps that end within a swap.
LEMMA SwapSteps ==
  ASSUME [ReplaceNext]_replaceVars, Swapping'
  PROVE  \/ Swapping /\ UNCHANGED <<disk, aside, restored, moved, ops, stuck, rop, fenced>>
         \/ DropJob \/ SetAside \/ SwapIn \/ (PutBack /\ moved # <<>>)
         \/ Swapping /\ \E s \in Slots : RemoveAside(s)
<1> USE DEF replaceVars, procVars, vmVars, replVars, diskVars, catVars, Goto, Fails, Changes, Swapping
<1>1. CASE \/ UNCHANGED replaceVars \/ \E o \in {"into", "rollback", "promote"} : Begin(o)
           \/ Receive \/ StopTwin \/ Fence \/ StopVm
  BY <1>1 DEF Begin, Receive, StopTwin, Fence, StopVm
<1>2. CASE PutBack /\ moved = <<>>
  BY <1>2 DEF PutBack
<1>3. CASE SwapDone \/ OwnHistory \/ ChangeDone \/ RollBackDisk
  BY <1>3 DEF SwapDone, OwnHistory, CopyClone, ChangeDone, RollBackDisk
<1>4. CASE CreateJobs \/ AwaitSync \/ StartVm \/ Release \/ Tidy \/ Finish
  BY <1>4 DEF CreateJobs, AwaitSync, StartVm, Release, Tidy, Finish
<1>5. CASE \/ \E t \in Targets : Sync(t)
           \/ Cleanup \/ Dies \/ LeaseLapses
  BY <1>5 DEF Sync, Cleanup, Dies, LeaseLapses
<1>6. CASE \E s \in Slots : RemoveAside(s)
  BY <1>6 DEF RemoveAside
<1> QED
  BY <1>1, <1>2, <1>3, <1>4, <1>5, <1>6 DEF ReplaceNext

\* Within a swap, every slot is as the renames say.
LEMMA SlotsAsMovedKept ==
  ASSUME ReplaceInv, [ReplaceNext]_replaceVars, Swapping', NEW s \in Slots
  PROVE  SlotAsMoved(s)'
<1>0. /\ DiskType /\ CountType /\ NameType /\ FlagType /\ FenceType /\ StepsInOrder /\ DisksAsMoved
      /\ s \in Nat /\ s > 0 /\ Len(moved) \in Nat
  BY TypeParts, DisksNumbered DEF ReplaceInv, ReplaceTypeOK
<1>1. CASE Swapping /\ UNCHANGED <<disk, aside, restored, moved, ops, stuck, rop, fenced>>
  <2>1. SlotAsMoved(s)
    BY <1>0, <1>1 DEF DisksAsMoved
  <2> QED
    BY <1>1, <2>1 DEF SlotAsMoved, MyAside, Source
<1>2. CASE DropJob
  <2>1. rpc = "drop" /\ UNCHANGED <<disk, aside, restored, moved, ops, stuck, rop, fenced>>
    BY <1>2, DiskSteps DEF DropJob, diskVars, procVars, Goto, Fails
  <2>2. moved = <<>> /\ MyAside(s) = {} /\ disk = fenced.disks
    BY <1>0, <2>1 DEF StepsInOrder, Preparing, DisksAsMoved
  <2>3. Len(moved') = 0
    BY <2>1, <2>2
  <2> QED
    BY <1>0, <2>1, <2>2, <2>3 DEF SlotAsMoved, MyAside
<1>3. CASE SetAside
  <2>1. /\ slot \in Slots /\ slot \in Nat /\ Len(moved) = 2 * slot - 2 /\ SlotAsMoved(s) /\ SlotAsMoved(slot)
        /\ UNCHANGED <<rop, fenced, restored, ops, stuck>>
    BY <1>0, <1>3, SetAsideSteps, DisksNumbered DEF DisksAsMoved, Swapping
  <2>2. CASE UNCHANGED <<disk, aside, moved>>
    BY <2>1, <2>2 DEF SlotAsMoved, MyAside, Source
  <2>3. CASE Leaves
    <3>1. Len(moved') = 2 * slot - 1
      BY <1>0, <2>1, <2>3 DEF Leaves, DiskType
    <3>2. s # slot => disk'[s] = disk[s] /\ aside'[s] = aside[s]
      BY <1>0, <2>1, <2>3 DEF Leaves, DiskType, Disks
    <3>3. disk'[slot] = Gone /\ aside'[slot] = aside[slot] \cup {<<ops, disk[slot]>>}
      BY <1>0, <2>1, <2>3 DEF Leaves, DiskType, Disks, Kept
    <3>4. CASE s # slot
      BY <1>0, <2>1, <3>1, <3>2, <3>4 DEF SlotAsMoved, MyAside, Source
    <3>5. CASE s = slot
      <4>1. stuck \/ disk[slot] = fenced.disks[slot]
        BY <1>0, <2>1 DEF SlotAsMoved
      <4>2. \A a \in MyAside(s)' : a \in MyAside(s) \/ a[2] = disk[s]
        BY <2>1, <3>3, <3>5 DEF MyAside
      <4>3. \A a \in MyAside(s)' : stuck \/ a[2] = fenced.disks[s]
        BY <2>1, <3>5, <4>1, <4>2 DEF SlotAsMoved
      <4> QED
        BY <1>0, <2>1, <3>1, <3>3, <3>5, <4>3 DEF SlotAsMoved
    <3> QED
      BY <3>4, <3>5
  <2> QED
    BY <1>0, <1>3, <2>2, <2>3, SetAsideSteps
<1>4. CASE SwapIn
  <2>1. /\ slot \in Slots /\ slot \in Nat /\ Source \in Trees /\ Len(moved) = 2 * slot - 1 /\ SlotAsMoved(s)
        /\ UNCHANGED <<rop, fenced, aside, ops, stuck>>
    BY <1>0, <1>4, SwapInSteps, DisksNumbered DEF DisksAsMoved, Swapping
  <2>2. CASE UNCHANGED <<disk, restored, moved>>
    BY <2>1, <2>2 DEF SlotAsMoved, MyAside, Source
  <2>3. CASE Arrives
    <3>1. Len(moved') = 2 * slot
      BY <1>0, <2>1, <2>3 DEF Arrives, DiskType
    <3>2. Source' = Source
      BY <2>1 DEF Source
    <3>3. s # slot => disk'[s] = disk[s] /\ restored'[Source][s] = restored[Source][s]
      BY <1>0, <2>1, <2>3 DEF Arrives, DiskType, Disks
    <3>4. disk'[slot] = "pit" /\ restored'[Source][slot] = Gone
      BY <1>0, <2>1, <2>3 DEF Arrives, DiskType, Disks
    <3>5. CASE s # slot
      BY <1>0, <2>1, <3>1, <3>2, <3>3, <3>5 DEF SlotAsMoved, MyAside
    <3>6. CASE s = slot
      BY <1>0, <2>1, <3>1, <3>2, <3>4, <3>6 DEF SlotAsMoved, MyAside
    <3> QED
      BY <3>5, <3>6
  <2> QED
    BY <1>0, <1>4, <2>2, <2>3, SwapInSteps
<1>5. CASE PutBack /\ moved # <<>>
  <2>1. SlotAsMoved(s) /\ Source' = Source /\ UNCHANGED <<fenced, ops>> /\ Len(moved') = Len(moved) - 1
    BY <1>0, <1>5, PutBackSteps DEF DisksAsMoved, PutBack, Swapping, StepsInOrder, Source
  <2>2. ASSUME NEW t \in Slots, AsideReturns(t) PROVE SlotAsMoved(s)'
    <3>1. PICK a \in MyAside(t) : disk' = [disk EXCEPT ![t] = a[2]] /\ aside' = [aside EXCEPT ![t] = @ \ {a}]
      BY <2>2 DEF AsideReturns
    <3>2. Len(moved) = 2 * t - 1 /\ t \in Nat /\ UNCHANGED <<restored, stuck>>
      BY <2>2, DisksNumbered DEF AsideReturns
    <3>3. s # t => disk'[s] = disk[s] /\ aside'[s] = aside[s]
      BY <1>0, <3>1 DEF DiskType, Disks
    <3>4. disk'[t] = a[2] /\ aside'[t] \subseteq aside[t]
      BY <1>0, <3>1 DEF DiskType, Disks
    <3>5. CASE s # t
      BY <1>0, <2>1, <3>2, <3>3, <3>5 DEF SlotAsMoved, MyAside
    <3>6. CASE s = t
      <4>1. stuck \/ a[2] = fenced.disks[s]
        BY <2>1, <3>1, <3>6 DEF SlotAsMoved
      <4>2. MyAside(s)' \subseteq MyAside(s)
        BY <2>1, <3>4, <3>6 DEF MyAside
      <4> QED
        BY <1>0, <2>1, <3>2, <3>4, <3>6, <4>1, <4>2 DEF SlotAsMoved
    <3> QED
      BY <3>5, <3>6
  <2>3. ASSUME NEW t \in Slots, RestoredReturns(t) PROVE SlotAsMoved(s)'
    <3>1. Len(moved) = 2 * t /\ t \in Nat /\ UNCHANGED <<aside, stuck>>
      BY <2>3, DisksNumbered DEF RestoredReturns
    <3>2. s # t => disk'[s] = disk[s] /\ restored'[Source][s] = restored[Source][s]
      BY <1>0, <2>3 DEF DiskType, Disks, RestoredReturns, Source, Trees
    <3>3. disk'[t] = Gone
      BY <1>0, <2>3 DEF DiskType, Disks, RestoredReturns
    <3>4. CASE s # t
      BY <1>0, <2>1, <3>1, <3>2, <3>4 DEF SlotAsMoved, MyAside
    <3>5. CASE s = t
      BY <1>0, <2>1, <3>1, <3>3, <3>5 DEF SlotAsMoved, MyAside
    <3> QED
      BY <3>4, <3>5
  <2>4. CASE UNCHANGED <<disk, origin, aside, restored>> /\ stuck' = TRUE
    BY <1>0, <2>1, <2>4 DEF SlotAsMoved
  <2> QED
    BY <1>5, <2>2, <2>3, <2>4, PutBackSteps
<1>6. ASSUME Swapping, NEW t \in Slots, RemoveAside(t) PROVE SlotAsMoved(s)'
  <2>1. SlotAsMoved(s)
    BY <1>0, <1>6 DEF DisksAsMoved
  <2>2. UNCHANGED <<disk, restored, moved, ops, stuck, rop, fenced>>
    BY <1>6 DEF RemoveAside, procVars
  <2>3. aside' = aside \/ \E a : aside' = [aside EXCEPT ![t] = @ \ {a}]
    BY <1>6 DEF RemoveAside
  <2>4. aside'[s] \subseteq aside[s]
    BY <1>0, <2>3 DEF DiskType
  <2> QED
    BY <2>1, <2>2, <2>4 DEF SlotAsMoved, MyAside, Source
<1> QED
  BY <1>1, <1>2, <1>3, <1>4, <1>5, <1>6, SwapSteps

\* The disks are as the renames say, and untouched before the swap.
LEMMA DisksAsMovedKept ==
  ASSUME ReplaceInv, [ReplaceNext]_replaceVars
  PROVE  DisksAsMoved'
<1> USE DEF replaceVars, procVars, vmVars, replVars, diskVars, catVars, Goto, Fails, Changes
<1>0. DiskType /\ CountType /\ NameType /\ StepsInOrder /\ DisksAsMoved
  BY TypeParts DEF ReplaceInv
<1>1. (Swapping => \A s \in Slots : SlotAsMoved(s))'
  BY SlotsAsMovedKept
<1>2. ASSUME Preparing', NEW s \in Slots PROVE (MyAside(s) = {})'
  <2>1. ASSUME NEW o \in {"into", "rollback", "promote"}, Begin(o) PROVE (MyAside(s) = {})'
    <3>1. aside' = aside /\ ops' = ops + 1
      BY <2>1 DEF Begin
    <3>2. \A a \in aside[s] : a[1] \in 1 .. ops
      BY <1>0 DEF DiskType
    <3> QED
      BY <1>0, <3>1, <3>2 DEF MyAside, CountType
  <2>2. CASE Preparing /\ UNCHANGED <<aside, ops>>
    BY <1>0, <2>2 DEF MyAside, DisksAsMoved
  <2>3. ASSUME Preparing, NEW t \in Slots, RemoveAside(t) PROVE (MyAside(s) = {})'
    <3>1. MyAside(s) = {} /\ ops' = ops
      BY <1>0, <2>3 DEF DisksAsMoved, RemoveAside
    <3>2. aside' = aside \/ \E a : aside' = [aside EXCEPT ![t] = @ \ {a}]
      BY <2>3 DEF RemoveAside
    <3>3. aside'[s] \subseteq aside[s]
      BY <1>0, <3>2 DEF DiskType
    <3> QED
      BY <3>1, <3>3 DEF MyAside
  <2>4. CASE UNCHANGED replaceVars \/ Receive \/ StopTwin \/ Fence \/ StopVm \/ DropJob
    BY <1>2, <2>2, <2>4 DEF Receive, StopTwin, Fence, StopVm, DropJob, Preparing
  <2>5. CASE SetAside \/ SwapIn \/ PutBack \/ SwapDone \/ OwnHistory \/ ChangeDone \/ RollBackDisk
    BY <1>2, <2>5 DEF SetAside, SwapIn, PutBack, SwapDone, OwnHistory, CopyClone, ChangeDone, RollBackDisk, Preparing
  <2>6. CASE CreateJobs \/ AwaitSync \/ StartVm \/ Release \/ Tidy \/ Finish
    BY <1>2, <2>6 DEF CreateJobs, AwaitSync, StartVm, Release, Tidy, Finish, Preparing
  <2>7. CASE \/ \E t \in Targets : Sync(t)
             \/ Cleanup \/ Dies \/ LeaseLapses
    BY <1>2, <2>2, <2>7 DEF Sync, Cleanup, Dies, LeaseLapses, Preparing
  <2>8. ASSUME NEW t \in Slots, RemoveAside(t) PROVE Preparing
    BY <1>2, <2>8 DEF RemoveAside, Preparing
  <2> QED
    BY <2>1, <2>3, <2>4, <2>5, <2>6, <2>7, <2>8 DEF ReplaceNext
<1>3. ASSUME rpc' \in {"stop", "drop"} PROVE (disk = fenced.disks)'
  <2>1. CASE Fence
    BY <1>3, <2>1 DEF Fence
  <2>2. CASE UNCHANGED <<rpc, disk, fenced>> \/ StopVm \/ DropJob
    BY <1>0, <1>3, <2>2 DEF StopVm, DropJob, DisksAsMoved
  <2>3. CASE \/ \E o \in {"into", "rollback", "promote"} : Begin(o)
             \/ Receive \/ StopTwin
    BY <1>3, <2>3 DEF Begin, Receive, StopTwin
  <2>4. CASE SetAside \/ SwapIn \/ PutBack \/ SwapDone \/ OwnHistory \/ ChangeDone \/ RollBackDisk
    BY <1>3, <2>4 DEF SetAside, SwapIn, PutBack, SwapDone, OwnHistory, CopyClone, ChangeDone, RollBackDisk
  <2>5. CASE CreateJobs \/ AwaitSync \/ StartVm \/ Release \/ Tidy \/ Finish
    BY <1>3, <2>5 DEF CreateJobs, AwaitSync, StartVm, Release, Tidy, Finish
  <2>6. CASE \/ UNCHANGED replaceVars \/ \E t \in Targets : Sync(t)
             \/ Cleanup \/ \E s \in Slots : RemoveAside(s)
             \/ Dies \/ LeaseLapses
    BY <1>3, <2>2, <2>6 DEF Sync, Cleanup, RemoveAside, Dies, LeaseLapses
  <2> QED
    BY <2>1, <2>2, <2>3, <2>4, <2>5, <2>6 DEF ReplaceNext
<1> QED
  BY <1>1, <1>2, <1>3 DEF DisksAsMoved

-----------------------------------------------------------------------------
(* The VM starts on whole disks, and what fails is put back.               *)

\* Past the last disk, every disk was changed.
LEMMA LastSlot ==
  ASSUME CountType, slot \notin Slots, NEW s \in Slots
  PROVE  s \in Nat /\ s < slot
<1>1. s \in Nat \ {0} /\ 1 .. s \subseteq Slots /\ slot \in Nat /\ slot >= 1
  BY DisksNumbered DEF CountType
<1>2. slot \notin 1 .. s
  BY <1>1
<1> QED
  BY <1>1, <1>2

\* The VM is off while its disks change; then they are of one point in time
\* or the outcome says that they are not.
LEMMA WholeBeforeStartKept ==
  ASSUME ReplaceInv, [ReplaceNext]_replaceVars
  PROVE  WholeBeforeStart'
<1> USE DEF replaceVars, procVars, vmVars, replVars, diskVars, catVars, Goto, Fails, Changes
<1>0. DiskType /\ CountType /\ NameType /\ StepsInOrder /\ DisksAsMoved /\ WholeBeforeStart /\ RunsWhole
  BY TypeParts DEF ReplaceInv
<1>1. CASE \E o \in {"into", "rollback", "promote"} : Begin(o)
  BY <1>1 DEF Begin, WholeBeforeStart
<1>2. CASE UNCHANGED replaceVars
  BY <1>0, <1>2 DEF WholeBeforeStart, Whole, AllRestored
<1>3. CASE Receive \/ StopTwin
  BY <1>3 DEF Receive, StopTwin, WholeBeforeStart
<1>4. CASE Fence
  <2>1. CASE rpc' = "tidy"
    BY <2>1 DEF WholeBeforeStart
  <2>2. CASE rpc' = "stop" /\ fenced'.was = on /\ UNCHANGED disk
    BY <1>0, <2>2 DEF WholeBeforeStart, RunsWhole, Whole
  <2> QED
    BY <1>4, <2>1, <2>2 DEF Fence
<1>5. CASE StopVm
  <2>1. changed = "none" /\ UNCHANGED <<disk, fenced, changed>> /\ rpc = "stop"
    BY <1>0, <1>5 DEF StopVm, StepsInOrder, Preparing
  <2>2. rpc' = "unfence" \/ (rpc' = "drop" /\ ~on')
    BY <1>5 DEF StopVm
  <2> QED
    BY <1>0, <2>1, <2>2 DEF WholeBeforeStart, Whole
<1>6. CASE DropJob
  <2>1. /\ changed = "none" /\ UNCHANGED <<disk, fenced, changed, on, slot>> /\ rpc = "drop" /\ slot = 1
        /\ rpc' \in {"drop", "change", "unfence"}
    BY <1>0, <1>6 DEF DropJob, StepsInOrder, Preparing
  <2>2. \A s \in Slots : ~(s < slot)
    BY <2>1, DisksNumbered
  <2> QED
    BY <1>0, <2>1, <2>2 DEF WholeBeforeStart, Whole
<1>7. CASE SetAside
  <2>1. /\ rop # "rollback" /\ UNCHANGED <<rop, on>> /\ ~on /\ rpc' \in {"swapin", "putback"}
    BY <1>0, <1>7, SetAsideSteps DEF WholeBeforeStart, Leaves
  <2> QED
    BY <2>1 DEF WholeBeforeStart
<1>8. CASE SwapIn
  <2>1. /\ rop # "rollback" /\ UNCHANGED <<rop, on>> /\ ~on /\ rpc' \in {"change", "putback"}
    BY <1>0, <1>8, SwapInSteps DEF WholeBeforeStart, Arrives
  <2> QED
    BY <2>1 DEF WholeBeforeStart
<1>9. CASE PutBack
  <2>1. ~on /\ UNCHANGED on /\ (rpc' = "putback" \/ (rpc' = "unfence" /\ changed' = "err"))
    BY <1>0, <1>9 DEF PutBack, WholeBeforeStart
  <2> QED
    BY <2>1 DEF WholeBeforeStart
<1>10. CASE SwapDone
  <2>1. rpc = "change" /\ rop # "rollback" /\ slot \notin Slots /\ rpc' = "own" /\ UNCHANGED <<on, disk>>
    BY <1>10 DEF SwapDone
  <2>2. Len(moved) = 2 * slot - 2 /\ \A s \in Slots : SlotAsMoved(s)
    BY <1>0, <2>1 DEF StepsInOrder, DisksAsMoved, Swapping
  <2>3. ASSUME NEW s \in Slots PROVE disk[s] = "pit"
    <3>1. s \in Nat /\ slot \in Nat /\ s < slot
      BY <1>0, <2>1, LastSlot DEF CountType
    <3>2. 2 * s <= Len(moved)
      BY <2>2, <3>1
    <3> QED
      BY <2>2, <3>2 DEF SlotAsMoved
  <2> QED
    BY <1>0, <2>1, <2>3 DEF WholeBeforeStart, AllRestored
<1>11. CASE OwnHistory
  <2>1. rpc = "own" /\ ~on /\ AllRestored /\ UNCHANGED on
    BY <1>0, <1>11 DEF OwnHistory, WholeBeforeStart
  <2>2. (rpc' = "own" /\ UNCHANGED disk) \/ (rpc' = "unfence" /\ changed' = "err")
    BY <1>11, <2>1 DEF OwnHistory, CopyClone
  <2> QED
    BY <2>1, <2>2 DEF WholeBeforeStart, AllRestored
<1>12. CASE ChangeDone
  <2>1. rpc' = "unfence" /\ changed' = "ok" /\ UNCHANGED disk
    BY <1>12 DEF ChangeDone
  <2>2. AllRestored
    BY <1>0, <1>12, LastSlot DEF ChangeDone, WholeBeforeStart, AllRestored
  <2> QED
    BY <2>1, <2>2 DEF WholeBeforeStart, AllRestored
<1>13. CASE RollBackDisk
  <2>1. rpc = "change" /\ rop = "rollback" /\ slot \in Slots /\ ~on /\ UNCHANGED <<on, rop>>
        /\ \A s \in Slots : s < slot => disk[s] = "pit"
    BY <1>0, <1>13 DEF RollBackDisk, WholeBeforeStart
  <2>2. CASE rpc' = "unfence" /\ changed' = "err"
    BY <2>2 DEF WholeBeforeStart
  <2>3. CASE rpc' = "change" /\ disk' = [disk EXCEPT ![slot] = "pit"] /\ slot' = slot + 1
    <3>1. ASSUME NEW s \in Slots, s < slot' PROVE disk'[s] = "pit"
      BY <1>0, <2>1, <2>3, <3>1, DisksNumbered DEF DiskType, Disks
    <3> QED
      BY <2>1, <2>3, <3>1 DEF WholeBeforeStart
  <2> QED
    BY <1>13, <2>1, <2>2, <2>3 DEF RollBackDisk
<1>14. CASE CreateJobs \/ AwaitSync
  <2>1. /\ UNCHANGED <<disk, fenced, changed>> /\ rpc \in {"unfence", "sync"}
        /\ rpc' \in {"sync", "start", "release"}
    BY <1>14 DEF CreateJobs, AwaitSync
  <2> QED
    BY <1>0, <2>1 DEF WholeBeforeStart, Whole, AllRestored
<1>15. CASE StartVm \/ Release \/ Tidy \/ Finish \/ Dies
  <2>1. rpc' \in {"release", "tidy", "finish", "idle"}
    BY <1>15 DEF StartVm, Release, Tidy, Finish, Dies
  <2> QED
    BY <2>1 DEF WholeBeforeStart
<1>16. CASE \/ \E t \in Targets : Sync(t)
            \/ Cleanup \/ \E s \in Slots : RemoveAside(s)
            \/ LeaseLapses
  <2>1. UNCHANGED <<disk, fenced, changed, on, rop, rpc, slot>>
    BY <1>16 DEF Sync, Cleanup, RemoveAside, LeaseLapses
  <2> QED
    BY <1>0, <2>1 DEF WholeBeforeStart, Whole, AllRestored
<1> QED
  BY <1>1, <1>2, <1>3, <1>4, <1>5, <1>6, <1>7, <1>8, <1>9, <1>10, <1>11, <1>12, <1>13, <1>14,
     <1>15, <1>16 DEF ReplaceNext

\* Only StartVm turns the VM on, and only when its disks are whole.
LEMMA RunsWholeKept ==
  ASSUME ReplaceInv, [ReplaceNext]_replaceVars
  PROVE  RunsWhole'
<1> USE DEF replaceVars, procVars, vmVars, replVars, diskVars, catVars
<1>0. WholeBeforeStart /\ RunsWhole /\ StepsInOrder
  BY DEF ReplaceInv
<1>1. CASE SetAside \/ SwapIn \/ PutBack \/ OwnHistory \/ RollBackDisk
  <2>1. rpc \in {"change", "swapin", "putback", "own"} /\ UNCHANGED on
    BY <1>1 DEF SetAside, SwapIn, PutBack, OwnHistory, RollBackDisk
  <2> QED
    BY <1>0, <2>1 DEF WholeBeforeStart, RunsWhole
<1>2. CASE StartVm
  <2>1. rpc = "start" /\ UNCHANGED disk
    BY <1>2 DEF StartVm
  <2>2. Whole
    BY <1>0, <2>1 DEF WholeBeforeStart, StepsInOrder, Starts, Whole, AllRestored, Content
  <2> QED
    BY <2>1, <2>2 DEF RunsWhole, Whole
<1>3. CASE UNCHANGED disk /\ (on' => on)
  BY <1>0, <1>3 DEF RunsWhole
<1>4. CASE \/ UNCHANGED replaceVars \/ \E o \in {"into", "rollback", "promote"} : Begin(o)
           \/ Receive \/ StopTwin \/ Fence \/ StopVm \/ DropJob
  BY <1>3, <1>4 DEF Begin, Receive, StopTwin, Fence, StopVm, DropJob
<1>5. CASE SwapDone \/ ChangeDone \/ CreateJobs \/ AwaitSync \/ Release \/ Tidy \/ Finish
  BY <1>3, <1>5 DEF SwapDone, ChangeDone, CreateJobs, AwaitSync, Release, Tidy, Finish
<1>6. CASE \/ \E t \in Targets : Sync(t)
           \/ Cleanup \/ \E s \in Slots : RemoveAside(s)
           \/ Dies \/ LeaseLapses
  BY <1>3, <1>6 DEF Sync, Cleanup, RemoveAside, Dies, LeaseLapses
<1> QED
  BY <1>1, <1>2, <1>4, <1>5, <1>6 DEF ReplaceNext

\* A put-back that ends without a rename that failed has undone them all.
LEMMA PutBackIsCompleteKept ==
  ASSUME ReplaceInv, [ReplaceNext]_replaceVars
  PROVE  PutBackIsComplete'
<1> USE DEF replaceVars, procVars, vmVars, replVars, diskVars, catVars, Goto, Fails, Changes
<1>0. DiskType /\ FenceType /\ StepsInOrder /\ DisksAsMoved /\ PutBackIsComplete
  BY TypeParts DEF ReplaceInv
<1>1. CASE PutBack /\ moved = <<>>
  <2>1. Swapping /\ UNCHANGED <<disk, fenced, stuck>>
    BY <1>0, <1>1 DEF PutBack, StepsInOrder, Swapping
  <2>2. ASSUME ~stuck PROVE disk = fenced.disks
    <3>1. ASSUME NEW s \in Slots PROVE disk[s] = fenced.disks[s]
      <4>1. SlotAsMoved(s) /\ s \in Nat /\ s > 0 /\ Len(moved) = 0
        BY <1>0, <1>1, <2>1, DisksNumbered DEF DisksAsMoved
      <4>2. 2 * s - 1 > Len(moved)
        BY <4>1
      <4> QED
        BY <2>2, <4>1, <4>2 DEF SlotAsMoved
    <3>2. disk \in Disks /\ fenced.disks \in Disks
      BY <1>0 DEF DiskType, FenceType, Fences
    <3> QED
      BY <3>1, <3>2 DEF Disks
  <2> QED
    BY <2>1, <2>2 DEF PutBackIsComplete
<1>2. CASE PutBack /\ moved # <<>>
  BY <1>2 DEF PutBack, PutBackIsComplete
<1>3. CASE OwnHistory
  <2>1. moved' # <<>>
    BY <1>0, <1>3 DEF OwnHistory, CopyClone, StepsInOrder
  <2> QED
    BY <2>1 DEF PutBackIsComplete
<1>4. CASE StopVm \/ DropJob
  <2>1. changed' = "none"
    BY <1>0, <1>4 DEF StopVm, DropJob, StepsInOrder, Preparing
  <2> QED
    BY <2>1 DEF PutBackIsComplete
<1>5. CASE ChangeDone \/ RollBackDisk
  BY <1>5 DEF ChangeDone, RollBackDisk, PutBackIsComplete
<1>6. CASE rpc' # "unfence"
  BY <1>6 DEF PutBackIsComplete
<1>7. CASE \/ \E o \in {"into", "rollback", "promote"} : Begin(o)
           \/ Receive \/ StopTwin \/ Fence \/ SetAside \/ SwapIn \/ SwapDone
  BY <1>6, <1>7 DEF Begin, Receive, StopTwin, Fence, SetAside, SwapIn, SwapDone
<1>8. CASE CreateJobs \/ AwaitSync \/ StartVm \/ Release \/ Tidy \/ Finish \/ Dies
  BY <1>6, <1>8 DEF CreateJobs, AwaitSync, StartVm, Release, Tidy, Finish, Dies
<1>9. CASE \/ UNCHANGED replaceVars \/ \E t \in Targets : Sync(t)
           \/ Cleanup \/ \E s \in Slots : RemoveAside(s)
           \/ LeaseLapses
  <2>1. UNCHANGED <<rpc, changed, rop, moved, stuck, disk, fenced>>
    BY <1>9 DEF Sync, Cleanup, RemoveAside, LeaseLapses
  <2> QED
    BY <1>0, <2>1 DEF PutBackIsComplete
<1> QED
  BY <1>1, <1>2, <1>3, <1>4, <1>5, <1>7, <1>8, <1>9 DEF ReplaceNext

\* The invariant holds before the first job.
LEMMA ReplaceStarts == ReplaceInit => ReplaceInv
<1> SUFFICES ASSUME ReplaceInit PROVE ReplaceInv
  OBVIOUS
<1> USE DEF ReplaceInit
<1>1. NoFence \in Fences
  BY DEF NoFence, Fences, EveryDisk, Disks
<1>2. NameType /\ CountType
  BY ReplaceBounds DEF NameType, CountType, Pcs
<1>3. FlagType
  BY DEF FlagType
<1>4. FenceType
  BY <1>1 DEF FenceType
<1>5. DiskType
  <2>1. disk \in Disks /\ origin \in [Slots -> Seq({"ours", "foreign"})]
    BY DEF EveryDisk, Disks, Content
  <2>2. aside \in [Slots -> SUBSET ((1 .. ops) \X Content)]
    BY DEF EveryDisk
  <2>3. restored \in [Trees -> [Slots -> {"pit", Gone}]]
    BY DEF EveryDisk
  <2>4. moved \in Seq(Slots \X {"aside", "in"})
    OBVIOUS
  <2> QED
    BY <2>1, <2>2, <2>3, <2>4 DEF DiskType
<1>6. RenamesInOrder
  BY DEF RenamesInOrder
<1>7. StepsInOrder /\ DisksAsMoved /\ WholeBeforeStart /\ PutBackIsComplete
  BY DEF StepsInOrder, Preparing, DisksAsMoved, Swapping, WholeBeforeStart, PutBackIsComplete
<1>8. RunsWhole
  BY DEF RunsWhole, EveryDisk, Content
<1> QED
  BY <1>2, <1>3, <1>4, <1>5, <1>6, <1>7, <1>8, TypeParts DEF ReplaceInv

\* Every step keeps it, part by part.
LEMMA ReplaceKept == ReplaceInv /\ [ReplaceNext]_replaceVars => ReplaceInv'
<1> SUFFICES ASSUME ReplaceInv, [ReplaceNext]_replaceVars PROVE ReplaceInv'
  OBVIOUS
<1>1. NameType /\ CountType /\ FlagType /\ FenceType /\ DiskType /\ StepsInOrder /\ disk \in Disks
  BY TypeParts DEF ReplaceInv, DiskType
<1>2. ReplaceTypeOK'
  BY <1>1, NameTypeKept, CountTypeKept, FlagTypeKept, FenceTypeKept, DiskTypeKept, TypePartsNext
<1>3. RenamesInOrder' /\ StepsInOrder' /\ DisksAsMoved'
  BY RenamesInOrderKept, StepsInOrderKept, DisksAsMovedKept
<1>4. WholeBeforeStart' /\ RunsWhole' /\ PutBackIsComplete'
  BY WholeBeforeStartKept, RunsWholeKept, PutBackIsCompleteKept
<1> QED
  BY <1>2, <1>3, <1>4 DEF ReplaceInv

\* Whatever fails, dies or is cleaned up, for any number of disks and jobs: the
\* VM never runs on a mixture of two points in time (RunsWhole) and a swap that
\* fails while it renames leaves the disks as they were (PutBackIsComplete).
THEOREM DisksStayWhole == ReplaceSpec => []ReplaceInv
  BY ReplaceStarts, ReplaceKept, PTL DEF ReplaceSpec

\* The disk the VM had is destroyed by nothing but a rollback in place and a
\* cleanup of its slot (OldIsKept): no swap, failure, put-back or death loses it.
THEOREM OldDisksAreKept == ReplaceSpec => OldIsKept
<1>1. ReplaceInv /\ [ReplaceNext]_replaceVars
        => [\A s \in Slots : (HoldsOld(s) /\ ~HoldsOld(s)')
               => s \in cleaning \/ (rop = "rollback" /\ rpc = "change")]_replaceVars
  <2> SUFFICES ASSUME ReplaceInv, [ReplaceNext]_replaceVars, NEW s \in Slots, HoldsOld(s),
                      s \notin cleaning, ~(rop = "rollback" /\ rpc = "change")
               PROVE  HoldsOld(s)'
    OBVIOUS
  <2>0. DiskType /\ StepsInOrder /\ WholeBeforeStart /\ disk \in Disks
    BY TypeParts DEF ReplaceInv, DiskType
  <2>1. CASE UNCHANGED <<disk, aside>>
    BY <2>1 DEF HoldsOld
  <2>2. CASE \/ DisksStill \/ \E o \in {"into", "rollback", "promote"} : Begin(o)
             \/ Receive \/ Tidy
    BY <2>1, <2>2 DEF DisksStill, Begin, Receive, Tidy, diskVars
  <2>3. CASE SetAside
    <3>1. CASE Leaves
      <4>1. /\ slot \in Slots /\ aside' = [aside EXCEPT ![slot] = aside[slot] \cup {<<ops, disk[slot]>>}]
            /\ disk' = [disk EXCEPT ![slot] = Gone]
        BY <2>0, <2>3, <3>1, SetAsideSteps DEF Leaves, Kept
      <4>2. CASE s = slot
        <5>1. aside'[s] = aside[s] \cup {<<ops, disk[s]>>}
          BY <2>0, <4>1, <4>2 DEF DiskType
        <5>2. <<ops, disk[s]>> \in aside'[s] /\ <<ops, disk[s]>>[2] = disk[s]
          BY <5>1
        <5>3. \E a \in aside'[s] : a[2] = "old"
          BY <5>1, <5>2 DEF HoldsOld
        <5> QED
          BY <5>3 DEF HoldsOld
      <4>3. CASE s # slot
        BY <2>0, <4>1, <4>3 DEF HoldsOld, DiskType, Disks
      <4> QED
        BY <4>2, <4>3
    <3> QED
      BY <2>0, <2>1, <2>3, <3>1, SetAsideSteps
  <2>4. CASE SwapIn
    <3>1. UNCHANGED aside /\ slot \in Slots /\ disk[slot] = Gone
      BY <2>0, <2>4, SwapInSteps
    <3>2. CASE Arrives
      BY <2>0, <3>1, <3>2 DEF Arrives, HoldsOld, Disks, Gone
    <3> QED
      BY <2>0, <2>1, <2>4, <3>1, <3>2, SwapInSteps
  <2>5. CASE PutBack
    <3>1. ASSUME NEW t \in Slots, AsideReturns(t) PROVE HoldsOld(s)'
      <4>1. PICK a \in aside[t] : disk' = [disk EXCEPT ![t] = a[2]] /\ aside' = [aside EXCEPT ![t] = @ \ {a}]
        BY <3>1 DEF AsideReturns, MyAside
      <4>2. disk[t] = Gone
        BY <3>1 DEF AsideReturns
      <4>3. CASE s = t
        <5>1. PICK b \in aside[s] : b[2] = "old"
          BY <4>2, <4>3 DEF HoldsOld, Gone
        <5>2. disk'[s] = a[2] /\ aside'[s] = aside[s] \ {a}
          BY <2>0, <4>1, <4>3 DEF Disks, DiskType
        <5> QED
          BY <5>1, <5>2 DEF HoldsOld
      <4>4. CASE s # t
        BY <2>0, <4>1, <4>4 DEF HoldsOld, DiskType, Disks
      <4> QED
        BY <4>3, <4>4
    <3>2. ASSUME NEW t \in Slots, RestoredReturns(t) PROVE HoldsOld(s)'
      BY <2>0, <3>2 DEF RestoredReturns, HoldsOld, Disks
    <3>3. CASE moved = <<>>
      BY <2>1, <2>5, <3>3 DEF PutBack, diskVars
    <3> QED
      BY <2>1, <2>5, <3>1, <3>2, <3>3, PutBackSteps
  <2>6. CASE OwnHistory
    <3>1. disk[slot] = "pit" /\ slot \in Slots /\ UNCHANGED aside
      BY <2>0, <2>6 DEF OwnHistory, WholeBeforeStart, AllRestored
    <3>2. disk' = disk \/ disk' = [disk EXCEPT ![slot] = Gone]
      BY <2>6 DEF OwnHistory, CopyClone
    <3> QED
      BY <2>0, <3>1, <3>2 DEF HoldsOld, Disks
  <2>7. CASE RollBackDisk
    BY <2>7 DEF RollBackDisk
  <2>8. ASSUME NEW t \in Slots, RemoveAside(t) PROVE HoldsOld(s)'
    <3>1. t # s /\ UNCHANGED disk
      BY <2>8 DEF RemoveAside
    <3>2. aside' = aside \/ \E a : aside' = [aside EXCEPT ![t] = @ \ {a}]
      BY <2>8 DEF RemoveAside
    <3> QED
      BY <2>0, <3>1, <3>2 DEF HoldsOld, DiskType
  <2> QED
    BY <2>2, <2>3, <2>4, <2>5, <2>6, <2>7, <2>8, DiskSteps
<1> QED
  BY <1>1, DisksStayWhole, PTL DEF ReplaceSpec, OldIsKept

=============================================================================
