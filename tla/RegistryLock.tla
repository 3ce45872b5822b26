---------------------------- MODULE RegistryLock ----------------------------
(***************************************************************************)
(* The lock around every change of a shared record, and one record changed *)
(* under it: src/v3/crates/bmac-pmxcfs/src/lock.rs, record.rs, store.rs.   *)
(*                                                                         *)
(* The lock is an empty directory made with mkdir; the owner's nonce is in *)
(* a sibling file.  A waiter of a short-lived lock asks pmxcfs to drop the *)
(* directory, and pmxcfs does so once it has been there unchanged for      *)
(* DropAge (120 s).  A holder crashes or loses quorum between any two of   *)
(* its file operations.                                                    *)
(*                                                                         *)
(* Left out: locks outside pmxcfs, and the operator's --break-stale-lock,  *)
(* which sends the same request.                                           *)
(***************************************************************************)
EXTENDS Integers, FiniteSets

CONSTANTS
    Procs,      \* the bmacd threads that change the record
    DropAge,    \* the age at which pmxcfs honours a request to drop the lock
    HoldTime,   \* the longest a live holder takes from mkdir to rmdir
    MaxWrites,  \* bound: successful writes
    MaxFaults,  \* bound: crashes and losses of quorum
    None

ASSUME ProcsAssumption == None \notin Procs
ASSUME BoundsAssumption == MaxWrites \in Nat /\ MaxFaults \in Nat

\* "The holder keeps the lock for moments, never near pmxcfs's lock timeout"
\* (LockOptions::short_lived): the one thing the lock rests on.
ASSUME HoldAssumption == DropAge \in Nat /\ HoldTime \in Nat /\ HoldTime < DropAge

VARIABLES
    dir,      \* who made the lock directory, or None
    age,      \* how long pmxcfs has seen it unchanged, up to DropAge
    owner,    \* whose nonce the owner file holds, or None
    pc,       \* where each process is
    held,     \* how long ago each process made the directory
    seen,     \* the revision each process read under the lock
    rev,      \* the record's revision
    writes,   \* how many writes succeeded
    quorate,  \* whether pmxcfs accepts writes
    faults

vars == <<dir, age, owner, pc, held, seen, rev, writes, quorate, faults>>

\* acquire returns at "holding"; release starts at "releasing".
Places == {"idle", "made", "holding", "read", "checked",
           "releasing", "unlinking", "rmdir"}
Inside == {"holding", "read", "checked"}

Goto(p, l) == pc' = [pc EXCEPT ![p] = l]
At(p, l) == pc[p] = l

\* Removes the lock directory, whoever made it.
RemoveDir == dir' = None /\ age' = 0

-----------------------------------------------------------------------------
(* RegistryLock::acquire.                                                  *)

MkdirSucceeds_always(p) == quorate
MkdirSucceeds(p) == quorate /\ dir = None

Mkdir(p) ==
    /\ At(p, "idle")
    /\ MkdirSucceeds(p)
    /\ dir' = p /\ age' = 0
    /\ held' = [held EXCEPT ![p] = 0]
    /\ Goto(p, "made")
    /\ UNCHANGED <<owner, seen, rev, writes, quorate, faults>>

\* pmxcfs refuses the request while the lock is younger than its timeout.
DropHonoured_tooSoon == age >= HoldTime
DropHonoured_never == age > DropAge
DropHonoured == age >= DropAge

\* utime_zero by a waiter.
RequestUnlock(p) ==
    /\ At(p, "idle")
    /\ quorate /\ dir # None
    /\ DropHonoured
    /\ RemoveDir
    /\ UNCHANGED <<owner, pc, held, seen, rev, writes, quorate, faults>>

WriteOwner(p) ==
    /\ At(p, "made")
    /\ quorate
    /\ owner' = p
    /\ Goto(p, "holding")
    /\ UNCHANGED <<dir, age, held, seen, rev, writes, quorate, faults>>

\* The owner file cannot be written: the directory is removed if pmxcfs takes
\* that, and acquire fails.
WriteOwnerFails(p) ==
    /\ At(p, "made")
    /\ IF quorate THEN RemoveDir ELSE UNCHANGED <<dir, age>>
    /\ Goto(p, "idle")
    /\ UNCHANGED <<owner, held, seen, rev, writes, quorate, faults>>

-----------------------------------------------------------------------------
(* read_record and write_record under the lock.                            *)

Read(p) ==
    /\ At(p, "holding")
    /\ seen' = [seen EXCEPT ![p] = rev]
    /\ Goto(p, "read")
    /\ UNCHANGED <<dir, age, owner, held, rev, writes, quorate, faults>>

\* write_record compares the stored revision with the expected one; then the
\* new file is renamed over the old one.
CheckRevision(p) ==
    /\ At(p, "read")
    /\ Goto(p, IF rev = seen[p] THEN "checked" ELSE "releasing")
    /\ UNCHANGED <<dir, age, owner, held, seen, rev, writes, quorate, faults>>

Rename(p) ==
    /\ At(p, "checked")
    /\ quorate /\ writes < MaxWrites
    /\ rev' = seen[p] + 1
    /\ writes' = writes + 1
    /\ Goto(p, "releasing")
    /\ UNCHANGED <<dir, age, owner, held, seen, quorate, faults>>

\* The caller's own checks, the size budget or pmxcfs refuse the change.
NoChange(p) ==
    /\ At(p, "read") \/ At(p, "checked")
    /\ Goto(p, "releasing")
    /\ UNCHANGED <<dir, age, owner, held, seen, rev, writes, quorate, faults>>

-----------------------------------------------------------------------------
(* RegistryLock::release.                                                  *)

StillOurs(p) == owner = p

Verify(p) ==
    /\ At(p, "releasing")
    /\ Goto(p, IF StillOurs(p) THEN "unlinking" ELSE "idle")
    /\ UNCHANGED <<dir, age, owner, held, seen, rev, writes, quorate, faults>>

Unlink(p) ==
    /\ At(p, "unlinking")
    /\ IF quorate /\ owner # None
       THEN owner' = None /\ Goto(p, "rmdir")
       ELSE UNCHANGED owner /\ Goto(p, "idle")
    /\ UNCHANGED <<dir, age, held, seen, rev, writes, quorate, faults>>

\* Without quorum the directory is left behind.
Rmdir(p) ==
    /\ At(p, "rmdir")
    /\ IF quorate THEN RemoveDir ELSE UNCHANGED <<dir, age>>
    /\ Goto(p, "idle")
    /\ UNCHANGED <<owner, held, seen, rev, writes, quorate, faults>>

-----------------------------------------------------------------------------
(* The environment.                                                        *)

Fault == faults < MaxFaults /\ faults' = faults + 1

\* The process dies; what it made stays.
Crash(p) ==
    /\ ~At(p, "idle")
    /\ Fault
    /\ Goto(p, "idle")
    /\ UNCHANGED <<dir, age, owner, held, seen, rev, writes, quorate>>

LoseQuorum ==
    /\ quorate /\ Fault
    /\ quorate' = FALSE
    /\ UNCHANGED <<dir, age, owner, pc, held, seen, rev, writes>>

RegainQuorum ==
    /\ ~quorate
    /\ quorate' = TRUE
    /\ UNCHANGED <<dir, age, owner, pc, held, seen, rev, writes, faults>>

Aged == IF age < DropAge THEN age + 1 ELSE age

\* A live process is out of the section before HoldTime is up.  Time matters
\* only while there is a lock to grow old.
Tick ==
    /\ \A p \in Procs : At(p, "idle") \/ held[p] < HoldTime
    /\ dir # None
    /\ age' = Aged
    /\ held' = [p \in Procs |-> IF At(p, "idle") THEN held[p] ELSE held[p] + 1]
    /\ UNCHANGED <<dir, owner, pc, seen, rev, writes, quorate, faults>>

Init ==
    /\ dir = None /\ age = 0 /\ owner = None
    /\ pc = [p \in Procs |-> "idle"]
    /\ held = [p \in Procs |-> 0]
    /\ seen = [p \in Procs |-> 0]
    /\ rev = 0 /\ writes = 0
    /\ quorate = TRUE /\ faults = 0

Acquires(p) == Mkdir(p) \/ RequestUnlock(p) \/ WriteOwner(p) \/ WriteOwnerFails(p)
Changes(p)  == Read(p) \/ CheckRevision(p) \/ Rename(p) \/ NoChange(p)
Releases(p) == Verify(p) \/ Unlink(p) \/ Rmdir(p)

Next ==
    \/ \E p \in Procs : Acquires(p) \/ Changes(p) \/ Releases(p) \/ Crash(p)
    \/ LoseQuorum \/ RegainQuorum \/ Tick

Spec == Init /\ [][Next]_vars

\* Processes finish what they started, somebody always waits for the lock,
\* time passes, and the cluster becomes quorate again.
Fairness ==
    /\ WF_vars(Tick) /\ WF_vars(RegainQuorum)
    /\ \A p \in Procs : /\ WF_vars(Changes(p)) /\ WF_vars(Releases(p))
                        /\ WF_vars(Acquires(p))

FairSpec == Spec /\ Fairness

-----------------------------------------------------------------------------
(* Properties.                                                             *)

\* Every variable has its type; an age never passes the one that counts.
TypeOK ==
    /\ dir \in Procs \cup {None} /\ owner \in Procs \cup {None}
    /\ age \in 0..DropAge
    /\ pc \in [Procs -> Places]
    /\ held \in [Procs -> Nat] /\ seen \in [Procs -> Nat]
    /\ rev \in Nat /\ writes \in Nat /\ faults \in Nat
    /\ quorate \in BOOLEAN

\* Whoever is past mkdir still has the directory, and pmxcfs has seen it for
\* as long as the process has held it.
HolderHasLock ==
    \A p \in Procs : pc[p] # "idle" => dir = p /\ age = held[p] /\ held[p] <= HoldTime

\* Nothing changed the record between the revision check and the rename.
CheckStillValid == \A p \in Procs : pc[p] = "checked" => seen[p] = rev

\* At most one process is between acquire and release, with crashed holders,
\* locks left behind without quorum and waiters asking for their removal.
MutualExclusion ==
    \A p, q \in Procs : pc[p] \in Inside /\ pc[q] \in Inside => p = q

\* Every write that succeeded is in the record: the revision check and the
\* rename are two steps, and only the lock makes them one.
NoLostUpdate == rev = writes

IInv == TypeOK /\ HolderHasLock /\ CheckStillValid /\ NoLostUpdate

\* Releasing never takes away a lock somebody else holds: the check of the
\* owner file is not atomic with the two removals that follow it.
ReleaseOwnOnly ==
    [][\A p \in Procs : dir = p /\ dir' = None /\ pc[p] # "idle" => pc'[p] = "idle"]_vars

LeftBehind == dir # None /\ pc[dir] = "idle"

\* A lock whose holder is gone does not block every later writer for ever
\* ("a lock left behind clears itself").
LeftBehindClears == LeftBehind ~> ~LeftBehind

=============================================================================
