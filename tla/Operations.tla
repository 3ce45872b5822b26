----------------------------- MODULE Operations -----------------------------
(***************************************************************************)
(* Four parts of bmacd that share no state, side by side: updates of the   *)
(* cluster, the jobs that bring a VM's disks back to a point in time, the  *)
(* notifications and the copies of records on other hosts.  A behaviour is *)
(* one of a single part, the `part' it begins with; the others stay where  *)
(* they start.                                                             *)
(***************************************************************************)
EXTENDS Replace, Notify, Mesh, Updates

VARIABLE part

operationsVars == <<part, updVars, replaceVars, noteVars, meshVars>>

OperationsInit ==
    /\ UpdInit /\ ReplaceInit /\ NoteInit /\ MeshInit
    /\ part \in {"updates", "replace", "notify", "mesh"}
    /\ part # "replace" => ~on /\ ha = "unmanaged" /\ twin = "absent"
    /\ part # "notify" => cond = Critical
    /\ part # "updates" => \A h \in Hosts : installed[h].current = CHOOSE b \in Bundles : TRUE

OperationsNext ==
    \/ part = "updates" /\ UpdNext /\ UNCHANGED <<part, replaceVars, noteVars, meshVars>>
    \/ part = "replace" /\ ReplaceNext /\ UNCHANGED <<part, updVars, noteVars, meshVars>>
    \/ part = "notify" /\ NoteNext /\ UNCHANGED <<part, updVars, replaceVars, meshVars>>
    \/ part = "mesh" /\ MeshNext /\ UNCHANGED <<part, updVars, replaceVars, noteVars>>

OperationsSpec == OperationsInit /\ [][OperationsNext]_operationsVars

\* The parts' states are sound: typed; an update is through only with hosts
\* that run the bundle and nobody asked for another install (Updates); a VM
\* that a job starts has the disks of one point in time, and a swap that is
\* put back leaves the disks as they were (Replace); what an outbox calls sent
\* was delivered and nothing is lost between a host's store and the cluster's
\* (Notify); what a pull has not stored yet it still fetches (Mesh).
OperationsInv ==
    /\ part = "updates" => UpdInv
    /\ part = "replace" => ReplaceInv
    /\ part = "notify" => OutboxInv
    /\ part = "mesh" => MeshInv
=============================================================================
