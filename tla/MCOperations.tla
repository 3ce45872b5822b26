---------------------------- MODULE MCOperations ----------------------------
(***************************************************************************)
(* Updates, Replace, Notify and Mesh on small instances, in one run.       *)
(***************************************************************************)
EXTENDS Operations

\* The values are in the cfg.  Updates: a second bundle raises the schema, the
\* first can read it.  Replace: two disks, one replication target, restored
\* disks that are independent, clones of an own snapshot or of another VM's.
\* Notify: two hosts, one of which may be left without quorum; an outbox that
\* keeps one ended entry.  Mesh: an origin that may restart or be installed
\* afresh and a peer; pages and a channel of one record.
MCSchemaOf == [b \in {1, 2} |-> b]
MCReadsFrom == [b \in {1, 2} |-> 1]
MCOrigins == {<<>>, <<"ours">>, <<"foreign">>}

\* A bound on where behaviours start: the host of the update's job knows its
\* bundle, the other one may not; a condition is absent or within its hold
\* time, from which it becomes critical.
MCInit ==
    /\ OperationsInit
    /\ part = "updates" => installed[Me].current # NoBundle
    /\ part = "notify" => cond # Critical
MCSpec == MCInit /\ [][OperationsNext]_operationsVars
=============================================================================
