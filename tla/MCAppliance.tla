---------------------------- MODULE MCAppliance ----------------------------
(* Instances of Appliance for TLC.                                         *)
EXTENDS Appliance

\* The last PIT is on a branch of its own, begun by a restore.
MCForked == <<"a", "a", "b">>
MCOneBranch == <<"a", "a", "a">>
=============================================================================
