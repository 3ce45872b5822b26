----------------------------- MODULE MCReplace -----------------------------
(* An instance of Replace for TLC: restored disks that are independent,    *)
(* clones of an own snapshot or of another VM's.                           *)
EXTENDS Replace
MCOrigins == {<<>>, <<"ours">>, <<"foreign">>}
=============================================================================
