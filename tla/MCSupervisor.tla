---------------------------- MODULE MCSupervisor ----------------------------
(* Instances of Supervisor for TLC; the cfgs give the constants numbers.   *)
EXTENDS Supervisor
=============================================================================
