----------------------------- MODULE MCCapture -----------------------------
(* Instances of Capture for TLC; the cfgs give the constants values.       *)
EXTENDS Capture
=============================================================================
