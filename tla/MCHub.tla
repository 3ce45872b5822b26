------------------------------- MODULE MCHub -------------------------------
(* One tab of the event hub, as in MCServices, on its own.                 *)
EXTENDS EventHub

MCIsEvent(n) == n % 2 = 0
MCSizeOf(n) == 1
=============================================================================
