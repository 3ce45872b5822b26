----------------------------- MODULE MCServices -----------------------------
(* The services of bmacd on small instances.                               *)
EXTENDS Services

\* The values are in the cfg.  Job events: three runs on two hosts.  The event
\* hub: every other message is a job's event, and one is too large for the
\* window.  Schedules: the second host's clock is ahead.
CONSTANTS p1, p2, p3
MCProcs == {p1, p2, p3}
MCIsEvent(n) == n % 2 = 0
MCSizeOf(n) == IF n = 3 THEN 5 ELSE 1
MCAhead == <<0, 1>>
=============================================================================
