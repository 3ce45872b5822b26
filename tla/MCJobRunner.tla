---------------------------- MODULE MCJobRunner ----------------------------
(* Instances of JobRunner for TLC.                                         *)
EXTENDS JobRunner

CONSTANT j1

MCOneJob == {j1}
MCHosts == {1, 2}
MCQuorums == {{1, 2}, {2}}
NoSkew == [h \in MCHosts |-> 0]
\* The second host's clock is ahead.
FastSecond == [h \in MCHosts |-> IF h = 1 THEN 0 ELSE 1]

\* One job that resumes, wherever it is resumed.
OneLaunch == {"update"}
OneKey == [update |-> "k1"]
OneLock == [update |-> {<<"cluster">>}]
OneTarget == [update |-> [rule |-> "any", host |-> 0]]
OneRole == [update |-> 2]

MCReports == {[cancelAllowed |-> FALSE, pending |-> FALSE, seq |-> 0]}
=============================================================================
