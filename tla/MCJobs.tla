------------------------------- MODULE MCJobs -------------------------------
(* Instances of Jobs for TLC.                                              *)
EXTENDS Jobs

CONSTANTS j1, j2

MCJobIds == {j1, j2}

\* A cluster-wide job that resumes, a job on one of its resources that never
\* does, and a job elsewhere launched with that one's key.
MCLaunches == {"cluster", "guest", "other"}
MCKeyOf == [cluster |-> "k1", guest |-> "k2", other |-> "k2"]
MCLocksOf == [cluster |-> {<<"production">>},
              guest   |-> {<<"production", "prod1">>, <<"host1">>},
              other   |-> {<<"standby">>}]
MCCheckpoint == {"cluster"}
MCTargetOf == [cluster |-> [rule |-> "any_except", host |-> 1],
               guest   |-> [rule |-> "host", host |-> 2],
               other   |-> [rule |-> "duty", host |-> 0]]
MCMinRole == [cluster |-> 2, guest |-> 2, other |-> 2]

MCHosts == {1, 2}
MCQuorums == {{1, 2}, {2}}
NoSkew == [h \in MCHosts |-> 0]
\* The second host's clock is ahead.
MCSkew == [h \in MCHosts |-> IF h = 1 THEN 0 ELSE 1]

\* A request waiting for an answer within a phase marked unsafe.
MCReports == {[cancelAllowed |-> FALSE, pending |-> TRUE, seq |-> 0]}

JobIdSymmetry == Permutations(MCJobIds)
=============================================================================
