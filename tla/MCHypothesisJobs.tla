-------------------------- MODULE MCHypothesisJobs --------------------------
(* Two background jobs, asked for at two replicas with one slot each.       *)
EXTENDS HypothesisJobs

CONSTANTS verify, enrich, r1, r2, g1, g2

MCJobs       == {verify, enrich}
MCReplicas   == {r1, r2}
MCGoroutines == {g1, g2}
MCAskedAt    == [j \in MCJobs |-> IF j = verify THEN r1 ELSE r2]
=============================================================================
