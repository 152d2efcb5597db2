----------------------------- MODULE MCScanJobs -----------------------------
(* Two replicas share two jobs, one of them with a result that is written    *)
(* as an artifact.  The replicas are interchangeable to everything but       *)
(* fairness; the run with fairness uses no symmetry and one job.             *)
EXTENDS ScanJobs, TLC

CONSTANTS big, small, r1, r2, k1, nokey

MCJobs     == {big, small}
MCLarge    == {big}
MCReplicas == {r1, r2}
MCKeys     == {k1}
Alike      == Permutations(MCReplicas)

OneJob     == {big}
=============================================================================
