---------------------------- MODULE JobLifecycle ----------------------------
(***************************************************************************)
(* What a client of archive-scan may see of its jobs, whichever replica     *)
(* answers: a job moves along a few edges, an ended job never moves again,  *)
(* and its end can be read for the whole time of retention.                 *)
(***************************************************************************)
EXTENDS Naturals

CONSTANTS Jobs,
          Retention  \* seconds an ended job is kept

VARIABLES stage,  \* stage[j]: how far job j is
          ended,  \* ended[j]: the second in which it ended, 0 before
          clock

lvars == <<stage, ended, clock>>

Ends  == {"succeeded", "failed", "cancelled"}

\* The edges of a job that is not expiring.  A running job goes back to the
\* queue when a process starts over.
Edges == {<<"none", "queued">>, <<"queued", "running">>, <<"running", "queued">>,
          <<"queued", "cancelled">>, <<"running", "cancelled">>,
          <<"running", "succeeded">>, <<"running", "failed">>}

LInit == /\ stage = [j \in Jobs |-> "none"]
         /\ ended = [j \in Jobs |-> 0]
         /\ clock = 0

Stays(j) == stage'[j] = stage[j] /\ ended'[j] = ended[j]

Moves(j) == /\ <<stage[j], stage'[j]>> \in Edges
            /\ ended'[j] = IF stage'[j] \in Ends THEN clock ELSE 0

Expires(j) == /\ stage[j] \in Ends /\ clock - ended[j] >= Retention
              /\ stage'[j] = "expired" /\ ended'[j] = 0

\* One call to the store may take several jobs along.
Step == /\ \A j \in Jobs : Stays(j) \/ Moves(j) \/ Expires(j)
        /\ UNCHANGED clock

Passes == clock' = clock + 1 /\ UNCHANGED <<stage, ended>>

LNext == Step \/ Passes

LSpec == LInit /\ [][LNext]_lvars
=============================================================================
