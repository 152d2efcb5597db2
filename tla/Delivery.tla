------------------------------ MODULE Delivery ------------------------------
(***************************************************************************)
(* What a durable work queue of the platform promises to the services that *)
(* publish to it and consume from it: at-least-once delivery with a single  *)
(* automatic retry.  A message the broker took stays pending until a        *)
(* handler finished it or a delivery that was itself a redelivery failed.   *)
(* The abstract view keeps no consumer, no channel and no buffer.  The one   *)
(* retry is dispatch's; comments of HandlerFunc, Indexer.Process and         *)
(* archive-worker's Process promise none, and are out of date.              *)
(***************************************************************************)
CONSTANT Msgs

VARIABLES fate,     \* fate[m]: "new", "pending", "done" or "dead"
          retried,  \* messages whose next delivery is their last attempt
          promised  \* messages whose publisher was told "confirmed"

dvars == <<fate, retried, promised>>

DInit == /\ fate = [m \in Msgs |-> "new"]
         /\ retried = {}
         /\ promised = {}

\* The broker takes responsibility for a message.
Accept(m) == /\ fate[m] = "new"
             /\ fate' = [fate EXCEPT ![m] = "pending"]
             /\ UNCHANGED <<retried, promised>>

\* The publisher is told; only a message the broker took can be promised.
Promise(m) == /\ fate[m] # "new"
              /\ promised' = promised \cup {m}
              /\ UNCHANGED <<fate, retried>>

\* Deliveries came to nothing (an error, or the consumer went away): the
\* messages stay pending, and their retry is used up.
Retry(S) == /\ \A m \in S : fate[m] = "pending"
            /\ retried' = retried \cup S
            /\ UNCHANGED <<fate, promised>>

Finish(m) == /\ fate[m] = "pending"
             /\ fate' = [fate EXCEPT ![m] = "done"]
             /\ UNCHANGED <<retried, promised>>

\* Giving up is possible on a retry only.
GiveUp(m) == /\ fate[m] = "pending"
             /\ m \in retried
             /\ fate' = [fate EXCEPT ![m] = "dead"]
             /\ UNCHANGED <<retried, promised>>

DNext == \/ \E m \in Msgs : Accept(m) \/ Promise(m) \/ Finish(m) \/ GiveUp(m)
         \/ \E S \in SUBSET Msgs : Retry(S)

DSpec == DInit /\ [][DNext]_dvars
=============================================================================
