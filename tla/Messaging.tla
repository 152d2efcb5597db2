----------------------------- MODULE Messaging -----------------------------
(***************************************************************************)
(* One durable work queue of the ingestion exchange, as the services use   *)
(* it through backend/platform/pkg/messaging: a confirming publisher and   *)
(* competing consumers that acknowledge by hand, requeue a first failure   *)
(* once and dead-letter a failed redelivery.                                *)
(*                                                                         *)
(* A consumer is one Consume call: one channel of one worker process.  The *)
(* broker's record of what the channel holds (unacked) is kept apart from  *)
(* what the process itself holds (buffered, handling), because the two     *)
(* part ways when the channel is lost while handlers still run.            *)
(* Queue order is not modelled: with competing consumers and requeues the  *)
(* code relies on none.                                                    *)
(***************************************************************************)
EXTENDS Naturals, FiniteSets

CONSTANTS Msgs,          \* messages offered to the queue
          Consumers,     \* consumer channels (worker processes)
          NoMsg,         \* the publisher is not waiting for a confirm
          Slots,         \* cfg.Workers: handler goroutines per consumer
          Prefetch,      \* cfg.Prefetch: unacknowledged messages per channel
          MaxInterrupts  \* bound: channel losses, crashes and shutdowns

ASSUME MessagingAssumption ==
    /\ NoMsg \notin Msgs
    /\ Slots \in Nat \ {0}
    /\ Prefetch \in Nat \ {0}
    /\ MaxInterrupts \in Nat

VARIABLES ready,        \* messages in the queue
          unacked,      \* unacked[c]: delivered to c's channel, not settled
          acked,        \* settled: handled
          dead,         \* routed to the dead-letter queue
          redelivered,  \* messages the broker flags Redelivered
          buffered,     \* buffered[c]: in c's deliveries Go channel
          handling,     \* handling[c]: messages c's goroutines are handling
          phase,        \* phase[c]: "open", "draining", "closed" or "down"
          sending,      \* the message whose confirm PublishProto awaits
          result,       \* result[m]: what PublishProto returned
          failures,     \* history: nacks sent for m
          succeeded,    \* history: messages some handler finished
          interrupts    \* interruptions so far

broker    == <<ready, unacked, acked, dead, redelivered>>
process   == <<buffered, handling, phase>>
publisher == <<sending, result>>
history   == <<failures, succeeded>>
vars      == <<broker, process, publisher, history, interrupts>>

Phases  == {"open", "draining", "closed", "down"}
Results == {"none", "ok", "error"}

\* Messages the broker has taken responsibility for.
Held  == UNION {unacked[c] : c \in Consumers}
Known == ready \cup Held \cup acked \cup dead

\* The channel of c is open: an ack or a nack reaches the broker.
Live(c) == phase[c] \in {"open", "draining"}

TypeOK ==
    /\ ready \subseteq Msgs
    /\ unacked \in [Consumers -> SUBSET Msgs]
    /\ acked \subseteq Msgs
    /\ dead \subseteq Msgs
    /\ redelivered \subseteq Msgs
    /\ buffered \in [Consumers -> SUBSET Msgs]
    /\ handling \in [Consumers -> SUBSET Msgs]
    /\ phase \in [Consumers -> Phases]
    /\ sending \in Msgs \cup {NoMsg}
    /\ result \in [Msgs -> Results]
    /\ failures \in [Msgs -> 0..2]
    /\ succeeded \subseteq Msgs
    /\ interrupts \in 0..MaxInterrupts

Init ==
    /\ ready = {}
    /\ unacked = [c \in Consumers |-> {}]
    /\ acked = {}
    /\ dead = {}
    /\ redelivered = {}
    /\ buffered = [c \in Consumers |-> {}]
    /\ handling = [c \in Consumers |-> {}]
    /\ phase = [c \in Consumers |-> "down"]
    /\ sending = NoMsg
    /\ result = [m \in Msgs |-> "none"]
    /\ failures = [m \in Msgs |-> 0]
    /\ succeeded = {}
    /\ interrupts = 0

-----------------------------------------------------------------------------
(* The publisher: PublishProto, one publish at a time under p.mu.           *)

\* Mutant: the publisher sends a message again although it has an answer.
SendAgain(m) ==
    /\ sending = NoMsg
    /\ sending' = m
    /\ ready' \in {ready, ready \cup {m}}
    /\ UNCHANGED <<unacked, acked, dead, redelivered, process, result,
                   history, interrupts>>

\* The publish is written to the channel; the broker takes it, or it is lost
\* on the way (broker restart, channel error).  The caller waits.
Send(m) ==
    /\ sending = NoMsg
    /\ result[m] = "none"
    /\ sending' = m
    /\ ready' \in {ready, ready \cup {m}}
    /\ UNCHANGED <<unacked, acked, dead, redelivered, process, result,
                   history, interrupts>>

\* PublishWithDeferredConfirmWithContext fails: nothing was written.
SendFails(m) ==
    /\ sending = NoMsg
    /\ result[m] = "none"
    /\ result' = [result EXCEPT ![m] = "error"]
    /\ UNCHANGED <<broker, process, sending, history, interrupts>>

\* Mutant: no confirm mode, every publish that was written counts as taken.
ConfirmBlindly(m) ==
    /\ sending = m
    /\ sending' = NoMsg
    /\ result' = [result EXCEPT ![m] = "ok"]
    /\ UNCHANGED <<broker, process, history, interrupts>>

\* The broker confirms a message it took.
Confirm(m) ==
    /\ sending = m
    /\ m \in Known
    /\ sending' = NoMsg
    /\ result' = [result EXCEPT ![m] = "ok"]
    /\ UNCHANGED <<broker, process, history, interrupts>>

\* WaitContext ends without a positive confirm: the broker's nack, or a dead
\* context or channel, in which case the broker may well have the message.
ConfirmFails(m) ==
    /\ sending = m
    /\ sending' = NoMsg
    /\ result' = [result EXCEPT ![m] = "error"]
    /\ UNCHANGED <<broker, process, history, interrupts>>

-----------------------------------------------------------------------------
(* Consumers: Consume and dispatch.                                          *)

\* Consume subscribes with a fresh channel.
Subscribe(c) ==
    /\ phase[c] = "down"
    /\ phase' = [phase EXCEPT ![c] = "open"]
    /\ UNCHANGED <<broker, buffered, handling, publisher, history, interrupts>>

\* The broker pushes a message, at most Prefetch unsettled ones per channel.
\* A draining consumer is still subscribed: the result of ch.Cancel is dropped.
Deliver(c, m) ==
    /\ Live(c)
    /\ m \in ready
    /\ Cardinality(unacked[c]) < Prefetch
    /\ ready' = ready \ {m}
    /\ unacked' = [unacked EXCEPT ![c] = @ \cup {m}]
    /\ buffered' = [buffered EXCEPT ![c] = @ \cup {m}]
    /\ UNCHANGED <<acked, dead, redelivered, handling, phase, publisher,
                   history, interrupts>>

\* Mutant: the delivery is acknowledged before the handler has run.
AckOnDispatch(c, m) ==
    /\ m \in buffered[c]
    /\ Live(c)
    /\ unacked' = [unacked EXCEPT ![c] = @ \ {m}]
    /\ buffered' = [buffered EXCEPT ![c] = @ \ {m}]
    /\ acked' = acked \cup {m}
    /\ UNCHANGED <<ready, dead, redelivered, handling, phase, publisher,
                   history, interrupts>>

\* A free goroutine takes a delivery and calls the handler.  Deliveries still
\* buffered when the channel closed may be handled as well.
Dispatch(c, m) ==
    /\ m \in buffered[c]
    /\ Cardinality(handling[c]) < Slots
    /\ buffered' = [buffered EXCEPT ![c] = @ \ {m}]
    /\ handling' = [handling EXCEPT ![c] = @ \cup {m}]
    /\ UNCHANGED <<broker, phase, publisher, history, interrupts>>

\* The handler returns and the goroutine is free again.
Return(c, m) ==
    /\ m \in handling[c]
    /\ handling' = [handling EXCEPT ![c] = @ \ {m}]
    /\ UNCHANGED <<buffered, phase, publisher, interrupts>>

\* Mutant: the ack is forgotten.
HandleUnacked(c, m) ==
    /\ Return(c, m)
    /\ Live(c)
    /\ succeeded' = succeeded \cup {m}
    /\ UNCHANGED <<broker, failures>>

\* err = nil: the message is acknowledged.
HandleOk(c, m) ==
    /\ Return(c, m)
    /\ Live(c)
    /\ unacked' = [unacked EXCEPT ![c] = @ \ {m}]
    /\ acked' = acked \cup {m}
    /\ succeeded' = succeeded \cup {m}
    /\ UNCHANGED <<ready, dead, redelivered, failures>>

\* Mutant: the flag is not looked at.
DeadLetterAtOnce(c, m) ==
    /\ Return(c, m)
    /\ Live(c)
    /\ unacked' = [unacked EXCEPT ![c] = @ \ {m}]
    /\ dead' = dead \cup {m}
    /\ failures' = [failures EXCEPT ![m] = @ + 1]
    /\ UNCHANGED <<ready, acked, redelivered, succeeded>>

\* The handler failed and the delivery was not a redelivery: requeue once.
Requeue(c, m) ==
    /\ Return(c, m)
    /\ Live(c)
    /\ m \notin redelivered
    /\ unacked' = [unacked EXCEPT ![c] = @ \ {m}]
    /\ ready' = ready \cup {m}
    /\ redelivered' = redelivered \cup {m}
    /\ failures' = [failures EXCEPT ![m] = @ + 1]
    /\ UNCHANGED <<acked, dead, succeeded>>

\* The handler failed on a redelivery: nack without requeue, to the DLX.
DeadLetter(c, m) ==
    /\ Return(c, m)
    /\ Live(c)
    /\ m \in redelivered
    /\ unacked' = [unacked EXCEPT ![c] = @ \ {m}]
    /\ dead' = dead \cup {m}
    /\ failures' = [failures EXCEPT ![m] = @ + 1]
    /\ UNCHANGED <<ready, acked, redelivered, succeeded>>

\* A handler outlives its channel: the work may have been done, but its ack or
\* nack goes nowhere (the error is dropped) and the broker redelivers.
HandleStale(c, m) ==
    /\ Return(c, m)
    /\ phase[c] = "closed"
    /\ succeeded' \in {succeeded, succeeded \cup {m}}
    /\ UNCHANGED <<broker, failures>>

\* Mutant: the messages are requeued but stay on the channel's account.
ReturnAndKeep(c) ==
    /\ ready' = ready \cup unacked[c]
    /\ redelivered' = redelivered \cup unacked[c]
    /\ UNCHANGED <<unacked, acked, dead>>

\* The broker takes back everything the channel of c held.
ReturnHeld(c) ==
    /\ ready' = ready \cup unacked[c]
    /\ redelivered' = redelivered \cup unacked[c]
    /\ unacked' = [unacked EXCEPT ![c] = {}]
    /\ UNCHANGED <<acked, dead>>

Interrupt == /\ interrupts < MaxInterrupts
             /\ interrupts' = interrupts + 1

\* NotifyClose: the channel is gone, the process waits for its handlers.
ChannelLost(c) ==
    /\ Live(c)
    /\ Interrupt
    /\ ReturnHeld(c)
    /\ phase' = [phase EXCEPT ![c] = "closed"]
    /\ UNCHANGED <<buffered, handling, publisher, history>>

\* ctx.Done: the consumer is cancelled and the goroutines are waited for.
Shutdown(c) ==
    /\ phase[c] = "open"
    /\ Interrupt
    /\ phase' = [phase EXCEPT ![c] = "draining"]
    /\ UNCHANGED <<broker, buffered, handling, publisher, history>>

\* wg.Wait returns and Consume with it; the process ends.
Exit(c) ==
    /\ phase[c] \in {"draining", "closed"}
    /\ buffered[c] = {}
    /\ handling[c] = {}
    /\ phase' = [phase EXCEPT ![c] = "down"]
    /\ UNCHANGED <<broker, buffered, handling, publisher, history, interrupts>>

\* The process dies, and its handlers with it.
Crash(c) ==
    /\ phase[c] # "down"
    /\ Interrupt
    /\ ReturnHeld(c)
    /\ buffered' = [buffered EXCEPT ![c] = {}]
    /\ handling' = [handling EXCEPT ![c] = {}]
    /\ phase' = [phase EXCEPT ![c] = "down"]
    /\ UNCHANGED <<publisher, history>>

-----------------------------------------------------------------------------
PublisherStep == \E m \in Msgs :
                    Send(m) \/ SendFails(m) \/ Confirm(m) \/ ConfirmFails(m)

Handle(c, m) == HandleOk(c, m) \/ Requeue(c, m) \/ DeadLetter(c, m)
                    \/ HandleStale(c, m)

ConsumerStep(c) ==
    \/ Subscribe(c) \/ ChannelLost(c) \/ Shutdown(c) \/ Exit(c) \/ Crash(c)
    \/ \E m \in Msgs : Deliver(c, m) \/ Dispatch(c, m) \/ Handle(c, m)

Next == PublisherStep \/ \E c \in Consumers : ConsumerStep(c)

\* Every confirm is answered or given up, a subscribed consumer is fed and
\* its handlers return (HandleTimeout), a stopped process is started again.
Fairness ==
    /\ WF_vars(\E m \in Msgs : Confirm(m) \/ ConfirmFails(m))
    /\ \A c \in Consumers :
        /\ WF_vars(Subscribe(c))
        /\ WF_vars(Exit(c))
        /\ \A m \in Msgs : /\ WF_vars(Deliver(c, m))
                           /\ WF_vars(Dispatch(c, m))
                           /\ WF_vars(Handle(c, m))

Spec     == Init /\ [][Next]_vars
FairSpec == Spec /\ Fairness

-----------------------------------------------------------------------------
(* Properties.                                                              *)

(* A message the broker took is in exactly one place: the queue, one         *)
(* channel, the settled ones or the dead-letter queue - whatever requeues,   *)
(* lost channels and crashes happened (dispatch, Consume).                   *)
Custody ==
    /\ ready \cap acked = {}
    /\ ready \cap dead = {}
    /\ acked \cap dead = {}
    /\ \A c \in Consumers : unacked[c] \cap (ready \cup acked \cup dead) = {}
    /\ \A c, d \in Consumers : c # d => unacked[c] \cap unacked[d] = {}

(* PublishProto returns nil only for a message that the broker still has, or *)
(* that was handled or dead-lettered: a dropped publish surfaces as an error.*)
ConfirmedIsKept == \A m \in Msgs : result[m] = "ok" => m \in Known

(* Nothing is acknowledged that no handler finished, and a dead-lettered     *)
(* message failed on a redelivery: no first delivery is ever given up.  This  *)
(* is what dispatch does; the comment of HandlerFunc (messaging.go:176) still *)
(* has every error dead-letter its message at once.                          *)
SettledForCause ==
    /\ acked \subseteq succeeded
    /\ \A m \in dead : m \in redelivered /\ failures[m] \in 1..2

(* A poison message cannot loop: a handler's errors move a message at most   *)
(* twice, and the second one ends it (dispatch: requeue once).               *)
NoPoisonLoop ==
    \A m \in Msgs : (m \in ready \/ m \in Held) =>
                        /\ failures[m] <= 1
                        /\ failures[m] = 1 => m \in redelivered

(* While its channel is open, a process holds exactly the deliveries that    *)
(* the broker attributes to it, so every ack settles the right message.      *)
LedgerAgrees ==
    \A c \in Consumers :
        /\ buffered[c] \cap handling[c] = {}
        /\ Live(c) => unacked[c] = buffered[c] \cup handling[c]

(* A channel that is not open has nothing outstanding at the broker, and a   *)
(* process that is down holds nothing itself.                                *)
ClosedHoldsNothing ==
    \A c \in Consumers :
        /\ ~Live(c) => unacked[c] = {}
        /\ phase[c] = "down" => buffered[c] = {} /\ handling[c] = {}

(* Only a redelivered message has a failure behind it.                       *)
FailedIsFlagged ==
    \A m \in Msgs : failures[m] # 0 => m \in redelivered /\ m \in Known

(* A message is sent once: the broker has it only if its publisher waits for *)
(* the confirm or has been given a result.                                   *)
SentOnce == /\ \A m \in Known : result[m] # "none" \/ sending = m
            /\ sending \in Msgs => result[sending] = "none"

(* The inductive invariant.  Custody alone is not inductive: that an ack     *)
(* settles a message its channel holds needs LedgerAgrees, and that a second *)
(* failure is the last one needs NoPoisonLoop and FailedIsFlagged.           *)
IndInv == /\ TypeOK
        /\ Custody
        /\ ConfirmedIsKept
        /\ SettledForCause
        /\ NoPoisonLoop
        /\ LedgerAgrees
        /\ ClosedHoldsNothing
        /\ FailedIsFlagged
        /\ SentOnce

(* Every message the broker took is handled or dead-lettered in the end.     *)
EventuallySettled ==
    \A m \in Msgs : (m \in Known) ~> (m \in acked \cup dead)

(* The queue as its users see it.                                            *)
Fate == [m \in Msgs |-> IF m \in acked THEN "done"
                        ELSE IF m \in dead THEN "dead"
                        ELSE IF m \in Known THEN "pending"
                        ELSE "new"]

Abstract == INSTANCE Delivery WITH
                fate <- Fate, retried <- redelivered,
                promised <- {m \in Msgs : result[m] = "ok"}

(* The consumer library and the broker implement at-least-once delivery with *)
(* one retry.                                                                *)
ImplementsDelivery == Abstract!DSpec
=============================================================================
