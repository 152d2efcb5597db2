--------------------------- MODULE MessagingProofs ---------------------------
(***************************************************************************)
(* Proofs about Messaging for any number of messages and consumers, any     *)
(* prefetch window and any number of interruptions: the inductive invariant,*)
(* the safety invariants it implies, and that the library and the broker    *)
(* implement Delivery.                                                      *)
(***************************************************************************)
EXTENDS Messaging, TLAPS

-----------------------------------------------------------------------------
(* What the broker knows.                                                    *)

LEMMA HeldBy == \A m : m \in Held <=> \E c \in Consumers : m \in unacked[c]
  BY DEF Held

LEMMA HeldByPrime ==
    \A m : m \in Held' <=> \E c \in Consumers : m \in unacked'[c]
  BY DEF Held

LEMMA HeldUnchanged == ASSUME UNCHANGED unacked PROVE Held' = Held
  BY DEF Held

(* A handler that runs on an open channel handles a message that the broker  *)
(* has out on that channel, and nowhere else.                                *)
LEMMA HandledIsOut ==
    ASSUME IndInv, NEW c \in Consumers, NEW m \in handling[c], Live(c)
    PROVE  /\ m \in unacked[c] /\ m \in Msgs /\ m \in Held
           /\ m \notin ready /\ m \notin acked /\ m \notin dead
           /\ \A d \in Consumers : d # c => m \notin unacked[d]
           /\ failures[m] \in 0..1
           /\ failures[m] = 1 => m \in redelivered
  <1>1. m \in unacked[c] /\ m \in Msgs
    BY DEF IndInv, TypeOK, LedgerAgrees
  <1>2. m \in Held
    BY <1>1, HeldBy
  <1>3. /\ m \notin ready /\ m \notin acked /\ m \notin dead
        /\ \A d \in Consumers : d # c => m \notin unacked[d]
    BY <1>1 DEF IndInv, Custody
  <1>4. failures[m] \in 0..1 /\ (failures[m] = 1 => m \in redelivered)
    BY <1>1, <1>2 DEF IndInv, NoPoisonLoop, TypeOK
  <1> QED BY <1>1, <1>2, <1>3, <1>4

(* The steps that move a message from one place to another inside the        *)
(* broker, and the steps that leave the broker alone.                        *)
Settle(c, m) == HandleOk(c, m) \/ Requeue(c, m) \/ DeadLetter(c, m)

Quiet == \/ \E m \in Msgs : SendFails(m) \/ Confirm(m) \/ ConfirmFails(m)
         \/ \E c \in Consumers :
               \/ Subscribe(c) \/ Shutdown(c) \/ Exit(c)
               \/ \E m \in Msgs : Dispatch(c, m) \/ HandleStale(c, m)

LEMMA StepCases ==
    ASSUME [Next]_vars
    PROVE  \/ \E m \in Msgs : Send(m)
           \/ \E c \in Consumers, m \in Msgs : Deliver(c, m) \/ Settle(c, m)
           \/ \E c \in Consumers : ChannelLost(c) \/ Crash(c)
           \/ Quiet
           \/ UNCHANGED vars
  BY DEF Next, PublisherStep, ConsumerStep, Handle, Settle, Quiet

LEMMA QuietBroker == ASSUME Quiet PROVE UNCHANGED broker
  BY DEF Quiet, SendFails, Confirm, ConfirmFails, Subscribe, Shutdown, Exit,
         Dispatch, HandleStale

(* Moving messages about neither loses nor invents one.                      *)
LEMMA KnownMoved ==
    ASSUME IndInv, NEW c \in Consumers,
           ReturnHeld(c) \/ \E m \in Msgs : Deliver(c, m) \/ Settle(c, m)
    PROVE  Known' = Known
  <1> SUFFICES ASSUME NEW k PROVE k \in Known' <=> k \in Known
    OBVIOUS
  <1>1. CASE ReturnHeld(c)
    <2>1. /\ unacked'[c] = {}
          /\ \A d \in Consumers : d # c => unacked'[d] = unacked[d]
      BY <1>1 DEF ReturnHeld, IndInv, TypeOK
    <2>2. k \in Held <=> k \in Held' \/ k \in unacked[c]
      BY <2>1, HeldBy, HeldByPrime
    <2> QED BY <1>1, <2>2 DEF ReturnHeld, Known
  <1>2. ASSUME NEW m \in Msgs, Deliver(c, m) PROVE k \in Known' <=> k \in Known
    <2>1. /\ unacked'[c] = unacked[c] \cup {m}
          /\ \A d \in Consumers : d # c => unacked'[d] = unacked[d]
      BY <1>2 DEF Deliver, IndInv, TypeOK
    <2>2. k \in Held' <=> k \in Held \/ k = m
      BY <2>1, HeldBy, HeldByPrime
    <2> QED BY <1>2, <2>2 DEF Deliver, Known
  <1>3. ASSUME NEW m \in Msgs, Settle(c, m) PROVE k \in Known' <=> k \in Known
    <2>0. m \in handling[c] /\ Live(c)
      BY <1>3 DEF Settle, HandleOk, Requeue, DeadLetter, Return
    <2>1. m \in Held /\ \A d \in Consumers : d # c => m \notin unacked[d]
      BY <2>0, HandledIsOut
    <2>2. /\ unacked'[c] = unacked[c] \ {m}
          /\ \A d \in Consumers : d # c => unacked'[d] = unacked[d]
      BY <1>3 DEF Settle, HandleOk, Requeue, DeadLetter, IndInv, TypeOK
    <2>3. k \in Held' <=> k \in Held /\ k # m
      BY <2>1, <2>2, HeldBy, HeldByPrime
    <2> QED BY <1>3, <2>1, <2>3 DEF Settle, HandleOk, Requeue, DeadLetter, Known
  <1> QED BY <1>1, <1>2, <1>3

(* Only a send makes the broker know more, and nothing makes it know less.   *)
LEMMA KnownStep ==
    ASSUME IndInv, [Next]_vars
    PROVE  \/ Known' = Known
           \/ \E m \in Msgs : Send(m) /\ Known' = Known \cup {m}
  <1>1. CASE UNCHANGED broker
    BY <1>1, HeldUnchanged DEF broker, Known
  <1>2. ASSUME NEW m \in Msgs, Send(m)
        PROVE  Known' = Known \/ Known' = Known \cup {m}
    BY <1>2, HeldUnchanged DEF Send, Known
  <1>3. ASSUME NEW c \in Consumers, ChannelLost(c) \/ Crash(c)
        PROVE  Known' = Known
    BY <1>3, KnownMoved DEF ChannelLost, Crash
  <1> QED
    BY <1>1, <1>2, <1>3, KnownMoved, QuietBroker, StepCases DEF vars

-----------------------------------------------------------------------------
(* The invariant is inductive.                                               *)

LEMMA InitIndInv == Init => IndInv
  <1> SUFFICES ASSUME Init PROVE IndInv
    OBVIOUS
  <1>1. TypeOK
    BY MessagingAssumption DEF Init, TypeOK, Phases, Results
  <1>2. Known = {}
    BY HeldBy DEF Init, Known
  <1>3. Custody /\ ConfirmedIsKept /\ SettledForCause /\ SentOnce
    BY <1>2, MessagingAssumption
    DEF Init, Custody, ConfirmedIsKept, SettledForCause, SentOnce
  <1>4. NoPoisonLoop /\ FailedIsFlagged
    BY DEF Init, NoPoisonLoop, FailedIsFlagged
  <1>5. LedgerAgrees /\ ClosedHoldsNothing
    BY DEF Init, LedgerAgrees, ClosedHoldsNothing, Live
  <1> QED BY <1>1, <1>3, <1>4, <1>5 DEF IndInv

(* The publisher's part: what it was told and what it sent.                  *)
LEMMA PublisherStepKeeps ==
    ASSUME IndInv, [Next]_vars
    PROVE  ConfirmedIsKept' /\ SentOnce'
  <1>1. CASE UNCHANGED publisher
    <2>1. Known' = Known
      <3>1. ASSUME NEW m \in Msgs PROVE ~Send(m)
        BY <1>1, MessagingAssumption DEF Send, publisher
      <3> QED BY <3>1, KnownStep
    <2> QED
      BY <1>1, <2>1 DEF publisher, IndInv, ConfirmedIsKept, SentOnce
  <1>2. ASSUME NEW m \in Msgs, Send(m) PROVE ConfirmedIsKept' /\ SentOnce'
    <2>1. Known' = Known \/ Known' = Known \cup {m}
      BY <1>2, HeldUnchanged DEF Send, Known
    <2>2. Known \subseteq Msgs
      BY HeldBy DEF Known, IndInv, TypeOK
    <2>3. \A k \in Known : result[k] # "none"
      BY <1>2, <2>2, MessagingAssumption DEF Send, IndInv, SentOnce
    <2> QED
      BY <1>2, <2>1, <2>3
      DEF Send, IndInv, ConfirmedIsKept, SentOnce, TypeOK
  <1>3. ASSUME NEW m \in Msgs, SendFails(m) \/ Confirm(m) \/ ConfirmFails(m)
        PROVE  ConfirmedIsKept' /\ SentOnce'
    <2>1. Known' = Known
      BY <1>3, HeldUnchanged
      DEF SendFails, Confirm, ConfirmFails, broker, Known
    <2>2. Known \subseteq Msgs
      BY HeldBy DEF Known, IndInv, TypeOK
    <2>3. /\ result' = [result EXCEPT ![m] = result'[m]]
          /\ result'[m] \in {"ok", "error"}
          /\ result'[m] = "ok" => m \in Known
      BY <1>3 DEF SendFails, Confirm, ConfirmFails, IndInv, TypeOK
    <2>4. (sending' = sending \/ sending = m) /\ sending' = NoMsg
      BY <1>3 DEF SendFails, Confirm, ConfirmFails
    <2> QED
      BY <2>1, <2>2, <2>3, <2>4, MessagingAssumption
      DEF IndInv, ConfirmedIsKept, SentOnce, TypeOK
  <1>4. ASSUME ~UNCHANGED publisher
        PROVE  \E m \in Msgs : Send(m) \/ SendFails(m) \/ Confirm(m)
                                   \/ ConfirmFails(m)
    BY <1>4
    DEF Next, PublisherStep, ConsumerStep, Handle, vars, publisher, Subscribe,
        ChannelLost, Shutdown, Exit, Crash, Deliver, Dispatch, HandleOk,
        Requeue, DeadLetter, HandleStale, Return
  <1> QED BY <1>1, <1>2, <1>3, <1>4

(* The broker's and the consumers' part.                                     *)
QueueInv == /\ TypeOK
            /\ Custody
            /\ SettledForCause
            /\ NoPoisonLoop
            /\ LedgerAgrees
            /\ ClosedHoldsNothing
            /\ FailedIsFlagged

LEMMA SendKeeps ==
    ASSUME IndInv, NEW m \in Msgs, Send(m) PROVE QueueInv'
  <1>1. m \notin Known
    BY MessagingAssumption DEF Send, IndInv, SentOnce
  <1>2. \A c \in Consumers : m \notin unacked[c]
    BY <1>1, HeldBy DEF Known
  <1>3. failures[m] = 0
    BY <1>1 DEF IndInv, FailedIsFlagged
  <1>4. Held' = Held /\ Known \subseteq Known'
    BY HeldUnchanged DEF Send, Known
  <1>5. TypeOK'
    BY DEF Send, IndInv, TypeOK, process, history
  <1>6. Custody'
    BY <1>1, <1>2 DEF Send, IndInv, Custody, Known
  <1>7. NoPoisonLoop'
    BY <1>3, <1>4 DEF Send, IndInv, NoPoisonLoop, history
  <1>8. SettledForCause' /\ LedgerAgrees' /\ ClosedHoldsNothing'
            /\ FailedIsFlagged'
    BY <1>4 DEF Send, IndInv, SettledForCause, LedgerAgrees, ClosedHoldsNothing,
           FailedIsFlagged, Live, process, history
  <1> QED BY <1>5, <1>6, <1>7, <1>8 DEF QueueInv

LEMMA DeliverKeeps ==
    ASSUME IndInv, NEW c \in Consumers, NEW m \in Msgs, Deliver(c, m)
    PROVE  QueueInv'
  <1>1. /\ unacked'[c] = unacked[c] \cup {m}
        /\ \A d \in Consumers : d # c => unacked'[d] = unacked[d]
    BY DEF Deliver, IndInv, TypeOK
  <1>2. TypeOK'
    BY DEF Deliver, IndInv, TypeOK, publisher, history
  <1>3. Custody'
    BY <1>1 DEF Deliver, IndInv, Custody
  <1>4. \A k : k \in Held' <=> k \in Held \/ k = m
    BY <1>1, HeldBy, HeldByPrime
  <1>5. NoPoisonLoop'
    BY <1>4 DEF Deliver, IndInv, NoPoisonLoop, history
  <1>6. LedgerAgrees' /\ ClosedHoldsNothing'
    <2>1. m \notin handling[c] /\ Live(c)
      BY DEF Deliver, IndInv, Custody, LedgerAgrees
    <2>2. /\ buffered'[c] = buffered[c] \cup {m}
          /\ \A d \in Consumers : d # c => buffered'[d] = buffered[d]
          /\ UNCHANGED <<handling, phase>>
      BY DEF Deliver, IndInv, TypeOK
    <2> QED
      BY <1>1, <2>1, <2>2
      DEF IndInv, LedgerAgrees, ClosedHoldsNothing, Live
  <1>7. SettledForCause' /\ FailedIsFlagged'
    BY KnownMoved DEF Deliver, IndInv, SettledForCause, FailedIsFlagged, history
  <1> QED BY <1>2, <1>3, <1>5, <1>6, <1>7 DEF QueueInv

LEMMA SettleKeeps ==
    ASSUME IndInv, NEW c \in Consumers, NEW m \in Msgs, Settle(c, m)
    PROVE  QueueInv'
  <1>1. m \in handling[c] /\ Live(c)
    BY DEF Settle, HandleOk, Requeue, DeadLetter, Return
  <1>2. /\ m \in unacked[c] /\ m \in Held
        /\ m \notin ready /\ m \notin acked /\ m \notin dead
        /\ \A d \in Consumers : d # c => m \notin unacked[d]
        /\ failures[m] \in 0..1
        /\ failures[m] = 1 => m \in redelivered
    BY <1>1, HandledIsOut
  <1>3. /\ unacked'[c] = unacked[c] \ {m}
        /\ \A d \in Consumers : d # c => unacked'[d] = unacked[d]
    BY DEF Settle, HandleOk, Requeue, DeadLetter, IndInv, TypeOK
  <1>4. \A k : k \in Held' <=> k \in Held /\ k # m
    BY <1>2, <1>3, HeldBy, HeldByPrime
  <1>5. /\ handling'[c] = handling[c] \ {m}
        /\ \A d \in Consumers : d # c => handling'[d] = handling[d]
        /\ UNCHANGED <<buffered, phase>>
    BY DEF Settle, HandleOk, Requeue, DeadLetter, Return, IndInv, TypeOK
  <1>6. Known' = Known
    BY KnownMoved
  <1>7. LedgerAgrees' /\ ClosedHoldsNothing'
    BY <1>1, <1>3, <1>5 DEF IndInv, LedgerAgrees, ClosedHoldsNothing, Live
  <1>8. CASE HandleOk(c, m)
    <2>1. TypeOK'
      BY <1>8 DEF HandleOk, Return, IndInv, TypeOK, publisher
    <2>2. Custody'
      BY <1>2, <1>3, <1>8 DEF HandleOk, IndInv, Custody
    <2>3. NoPoisonLoop' /\ FailedIsFlagged' /\ SettledForCause'
      BY <1>4, <1>6, <1>8
      DEF HandleOk, IndInv, NoPoisonLoop, FailedIsFlagged, SettledForCause
    <2> QED BY <1>7, <2>1, <2>2, <2>3 DEF QueueInv
  <1>9. CASE Requeue(c, m)
    <2>0. m \notin redelivered /\ failures[m] = 0
      BY <1>2, <1>9 DEF Requeue
    <2>1. TypeOK'
      BY <1>9, <2>0 DEF Requeue, Return, IndInv, TypeOK, publisher
    <2>2. Custody'
      BY <1>2, <1>3, <1>9 DEF Requeue, IndInv, Custody
    <2>3. failures'[m] = 1 /\ \A k \in Msgs : k # m => failures'[k] = failures[k]
      BY <1>9, <2>0 DEF Requeue, IndInv, TypeOK
    <2>4. m \in redelivered' /\ redelivered \subseteq redelivered'
      BY <1>9 DEF Requeue
    <2>5. NoPoisonLoop'
      BY <1>4, <1>9, <2>3, <2>4 DEF Requeue, IndInv, NoPoisonLoop
    <2>6. FailedIsFlagged'
      BY <1>2, <1>6, <2>3, <2>4 DEF IndInv, FailedIsFlagged, Known
    <2>7. SettledForCause'
      BY <1>2, <1>9, <2>3, <2>4 DEF Requeue, IndInv, SettledForCause
    <2> QED BY <1>7, <2>1, <2>2, <2>5, <2>6, <2>7 DEF QueueInv
  <1>10. CASE DeadLetter(c, m)
    <2>1. TypeOK'
      BY <1>2, <1>10 DEF DeadLetter, Return, IndInv, TypeOK, publisher
    <2>2. Custody'
      BY <1>2, <1>3, <1>10 DEF DeadLetter, IndInv, Custody
    <2>3. /\ failures'[m] \in 1..2
          /\ \A k \in Msgs : k # m => failures'[k] = failures[k]
      BY <1>2, <1>10 DEF DeadLetter, IndInv, TypeOK
    <2>4. m \in redelivered /\ UNCHANGED redelivered
      BY <1>10 DEF DeadLetter
    <2>5. NoPoisonLoop'
      BY <1>2, <1>4, <1>10, <2>3, <2>4 DEF DeadLetter, IndInv, NoPoisonLoop
    <2>6. FailedIsFlagged'
      BY <1>2, <1>6, <2>3, <2>4 DEF IndInv, FailedIsFlagged, Known
    <2>7. SettledForCause'
      BY <1>10, <2>3, <2>4 DEF DeadLetter, IndInv, SettledForCause
    <2> QED BY <1>7, <2>1, <2>2, <2>5, <2>6, <2>7 DEF QueueInv
  <1> QED BY <1>8, <1>9, <1>10 DEF Settle

LEMMA InterruptKeeps ==
    ASSUME IndInv, NEW c \in Consumers, ChannelLost(c) \/ Crash(c)
    PROVE  QueueInv'
  <1>1. ReturnHeld(c) /\ UNCHANGED <<publisher, history>>
    BY DEF ChannelLost, Crash
  <1>2. /\ unacked'[c] = {}
        /\ \A d \in Consumers : d # c => unacked'[d] = unacked[d]
    BY <1>1 DEF ReturnHeld, IndInv, TypeOK
  <1>3. /\ ~Live(c)'
        /\ \A d \in Consumers : d # c => /\ phase'[d] = phase[d]
                                        /\ buffered'[d] = buffered[d]
                                        /\ handling'[d] = handling[d]
        /\ buffered'[c] \cap handling'[c] = {}
        /\ phase'[c] = "down" => buffered'[c] = {} /\ handling'[c] = {}
    BY DEF ChannelLost, Crash, Live, IndInv, TypeOK, LedgerAgrees
  <1>4. Known' = Known
    BY <1>1, KnownMoved
  <1>5. TypeOK'
    <2>1. interrupts' \in 0..MaxInterrupts
      BY MessagingAssumption DEF ChannelLost, Crash, Interrupt, IndInv, TypeOK
    <2>2. /\ ready' \subseteq Msgs /\ redelivered' \subseteq Msgs
          /\ unacked' \in [Consumers -> SUBSET Msgs]
          /\ acked' = acked /\ dead' = dead
      BY <1>1 DEF ReturnHeld, IndInv, TypeOK
    <2>3. /\ buffered' \in [Consumers -> SUBSET Msgs]
          /\ handling' \in [Consumers -> SUBSET Msgs]
          /\ phase' \in [Consumers -> Phases]
      BY DEF ChannelLost, Crash, IndInv, TypeOK, Phases
    <2> QED
      BY <1>1, <2>1, <2>2, <2>3 DEF IndInv, TypeOK, publisher, history
  <1>6. Custody'
    BY <1>1, <1>2 DEF ReturnHeld, IndInv, Custody
  <1>7. LedgerAgrees' /\ ClosedHoldsNothing'
    BY <1>2, <1>3 DEF IndInv, LedgerAgrees, ClosedHoldsNothing, Live
  <1>8. \A k : k \in ready' \/ k \in Held' => k \in ready \/ k \in Held
    BY <1>1, <1>2, HeldBy, HeldByPrime DEF ReturnHeld
  <1>9. redelivered \subseteq redelivered' /\ UNCHANGED failures
    BY <1>1 DEF ReturnHeld, history
  <1>10. NoPoisonLoop'
    BY <1>8, <1>9 DEF IndInv, NoPoisonLoop
  <1>11. SettledForCause' /\ FailedIsFlagged'
    BY <1>1, <1>4, <1>9
    DEF ReturnHeld, IndInv, SettledForCause, FailedIsFlagged, history
  <1> QED BY <1>5, <1>6, <1>7, <1>10, <1>11 DEF QueueInv

(* The steps that leave the broker alone can only disturb what a process     *)
(* holds, and the history of finished handlers.                              *)
LEMMA QuietKeeps == ASSUME IndInv, Quiet PROVE QueueInv'
  <1>1. UNCHANGED broker
    BY QuietBroker
  <1>2. Held' = Held /\ Known' = Known
    BY <1>1, HeldUnchanged DEF broker, Known
  <1>3. UNCHANGED failures /\ succeeded \subseteq succeeded'
            /\ succeeded' \subseteq Msgs
    BY DEF Quiet, SendFails, Confirm, ConfirmFails, Subscribe, Shutdown, Exit,
           Dispatch, HandleStale, history, IndInv, TypeOK
  <1>4. Custody' /\ SettledForCause' /\ NoPoisonLoop' /\ FailedIsFlagged'
    BY <1>1, <1>2, <1>3
    DEF broker, IndInv, Custody, SettledForCause, NoPoisonLoop, FailedIsFlagged
  <1>5. ASSUME NEW m \in Msgs, SendFails(m) \/ Confirm(m) \/ ConfirmFails(m)
        PROVE  TypeOK' /\ LedgerAgrees' /\ ClosedHoldsNothing'
    BY <1>1, <1>5
    DEF SendFails, Confirm, ConfirmFails, broker, process, history, IndInv,
        TypeOK, Results, LedgerAgrees, ClosedHoldsNothing, Live
  <1>6. ASSUME NEW c \in Consumers, Subscribe(c) \/ Shutdown(c) \/ Exit(c)
        PROVE  TypeOK' /\ LedgerAgrees' /\ ClosedHoldsNothing'
    <2>1. /\ phase' \in [Consumers -> Phases]
          /\ \A d \in Consumers : d # c => phase'[d] = phase[d]
          /\ UNCHANGED <<buffered, handling, publisher, history>>
      BY <1>6 DEF Subscribe, Shutdown, Exit, IndInv, TypeOK, Phases
    <2>2. interrupts' \in 0..MaxInterrupts
      BY <1>6, MessagingAssumption
      DEF Subscribe, Shutdown, Exit, Interrupt, IndInv, TypeOK
    <2>3. TypeOK'
      BY <1>1, <2>1, <2>2 DEF broker, IndInv, TypeOK, publisher, history
    <2>4. Live(c)' => unacked[c] = buffered[c] \cup handling[c]
      BY <1>6
      DEF Subscribe, Shutdown, Exit, IndInv, TypeOK, LedgerAgrees,
          ClosedHoldsNothing, Live
    <2>5. /\ ~Live(c)' => unacked[c] = {}
          /\ phase'[c] = "down" => buffered[c] = {} /\ handling[c] = {}
      BY <1>6
      DEF Subscribe, Shutdown, Exit, IndInv, TypeOK, LedgerAgrees,
          ClosedHoldsNothing, Live
    <2> QED
      BY <1>1, <2>1, <2>3, <2>4, <2>5
      DEF broker, IndInv, LedgerAgrees, ClosedHoldsNothing, Live
  <1>7. ASSUME NEW c \in Consumers, NEW m \in Msgs, Dispatch(c, m)
        PROVE  TypeOK' /\ LedgerAgrees' /\ ClosedHoldsNothing'
    <2>1. /\ m \in buffered[c]
          /\ buffered'[c] = buffered[c] \ {m}
          /\ handling'[c] = handling[c] \cup {m}
          /\ \A d \in Consumers : d # c => /\ buffered'[d] = buffered[d]
                                          /\ handling'[d] = handling[d]
          /\ UNCHANGED phase
      BY <1>7 DEF Dispatch, IndInv, TypeOK
    <2>2. TypeOK'
      BY <1>7 DEF Dispatch, IndInv, TypeOK, broker, publisher, history
    <2> QED
      BY <1>1, <2>1, <2>2
      DEF broker, IndInv, LedgerAgrees, ClosedHoldsNothing, Live
  <1>8. ASSUME NEW c \in Consumers, NEW m \in Msgs, HandleStale(c, m)
        PROVE  TypeOK' /\ LedgerAgrees' /\ ClosedHoldsNothing'
    <2>1. /\ handling'[c] = handling[c] \ {m}
          /\ \A d \in Consumers : d # c => handling'[d] = handling[d]
          /\ ~Live(c)
          /\ UNCHANGED <<buffered, phase>>
      BY <1>8 DEF HandleStale, Return, IndInv, TypeOK, Live
    <2>2. TypeOK'
      BY <1>1, <1>3, <1>8
      DEF HandleStale, Return, IndInv, TypeOK, broker, publisher
    <2> QED
      BY <1>1, <2>1, <2>2
      DEF broker, IndInv, LedgerAgrees, ClosedHoldsNothing, Live
  <1> QED BY <1>4, <1>5, <1>6, <1>7, <1>8 DEF Quiet, QueueInv

LEMMA StepIndInv == IndInv /\ [Next]_vars => IndInv'
  <1> SUFFICES ASSUME IndInv, [Next]_vars PROVE IndInv'
    OBVIOUS
  <1>1. CASE UNCHANGED vars
    <2>1. Held' = Held /\ Known' = Known
      BY <1>1, HeldUnchanged DEF vars, broker, Known
    <2> QED
      BY <1>1, <2>1
      DEF vars, broker, process, publisher, history, IndInv, TypeOK, Custody,
          ConfirmedIsKept, SettledForCause, NoPoisonLoop, LedgerAgrees,
          ClosedHoldsNothing, FailedIsFlagged, SentOnce, Live
  <1>2. CASE ~UNCHANGED vars
    <2>1. QueueInv'
      BY <1>2, StepCases, SendKeeps, DeliverKeeps, SettleKeeps,
         InterruptKeeps, QuietKeeps
    <2> QED BY <2>1, PublisherStepKeeps DEF IndInv, QueueInv
  <1> QED BY <1>1, <1>2

(* The inductive invariant holds of every execution of the queue.            *)
THEOREM Inductive == Spec => []IndInv
  <1>1. Init => IndInv
    BY InitIndInv
  <1>2. IndInv /\ [Next]_vars => IndInv'
    BY StepIndInv
  <1> QED BY <1>1, <1>2, PTL DEF Spec

(* Every variable keeps its type; in particular no message ever collects     *)
(* more than two failures, whatever crashes and requeues happen.             *)
THEOREM TypeCorrect == Spec => []TypeOK
  <1>1. IndInv => TypeOK
    BY DEF IndInv
  <1> QED BY <1>1, Inductive, PTL

(* The broker never duplicates a message or files it twice.                  *)
THEOREM CustodyHolds == Spec => []Custody
  <1>1. IndInv => Custody
    BY DEF IndInv
  <1> QED BY <1>1, Inductive, PTL

(* A nil result of PublishProto is a promise the queue keeps.                *)
THEOREM NoConfirmedLoss == Spec => []ConfirmedIsKept
  <1>1. IndInv => ConfirmedIsKept
    BY DEF IndInv
  <1> QED BY <1>1, Inductive, PTL

(* Nothing is settled without its cause, and a poison message cannot loop.   *)
THEOREM RetryBudget == Spec => [](SettledForCause /\ NoPoisonLoop)
  <1>1. IndInv => SettledForCause /\ NoPoisonLoop
    BY DEF IndInv
  <1> QED BY <1>1, Inductive, PTL

-----------------------------------------------------------------------------
(* The queue implements Delivery.                                            *)

Promised == {m \in Msgs : result[m] = "ok"}

LEMMA FateKnown ==
    ASSUME IndInv, NEW m \in Msgs
    PROVE  /\ Fate[m] = "new" <=> m \notin Known
           /\ Fate[m] = "pending" <=> m \in ready \/ m \in Held
           /\ Fate[m] = "done" <=> m \in acked
           /\ Fate[m] = "dead" <=> m \in dead
           /\ Fate[m] \in {"new", "pending", "done", "dead"}
  <1>1. m \in Held => m \notin acked /\ m \notin dead
    BY HeldBy DEF IndInv, Custody
  <1> QED BY <1>1 DEF Fate, Known, IndInv, Custody

(* A step that keeps the broker's knowledge and settles nothing keeps every  *)
(* fate.                                                                     *)
LEMMA FateKept ==
    ASSUME Known' = Known, UNCHANGED <<acked, dead>>
    PROVE  Fate' = Fate
  BY DEF Fate

LEMMA InitRefines == Init => Abstract!DInit
  <1> SUFFICES ASSUME Init PROVE Abstract!DInit
    OBVIOUS
  <1>1. Known = {}
    BY HeldBy DEF Init, Known
  <1> QED BY <1>1 DEF Init, Abstract!DInit, Fate

LEMMA StepRefines ==
    ASSUME IndInv, [Next]_vars
    PROVE  Abstract!DNext \/ UNCHANGED Abstract!dvars
  <1>1. ASSUME NEW m \in Msgs, Send(m)
        PROVE  Abstract!Accept(m) \/ UNCHANGED Abstract!dvars
    <2>1. m \notin Known
      BY <1>1, MessagingAssumption DEF Send, IndInv, SentOnce
    <2>2. Known' = Known \/ Known' = Known \cup {m}
      BY <1>1, HeldUnchanged DEF Send, Known
    <2>3. UNCHANGED <<acked, dead, redelivered, result>>
      BY <1>1 DEF Send
    <2>4. CASE Known' = Known
      BY <2>3, <2>4, FateKept DEF Abstract!dvars
    <2>5. CASE Known' = Known \cup {m}
      <3>1. Fate[m] = "new" /\ m \notin acked /\ m \notin dead
        BY <2>1, FateKnown DEF Known
      <3>2. Fate' = [Fate EXCEPT ![m] = "pending"]
        BY <2>1, <2>3, <2>5, <3>1 DEF Fate
      <3> QED BY <2>3, <3>1, <3>2 DEF Abstract!Accept
    <2> QED BY <2>2, <2>4, <2>5
  <1>2. ASSUME NEW c \in Consumers, NEW m \in Msgs, Deliver(c, m)
        PROVE  UNCHANGED Abstract!dvars
    <2>1. Known' = Known /\ UNCHANGED <<acked, dead, redelivered, result>>
      BY <1>2, KnownMoved DEF Deliver, publisher
    <2> QED BY <2>1, FateKept DEF Abstract!dvars
  <1>3. ASSUME NEW c \in Consumers, NEW m \in Msgs, Settle(c, m)
        PROVE  Abstract!DNext
    <2>1. Known' = Known /\ UNCHANGED result
      BY <1>3, KnownMoved
      DEF Settle, HandleOk, Requeue, DeadLetter, Return, publisher
    <2>2. m \in Held /\ m \notin acked /\ m \notin dead /\ m \in Known
      BY <1>3, HandledIsOut
      DEF Settle, HandleOk, Requeue, DeadLetter, Return, Known
    <2>3. Fate[m] = "pending"
      BY <2>2, FateKnown
    <2>4. CASE HandleOk(c, m)
      <3>1. Fate' = [Fate EXCEPT ![m] = "done"]
        BY <2>1, <2>4 DEF HandleOk, Fate
      <3>2. Abstract!Finish(m)
        BY <2>1, <2>3, <2>4, <3>1 DEF HandleOk, Abstract!Finish
      <3> QED BY <3>2 DEF Abstract!DNext
    <2>5. CASE Requeue(c, m)
      <3>1. Fate' = Fate
        BY <2>1, <2>5, FateKept DEF Requeue
      <3>2. Abstract!Retry({m})
        BY <2>1, <2>3, <2>5, <3>1 DEF Requeue, Abstract!Retry
      <3> QED BY <3>2 DEF Abstract!DNext
    <2>6. CASE DeadLetter(c, m)
      <3>1. Fate' = [Fate EXCEPT ![m] = "dead"]
        BY <2>1, <2>2, <2>6 DEF DeadLetter, Fate
      <3>2. Abstract!GiveUp(m)
        BY <2>1, <2>3, <2>6, <3>1 DEF DeadLetter, Abstract!GiveUp
      <3> QED BY <3>2 DEF Abstract!DNext
    <2> QED BY <1>3, <2>4, <2>5, <2>6 DEF Settle
  <1>4. ASSUME NEW c \in Consumers, ChannelLost(c) \/ Crash(c)
        PROVE  Abstract!DNext
    <2>1. ReturnHeld(c) /\ UNCHANGED result
      BY <1>4 DEF ChannelLost, Crash, publisher
    <2>2. Known' = Known
      BY <2>1, KnownMoved
    <2>3. Fate' = Fate
      BY <2>1, <2>2, FateKept DEF ReturnHeld
    <2>4. unacked[c] \in SUBSET Msgs
      BY DEF IndInv, TypeOK
    <2>5. \A m \in unacked[c] : Fate[m] = "pending"
      BY <2>4, FateKnown, HeldBy
    <2>6. Abstract!Retry(unacked[c])
      BY <2>1, <2>3, <2>5 DEF ReturnHeld, Abstract!Retry
    <2> QED BY <2>4, <2>6 DEF Abstract!DNext
  <1>5. CASE Quiet
    <2>1. Fate' = Fate /\ UNCHANGED redelivered
      BY <1>5, QuietBroker, HeldUnchanged, FateKept DEF broker, Known
    <2>2. CASE UNCHANGED result
      BY <2>1, <2>2 DEF Abstract!dvars
    <2>3. ASSUME NEW m \in Msgs, SendFails(m) \/ ConfirmFails(m)
          PROVE  UNCHANGED Abstract!dvars
      <3>1. result[m] = "none" /\ result' = [result EXCEPT ![m] = "error"]
        BY <2>3 DEF SendFails, ConfirmFails, IndInv, SentOnce
      <3>2. Promised' = Promised
        BY <3>1 DEF Promised, IndInv, TypeOK
      <3> QED BY <2>1, <3>2 DEF Abstract!dvars, Promised
    <2>4. ASSUME NEW m \in Msgs, Confirm(m) PROVE Abstract!Promise(m)
      <3>1. Fate[m] # "new"
        BY <2>4, FateKnown DEF Confirm
      <3>2. Promised' = Promised \cup {m}
        BY <2>4 DEF Confirm, Promised, IndInv, TypeOK
      <3> QED BY <2>1, <3>1, <3>2 DEF Abstract!Promise, Promised
    <2>5. ASSUME ~UNCHANGED result
          PROVE  \E m \in Msgs : SendFails(m) \/ Confirm(m) \/ ConfirmFails(m)
      BY <1>5, <2>5
      DEF Quiet, Subscribe, Shutdown, Exit, Dispatch, HandleStale, Return,
          publisher
    <2> QED BY <2>2, <2>3, <2>4, <2>5 DEF Abstract!DNext
  <1>6. CASE UNCHANGED vars
    <2>1. Known' = Known
      BY <1>6, HeldUnchanged DEF vars, broker, Known
    <2> QED
      BY <1>6, <2>1, FateKept DEF vars, broker, publisher, Abstract!dvars
  <1> QED
    BY <1>1, <1>2, <1>3, <1>4, <1>5, <1>6, StepCases DEF Abstract!DNext

(* For any number of messages and consumers, the consumer library and the    *)
(* broker together are an at-least-once queue with one retry.                *)
THEOREM Refinement == Spec => ImplementsDelivery
  <1>1. Init => Abstract!DInit
    BY InitRefines
  <1>2. IndInv /\ [Next]_vars => [Abstract!DNext]_(Abstract!dvars)
    BY StepRefines
  <1> QED
    BY <1>1, <1>2, Inductive, PTL DEF Spec, ImplementsDelivery, Abstract!DSpec
=============================================================================
