------------------------------ MODULE HubProofs ------------------------------
(***************************************************************************)
(* Proofs about Hub for any sockets, owners, buffers and events: a send      *)
(* channel is closed once, and frames keep their order.  What the mutex does *)
(* guard is safe; the panic of SendOnClosed is on the one use it does not.   *)
(***************************************************************************)
EXTENDS Hub, TLAPS

HubConstants == Buffer \in Nat /\ MaxEvents \in Nat

\* Who unregisters first closes the channel; a registered one is open.
Registered == clients \cap closed = {}

\* Only a socket that was registered can be closed.
Known == \A c \in clients \cup closed : conn[c] # "none"

\* The frames of c, the one in hand first, are events in the order they were
\* broadcast, and the event it is still to get comes behind them.
Ordered(c) ==
    /\ \A i \in 1..Len(send[c]) : /\ pump[c] < send[c][i] /\ send[c][i] <= event
                                  /\ c \in targets => send[c][i] < event
    /\ \A i, k \in 1..Len(send[c]) : i < k => send[c][i] < send[c][k]
    /\ pump[c] <= event
    /\ c \in targets => pump[c] < event

HubInv == TypeOK /\ Registered /\ Known /\ \A c \in Clients : Ordered(c)

-----------------------------------------------------------------------------
LEMMA Elements ==
    ASSUME NEW n \in Nat, NEW s \in Seq(1..n)
    PROVE  Len(s) \in Nat /\ \A i \in 1..Len(s) : s[i] \in Nat /\ s[i] \in 1..n
  OBVIOUS

LEMMA Taking ==
    ASSUME NEW n \in Nat, NEW s \in Seq(1..n), s # <<>>
    PROVE  /\ Len(s) \in Nat \ {0} /\ Head(s) = s[1] /\ s[1] \in 1..n
           /\ Tail(s) \in Seq(1..n) /\ Len(Tail(s)) = Len(s) - 1
           /\ \A i \in 1..(Len(s) - 1) : Tail(s)[i] = s[i + 1]
  OBVIOUS

LEMMA HubInit == ASSUME HubConstants, Init PROVE HubInv
  <1>1. TypeOK
    <2>1. <<>> \in Seq(1..MaxEvents) /\ Len(<<>>) = 0 /\ 0 \in 0..MaxEvents
      BY DEF HubConstants
    <2>2. send \in [Clients -> Seq(1..MaxEvents)] /\ \A c \in Clients : Len(send[c]) <= Buffer
      BY <2>1 DEF Init, HubConstants
    <2> QED BY <2>1, <2>2 DEF Init, TypeOK
  <1>2. Registered /\ Known
    BY DEF Init, Registered, Known
  <1>3. ASSUME NEW c \in Clients PROVE Ordered(c)
    <2>1. send[c] = <<>> /\ pump[c] = 0 /\ event = 0 /\ targets = {}
      BY DEF Init
    <2>2. Len(send[c]) = 0
      BY <2>1
    <2> QED BY <2>1, <2>2 DEF Ordered
  <1> QED BY <1>1, <1>2, <1>3 DEF HubInv

\* Steps that leave the frames alone.
LEMMA FramesStay ==
    ASSUME HubConstants, HubInv, UNCHANGED <<send, pump, event>>, targets' \subseteq targets,
           clients' \subseteq Clients, closed' \subseteq Clients, gone' \subseteq Clients,
           conn' \in [Clients -> {"none", "open", "broken", "closed"}],
           panicked' \in BOOLEAN, clients' \cap closed' = {}, Known'
    PROVE  HubInv'
  <1>1. TypeOK'
    BY DEF HubInv, TypeOK
  <1>2. \A c \in Clients : Ordered(c)'
    BY DEF HubInv, Ordered
  <1> QED BY <1>1, <1>2 DEF HubInv, Registered

LEMMA ConsumerStep == ASSUME HubConstants, HubInv, Consumer PROVE HubInv'
  <1>1. ASSUME NEW owner \in Owners, Snapshot(owner) PROVE HubInv'
    <2>1. event' = event + 1 /\ event' \in 0..MaxEvents /\ targets' \subseteq Clients
          /\ UNCHANGED <<clients, send, closed, conn, pump, panicked, gone>>
      BY <1>1 DEF Snapshot, HubInv, TypeOK, HubConstants
    <2>2. TypeOK' /\ Registered' /\ Known'
      BY <2>1 DEF HubInv, TypeOK, Registered, Known
    <2>3. ASSUME NEW c \in Clients PROVE Ordered(c)'
      <3>1. /\ event \in Nat /\ pump[c] \in Nat /\ send[c] \in Seq(1..MaxEvents)
        BY DEF HubInv, TypeOK
      <3>2. \A i \in 1..Len(send[c]) : send[c][i] \in Nat
        BY <3>1, Elements DEF HubConstants
      <3> QED BY <2>1, <3>1, <3>2 DEF HubInv, Ordered
    <2> QED BY <2>2, <2>3 DEF HubInv
  <1>2. ASSUME NEW c \in Clients, Send(c) PROVE HubInv'
    <2>1. /\ c \in targets /\ Len(send[c]) < Buffer
          /\ send' = [send EXCEPT ![c] = Append(send[c], event)]
          /\ targets' = targets \ {c}
          /\ UNCHANGED <<clients, closed, conn, pump, gone, event, panicked>>
      BY <1>2 DEF Send
    <2>2. send[c] \in Seq(1..MaxEvents) /\ event \in 0..MaxEvents /\ pump[c] \in 0..MaxEvents
      BY DEF HubInv, TypeOK
    <2>3. Ordered(c)
      BY DEF HubInv
    <2>4. event \in 1..MaxEvents
      BY <2>1, <2>2, <2>3 DEF Ordered, HubConstants
    <2>5. /\ send'[c] \in Seq(1..MaxEvents) /\ Len(send'[c]) = Len(send[c]) + 1
          /\ send'[c][Len(send[c]) + 1] = event
          /\ \A i \in 1..Len(send[c]) : send'[c][i] = send[c][i]
          /\ \A d \in Clients \ {c} : send'[d] = send[d]
          /\ send' \in [Clients -> Seq(1..MaxEvents)]
      BY <2>1, <2>2, <2>4 DEF HubInv, TypeOK
    <2>6. TypeOK'
      <3>1. Len(send'[c]) <= Buffer
        BY <2>1, <2>2, <2>5 DEF HubConstants
      <3> QED BY <2>1, <2>5, <3>1 DEF HubInv, TypeOK
    <2>7. Registered' /\ Known'
      BY <2>1 DEF HubInv, Registered, Known
    <2>8. Ordered(c)'
      <3>1. pump[c] < event /\ \A i \in 1..Len(send[c]) : send[c][i] < event /\ pump[c] < send[c][i]
        BY <2>1, <2>3 DEF Ordered
      <3>2. \A i \in 1..Len(send'[c]) : i \in 1..Len(send[c]) \/ i = Len(send[c]) + 1
        BY <2>2, <2>5
      <3>3. Len(send[c]) \in Nat /\ \A i \in 1..Len(send[c]) : send[c][i] \in Nat
        BY <2>2, Elements DEF HubConstants
      <3>4. c \notin targets' /\ pump'[c] = pump[c] /\ event' = event
        BY <2>1
      <3>5. \A i \in 1..Len(send'[c]) : pump'[c] < send'[c][i] /\ send'[c][i] <= event'
        BY <2>2, <2>5, <3>1, <3>2, <3>3, <3>4
      <3>6. \A i, k \in 1..Len(send'[c]) : i < k => send'[c][i] < send'[c][k]
        <4> SUFFICES ASSUME NEW i \in 1..Len(send'[c]), NEW k \in 1..Len(send'[c]), i < k
                     PROVE  send'[c][i] < send'[c][k]
          OBVIOUS
        <4>1. i \in 1..Len(send[c])
          BY <2>5, <3>2, <3>3
        <4>2. CASE k \in 1..Len(send[c])
          BY <2>3, <2>5, <4>1, <4>2 DEF Ordered
        <4>3. CASE k = Len(send[c]) + 1
          BY <2>5, <3>1, <4>1, <4>3
        <4> QED BY <3>2, <4>2, <4>3
      <3> QED BY <2>2, <3>1, <3>4, <3>5, <3>6 DEF Ordered
    <2>9. ASSUME NEW d \in Clients \ {c} PROVE Ordered(d)'
      BY <2>1, <2>5 DEF HubInv, Ordered
    <2> QED BY <2>6, <2>7, <2>8, <2>9 DEF HubInv
  <1>3. ASSUME NEW c \in Clients, DropSlow(c) \/ SendOnClosed(c) PROVE HubInv'
    BY <1>3, FramesStay DEF DropSlow, SendOnClosed, close, unregister, HubInv, TypeOK, Registered, Known
  <1> QED BY <1>1, <1>2, <1>3 DEF Consumer

LEMMA GoroutinesStep ==
    ASSUME HubConstants, HubInv, NEW c \in Clients, Goroutines(c) PROVE HubInv'
  <1>1. CASE Register(c)
    <2>1. c \notin closed
      BY <1>1 DEF Register, HubInv, Known
    <2> QED BY <1>1, <2>1, FramesStay DEF Register, HubInv, TypeOK, Registered, Known
  <1>2. CASE Disconnect(c)
    BY <1>2, FramesStay DEF Disconnect, HubInv, TypeOK, Registered, Known
  <1>3. CASE ReadFails(c) \/ PumpFails(c)
    BY <1>3, FramesStay DEF ReadFails, PumpFails, close, unregister, HubInv, TypeOK, Registered, Known
  <1>4. CASE PumpEnds(c)
    BY <1>4, FramesStay DEF PumpEnds, HubInv, TypeOK, Registered, Known
  <1>5. CASE PumpTakes(c)
    <2>1. /\ pump[c] = 0 /\ send[c] # <<>>
          /\ pump' = [pump EXCEPT ![c] = Head(send[c])]
          /\ send' = [send EXCEPT ![c] = Tail(send[c])]
          /\ UNCHANGED <<clients, closed, conn, gone, event, targets, panicked>>
      BY <1>5 DEF PumpTakes
    <2>2. send[c] \in Seq(1..MaxEvents) /\ Len(send[c]) <= Buffer /\ event \in 0..MaxEvents
      BY DEF HubInv, TypeOK
    <2>3. /\ Len(send[c]) \in Nat \ {0} /\ Head(send[c]) = send[c][1]
          /\ Tail(send[c]) \in Seq(1..MaxEvents) /\ Len(Tail(send[c])) = Len(send[c]) - 1
          /\ \A i \in 1..(Len(send[c]) - 1) : Tail(send[c])[i] = send[c][i + 1]
          /\ send[c][1] \in 1..MaxEvents
      BY <2>1, <2>2, Taking DEF HubConstants
    <2>4. /\ send'[c] = Tail(send[c]) /\ pump'[c] = send[c][1]
          /\ \A d \in Clients \ {c} : send'[d] = send[d] /\ pump'[d] = pump[d]
          /\ send' \in [Clients -> Seq(1..MaxEvents)] /\ pump' \in [Clients -> 0..MaxEvents]
      BY <2>1, <2>3 DEF HubInv, TypeOK, HubConstants
    <2>5. TypeOK'
      <3>1. Len(send'[c]) <= Buffer
        BY <2>2, <2>3, <2>4 DEF HubConstants
      <3> QED BY <2>1, <2>4, <3>1 DEF HubInv, TypeOK
    <2>6. Registered' /\ Known'
      BY <2>1 DEF HubInv, Registered, Known
    <2>7. Ordered(c)'
      <3>1. Ordered(c)
        BY DEF HubInv
      <3>2. \A i \in 1..Len(send'[c]) : /\ i \in 1..Len(send[c]) /\ i + 1 \in 1..Len(send[c])
                                        /\ send'[c][i] = send[c][i + 1]
        BY <2>3, <2>4
      <3>3. 1 \in 1..Len(send[c])
        BY <2>3
      <3>4. \A i \in 1..Len(send'[c]) : pump'[c] < send'[c][i]
        BY <2>4, <3>1, <3>2, <3>3 DEF Ordered
      <3> QED BY <2>1, <2>4, <3>1, <3>2, <3>3, <3>4 DEF Ordered
    <2>8. ASSUME NEW d \in Clients \ {c} PROVE Ordered(d)'
      BY <2>1, <2>4 DEF HubInv, Ordered
    <2> QED BY <2>5, <2>6, <2>7, <2>8 DEF HubInv
  <1>6. CASE PumpWrites(c)
    <2>1. /\ pump' = [pump EXCEPT ![c] = 0]
          /\ UNCHANGED <<clients, send, closed, conn, gone, event, targets, panicked>>
      BY <1>6 DEF PumpWrites
    <2>2. TypeOK' /\ Registered' /\ Known'
      BY <2>1 DEF HubInv, TypeOK, Registered, Known, HubConstants
    <2>3. ASSUME NEW d \in Clients PROVE Ordered(d)'
      <3>1. /\ Ordered(d) /\ send[d] \in Seq(1..MaxEvents) /\ event \in 0..MaxEvents
            /\ pump[d] \in 0..MaxEvents /\ pump'[d] \in {0, pump[d]}
        BY <2>1 DEF HubInv, TypeOK
      <3>2. \A i \in 1..Len(send[d]) : send[d][i] \in 1..MaxEvents
        BY <3>1, Elements DEF HubConstants
      <3>3. pump'[d] <= pump[d] /\ pump'[d] \in Nat
        BY <3>1
      <3> QED BY <2>1, <3>1, <3>2, <3>3 DEF Ordered, HubConstants
    <2> QED BY <2>2, <2>3 DEF HubInv
  <1> QED BY <1>1, <1>2, <1>3, <1>4, <1>5, <1>6 DEF Goroutines

(* Whatever comes and goes while the consumer broadcasts, a registered        *)
(* socket's channel is open, so that unregister, called by the consumer, the *)
(* reader and the pump of a socket, closes it once; and a socket's frames,    *)
(* the one being written included, are in the order of their events without  *)
(* one twice.                                                                *)
THEOREM OpenAndOrdered ==
    ASSUME HubConstants
    PROVE  Spec => [](TypeOK /\ Registered /\ \A c \in Clients : Ordered(c))
  <1>1. Init => HubInv
    BY HubInit
  <1>2. HubInv /\ [Next]_vars => HubInv'
    <2>1. ASSUME HubInv, UNCHANGED vars PROVE HubInv'
      BY <2>1 DEF vars, HubInv, TypeOK, Registered, Known, Ordered
    <2> QED BY <2>1, ConsumerStep, GoroutinesStep DEF Next
  <1>3. HubInv => TypeOK /\ Registered /\ \A c \in Clients : Ordered(c)
    BY DEF HubInv
  <1> QED BY <1>1, <1>2, <1>3, PTL DEF Spec
=============================================================================
