-------------------------------- MODULE Hub --------------------------------
(***************************************************************************)
(* The WebSocket hub of main-service: the events consumer broadcasts to the  *)
(* sockets of an owner while readers and writer pumps remove theirs.  Each   *)
(* step between two uses of the hub's mutex is an action.                   *)
(***************************************************************************)
EXTENDS Naturals, Sequences, FiniteSets

CONSTANTS Clients,   \* sockets
          Owners,
          OwnerOf,   \* OwnerOf[c]: whose socket it is
          Buffer,    \* capacity of a send channel, at least 1
          MaxEvents  \* bound: events broadcast

VARIABLES clients,  \* the registry
          send,     \* what each send channel holds
          closed,   \* clients whose send channel is closed
          conn,     \* "none", "open", "broken" (by the peer) or "closed"
          pump,     \* the frame a writer pump has in hand, 0 if none
          gone,     \* clients whose pump has returned
          event,    \* events so far; the last one is being broadcast
          targets,  \* snapshot of the clients it still has to go to
          panicked  \* the process has died of a panic

vars == <<clients, send, closed, conn, pump, gone, event, targets, panicked>>

TypeOK ==
    /\ clients \subseteq Clients
    /\ send \in [Clients -> Seq(1..MaxEvents)]
    /\ \A c \in Clients : Len(send[c]) <= Buffer
    /\ closed \subseteq Clients
    /\ conn \in [Clients -> {"none", "open", "broken", "closed"}]
    /\ pump \in [Clients -> 0..MaxEvents]
    /\ gone \subseteq Clients
    /\ event \in 0..MaxEvents
    /\ targets \subseteq Clients
    /\ panicked \in BOOLEAN

Init ==
    /\ clients = {}
    /\ send = [c \in Clients |-> <<>>]
    /\ closed = {}
    /\ conn = [c \in Clients |-> "none"]
    /\ pump = [c \in Clients |-> 0]
    /\ gone = {}
    /\ event = 0
    /\ targets = {}
    /\ panicked = FALSE

-----------------------------------------------------------------------------
\* An upgraded connection enters the registry and its pump starts.
Register(c) ==
    /\ conn[c] = "none"
    /\ conn' = [conn EXCEPT ![c] = "open"]
    /\ clients' = clients \cup {c}
    /\ UNCHANGED <<send, closed, pump, gone, event, targets, panicked>>

\* unregister, once: out of the registry, and the send channel is closed.
unregister(c) ==
    /\ clients' = clients \ {c}
    /\ closed' = IF c \in clients THEN closed \cup {c} ELSE closed

\* close: unregister, then close the connection.
close(c) ==
    /\ unregister(c)
    /\ conn' = [conn EXCEPT ![c] = "closed"]

-----------------------------------------------------------------------------
(* The events consumer.                                                      *)

\* Broadcast takes the sockets of the owner under the read lock ...
Snapshot(owner) ==
    /\ targets = {}
    /\ event < MaxEvents
    /\ event' = event + 1
    /\ targets' = {c \in clients : OwnerOf[c] = owner}
    /\ UNCHANGED <<clients, send, closed, conn, pump, panicked, gone>>

\* ... and sends to them without it.
Send(c) ==
    /\ c \in targets
    /\ c \notin closed
    /\ Len(send[c]) < Buffer
    /\ send' = [send EXCEPT ![c] = Append(@, event)]
    /\ targets' = targets \ {c}
    /\ UNCHANGED <<clients, closed, conn, pump, gone, event, panicked>>

\* A slow client is dropped.
DropSlow(c) ==
    /\ c \in targets
    /\ c \notin closed
    /\ Len(send[c]) = Buffer
    /\ close(c)
    /\ targets' = targets \ {c}
    /\ UNCHANGED <<send, pump, gone, event, panicked>>

\* Sending on a closed channel panics, also in a select with a default.
SendOnClosed(c) ==
    /\ c \in targets
    /\ c \in closed
    /\ panicked' = TRUE
    /\ UNCHANGED <<clients, send, closed, conn, pump, gone, event, targets>>

-----------------------------------------------------------------------------
(* The goroutines of a client.                                               *)

\* The browser leaves, or the network does.
Disconnect(c) ==
    /\ conn[c] = "open"
    /\ conn' = [conn EXCEPT ![c] = "broken"]
    /\ UNCHANGED <<clients, send, closed, pump, gone, event, targets, panicked>>

\* ReadLoop: the read fails on a connection that is no longer open.
ReadFails(c) ==
    /\ conn[c] \in {"broken", "closed"}
    /\ c \in clients \/ conn[c] = "broken"
    /\ close(c)
    /\ UNCHANGED <<send, pump, gone, event, targets, panicked>>

PumpTakes(c) ==
    /\ c \notin gone /\ pump[c] = 0
    /\ send[c] # <<>>
    /\ pump' = [pump EXCEPT ![c] = Head(send[c])]
    /\ send' = [send EXCEPT ![c] = Tail(@)]
    /\ UNCHANGED <<clients, closed, conn, gone, event, targets, panicked>>

PumpWrites(c) ==
    /\ c \notin gone /\ pump[c] # 0
    /\ conn[c] # "closed"
    /\ pump' = [pump EXCEPT ![c] = 0]
    /\ UNCHANGED <<clients, send, closed, conn, gone, event, targets, panicked>>

\* The write fails or runs into its deadline: the client is dropped.
PumpFails(c) ==
    /\ c \notin gone /\ pump[c] # 0
    /\ close(c)
    /\ gone' = gone \cup {c}
    /\ UNCHANGED <<pump, send, event, targets, panicked>>

\* The closed channel has been drained.
PumpEnds(c) ==
    /\ c \notin gone /\ pump[c] = 0
    /\ c \in closed /\ send[c] = <<>>
    /\ gone' = gone \cup {c}
    /\ UNCHANGED <<pump, clients, send, closed, conn, event, targets, panicked>>

-----------------------------------------------------------------------------
Consumer == \/ \E owner \in Owners : Snapshot(owner)
            \/ \E c \in Clients : Send(c) \/ DropSlow(c) \/ SendOnClosed(c)

Goroutines(c) == \/ Register(c) \/ Disconnect(c) \/ ReadFails(c)
                 \/ PumpTakes(c) \/ PumpWrites(c) \/ PumpFails(c) \/ PumpEnds(c)

Next == /\ ~panicked
        /\ Consumer \/ \E c \in Clients : Goroutines(c)

Spec == Init /\ [][Next]_vars

-----------------------------------------------------------------------------
(* Properties.                                                              *)

(* "It is concurrency-safe": clients may come and go while the consumer      *)
(* broadcasts, without bringing the process down.                            *)
NoPanic == ~panicked
=============================================================================
