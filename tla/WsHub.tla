------------------------------- MODULE WsHub -------------------------------
(***************************************************************************)
(* The publish/subscribe hub of pkg/web/api/ws.go: the goroutine WsHub.run,*)
(* the two goroutines of every WebSocket client (readPump and writePump)   *)
(* and the callers of Publish.                                             *)
(*                                                                         *)
(* The register, unregister and broadcast channels are unbuffered, so a    *)
(* send on one of them is a rendezvous with the hub waiting in its select. *)
(* What the hub then does under h.mu is one step: the other users of h.mu  *)
(* (subscribe and unsubscribe) run before it or after it, and a writePump  *)
(* taking a message out of one client's buffer commutes with what the hub  *)
(* does to the buffers of the others.                                      *)
(***************************************************************************)
EXTENDS Naturals, Sequences, FiniteSets

CONSTANTS
  Clients,      \* WebSocket connections; each *WsClient is used once
  Topics,       \* topics clients may subscribe to
  SendCap,      \* capacity of a client's send channel (256 in the code)
  MaxMessages,  \* bound on the calls of Publish
  Pingers       \* the clients that send {"type": "ping"} (the UI never does)

ASSUME WsHubAssumption ==
  /\ SendCap \in Nat \ {0}
  /\ MaxMessages \in Nat
  /\ Pingers \subseteq Clients

VARIABLES
  clients,        \* h.clients
  subscriptions,  \* h.subscriptions; a missing topic is the empty set
  topics,         \* client.topics
  send,           \* what is buffered in client.send
  closed,         \* clients whose send channel is closed
  hub,            \* where run() is, with what it has received
  readPump,       \* handleWS up to the start of readPump, then readPump
  writePump,
  conn,           \* the connection as both pumps see it
  calls,          \* number of calls of Publish so far
  written,        \* history: what writePump gave to the connection
  evicted,        \* history: clients closed because their buffer was full
  panicked        \* the panic that ended the process, or "no"

hubVars == <<clients, subscriptions, topics, send, closed, hub, readPump,
             writePump, conn, calls, written, evicted, panicked>>

Message == [id : 1..MaxMessages, topic : Topics]

HubStates ==
  [op : {"select"}] \cup [op : {"register", "unregister"}, client : Clients]
                    \cup [op : {"broadcast"}, msg : Message]

\* run() waits in the select of its loop, or is in one of the three cases.
Selecting == [op |-> "select"]
Registering(c) == [op |-> "register", client |-> c]
Unregistering(c) == [op |-> "unregister", client |-> c]
Broadcasting(m) == [op |-> "broadcast", msg |-> m]

\* handleWS has handed the client to the hub and run() has executed line 80.
Registered(c) == /\ readPump[c] \notin {"none", "registering"}
                 /\ hub # Registering(c)

\* No goroutine has panicked: a panic ends the whole process.
Running == panicked = "no"

HubInit ==
  /\ clients = {}
  /\ subscriptions = [t \in Topics |-> {}]
  /\ topics = [c \in Clients |-> {}]
  /\ send = [c \in Clients |-> <<>>]
  /\ closed = {}
  /\ hub = Selecting
  /\ readPump = [c \in Clients |-> "none"]
  /\ writePump = [c \in Clients |-> "none"]
  /\ conn = [c \in Clients |-> "none"]
  /\ calls = 0
  /\ written = [c \in Clients |-> <<>>]
  /\ evicted = {}
  /\ panicked = "no"

-----------------------------------------------------------------------------
(* A connection: handleWS, readPump and the handlers readPump calls.       *)

\* handleWS up to the blocking send on hub.register.
HandleWS(c) ==
  /\ Running
  /\ conn[c] = "none"
  /\ conn' = [conn EXCEPT ![c] = "open"]
  /\ readPump' = [readPump EXCEPT ![c] = "registering"]
  /\ UNCHANGED <<clients, subscriptions, topics, send, closed, hub, writePump,
                 calls, written, evicted, panicked>>

\* The peer closes the connection or the network fails (external).
PeerClose(c) ==
  /\ Running
  /\ conn[c] = "open"
  /\ conn' = [conn EXCEPT ![c] = "closed"]
  /\ UNCHANGED <<clients, subscriptions, topics, send, closed, hub, readPump,
                 writePump, calls, written, evicted, panicked>>

\* Mutant of HandleSubscribe: client.topics is not updated.
SubscribeForgetsTopic(c, t) ==
  /\ Running
  /\ readPump[c] = "read" /\ conn[c] = "open"
  /\ subscriptions' = [subscriptions EXCEPT ![t] = @ \cup {c}]
  /\ UNCHANGED <<clients, topics, send, closed, hub, readPump, writePump, conn,
                 calls, written, evicted, panicked>>

\* handleSubscribeMessage, called by readPump; it does not look at h.clients.
HandleSubscribe(c, t) ==
  /\ Running
  /\ readPump[c] = "read" /\ conn[c] = "open"
  /\ subscriptions' = [subscriptions EXCEPT ![t] = @ \cup {c}]
  /\ topics' = [topics EXCEPT ![c] = @ \cup {t}]
  /\ UNCHANGED <<clients, send, closed, hub, readPump, writePump, conn, calls,
                 written, evicted, panicked>>

HandleUnsubscribe(c, t) ==
  /\ Running
  /\ readPump[c] = "read" /\ conn[c] = "open"
  /\ subscriptions' = [subscriptions EXCEPT ![t] = @ \ {c}]
  /\ topics' = [topics EXCEPT ![c] = @ \ {t}]
  /\ UNCHANGED <<clients, send, closed, hub, readPump, writePump, conn, calls,
                 written, evicted, panicked>>

\* handlePingMessage writes to the connection from readPump's goroutine. The
\* WebSocket library panics when it finds another write in progress.
BeginPong(c) ==
  /\ Running
  /\ c \in Pingers
  /\ readPump[c] = "read" /\ conn[c] = "open"
  /\ IF writePump[c] = "writing"
       THEN panicked' = "concurrent write" /\ UNCHANGED readPump
       ELSE readPump' = [readPump EXCEPT ![c] = "pong"] /\ UNCHANGED panicked
  /\ UNCHANGED <<clients, subscriptions, topics, send, closed, hub, writePump,
                 conn, calls, written, evicted>>

\* The write succeeds or its error is logged; readPump goes on either way.
EndPong(c) ==
  /\ Running
  /\ readPump[c] = "pong"
  /\ readPump' = [readPump EXCEPT ![c] = "read"]
  /\ UNCHANGED <<clients, subscriptions, topics, send, closed, hub, writePump,
                 conn, calls, written, evicted, panicked>>

\* ReadMessage fails: the deferred function blocks on hub.unregister.
ReadError(c) ==
  /\ Running
  /\ readPump[c] = "read" /\ conn[c] = "closed"
  /\ readPump' = [readPump EXCEPT ![c] = "leaving"]
  /\ UNCHANGED <<clients, subscriptions, topics, send, closed, hub, writePump,
                 conn, calls, written, evicted, panicked>>

-----------------------------------------------------------------------------
(* writePump.                                                              *)

\* The range statement receives the next message and the write begins.
BeginWrite(c) ==
  /\ Running
  /\ writePump[c] = "range" /\ send[c] # <<>>
  /\ IF readPump[c] = "pong"
       THEN panicked' = "concurrent write" /\ UNCHANGED writePump
       ELSE writePump' = [writePump EXCEPT ![c] = "writing"] /\ UNCHANGED panicked
  /\ send' = [send EXCEPT ![c] = Tail(@)]
  /\ written' = [written EXCEPT ![c] = Append(@, Head(send[c]))]
  /\ UNCHANGED <<clients, subscriptions, topics, closed, hub, readPump, conn,
                 calls, evicted>>

EndWrite(c) ==
  /\ Running
  /\ writePump[c] = "writing" /\ conn[c] = "open"
  /\ writePump' = [writePump EXCEPT ![c] = "range"]
  /\ UNCHANGED <<clients, subscriptions, topics, send, closed, hub, readPump,
                 conn, calls, written, evicted, panicked>>

\* A mutant: the connection is not closed.
WriteErrorKeepsConn(c) ==
  /\ Running
  /\ writePump[c] = "writing"
  /\ writePump' = [writePump EXCEPT ![c] = "done"]
  /\ UNCHANGED <<clients, subscriptions, topics, send, closed, hub, readPump, conn,
                 calls, written, evicted, panicked>>

\* A closed connection or the 10s write deadline: return, and the deferred
\* function closes the connection. client.send stays open and undrained.
WriteError(c) ==
  /\ Running
  /\ writePump[c] = "writing"
  /\ writePump' = [writePump EXCEPT ![c] = "done"]
  /\ conn' = [conn EXCEPT ![c] = "closed"]
  /\ UNCHANGED <<clients, subscriptions, topics, send, closed, hub, readPump,
                 calls, written, evicted, panicked>>

\* The channel is closed and drained: send a close frame, close the connection.
WriteClose(c) ==
  /\ Running
  /\ writePump[c] = "range" /\ send[c] = <<>> /\ c \in closed
  /\ IF readPump[c] = "pong"
       THEN panicked' = "concurrent write" /\ UNCHANGED <<writePump, conn>>
       ELSE /\ writePump' = [writePump EXCEPT ![c] = "done"]
            /\ conn' = [conn EXCEPT ![c] = "closed"]
            /\ UNCHANGED panicked
  /\ UNCHANGED <<clients, subscriptions, topics, send, closed, hub, readPump,
                 calls, written, evicted>>

-----------------------------------------------------------------------------
(* Rendezvous with run(): handleWS, the deferred function of readPump, and *)
(* Publish.                                                                *)

\* hub.register <- client; handleWS then starts both pumps and returns.
SendRegister(c) ==
  /\ Running
  /\ hub = Selecting /\ readPump[c] = "registering"
  /\ hub' = Registering(c)
  /\ readPump' = [readPump EXCEPT ![c] = "read"]
  /\ writePump' = [writePump EXCEPT ![c] = "range"]
  /\ UNCHANGED <<clients, subscriptions, topics, send, closed, conn, calls,
                 written, evicted, panicked>>

\* hub.unregister <- c, then the (already failed) connection is closed.
SendUnregister(c) ==
  /\ Running
  /\ hub = Selecting /\ readPump[c] = "leaving"
  /\ hub' = Unregistering(c)
  /\ readPump' = [readPump EXCEPT ![c] = "done"]
  /\ UNCHANGED <<clients, subscriptions, topics, send, closed, writePump, conn,
                 calls, written, evicted, panicked>>

\* Publish never blocks: the message goes to a waiting hub or is dropped.
Publish(t) ==
  /\ Running
  /\ calls < MaxMessages
  /\ calls' = calls + 1
  /\ hub' = IF hub = Selecting
               THEN Broadcasting([id |-> calls + 1, topic |-> t])
               ELSE hub
  /\ UNCHANGED <<clients, subscriptions, topics, send, closed, readPump,
                 writePump, conn, written, evicted, panicked>>

-----------------------------------------------------------------------------
(* What run() does with what it received.                                  *)

HubRegister ==
  /\ Running
  /\ hub.op = "register"
  /\ hub' = Selecting
  /\ clients' = clients \cup {hub.client}
  /\ UNCHANGED <<subscriptions, topics, send, closed, readPump, writePump, conn,
                 calls, written, evicted, panicked>>

\* Closing a closed channel would panic; the lookup in h.clients avoids it.
HubUnregister ==
  LET c == hub.client IN
  /\ Running
  /\ hub.op = "unregister"
  /\ hub' = Selecting
  /\ IF c \in clients
       THEN /\ clients' = clients \ {c}
            /\ subscriptions' = [t \in Topics |->
                   IF t \in topics[c] THEN subscriptions[t] \ {c} ELSE subscriptions[t]]
            /\ closed' = closed \cup {c}
            /\ panicked' = IF c \in closed THEN "close of closed channel" ELSE panicked
       ELSE UNCHANGED <<clients, subscriptions, closed, panicked>>
  /\ UNCHANGED <<topics, send, readPump, writePump, conn, calls, written, evicted>>

\* Mutants: a client without room is only passed over; an evicted client stays in
\* h.clients; it is removed but its channel is left open.
EvictNobody(slow) == UNCHANGED <<closed, clients, evicted>>
EvictKeepsClient(slow) ==
  /\ closed' = closed \cup slow
  /\ evicted' = evicted \cup slow
  /\ UNCHANGED clients
EvictKeepsOpen(slow) ==
  /\ clients' = clients \ slow
  /\ evicted' = evicted \cup slow
  /\ UNCHANGED closed

\* The subscribers a message goes to, and those whose buffer has no room.
Subscribers(m) == subscriptions[m.topic]
Full(m) == {c \in Subscribers(m) : Len(send[c]) >= SendCap}

\* A full client is closed and removed from h.clients; h.subscriptions and
\* client.topics still name it.
Evict(slow) ==
  /\ closed' = closed \cup slow
  /\ clients' = clients \ slow
  /\ evicted' = evicted \cup slow

HubBroadcast ==
  /\ Running
  /\ hub.op = "broadcast"
  /\ Subscribers(hub.msg) \cap closed = {}
  /\ hub' = Selecting
  /\ send' = [c \in Clients |->
                IF c \in Subscribers(hub.msg) \ Full(hub.msg)
                  THEN Append(send[c], hub.msg) ELSE send[c]]
  /\ Evict(Full(hub.msg))
  /\ UNCHANGED <<subscriptions, topics, readPump, writePump, conn, calls, written,
                 panicked>>

\* A subscriber whose channel is closed: the send panics and nothing recovers
\* from it. What the loop did to other subscribers dies with the process.
HubBroadcastPanic ==
  /\ Running
  /\ hub.op = "broadcast"
  /\ Subscribers(hub.msg) \cap closed # {}
  /\ panicked' = "send on closed channel"
  /\ UNCHANGED <<clients, subscriptions, topics, send, closed, hub, readPump,
                 writePump, conn, calls, written, evicted>>

-----------------------------------------------------------------------------
HubStep == HubRegister \/ HubUnregister \/ HubBroadcast \/ HubBroadcastPanic

ReadPumpStep(c) == EndPong(c) \/ ReadError(c)

WritePumpStep(c) == BeginWrite(c) \/ EndWrite(c) \/ WriteError(c) \/ WriteClose(c)

HubNext ==
  \/ \E c \in Clients :
       \/ HandleWS(c) \/ PeerClose(c) \/ BeginPong(c)
       \/ SendRegister(c) \/ SendUnregister(c)
       \/ ReadPumpStep(c) \/ WritePumpStep(c)
       \/ \E t \in Topics : HandleSubscribe(c, t) \/ HandleUnsubscribe(c, t)
  \/ \E t \in Topics : Publish(t)
  \/ HubStep

\* Running goroutines make progress. A select with several ready cases takes
\* one at random, so no rendezvous that stays possible is passed over forever.
HubFairness ==
  /\ WF_hubVars(HubStep)
  /\ \A c \in Clients :
       /\ WF_hubVars(ReadPumpStep(c))
       /\ WF_hubVars(WritePumpStep(c))
       /\ SF_hubVars(SendRegister(c))
       /\ SF_hubVars(SendUnregister(c))

HubSpec == HubInit /\ [][HubNext]_hubVars

FairHubSpec == HubSpec /\ HubFairness

-----------------------------------------------------------------------------
(* Correctness.                                                            *)

\* Every variable has its type, and no send channel holds more than its
\* capacity (make(chan any, 256)).
HubTypeOK ==
  /\ clients \subseteq Clients
  /\ subscriptions \in [Topics -> SUBSET Clients]
  /\ topics \in [Clients -> SUBSET Topics]
  /\ send \in [Clients -> Seq(Message)]
  /\ \A c \in Clients : Len(send[c]) <= SendCap
  /\ closed \subseteq Clients
  /\ hub \in HubStates
  /\ readPump \in [Clients -> {"none", "registering", "read", "pong", "leaving", "done"}]
  /\ writePump \in [Clients -> {"none", "range", "writing", "done"}]
  /\ conn \in [Clients -> {"none", "open", "closed"}]
  /\ calls \in 0..MaxMessages
  /\ written \in [Clients -> Seq(Message)]
  /\ evicted \subseteq Clients
  /\ panicked \in {"no", "concurrent write", "send on closed channel",
                   "close of closed channel"}

\* h.clients is exactly the set of clients whose send channel is open, once
\* run() has registered them: neither the unregister case nor an eviction
\* leaves a writePump on a channel nobody will close, or closes one twice.
OpenIffInClients ==
  \A c \in Clients : c \in closed <=> Registered(c) /\ c \notin clients

\* The subscription maps and the clients' own topic sets agree, so that the
\* unregister case, which walks client.topics, leaves no entry behind: a
\* subscriber whose channel is closed can only be one that was evicted.
StaleSubscribersWereEvicted ==
  \A t \in Topics : subscriptions[t] \cap closed \subseteq evicted

\* The process dies in run() only if a client was evicted before, and in a
\* concurrent write only on the connection of a client that pings.
PanicCauses ==
  /\ panicked # "close of closed channel"
  /\ panicked = "send on closed channel" => evicted # {}
  /\ panicked = "concurrent write" => 
       \E c \in Pingers : readPump[c] = "pong" \/ writePump[c] = "writing"

\* Messages reach a connection in the order of the calls of Publish, each at
\* most once, over the whole way broadcast -> send -> writePump.
Sent(c) == written[c] \o send[c]
InPublishOrder ==
  \A c \in Clients : \A i, j \in 1..Len(Sent(c)) :
    i < j => Sent(c)[i].id < Sent(c)[j].id

\* The hub keeps the promise of PubSub: what a connection is given was published
\* to a topic it was subscribed to when run() got to it, a subscriber misses
\* messages only together with all others or is closed for good, and the order
\* is that of the calls. A call has been dealt with unless run() has it in hand.
P == INSTANCE PubSub WITH
       subscribers <- subscriptions,
       last <- IF hub.op = "broadcast" THEN hub.msg.id - 1 ELSE calls,
       cut <- closed,
       received <- [c \in Clients |-> Sent(c)]
ImplementsPubSub == P!Spec

\* When either goroutine of a connection ends, the other ends too and the hub
\* forgets the client: a failed write closes the connection, which ends
\* readPump, which unregisters the client, which closes the channel on which
\* writePump waits. Only an evicted client is left in h.subscriptions.
Forgotten(c) ==
  /\ readPump[c] = "done" /\ writePump[c] = "done" /\ c \notin clients
  /\ c \in evicted \/ \A t \in Topics : c \notin subscriptions[t]
PumpsEndTogether ==
  \A c \in Clients :
    readPump[c] = "done" \/ writePump[c] = "done" ~> ~Running \/ Forgotten(c)

\* Publish "sends a message to all subscribed clients of a topic": a publish
\* never finds a subscriber whose channel is closed.
PublishReachesSubscribers == panicked # "send on closed channel"
=============================================================================
