---------------------------- MODULE UiConnection ----------------------------
(***************************************************************************)
(* The WebSocket connection of one browser tab: WebSocketProvider          *)
(* (websocket-provider.tsx) keeps the callbacks of the mounted components  *)
(* by topic and tells the server of the first and of the last; every       *)
(* useSubscription subscribes when its component is mounted and            *)
(* unsubscribes when it is unmounted. The library opens the connection     *)
(* again whenever it is lost and sends what was queued meanwhile.          *)
(*                                                                         *)
(* The server is what WsHub promises one client: it applies the requests   *)
(* in their order and forgets everything when the connection ends.         *)
(***************************************************************************)
EXTENDS Naturals, Sequences, FiniteSets

CONSTANTS
  Topics,
  Components,   \* uses of useSubscription
  TopicOf,      \* the topic of each
  MaxMounts,   \* bound on the mounts and unmounts
  MaxLosses     \* bound on the connections lost

ASSUME UiConnectionAssumption ==
  /\ TopicOf \in [Components -> Topics]
  /\ MaxMounts \in Nat /\ MaxLosses \in Nat

VARIABLES
  subscriptions,  \* the ref of the provider: the mounted components by topic
  readyState,     \* of the connection
  queue,          \* requests the library keeps until the connection is open
  wire,           \* requests on their way to the server
  topics,         \* what the server has this connection subscribed to
  mounts, losses

connectionVars == <<subscriptions, readyState, queue, wire, topics, mounts, losses>>

Requests == [type : {"subscribe", "unsubscribe"}, topic : Topics]

\* Topics somebody in this tab listens to.
Wanted == {t \in Topics : subscriptions[t] # {}}
Mounted(c) == c \in subscriptions[TopicOf[c]]

ConnectionInit ==
  /\ subscriptions = [t \in Topics |-> {}]
  /\ readyState = "connecting"
  /\ queue = <<>> /\ wire = <<>>
  /\ topics = {}
  /\ mounts = 0 /\ losses = 0

-----------------------------------------------------------------------------
(* The tab.                                                                *)

\* A mutant of SendMessage: nothing is queued while the connection is not open.
SendOrDrop(type, t) ==
  IF readyState = "open"
    THEN wire' = Append(wire, [type |-> type, topic |-> t]) /\ UNCHANGED queue
    ELSE UNCHANGED <<queue, wire>>

\* sendMessage sends at once when the connection is open and queues otherwise.
SendMessage(type, t) ==
  LET request == [type |-> type, topic |-> t]
  IN  IF readyState = "open"
        THEN wire' = Append(wire, request) /\ UNCHANGED queue
        ELSE queue' = Append(queue, request) /\ UNCHANGED wire

\* The effect of useSubscription: every callback sends a request, also when the
\* topic is subscribed already.
Subscribe(c) ==
  /\ ~Mounted(c) /\ mounts < MaxMounts
  /\ mounts' = mounts + 1
  /\ subscriptions' = [subscriptions EXCEPT ![TopicOf[c]] = @ \cup {c}]
  /\ SendMessage("subscribe", TopicOf[c])
  /\ UNCHANGED <<readyState, topics, losses>>

\* A mutant of Unsubscribe: every callback sends a request.
UnsubscribeEach(c) ==
  /\ Mounted(c) /\ mounts < MaxMounts
  /\ mounts' = mounts + 1
  /\ subscriptions' = [subscriptions EXCEPT ![TopicOf[c]] = @ \ {c}]
  /\ SendMessage("unsubscribe", TopicOf[c])
  /\ UNCHANGED <<readyState, topics, losses>>

\* Its clean-up; only the last callback of a topic sends a request.
Unsubscribe(c) ==
  /\ Mounted(c) /\ mounts < MaxMounts
  /\ mounts' = mounts + 1
  /\ subscriptions' = [subscriptions EXCEPT ![TopicOf[c]] = @ \ {c}]
  /\ IF subscriptions'[TopicOf[c]] = {}
       THEN SendMessage("unsubscribe", TopicOf[c])
       ELSE UNCHANGED <<queue, wire>>
  /\ UNCHANGED <<readyState, topics, losses>>

-----------------------------------------------------------------------------
(* The library and the server.                                             *)

\* The connection opens and the queue is sent; nothing else is.
Open ==
  /\ readyState = "connecting"
  /\ readyState' = "open"
  /\ wire' = queue /\ queue' = <<>>
  /\ UNCHANGED <<subscriptions, topics, mounts, losses>>

\* The connection is lost with whatever is on its way; shouldReconnect is true.
Close ==
  /\ readyState = "open" /\ losses < MaxLosses
  /\ losses' = losses + 1
  /\ readyState' = "connecting"
  /\ wire' = <<>> /\ topics' = {}
  /\ UNCHANGED <<subscriptions, queue, mounts>>

\* The server handles a request: handleSubscribeMessage and its counterpart.
Applied(request, set) ==
  IF request.type = "subscribe" THEN set \cup {request.topic} ELSE set \ {request.topic}

ServerReceive ==
  /\ wire # <<>>
  /\ topics' = Applied(Head(wire), topics)
  /\ wire' = Tail(wire)
  /\ UNCHANGED <<subscriptions, readyState, queue, mounts, losses>>

-----------------------------------------------------------------------------
ConnectionNext ==
  \/ \E c \in Components : Subscribe(c) \/ Unsubscribe(c)
  \/ Open \/ Close \/ ServerReceive

ConnectionSpec == ConnectionInit /\ [][ConnectionNext]_connectionVars

\* The library connects, the network delivers.
ConnectionFairness == WF_connectionVars(Open) /\ WF_connectionVars(ServerReceive)

FairConnectionSpec == ConnectionSpec /\ ConnectionFairness

-----------------------------------------------------------------------------
(* Correctness.                                                            *)

\* Every variable has its type.
ConnectionTypeOK ==
  /\ subscriptions \in [Topics -> SUBSET Components]
  /\ readyState \in {"connecting", "open"}
  /\ queue \in Seq(Requests) /\ wire \in Seq(Requests)
  /\ topics \subseteq Topics
  /\ mounts \in 0..MaxMounts /\ losses \in 0..MaxLosses

\* The last request for a topic among those on their way.
LastIs(t, type) ==
  LET all == wire \o queue
  IN  \E n \in DOMAIN all : /\ all[n] = [type |-> type, topic |-> t]
                            /\ \A m \in DOMAIN all : m > n => all[m].topic # t

\* Will the server have t once it has handled everything that is on its way?
WillHave(t) == LastIs(t, "subscribe") \/ (t \in topics /\ ~LastIs(t, "unsubscribe"))

\* However mounts and unmounts of components that share topics follow each
\* other, before and after the connection opens, the server ends up with the
\* topics somebody listens to, as long as no connection was lost; after losses
\* it never ends up with a topic nobody listens to.
ServerFollowsTab ==
  \A t \in Topics : /\ WillHave(t) => t \in Wanted
                    /\ losses = 0 /\ t \in Wanted => WillHave(t)

\* A component that stays mounted is subscribed in the end, if no connection
\* is lost.
EventuallySubscribed ==
  \A c \in Components : Mounted(c) ~> TopicOf[c] \in topics \/ ~Mounted(c) \/ losses > 0

\* "Automatically reconnect": a component that stays mounted gets the events
\* of its topic again after a connection was lost.
ReconnectRestoresTopics ==
  \A c \in Components : Mounted(c) ~> TopicOf[c] \in topics \/ ~Mounted(c)
=============================================================================
