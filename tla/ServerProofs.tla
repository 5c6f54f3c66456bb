---------------------------- MODULE ServerProofs ----------------------------
(***************************************************************************)
(* Proofs about the components of the server, in four parts: the hub, for  *)
(* any set of clients and topics, any capacity of the send channels and    *)
(* any number of messages; the registry, for any calls, old rows,          *)
(* addresses, targets, configured proxies, exports and database errors;    *)
(* the session log, for any finite sets of requests and old rows, any      *)
(* retention limit and any number of database errors; and the processes,   *)
(* for any set of them. No part uses another one.                          *)
(***************************************************************************)
EXTENDS WsHub, ProxyRegistry, SessionLog, Daemon,
        SequenceTheorems, FiniteSetTheorems, TLAPS

(* The hub.                                                                *)

\* What the hub's goroutines know of each other. A client that the hub is
\* registering or unregistering is at the matching point of its own life, and
\* every entry of h.subscriptions is recorded in client.topics.
Handshake ==
  /\ \A c \in Clients : hub = Registering(c) =>
       c \notin clients /\ readPump[c] \notin {"none", "registering"}
  /\ \A c \in Clients : hub = Unregistering(c) => readPump[c] = "done"
  /\ clients \subseteq {c \in Clients : Registered(c)}
  /\ closed \ evicted \subseteq {c \in Clients : readPump[c] = "done"}
  /\ evicted \subseteq closed
  /\ \A t \in Topics : \A c \in subscriptions[t] :
       t \in topics[c] /\ readPump[c] \notin {"none", "registering"}
  /\ \A c \in Clients : readPump[c] = "pong" => c \in Pingers
  /\ \A c \in Clients : conn[c] = "none" => readPump[c] = "none"

\* The inductive invariant.
HubSafety == OpenIffInClients /\ StaleSubscribersWereEvicted /\ PanicCauses /\ Handshake
HubIInv == HubTypeOK /\ HubSafety

\* The states run() moves to, and what it holds when it leaves its select.
LEMMA HubTypes ==
  /\ Selecting \in HubStates
  /\ \A c \in Clients : Registering(c) \in HubStates /\ Unregistering(c) \in HubStates
  /\ \A m \in Message : Broadcasting(m) \in HubStates
  BY SMT DEF HubStates, Selecting, Registering, Unregistering, Broadcasting

\* The cases of the select are told apart.
LEMMA HubCases ==
  /\ \A c \in Clients : Selecting # Registering(c) /\ Selecting # Unregistering(c)
  /\ \A c, d \in Clients :
       /\ Registering(c) # Unregistering(d)
       /\ Registering(c) = Registering(d) => c = d
       /\ Unregistering(c) = Unregistering(d) => c = d
  /\ \A m \in Message : \A c \in Clients :
       Broadcasting(m) # Registering(c) /\ Broadcasting(m) # Unregistering(c)
  BY SMT DEF Selecting, Registering, Unregistering, Broadcasting

LEMMA HubArgument ==
  ASSUME hub \in HubStates
  PROVE  /\ hub.op = "register" => hub.client \in Clients /\ hub = Registering(hub.client)
         /\ hub.op = "unregister" => hub.client \in Clients /\ hub = Unregistering(hub.client)
         /\ hub.op = "broadcast" => hub.msg \in Message /\ hub = Broadcasting(hub.msg)
  BY SMT DEF HubStates, Registering, Unregistering, Broadcasting

\* A message received from a send channel, and one added to it.
LEMMA HubReceive ==
  ASSUME NEW S, NEW s \in Seq(S), s # <<>>, NEW w \in Seq(S)
  PROVE  /\ Head(s) \in S /\ Tail(s) \in Seq(S) /\ Len(Tail(s)) <= Len(s)
         /\ Append(w, Head(s)) \in Seq(S)
  <1>1. Head(s) \in S /\ Tail(s) \in Seq(S) /\ Len(Tail(s)) = Len(s) - 1 /\ Len(s) \in Nat
    BY HeadTailProperties, LenProperties
  <1>. QED
    BY <1>1, AppendProperties

LEMMA HubEnqueue ==
  ASSUME NEW S, NEW s \in Seq(S), NEW m \in S, NEW n \in Nat, ~(Len(s) >= n)
  PROVE  Append(s, m) \in Seq(S) /\ Len(Append(s, m)) <= n
  <1>1. Append(s, m) \in Seq(S) /\ Len(Append(s, m)) = Len(s) + 1 /\ Len(s) \in Nat
    BY AppendProperties, LenProperties
  <1>. QED
    BY <1>1

LEMMA HubInitIInv == HubInit => HubIInv
  BY WsHubAssumption, SMT DEF HubInit, HubIInv, HubSafety, HubTypeOK, OpenIffInClients,
     StaleSubscribersWereEvicted, PanicCauses, Handshake, Registered, Selecting, HubStates,
      Registering, Unregistering

LEMMA HubTypeStep == HubIInv /\ [HubNext]_hubVars => HubTypeOK'
<1> SUFFICES ASSUME HubIInv, [HubNext]_hubVars PROVE HubTypeOK'
    OBVIOUS
<1> USE WsHubAssumption, HubTypes DEF HubIInv, HubTypeOK, Running
<1>1. ASSUME NEW c \in Clients, HandleWS(c) PROVE HubTypeOK'
    BY <1>1 DEF HandleWS
<1>2. ASSUME NEW c \in Clients, PeerClose(c) PROVE HubTypeOK'
    BY <1>2 DEF PeerClose
<1>3. ASSUME NEW c \in Clients, BeginPong(c) PROVE HubTypeOK'
    BY <1>3 DEF BeginPong
<1>4. ASSUME NEW c \in Clients, EndPong(c) PROVE HubTypeOK'
    BY <1>4 DEF EndPong
<1>5. ASSUME NEW c \in Clients, ReadError(c) PROVE HubTypeOK'
    BY <1>5 DEF ReadError
<1>6. ASSUME NEW c \in Clients, BeginWrite(c) PROVE HubTypeOK'
  <2>1. send[c] \in Seq(Message) /\ send[c] # <<>> /\ written[c] \in Seq(Message)
    BY <1>6 DEF BeginWrite
  <2>2. /\ Tail(send[c]) \in Seq(Message)
        /\ Len(Tail(send[c])) <= Len(send[c])
        /\ Append(written[c], Head(send[c])) \in Seq(Message)
    BY ONLY <2>1, HubReceive
  <2>3. Len(Tail(send[c])) <= SendCap
    <3>1. Len(send[c]) \in Nat /\ Len(Tail(send[c])) \in Nat /\ Len(send[c]) <= SendCap
      BY <2>1, <2>2, LenProperties
    <3>. QED
      BY ONLY <2>2, <3>1, WsHubAssumption DEF WsHubAssumption
  <2>. QED
    BY <1>6, <2>2, <2>3 DEF BeginWrite
<1>7. ASSUME NEW c \in Clients, EndWrite(c) PROVE HubTypeOK'
    BY <1>7 DEF EndWrite
<1>8. ASSUME NEW c \in Clients, WriteError(c) PROVE HubTypeOK'
    BY <1>8 DEF WriteError
<1>9. ASSUME NEW c \in Clients, WriteClose(c) PROVE HubTypeOK'
    BY <1>9 DEF WriteClose
<1>10. ASSUME NEW c \in Clients, SendRegister(c) PROVE HubTypeOK'
    BY <1>10 DEF SendRegister
<1>11. ASSUME NEW c \in Clients, SendUnregister(c) PROVE HubTypeOK'
    BY <1>11 DEF SendUnregister
<1>12. ASSUME NEW c \in Clients, NEW t \in Topics, HandleSubscribe(c, t) PROVE HubTypeOK'
    BY <1>12 DEF HandleSubscribe
<1>13. ASSUME NEW c \in Clients, NEW t \in Topics, HandleUnsubscribe(c, t) PROVE HubTypeOK'
    BY <1>13 DEF HandleUnsubscribe
<1>14. ASSUME NEW t \in Topics, Publish(t) PROVE HubTypeOK'
  <2>1. [id |-> calls + 1, topic |-> t] \in Message
    BY <1>14 DEF Publish, Message
  <2>. QED
    BY <1>14, <2>1 DEF Publish
<1>15. ASSUME HubRegister PROVE HubTypeOK'
    BY <1>15, HubArgument DEF HubRegister
<1>16. ASSUME HubUnregister PROVE HubTypeOK'
  <2>1. hub.client \in Clients
    BY <1>16, HubArgument DEF HubUnregister
  <2>2. subscriptions' \in [Topics -> SUBSET Clients]
    <3>1. CASE hub.client \in clients
      <4>1. subscriptions' = [t \in Topics |-> IF t \in topics[hub.client]
                THEN subscriptions[t] \ {hub.client} ELSE subscriptions[t]]
        BY <1>16, <3>1 DEF HubUnregister
      <4>. QED
        BY <4>1
    <3>2. CASE hub.client \notin clients
      BY <1>16, <3>2 DEF HubUnregister
    <3>. QED
      BY <3>1, <3>2
  <2>. QED
    BY <1>16, <2>1, <2>2 DEF HubUnregister
<1>17. ASSUME HubBroadcast PROVE HubTypeOK'
  <2>1. hub.msg \in Message
    BY <1>17, HubArgument DEF HubBroadcast
  <2>2. Subscribers(hub.msg) \subseteq Clients /\ Full(hub.msg) \subseteq Clients
    BY <2>1 DEF Subscribers, Full, Message
  <2>3. ASSUME NEW c \in Clients, c \in Subscribers(hub.msg) \ Full(hub.msg)
        PROVE  Append(send[c], hub.msg) \in Seq(Message) /\ Len(Append(send[c], hub.msg)) <= SendCap
    <3>1. ~(Len(send[c]) >= SendCap)
      BY <2>3 DEF Full
    <3>2. send[c] \in Seq(Message) /\ SendCap \in Nat
      OBVIOUS
    <3>. QED
      BY ONLY <2>1, <3>1, <3>2, HubEnqueue
  <2>4. send' \in [Clients -> Seq(Message)] /\ \A c \in Clients : Len(send'[c]) <= SendCap
    BY <1>17, <2>3 DEF HubBroadcast
  <2>. QED
    BY <1>17, <2>2, <2>4 DEF HubBroadcast, Evict
<1>18. ASSUME HubBroadcastPanic PROVE HubTypeOK'
    BY <1>18 DEF HubBroadcastPanic
<1>19. ASSUME UNCHANGED hubVars PROVE HubTypeOK'
    BY <1>19 DEF hubVars
<1> QED
    BY <1>1, <1>2, <1>3, <1>4, <1>5, <1>6, <1>7, <1>8, <1>9, <1>10, <1>11,
     <1>12, <1>13, <1>14, <1>15, <1>16, <1>17, <1>18, <1>19
       DEF HubNext, HubStep, ReadPumpStep, WritePumpStep


LEMMA HubSafetyStep == HubIInv /\ [HubNext]_hubVars => HubSafety'
<1> SUFFICES ASSUME HubIInv, [HubNext]_hubVars PROVE HubSafety'
    OBVIOUS
<1> USE WsHubAssumption DEF HubIInv, HubSafety, Running
<1>1. ASSUME NEW c \in Clients, HandleWS(c) PROVE HubSafety'
    BY <1>1, HubCases DEF HandleWS,
       HubTypeOK, OpenIffInClients, StaleSubscribersWereEvicted, PanicCauses, Handshake, Registered
<1>2. ASSUME NEW c \in Clients, PeerClose(c) PROVE HubSafety'
    BY <1>2, HubCases DEF PeerClose,
       HubTypeOK, OpenIffInClients, StaleSubscribersWereEvicted, PanicCauses, Handshake, Registered
<1>3. ASSUME NEW c \in Clients, BeginPong(c) PROVE HubSafety'
  <2>1. CASE writePump[c] = "writing"
    BY <1>3, <2>1 DEF BeginPong,
       HubTypeOK, OpenIffInClients, StaleSubscribersWereEvicted, PanicCauses, Handshake, Registered
  <2>2. CASE writePump[c] # "writing"
    <3>1. /\ c \in Pingers /\ readPump[c] = "read" /\ readPump' = [readPump EXCEPT ![c] = "pong"]
          /\ UNCHANGED <<clients, subscriptions, topics, closed, hub, conn, evicted, panicked>>
      BY <1>3, <2>2 DEF BeginPong
    <3>2. \A d \in Clients : Registered(d)' <=> Registered(d)
      BY <3>1 DEF Registered, HubTypeOK
    <3>3. OpenIffInClients'
      BY <3>1, <3>2 DEF OpenIffInClients
    <3>4. StaleSubscribersWereEvicted'
      BY <3>1 DEF StaleSubscribersWereEvicted
    <3>5. PanicCauses'
      BY <1>3, <3>1 DEF PanicCauses, BeginPong
    <3>6. Handshake'
      BY <3>1, <3>2 DEF Handshake, HubTypeOK
    <3>. QED
      BY <3>3, <3>4, <3>5, <3>6
  <2>. QED
    BY <2>1, <2>2
<1>4. ASSUME NEW c \in Clients, EndPong(c) PROVE HubSafety'
    BY <1>4, HubCases DEF EndPong,
       HubTypeOK, OpenIffInClients, StaleSubscribersWereEvicted, PanicCauses, Handshake, Registered
<1>5. ASSUME NEW c \in Clients, ReadError(c) PROVE HubSafety'
    BY <1>5, HubCases DEF ReadError,
       HubTypeOK, OpenIffInClients, StaleSubscribersWereEvicted, PanicCauses, Handshake, Registered
<1>6. ASSUME NEW c \in Clients, BeginWrite(c) PROVE HubSafety'
    BY <1>6, HubCases DEF BeginWrite,
       HubTypeOK, OpenIffInClients, StaleSubscribersWereEvicted, PanicCauses, Handshake, Registered
<1>7. ASSUME NEW c \in Clients, EndWrite(c) PROVE HubSafety'
    BY <1>7, HubCases DEF EndWrite,
       HubTypeOK, OpenIffInClients, StaleSubscribersWereEvicted, PanicCauses, Handshake, Registered
<1>8. ASSUME NEW c \in Clients, WriteError(c) PROVE HubSafety'
    BY <1>8, HubCases DEF WriteError,
       HubTypeOK, OpenIffInClients, StaleSubscribersWereEvicted, PanicCauses, Handshake, Registered
<1>9. ASSUME NEW c \in Clients, WriteClose(c) PROVE HubSafety'
  <2>1. CASE readPump[c] = "pong"
    BY <1>9, <2>1 DEF WriteClose,
       HubTypeOK, OpenIffInClients, StaleSubscribersWereEvicted, PanicCauses, Handshake, Registered
  <2>2. CASE readPump[c] # "pong"
    BY <1>9, <2>2 DEF WriteClose,
       HubTypeOK, OpenIffInClients, StaleSubscribersWereEvicted, PanicCauses, Handshake, Registered
  <2>. QED
    BY <2>1, <2>2
<1>10. ASSUME NEW c \in Clients, SendRegister(c) PROVE HubSafety'
    BY <1>10, HubCases DEF SendRegister,
       HubTypeOK, OpenIffInClients, StaleSubscribersWereEvicted, PanicCauses, Handshake, Registered
<1>11. ASSUME NEW c \in Clients, SendUnregister(c) PROVE HubSafety'
    BY <1>11, HubCases DEF SendUnregister,
       HubTypeOK, OpenIffInClients, StaleSubscribersWereEvicted, PanicCauses, Handshake, Registered
<1>12. ASSUME NEW c \in Clients, NEW t \in Topics, HandleSubscribe(c, t) PROVE HubSafety'
    BY <1>12, HubCases DEF HandleSubscribe,
       HubTypeOK, OpenIffInClients, StaleSubscribersWereEvicted, PanicCauses, Handshake, Registered
<1>13. ASSUME NEW c \in Clients, NEW t \in Topics, HandleUnsubscribe(c, t) PROVE HubSafety'
    BY <1>13, HubCases DEF HandleUnsubscribe,
       HubTypeOK, OpenIffInClients, StaleSubscribersWereEvicted, PanicCauses, Handshake, Registered
<1>14. ASSUME NEW t \in Topics, Publish(t) PROVE HubSafety'
  <2>1. [id |-> calls + 1, topic |-> t] \in Message
    BY <1>14 DEF Publish, Message, HubTypeOK
  <2>2. \A c \in Clients : /\ hub' = Registering(c) <=> hub = Registering(c)
                           /\ hub' = Unregistering(c) <=> hub = Unregistering(c)
    BY <1>14, <2>1, HubCases DEF Publish
  <2>. QED
    BY <1>14, <2>2 DEF Publish, OpenIffInClients, StaleSubscribersWereEvicted,
       PanicCauses, Handshake, Registered
<1>15. ASSUME HubRegister PROVE HubSafety'
    BY <1>15, HubCases, HubArgument DEF HubRegister,
       HubTypeOK, OpenIffInClients, StaleSubscribersWereEvicted, PanicCauses, Handshake, Registered
<1>16. ASSUME HubUnregister PROVE HubSafety'
  <2>1. hub.client \in Clients /\ hub = Unregistering(hub.client)
    BY <1>16, HubArgument DEF HubUnregister, HubTypeOK
  <2>2. hub' = Selecting /\ UNCHANGED <<topics, readPump, conn, evicted>>
    BY <1>16 DEF HubUnregister
  <2>3. \A d \in Clients : Registered(d)' <=> Registered(d)
    BY <2>1, <2>2, HubCases DEF Registered
  <2>4. CASE hub.client \in clients
    <3>1. /\ clients' = clients \ {hub.client} /\ closed' = closed \cup {hub.client}
          /\ panicked' = panicked
          /\ subscriptions' = [t \in Topics |-> IF t \in topics[hub.client]
                THEN subscriptions[t] \ {hub.client} ELSE subscriptions[t]]
      BY <1>16, <2>4 DEF HubUnregister, OpenIffInClients, HubTypeOK
    <3>2. \A t \in Topics : subscriptions'[t] = subscriptions[t] \ {hub.client}
      BY <3>1 DEF Handshake
    <3>3. OpenIffInClients'
      BY <2>1, <2>3, <2>4, <3>1 DEF OpenIffInClients, Handshake
    <3>4. StaleSubscribersWereEvicted'
      BY <2>2, <3>1, <3>2 DEF StaleSubscribersWereEvicted
    <3>5. PanicCauses'
      BY <1>16, <3>1 DEF PanicCauses, HubUnregister
    <3>6. Handshake'
      BY <2>1, <2>2, <2>3, <3>1, <3>2, HubCases DEF Handshake
    <3>. QED
      BY <3>3, <3>4, <3>5, <3>6
  <2>5. CASE hub.client \notin clients
    <3>1. UNCHANGED <<clients, subscriptions, closed, panicked>>
      BY <1>16, <2>5 DEF HubUnregister
    <3>2. OpenIffInClients' /\ StaleSubscribersWereEvicted'
      BY <2>2, <2>3, <3>1 DEF OpenIffInClients, StaleSubscribersWereEvicted
    <3>3. PanicCauses'
      BY <1>16, <3>1 DEF PanicCauses, HubUnregister
    <3>4. Handshake'
      BY <2>1, <2>2, <2>3, <3>1, HubCases DEF Handshake
    <3>. QED
      BY <3>2, <3>3, <3>4
  <2>. QED
    BY <2>4, <2>5
<1>17. ASSUME HubBroadcast PROVE HubSafety'
  <2>1. hub.msg \in Message /\ hub = Broadcasting(hub.msg) /\ hub.msg.topic \in Topics
    BY <1>17, HubArgument DEF HubBroadcast, Message, HubTypeOK
  <2>2. /\ hub' = Selecting /\ Evict(Full(hub.msg))
        /\ UNCHANGED <<subscriptions, topics, readPump, conn, panicked>>
    BY <1>17 DEF HubBroadcast
  <2>3. \A d \in Clients : Registered(d)' <=> Registered(d)
    BY <2>1, <2>2, HubCases DEF Registered
  <2>4. Full(hub.msg) \subseteq {c \in Clients : Registered(c) /\ c \notin closed}
    BY <1>17, <2>1, HubCases
       DEF HubBroadcast, Subscribers, Full, HubTypeOK, Handshake, Registered
  <2>5. OpenIffInClients'
    BY <2>2, <2>3, <2>4 DEF OpenIffInClients, Evict
  <2>6. StaleSubscribersWereEvicted'
    BY <2>2 DEF StaleSubscribersWereEvicted, Evict
  <2>7. PanicCauses'
    BY <1>17 DEF PanicCauses, HubBroadcast
  <2>8. Handshake'
    BY <2>1, <2>2, <2>3, <2>4, HubCases DEF Handshake, Evict
  <2>. QED
    BY <2>5, <2>6, <2>7, <2>8
<1>18. ASSUME HubBroadcastPanic PROVE HubSafety'
  <2>1. hub.msg.topic \in Topics
    BY <1>18, HubArgument DEF HubBroadcastPanic, Message, HubTypeOK
  <2>2. evicted # {}
    BY <1>18, <2>1 DEF HubBroadcastPanic, Subscribers, StaleSubscribersWereEvicted
  <2>. QED
    BY <1>18, <2>2 DEF HubBroadcastPanic,
       HubTypeOK, OpenIffInClients, StaleSubscribersWereEvicted, PanicCauses, Handshake, Registered
<1>19. ASSUME UNCHANGED hubVars PROVE HubSafety'
    BY <1>19, HubCases DEF hubVars,
       HubTypeOK, OpenIffInClients, StaleSubscribersWereEvicted, PanicCauses, Handshake, Registered
<1> QED
    BY <1>1, <1>2, <1>3, <1>4, <1>5, <1>6, <1>7, <1>8, <1>9, <1>10, <1>11,
     <1>12, <1>13, <1>14, <1>15, <1>16, <1>17, <1>18, <1>19
       DEF HubNext, HubStep, ReadPumpStep, WritePumpStep

LEMMA HubIInvStep == HubIInv /\ [HubNext]_hubVars => HubIInv'
  BY HubTypeStep, HubSafetyStep DEF HubIInv

LEMMA HubSpecIInv == HubSpec => []HubIInv
  BY HubInitIInv, HubIInvStep, PTL DEF HubSpec

\* Type correctness of the hub; in particular no send channel ever holds more
\* than its capacity.
THEOREM HubTypeCorrect == HubSpec => []HubTypeOK
<1>1. HubIInv => HubTypeOK
  BY DEF HubIInv
<1>. QED
  BY <1>1, HubSpecIInv, PTL

\* h.clients and the open send channels agree at all times: every channel is
\* closed exactly once, by the unregister case or by an eviction.
THEOREM ChannelsClosedOnce == HubSpec => []OpenIffInClients
<1>1. HubIInv => OpenIffInClients
  BY DEF HubIInv, HubSafety
<1>. QED
  BY <1>1, HubSpecIInv, PTL

\* Unregistering leaves no entry in h.subscriptions; only an eviction does.
THEOREM UnregisterCleansUp == HubSpec => []StaleSubscribersWereEvicted
<1>1. HubIInv => StaleSubscribersWereEvicted
  BY DEF HubIInv, HubSafety
<1>. QED
  BY <1>1, HubSpecIInv, PTL

\* run() can only bring the process down after an eviction, and never by
\* closing a channel twice.
THEOREM HubPanicsOnlyAfterEviction == HubSpec => []PanicCauses
<1>1. HubIInv => PanicCauses
  BY DEF HubIInv, HubSafety
<1>. QED
  BY <1>1, HubSpecIInv, PTL

-----------------------------------------------------------------------------
(* How the two goroutines of a connection end each other.                  *)

\* When writePump has returned, or readPump has left its loop, the connection is
\* closed; when readPump is done, run() has the client in hand or its channel is
\* closed. So whatever the other goroutine waits for has happened, and once both
\* are done and run() is through with the client, the hub has forgotten it.
PumpsAreWoken ==
  \A c \in Clients :
    /\ writePump[c] = "done" \/ readPump[c] \in {"leaving", "done"} => conn[c] = "closed"
    /\ readPump[c] = "done" => c \in closed \/ hub = Unregistering(c)
    /\ readPump[c] = "done" /\ writePump[c] = "done" /\ hub # Unregistering(c) => Forgotten(c)

\* The part of it that is an invariant by itself.
Ends ==
  \A c \in Clients :
    /\ writePump[c] = "done" \/ readPump[c] \in {"leaving", "done"} => conn[c] = "closed"
    /\ readPump[c] = "done" => c \in closed \/ hub = Unregistering(c)

LEMMA EndsStep ==
  ASSUME HubIInv, Ends, [HubNext]_hubVars
  PROVE  Ends'
<1>. USE DEF HubTypeOK
<1>. USE HubCases DEF HubIInv, Ends
<1>1. ASSUME NEW c \in Clients, HandleWS(c) PROVE Ends'
  BY <1>1 DEF HandleWS
<1>2. ASSUME NEW c \in Clients, PeerClose(c) PROVE Ends'
  BY <1>2 DEF PeerClose
<1>3. ASSUME NEW c \in Clients, BeginPong(c) \/ EndPong(c) PROVE Ends'
  BY <1>3 DEF BeginPong, EndPong
<1>4. ASSUME NEW c \in Clients, ReadError(c) PROVE Ends'
  BY <1>4 DEF ReadError
<1>5. ASSUME NEW c \in Clients, BeginWrite(c) \/ EndWrite(c) PROVE Ends'
  BY <1>5, ZenonT(30) DEF BeginWrite, EndWrite
<1>6. ASSUME NEW c \in Clients, WriteError(c) PROVE Ends'
  BY <1>6 DEF WriteError
<1>7. ASSUME NEW c \in Clients, WriteClose(c) PROVE Ends'
  BY <1>7 DEF WriteClose
<1>8. ASSUME NEW c \in Clients, SendRegister(c) PROVE Ends'
  BY <1>8 DEF SendRegister
<1>9. ASSUME NEW c \in Clients, SendUnregister(c) PROVE Ends'
  BY <1>9 DEF SendUnregister
<1>10. ASSUME UNCHANGED <<readPump, writePump, conn>>, closed \subseteq closed',
              \A c \in Clients : hub = Unregistering(c) => hub' = hub \/ c \in closed'
       PROVE  Ends'
  BY <1>10
<1>11. ASSUME NEW c \in Clients, NEW t \in Topics, HandleSubscribe(c, t) \/ HandleUnsubscribe(c, t)
       PROVE  Ends'
  BY <1>11, <1>10 DEF HandleSubscribe, HandleUnsubscribe
<1>12. ASSUME NEW t \in Topics, Publish(t) PROVE Ends'
  BY <1>12, <1>10 DEF Publish
<1>13. ASSUME HubRegister PROVE Ends'
  <2>1. hub = Registering(hub.client) /\ hub.client \in Clients
    BY <1>13, HubArgument DEF HubRegister
  <2>. QED  BY <1>13, <2>1, <1>10 DEF HubRegister
<1>14. ASSUME HubUnregister PROVE Ends'
  <2>1. hub = Unregistering(hub.client) /\ hub.client \in Clients
    BY <1>14, HubArgument DEF HubUnregister
  <2>2. closed \subseteq closed' /\ UNCHANGED <<readPump, writePump, conn>>
    BY <1>14 DEF HubUnregister
  <2>3. hub.client \in closed'
    <3>1. hub.client \in clients => closed' = closed \cup {hub.client}
      BY <1>14 DEF HubUnregister
    <3>2. Registered(hub.client)
      BY <2>1 DEF HubSafety, Handshake, Registered
    <3>3. hub.client \in clients \/ hub.client \in closed
      BY <2>1, <3>2 DEF HubSafety, OpenIffInClients
    <3>. QED  BY <2>2, <3>1, <3>3
  <2>. QED  BY <2>1, <2>2, <2>3, <1>10
<1>15. ASSUME HubBroadcast PROVE Ends'
  <2>1. hub = Broadcasting(hub.msg) /\ hub.msg \in Message
    BY <1>15, HubArgument DEF HubBroadcast
  <2>. QED  BY <1>15, <2>1, <1>10 DEF HubBroadcast, Evict
<1>16. ASSUME HubBroadcastPanic PROVE Ends'
  BY <1>16, <1>10 DEF HubBroadcastPanic
<1>17. ASSUME UNCHANGED hubVars PROVE Ends'
  BY <1>17, <1>10 DEF hubVars
<1>. QED
  BY <1>1, <1>2, <1>3, <1>4, <1>5, <1>6, <1>7, <1>8, <1>9, <1>11, <1>12, <1>13, <1>14, <1>15,
     <1>16, <1>17 DEF HubNext, HubStep, ReadPumpStep, WritePumpStep

\* Whichever of a connection's goroutines ends, the other one finds what it waits
\* for, and in the end the hub has forgotten the client: the safety part of
\* PumpsEndTogether.
THEOREM NoPumpIsLeft == HubSpec => []PumpsAreWoken
<1>1. HubInit => Ends
  BY DEF HubInit, Ends
<1>2. HubIInv /\ Ends => PumpsAreWoken
  <2>. SUFFICES ASSUME HubIInv, Ends, NEW c \in Clients, readPump[c] = "done",
                       writePump[c] = "done", hub # Unregistering(c)
                PROVE  Forgotten(c)
    BY DEF PumpsAreWoken, Ends
  <2>1. c \in closed /\ c \notin clients
    BY DEF Ends, HubIInv, HubSafety, OpenIffInClients
  <2>2. c \in evicted \/ \A t \in Topics : c \notin subscriptions[t]
    BY <2>1 DEF HubIInv, HubSafety, StaleSubscribersWereEvicted
  <2>. QED
    BY <2>1, <2>2 DEF Forgotten
<1>. QED
  BY <1>1, <1>2, EndsStep, HubSpecIInv, PTL DEF HubSpec

-----------------------------------------------------------------------------
(* The order of the messages on their way to a connection.                 *)

\* Receiving from the channel and writing does not reorder the messages.
LEMMA ReceiveKeepsSent ==
  ASSUME NEW S, NEW w \in Seq(S), NEW s \in Seq(S), s # <<>>
  PROVE  Append(w, Head(s)) \o Tail(s) = w \o s
<1>1. /\ Append(w, Head(s)) \in Seq(S) /\ Len(Append(w, Head(s))) = Len(w) + 1
      /\ \A i \in 1..Len(w) : Append(w, Head(s))[i] = w[i]
      /\ Append(w, Head(s))[Len(w) + 1] = Head(s)
  BY HeadTailProperties, AppendProperties
<1>2. /\ Tail(s) \in Seq(S) /\ Len(Tail(s)) = Len(s) - 1
      /\ \A i \in 1..Len(Tail(s)) : Tail(s)[i] = s[i + 1]
  BY HeadTailProperties
<1>3. Len(w) \in Nat /\ Len(s) \in Nat \ {0} /\ Head(s) = s[1]
  BY LenProperties, EmptySeq
<1>4. Append(w, Head(s)) \o Tail(s) \in Seq(S) /\ w \o s \in Seq(S)
  BY <1>1, <1>2, ConcatProperties
<1>5. Len(Append(w, Head(s)) \o Tail(s)) = Len(w \o s)
  BY <1>1, <1>2, <1>3, ConcatProperties
<1>6. ASSUME NEW i \in 1..Len(w \o s)
      PROVE  (Append(w, Head(s)) \o Tail(s))[i] = (w \o s)[i]
  BY <1>1, <1>2, <1>3, <1>5, ConcatProperties
<1>. QED
  BY <1>4, <1>5, <1>6, SeqEqual

\* The hub adds a message behind all the others.
LEMMA EnqueueExtendsSent ==
  ASSUME NEW S, NEW w \in Seq(S), NEW s \in Seq(S), NEW m \in S,
         NEW old, old = w \o s, NEW new, new = w \o Append(s, m)
  PROVE  /\ Len(old) \in Nat /\ Len(new) = Len(old) + 1
         /\ \A i \in 1..Len(old) : new[i] = old[i]
         /\ new[Len(old) + 1] = m
<1>1. /\ Append(s, m) \in Seq(S) /\ Len(Append(s, m)) = Len(s) + 1
      /\ \A i \in 1..Len(s) : Append(s, m)[i] = s[i]
      /\ Append(s, m)[Len(s) + 1] = m
  BY AppendProperties
<1>2. Len(w) \in Nat /\ Len(s) \in Nat
  BY LenProperties
<1>. QED
  BY <1>1, <1>2, ConcatProperties

\* Everything on its way was published before what run() is broadcasting, and
\* that before anything yet to come.
OrderInv ==
  /\ InPublishOrder
  /\ hub.op = "broadcast" => hub.msg.id <= calls
  /\ \A c \in Clients : \A i \in 1..Len(Sent(c)) :
       /\ Sent(c)[i].id <= calls
       /\ hub.op = "broadcast" => Sent(c)[i].id < hub.msg.id

LEMMA SentType ==
  ASSUME HubTypeOK, NEW c \in Clients
  PROVE  /\ Sent(c) \in Seq(Message) /\ Len(Sent(c)) \in Nat
         /\ \A i \in 1..Len(Sent(c)) : Sent(c)[i].id \in Nat
<1>1. written[c] \in Seq(Message) /\ send[c] \in Seq(Message)
  BY DEF HubTypeOK
<1>2. Sent(c) \in Seq(Message)
  BY <1>1, ConcatProperties DEF Sent
<1>3. \A m \in Message : m.id \in Nat
  BY WsHubAssumption DEF Message
<1>. QED
  BY <1>2, <1>3, LenProperties, ElementOfSeq

LEMMA Numbers ==
  ASSUME HubTypeOK
  PROVE  calls \in Nat /\ (hub.op = "broadcast" => hub.msg \in Message /\ hub.msg.id \in Nat)
<1>1. calls \in Nat
  <2>1. calls \in 0..MaxMessages /\ MaxMessages \in Nat
    BY WsHubAssumption DEF HubTypeOK
  <2>. QED
    BY <2>1
<1>2. \A m \in Message : m.id \in Nat
  BY WsHubAssumption DEF Message
<1>. QED
  BY <1>1, <1>2, HubArgument DEF HubTypeOK

\* A message that a pump writes has been given to the connection before.
LEMMA WriteKeepsSent ==
  ASSUME HubTypeOK, NEW c \in Clients, BeginWrite(c)
  PROVE  \A d \in Clients : Sent(d)' = Sent(d)
<1>1. /\ send[c] \in Seq(Message) /\ send[c] # <<>> /\ written[c] \in Seq(Message)
      /\ send'[c] = Tail(send[c]) /\ written'[c] = Append(written[c], Head(send[c]))
      /\ \A d \in Clients \ {c} : send'[d] = send[d] /\ written'[d] = written[d]
  BY DEF BeginWrite, HubTypeOK
<1>2. Sent(c)' = Append(written[c], Head(send[c])) \o Tail(send[c])
  BY <1>1 DEF Sent
<1>3. Sent(c)' = Sent(c)
  BY ONLY <1>1, <1>2, ReceiveKeepsSent DEF Sent
<1>. QED
  BY <1>1, <1>3 DEF Sent

LEMMA OrderStep == HubTypeOK /\ HubTypeOK' /\ OrderInv /\ [HubNext]_hubVars => OrderInv'
<1> SUFFICES ASSUME HubTypeOK, HubTypeOK', OrderInv, [HubNext]_hubVars PROVE OrderInv'
    OBVIOUS
<1>1. ASSUME UNCHANGED <<written, send, hub, calls>> PROVE OrderInv'
  BY <1>1 DEF OrderInv, InPublishOrder, Sent
<1>2. ASSUME UNCHANGED <<written, send, calls>>, hub'.op # "broadcast" PROVE OrderInv'
  BY <1>2 DEF OrderInv, InPublishOrder, Sent
<1>3. ASSUME NEW c \in Clients, BeginWrite(c) PROVE OrderInv'
  <2>1. UNCHANGED <<hub, calls>>
    BY <1>3 DEF BeginWrite
  <2>. QED
    BY <1>3, <2>1, WriteKeepsSent DEF OrderInv, InPublishOrder
<1>4. ASSUME NEW t \in Topics, Publish(t) PROVE OrderInv'
  <2>1. calls \in Nat /\ calls' = calls + 1 /\ \A c \in Clients : Sent(c)' = Sent(c)
    BY <1>4, Numbers DEF Publish, Sent
  <2>2. InPublishOrder'
    BY <2>1 DEF OrderInv, InPublishOrder
  <2>3. CASE hub = Selecting
    <3>1. hub'.op = "broadcast" /\ hub'.msg.id = calls + 1
      BY <1>4, <2>3 DEF Publish, Broadcasting
    <3>. QED
      BY <2>1, <2>2, <3>1, SentType DEF OrderInv
  <2>4. CASE hub # Selecting
    <3>1. hub' = hub /\ (hub.op = "broadcast" => hub.msg.id \in Nat)
      BY <1>4, <2>4, Numbers DEF Publish
    <3>. QED
      BY <2>1, <2>2, <3>1, SentType DEF OrderInv
  <2>. QED
    BY <2>3, <2>4
<1>5. ASSUME HubBroadcast PROVE OrderInv'
  <2>1. /\ hub.op = "broadcast" /\ hub.msg \in Message /\ hub.msg.id \in Nat
        /\ hub'.op # "broadcast" /\ UNCHANGED <<written, calls>> /\ calls \in Nat
    BY <1>5, Numbers DEF HubBroadcast, Selecting
  <2>2. ASSUME NEW c \in Clients
        PROVE  /\ \A i \in 1..Len(Sent(c)') : Sent(c)'[i].id <= calls
               /\ \A i, j \in 1..Len(Sent(c)') : i < j => Sent(c)'[i].id < Sent(c)'[j].id
    <3>1. written[c] \in Seq(Message) /\ send[c] \in Seq(Message)
      BY DEF HubTypeOK
    <3>2. CASE send'[c] = send[c]
      <4>1. Sent(c)' = Sent(c)
        BY <2>1, <3>2 DEF Sent
      <4>. QED
        BY <4>1 DEF OrderInv, InPublishOrder
    <3>3. CASE send'[c] = Append(send[c], hub.msg)
      <4>1. /\ Len(Sent(c)) \in Nat /\ Len(Sent(c)') = Len(Sent(c)) + 1
            /\ \A i \in 1..Len(Sent(c)) : Sent(c)'[i] = Sent(c)[i]
            /\ Sent(c)'[Len(Sent(c)) + 1] = hub.msg
        <5>0. hub.msg \in Message
          BY <2>1
        <5>1. Sent(c)' = written[c] \o Append(send[c], hub.msg) /\ Sent(c) = written[c] \o send[c]
          BY <2>1, <3>3 DEF Sent
        <5>2. /\ \A w, s \in Seq(Message) : Len(w \o s) \in Nat
              /\ \A w, s \in Seq(Message) : \A m \in Message :
                   Len(w \o Append(s, m)) = Len(w \o s) + 1
          BY ONLY EnqueueExtendsSent
        <5>3. Len(Sent(c)) \in Nat /\ Len(Sent(c)') = Len(Sent(c)) + 1
          BY <3>1, <5>0, <5>1, <5>2, Zenon
        <5>4. \A i \in 1..Len(Sent(c)) : Sent(c)'[i] = Sent(c)[i]
          <6>1. \A w, s \in Seq(Message) : \A m \in Message :
                  \A i \in 1..Len(w \o s) : (w \o Append(s, m))[i] = (w \o s)[i]
            BY ONLY EnqueueExtendsSent
          <6>2. \A i \in 1..Len(written[c] \o send[c]) :
                  (written[c] \o Append(send[c], hub.msg))[i] = (written[c] \o send[c])[i]
            BY ONLY <3>1, <5>0, <6>1, Zenon
          <6>. QED
            BY <5>1, <6>2, Zenon
        <5>5. Sent(c)'[Len(Sent(c)) + 1] = hub.msg
          <6>1. \A w, s \in Seq(Message) : \A m \in Message :
                  (w \o Append(s, m))[Len(w \o s) + 1] = m
            BY ONLY EnqueueExtendsSent
          <6>2. (written[c] \o Append(send[c], hub.msg))[Len(written[c] \o send[c]) + 1] = hub.msg
            BY ONLY <3>1, <5>0, <6>1, Zenon
          <6>. QED
            BY <5>1, <6>2, Zenon
        <5>. QED
          BY ONLY <5>3, <5>4, <5>5
      <4>2. \A i \in 1..Len(Sent(c)) : Sent(c)[i].id < hub.msg.id /\ Sent(c)[i].id \in Nat
        BY <2>1, SentType DEF OrderInv
      <4>3. \A i \in 1..Len(Sent(c)') : i \in 1..Len(Sent(c)) \/ i = Len(Sent(c)) + 1
        BY <4>1
      <4>4. hub.msg.id <= calls
        BY <2>1 DEF OrderInv
      <4>5. \A i, j \in 1..Len(Sent(c)) : i < j => Sent(c)[i].id < Sent(c)[j].id
        BY DEF OrderInv, InPublishOrder
      <4>6. \A i \in 1..Len(Sent(c)') : Sent(c)'[i].id <= calls
        BY <2>1, <4>1, <4>2, <4>3, <4>4
      <4>7. ASSUME NEW i \in 1..Len(Sent(c)'), NEW j \in 1..Len(Sent(c)'), i < j
            PROVE  Sent(c)'[i].id < Sent(c)'[j].id
        <5>1. i \in 1..Len(Sent(c))
          BY <4>1, <4>7
        <5>. QED
          BY <4>1, <4>2, <4>3, <4>5, <4>7, <5>1
      <4>. QED
        BY <4>6, <4>7
    <3>. QED
      BY <1>5, <3>2, <3>3 DEF HubBroadcast, HubTypeOK
  <2>. QED
    BY <2>1, <2>2 DEF OrderInv, InPublishOrder
<1>6. (\E c \in Clients : SendRegister(c) \/ SendUnregister(c)) => hub'.op # "broadcast"
  BY DEF SendRegister, SendUnregister, Registering, Unregistering
<1>7. HubRegister \/ HubUnregister => hub'.op # "broadcast"
  <2>1. HubRegister \/ HubUnregister => hub' = Selecting
    BY Zenon DEF HubRegister, HubUnregister
  <2>. QED
    BY <2>1 DEF Selecting
<1>. QED
  BY <1>1, <1>2, <1>3, <1>4, <1>5, <1>6, <1>7
     DEF HubNext, HubStep, ReadPumpStep, WritePumpStep, hubVars, HandleWS, PeerClose, BeginPong,
         EndPong, ReadError, EndWrite, WriteError, WriteClose, SendRegister, SendUnregister,
         HandleSubscribe, HandleUnsubscribe, HubRegister, HubUnregister, HubBroadcastPanic

LEMMA HubSpecOrder == HubSpec => []OrderInv
<1>1. HubInit => OrderInv
  BY DEF HubInit, OrderInv, InPublishOrder, Sent, Selecting
<1>. QED
  BY <1>1, OrderStep, HubTypeCorrect, PTL DEF HubSpec

\* Each connection is given the messages it is subscribed to in the order of
\* the calls of Publish and at most once, whatever the buffers and the
\* interleaving of publishers, hub and pumps.
THEOREM MessagesInOrder == HubSpec => []InPublishOrder
<1>1. OrderInv => InPublishOrder
  BY DEF OrderInv
<1>. QED
  BY <1>1, HubSpecOrder, PTL

-----------------------------------------------------------------------------
(* The hub implements PubSub.                                              *)

\* How far the hub has got with the calls of Publish.
LEMMA DealtWith ==
  ASSUME HubTypeOK
  PROVE  /\ hub.op = "broadcast" => hub.msg.id \in Nat \ {0}
         /\ (IF hub.op = "broadcast" THEN hub.msg.id - 1 ELSE calls) \in Nat
<1>1. \A m \in Message : m.id \in Nat \ {0}
  BY WsHubAssumption DEF Message
<1>2. hub.op = "broadcast" => hub.msg.id \in Nat \ {0}
  BY <1>1, HubArgument DEF HubTypeOK
<1>3. hub.op = "broadcast" => hub.msg.id - 1 \in Nat
  BY <1>2
<1>. QED
  BY <1>2, <1>3, Numbers

\* What a client is given by a broadcast is added behind what it had.
LEMMA BroadcastAdds ==
  ASSUME HubTypeOK, HubBroadcast, NEW c \in Clients
  PROVE  Sent(c)' = IF c \in Subscribers(hub.msg) \ Full(hub.msg)
                      THEN Append(Sent(c), hub.msg) ELSE Sent(c)
<1>1. /\ hub.msg \in Message /\ written[c] \in Seq(Message) /\ send[c] \in Seq(Message)
      /\ written' = written
      /\ send'[c] = IF c \in Subscribers(hub.msg) \ Full(hub.msg)
                      THEN Append(send[c], hub.msg) ELSE send[c]
  BY Numbers DEF HubBroadcast, HubTypeOK
<1>2. \A w, s \in Seq(Message) : \A m \in Message : w \o Append(s, m) = Append(w \o s, m)
  <2> SUFFICES ASSUME NEW w \in Seq(Message), NEW s \in Seq(Message), NEW m \in Message
               PROVE  w \o Append(s, m) = Append(w \o s, m)
      OBVIOUS
  <2>1. Append(s, m) = s \o <<m>> /\ <<m>> \in Seq(Message)
    BY AppendIsConcat
  <2>2. w \o s \in Seq(Message) /\ Append(w \o s, m) = (w \o s) \o <<m>>
    BY ConcatProperties, AppendIsConcat
  <2>3. (w \o s) \o <<m>> = w \o (s \o <<m>>)
    BY <2>1, ConcatAssociative
  <2>. QED
    BY <2>1, <2>2, <2>3
<1>. QED
  BY <1>1, <1>2 DEF Sent

\* A subscription, a disconnection, an accepted or dropped call and a broadcast
\* are steps of PubSub, and the rest of the hub and of the pumps is a stutter.
LEMMA PubSubStep ==
  HubIInv /\ HubTypeOK' /\ OrderInv /\ [HubNext]_hubVars => [P!Next]_(P!vars)
<1> SUFFICES ASSUME HubIInv, HubTypeOK', OrderInv, [HubNext]_hubVars
             PROVE  P!Next \/ UNCHANGED P!vars
    OBVIOUS
<1>0. HubTypeOK
  BY DEF HubIInv
<1>1. ASSUME UNCHANGED <<subscriptions, closed, hub, calls, written, send>>
      PROVE  UNCHANGED P!vars
  BY <1>1 DEF P!vars, Sent
<1>2. ASSUME UNCHANGED <<subscriptions, closed, calls, written, send>>,
             hub.op # "broadcast", hub'.op # "broadcast"
      PROVE  UNCHANGED P!vars
  BY <1>2 DEF P!vars, Sent
<1>3. ASSUME NEW c \in Clients, NEW t \in Topics, HandleSubscribe(c, t)
      PROVE  P!Next
  <2>1. P!Subscribe(c, t)
    BY <1>3 DEF HandleSubscribe, P!Subscribe, Sent
  <2>. QED
    BY <2>1 DEF P!Next
<1>4. ASSUME NEW c \in Clients, NEW t \in Topics, HandleUnsubscribe(c, t)
      PROVE  P!Next
  <2>1. P!Unsubscribe(c, t)
    BY <1>4 DEF HandleUnsubscribe, P!Unsubscribe, Sent
  <2>. QED
    BY <2>1 DEF P!Next
<1>5. ASSUME NEW c \in Clients, BeginWrite(c)
      PROVE  UNCHANGED P!vars
  BY <1>0, <1>5, WriteKeepsSent DEF BeginWrite, P!vars
<1>6. ASSUME NEW t \in Topics, Publish(t)
      PROVE  P!Next \/ UNCHANGED P!vars
  <2>1. /\ calls \in Nat /\ calls' = calls + 1
        /\ UNCHANGED <<subscriptions, closed, written, send>>
    BY <1>0, <1>6, Numbers DEF Publish
  <2>2. CASE hub = Selecting
    <3>1. hub.op # "broadcast" /\ hub'.op = "broadcast" /\ hub'.msg.id - 1 = calls
      BY <1>6, <2>1, <2>2 DEF Publish, Selecting, Broadcasting
    <3>. QED
      BY <2>1, <3>1 DEF P!vars, Sent
  <2>3. CASE hub # Selecting /\ hub.op = "broadcast"
    <3>1. hub' = hub
      BY <1>6, <2>3 DEF Publish
    <3>. QED
      BY <2>1, <2>3, <3>1 DEF P!vars, Sent
  <2>4. CASE hub # Selecting /\ hub.op # "broadcast"
    <3>1. hub' = hub
      BY <1>6, <2>4 DEF Publish
    <3>2. calls' \in Nat /\ calls' > calls
      BY <2>1
    <3>3. P!Lose
      BY <2>1, <2>4, <3>1, <3>2 DEF P!Lose, Sent
    <3>. QED
      BY <3>3 DEF P!Next
  <2>. QED
    BY <2>2, <2>3, <2>4
<1>7. ASSUME HubUnregister
      PROVE  P!Next \/ UNCHANGED P!vars
  <2>1. /\ hub.client \in Clients /\ hub.op # "broadcast" /\ hub'.op # "broadcast"
        /\ UNCHANGED <<calls, written, send>>
    BY <1>0, <1>7, HubArgument DEF HubUnregister, HubTypeOK, Selecting
  <2>2. CASE hub.client \in clients
    <3>1. \A t \in Topics : t \notin topics[hub.client] => hub.client \notin subscriptions[t]
      BY <2>1 DEF HubIInv, HubSafety, Handshake
    <3>2. subscriptions' = [t \in Topics |-> subscriptions[t] \ {hub.client}]
      BY <1>7, <2>2, <3>1 DEF HubUnregister
    <3>3. P!Leave(hub.client)
      BY <1>7, <2>1, <2>2, <3>2 DEF HubUnregister, P!Leave, Sent
    <3>. QED
      BY <2>1, <3>3 DEF P!Next
  <2>3. CASE hub.client \notin clients
    BY <1>2, <1>7, <2>1, <2>3 DEF HubUnregister
  <2>. QED
    BY <2>2, <2>3
<1>8. ASSUME HubBroadcast
      PROVE  P!Next
  <2> DEFINE m == hub.msg
  <2>1. /\ hub.op = "broadcast" /\ hub'.op # "broadcast" /\ m \in Message
        /\ m.id \in Nat \ {0} /\ calls \in Nat /\ m.id <= calls /\ calls' = calls
    BY <1>0, <1>8, Numbers, DealtWith DEF HubBroadcast, Selecting, OrderInv
  <2>2. m.topic \in Topics /\ m = [id |-> m.id, topic |-> m.topic]
    BY <2>1 DEF Message
  <2>3. /\ Full(m) \subseteq subscriptions[m.topic] /\ Full(m) \subseteq Clients
        /\ closed' = closed \cup Full(m) /\ subscriptions' = subscriptions
        /\ Subscribers(m) \ Full(m) = subscriptions[m.topic] \ closed'
    BY <1>0, <1>8, <2>2 DEF HubBroadcast, Evict, Full, Subscribers, HubTypeOK
  <2>4. m.id \in (m.id - 1 + 1)..calls
    BY <2>1
  <2>5. [c \in Clients |-> Sent(c)]'
          = [c \in Clients |-> IF c \in subscriptions[m.topic] \ closed'
               THEN Append([d \in Clients |-> Sent(d)][c], [id |-> m.id, topic |-> m.topic])
               ELSE [d \in Clients |-> Sent(d)][c]]
    BY <1>0, <1>8, <2>2, <2>3, BroadcastAdds
  <2>6. P!Deliver(m.topic, Full(m))
    BY <2>1, <2>3, <2>4, <2>5 DEF P!Deliver
  <2>. QED
    BY <2>2, <2>3, <2>6 DEF P!Next
<1>9. ASSUME NEW c \in Clients, SendRegister(c) \/ SendUnregister(c)
      PROVE  UNCHANGED P!vars
  <2>1. hub.op # "broadcast" /\ hub'.op # "broadcast"
    BY <1>9 DEF SendRegister, SendUnregister, Selecting, Registering, Unregistering
  <2>. QED
    BY <1>2, <1>9, <2>1 DEF SendRegister, SendUnregister
<1>10. ASSUME HubRegister
       PROVE  UNCHANGED P!vars
  <2>1. hub.op # "broadcast" /\ hub'.op # "broadcast"
    BY <1>10 DEF HubRegister, Selecting
  <2>. QED
    BY <1>2, <1>10, <2>1 DEF HubRegister
<1>. QED
  BY <1>1, <1>3, <1>4, <1>5, <1>6, <1>7, <1>8, <1>9, <1>10
     DEF HubNext, HubStep, ReadPumpStep, WritePumpStep, hubVars, HandleWS, PeerClose, BeginPong,
         EndPong, ReadError, EndWrite, WriteError, WriteClose, HubBroadcastPanic

\* ImplementsPubSub: a connection gets what was published to the topics it was
\* subscribed to, in the order of the calls, and no gaps: a subscriber that
\* misses a message the others got is closed and gets nothing any more.
THEOREM HubImplementsPubSub == HubSpec => ImplementsPubSub
<1>1. HubInit => P!Init
  BY DEF HubInit, P!Init, Sent, Selecting
<1>2. HubIInv => HubTypeOK
  BY DEF HubIInv
<1>. QED
  BY <1>1, <1>2, PubSubStep, HubSpecIInv, HubSpecOrder, PTL DEF HubSpec, P!Spec, ImplementsPubSub

-----------------------------------------------------------------------------
(* The registry.                                                           *)

\* The call has no id yet, or holds the id it is registering.
Early == {"idle", "match", "merging", "lookup", "insert"}
Holding == {"configAdd", "addConfig", "addServer"}

\* Where a call is determines whether it has an id, an entry and a server.
CallShape ==
  \A k \in Calls :
    /\ call[k].at \in Early => call[k].id = None /\ server[k] = "none"
    /\ call[k].at \in Holding => call[k].id # None /\ server[k] = "none"
    /\ call[k].at # "idle" => call[k].entry \in Entries
    /\ server[k] # "none" => call[k].id # None
    /\ call[k].id # None => call[k].at # "idle"

\* A call that has no id has inserted no row, and its name is not in use.
Fresh ==
  \A k \in Calls : call[k].id = None =>
    /\ configRow[k] = None /\ id_to_config[k] = None
    /\ k \notin deleted /\ deleting # k
    /\ \A j \in Calls : call[j].id # k

\* A row that was deleted does not come back, and a fingerprint has one row.
Rows ==
  /\ \A i \in Ids : configRow[i] # None => i \notin deleted
  /\ \A i, j \in Ids : configRow[i] # None /\ configRow[i] = configRow[j] => i = j

\* Everyone who holds an id means the same entry by it: the row as long as it
\* is not deleted, the calls, and the map.
RowOfCall ==
  \A k \in Calls : call[k].id # None /\ call[k].id \notin deleted
    => configRow[call[k].id] = call[k].entry
SameEntry ==
  \A j, k \in Calls : call[j].id # None /\ call[j].id = call[k].id
    => call[j].entry = call[k].entry
MapOfCall ==
  \A i \in Ids : \A k \in Calls : id_to_config[i] # None /\ call[k].id = i
    => id_to_config[i] = call[k].entry
RowOfMap ==
  \A i \in Ids : id_to_config[i] # None /\ i \notin deleted => configRow[i] = id_to_config[i]

IdMeansEntry == RowOfCall /\ SameEntry /\ MapOfCall /\ RowOfMap

Listed(i) == \E n \in DOMAIN config_ids : config_ids[n] = i

\* What a call has done to the maps by the time it gets to a point.
Stored ==
  \A k \in Calls :
    /\ call[k].at \in {"addConfig", "addServer"} \/ server[k] # "none" => Listed(call[k].id)
    /\ call[k].at = "addServer" \/ server[k] # "none"
         => id_to_config[call[k].id] = call[k].entry
    /\ server[k] # "none" => HasProxyServer(call[k].id)

Registry == CallShape /\ Fresh /\ Rows /\ IdMeansEntry /\ Stored

\* A proxy that was listening when the export began is in the list already or
\* will be found under an id that is still to be looked up.
Collecting ==
  export.at # "idle" => \A e \in export.live :
    \/ \E n \in DOMAIN export.list : export.list[n] = e
    \/ /\ export.at = "collect"
       /\ \E n \in DOMAIN export.todo :
            Active(export.todo[n]) /\ Plain(id_to_config[export.todo[n]]) = e

-----------------------------------------------------------------------------
(* Types.                                                                  *)

Kinds == {"none", "boot", "create", "start", "merge"}
Results == {"none", "not found", "ignored", "conflict", "error", "lost race", "success"}
CallType == [kind : Kinds, at : CallStates, entry : Entries \cup {None},
             id : Ids \cup {None}, snapshot : Seq(Entries), result : Results]

LEMMA PlainType == \A e \in Entries : Plain(e) \in Entries
  BY DEF Plain, Entries, Marks

LEMMA IdleType == Idle \in CallType
  BY DEF Idle, CallType, Kinds, CallStates, Results

\* A call whose place, entry, id, snapshot or result changes is still a call.
LEMMA CallMoves ==
  ASSUME NEW c \in CallType, NEW a \in CallStates
  PROVE  [c EXCEPT !.at = a] \in CallType
  BY DEF CallType

LEMMA CallAnswers ==
  ASSUME NEW c \in CallType, NEW a \in CallStates, NEW r \in Results
  PROVE  [c EXCEPT !.at = a, !.result = r] \in CallType
  BY DEF CallType

LEMMA CallGetsEntry ==
  ASSUME NEW c \in CallType, NEW a \in CallStates, NEW e \in Entries
  PROVE  [c EXCEPT !.at = a, !.entry = e] \in CallType
  BY DEF CallType

LEMMA CallGetsId ==
  ASSUME NEW c \in CallType, NEW a \in CallStates, NEW i \in Ids
  PROVE  [c EXCEPT !.at = a, !.id = i] \in CallType
  BY DEF CallType

LEMMA CallGetsSnapshot ==
  ASSUME NEW c \in CallType, NEW a \in CallStates, NEW s \in Seq(Entries)
  PROVE  [c EXCEPT !.at = a, !.snapshot = s] \in CallType
  BY DEF CallType

LEMMA CallBegins ==
  ASSUME NEW q \in Kinds, NEW a \in CallStates, NEW e \in Entries
  PROVE  [Idle EXCEPT !.kind = q, !.at = a, !.entry = e] \in CallType
  BY IdleType DEF CallType
\* What Return makes of a call.
LEMMA ReturnType ==
  ASSUME call \in [Calls -> CallType], NEW k \in Calls, NEW r \in Results, Return(k, r)
  PROVE  call' \in [Calls -> CallType]
  <1> DEFINE a == IF call[k].kind = "merge" THEN "append" ELSE "done"
  <1>1. a \in CallStates
    BY DEF CallStates
  <1>2. [call[k] EXCEPT !.at = a, !.result = r] \in CallType
    BY <1>1, CallAnswers
  <1> QED
    BY <1>2 DEF Return

\* One step of the program preserves the types.
LEMMA TypeNext ==
  ASSUME RegistryTypeOK, CallShape, [RegistryNext]_registryVars
  PROVE  RegistryTypeOK'
  <1> USE ProxyRegistryAssumption
  <1> DEFINE Rest == <<configRow, store, sysProxies, server, booted, exporting, deletion, stopped,
                       dbErrors>>
  <1>t. call \in [Calls -> CallType]
    BY DEF RegistryTypeOK, CallType, Kinds, Results
  <1>r. ASSUME call' \in [Calls -> CallType], UNCHANGED Rest  PROVE RegistryTypeOK'
    BY <1>r DEF RegistryTypeOK, CallType, Kinds, Results, store,
         exporting, deletion
  <1>e. \A k \in Calls : call[k].at # "idle" => call[k].entry \in Entries
    BY DEF CallShape
  <1>1. ASSUME NEW k \in Calls, Boot(k)  PROVE RegistryTypeOK'
    <2>0. Len(InitialProxies) \in Nat /\ booted \in 0..Len(InitialProxies)
      BY LenProperties DEF RegistryTypeOK
    <2>1. InitialProxies[booted + 1] \in Entries
      <3>1. booted + 1 \in 1..Len(InitialProxies)
        BY <2>0, <1>1, LenProperties DEF Boot
      <3> QED BY <3>1, ElementOfSeq
    <2>2. call' \in [Calls -> CallType]
      <3>1. [Idle EXCEPT !.kind = "boot", !.at = "lookup",
                         !.entry = InitialProxies[booted + 1]] \in CallType
        BY <2>1, CallBegins DEF Kinds, CallStates
      <3> QED BY <3>1, <1>1, <1>t DEF Boot
    <2>3. booted' \in 0..Len(InitialProxies)
      BY <2>0, <1>1 DEF Boot
    <2> QED
      BY <2>2, <2>3, <1>1 DEF Boot, RegistryTypeOK, CallType, Kinds, Results, store,
         exporting, deletion
  <1>2. ASSUME NEW k \in Calls, NEW l \in Listens, NEW t \in Targets,
               HandleCreate(k, l, t) \/ HandleMerge(k, l, t)
        PROVE RegistryTypeOK'
    <2> DEFINE e == [listen |-> l, target |-> t, mark |-> "plain"]
    <2>1. e \in Entries
      BY DEF Entries, Marks
    <2>2. /\ [Idle EXCEPT !.kind = "create", !.at = "lookup", !.entry = e] \in CallType
          /\ [Idle EXCEPT !.kind = "merge", !.at = "merging", !.entry = e] \in CallType
      BY <2>1, CallBegins DEF Kinds, CallStates
    <2>3. call' \in [Calls -> CallType]
      BY <2>2, <1>2, <1>t DEF HandleCreate, HandleMerge
    <2> QED
      BY <2>3, <1>2, <1>r DEF HandleCreate, HandleMerge
  <1>3. ASSUME NEW k \in Calls, NEW i \in Ids, HandleStart(k, i)  PROVE RegistryTypeOK'
    <2>1. id_to_config[i] \in Entries
      BY <1>3 DEF HandleStart, RegistryTypeOK
    <2>2. [Idle EXCEPT !.kind = "start", !.at = "match", !.entry = id_to_config[i]] \in CallType
      BY <2>1, CallBegins DEF Kinds, CallStates
    <2>3. call' \in [Calls -> CallType]
      BY <2>2, <1>3, <1>t DEF HandleStart
    <2> QED
      BY <2>3, <1>3, <1>r DEF HandleStart
  <1>4. ASSUME NEW k \in Calls, StartMatch(k)  PROVE RegistryTypeOK'
    <2>1. \A n \in DOMAIN sysProxies : sysProxies[n] \in Entries
      <3>1. sysProxies \in Seq(Entries)
        BY DEF RegistryTypeOK
      <3> QED BY ONLY <3>1, LenProperties, ElementOfSeq
    <2>2. [call[k] EXCEPT !.at = "done", !.result = "not found"] \in CallType
      BY <1>t, CallAnswers DEF CallStates, Results
    <2>3. \A n \in DOMAIN sysProxies :
            [call[k] EXCEPT !.at = "lookup", !.entry = sysProxies[n]] \in CallType
      BY <2>1, <1>t, CallGetsEntry DEF CallStates
    <2>4. call' \in [Calls -> CallType]
      BY <2>2, <2>3, <1>4, <1>t DEF StartMatch
    <2> QED
      BY <2>4, <1>4, <1>r DEF StartMatch
  <1>5. ASSUME NEW k \in Calls, MergeCheck(k)  PROVE RegistryTypeOK'
    <2>1. call' \in [Calls -> CallType]
      <3>1. /\ [call[k] EXCEPT !.at = "lookup"] \in CallType
            /\ [call[k] EXCEPT !.at = "done", !.result = "ignored"] \in CallType
            /\ [call[k] EXCEPT !.at = "done", !.result = "conflict"] \in CallType
        BY <1>t, CallMoves, CallAnswers DEF CallStates, Results
      <3>2. \E c \in CallType : call' = [call EXCEPT ![k] = c]
        BY <3>1, <1>5, <1>t, Zenon DEF MergeCheck
      <3> QED BY <3>2, <1>t
    <2> QED
      BY <2>1, <1>5, <1>r DEF MergeCheck
  <1>6. ASSUME NEW k \in Calls, RejectEntry(k)  PROVE RegistryTypeOK'
    BY <1>6, <1>t, <1>r, ReturnType DEF RejectEntry, Results
  <1>7. ASSUME NEW k \in Calls, FindRow(k)  PROVE RegistryTypeOK'
    <2>1. [call[k] EXCEPT !.at = "insert"] \in CallType
      BY <1>t, CallMoves DEF CallStates
    <2>2. \A i \in Ids : [call[k] EXCEPT !.at = "configAdd", !.id = i] \in CallType
      BY <1>t, CallGetsId DEF CallStates
    <2>3. call' \in [Calls -> CallType]
      BY <2>1, <2>2, <1>7, <1>t DEF FindRow
    <2> QED
      BY <2>3, <1>7, <1>r DEF FindRow
  <1>8. ASSUME NEW k \in Calls, RegisterFails(k)  PROVE RegistryTypeOK'
    <2>1. call' \in [Calls -> CallType]
      BY <1>8, <1>t, ReturnType DEF RegisterFails, Results
    <2>2. dbErrors' \in 0..MaxDbErrors
      <3>1. dbErrors \in 0..MaxDbErrors /\ MaxDbErrors \in Nat
        BY DEF RegistryTypeOK
      <3>2. dbErrors < MaxDbErrors /\ dbErrors' = dbErrors + 1
        BY <1>8 DEF RegisterFails
      <3> QED BY ONLY <3>1, <3>2
    <2> QED
      BY <2>1, <2>2, <1>8
         DEF RegisterFails, RegistryTypeOK, CallType, Kinds, Results, store,
         exporting, deletion
  <1>9. ASSUME NEW k \in Calls, CreateRow(k)  PROVE RegistryTypeOK'
    <2>1. k \in Ids /\ call[k].entry \in Entries
      BY <1>9, <1>e DEF CreateRow, Ids
    <2>2. [call[k] EXCEPT !.at = "configAdd", !.id = k] \in CallType
      BY <2>1, <1>t, CallGetsId DEF CallStates
    <2>3. call' \in [Calls -> CallType]
      BY <2>2, <1>9, <1>t, ReturnType DEF CreateRow, Results
    <2>4. configRow' \in [Ids -> Entries \cup {None}]
      BY <2>1, <1>9 DEF CreateRow, RegistryTypeOK
    <2> QED
      BY <2>3, <2>4, <1>9
         DEF CreateRow, RegistryTypeOK, CallType, Kinds, Results, store,
         exporting, deletion
  <1>10. ASSUME NEW k \in Calls, ConfigAdd(k)  PROVE RegistryTypeOK'
    <2>1. call[k].id \in Ids
      BY <1>10, <1>t DEF ConfigAdd, CallShape, Holding, CallType
    <2>2. call' \in [Calls -> CallType]
      BY <1>10, <1>t, CallMoves DEF ConfigAdd, CallStates
    <2>3. config_ids' \in Seq(Ids)
      BY <2>1, <1>10, AppendProperties DEF ConfigAdd, RegistryTypeOK
    <2> QED
      BY <2>2, <2>3, <1>10
         DEF ConfigAdd, RegistryTypeOK, CallType, Kinds, Results, exporting, deletion
  <1>11. ASSUME NEW k \in Calls, AddProxyConfig(k)  PROVE RegistryTypeOK'
    <2>1. call[k].entry \in Entries
      BY <1>11, <1>e DEF AddProxyConfig
    <2>2. call' \in [Calls -> CallType]
      BY <1>11, <1>t, CallMoves DEF AddProxyConfig, CallStates
    <2>3. id_to_config' \in [Ids -> Entries \cup {None}]
      BY <2>1, <1>11 DEF AddProxyConfig, RegistryTypeOK
    <2> QED
      BY <2>2, <2>3, <1>11
         DEF AddProxyConfig, RegistryTypeOK, CallType, Kinds, Results, exporting, deletion
  <1>12. ASSUME NEW k \in Calls, AddProxyServer(k)  PROVE RegistryTypeOK'
    <2>1. call' \in [Calls -> CallType]
      BY <1>12, <1>t, ReturnType DEF AddProxyServer, Results
    <2>2. /\ id_to_proxyserver' \in [Ids -> Calls \cup {None}]
          /\ server' \in [Calls -> {"none", "starting", "listening", "failed"}]
      BY <1>12 DEF AddProxyServer, RegistryTypeOK
    <2> QED
      BY <2>1, <2>2, <1>12
         DEF AddProxyServer, RegistryTypeOK, CallType, Kinds, Results, exporting, deletion
  <1>13. ASSUME NEW k \in Calls, AppendRead(k)  PROVE RegistryTypeOK'
    <2>1. [call[k] EXCEPT !.at = "store", !.snapshot = sysProxies] \in CallType
      BY <1>t, CallGetsSnapshot DEF CallStates, RegistryTypeOK
    <2> QED
      BY <2>1, <1>13, <1>t, <1>r DEF AppendRead
  <1>14. ASSUME NEW k \in Calls, AppendStore(k)  PROVE RegistryTypeOK'
    <2> DEFINE e == [call[k].entry EXCEPT !.mark =
                       IF call[k].result = "success" THEN "active" ELSE "error"]
    <2>1. [call[k] EXCEPT !.at = "done", !.snapshot = <<>>] \in CallType
      BY <1>t, CallGetsSnapshot, EmptySeq DEF CallStates
    <2>2. call[k].entry \in Entries
      BY <1>14, <1>e DEF AppendStore
    <2>3. e \in Entries
      BY <2>2 DEF Entries, Marks
    <2>4. call[k].snapshot \in Seq(Entries)
      BY <1>t DEF CallType
    <2>5. sysProxies' \in Seq(Entries)
      BY <2>3, <2>4, <1>14, AppendProperties DEF AppendStore
    <2>6. call' \in [Calls -> CallType]
      BY <2>1, <1>14, <1>t DEF AppendStore
    <2> QED
      BY <2>5, <2>6, <1>14
         DEF AppendStore, RegistryTypeOK, CallType, Kinds, Results, store,
         exporting, deletion
  <1>15. ASSUME NEW k \in Calls, ListenAndServe(k)  PROVE RegistryTypeOK'
    BY <1>15 DEF ListenAndServe, RegistryTypeOK, store, exporting, deletion
  <1>16. ASSUME NEW i \in Ids, HandleStop(i) \/ DeleteCheck(i)  PROVE RegistryTypeOK'
    BY <1>16 DEF HandleStop, DeleteCheck, RegistryTypeOK, store, exporting, deletion
  <1>17. ASSUME DeleteConfig  PROVE RegistryTypeOK'
    BY <1>17 DEF DeleteConfig, RegistryTypeOK, store, exporting
  <1>18. ASSUME ExportBegin \/ ExportStep  PROVE RegistryTypeOK'
    <2> DEFINE Ex == [at : {"idle", "collect", "write"}, todo : Seq(Ids),
                      list : Seq(Entries), live : SUBSET Entries]
    <2>e. export \in Ex
      BY DEF RegistryTypeOK
    <2>1. CASE ExportBegin
      <3>1. {Plain(call[k].entry) : k \in {j \in Calls : server[j] = "listening"}}
              \subseteq Entries
        <4>1. ASSUME NEW k \in Calls, server[k] = "listening"
              PROVE  Plain(call[k].entry) \in Entries
          BY <4>1, PlainType DEF CallShape
        <4> QED BY <4>1
      <3>2. export' \in Ex
        BY <3>1, <2>1, EmptySeq DEF ExportBegin, RegistryTypeOK
      <3>3. exports' \in 0..MaxExports
        <4>1. exports \in 0..MaxExports /\ MaxExports \in Nat
          BY DEF RegistryTypeOK
        <4>2. exports < MaxExports /\ exports' = exports + 1
          BY <2>1 DEF ExportBegin
        <4> QED BY ONLY <4>1, <4>2
      <3> QED
        BY <3>2, <3>3, <2>1 DEF ExportBegin, RegistryTypeOK, store, deletion
    <2>2. CASE ExportCollect
      <3>1. Head(export.todo) \in Ids /\ Tail(export.todo) \in Seq(Ids)
        BY <2>2, <2>e, HeadTailProperties DEF ExportCollect
      <3>2. ASSUME Active(Head(export.todo))
            PROVE  Append(export.list, Plain(id_to_config[Head(export.todo)])) \in Seq(Entries)
        <4>1. id_to_config[Head(export.todo)] \in Entries
          BY <3>1, <3>2 DEF Active, RegistryTypeOK
        <4> QED BY <4>1, <2>e, PlainType, AppendProperties
      <3>3. export' \in Ex
        BY <3>1, <3>2, <2>e, <2>2 DEF ExportCollect
      <3> QED
        BY <3>3, <2>2 DEF ExportCollect, RegistryTypeOK, store, deletion
    <2>3. CASE ExportUpdate
      BY <2>3 DEF ExportUpdate, RegistryTypeOK, store, deletion
    <2>4. CASE ExportWrite
      BY <2>4, EmptySeq DEF ExportWrite, NoExport, RegistryTypeOK, store, deletion
    <2> QED
      BY <1>18, <2>1, <2>2, <2>3, <2>4 DEF ExportStep
  <1>19. CASE UNCHANGED registryVars
    BY <1>19 DEF registryVars, RegistryTypeOK, store, exporting, deletion
  <1> QED
    BY <1>1, <1>2, <1>3, <1>4, <1>5, <1>6, <1>7, <1>8, <1>9, <1>10, <1>11, <1>12, <1>13,
       <1>14, <1>15, <1>16, <1>17, <1>18, <1>19 DEF RegistryNext, CallStep
-----------------------------------------------------------------------------
(* The registry. Most steps neither give a call an id nor touch a row or   *)
(* the map of entries: for them the invariants about ids are unchanged.    *)

IdsKept ==
  /\ UNCHANGED <<configRow, id_to_config, deleting, deleted>>
  /\ \A k \in Calls : call'[k].id = call[k].id
                        /\ (call[k].id # None => call'[k].entry = call[k].entry)

LEMMA IdsFrame ==
  ASSUME RegistryTypeOK, Fresh, Rows, IdMeansEntry, IdsKept
  PROVE  Fresh' /\ Rows' /\ IdMeansEntry'
  <1>1. Fresh'
    BY DEF Fresh, IdsKept
  <1>2. Rows'
    BY DEF Rows, IdsKept
  <1>3. IdMeansEntry'
    <2>0. None \notin Ids
      BY ProxyRegistryAssumption
    <2>1. RowOfCall'
      BY DEF IdMeansEntry, RowOfCall, IdsKept
    <2>2. SameEntry'
      BY DEF IdMeansEntry, SameEntry, IdsKept
    <2>3. MapOfCall'
      BY <2>0 DEF IdMeansEntry, MapOfCall, IdsKept
    <2>4. RowOfMap'
      BY DEF IdMeansEntry, RowOfMap, IdsKept
    <2> QED
      BY <2>1, <2>2, <2>3, <2>4 DEF IdMeansEntry
  <1> QED
    BY <1>1, <1>2, <1>3

\* A step that only moves calls that do not serve, and moves none to a point
\* where it has registered something.
Moves(k) ==
  /\ UNCHANGED <<config_ids, id_to_config, id_to_proxyserver, server>>
  /\ \A j \in Calls \ {k} : call'[j] = call[j]
  /\ call'[k].at \notin {"addConfig", "addServer"}
  /\ call'[k].id = call[k].id \/ server[k] = "none"
  /\ call'[k].entry = call[k].entry \/ server[k] = "none"

LEMMA StoredFrame ==
  ASSUME NEW k \in Calls, Stored, Moves(k)
  PROVE  Stored'
  BY DEF Stored, Moves, Listed, HasProxyServer

\* What Return leaves alone.
LEMMA ReturnKeeps ==
  ASSUME RegistryTypeOK, NEW k \in Calls, NEW r, Return(k, r)
  PROVE  /\ \A j \in Calls \ {k} : call'[j] = call[j]
         /\ call'[k].id = call[k].id /\ call'[k].entry = call[k].entry
         /\ call'[k].at \in {"append", "done"}
  BY ZenonT(30) DEF RegistryTypeOK, Return

\* What becomes of a call that moves, and of one that also gets an id, a
\* result or a copy of the slice.
LEMMA MoveKeeps ==
  ASSUME RegistryTypeOK, NEW k \in Calls, NEW a, call' = [call EXCEPT ![k].at = a]
  PROVE  /\ \A j \in Calls \ {k} : call'[j] = call[j]
         /\ call'[k].id = call[k].id /\ call'[k].entry = call[k].entry
         /\ call'[k].at = a
  <1>1. call[k] \in CallType
    BY DEF RegistryTypeOK, CallType, Kinds, Results
  <1>2. call'[k] = [call[k] EXCEPT !.at = a]
    BY DEF RegistryTypeOK
  <1> QED
    BY <1>1, <1>2 DEF CallType

LEMMA GetIdKeeps ==
  ASSUME RegistryTypeOK, NEW k \in Calls, NEW a, NEW i,
         call' = [call EXCEPT ![k].at = a, ![k].id = i]
  PROVE  /\ \A j \in Calls \ {k} : call'[j] = call[j]
         /\ call'[k].id = i /\ call'[k].entry = call[k].entry
         /\ call'[k].at = a
  <1>1. call[k] \in CallType
    BY DEF RegistryTypeOK, CallType, Kinds, Results
  <1>2. call'[k] = [call[k] EXCEPT !.at = a, !.id = i]
    BY DEF RegistryTypeOK
  <1>3. DOMAIN call[k] = {"kind", "at", "entry", "id", "snapshot", "result"}
    BY <1>1 DEF CallType
  <1>4. call'[k].id = i /\ call'[k].entry = call[k].entry /\ call'[k].at = a
    BY ONLY <1>2, <1>3
  <1>5. \A j \in Calls \ {k} : call'[j] = call[j]
    BY DEF RegistryTypeOK
  <1> QED
    BY <1>4, <1>5

LEMMA AnswerKeeps ==
  ASSUME RegistryTypeOK, NEW k \in Calls, NEW a, NEW r,
         call' = [call EXCEPT ![k].at = a, ![k].result = r]
  PROVE  /\ \A j \in Calls \ {k} : call'[j] = call[j]
         /\ call'[k].id = call[k].id /\ call'[k].entry = call[k].entry
         /\ call'[k].at = a
  <1>1. call[k] \in CallType
    BY DEF RegistryTypeOK, CallType, Kinds, Results
  <1>2. call'[k] = [call[k] EXCEPT !.at = a, !.result = r]
    BY DEF RegistryTypeOK
  <1>3. DOMAIN call[k] = {"kind", "at", "entry", "id", "snapshot", "result"}
    BY <1>1 DEF CallType
  <1>4. call'[k].id = call[k].id /\ call'[k].entry = call[k].entry /\ call'[k].at = a
    BY ONLY <1>2, <1>3
  <1>5. \A j \in Calls \ {k} : call'[j] = call[j]
    BY DEF RegistryTypeOK
  <1> QED
    BY <1>4, <1>5

LEMMA SnapshotKeeps ==
  ASSUME RegistryTypeOK, NEW k \in Calls, NEW a, NEW s,
         call' = [call EXCEPT ![k].at = a, ![k].snapshot = s]
  PROVE  /\ \A j \in Calls \ {k} : call'[j] = call[j]
         /\ call'[k].id = call[k].id /\ call'[k].entry = call[k].entry
         /\ call'[k].at = a
  <1>1. call[k] \in CallType
    BY DEF RegistryTypeOK, CallType, Kinds, Results
  <1>2. call'[k] = [call[k] EXCEPT !.at = a, !.snapshot = s]
    BY DEF RegistryTypeOK
  <1>3. DOMAIN call[k] = {"kind", "at", "entry", "id", "snapshot", "result"}
    BY <1>1 DEF CallType
  <1>4. call'[k].id = call[k].id /\ call'[k].entry = call[k].entry /\ call'[k].at = a
    BY ONLY <1>2, <1>3
  <1>5. \A j \in Calls \ {k} : call'[j] = call[j]
    BY DEF RegistryTypeOK
  <1> QED
    BY <1>4, <1>5

\* A call that starts has the entry it is given and no id.
LEMMA RegistryBegin ==
  ASSUME RegistryTypeOK, RegistryTypeOK', Registry,
         NEW k \in Calls, NEW a \in {"match", "merging", "lookup"},
         NEW q, NEW e \in Entries, call[k].at = "idle",
         call' = [call EXCEPT ![k] = [Idle EXCEPT !.kind = q, !.at = a, !.entry = e]],
         UNCHANGED <<configRow, store, server, deletion>>
  PROVE  Registry'
  <1>1. call[k].id = None /\ server[k] = "none"
    BY DEF Registry, CallShape, Early
  <1>2. /\ call'[k].at = a /\ call'[k].entry = e /\ call'[k].id = None
        /\ \A j \in Calls \ {k} : call'[j] = call[j]
    BY DEF Idle, RegistryTypeOK
  <1>3. IdsKept
    BY <1>1, <1>2 DEF IdsKept, store, deletion
  <1>4. Moves(k)
    BY <1>1, <1>2 DEF Moves, store
  <1>5. CallShape'
    BY <1>1, <1>2 DEF Registry, CallShape, Early, Holding
  <1> QED
    BY <1>3, <1>4, <1>5, IdsFrame, StoredFrame DEF Registry

\* A call that moves on with the id and the entry it has.
LEMMA RegistryMove ==
  ASSUME RegistryTypeOK, RegistryTypeOK', Registry,
         NEW k \in Calls, call[k].at # "idle",
         \A j \in Calls \ {k} : call'[j] = call[j],
         call'[k].id = call[k].id, call'[k].entry = call[k].entry,
         \/ call'[k].at \in {"append", "store", "done"}
         \/ call[k].at \in Early /\ call'[k].at \in Early \ {"idle"},
         UNCHANGED <<configRow, store, server, deletion>>
  PROVE  Registry'
  <1>3. IdsKept
    BY DEF IdsKept, store, deletion
  <1>4. Moves(k)
    BY DEF Moves, store, Early
  <1>5. CallShape'
    BY DEF Registry, CallShape, Early, Holding
  <1> QED
    BY <1>3, <1>4, <1>5, IdsFrame, StoredFrame DEF Registry
LEMMA RegistryFindRow ==
  ASSUME RegistryTypeOK, RegistryTypeOK', Registry,
         NEW k \in Calls, FindRow(k)
  PROVE  Registry'
  <1>1. /\ call[k].id = None /\ server[k] = "none" /\ call[k].entry \in Entries
        /\ call[k].at = "lookup"
    BY DEF FindRow, Registry, CallShape, Early
  <1>2. UNCHANGED <<configRow, store, server, deletion>>
    BY DEF FindRow
  <1>3. CASE /\ \A i \in Ids : configRow[i] # call[k].entry
             /\ call' = [call EXCEPT ![k].at = "insert"]
    <2>1. /\ \A j \in Calls \ {k} : call'[j] = call[j]
          /\ call'[k].id = call[k].id /\ call'[k].entry = call[k].entry
          /\ call'[k].at = "insert"
      BY <1>3, MoveKeeps
    <2> QED
      BY <2>1, <1>1, <1>2, RegistryMove DEF Early
  <1>4. ASSUME NEW i \in Ids, configRow[i] = call[k].entry,
               call' = [call EXCEPT ![k].at = "configAdd", ![k].id = i]
        PROVE  Registry'
    <2>1. /\ \A j \in Calls \ {k} : call'[j] = call[j]
          /\ call'[k].id = i /\ call'[k].entry = call[k].entry
          /\ call'[k].at = "configAdd"
      BY <1>4, GetIdKeeps
    <2>2. configRow[i] # None /\ i # None
      BY <1>1, <1>4, ProxyRegistryAssumption
    <2>3. \A j \in Calls : call[j].id = None => i # j
      BY <2>2 DEF Registry, Fresh
    <2>4. i \notin deleted
      BY <2>2 DEF Registry, Rows
    <2>5. Fresh' /\ Rows'
      BY <1>2, <2>1, <2>2, <2>3 DEF Registry, Fresh, Rows, store, deletion
    <2>6. RowOfCall'
      <3>1. configRow' = configRow /\ deleted' = deleted
        BY <1>2 DEF deletion
      <3>2. RowOfCall
        BY DEF Registry, IdMeansEntry
      <3>3. ASSUME NEW j \in Calls, call'[j].id # None, call'[j].id \notin deleted'
            PROVE  configRow'[call'[j].id] = call'[j].entry
        <4>1. CASE j = k
          BY <4>1, <3>1, <1>4, <2>1
        <4>2. CASE j # k
          BY <4>2, <3>1, <3>2, <3>3, <2>1 DEF RowOfCall
        <4> QED BY <4>1, <4>2
      <3> QED BY <3>3 DEF RowOfCall
    <2>7. \A j \in Calls : call[j].id = i => call[j].entry = call[k].entry
      BY <1>4, <2>2, <2>4 DEF Registry, IdMeansEntry, RowOfCall
    <2>8. SameEntry'
      BY <2>1, <2>2, <2>7 DEF Registry, IdMeansEntry, SameEntry
    <2>9. id_to_config[i] # None => id_to_config[i] = call[k].entry
      BY <1>4, <2>4 DEF Registry, IdMeansEntry, RowOfMap
    <2>10. MapOfCall' /\ RowOfMap'
      BY <1>2, <2>1, <2>9 DEF Registry, IdMeansEntry, MapOfCall, RowOfMap, store, deletion
    <2>11. Moves(k)
      BY <1>1, <1>2, <2>1 DEF Moves, store
    <2>12. CallShape'
      BY <1>1, <1>2, <2>1, <2>2 DEF Registry, CallShape, Early, Holding
    <2> QED
      BY <2>5, <2>6, <2>8, <2>10, <2>11, <2>12, StoredFrame DEF Registry, IdMeansEntry
  <1> QED
    BY <1>3, <1>4 DEF FindRow

LEMMA RegistryCreateRow ==
  ASSUME RegistryTypeOK, RegistryTypeOK', Registry,
         NEW k \in Calls, CreateRow(k)
  PROVE  Registry'
  <1>1. /\ call[k].id = None /\ server[k] = "none" /\ call[k].entry \in Entries
        /\ call[k].at = "insert"
    BY DEF CreateRow, Registry, CallShape, Early
  <1>2. UNCHANGED <<store, server, deletion>>
    BY DEF CreateRow
  <1>3. CASE \E i \in Ids : configRow[i] = call[k].entry
    <2>1. Return(k, "lost race") /\ UNCHANGED configRow
      BY <1>3 DEF CreateRow
    <2> QED
      BY <1>1, <1>2, <2>1, ReturnKeeps, RegistryMove
  <1>4. CASE \A i \in Ids : configRow[i] # call[k].entry
    <2>0. k \in Ids /\ k # None /\ call[k].entry # None
      BY <1>1, ProxyRegistryAssumption DEF Ids
    <2>1. /\ \A j \in Calls \ {k} : call'[j] = call[j]
          /\ call'[k].id = k /\ call'[k].entry = call[k].entry
          /\ call'[k].at = "configAdd"
      BY <1>4, GetIdKeeps, ZenonT(30) DEF CreateRow
    <2>2. configRow'[k] = call[k].entry /\ \A i \in Ids \ {k} : configRow'[i] = configRow[i]
      BY <1>4, <2>0 DEF RegistryTypeOK, CreateRow
    <2>3. /\ configRow[k] = None /\ id_to_config[k] = None /\ k \notin deleted /\ deleting # k
          /\ \A j \in Calls : call[j].id # k
      BY <1>1 DEF Registry, Fresh
    <2>4. \A j \in Calls : call[j].id # None => call[j].id \in Ids \ {k}
      BY <2>3 DEF RegistryTypeOK
    <2>5. Fresh'
      BY <1>2, <2>0, <2>1, <2>2 DEF Registry, Fresh, store, deletion, Ids
    <2>6. Rows'
      BY <1>2, <1>4, <2>2, <2>3 DEF Registry, Rows, deletion
    <2>7. RowOfCall'
      BY <1>2, <2>1, <2>2, <2>4 DEF Registry, IdMeansEntry, RowOfCall, deletion
    <2>8. SameEntry'
      BY <2>1, <2>3 DEF Registry, IdMeansEntry, SameEntry
    <2>9. MapOfCall'
      BY <1>2, <2>1, <2>3 DEF Registry, IdMeansEntry, MapOfCall, store
    <2>10. RowOfMap'
      BY <1>2, <2>2, <2>3 DEF Registry, IdMeansEntry, RowOfMap, store, deletion
    <2>11. Moves(k)
      BY <1>1, <1>2, <2>1 DEF Moves, store
    <2>12. CallShape'
      BY <1>1, <1>2, <2>0, <2>1 DEF Registry, CallShape, Early, Holding
    <2> QED
      BY <2>5, <2>6, <2>7, <2>8, <2>9, <2>10, <2>11, <2>12, StoredFrame
         DEF Registry, IdMeansEntry
  <1> QED
    BY <1>3, <1>4
\* The list of ids grows at its end.
LEMMA ListedStays ==
  ASSUME RegistryTypeOK, NEW k \in Calls, ConfigAdd(k), call[k].id \in Ids
  PROVE  /\ Listed(call[k].id)'
         /\ \A i : Listed(i) => Listed(i)'
  <1>1. config_ids \in Seq(Ids)
    BY DEF RegistryTypeOK
  <1>2. CASE \E n \in DOMAIN config_ids : config_ids[n] = call[k].id
    <2>1. config_ids' = config_ids
      BY <1>2 DEF ConfigAdd
    <2> QED BY <2>1, <1>2, MoveKeeps DEF Listed, ConfigAdd
  <1>3. CASE ~ \E n \in DOMAIN config_ids : config_ids[n] = call[k].id
    <2>1. config_ids' = Append(config_ids, call[k].id)
      BY <1>3 DEF ConfigAdd
    <2>2. /\ Len(config_ids) \in Nat /\ DOMAIN config_ids = 1..Len(config_ids)
          /\ DOMAIN config_ids' = 1..(Len(config_ids) + 1)
          /\ config_ids'[Len(config_ids) + 1] = call[k].id
          /\ \A n \in 1..Len(config_ids) : config_ids'[n] = config_ids[n]
      BY ONLY <2>1, <1>1, call[k].id \in Ids, AppendProperties, LenProperties
    <2>3. call'[k].id = call[k].id
      BY MoveKeeps DEF ConfigAdd
    <2> QED BY <2>2, <2>3 DEF Listed
  <1> QED
    BY <1>2, <1>3

LEMMA RegistryConfigAdd ==
  ASSUME RegistryTypeOK, RegistryTypeOK', Registry,
         NEW k \in Calls, ConfigAdd(k)
  PROVE  Registry'
  <1>1. /\ \A j \in Calls \ {k} : call'[j] = call[j]
        /\ call'[k].id = call[k].id /\ call'[k].entry = call[k].entry
        /\ call[k].at = "configAdd" /\ call'[k].at = "addConfig"
    BY MoveKeeps DEF ConfigAdd
  <1>2. /\ UNCHANGED <<configRow, id_to_config, id_to_proxyserver, server, deletion>>
    BY DEF ConfigAdd
  <1>3. call[k].id \in Ids /\ server[k] = "none"
    BY <1>1 DEF Registry, CallShape, Holding, RegistryTypeOK
  <1>4. IdsKept
    BY <1>1, <1>2 DEF IdsKept, deletion
  <1>5. CallShape'
    BY <1>1, <1>2 DEF Registry, CallShape, Early, Holding
  <1>6. Listed(call[k].id)' /\ \A i : Listed(i) => Listed(i)'
    BY <1>3, ListedStays
  <1>7. Stored'
    <2>1. ASSUME NEW j \in Calls, call'[j].at \in {"addConfig", "addServer"} \/ server'[j] # "none"
          PROVE  Listed(call[j].id)'
      BY <2>1, <1>1, <1>2, <1>6 DEF Registry, Stored
    <2>2. ASSUME NEW j \in Calls, call'[j].at = "addServer" \/ server'[j] # "none"
          PROVE  id_to_config'[call'[j].id] = call'[j].entry
      BY <2>2, <1>1, <1>2, <1>3 DEF Registry, Stored
    <2>3. ASSUME NEW j \in Calls, server'[j] # "none"
          PROVE  HasProxyServer(call[j].id)'
      BY <2>3, <1>1, <1>2, <1>3 DEF Registry, Stored, HasProxyServer
    <2> QED
      BY <2>1, <2>2, <2>3 DEF Stored
  <1> QED
    BY <1>4, <1>5, <1>7, IdsFrame DEF Registry

LEMMA RegistryAddProxyConfig ==
  ASSUME RegistryTypeOK, RegistryTypeOK', Registry,
         NEW k \in Calls, AddProxyConfig(k)
  PROVE  Registry'
  <1>1. /\ \A j \in Calls \ {k} : call'[j] = call[j]
        /\ call'[k].id = call[k].id /\ call'[k].entry = call[k].entry
        /\ call[k].at = "addConfig" /\ call'[k].at = "addServer"
    BY MoveKeeps DEF AddProxyConfig
  <1>2. /\ UNCHANGED <<configRow, config_ids, id_to_proxyserver, server, deletion>>
    BY DEF AddProxyConfig
  <1>3. /\ call[k].id \in Ids /\ call[k].id # None /\ server[k] = "none"
        /\ call[k].entry \in Entries
    BY <1>1 DEF Registry, CallShape, Holding, RegistryTypeOK
  <1>4. /\ id_to_config'[call[k].id] = call[k].entry
        /\ \A i \in Ids \ {call[k].id} : id_to_config'[i] = id_to_config[i]
    BY <1>3 DEF AddProxyConfig, RegistryTypeOK
  <1>5. \A j \in Calls : call[j].id = None => j # call[k].id /\ j \in Ids
    BY DEF Registry, Fresh, Ids
  <1>6. Fresh'
    BY <1>1, <1>2, <1>4, <1>5 DEF Registry, Fresh, deletion
  <1>7. Rows' /\ RowOfCall' /\ SameEntry'
    BY <1>1, <1>2 DEF Registry, Rows, IdMeansEntry, RowOfCall, SameEntry, deletion
  <1>8. MapOfCall'
    <2>1. \A j \in Calls : call[j].id = call[k].id => call[j].entry = call[k].entry
      BY <1>3 DEF Registry, IdMeansEntry, SameEntry
    <2> QED BY <1>1, <1>4, <2>1 DEF Registry, IdMeansEntry, MapOfCall
  <1>9. RowOfMap'
    <2>1. call[k].id \notin deleted => configRow[call[k].id] = call[k].entry
      BY <1>3 DEF Registry, IdMeansEntry, RowOfCall
    <2> QED BY <1>2, <1>4, <2>1 DEF Registry, IdMeansEntry, RowOfMap, deletion
  <1>10. CallShape'
    BY <1>1, <1>2 DEF Registry, CallShape, Early, Holding
  <1>11. Stored'
    <2>1. ASSUME NEW j \in Calls, call'[j].at \in {"addConfig", "addServer"} \/ server'[j] # "none"
          PROVE  Listed(call[j].id)'
      BY <2>1, <1>1, <1>2 DEF Registry, Stored, Listed
    <2>2. ASSUME NEW j \in Calls, call'[j].at = "addServer" \/ server'[j] # "none"
          PROVE  id_to_config'[call'[j].id] = call'[j].entry
      <3>1. CASE j = k
        BY <3>1, <1>1, <1>4
      <3>2. CASE j # k
        <4>1. id_to_config[call[j].id] = call[j].entry /\ call[j].id # None
          BY <3>2, <2>2, <1>1, <1>2 DEF Registry, Stored, CallShape, Holding
        <4>2. call[j].id \in Ids
          BY <4>1 DEF RegistryTypeOK
        <4>3. call[j].id = call[k].id => call[j].entry = call[k].entry
          BY <4>1 DEF Registry, IdMeansEntry, SameEntry
        <4> QED BY <4>1, <4>2, <4>3, <3>2, <1>1, <1>4
      <3> QED BY <3>1, <3>2
    <2>3. ASSUME NEW j \in Calls, server'[j] # "none"
          PROVE  HasProxyServer(call[j].id)'
      BY <2>3, <1>1, <1>2, <1>3 DEF Registry, Stored, HasProxyServer
    <2> QED
      BY <2>1, <2>2, <2>3 DEF Stored
  <1> QED
    BY <1>6, <1>7, <1>8, <1>9, <1>10, <1>11 DEF Registry, IdMeansEntry

LEMMA RegistryAddProxyServer ==
  ASSUME RegistryTypeOK, RegistryTypeOK', Registry,
         NEW k \in Calls, AddProxyServer(k)
  PROVE  Registry'
  <1>1. /\ \A j \in Calls \ {k} : call'[j] = call[j]
        /\ call'[k].id = call[k].id /\ call'[k].entry = call[k].entry
        /\ call[k].at = "addServer" /\ call'[k].at \in {"append", "done"}
    BY ReturnKeeps DEF AddProxyServer
  <1>2. UNCHANGED <<configRow, config_ids, id_to_config, deletion>>
    BY DEF AddProxyServer
  <1>3. call[k].id \in Ids /\ call[k].id # None
    BY <1>1 DEF Registry, CallShape, Holding, RegistryTypeOK
  <1>4. /\ id_to_proxyserver' = [id_to_proxyserver EXCEPT ![call[k].id] = k]
        /\ server' = [server EXCEPT ![k] = "starting"]
    BY DEF AddProxyServer
  <1>5. server'[k] = "starting" /\ \A j \in Calls \ {k} : server'[j] = server[j]
    BY <1>4 DEF RegistryTypeOK
  <1>6. k # None
    BY ProxyRegistryAssumption DEF Ids
  <1>7. \A i \in Ids : HasProxyServer(i) \/ i = call[k].id => HasProxyServer(i)'
    BY <1>3, <1>4, <1>6 DEF HasProxyServer, RegistryTypeOK
  <1>8. IdsKept
    BY <1>1, <1>2 DEF IdsKept, deletion
  <1>9. CallShape'
    BY <1>1, <1>3, <1>5 DEF Registry, CallShape, Early, Holding
  <1>10. Stored'
    <2>1. ASSUME NEW j \in Calls, call'[j].at \in {"addConfig", "addServer"} \/ server'[j] # "none"
          PROVE  Listed(call[j].id)'
      BY <2>1, <1>1, <1>2, <1>5 DEF Registry, Stored, Listed
    <2>2. ASSUME NEW j \in Calls, call'[j].at = "addServer" \/ server'[j] # "none"
          PROVE  id_to_config'[call'[j].id] = call'[j].entry
      BY <2>2, <1>1, <1>2, <1>5 DEF Registry, Stored
    <2>3. ASSUME NEW j \in Calls, server'[j] # "none"
          PROVE  HasProxyServer(call[j].id)'
      <3>1. CASE j = k
        BY <3>1, <1>1, <1>3, <1>7 DEF HasProxyServer
      <3>2. CASE j # k
        <4>0. server[j] # "none"
          BY <3>2, <2>3, <1>5
        <4>1. HasProxyServer(call[j].id) /\ call[j].id # None
          BY <4>0 DEF Registry, Stored, CallShape
        <4>2. call[j].id \in Ids
          BY <4>1 DEF RegistryTypeOK
        <4> QED BY <4>1, <4>2, <3>2, <1>1, <1>7 DEF HasProxyServer
      <3> QED BY <3>1, <3>2
    <2> QED
      BY <2>1, <2>2, <2>3 DEF Stored
  <1> QED
    BY <1>8, <1>9, <1>10, IdsFrame DEF Registry
LEMMA RegistryDelete ==
  ASSUME RegistryTypeOK, RegistryTypeOK', Registry, DeleteConfig \/ \E i \in Ids : DeleteCheck(i)
  PROVE  Registry'
  <1>1. UNCHANGED <<store, call, server>>
    BY DEF DeleteConfig, DeleteCheck
  <1>2. CallShape' /\ Stored'
    BY <1>1 DEF Registry, CallShape, Stored, Listed, HasProxyServer, store
  <1>3. ASSUME NEW i \in Ids, DeleteCheck(i)
        PROVE  Registry'
    <2>1. UNCHANGED <<configRow, id_to_config, call, deleted>>
          /\ deleting' = i /\ configRow[i] # None
      BY <1>3 DEF DeleteCheck, store
    <2>2. Fresh'
      BY <2>1 DEF Registry, Fresh
    <2>3. Rows' /\ IdMeansEntry'
      BY <2>1 DEF Registry, Rows, IdMeansEntry, RowOfCall, SameEntry, MapOfCall, RowOfMap
    <2> QED
      BY <1>2, <2>2, <2>3 DEF Registry
  <1>4. CASE DeleteConfig
    <2>1. /\ deleting \in Ids /\ deleting' = None /\ deleted' = deleted \cup {deleting}
          /\ UNCHANGED <<id_to_config, call>>
      BY <1>4 DEF DeleteConfig, RegistryTypeOK, store
    <2>2. configRow'[deleting] = None /\ \A i \in Ids \ {deleting} : configRow'[i] = configRow[i]
      BY <1>4, <2>1 DEF DeleteConfig, RegistryTypeOK
    <2>3. Fresh'
      <3>1. \A k \in Calls : k \in Ids /\ k # None
        BY ProxyRegistryAssumption DEF Ids
      <3> QED BY <2>1, <2>2, <3>1 DEF Registry, Fresh
    <2>4. Rows'
      BY <2>1, <2>2 DEF Registry, Rows
    <2>5. \A k \in Calls : call[k].id \in Ids \cup {None}
      BY DEF RegistryTypeOK
    <2>6. RowOfCall'
      BY <2>1, <2>2, <2>5 DEF Registry, IdMeansEntry, RowOfCall
    <2>7. SameEntry' /\ MapOfCall'
      BY <2>1 DEF Registry, IdMeansEntry, SameEntry, MapOfCall
    <2>8. RowOfMap'
      BY <2>1, <2>2 DEF Registry, IdMeansEntry, RowOfMap
    <2> QED
      BY <1>2, <2>3, <2>4, <2>6, <2>7, <2>8 DEF Registry, IdMeansEntry
  <1> QED
    BY <1>3, <1>4

LEMMA RegistryStep ==
  ASSUME RegistryTypeOK, RegistryTypeOK', Registry, [RegistryNext]_registryVars
  PROVE  Registry'
  <1> USE ProxyRegistryAssumption
  <1>1. ASSUME NEW k \in Calls, Boot(k)  PROVE Registry'
    <2>1. InitialProxies[booted + 1] \in Entries
      <3>1. Len(InitialProxies) \in Nat /\ booted \in 0..Len(InitialProxies)
        BY LenProperties DEF RegistryTypeOK
      <3>2. booted + 1 \in 1..Len(InitialProxies)
        BY <3>1, <1>1 DEF Boot
      <3> QED BY <3>2, ElementOfSeq
    <2> QED
      BY <2>1, <1>1, RegistryBegin DEF Boot
  <1>2. ASSUME NEW k \in Calls, NEW l \in Listens, NEW t \in Targets,
               HandleCreate(k, l, t) \/ HandleMerge(k, l, t)
        PROVE  Registry'
    <2>1. [listen |-> l, target |-> t, mark |-> "plain"] \in Entries
      BY DEF Entries, Marks
    <2> QED
      BY <2>1, <1>2, RegistryBegin DEF HandleCreate, HandleMerge
  <1>3. ASSUME NEW k \in Calls, NEW i \in Ids, HandleStart(k, i)  PROVE Registry'
    <2>1. id_to_config[i] \in Entries
      BY <1>3 DEF HandleStart, RegistryTypeOK
    <2> QED
      BY <2>1, <1>3, RegistryBegin DEF HandleStart
  <1>4. ASSUME NEW k \in Calls, StartMatch(k)  PROVE Registry'
    <2>1. /\ call[k].at = "match" /\ call[k].id = None /\ server[k] = "none"
          /\ UNCHANGED <<configRow, store, server, deletion>>
      BY <1>4 DEF StartMatch, Registry, CallShape, Early
    <2>2. /\ \A j \in Calls \ {k} : call'[j] = call[j]
          /\ call'[k].id = call[k].id
          /\ \/ call'[k].at = "done" /\ call'[k].entry = call[k].entry
             \/ /\ call'[k].at = "lookup"
                /\ \E n \in DOMAIN sysProxies : call'[k].entry = sysProxies[n]
      <3>1. CASE call' = [call EXCEPT ![k].at = "done", ![k].result = "not found"]
        BY <3>1, AnswerKeeps
      <3>2. ASSUME NEW n \in DOMAIN sysProxies,
                   call' = [call EXCEPT ![k].at = "lookup", ![k].entry = sysProxies[n]]
            PROVE  /\ \A j \in Calls \ {k} : call'[j] = call[j]
                   /\ call'[k].id = call[k].id
                   /\ call'[k].at = "lookup" /\ call'[k].entry = sysProxies[n]
        <4>1. call[k] \in CallType
          BY DEF RegistryTypeOK, CallType, Kinds, Results
        <4>2. call'[k] = [call[k] EXCEPT !.at = "lookup", !.entry = sysProxies[n]]
          BY <3>2 DEF RegistryTypeOK
        <4>3. DOMAIN call[k] = {"kind", "at", "entry", "id", "snapshot", "result"}
          BY <4>1 DEF CallType
        <4>4. /\ call'[k].id = call[k].id /\ call'[k].at = "lookup"
              /\ call'[k].entry = sysProxies[n]
          BY ONLY <4>2, <4>3
        <4>5. \A j \in Calls \ {k} : call'[j] = call[j]
          BY <3>2 DEF RegistryTypeOK
        <4> QED BY <4>4, <4>5
      <3> QED BY <3>1, <3>2, <1>4 DEF StartMatch
    <2>3. call'[k].entry \in Entries
      <3>1. sysProxies \in Seq(Entries)
        BY DEF RegistryTypeOK
      <3>2. \A n \in DOMAIN sysProxies : sysProxies[n] \in Entries
        BY ONLY <3>1, LenProperties, ElementOfSeq
      <3>3. call[k].entry \in Entries
        BY <2>1 DEF Registry, CallShape
      <3> QED BY <2>2, <3>2, <3>3
    <2>4. IdsKept
      BY <2>1, <2>2 DEF IdsKept, store, deletion
    <2>5. Moves(k)
      BY <2>1, <2>2 DEF Moves, store
    <2>6. CallShape'
      BY <2>1, <2>2, <2>3 DEF Registry, CallShape, Early, Holding
    <2> QED
      BY <2>4, <2>5, <2>6, IdsFrame, StoredFrame DEF Registry
  <1>5. ASSUME NEW k \in Calls, MergeCheck(k)  PROVE Registry'
    <2>1. call[k].at = "merging" /\ UNCHANGED <<configRow, store, server, deletion>>
      BY <1>5 DEF MergeCheck
    <2>2. /\ \A j \in Calls \ {k} : call'[j] = call[j]
          /\ call'[k].id = call[k].id /\ call'[k].entry = call[k].entry
          /\ \/ call'[k].at = "done"
             \/ call'[k].at = "lookup"
      <3>1. CASE call' = [call EXCEPT ![k].at = "lookup"]
        BY <3>1, MoveKeeps
      <3>2. ASSUME NEW r, call' = [call EXCEPT ![k].at = "done", ![k].result = r]
            PROVE  /\ \A j \in Calls \ {k} : call'[j] = call[j]
                   /\ call'[k].id = call[k].id /\ call'[k].entry = call[k].entry
                   /\ call'[k].at = "done"
        BY <3>2, AnswerKeeps
      <3> QED BY <3>1, <3>2, <1>5 DEF MergeCheck
    <2> QED
      BY <2>1, <2>2, RegistryMove DEF Early
  <1>6. ASSUME NEW k \in Calls, RejectEntry(k) \/ RegisterFails(k)  PROVE Registry'
    <2>1. call[k].at # "idle" /\ Return(k, "error")
          /\ UNCHANGED <<configRow, store, server, deletion>>
      BY <1>6 DEF RejectEntry, RegisterFails
    <2> QED
      BY <2>1, ReturnKeeps, RegistryMove
  <1>7. ASSUME NEW k \in Calls, AppendRead(k) \/ AppendStore(k)  PROVE Registry'
    <2>1. call[k].at # "idle" /\ UNCHANGED <<configRow, store, server, deletion>>
      BY <1>7 DEF AppendRead, AppendStore
    <2>2. /\ \A j \in Calls \ {k} : call'[j] = call[j]
          /\ call'[k].id = call[k].id /\ call'[k].entry = call[k].entry
          /\ call'[k].at \in {"store", "done"}
      <3>1. ASSUME NEW a \in {"store", "done"}, NEW q,
                   call' = [call EXCEPT ![k].at = a, ![k].snapshot = q]
            PROVE  /\ \A j \in Calls \ {k} : call'[j] = call[j]
                   /\ call'[k].id = call[k].id /\ call'[k].entry = call[k].entry
                   /\ call'[k].at = a
        BY ONLY RegistryTypeOK, k \in Calls, <3>1, SnapshotKeeps
      <3>2. CASE AppendRead(k)
        BY <3>1, <3>2 DEF AppendRead
      <3>3. CASE AppendStore(k)
        BY <3>1, <3>3 DEF AppendStore
      <3> QED BY <3>2, <3>3, <1>7
    <2> QED
      BY <2>1, <2>2, RegistryMove
  <1>8. ASSUME NEW k \in Calls, ListenAndServe(k)  PROVE Registry'
    <2>1. UNCHANGED <<configRow, store, call, deletion>>
      BY <1>8 DEF ListenAndServe
    <2>2. \A j \in Calls : server'[j] = "none" <=> server[j] = "none"
      BY <1>8 DEF ListenAndServe, RegistryTypeOK
    <2>3. IdsKept
      BY <2>1 DEF IdsKept, store, deletion
    <2>4. CallShape' /\ Stored'
      BY <2>1, <2>2 DEF Registry, CallShape, Stored, Listed, HasProxyServer, store
    <2> QED
      BY <2>3, <2>4, IdsFrame DEF Registry
  <1>9. CASE (\E i \in Ids : HandleStop(i)) \/ ExportBegin \/ ExportStep \/ UNCHANGED registryVars
    <2>1. UNCHANGED <<configRow, store, call, server, deletion>>
      BY <1>9 DEF HandleStop, ExportBegin, ExportStep, ExportCollect, ExportUpdate,
                  ExportWrite, registryVars
    <2>2. IdsKept
      BY <2>1 DEF IdsKept, store, deletion
    <2>3. CallShape' /\ Stored'
      BY <2>1 DEF Registry, CallShape, Stored, Listed, HasProxyServer, store
    <2> QED
      BY <2>2, <2>3, IdsFrame DEF Registry
  <1> QED
    BY <1>1, <1>2, <1>3, <1>4, <1>5, <1>6, <1>7, <1>8, <1>9, RegistryFindRow,
       RegistryCreateRow, RegistryConfigAdd, RegistryAddProxyConfig, RegistryAddProxyServer,
       RegistryDelete DEF RegistryNext, CallStep
-----------------------------------------------------------------------------
(* The export.                                                             *)

\* An id that is active stays active with the entry it has.
LEMMA ActiveStays ==
  ASSUME RegistryTypeOK, Registry, [RegistryNext]_registryVars, NEW i \in Ids, Active(i)
  PROVE  Active(i)' /\ id_to_config'[i] = id_to_config[i]
  <1>1. CASE UNCHANGED store
    BY <1>1 DEF Active, HasProxyServer, store
  <1>2. ASSUME NEW k \in Calls, ConfigAdd(k)  PROVE UNCHANGED <<id_to_config, id_to_proxyserver>>
    BY <1>2 DEF ConfigAdd
  <1>3. ASSUME NEW k \in Calls, AddProxyConfig(k)
        PROVE  id_to_proxyserver' = id_to_proxyserver /\ id_to_config'[i] = id_to_config[i]
    <2>1. call[k].id # None
      BY <1>3 DEF AddProxyConfig, Registry, CallShape, Holding
    <2>2. id_to_config[i] # None /\ call[k].id = i => id_to_config[i] = call[k].entry
      BY DEF Registry, IdMeansEntry, MapOfCall
    <2> QED
      BY <2>2, <1>3 DEF AddProxyConfig, Active, RegistryTypeOK
  <1>4. ASSUME NEW k \in Calls, AddProxyServer(k)
        PROVE  id_to_config' = id_to_config /\ id_to_proxyserver'[i] # None
    <2>1. k # None
      BY ProxyRegistryAssumption DEF Ids
    <2> QED
      BY <2>1, <1>4 DEF AddProxyServer, Active, HasProxyServer, RegistryTypeOK
  <1>5. \/ UNCHANGED store
        \/ \E k \in Calls : ConfigAdd(k) \/ AddProxyConfig(k) \/ AddProxyServer(k)
    BY DEF RegistryNext, CallStep, Boot, HandleCreate, HandleStart, HandleMerge, StartMatch,
           MergeCheck, RejectEntry, FindRow, RegisterFails, CreateRow, AppendRead,
           AppendStore, ListenAndServe, HandleStop, DeleteCheck, DeleteConfig,
           ExportBegin, ExportStep, ExportCollect, ExportUpdate, ExportWrite, registryVars
  <1> QED
    BY <1>1, <1>2, <1>3, <1>4, <1>5 DEF Active, HasProxyServer

\* The proxies an export has still to find.
Due(e) == \E n \in DOMAIN export.todo :
            Active(export.todo[n]) /\ Plain(id_to_config[export.todo[n]]) = e
Got(e) == \E n \in DOMAIN export.list : export.list[n] = e

LEMMA CollectingNext ==
  ASSUME RegistryTypeOK, Registry, Collecting, [RegistryNext]_registryVars
  PROVE  Collecting'
  <1>s. export.todo \in Seq(Ids) /\ export.list \in Seq(Entries) /\ config_ids \in Seq(Ids)
    BY DEF RegistryTypeOK
  <1>c. \A e \in export.live : export.at # "idle" => Got(e) \/ (export.at = "collect" /\ Due(e))
    BY DEF Collecting, Got, Due
  <1>1. CASE ExportBegin
    <2>1. /\ export'.at = "collect" /\ export'.todo = config_ids
          /\ export'.live = {Plain(call[k].entry) :
                               k \in {j \in Calls : server[j] = "listening"}}
          /\ UNCHANGED store
      BY <1>1 DEF ExportBegin
    <2>2. ASSUME NEW k \in Calls, server[k] = "listening"
          PROVE  \E n \in DOMAIN config_ids :
                   /\ Active(config_ids[n])
                   /\ Plain(id_to_config[config_ids[n]]) = Plain(call[k].entry)
      <3>1. /\ Listed(call[k].id) /\ id_to_config[call[k].id] = call[k].entry
            /\ HasProxyServer(call[k].id) /\ call[k].entry \in Entries
        BY <2>2 DEF Registry, Stored, CallShape
      <3>2. Active(call[k].id)
        BY <3>1, ProxyRegistryAssumption DEF Active
      <3> QED BY <3>1, <3>2 DEF Listed
    <2> QED
      BY <2>1, <2>2 DEF Collecting, Active, HasProxyServer, store
  <1>2. CASE ExportCollect
    <2> DEFINE i == Head(export.todo)
    <2>1. /\ export.at = "collect" /\ export.todo # <<>> /\ UNCHANGED store
          /\ export'.at = "collect" /\ export'.live = export.live
          /\ export'.todo = Tail(export.todo)
          /\ export'.list = IF Active(i) THEN Append(export.list, Plain(id_to_config[i]))
                                         ELSE export.list
      BY <1>2 DEF ExportCollect, RegistryTypeOK
    <2>2. /\ DOMAIN export.list = 1..Len(export.list) /\ Len(export.list) \in Nat
          /\ DOMAIN export.todo = 1..Len(export.todo) /\ Len(export.todo) \in Nat
          /\ i = export.todo[1] /\ i \in Ids
          /\ DOMAIN Tail(export.todo) = 1..(Len(export.todo) - 1)
          /\ \A n \in 1..(Len(export.todo) - 1) : Tail(export.todo)[n] = export.todo[n + 1]
      BY <1>s, <2>1, HeadTailProperties, LenProperties
    <2>3. ASSUME Active(i)
          PROVE  /\ DOMAIN export'.list = 1..(Len(export.list) + 1)
                 /\ export'.list[Len(export.list) + 1] = Plain(id_to_config[i])
                 /\ \A n \in 1..Len(export.list) : export'.list[n] = export.list[n]
      <3>1. Plain(id_to_config[i]) \in Entries
        BY <2>2, <2>3, PlainType, ZenonT(30) DEF Active, RegistryTypeOK
      <3> QED BY <1>s, <2>1, <2>3, <3>1, AppendProperties, LenProperties
    <2>4. ASSUME NEW e \in export.live, Got(e)  PROVE Got(e)'
      BY <2>1, <2>2, <2>3, <2>4 DEF Got
    <2>5. ASSUME NEW e \in export.live, Due(e)  PROVE Got(e)' \/ Due(e)'
      <3>1. PICK n \in DOMAIN export.todo :
              Active(export.todo[n]) /\ Plain(id_to_config[export.todo[n]]) = e
        BY <2>5 DEF Due
      <3>2. CASE n = 1
        BY <3>1, <3>2, <2>2, <2>3 DEF Got
      <3>3. CASE n # 1
        <4>1. n - 1 \in 1..(Len(export.todo) - 1) /\ Tail(export.todo)[n - 1] = export.todo[n]
          BY <2>2, <3>3
        <4>2. n - 1 \in DOMAIN export'.todo /\ export'.todo[n - 1] = export.todo[n]
          BY <4>1, <2>1, <2>2
        <4>3. /\ id_to_config' = id_to_config /\ id_to_proxyserver' = id_to_proxyserver
          BY <2>1 DEF store
        <4> QED BY <4>2, <4>3, <3>1 DEF Due, Active, HasProxyServer, Plain
      <3> QED BY <3>2, <3>3
    <2>6. \A e \in export'.live : Got(e)' \/ Due(e)'
      BY <1>c, <2>1, <2>4, <2>5
    <2> QED
      BY <2>1, <2>6 DEF Collecting, Got, Due, Active, HasProxyServer, Plain
  <1>3. CASE ExportUpdate
    <2>1. /\ export.at = "collect" /\ export.todo = <<>> /\ export'.at = "write"
          /\ export'.live = export.live /\ export'.list = export.list
      BY <1>3 DEF ExportUpdate, RegistryTypeOK
    <2>2. DOMAIN export.todo = {}
      BY <2>1
    <2> QED
      BY <1>c, <2>1, <2>2 DEF Collecting, Got, Due
  <1>4. CASE ExportWrite
    BY <1>4 DEF ExportWrite, NoExport, Collecting
  <1>5. CASE UNCHANGED export
    <2>1. \A n \in DOMAIN export.todo : export.todo[n] \in Ids
      BY ONLY <1>s, LenProperties, ElementOfSeq
    <2>2. ASSUME NEW e \in export.live, Due(e)  PROVE Due(e)'
      <3>1. PICK n \in DOMAIN export.todo :
              Active(export.todo[n]) /\ Plain(id_to_config[export.todo[n]]) = e
        BY <2>2 DEF Due
      <3>2. /\ Active(export.todo[n])'
            /\ id_to_config'[export.todo[n]] = id_to_config[export.todo[n]]
        BY <2>1, <3>1, <1>5, ActiveStays DEF Active, HasProxyServer
      <3> QED BY <3>1, <3>2, <1>5 DEF Due, Active, HasProxyServer, Plain
    <2> QED
      BY <1>c, <1>5, <2>2 DEF Collecting, Got, Due, Active, HasProxyServer, Plain
  <1>6. UNCHANGED export \/ ExportBegin \/ ExportStep
    BY DEF RegistryNext, CallStep, Boot, HandleCreate, HandleStart, HandleMerge, StartMatch,
           MergeCheck, RejectEntry, FindRow, RegisterFails, CreateRow, ConfigAdd,
           AddProxyConfig, AddProxyServer, AppendRead, AppendStore, ListenAndServe,
           HandleStop, DeleteCheck, DeleteConfig, exporting, registryVars
  <1> QED
    BY <1>1, <1>2, <1>3, <1>4, <1>5, <1>6 DEF ExportStep
-----------------------------------------------------------------------------
(* The theorems.                                                           *)

RegistryIInv == RegistryTypeOK /\ Registry /\ Collecting

LEMMA RegistryInitially ==
  ASSUME RegistryInit
  PROVE  RegistryIInv
  <1> USE ProxyRegistryAssumption
  <1>1. RegistryTypeOK
    <2>1. call \in [Calls -> CallType]
      BY IdleType DEF RegistryInit
    <2>2. /\ <<>> \in Seq(Ids) /\ <<>> \in Seq(Entries)
          /\ Len(InitialProxies) \in Nat
      BY LenProperties
    <2>3. /\ booted \in 0..Len(InitialProxies) /\ exports \in 0..MaxExports
          /\ dbErrors \in 0..MaxDbErrors
      BY <2>2 DEF RegistryInit
    <2>4. export \in [at : {"idle", "collect", "write"}, todo : Seq(Ids),
                      list : Seq(Entries), live : SUBSET Entries]
      BY <2>2 DEF RegistryInit, NoExport
    <2> QED
      BY <2>1, <2>2, <2>3, <2>4 DEF RegistryInit, RegistryTypeOK, CallType, Kinds, Results
  <1>2. \A k \in Calls : call[k].at = "idle" /\ call[k].id = None /\ server[k] = "none"
    BY DEF RegistryInit, Idle
  <1>3. CallShape /\ Stored
    BY <1>2 DEF CallShape, Stored, Early, Holding
  <1>4. Fresh
    BY <1>2 DEF Fresh, RegistryInit, Ids
  <1>5. Rows
    BY DEF Rows, RegistryInit, Ids
  <1>6. IdMeansEntry
    BY <1>2 DEF IdMeansEntry, RowOfCall, SameEntry, MapOfCall, RowOfMap, RegistryInit
  <1>7. Collecting
    BY DEF Collecting, RegistryInit, NoExport
  <1> QED
    BY <1>1, <1>3, <1>4, <1>5, <1>6, <1>7 DEF RegistryIInv, Registry

LEMMA RegistryInductive == RegistrySpec => []RegistryIInv
  <1>1. RegistryIInv /\ [RegistryNext]_registryVars => RegistryIInv'
    BY TypeNext, RegistryStep, CollectingNext DEF RegistryIInv, Registry
  <1> QED
    BY <1>1, RegistryInitially, PTL DEF RegistrySpec

\* The maps of GlobalVarStore, the table, the shared slice and the locals of
\* every call and export keep their types.
THEOREM RegistryTypeCorrect == RegistrySpec => []RegistryTypeOK
  <1>1. RegistryIInv => RegistryTypeOK
    BY DEF RegistryIInv
  <1> QED
    BY <1>1, RegistryInductive, PTL

\* GetOrCreateConfigRow (model_proxy_config.go) never gives two ids to one
\* entry, whatever calls race, unless the row of one was deleted.
THEOREM EntryHasOneId == RegistrySpec => []OneIdPerEntry
  <1>1. RegistryIInv => OneIdPerEntry
    BY DEF RegistryIInv, Registry, IdMeansEntry, RowOfMap, Rows, OneIdPerEntry
  <1> QED
    BY <1>1, RegistryInductive, PTL

\* A server that listens is in the maps and the list of GlobalVarStore under
\* its id, with the address and the target it was started with.
THEOREM ListenersStayListed == RegistrySpec => []ListenersAreListed
  <1>1. RegistryIInv => ListenersAreListed
    <2>1. SUFFICES ASSUME RegistryIInv, NEW k \in Calls, server[k] = "listening"
                   PROVE  /\ Active(call[k].id)
                          /\ id_to_config[call[k].id] = call[k].entry
                          /\ Listed(call[k].id)
      BY DEF ListenersAreListed, Listed
    <2>2. /\ Listed(call[k].id) /\ id_to_config[call[k].id] = call[k].entry
          /\ HasProxyServer(call[k].id) /\ call[k].entry \in Entries
      BY <2>1 DEF RegistryIInv, Registry, Stored, CallShape
    <2> QED
      BY <2>2, ProxyRegistryAssumption DEF Active
  <1> QED
    BY <1>1, RegistryInductive, PTL

\* ExportCurrentProxiesToConfig (proxy_config.go) writes every proxy that was
\* listening when it began, whatever starts, stops and deletions go on.
THEOREM ExportIsComplete == RegistrySpec => ExportKeepsListeners
  <1> DEFINE Step == file' # file => \A e \in export.live : \E n \in DOMAIN file' : file'[n] = e
  <1>1. RegistryIInv /\ [RegistryNext]_registryVars => [Step]_registryVars
    <2> SUFFICES ASSUME RegistryIInv, [RegistryNext]_registryVars, file' # file
                 PROVE  \A e \in export.live : \E n \in DOMAIN file' : file'[n] = e
      OBVIOUS
    <2>1. ExportWrite
      BY DEF RegistryNext, CallStep, Boot, HandleCreate, HandleStart, HandleMerge, StartMatch,
             MergeCheck, RejectEntry, FindRow, RegisterFails, CreateRow, ConfigAdd,
             AddProxyConfig, AddProxyServer, AppendRead, AppendStore, ListenAndServe,
             HandleStop, DeleteCheck, DeleteConfig, ExportBegin, ExportStep, ExportCollect,
             ExportUpdate, exporting, registryVars
    <2>2. export.at = "write" /\ file' = export.list
      BY <2>1 DEF ExportWrite
    <2> QED
      BY <2>2 DEF RegistryIInv, Collecting
  <1> QED
    BY <1>1, RegistryInductive, PTL DEF RegistrySpec, ExportKeepsListeners

-----------------------------------------------------------------------------
(* What is active is served.                                               *)

\* Somebody listens on the address, here or in another application.
IsServed(l) == l \in Taken \/ \E k \in Calls : server[k] = "listening" /\ call[k].entry.listen = l

\* A server in the map is of a call with that id, and a bind that failed left
\* the address to a server that listens.
Serving ==
  /\ \A i \in Ids : HasProxyServer(i) => \E k \in Calls : server[k] # "none" /\ call[k].id = i
  /\ \A k \in Calls : server[k] = "failed" => IsServed(call[k].entry.listen)

\* What is reported as active has an address that is served, or that one of its
\* calls is just about to bind.
ActiveIsServed ==
  \A i \in Ids : Active(i) =>
    LET l == id_to_config[i].listen
    IN  IsServed(l) \/ \E k \in Calls : server[k] = "starting" /\ call[k].entry.listen = l

\* A call that has a server is what it was.
LEMMA ServersKeepEntries ==
  ASSUME RegistryTypeOK, CallShape, [RegistryNext]_registryVars, NEW j \in Calls, server[j] # "none"
  PROVE  call'[j].id = call[j].id /\ call'[j].entry = call[j].entry
<1>0. call[j].at # "idle" /\ call[j].at \notin Early
  BY DEF CallShape
<1>. USE DEF RegistryTypeOK
<1>1. ASSUME NEW k \in Calls, Boot(k) PROVE call'[j] = call[j]
  BY <1>0, <1>1 DEF Boot
<1>2. ASSUME NEW k \in Calls, NEW l \in Listens, NEW t \in Targets,
             HandleCreate(k, l, t) \/ HandleMerge(k, l, t)
      PROVE  call'[j] = call[j]
  BY <1>0, <1>2 DEF HandleCreate, HandleMerge
<1>3. ASSUME NEW k \in Calls, NEW i \in Ids, HandleStart(k, i) PROVE call'[j] = call[j]
  BY <1>0, <1>3 DEF HandleStart
<1>4. ASSUME NEW k \in Calls, StartMatch(k) \/ MergeCheck(k) \/ FindRow(k)
      PROVE  call'[j] = call[j]
  BY <1>0, <1>4 DEF StartMatch, MergeCheck, FindRow, Early
<1>5. ASSUME NEW k \in Calls, RejectEntry(k) \/ RegisterFails(k) \/ CreateRow(k)
      PROVE  call'[j] = call[j]
  BY <1>0, <1>5 DEF RejectEntry, RegisterFails, CreateRow, Return, Early
<1>6. ASSUME NEW k \in Calls, ConfigAdd(k) \/ AddProxyConfig(k) \/ AppendRead(k) \/ AppendStore(k)
      PROVE  call'[j].id = call[j].id /\ call'[j].entry = call[j].entry
  <2>1. CASE ConfigAdd(k)
    BY <2>1 DEF ConfigAdd
  <2>2. CASE AddProxyConfig(k)
    BY <2>2 DEF AddProxyConfig
  <2>3. CASE AppendRead(k)
    BY <2>3, ZenonT(30) DEF AppendRead
  <2>4. CASE AppendStore(k)
    <3>1. call' = [call EXCEPT ![k].at = "done", ![k].snapshot = <<>>]
      BY <2>4 DEF AppendStore
    <3>. QED  BY <3>1, ZenonT(30)
  <2> HIDE DEF RegistryTypeOK
  <2>. QED  BY <1>6, <2>1, <2>2, <2>3, <2>4
<1>7. ASSUME NEW k \in Calls, AddProxyServer(k)
      PROVE  call'[j].id = call[j].id /\ call'[j].entry = call[j].entry
  BY <1>7, ReturnKeeps DEF AddProxyServer
<1>8. CASE UNCHANGED call
  BY <1>8
<1>9. ASSUME \/ \E k \in Calls : ListenAndServe(k)
             \/ \E i \in Ids : HandleStop(i) \/ DeleteCheck(i)
             \/ ExportBegin \/ ExportStep \/ DeleteConfig \/ UNCHANGED registryVars
      PROVE  UNCHANGED call
  BY <1>9 DEF ListenAndServe, HandleStop, DeleteCheck, ExportBegin, ExportStep, ExportCollect,
              ExportUpdate, ExportWrite, DeleteConfig, registryVars
<1>. QED
  BY <1>1, <1>2, <1>3, <1>4, <1>5, <1>6, <1>7, <1>8, <1>9 DEF RegistryNext, CallStep

\* Servers are added to the map in one place and bind their address in one.
LEMMA ServerSteps ==
  ASSUME [RegistryNext]_registryVars
  PROVE  \/ UNCHANGED <<id_to_proxyserver, server>>
         \/ \E k \in Calls : AddProxyServer(k) \/ ListenAndServe(k)
<1>1. ASSUME NEW k \in Calls, Boot(k) PROVE UNCHANGED <<id_to_proxyserver, server>>
  BY <1>1 DEF Boot, store
<1>2. ASSUME NEW k \in Calls, NEW l \in Listens, NEW t \in Targets,
             HandleCreate(k, l, t) \/ HandleMerge(k, l, t)
      PROVE  UNCHANGED <<id_to_proxyserver, server>>
  BY <1>2 DEF HandleCreate, HandleMerge, store
<1>3. ASSUME NEW k \in Calls, NEW i \in Ids, HandleStart(k, i)
      PROVE  UNCHANGED <<id_to_proxyserver, server>>
  BY <1>3 DEF HandleStart, store
<1>4. ASSUME NEW k \in Calls, CallStep(k), ~AddProxyServer(k)
      PROVE  UNCHANGED <<id_to_proxyserver, server>>
  BY <1>4 DEF CallStep, StartMatch, MergeCheck, RejectEntry, FindRow, RegisterFails, CreateRow,
              ConfigAdd, AddProxyConfig, AppendRead, AppendStore, store
<1>5. ASSUME \/ \E i \in Ids : HandleStop(i) \/ DeleteCheck(i)
             \/ ExportBegin \/ ExportStep \/ DeleteConfig \/ UNCHANGED registryVars
      PROVE  UNCHANGED <<id_to_proxyserver, server>>
  BY <1>5 DEF HandleStop, DeleteCheck, ExportBegin, ExportStep, ExportCollect, ExportUpdate,
              ExportWrite, DeleteConfig, store, registryVars
<1>. QED
  BY <1>1, <1>2, <1>3, <1>4, <1>5 DEF RegistryNext

LEMMA ServingStep ==
  ASSUME RegistryTypeOK, Registry, Serving, [RegistryNext]_registryVars
  PROVE  Serving'
<1>1. \A j \in Calls : server[j] # "none" =>
        call'[j].id = call[j].id /\ call'[j].entry = call[j].entry
  BY ServersKeepEntries DEF Registry
<1>2. CASE UNCHANGED <<id_to_proxyserver, server>>
  BY <1>1, <1>2 DEF Serving, HasProxyServer, IsServed
<1>3. ASSUME NEW k \in Calls, AddProxyServer(k) PROVE Serving'
  <2>1. server[k] = "none" /\ call[k].id \in Ids
    BY <1>3 DEF AddProxyServer, Registry, CallShape, Holding, RegistryTypeOK
  <2>2. /\ server'[k] = "starting" /\ \A j \in Calls \ {k} : server'[j] = server[j]
        /\ \A i \in Ids : i # call[k].id => id_to_proxyserver'[i] = id_to_proxyserver[i]
    BY <1>3 DEF AddProxyServer, RegistryTypeOK
  <2>3. call'[k].id = call[k].id
    BY <1>3, ReturnKeeps DEF AddProxyServer
  <2>4. \A i \in Ids : HasProxyServer(i)' => \E j \in Calls : server'[j] # "none" /\ call'[j].id = i
    <3>. SUFFICES ASSUME NEW i \in Ids, i # call[k].id, HasProxyServer(i)'
                  PROVE  \E j \in Calls : server'[j] # "none" /\ call'[j].id = i
      BY <2>2, <2>3
    <3>1. PICK j \in Calls : server[j] # "none" /\ call[j].id = i
      BY <2>2 DEF Serving, HasProxyServer
    <3>. QED  BY <1>1, <2>1, <2>2, <3>1
  <2>5. ASSUME NEW j \in Calls, server'[j] = "failed" PROVE IsServed(call[j].entry.listen)'
    <3>1. server[j] = "failed" /\ call'[j].entry = call[j].entry
      BY <1>1, <2>2, <2>5
    <3>2. call[j].entry.listen \in Taken \/ \E h \in Calls :
            server[h] = "listening" /\ call[h].entry.listen = call[j].entry.listen
      BY <3>1 DEF Serving, IsServed
    <3>3. ASSUME NEW h \in Calls, server[h] = "listening"
          PROVE  server'[h] = "listening" /\ call'[h].entry = call[h].entry
      BY <1>1, <2>1, <2>2, <3>3
    <3>. QED  BY <3>1, <3>2, <3>3 DEF IsServed
  <2>. QED  BY <2>4, <2>5 DEF Serving
<1>4. ASSUME NEW k \in Calls, ListenAndServe(k) PROVE Serving'
  <2>1. /\ server[k] = "starting" /\ UNCHANGED <<call, id_to_proxyserver>>
        /\ \A j \in Calls \ {k} : server'[j] = server[j]
        /\ server'[k] = IF Free(call[k].entry.listen) THEN "listening" ELSE "failed"
    BY <1>4 DEF ListenAndServe, RegistryTypeOK, store
  <2>2. \A j \in Calls : server'[j] = "none" <=> server[j] = "none"
    BY <2>1
  <2>3. \A j \in Calls : server[j] = "listening" => server'[j] = "listening"
    BY <2>1
  <2>4. server'[k] = "failed" => IsServed(call[k].entry.listen)'
    BY <2>1, <2>3 DEF Free, IsServed
  <2>. QED  BY <2>1, <2>2, <2>3, <2>4 DEF Serving, IsServed, HasProxyServer
<1>. QED
  BY <1>2, <1>3, <1>4, ServerSteps

\* A proxy the program reports as active has its address served, by itself, by
\* another start of that address or by another application, unless the goroutine
\* that binds it has yet to run: the safety part of ActiveGetsServed.
THEOREM NothingActiveIsDead == RegistrySpec => []ActiveIsServed
<1>1. RegistryInit => Serving
  BY ProxyRegistryAssumption DEF RegistryInit, Serving, HasProxyServer
<1>2. RegistryIInv /\ Serving => ActiveIsServed
  <2>. SUFFICES ASSUME RegistryIInv, Serving, NEW i \in Ids, Active(i)
                PROVE  \/ IsServed(id_to_config[i].listen)
                       \/ \E k \in Calls : /\ server[k] = "starting"
                                           /\ call[k].entry.listen = id_to_config[i].listen
    BY DEF ActiveIsServed
  <2>1. PICK k \in Calls : server[k] # "none" /\ call[k].id = i
    BY DEF Active, Serving
  <2>2. call[k].entry = id_to_config[i]
    BY <2>1 DEF RegistryIInv, Registry, Stored
  <2>3. server[k] \in {"starting", "listening", "failed"}
    BY <2>1 DEF RegistryIInv, RegistryTypeOK
  <2>. QED  BY <2>2, <2>3 DEF Serving, IsServed
<1>3. RegistryIInv /\ Serving /\ [RegistryNext]_registryVars => Serving'
  BY ServingStep DEF RegistryIInv
<1>. QED
  BY <1>1, <1>2, <1>3, RegistryInductive, PTL DEF RegistrySpec

-----------------------------------------------------------------------------
(* The session log.                                                        *)

\* What row and view are at each point of a handler, as long as the reaper has
\* not deleted the session under it.
RowAndView(r) ==
  /\ pc[r] \in {"idle", "reading"} => row[r] = "absent" /\ view[r] = "absent"
  /\ pc[r] = "inserted" => row[r] = "pending" /\ view[r] = "absent"
  /\ pc[r] \in {"forwarding", "answered"} => row[r] = "pending" /\ view[r] = "pending"
  /\ pc[r] = "saved" => row[r] = "finished" /\ view[r] = "pending"
  /\ pc[r] = "over" => \/ view[r] = row[r]
                       \/ reaper.at = "deleted" /\ r \in reaper.ids

Settled ==
  /\ \A r \in Requests \ touched : RowAndView(r)
  /\ \A r \in Requests : view[r] = "finished" => pc[r] = "over"
  /\ \A r \in Requests : pc[r] \in {"idle", "reading"} => r \notin touched /\ r \notin reaper.ids
  /\ reaper.at = "deleted" => \A r \in reaper.ids \cap (Requests \ touched) :
                                pc[r] = "over" /\ row[r] = "absent"

\* The rows the reaper is going to delete are in excess of the limit.
Counted ==
  /\ reaper.at \in {"counted", "selected"} =>
       Cardinality(Present \cup lost) >= reaper.over + MaxRetain
  /\ reaper.at = "selected" => Cardinality(reaper.ids) <= reaper.over

LEMMA InitType == LogInit => LogTypeOK /\ Settled
  BY SessionLogAssumption, SMT
     DEF LogInit, LogTypeOK, Settled, RowAndView, Sessions, RowStates

USE DEF Sessions, RowStates

LEMMA LogTypeStep == LogTypeOK /\ [LogNext]_logVars => LogTypeOK'
<1> SUFFICES ASSUME LogTypeOK, [LogNext]_logVars PROVE LogTypeOK'
    OBVIOUS
<1> USE SessionLogAssumption DEF LogTypeOK
<1>1. ASSUME NEW r \in Requests, ReceiveRequest(r) PROVE LogTypeOK'
  BY <1>1 DEF ReceiveRequest
<1>2. ASSUME NEW r \in Requests, HandlerStep(r) \/ TargetStep(r) PROVE LogTypeOK'
  BY <1>2 DEF HandlerStep, TargetStep, StartProxySession, StartFails, RejectBody, PublishStart,
     FinishProxySession, FinishFails, PublishFinish, TargetFails, TargetAnswers, DbError,
     MergeSession
<1>3. ASSUME ReapCount PROVE LogTypeOK'
  <2>1. IsFiniteSet(Sessions) /\ Present \subseteq Sessions
    BY FS_Union DEF Present
  <2>2. Cardinality(Present) \in Nat
    BY <2>1, FS_Subset, FS_CardinalityType
  <2>3. Cardinality(Present) - MaxRetain \in Nat
    BY <1>3, <2>2 DEF ReapCount
  <2>. QED
    BY <1>3, <2>3 DEF ReapCount
<1>4. ASSUME ReapSelect PROVE LogTypeOK'
  <2>1. PICK ids \in SUBSET Sessions :
          reaper' = IF ids = {} THEN [at |-> "ticker", over |-> 0, ids |-> {}]
                                ELSE [reaper EXCEPT !.at = "selected", !.ids = ids]
    BY <1>4 DEF ReapSelect
  <2>2. reaper' \in [at : {"ticker", "counted", "selected", "deleted"}, over : Nat,
                     ids : SUBSET Sessions]
    BY <2>1
  <2>. QED
    BY <1>4, <2>2 DEF ReapSelect
<1>5. ASSUME ReapDelete PROVE LogTypeOK'
  BY <1>5 DEF ReapDelete, InFlight
<1>6. ASSUME ReapPublish \/ ReapFails PROVE LogTypeOK'
  BY <1>6 DEF ReapPublish, ReapFails, DbError
<1>7. ASSUME DeleteOldConfig PROVE LogTypeOK'
  BY <1>7 DEF DeleteOldConfig
<1>8. ASSUME UNCHANGED logVars PROVE LogTypeOK'
  BY <1>8 DEF logVars
<1>. QED
  BY <1>1, <1>2, <1>3, <1>4, <1>5, <1>6, <1>7, <1>8 DEF LogNext, ReapStep

LEMMA SettledStep == LogTypeOK /\ Settled /\ [LogNext]_logVars => Settled'
<1> SUFFICES ASSUME LogTypeOK, Settled, [LogNext]_logVars PROVE Settled'
    OBVIOUS
<1> USE SessionLogAssumption DEF LogTypeOK, Settled, RowAndView
<1>1. ASSUME NEW r \in Requests, ReceiveRequest(r) PROVE Settled'
  BY <1>1 DEF ReceiveRequest
<1>2. ASSUME NEW r \in Requests, StartProxySession(r) PROVE Settled'
  BY <1>2 DEF StartProxySession
<1>3. ASSUME NEW r \in Requests, StartFails(r) \/ RejectBody(r) PROVE Settled'
  BY <1>3 DEF StartFails, RejectBody
<1>4. ASSUME NEW r \in Requests, PublishStart(r) PROVE Settled'
  BY <1>4 DEF PublishStart, MergeSession
<1>5. ASSUME NEW r \in Requests, TargetStep(r) PROVE Settled'
  BY <1>5 DEF TargetStep, TargetFails, TargetAnswers
<1>6. ASSUME NEW r \in Requests, FinishProxySession(r) PROVE Settled'
  BY <1>6 DEF FinishProxySession
<1>7. ASSUME NEW r \in Requests, FinishFails(r) PROVE Settled'
  BY <1>7 DEF FinishFails
<1>8. ASSUME NEW r \in Requests, PublishFinish(r) PROVE Settled'
  BY <1>8 DEF PublishFinish, MergeSession
<1>9. ASSUME ReapCount PROVE Settled'
  BY <1>9 DEF ReapCount
<1>10. ASSUME ReapSelect PROVE Settled'
  BY <1>10 DEF ReapSelect, Oldest, Present
<1>11. ASSUME ReapDelete PROVE Settled'
  BY <1>11 DEF ReapDelete, InFlight
<1>12. ASSUME ReapPublish PROVE Settled'
  BY <1>12 DEF ReapPublish
<1>13. ASSUME ReapFails PROVE Settled'
  BY <1>13 DEF ReapFails
<1>14. ASSUME DeleteOldConfig PROVE Settled'
  BY <1>14 DEF DeleteOldConfig
<1>15. ASSUME UNCHANGED logVars PROVE Settled'
  BY <1>15 DEF logVars
<1>. QED
  BY <1>1, <1>2, <1>3, <1>4, <1>5, <1>6, <1>7, <1>8, <1>9, <1>10, <1>11, <1>12, <1>13,
     <1>14, <1>15 DEF LogNext, HandlerStep, ReapStep

-----------------------------------------------------------------------------
(* Sizes.                                                                  *)

LEMMA FiniteTable ==
  ASSUME LogTypeOK, NEW S \in SUBSET Sessions
  PROVE  IsFiniteSet(S) /\ Cardinality(S) \in Nat
<1>1. IsFiniteSet(Sessions)
  BY SessionLogAssumption, FS_Union
<1>. QED
  BY <1>1, FS_Subset, FS_CardinalityType

\* The rows as if no configuration had been deleted since the reaper counted.
Kept == Present \cup lost

\* Only the reaper takes rows of this run away.
LEMMA KeptGrows ==
  LogTypeOK /\ [LogNext]_logVars /\ ~ReapDelete /\ ~ReapCount => Kept \subseteq Kept'
<1> SUFFICES ASSUME LogTypeOK, [LogNext]_logVars, ~ReapDelete, ~ReapCount PROVE Kept \subseteq Kept'
    OBVIOUS
<1> USE DEF Kept, Present, LogTypeOK
<1>1. ASSUME UNCHANGED <<row, lost>> PROVE Kept \subseteq Kept'
  BY <1>1
<1>2. ASSUME NEW r \in Requests, StartProxySession(r) PROVE Kept \subseteq Kept'
  BY <1>2 DEF StartProxySession
<1>3. ASSUME NEW r \in Requests, FinishProxySession(r) PROVE Kept \subseteq Kept'
  BY <1>3 DEF FinishProxySession
<1>4. ASSUME DeleteOldConfig PROVE Kept \subseteq Kept'
  BY <1>4 DEF DeleteOldConfig
<1>. QED
  BY <1>1, <1>2, <1>3, <1>4 DEF LogNext, HandlerStep, TargetStep, ReapStep, ReceiveRequest,
     RejectBody, StartFails, PublishStart, TargetFails, TargetAnswers, FinishFails, PublishFinish,
     ReapSelect, ReapPublish, ReapFails, logVars

LEMMA KeptCardinality ==
  ASSUME LogTypeOK, LogTypeOK', [LogNext]_logVars, ~ReapDelete, ~ReapCount
  PROVE  /\ Cardinality(Kept) \in Nat /\ Cardinality(Kept') \in Nat
         /\ Cardinality(Kept) <= Cardinality(Kept')
<1>1. Kept \subseteq Sessions /\ Kept' \subseteq Sessions
  BY DEF Kept, Present, LogTypeOK
<1>2. IsFiniteSet(Kept') /\ Cardinality(Kept) \in Nat /\ Cardinality(Kept') \in Nat
  BY <1>1, FiniteTable
<1>. QED
  BY <1>2, KeptGrows, FS_Subset

LEMMA CountedStep == LogTypeOK /\ LogTypeOK' /\ Counted /\ [LogNext]_logVars => Counted'
<1> SUFFICES ASSUME LogTypeOK, LogTypeOK', Counted, [LogNext]_logVars PROVE Counted'
    OBVIOUS
<1>0. MaxRetain \in Nat /\ reaper.over \in Nat
  BY SessionLogAssumption DEF LogTypeOK
<1>1. ASSUME UNCHANGED reaper, ~ReapDelete, ~ReapCount PROVE Counted'
  BY <1>0, <1>1, KeptCardinality DEF Counted, Kept
<1>2. ASSUME ReapCount PROVE Counted'
  <2>1. Kept' = Present /\ Present \subseteq Sessions
    BY <1>2 DEF Kept, Present, ReapCount
  <2>2. Cardinality(Present) \in Nat
    BY <2>1, FiniteTable
  <2>3. reaper'.at = "counted" /\ reaper'.over = Cardinality(Present) - MaxRetain
    BY <1>2 DEF ReapCount
  <2>4. Cardinality(Kept') >= reaper'.over + MaxRetain
    BY ONLY <1>0, <2>1, <2>2, <2>3
  <2>. QED
    BY <2>3, <2>4 DEF Counted, Kept
<1>3. ASSUME ReapSelect PROVE Counted'
  <2>1. PICK ids \in SUBSET Sessions :
          /\ Oldest(ids, reaper.over)
          /\ reaper' = IF ids = {} THEN [at |-> "ticker", over |-> 0, ids |-> {}]
                                   ELSE [reaper EXCEPT !.at = "selected", !.ids = ids]
    BY <1>3 DEF ReapSelect
  <2>2. Cardinality(Present) \in Nat
    BY FiniteTable DEF Present
  <2>3. Cardinality(ids) <= reaper.over
    BY <1>0, <2>1, <2>2 DEF Oldest
  <2>4. reaper.at = "counted" /\ Kept' = Kept
    BY <1>3 DEF ReapSelect, Kept, Present
  <2>5. CASE ids = {}
    <3>1. reaper'.at = "ticker"
      BY <2>1, <2>5
    <3>. QED
      BY <3>1 DEF Counted
  <2>6. CASE ids # {}
    <3>1. reaper'.at = "selected" /\ reaper'.ids = ids /\ reaper'.over = reaper.over
      BY <2>1, <2>6 DEF LogTypeOK
    <3>. QED
      BY <2>3, <2>4, <3>1 DEF Counted, Kept
  <2>. QED
    BY <2>5, <2>6
<1>4. ASSUME ReapDelete \/ ReapPublish \/ ReapFails PROVE Counted'
  <2>1. reaper'.at \notin {"counted", "selected"}
    BY <1>4 DEF ReapDelete, ReapPublish, ReapFails, LogTypeOK
  <2>. QED
    BY <2>1 DEF Counted
<1>. QED
  BY <1>1, <1>2, <1>3, <1>4 DEF LogNext, HandlerStep, TargetStep, ReapStep, ReceiveRequest,
     StartProxySession, RejectBody, StartFails, PublishStart, TargetFails, TargetAnswers,
     FinishProxySession, FinishFails, PublishFinish, DeleteOldConfig, logVars

-----------------------------------------------------------------------------
(* The theorems.                                                           *)

LogIInv == LogTypeOK /\ Settled /\ Counted

LEMMA LogSpecIInv == LogSpec => []LogIInv
<1>1. LogInit => LogIInv
  <2>1. LogInit => Counted
    BY DEF LogInit, Counted
  <2>. QED
    BY <2>1, InitType DEF LogIInv
<1>2. LogIInv /\ [LogNext]_logVars => LogIInv'
  BY LogTypeStep, SettledStep, CountedStep DEF LogIInv
<1>. QED
  BY <1>1, <1>2, PTL DEF LogSpec

\* Type correctness.
THEOREM LogTypeCorrect == LogSpec => []LogTypeOK
<1>1. LogIInv => LogTypeOK
  BY DEF LogIInv
<1>. QED
  BY <1>1, LogSpecIInv, PTL

\* The page and the table agree on every session that is over, unless the
\* reaper deleted it while it was in progress.
THEOREM PageFollowsTable == LogSpec => []ViewFollowsRow
<1>1. LogIInv => ViewFollowsRow
  BY DEF LogIInv, LogTypeOK, Settled, RowAndView, ViewFollowsRow, InFlight
<1>. QED
  BY <1>1, LogSpecIInv, PTL

\* No order of publications turns a finished session into a pending one.
THEOREM FinishedStaysFinished == LogSpec => NoRegress
<1>1. LogIInv /\ [LogNext]_logVars
        => [\A r \in Requests : view[r] = "finished" => view'[r] # "pending"]_logVars
  <2> SUFFICES ASSUME LogIInv, [LogNext]_logVars, NEW r \in Requests, view[r] = "finished"
               PROVE  view'[r] # "pending"
      OBVIOUS
  <2>1. pc[r] = "over" /\ view \in [Requests -> RowStates]
    BY DEF LogIInv, Settled, LogTypeOK
  <2>. QED
    BY <2>1 DEF LogNext, HandlerStep, TargetStep, ReapStep, ReceiveRequest,
       StartProxySession, RejectBody, StartFails, PublishStart, TargetFails, TargetAnswers,
       FinishProxySession, FinishFails, PublishFinish, MergeSession, DeleteOldConfig, ReapCount,
       ReapSelect, ReapDelete, ReapPublish, ReapFails, logVars
<1>. QED
  BY <1>1, LogSpecIInv, PTL DEF LogSpec, NoRegress

\* A reap that has counted keeps at least max_sessions_retain rows, whatever
\* is inserted between its statements.
THEOREM ReaperKeepsTheLimit == LogSpec => ReaperLeavesEnough
<1>1. LogIInv /\ LogIInv' /\ [LogNext]_logVars
        => [reaper.at = "selected" /\ reaper'.at = "deleted"
              => Cardinality(Present' \cup lost) >= MaxRetain]_logVars
  <2> SUFFICES ASSUME LogIInv, LogIInv', [LogNext]_logVars,
                      reaper.at = "selected", reaper'.at = "deleted"
               PROVE  Cardinality(Present' \cup lost) >= MaxRetain
      OBVIOUS
  <2>1. ReapDelete
    BY DEF LogIInv, LogTypeOK, LogNext, HandlerStep, TargetStep, ReapStep, ReceiveRequest,
       StartProxySession, RejectBody, StartFails, PublishStart, TargetFails, TargetAnswers,
       FinishProxySession, FinishFails, PublishFinish, DeleteOldConfig, ReapCount, ReapSelect,
       ReapPublish, ReapFails, logVars
  <2>2. Kept \subseteq Kept' \cup reaper.ids /\ Kept \subseteq Sessions
        /\ Kept' \subseteq Sessions /\ reaper.ids \subseteq Sessions
    BY <2>1 DEF Kept, Present, ReapDelete, LogIInv, LogTypeOK
  <2>3. /\ IsFiniteSet(Kept') /\ IsFiniteSet(reaper.ids) /\ Cardinality(Kept) \in Nat
        /\ Cardinality(Kept') \in Nat /\ Cardinality(reaper.ids) \in Nat
        /\ Cardinality(Kept' \cap reaper.ids) \in Nat
    BY <2>2, FiniteTable DEF LogIInv
  <2>4. /\ IsFiniteSet(Kept' \cup reaper.ids)
        /\ Cardinality(Kept' \cup reaper.ids) <= Cardinality(Kept') + Cardinality(reaper.ids)
    BY <2>3, FS_Union, SMTT(30)
  <2>5. Cardinality(Kept) <= Cardinality(Kept' \cup reaper.ids)
    BY <2>2, <2>4, FS_Subset
  <2>6. Cardinality(Kept' \cup reaper.ids) \in Nat
    BY <2>4, FS_CardinalityType
  <2>7. /\ Cardinality(Kept) >= reaper.over + MaxRetain /\ Cardinality(reaper.ids) <= reaper.over
        /\ reaper.over \in Nat /\ MaxRetain \in Nat
    BY SessionLogAssumption DEF LogIInv, Counted, Kept, LogTypeOK
  <2>8. Cardinality(Kept') >= MaxRetain
    BY <2>3, <2>4, <2>5, <2>6, <2>7
  <2>. QED
    BY <2>1, <2>8 DEF Kept, ReapDelete
<1>. QED
  BY <1>1, LogSpecIInv, PTL DEF LogSpec, ReaperLeavesEnough

HIDE DEF Sessions, RowStates

-----------------------------------------------------------------------------
(* The processes.                                                          *)

\* Past the search for a daemon: the process will remove and replace the files.
Replacing == Starting \ {"check"}

\* Two processes that are starting at the same time are known to overlap.
StartsOverlap ==
  \A p, q \in Procs : mainAt[p] \in Starting /\ mainAt[q] \in Starting /\ p # q
    => p \in overlapped /\ q \in overlapped

\* While an undisturbed daemon is up its socket is in place and nobody is about
\* to replace it: whoever starts finds it and exits.
SocketIsSafe ==
  \A p \in Procs : mainAt[p] \in Up /\ p \notin overlapped \cup noSocket
    => socket = p /\ \A q \in Procs : mainAt[q] \notin Replacing

\* As long as nothing is disturbed the pid file is the one of the process that
\* has written it last, from the moment it does until it begins to leave.
PidIsSafe ==
  overlapped \cup noSocket \cup noPid = {} =>
    \A p \in Procs : mainAt[p] \in {"initDb", "removeOld", "listen", "serving"} => pidfile = p

DaemonIInv == DaemonTypeOK /\ StartsOverlap /\ SocketIsSafe /\ PidIsSafe

USE DaemonAssumption DEF Starting, Up, Ended

LEMMA DaemonInitIInv == DaemonInit => DaemonIInv
  BY DEF DaemonInit, DaemonIInv, DaemonTypeOK, StartsOverlap, SocketIsSafe, PidIsSafe

LEMMA DaemonTypeStep == DaemonTypeOK /\ [DaemonNext]_daemonVars => DaemonTypeOK'
<1> SUFFICES ASSUME DaemonTypeOK, [DaemonNext]_daemonVars PROVE DaemonTypeOK'
    OBVIOUS
<1> USE DEF DaemonTypeOK
<1>1. ASSUME NEW p \in Procs, Start(p) PROVE DaemonTypeOK'
  BY <1>1 DEF Start, Overlap
<1>2. ASSUME NEW p \in Procs, NEW c \in Procs, Daemonize(p, c) PROVE DaemonTypeOK'
  BY <1>2 DEF Daemonize, Overlap
<1>3. ASSUME NEW p \in Procs,
             CheckDaemon(p) \/ CleanupSocket(p) \/ CleanupPid(p) \/ WritePIDFile(p)
      PROVE  DaemonTypeOK'
  BY <1>3 DEF CheckDaemon, CleanupSocket, CleanupPid, WritePIDFile
<1>4. ASSUME NEW p \in Procs,
             InitDatabase(p) \/ RemoveSocket(p) \/ Listen(p) \/ RemovePIDFile(p) \/ Exit(p)
      PROVE  DaemonTypeOK'
  BY <1>4 DEF InitDatabase, RemoveSocket, Listen, RemovePIDFile, Exit
<1>5. ASSUME NEW p \in Procs,
             StopCommand(p) \/ Signal(p) \/ Kill(p) \/ DaemonizeFails(p)
      PROVE  DaemonTypeOK'
  BY <1>5 DEF StopCommand, Signal, Kill, DaemonizeFails
<1>6. ASSUME UNCHANGED daemonVars PROVE DaemonTypeOK'
  BY <1>6 DEF daemonVars
<1>. QED
  BY <1>1, <1>2, <1>3, <1>4, <1>5, <1>6 DEF DaemonNext, MainStep

\* Every step but a start and a fork leaves overlapped alone and moves one
\* process on; no other step makes a process enter Starting.
LEMMA OverlapStep == DaemonTypeOK /\ StartsOverlap /\ [DaemonNext]_daemonVars => StartsOverlap'
<1> SUFFICES ASSUME DaemonTypeOK, StartsOverlap, [DaemonNext]_daemonVars PROVE StartsOverlap'
    OBVIOUS
<1> USE DEF DaemonTypeOK, StartsOverlap
<1>1. ASSUME NEW p \in Procs, Start(p) PROVE StartsOverlap'
  BY <1>1 DEF Start, Overlap
<1>2. ASSUME NEW p \in Procs, NEW c \in Procs, Daemonize(p, c) PROVE StartsOverlap'
  BY <1>2 DEF Daemonize, Overlap
<1>3. ASSUME NEW p \in Procs,
             CheckDaemon(p) \/ CleanupSocket(p) \/ CleanupPid(p) \/ WritePIDFile(p)
      PROVE  StartsOverlap'
  BY <1>3 DEF CheckDaemon, CleanupSocket, CleanupPid, WritePIDFile
<1>4. ASSUME NEW p \in Procs,
             InitDatabase(p) \/ RemoveSocket(p) \/ Listen(p) \/ RemovePIDFile(p) \/ Exit(p)
      PROVE  StartsOverlap'
  BY <1>4 DEF InitDatabase, RemoveSocket, Listen, RemovePIDFile, Exit
<1>5. ASSUME NEW p \in Procs,
             StopCommand(p) \/ Signal(p) \/ Kill(p) \/ DaemonizeFails(p)
      PROVE  StartsOverlap'
  BY <1>5 DEF StopCommand, Signal, Kill, DaemonizeFails
<1>6. ASSUME UNCHANGED daemonVars PROVE StartsOverlap'
  BY <1>6 DEF daemonVars
<1>. QED
  BY <1>1, <1>2, <1>3, <1>4, <1>5, <1>6 DEF DaemonNext, MainStep

\* The steps that remove the socket are taken by a process in Replacing, which
\* excludes an undisturbed daemon; a check that succeeds in entering Replacing
\* has found no daemon that answers; and one that listens was alone.
LEMMA SocketStep ==
  DaemonTypeOK /\ StartsOverlap /\ SocketIsSafe /\ [DaemonNext]_daemonVars => SocketIsSafe'
<1> SUFFICES ASSUME DaemonTypeOK, StartsOverlap, SocketIsSafe, [DaemonNext]_daemonVars
             PROVE  SocketIsSafe'
    OBVIOUS
<1> USE DEF DaemonTypeOK, SocketIsSafe, Replacing
<1>1. ASSUME NEW p \in Procs, Start(p) PROVE SocketIsSafe'
  BY <1>1 DEF Start, Overlap
<1>2. ASSUME NEW p \in Procs, NEW c \in Procs, Daemonize(p, c) PROVE SocketIsSafe'
  BY <1>2 DEF Daemonize, Overlap
<1>3. ASSUME NEW p \in Procs, CheckDaemon(p) PROVE SocketIsSafe'
  BY <1>3 DEF CheckDaemon, Answers
<1>4. ASSUME NEW p \in Procs,
             CleanupSocket(p) \/ CleanupPid(p) \/ WritePIDFile(p) \/ InitDatabase(p)
               \/ RemoveSocket(p)
      PROVE  SocketIsSafe'
  BY <1>4 DEF CleanupSocket, CleanupPid, WritePIDFile, InitDatabase, RemoveSocket
<1>5. ASSUME NEW p \in Procs, Listen(p) PROVE SocketIsSafe'
  BY <1>5 DEF Listen, StartsOverlap
<1>6. ASSUME NEW p \in Procs, RemovePIDFile(p) \/ Exit(p) PROVE SocketIsSafe'
  BY <1>6 DEF RemovePIDFile, Exit
<1>7. ASSUME NEW p \in Procs,
             StopCommand(p) \/ Signal(p) \/ Kill(p) \/ DaemonizeFails(p)
      PROVE  SocketIsSafe'
  BY <1>7 DEF StopCommand, Signal, Kill, DaemonizeFails
<1>8. ASSUME UNCHANGED daemonVars PROVE SocketIsSafe'
  BY <1>8 DEF daemonVars
<1>. QED
  BY <1>1, <1>2, <1>3, <1>4, <1>5, <1>6, <1>7, <1>8 DEF DaemonNext, MainStep

\* The pid file is removed or written by a process that replaces the files, or
\* by a daemon that leaves; undisturbed, neither can run beside its owner.
LEMMA PidStep == DaemonIInv /\ [DaemonNext]_daemonVars => PidIsSafe'
<1> SUFFICES ASSUME DaemonIInv, [DaemonNext]_daemonVars PROVE PidIsSafe'
    OBVIOUS
<1> USE DEF DaemonIInv, DaemonTypeOK, PidIsSafe
<1>1. ASSUME NEW p \in Procs, Start(p) PROVE PidIsSafe'
  BY <1>1 DEF Start, Overlap
<1>2. ASSUME NEW p \in Procs, NEW c \in Procs, Daemonize(p, c) PROVE PidIsSafe'
  BY <1>2 DEF Daemonize, Overlap
<1>3. ASSUME NEW p \in Procs, CleanupPid(p) \/ WritePIDFile(p) PROVE PidIsSafe'
  BY <1>3 DEF CleanupPid, WritePIDFile, StartsOverlap, SocketIsSafe, Replacing
<1>4. ASSUME NEW p \in Procs, RemovePIDFile(p) PROVE PidIsSafe'
  BY <1>4 DEF RemovePIDFile, SocketIsSafe, Replacing
<1>5. ASSUME NEW p \in Procs,
             CheckDaemon(p) \/ CleanupSocket(p) \/ InitDatabase(p) \/ RemoveSocket(p)
               \/ Listen(p) \/ Exit(p)
      PROVE  PidIsSafe'
  BY <1>5 DEF CheckDaemon, CleanupSocket, InitDatabase, RemoveSocket, Listen, Exit
<1>6. ASSUME NEW p \in Procs,
             StopCommand(p) \/ Signal(p) \/ Kill(p) \/ DaemonizeFails(p)
      PROVE  PidIsSafe'
  BY <1>6 DEF StopCommand, Signal, Kill, DaemonizeFails
<1>7. ASSUME UNCHANGED daemonVars PROVE PidIsSafe'
  BY <1>7 DEF daemonVars
<1>. QED
  BY <1>1, <1>2, <1>3, <1>4, <1>5, <1>6, <1>7 DEF DaemonNext, MainStep

LEMMA DaemonSpecIInv == DaemonSpec => []DaemonIInv
<1>1. DaemonIInv /\ [DaemonNext]_daemonVars => DaemonIInv'
  BY DaemonTypeStep, OverlapStep, SocketStep, PidStep DEF DaemonIInv
<1>. QED
  BY DaemonInitIInv, <1>1, PTL DEF DaemonSpec

-----------------------------------------------------------------------------
\* Type correctness of the processes and their files.
THEOREM DaemonTypeCorrect == DaemonSpec => []DaemonTypeOK
<1>1. DaemonIInv => DaemonTypeOK
  BY DEF DaemonIInv
<1>. QED
  BY <1>1, DaemonSpecIInv, PTL

\* A daemon that started alone and listens answers every command until it ends.
THEOREM DaemonStaysFound == DaemonSpec => []DaemonIsFound
<1>1. DaemonIInv => DaemonIsFound
  BY DEF DaemonIInv, SocketIsSafe, DaemonIsFound, Answers
<1>. QED
  BY <1>1, DaemonSpecIInv, PTL

\* Two daemons run side by side only if their starts overlapped or one of them
\* has no listener.
THEOREM NoSecondDaemon == DaemonSpec => []OneDaemon
<1>1. DaemonIInv => OneDaemon
  BY DEF DaemonIInv, SocketIsSafe, OneDaemon
<1>. QED
  BY <1>1, DaemonSpecIInv, PTL

\* The pid file is right while starts do not overlap.
THEOREM PidFileIsRight == DaemonSpec => []PidNamesDaemon
<1>1. DaemonIInv => PidNamesDaemon
  BY DEF DaemonIInv, PidIsSafe, PidNamesDaemon
<1>. QED
  BY <1>1, DaemonSpecIInv, PTL

\* Once a process was started and none is starting any more, the socket was made
\* by one that has got to its listener, and answers unless it was told to stop.
SocketIsNotLost ==
  (\E p \in Procs : mainAt[p] # "none") /\ (\A p \in Procs : mainAt[p] \notin Starting)
    /\ failed \cup noSocket = {}
    => \E p \in Procs : Answers(p) \/ (socket = p /\ mainAt[p] = "exited")

\* The file is of a process past its start, and every process that removed it is
\* still starting.
SocketHasAnOwner ==
  /\ \A p \in Procs : socket = p => mainAt[p] \in Up \cup Ended
  /\ \A p \in Procs : mainAt[p] = "killed" => p \in failed
  /\ \/ \A p \in Procs : mainAt[p] = "none"
     \/ \E p \in Procs : mainAt[p] \in Starting
     \/ socket # NoProc
     \/ failed \cup noSocket # {}

LEMMA OwnerStep ==
  DaemonTypeOK /\ SocketHasAnOwner /\ [DaemonNext]_daemonVars => SocketHasAnOwner'
<1> SUFFICES ASSUME DaemonTypeOK, SocketHasAnOwner, [DaemonNext]_daemonVars
             PROVE  SocketHasAnOwner'
    OBVIOUS
<1> USE DEF DaemonTypeOK, SocketHasAnOwner
<1>1. ASSUME NEW p \in Procs, Start(p) PROVE SocketHasAnOwner'
  BY <1>1 DEF Start
<1>2. ASSUME NEW p \in Procs, NEW c \in Procs, Daemonize(p, c) PROVE SocketHasAnOwner'
  BY <1>2 DEF Daemonize
<1>3. ASSUME NEW p \in Procs, CheckDaemon(p) PROVE SocketHasAnOwner'
  BY <1>3 DEF CheckDaemon, Answers
<1>4. ASSUME NEW p \in Procs, CleanupSocket(p) \/ CleanupPid(p) \/ WritePIDFile(p)
                                \/ RemoveSocket(p)
      PROVE  SocketHasAnOwner'
  BY <1>4 DEF CleanupSocket, CleanupPid, WritePIDFile, RemoveSocket
<1>5. ASSUME NEW p \in Procs, InitDatabase(p) \/ DaemonizeFails(p) \/ Kill(p)
      PROVE  SocketHasAnOwner'
  BY <1>5 DEF InitDatabase, DaemonizeFails, Kill
<1>6. ASSUME NEW p \in Procs, Listen(p) PROVE SocketHasAnOwner'
  BY <1>6 DEF Listen
<1>7. ASSUME NEW p \in Procs, StopCommand(p) \/ Signal(p) \/ RemovePIDFile(p) \/ Exit(p)
      PROVE  SocketHasAnOwner'
  BY <1>7 DEF StopCommand, Signal, RemovePIDFile, Exit
<1>8. ASSUME UNCHANGED daemonVars PROVE SocketHasAnOwner'
  BY <1>8 DEF daemonVars
<1>. QED
  BY <1>1, <1>2, <1>3, <1>4, <1>5, <1>6, <1>7, <1>8 DEF DaemonNext, MainStep

\* However many processes start at once and remove each other's sockets, the
\* last to get through has one that answers until it is stopped, unless a process
\* was killed, a fork or a database failed, or a socket could not be made: the
\* safety part of SomeDaemonAnswers.
THEOREM LastStartIsReachable == DaemonSpec => []SocketIsNotLost
<1>1. DaemonInit => SocketHasAnOwner
  BY DEF DaemonInit, SocketHasAnOwner
<1>2. DaemonTypeOK /\ SocketHasAnOwner => SocketIsNotLost
  BY DEF DaemonTypeOK, SocketHasAnOwner, SocketIsNotLost, Answers
<1>. QED
  BY <1>1, <1>2, OwnerStep, DaemonTypeCorrect, PTL DEF DaemonSpec
=============================================================================
