------------------------------- MODULE PubSub -------------------------------
(***************************************************************************)
(* What a publish/subscribe service promises its clients. A client gets    *)
(* the messages of the topics it is subscribed to at that moment, in the   *)
(* order of the publications. A message may be lost for all of them, but   *)
(* not for one: who is left out gets nothing any more.                     *)
(***************************************************************************)
EXTENDS Naturals, Sequences

CONSTANTS Clients, Topics

VARIABLES
  subscribers,  \* the clients of a topic
  last,         \* number of the last publication that was delivered or lost
  cut,          \* clients that get no message any more
  received      \* what each client got, in the order it did

vars == <<subscribers, last, cut, received>>

Init ==
  /\ subscribers = [t \in Topics |-> {}]
  /\ last = 0
  /\ cut = {}
  /\ received = [c \in Clients |-> <<>>]

Subscribe(c, t) ==
  /\ subscribers' = [subscribers EXCEPT ![t] = @ \cup {c}]
  /\ UNCHANGED <<last, cut, received>>

Unsubscribe(c, t) ==
  /\ subscribers' = [subscribers EXCEPT ![t] = @ \ {c}]
  /\ UNCHANGED <<last, cut, received>>

\* The client disconnects.
Leave(c) ==
  /\ subscribers' = [t \in Topics |-> subscribers[t] \ {c}]
  /\ cut' = cut \cup {c}
  /\ UNCHANGED <<last, received>>

\* Publications are lost.
Lose ==
  /\ last' \in Nat /\ last' > last
  /\ UNCHANGED <<subscribers, cut, received>>

\* A publication on topic t gets to the subscribers but those that are cut off;
\* it is not older than anything dealt with before, and later ones may have been
\* lost meanwhile.
Deliver(t, slow) ==
  /\ last' \in Nat
  /\ slow \subseteq subscribers[t]
  /\ cut' = cut \cup slow
  /\ \E n \in (last + 1)..last' :
       received' = [c \in Clients |->
                      IF c \in subscribers[t] \ cut'
                        THEN Append(received[c], [id |-> n, topic |-> t]) ELSE received[c]]
  /\ UNCHANGED subscribers

Next ==
  \/ \E c \in Clients, t \in Topics : Subscribe(c, t) \/ Unsubscribe(c, t)
  \/ \E c \in Clients : Leave(c)
  \/ Lose
  \/ \E t \in Topics : \E slow \in SUBSET Clients : Deliver(t, slow)

Spec == Init /\ [][Next]_vars
=============================================================================
