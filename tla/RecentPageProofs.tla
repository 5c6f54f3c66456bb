-------------------------- MODULE RecentPageProofs --------------------------
(***************************************************************************)
(* RecentPage for any number of sessions, any size of a page and any       *)
(* bounds: the list follows the table, and the page implements             *)
(* SelectableList.                                                         *)
(***************************************************************************)
EXTENDS RecentPage, SessionListsProofs

-----------------------------------------------------------------------------
(* The invariant.                                                          *)

RowStates == {"pending", "finished"}
Rows == [id : Sessions \ Foreign, state : RowStates]
Answers == [ok : BOOLEAN, sessions : Seq(Rows)]
Requests == [n : Nat, start : Nat, offset : Nat, answer : Answers, behind : SUBSET Sessions]
Events == [type : {"new_session", "delete_session"}, id : Sessions,
           state : RowStates \cup {"absent"}]

TypeOK ==
  /\ row \in [Sessions -> RowStates \cup {"absent"}]
  /\ next \in Nat \ {0} /\ events \in Seq(Events)
  /\ requests \in SUBSET Requests
  /\ startTime \in Nat /\ filter \in Filters \cup {""} /\ offset \in Nat
  /\ sessionList \in Answers
  /\ allLoadedSessions \in Seq(Rows)
  /\ selectedSessionId \in (Sessions \ Foreign) \cup {NoSession}
  /\ isLoadingMore \in BOOLEAN
  /\ loads \in Nat /\ failures \in Nat
  /\ overtaken \in SUBSET Sessions

\* No session is listed twice, nor in an answer.
ListsDiffer ==
  /\ Distinct(allLoadedSessions) /\ Distinct(sessionList.sessions)
  /\ \A r \in requests : Distinct(r.answer.sessions)

\* Ids are not used again: what is to come is not there, what was deleted stays so.
IdsAreFresh ==
  /\ \A s \in Sessions : s >= next => row[s] = "absent"
  /\ \A k \in 1..Len(events) :
       /\ events[k].id < next
       /\ events[k].type = "delete_session" => row[events[k].id] = "absent"

\* An event that is the last of its session announces the row there is.
Announced(queue, id) == \E k \in 1..Len(queue) : queue[k].id = id
Truthful(rows, queue) ==
  \A k \in 1..Len(queue) :
    /\ queue[k].type = "new_session" => queue[k].state \in RowStates
    /\ \/ queue[k].state = rows[queue[k].id]
       \/ \E m \in 1..Len(queue) : m > k /\ queue[m].id = queue[k].id

\* Rows that differ from the table's are announced, or known to be overtaken.
Known(rows, queue, list, except) ==
  \A x \in RowsOf(list) : \/ x.id \in except \/ Announced(queue, x.id)
                          \/ rows[x.id] = x.state
RowsAreKnown ==
  /\ Known(row, events, allLoadedSessions, overtaken)
  /\ \A r \in requests : r.answer.ok => Known(row, events, r.answer.sessions, r.behind)

\* What the first page of a start time would be now is there, or announced.
Own(rows, start) == {s \in {p \in Sessions : rows[p] # "absent"} \ Foreign : s >= start}
Newest(rows, start) == IdsOf(PageOf(rows, Own(rows, start), 0, Limit))
Complete(rows, queue, list, except, start) ==
  \A s \in Newest(rows, start) : s \in IdsOf(list) \cup except \/ Announced(queue, s)
NewestAreKnown ==
  /\ sessionList.ok => Complete(row, events, allLoadedSessions, overtaken, startTime)
  /\ \A r \in requests : r.answer.ok /\ r.offset = 0 =>
       Complete(row, events, r.answer.sessions, r.behind, r.start)

\* The requests are of the page's start time, and of its first page unless
\* another was asked for, which takes an answer to the first.
RequestsAreOfThePage ==
  /\ \A r \in requests : r.start = startTime /\ (offset = 0 => r.offset = 0)
  /\ offset # 0 => sessionList.ok

IInv ==
  /\ TypeOK /\ ListsDiffer /\ IdsAreFresh /\ Truthful(row, events)
  /\ RowsAreKnown /\ NewestAreKnown /\ RequestsAreOfThePage

-----------------------------------------------------------------------------
(* The queue of events, and the first page of the table.                   *)

LEMMA AnnouncedEnqueue ==
  ASSUME NEW S, NEW q \in Seq(S), NEW e \in S
  PROVE  \A id : Announced(q, id) \/ id = e.id => Announced(Append(q, e), id)
  BY Enqueued DEF Announced

LEMMA AnnouncedDequeue ==
  ASSUME NEW S, NEW q \in Seq(S), q # <<>>
  PROVE  \A id : Announced(q, id) => id = Head(q).id \/ Announced(Tail(q), id)
  BY Dequeued DEF Announced

\* A row changes and is announced.
LEMMA TruthfulEnqueue ==
  ASSUME NEW rows \in [Sessions -> RowStates \cup {"absent"}],
         NEW q \in Seq(Events), Truthful(rows, q), NEW e \in Events,
         e.type = "new_session" => e.state \in RowStates
  PROVE  Truthful([rows EXCEPT ![e.id] = e.state], Append(q, e))
  <1> DEFINE r == Append(q, e)
             new == [rows EXCEPT ![e.id] = e.state]
  <1>1. /\ r \in Seq(Events) /\ Len(r) = Len(q) + 1 /\ Len(q) \in Nat
        /\ \A i \in 1..Len(q) : i \in 1..Len(r) /\ r[i] = q[i] /\ q[i] \in Events
        /\ Len(r) \in 1..Len(r) /\ r[Len(r)] = e
        /\ \A i \in 1..Len(r) : i # Len(r) => i \in 1..Len(q)
    BY Enqueued
  <1> HIDE DEF r
  <1>2. \A s \in Sessions : new[s] = IF s = e.id THEN e.state ELSE rows[s]
    OBVIOUS
  <1> HIDE DEF new
  <1>3. ASSUME NEW k \in 1..Len(r)
        PROVE  /\ r[k].type = "new_session" => r[k].state \in RowStates
               /\ \/ r[k].state = new[r[k].id]
                  \/ \E m \in 1..Len(r) : m > k /\ r[m].id = r[k].id
    <2>1. CASE k = Len(r)
      BY <1>1, <1>2, <2>1 DEF Events
    <2>2. CASE k # Len(r)
      <3>1. k \in 1..Len(q) /\ r[k] = q[k] /\ q[k].id \in Sessions /\ Len(r) > k
        BY <1>1, <2>2 DEF Events
      <3>2. /\ q[k].type = "new_session" => q[k].state \in RowStates
            /\ \/ q[k].state = rows[q[k].id]
               \/ \E m \in 1..Len(q) : m > k /\ q[m].id = q[k].id
        BY <3>1 DEF Truthful
      <3>3. CASE q[k].id = e.id
        BY <1>1, <3>1, <3>2, <3>3
      <3>4. CASE q[k].id # e.id
        <4>1. new[q[k].id] = rows[q[k].id]
          BY <1>2, <3>1, <3>4
        <4>. QED  BY <1>1, <3>1, <3>2, <4>1
      <3>. QED  BY <3>3, <3>4
    <2>. QED  BY <2>1, <2>2
  <1>4. Truthful(new, r)
    BY <1>3 DEF Truthful
  <1>. QED  BY <1>4 DEF new, r

LEMMA KnownEnqueue ==
  ASSUME NEW rows \in [Sessions -> RowStates \cup {"absent"}],
         NEW q \in Seq(Events), NEW e \in Events, NEW list \in Seq(Rows), NEW except,
         Known(rows, q, list, except)
  PROVE  Known([rows EXCEPT ![e.id] = e.state], Append(q, e), list, except)
  <1>1. \A id : Announced(q, id) \/ id = e.id => Announced(Append(q, e), id)
    BY AnnouncedEnqueue
  <1>2. RowsOf(list) \subseteq Rows
    BY RowsType
  <1>3. \A x \in RowsOf(list) : x.id \in Sessions
    BY <1>2 DEF Rows
  <1>. QED  BY <1>1, <1>3 DEF Known

LEMMA CompleteEnqueue ==
  ASSUME NEW rows, NEW new, NEW q \in Seq(Events), NEW e \in Events, NEW list, NEW except,
         NEW start, Newest(new, start) \subseteq Newest(rows, start) \cup {e.id},
         Complete(rows, q, list, except, start)
  PROVE  Complete(new, Append(q, e), list, except, start)
  <1>1. \A id : Announced(q, id) \/ id = e.id => Announced(Append(q, e), id)
    BY AnnouncedEnqueue
  <1>. QED  BY <1>1 DEF Complete

\* The first page of the sessions there are.
LEMMA SessionsFinite == Sessions \in SUBSET Nat /\ IsFiniteSet(Sessions)
  BY RecentPageAssumption, FS_Interval DEF Sessions

LEMMA OwnFinite ==
  ASSUME NEW rows, NEW start
  PROVE  Own(rows, start) \in SUBSET Nat /\ IsFiniteSet(Own(rows, start))
  <1>1. Own(rows, start) \in SUBSET Sessions
    BY DEF Own
  <1>. QED  BY <1>1, SessionsFinite, FS_Subset

LEMMA PageOfOwn ==
  ASSUME NEW rows \in [Sessions -> RowStates \cup {"absent"}], NEW start, NEW off \in Nat
  PROVE  LET p == PageOf(rows, Own(rows, start), off, Limit)
         IN  /\ p \in Seq(Rows) /\ Distinct(p)
             /\ \A x \in RowsOf(p) : x.state = rows[x.id]
             /\ off = 0 => IdsOf(p) = Newest(rows, start)
             /\ off = 0 => IdsOf(p) = {s \in Own(rows, start) :
                                        Cardinality(Above(Own(rows, start), s)) < Limit}
  <1>1. PICK own \in SUBSET Nat : own = Own(rows, start)
    BY OwnFinite
  <1>2. IsFiniteSet(own)
    BY <1>1, OwnFinite
  <1>3. RowsIn(rows, own, Rows)
    BY <1>1 DEF Own, Rows, RowStates, RowsIn
  <1>4. Limit \in Nat
    BY RecentPageAssumption
  <1>5. off = 0 => IdsOf(PageOf(rows, own, off, Limit)) = Newest(rows, start)
    BY <1>1 DEF Newest
  <1>6. LET p == PageOf(rows, own, off, Limit)
        IN  /\ p \in Seq(Rows) /\ Distinct(p) /\ RowsFrom(rows, own, p)
            /\ off = 0 => IdsOf(p) = {s \in own : Cardinality(Above(own, s)) < Limit}
    BY <1>2, <1>3, <1>4, PageRows
  <1>. QED  BY <1>1, <1>5, <1>6 DEF RowsFrom

LEMMA NewestIds ==
  ASSUME NEW rows \in [Sessions -> RowStates \cup {"absent"}], NEW start
  PROVE  Newest(rows, start) =
           {s \in Own(rows, start) : Cardinality(Above(Own(rows, start), s)) < Limit}
  <1>1. 0 \in Nat
    OBVIOUS
  <1>. QED  BY <1>1, PageOfOwn

\* A session that was there is on the first page only if it was before, unless one
\* above it is gone.
LEMMA NewestBefore ==
  ASSUME NEW rows \in [Sessions -> RowStates \cup {"absent"}],
         NEW new \in [Sessions -> RowStates \cup {"absent"}], NEW start,
         NEW s \in Newest(new, start), s \in Own(rows, start),
         Above(Own(rows, start), s) \subseteq Own(new, start)
  PROVE  s \in Newest(rows, start)
  <1> DEFINE A == Above(Own(rows, start), s)
             B == Above(Own(new, start), s)
  <1>1. s \in Own(new, start) /\ Cardinality(B) < Limit
    BY NewestIds
  <1>2. A \subseteq B
    BY DEF Above
  <1>3. IsFiniteSet(Own(new, start)) /\ B \in SUBSET Own(new, start)
    BY OwnFinite DEF Above
  <1>4. IsFiniteSet(B)
    BY <1>3, FS_Subset
  <1> HIDE DEF A, B
  <1>5. Cardinality(A) <= Cardinality(B) /\ IsFiniteSet(A)
    BY <1>2, <1>4, FS_Subset
  <1>6. Cardinality(A) \in Nat /\ Cardinality(B) \in Nat /\ Limit \in Nat
    BY <1>4, <1>5, FS_CardinalityType, RecentPageAssumption
  <1>7. Cardinality(A) < Limit
    BY <1>1, <1>5, <1>6
  <1>. QED  BY <1>7, NewestIds DEF A

-----------------------------------------------------------------------------
(* The steps of the server.                                                *)

\* Whatever changes a row announces it.
LEMMA ServerStep ==
  ASSUME IInv, NEW e \in Events,
         e.type = "new_session" => e.state \in RowStates,
         e.type = "delete_session" => e.state = "absent",
         row' = [row EXCEPT ![e.id] = e.state], events' = Append(events, e),
         next' \in Nat \ {0}, next <= next', e.id < next',
         \A s \in Sessions : s >= next' => row'[s] = "absent",
         \A k \in 1..Len(events) : events[k].type = "delete_session" => events[k].id # e.id,
         \A start : Newest(row', start) \subseteq Newest(row, start) \cup {e.id},
         UNCHANGED <<requests, params, sessionList, shown, loads, failures, overtaken>>
  PROVE  IInv'
  <1>1. /\ row \in [Sessions -> RowStates \cup {"absent"}] /\ next \in Nat /\ events \in Seq(Events)
        /\ requests \in SUBSET Requests /\ allLoadedSessions \in Seq(Rows)
        /\ e.id \in Sessions /\ e.state \in RowStates \cup {"absent"}
    BY DEF IInv, TypeOK, Events
  <1>2. TypeOK'
    <2>1. row' \in [Sessions -> RowStates \cup {"absent"}] /\ events' \in Seq(Events)
      BY <1>1
    <2>. QED  BY <2>1 DEF IInv, TypeOK, params, shown
  <1>3. ListsDiffer'
    BY DEF IInv, ListsDiffer, shown
  <1>4. IdsAreFresh'
    <2> DEFINE r == Append(events, e)
    <2>1. /\ Len(r) = Len(events) + 1 /\ Len(events) \in Nat
          /\ \A i \in 1..Len(events) : r[i] = events[i] /\ events[i] \in Events
          /\ r[Len(r)] = e
          /\ \A i \in 1..Len(r) : i # Len(r) => i \in 1..Len(events)
      BY <1>1, Enqueued
    <2> HIDE DEF r
    <2>2. ASSUME NEW k \in 1..Len(r)
          PROVE  /\ r[k].id < next'
                 /\ r[k].type = "delete_session" => row'[r[k].id] = "absent"
      <3>1. CASE k = Len(r)
        BY <1>1, <2>1, <3>1
      <3>2. CASE k # Len(r)
        <4>1. k \in 1..Len(events) /\ r[k] = events[k] /\ events[k].id \in Sessions
          BY <2>1, <3>2 DEF Events
        <4>2. events[k].id < next /\ events[k].id \in Nat
          BY <4>1, SessionsFinite DEF IInv, IdsAreFresh
        <4>3. r[k].id < next'
          BY <1>1, <4>1, <4>2
        <4>4. r[k].type = "delete_session" => row'[r[k].id] = "absent"
          BY <1>1, <4>1 DEF IInv, IdsAreFresh
        <4>. QED  BY <4>3, <4>4
      <3>. QED  BY <3>1, <3>2
    <2>. QED  BY <2>2 DEF IdsAreFresh, r
  <1>5. Truthful(row', events')
    BY <1>1, TruthfulEnqueue DEF IInv
  <1>6. RowsAreKnown'
    <2>1. Known(row', events', allLoadedSessions, overtaken)
      BY <1>1, KnownEnqueue DEF IInv, RowsAreKnown
    <2>2. ASSUME NEW r \in requests, r.answer.ok
          PROVE  Known(row', events', r.answer.sessions, r.behind)
      <3>1. r.answer.sessions \in Seq(Rows)
        BY <1>1 DEF Requests, Answers
      <3>2. Known(row, events, r.answer.sessions, r.behind)
        BY <2>2 DEF IInv, RowsAreKnown
      <3>. QED  BY <1>1, <3>1, <3>2, KnownEnqueue
    <2>. QED  BY <2>1, <2>2 DEF RowsAreKnown, shown
  <1>7. NewestAreKnown'
    <2>1. sessionList.ok => Complete(row', events', allLoadedSessions, overtaken, startTime)
      BY <1>1, CompleteEnqueue DEF IInv, NewestAreKnown
    <2>2. ASSUME NEW r \in requests, r.answer.ok, r.offset = 0
          PROVE  Complete(row', events', r.answer.sessions, r.behind, r.start)
      <3>1. Complete(row, events, r.answer.sessions, r.behind, r.start)
        BY <2>2 DEF IInv, NewestAreKnown
      <3>. QED  BY <1>1, <3>1, CompleteEnqueue
    <2>. QED  BY <2>1, <2>2 DEF NewestAreKnown, shown, params
  <1>8. RequestsAreOfThePage'
    BY DEF IInv, RequestsAreOfThePage, params
  <1>. QED  BY <1>2, <1>3, <1>4, <1>5, <1>6, <1>7, <1>8 DEF IInv

LEMMA StepStart ==
  ASSUME IInv, StartSession
  PROVE  IInv'
  <1> DEFINE e == [type |-> "new_session", id |-> next, state |-> "pending"]
  <1>1. /\ row \in [Sessions -> RowStates \cup {"absent"}] /\ next \in Nat \ {0}
        /\ events \in Seq(Events) /\ MaxSessions \in Nat /\ next <= MaxSessions
    BY RecentPageAssumption DEF IInv, TypeOK, StartSession
  <1>2. next \in Sessions
    BY <1>1 DEF Sessions
  <1>3. e \in Events
    BY <1>2 DEF Events, RowStates
  <1>4. row' = [row EXCEPT ![e.id] = e.state] /\ events' = Append(events, e)
    BY DEF StartSession
  <1>5. next' \in Nat \ {0} /\ next <= next' /\ e.id < next'
    BY <1>1 DEF StartSession
  <1>6. \A s \in Sessions : s >= next' => row'[s] = "absent"
    <2> SUFFICES ASSUME NEW s \in Sessions, s >= next'
                 PROVE  row'[s] = "absent"
      OBVIOUS
    <2>1. s \in Nat /\ s >= next /\ s # next
      BY <1>1, SessionsFinite DEF StartSession
    <2>2. row[s] = "absent"
      BY <2>1 DEF IInv, IdsAreFresh
    <2>. QED  BY <1>1, <1>4, <2>1, <2>2
  <1>7. \A k \in 1..Len(events) : events[k].type = "delete_session" => events[k].id # e.id
    <2> SUFFICES ASSUME NEW k \in 1..Len(events)
                 PROVE  events[k].id # next
      OBVIOUS
    <2>1. events[k] \in Events
      BY <1>1, ElementOfSeq
    <2>2. events[k].id < next /\ events[k].id \in Nat
      BY <2>1, SessionsFinite DEF IInv, IdsAreFresh, Events
    <2>. QED  BY <1>1, <2>2
  <1>8. ASSUME NEW start, NEW s \in Newest(row', start), s # next
        PROVE  s \in Newest(row, start)
    <2>1. row' \in [Sessions -> RowStates \cup {"absent"}]
      BY <1>1, <1>3, <1>4 DEF Events
    <2>2. s \in Own(row', start)
      BY <2>1, NewestIds
    <2>3. \A p \in Sessions : row'[p] = IF p = next THEN "pending" ELSE row[p]
      BY <1>1, <1>4
    <2>4. s \in Own(row, start)
      BY <1>8, <2>2, <2>3 DEF Own
    <2>5. Own(row, start) \subseteq Own(row', start)
      BY <2>3 DEF Own
    <2>6. Above(Own(row, start), s) \subseteq Own(row', start)
      BY <2>5 DEF Above
    <2>. QED  BY <1>1, <2>1, <2>4, <2>6, NewestBefore
  <1>9. UNCHANGED <<requests, params, sessionList, shown, loads, failures, overtaken>>
    BY DEF StartSession
  <1>10. e.type = "new_session" /\ e.state = "pending" /\ e.id = next
    OBVIOUS
  <1> HIDE DEF e
  <1>11. \A start : Newest(row', start) \subseteq Newest(row, start) \cup {e.id}
    BY <1>8, <1>10
  <1>12. /\ e.type = "new_session" => e.state \in RowStates
         /\ e.type = "delete_session" => e.state = "absent"
    BY <1>10 DEF RowStates
  <1>. QED  BY <1>3, <1>4, <1>5, <1>6, <1>7, <1>9, <1>11, <1>12, ServerStep

LEMMA StepFinish ==
  ASSUME IInv, NEW s \in Sessions, FinishSession(s)
  PROVE  IInv'
  <1> DEFINE e == [type |-> "new_session", id |-> s, state |-> "finished"]
  <1>1. /\ row \in [Sessions -> RowStates \cup {"absent"}] /\ next \in Nat \ {0}
        /\ events \in Seq(Events) /\ row[s] = "pending" /\ s \in Nat
    BY SessionsFinite DEF IInv, TypeOK, FinishSession
  <1>2. s < next
    BY <1>1 DEF IInv, IdsAreFresh
  <1>3. e \in Events
    BY DEF Events, RowStates
  <1>4. row' = [row EXCEPT ![e.id] = e.state] /\ events' = Append(events, e)
    BY DEF FinishSession
  <1>5. next' \in Nat \ {0} /\ next <= next' /\ e.id < next'
    BY <1>1, <1>2 DEF FinishSession
  <1>6. \A p \in Sessions : p >= next' => row'[p] = "absent"
    <2> SUFFICES ASSUME NEW p \in Sessions, p >= next'
                 PROVE  row'[p] = "absent"
      OBVIOUS
    <2>1. p \in Nat /\ p >= next /\ p # s
      BY <1>1, <1>2, SessionsFinite DEF FinishSession
    <2>2. row[p] = "absent"
      BY <2>1 DEF IInv, IdsAreFresh
    <2>. QED  BY <1>1, <1>4, <2>1, <2>2
  <1>7. \A k \in 1..Len(events) : events[k].type = "delete_session" => events[k].id # e.id
    BY <1>1 DEF IInv, IdsAreFresh
  <1>8. ASSUME NEW start, NEW p \in Newest(row', start)
        PROVE  p \in Newest(row, start)
    <2>1. row' \in [Sessions -> RowStates \cup {"absent"}]
      BY <1>1, <1>3, <1>4 DEF Events
    <2>2. \A q \in Sessions : row'[q] = IF q = s THEN "finished" ELSE row[q]
      BY <1>1, <1>4
    <2>3. Own(row, start) = Own(row', start)
      BY <1>1, <2>2 DEF Own
    <2>. QED  BY <1>1, <2>1, <2>3, NewestIds
  <1>9. UNCHANGED <<requests, params, sessionList, shown, loads, failures, overtaken>>
    BY DEF FinishSession
  <1>10. e.type = "new_session" /\ e.state = "finished" /\ e.id = s
    OBVIOUS
  <1> HIDE DEF e
  <1>11. /\ e.type = "new_session" => e.state \in RowStates
         /\ e.type = "delete_session" => e.state = "absent"
    BY <1>10 DEF RowStates
  <1>. QED  BY <1>3, <1>4, <1>5, <1>6, <1>7, <1>8, <1>9, <1>11, ServerStep

LEMMA StepDelete ==
  ASSUME IInv, NEW s \in Sessions, DeleteSession(s)
  PROVE  IInv'
  <1> DEFINE e == [type |-> "delete_session", id |-> s, state |-> "absent"]
  <1>1. /\ row \in [Sessions -> RowStates \cup {"absent"}] /\ next \in Nat \ {0}
        /\ events \in Seq(Events) /\ row[s] = "finished" /\ s \in Nat
    BY SessionsFinite DEF IInv, TypeOK, DeleteSession
  <1>2. s < next
    BY <1>1 DEF IInv, IdsAreFresh
  <1>3. e \in Events
    BY DEF Events, RowStates
  <1>4. row' = [row EXCEPT ![e.id] = e.state] /\ events' = Append(events, e)
    BY DEF DeleteSession
  <1>5. next' \in Nat \ {0} /\ next <= next' /\ e.id < next'
    BY <1>1, <1>2 DEF DeleteSession
  <1>6. \A p \in Sessions : p >= next' => row'[p] = "absent"
    BY <1>1, <1>4 DEF IInv, IdsAreFresh, DeleteSession
  <1>7. \A k \in 1..Len(events) : events[k].type = "delete_session" => events[k].id # e.id
    BY <1>1 DEF IInv, IdsAreFresh
  <1>8. ASSUME NEW start, NEW p \in Newest(row', start)
        PROVE  p \in Newest(row, start)
    <2>1. row' \in [Sessions -> RowStates \cup {"absent"}]
      BY <1>1, <1>3, <1>4 DEF Events
    <2>2. p \in Own(row', start)
      BY <2>1, NewestIds
    <2>3. \A q \in Sessions : row'[q] = IF q = s THEN "absent" ELSE row[q]
      BY <1>1, <1>4
    <2>4. p \in Own(row, start) /\ p \in Sessions /\ p \in Nat
      BY <2>2, <2>3, SessionsFinite DEF Own
    <2>5. s <= p
      <3>1. row[p] # "absent"
        BY <2>4 DEF Own
      <3>. QED  BY <2>4, <3>1 DEF DeleteSession, Present
    <2>6. Above(Own(row, start), p) \subseteq Own(row', start)
      <3> SUFFICES ASSUME NEW q \in Own(row, start), q > p
                   PROVE  q \in Own(row', start)
        BY DEF Above
      <3>1. q \in Sessions /\ q \in Nat
        BY SessionsFinite DEF Own
      <3>2. q # s
        BY <1>1, <2>4, <2>5, <3>1
      <3>. QED  BY <2>3, <3>1, <3>2 DEF Own
    <2>. QED  BY <1>1, <2>1, <2>4, <2>6, NewestBefore
  <1>9. UNCHANGED <<requests, params, sessionList, shown, loads, failures, overtaken>>
    BY DEF DeleteSession
  <1>10. e.type = "delete_session" /\ e.state = "absent" /\ e.id = s
    OBVIOUS
  <1> HIDE DEF e
  <1>. QED  BY <1>3, <1>4, <1>5, <1>6, <1>7, <1>8, <1>9, <1>10, ServerStep

-----------------------------------------------------------------------------
(* The steps of the page.                                                  *)

Selectable == (Sessions \ Foreign) \cup {NoSession}

LEMMA ListType ==
  ASSUME NEW list \in Seq(Rows)
  PROVE  /\ IdsOf(list) \subseteq Sessions \ Foreign
         /\ RowsOf(list) \subseteq Rows
         /\ \A current \in Selectable : AutoSelect(list, current) \in Selectable
  <1>1. RowsOf(list) \subseteq Rows /\ (list # <<>> => Head(list) \in RowsOf(list))
    BY RowsType
  <1>2. \A x \in RowsOf(list) : x.id \in Sessions \ Foreign
    BY <1>1 DEF Rows
  <1>3. IdsOf(list) \subseteq Sessions \ Foreign
    BY <1>2, IdsOfRows
  <1>4. list # <<>> => Head(list).id \in Sessions \ Foreign
    BY <1>1, <1>2
  <1>. QED  BY <1>1, <1>3, <1>4 DEF AutoSelect, Selectable

LEMMA NoRows == <<>> \in Seq(Rows) /\ Distinct(<<>>) /\ RowsOf(<<>>) = {} /\ IdsOf(<<>>) = {}
  BY DEF Distinct, RowsOf, IdsOf

LEMMA NoAnswerType == NoAnswer \in Answers /\ NoAnswer.ok = FALSE /\ NoAnswer.sessions = <<>>
  BY NoRows DEF NoAnswer, Answers

LEMMA RequestType ==
  ASSUME IInv, NEW start \in Nat, NEW off \in Nat
  PROVE  LET r == Request(start, off)
         IN  /\ r \in Requests /\ r.start = start /\ r.offset = off
             /\ r.answer = NoAnswer /\ r.behind = {}
  <1>1. loads + 1 \in Nat
    <2>1. loads \in Nat
      BY DEF IInv, TypeOK
    <2>. QED  BY <2>1
  <1>2. {} \in SUBSET Sessions
    OBVIOUS
  <1>. QED  BY <1>1, <1>2, NoAnswerType DEF Request, Requests

\* More is known of a list when more is excepted.
LEMMA KnownMore ==
  ASSUME NEW rows, NEW q, NEW list, NEW except, NEW more, except \subseteq more
  PROVE  /\ Known(rows, q, list, except) => Known(rows, q, list, more)
         /\ \A start : Complete(rows, q, list, except, start) => Complete(rows, q, list, more, start)
  BY DEF Known, Complete

LEMMA Unloaded ==
  ASSUME NEW rows, NEW q, NEW except
  PROVE  Known(rows, q, <<>>, except)
  BY NoRows DEF Known

LEMMA StepAnswer ==
  ASSUME IInv, NEW r \in requests, Answer(r)
  PROVE  IInv'
  <1> DEFINE page == PageOf(row, Own(row, r.start), r.offset, Limit)
             a == [r EXCEPT !.answer = [ok |-> TRUE, sessions |-> page]]
  <1>1. /\ row \in [Sessions -> RowStates \cup {"absent"}] /\ r \in Requests
        /\ requests \in SUBSET Requests /\ r.start \in Nat /\ r.offset \in Nat
        /\ r.behind \in SUBSET Sessions /\ r.n \in Nat
    BY DEF IInv, TypeOK, Requests
  <1>2. requests' = (requests \ {r}) \cup {a}
    BY DEF Answer, Own, Present
  <1>3. /\ page \in Seq(Rows) /\ Distinct(page)
        /\ \A x \in RowsOf(page) : x.state = row[x.id]
        /\ r.offset = 0 => IdsOf(page) = Newest(row, r.start)
    BY <1>1, PageOfOwn
  <1> HIDE DEF page
  <1>4. /\ a \in Requests /\ a.start = r.start /\ a.offset = r.offset
        /\ a.answer.sessions = page /\ a.behind = r.behind
    BY <1>1, <1>3 DEF Requests, Answers
  <1> HIDE DEF a
  <1>5. UNCHANGED <<server, params, sessionList, shown, loads, failures, overtaken>>
    BY DEF Answer
  <1>6. TypeOK'
    <2>1. requests' \in SUBSET Requests
      BY <1>1, <1>2, <1>4
    <2>. QED  BY <1>5, <2>1 DEF IInv, TypeOK, server, params, shown
  <1>7. ListsDiffer'
    BY <1>2, <1>3, <1>4, <1>5 DEF IInv, ListsDiffer, shown
  <1>8. IdsAreFresh' /\ Truthful(row', events')
    BY <1>5 DEF IInv, IdsAreFresh, server
  <1>9. RowsAreKnown'
    <2>1. Known(row, events, page, r.behind)
      BY <1>3 DEF Known
    <2>. QED  BY <1>2, <1>4, <1>5, <2>1 DEF IInv, RowsAreKnown, server, shown
  <1>10. NewestAreKnown'
    <2>1. r.offset = 0 => Complete(row, events, page, r.behind, r.start)
      BY <1>3 DEF Complete
    <2>. QED  BY <1>2, <1>4, <1>5, <2>1 DEF IInv, NewestAreKnown, server, shown, params
  <1>11. RequestsAreOfThePage'
    BY <1>2, <1>4, <1>5 DEF IInv, RequestsAreOfThePage, params
  <1>. QED  BY <1>6, <1>7, <1>8, <1>9, <1>10, <1>11 DEF IInv

LEMMA StepFail ==
  ASSUME IInv, NEW r \in requests, Fail(r)
  PROVE  IInv'
  <1>1. requests' \subseteq requests /\ failures' = failures + 1
    BY DEF Fail
  <1>2. UNCHANGED <<server, params, sessionList, shown, loads, overtaken>>
    BY DEF Fail
  <1>3. TypeOK'
    <2>1. requests \in SUBSET Requests /\ failures \in Nat
      BY DEF IInv, TypeOK
    <2>2. requests' \in SUBSET Requests /\ failures' \in Nat
      BY <1>1, <2>1
    <2>. QED  BY <1>2, <2>2 DEF IInv, TypeOK, server, params, shown
  <1>4. ListsDiffer'
    BY <1>1, <1>2 DEF IInv, ListsDiffer, shown
  <1>5. IdsAreFresh' /\ Truthful(row', events')
    BY <1>2 DEF IInv, IdsAreFresh, server
  <1>6. RowsAreKnown'
    BY <1>1, <1>2 DEF IInv, RowsAreKnown, server, shown
  <1>7. NewestAreKnown'
    BY <1>1, <1>2 DEF IInv, NewestAreKnown, server, shown, params
  <1>8. RequestsAreOfThePage'
    BY <1>1, <1>2 DEF IInv, RequestsAreOfThePage, params
  <1>. QED  BY <1>3, <1>4, <1>5, <1>6, <1>7, <1>8 DEF IInv

\* The list is replaced by a first page, or extended by another.
LEMMA Merged ==
  ASSUME NEW rows, NEW q, NEW prev \in Seq(Rows), NEW page \in Seq(Rows), NEW off, NEW start,
         NEW except, NEW behind, Distinct(prev), Distinct(page),
         Known(rows, q, prev, except), Known(rows, q, page, behind),
         off = 0 => Complete(rows, q, page, behind, start),
         off # 0 => Complete(rows, q, prev, except, start)
  PROVE  LET r == MergePage(prev, page, off)
             left == IF off = 0 THEN behind ELSE except \cup (behind \ IdsOf(prev))
         IN  /\ r \in Seq(Rows) /\ Distinct(r)
             /\ Known(rows, q, r, left) /\ Complete(rows, q, r, left, start)
  <1> DEFINE r == MergePage(prev, page, off)
  <1>1. CASE off = 0
    <2>1. r = page
      BY <1>1 DEF MergePage
    <2>. QED  BY <1>1, <2>1
  <1>2. CASE off # 0
    <2>1. /\ r \in Seq(Rows) /\ Distinct(r)
          /\ RowsOf(r) = RowsOf(prev) \cup {x \in RowsOf(page) : x.id \notin IdsOf(prev)}
      BY <1>2, MergedPage
    <2> DEFINE left == except \cup (behind \ IdsOf(prev))
    <2> HIDE DEF r
    <2>2. Known(rows, q, r, left)
      BY <2>1 DEF Known
    <2>3. IdsOf(prev) \subseteq IdsOf(r)
      BY <2>1, IdsOfRows
    <2>4. Complete(rows, q, r, left, start)
      BY <1>2, <2>3 DEF Complete
    <2>. QED  BY <1>2, <2>1, <2>2, <2>4 DEF r
  <1>. QED  BY <1>1, <1>2

LEMMA StepReceiveAnswer ==
  ASSUME IInv, NEW r \in requests, ReceiveAnswer(r)
  PROVE  IInv'
  <1> DEFINE prev == allLoadedSessions
             page == r.answer.sessions
             list == MergePage(prev, page, offset)
             left == IF offset = 0 THEN r.behind ELSE overtaken \cup (r.behind \ IdsOf(prev))
  <1>1. /\ prev \in Seq(Rows) /\ r \in Requests /\ r.answer \in Answers /\ page \in Seq(Rows)
        /\ r.behind \in SUBSET Sessions /\ overtaken \in SUBSET Sessions
        /\ requests \in SUBSET Requests /\ selectedSessionId \in Selectable
    BY DEF IInv, TypeOK, Requests, Answers, Selectable
  <1>2. /\ r.answer.ok /\ requests' = requests \ {r} /\ sessionList' = r.answer
        /\ allLoadedSessions' = list /\ selectedSessionId' = AutoSelect(list, selectedSessionId)
        /\ isLoadingMore' = FALSE /\ overtaken' = left
        /\ UNCHANGED <<server, params, loads, failures>>
    BY DEF ReceiveAnswer, SetAllLoadedSessions
  <1>3. list \in Seq(Rows) /\ Distinct(list)
        /\ Known(row, events, list, left) /\ Complete(row, events, list, left, startTime)
    <2>1. Distinct(prev) /\ Distinct(page)
      BY DEF IInv, ListsDiffer
    <2>2. Known(row, events, prev, overtaken) /\ Known(row, events, page, r.behind)
      BY <1>2 DEF IInv, RowsAreKnown
    <2>3. offset = 0 => Complete(row, events, page, r.behind, startTime)
      <3>1. r.start = startTime /\ (offset = 0 => r.offset = 0)
        BY DEF IInv, RequestsAreOfThePage
      <3>. QED  BY <1>2, <3>1 DEF IInv, NewestAreKnown
    <2>4. offset # 0 => Complete(row, events, prev, overtaken, startTime)
      BY DEF IInv, NewestAreKnown, RequestsAreOfThePage
    <2>. QED  BY <1>1, <2>1, <2>2, <2>3, <2>4, Merged
  <1>4. left \in SUBSET Sessions
    BY <1>1
  <1> HIDE DEF list, left
  <1>5. TypeOK'
    <2>1. AutoSelect(list, selectedSessionId) \in Selectable
      BY <1>1, <1>3, ListType
    <2>2. requests' \in SUBSET Requests /\ isLoadingMore' \in BOOLEAN
      BY <1>1, <1>2
    <2>. QED  BY <1>1, <1>2, <1>3, <1>4, <2>1, <2>2 DEF IInv, TypeOK, server, params, Selectable
  <1>6. ListsDiffer'
    BY <1>2, <1>3 DEF IInv, ListsDiffer
  <1>7. IdsAreFresh' /\ Truthful(row', events')
    BY <1>2 DEF IInv, IdsAreFresh, server
  <1>8. RowsAreKnown'
    BY <1>2, <1>3 DEF IInv, RowsAreKnown, server
  <1>9. NewestAreKnown'
    BY <1>2, <1>3 DEF IInv, NewestAreKnown, server, params
  <1>10. RequestsAreOfThePage'
    BY <1>2 DEF IInv, RequestsAreOfThePage, params
  <1>. QED  BY <1>5, <1>6, <1>7, <1>8, <1>9, <1>10 DEF IInv

\* An event leaves the queue: what it announced is an exception from now on.
LEMMA QueueAfter ==
  ASSUME IInv, events # <<>>
  PROVE  /\ Head(events) \in Events /\ Tail(events) \in Seq(Events)
         /\ Truthful(row, Tail(events))
         /\ \A k \in 1..Len(Tail(events)) :
              /\ Tail(events)[k].id < next
              /\ Tail(events)[k].type = "delete_session" => row[Tail(events)[k].id] = "absent"
         /\ Head(events).type = "new_session" => Head(events).state \in RowStates
         /\ Head(events).type = "delete_session" => row[Head(events).id] = "absent"
         /\ \/ Head(events).state = row[Head(events).id]
            \/ Announced(Tail(events), Head(events).id)
  <1> DEFINE q == Tail(events)
             e == Head(events)
  <1>1. events \in Seq(Events)
    BY DEF IInv, TypeOK
  <1>2. /\ q \in Seq(Events) /\ Len(q) = Len(events) - 1 /\ Len(events) \in Nat \ {0}
        /\ e = events[1] /\ e \in Events /\ 1 \in 1..Len(events)
        /\ \A i \in 1..Len(q) : i + 1 \in 1..Len(events) /\ q[i] = events[i + 1]
        /\ \A i \in 1..Len(events) : i # 1 => i - 1 \in 1..Len(q) /\ q[i - 1] = events[i]
    BY <1>1, Dequeued
  <1> HIDE DEF q, e
  <1>3. \A k \in 1..Len(q) : q[k].id < next /\ (q[k].type = "delete_session" => row[q[k].id] = "absent")
    BY <1>2 DEF IInv, IdsAreFresh
  <1>4. e.type = "delete_session" => row[e.id] = "absent"
    BY <1>2 DEF IInv, IdsAreFresh
  <1>5. \A k \in 1..Len(events) :
          /\ events[k].type = "new_session" => events[k].state \in RowStates
          /\ \/ events[k].state = row[events[k].id]
             \/ \E m \in 1..Len(events) : m > k /\ events[m].id = events[k].id
    BY DEF IInv, Truthful
  <1>6. Truthful(row, q)
    <2> SUFFICES ASSUME NEW k \in 1..Len(q)
                 PROVE  /\ q[k].type = "new_session" => q[k].state \in RowStates
                        /\ \/ q[k].state = row[q[k].id]
                           \/ \E m \in 1..Len(q) : m > k /\ q[m].id = q[k].id
      BY DEF Truthful
    <2>1. PICK j \in 1..Len(events) : j = k + 1 /\ q[k] = events[j]
      BY <1>2
    <2>2. CASE \E m \in 1..Len(events) : m > j /\ events[m].id = events[j].id
      <3>1. PICK m \in 1..Len(events) : m > j /\ events[m].id = events[j].id
        BY <2>2
      <3>2. PICK i \in 1..Len(q) : i = m - 1 /\ q[i] = events[m]
        BY <1>2, <2>1, <3>1
      <3>3. i > k
        BY <2>1, <3>1, <3>2
      <3>4. q[i].id = q[k].id
        BY <2>1, <3>1, <3>2
      <3>. QED  BY <1>5, <2>1, <3>3, <3>4
    <2>. QED  BY <1>5, <2>1, <2>2
  <1>7. e.type = "new_session" => e.state \in RowStates
    BY <1>2, <1>5
  <1>8. e.state = row[e.id] \/ Announced(q, e.id)
    <2>1. CASE \E m \in 1..Len(events) : m > 1 /\ events[m].id = e.id
      <3>1. PICK m \in 1..Len(events) : m > 1 /\ events[m].id = e.id
        BY <2>1
      <3>2. PICK i \in 1..Len(q) : q[i] = events[m]
        BY <1>2, <3>1
      <3>. QED  BY <3>1, <3>2 DEF Announced
    <2>. QED  BY <1>2, <1>5, <2>1
  <1>. QED  BY <1>2, <1>3, <1>4, <1>6, <1>7, <1>8 DEF q, e

LEMMA KnownDequeue ==
  ASSUME NEW rows, NEW q \in Seq(Events), q # <<>>, NEW list, NEW except
  PROVE  /\ Known(rows, q, list, except)
              => Known(rows, Tail(q), list, except \cup {Head(q).id})
         /\ \A start : Complete(rows, q, list, except, start)
              => Complete(rows, Tail(q), list, except \cup {Head(q).id}, start)
  <1>1. \A id : Announced(q, id) => id = Head(q).id \/ Announced(Tail(q), id)
    BY AnnouncedDequeue
  <1>. QED  BY <1>1 DEF Known, Complete

\* What the callback makes of the list.
LEMMA ListAfter ==
  ASSUME IInv, ReceiveEvent
  PROVE  /\ allLoadedSessions' \in Seq(Rows) /\ Distinct(allLoadedSessions')
         /\ Known(row, Tail(events), allLoadedSessions', overtaken')
         /\ sessionList.ok =>
              Complete(row, Tail(events), allLoadedSessions', overtaken', startTime)
         /\ overtaken' \in SUBSET Sessions /\ selectedSessionId' \in Selectable
  <1> DEFINE e == Head(events)
             q == Tail(events)
             prev == allLoadedSessions
             list == allLoadedSessions'
             left == overtaken \cup {e.id}
  <1>1. /\ events # <<>> /\ events \in Seq(Events) /\ prev \in Seq(Rows) /\ Distinct(prev)
        /\ overtaken \in SUBSET Sessions /\ selectedSessionId \in Selectable
        /\ row \in [Sessions -> RowStates \cup {"absent"}]
    BY DEF IInv, TypeOK, ListsDiffer, ReceiveEvent, Selectable
  <1>2. /\ e \in Events /\ (e.type = "new_session" => e.state \in RowStates)
        /\ e.type = "delete_session" => row[e.id] = "absent"
        /\ e.state = row[e.id] \/ Announced(q, e.id)
    BY <1>1, QueueAfter
  <1>3. e.id \in Sessions
    BY <1>2 DEF Events
  <1>4. Known(row, q, prev, left) /\ (sessionList.ok => Complete(row, q, prev, left, startTime))
    BY <1>1, KnownDequeue DEF IInv, RowsAreKnown, NewestAreKnown
  <1>5. Newest(row, startTime) \subseteq Own(row, startTime)
    BY <1>1, NewestIds
  <1>6. CASE e.type = "new_session" /\ e.id \notin Foreign
    <2> DEFINE s == [id |-> e.id, state |-> e.state]
    <2>1. /\ list = MergeSession(prev, s) /\ overtaken' = overtaken \ {e.id}
          /\ selectedSessionId' = AutoSelect(list, selectedSessionId)
      BY <1>6 DEF ReceiveEvent, SetAllLoadedSessions
    <2>2. s \in Rows /\ s.id = e.id /\ s.state = e.state
      BY <1>2, <1>3, <1>6 DEF Rows
    <2> HIDE DEF s, e, q
    <2>3. /\ list \in Seq(Rows) /\ Distinct(list)
          /\ RowsOf(list) = {x \in RowsOf(prev) : x.id # e.id} \cup {s}
      BY <1>1, <2>1, <2>2, MergedSession, SMTT(30)
    <2>4. Known(row, q, list, overtaken')
      BY <1>2, <1>4, <2>1, <2>2, <2>3 DEF Known
    <2>5. IdsOf(list) = (IdsOf(prev) \ {e.id}) \cup {e.id}
      BY <2>2, <2>3, IdsOfRows
    <2>6. sessionList.ok => Complete(row, q, list, overtaken', startTime)
      BY <1>4, <2>1, <2>5 DEF Complete
    <2>7. selectedSessionId' \in Selectable
      BY <1>1, <2>1, <2>3, ListType
    <2>. QED  BY <1>1, <2>1, <2>3, <2>4, <2>6, <2>7 DEF q
  <1>7. CASE e.type = "new_session" /\ e.id \in Foreign
    <2>1. list = prev /\ overtaken' = overtaken /\ selectedSessionId' = selectedSessionId
      BY <1>7 DEF ReceiveEvent
    <2> HIDE DEF e, q
    <2>2. Known(row, q, prev, overtaken)
      <3>1. \A x \in RowsOf(prev) : x.id \notin Foreign
        BY <1>1, ListType DEF Rows
      <3>. QED  BY <1>4, <1>7, <3>1 DEF Known
    <2>3. sessionList.ok => Complete(row, q, prev, overtaken, startTime)
      BY <1>4, <1>5, <1>7 DEF Complete, Own
    <2>. QED  BY <1>1, <2>1, <2>2, <2>3 DEF q
  <1>8. CASE e.type = "delete_session"
    <2> DEFINE current == IF selectedSessionId = e.id THEN NoSession ELSE selectedSessionId
    <2>1. /\ list = RemoveSessions(prev, {e.id}) /\ overtaken' = overtaken \ {e.id}
          /\ selectedSessionId' = AutoSelect(list, current)
      BY <1>8 DEF ReceiveEvent, SetAllLoadedSessions
    <2>2. current \in Selectable
      BY <1>1 DEF Selectable
    <2> HIDE DEF e, q, current
    <2>3. /\ list \in Seq(Rows) /\ Distinct(list)
          /\ RowsOf(list) = {x \in RowsOf(prev) : x.id # e.id}
      BY <1>1, <2>1, RemovedRows
    <2>4. Known(row, q, list, overtaken')
      BY <1>4, <2>1, <2>3 DEF Known
    <2>5. IdsOf(list) = IdsOf(prev) \ {e.id}
      BY <2>3, IdsOfRows
    <2>6. e.id \notin Newest(row, startTime)
      BY <1>2, <1>5, <1>8 DEF Own
    <2>7. sessionList.ok => Complete(row, q, list, overtaken', startTime)
      BY <1>4, <2>1, <2>5, <2>6 DEF Complete
    <2>8. selectedSessionId' \in Selectable
      BY <2>1, <2>2, <2>3, ListType
    <2>. QED  BY <1>1, <2>1, <2>3, <2>4, <2>7, <2>8 DEF q
  <1>9. e.type \in {"new_session", "delete_session"}
    BY <1>2 DEF Events
  <1>. QED  BY <1>6, <1>7, <1>8, <1>9

LEMMA StepReceiveEvent ==
  ASSUME IInv, ReceiveEvent
  PROVE  IInv'
  <1> DEFINE e == Head(events)
             q == Tail(events)
             Behind(r) == IF r.answer.ok THEN [r EXCEPT !.behind = @ \cup {e.id}] ELSE r
  <1>1. /\ events # <<>> /\ events \in Seq(Events) /\ requests \in SUBSET Requests
    BY DEF IInv, TypeOK, ReceiveEvent
  <1>2. /\ events' = q /\ requests' = {Behind(r) : r \in requests}
        /\ UNCHANGED <<row, next, params, sessionList, isLoadingMore, loads, failures>>
    BY DEF ReceiveEvent
  <1>3. /\ allLoadedSessions' \in Seq(Rows) /\ Distinct(allLoadedSessions')
        /\ Known(row, q, allLoadedSessions', overtaken')
        /\ sessionList.ok => Complete(row, q, allLoadedSessions', overtaken', startTime)
        /\ overtaken' \in SUBSET Sessions /\ selectedSessionId' \in Selectable
    BY ListAfter
  <1>4. /\ e \in Events /\ q \in Seq(Events) /\ Truthful(row, q)
        /\ \A k \in 1..Len(q) :
             /\ q[k].id < next
             /\ q[k].type = "delete_session" => row[q[k].id] = "absent"
    BY <1>1, QueueAfter
  <1>5. \A list, except, start :
          /\ Known(row, events, list, except) => Known(row, q, list, except \cup {e.id})
          /\ Complete(row, events, list, except, start)
               => Complete(row, q, list, except \cup {e.id}, start)
    BY <1>1, KnownDequeue
  <1>6. e.id \in Sessions
    BY <1>4 DEF Events
  <1> HIDE DEF e, q
  <1>7. ASSUME NEW r \in requests
        PROVE  /\ Behind(r) \in Requests /\ Behind(r).answer = r.answer
               /\ Behind(r).start = r.start /\ Behind(r).offset = r.offset
               /\ r.answer.ok => Behind(r).behind = r.behind \cup {e.id}
    <2>1. r \in Requests
      BY <1>1
    <2>2. r.behind \cup {e.id} \in SUBSET Sessions
      BY <1>6, <2>1 DEF Requests
    <2>. QED  BY <2>1, <2>2 DEF Requests
  <1> HIDE DEF Behind
  <1>8. TypeOK'
    <2>1. requests' \in SUBSET Requests
      BY <1>2, <1>7
    <2>. QED  BY <1>2, <1>3, <1>4, <2>1 DEF IInv, TypeOK, params, Selectable
  <1>9. ListsDiffer'
    BY <1>2, <1>3, <1>7 DEF IInv, ListsDiffer
  <1>10. IdsAreFresh' /\ Truthful(row', events')
    BY <1>2, <1>4 DEF IInv, IdsAreFresh
  <1>11. RowsAreKnown'
    <2>1. ASSUME NEW r \in requests, r.answer.ok
          PROVE  Known(row, q, r.answer.sessions, r.behind \cup {e.id})
      BY <1>5, <2>1 DEF IInv, RowsAreKnown
    <2>. QED  BY <1>2, <1>3, <1>7, <2>1 DEF RowsAreKnown
  <1>12. NewestAreKnown'
    <2>1. ASSUME NEW r \in requests, r.answer.ok, r.offset = 0
          PROVE  Complete(row, q, r.answer.sessions, r.behind \cup {e.id}, r.start)
      <3>1. Complete(row, events, r.answer.sessions, r.behind, r.start)
        BY <2>1 DEF IInv, NewestAreKnown
      <3>. QED  BY <1>5, <3>1
    <2>2. ASSUME NEW r \in requests, r.answer.ok, r.offset = 0
          PROVE  Complete(row, q, r.answer.sessions, Behind(r).behind, r.start)
      <3>1. Behind(r).behind = r.behind \cup {e.id}
        BY <1>7, <2>2
      <3>. QED  BY <2>1, <2>2, <3>1
    <2>3. sessionList'.ok => Complete(row, q, allLoadedSessions', overtaken', startTime')
      BY <1>2, <1>3 DEF params
    <2>. QED  BY <1>2, <1>7, <2>2, <2>3 DEF NewestAreKnown
  <1>13. RequestsAreOfThePage'
    BY <1>2, <1>7 DEF IInv, RequestsAreOfThePage, params
  <1>. QED  BY <1>8, <1>9, <1>10, <1>11, <1>12, <1>13 DEF IInv

LEMMA StepClick ==
  ASSUME IInv, NEW id \in Sessions, Click(id)
  PROVE  IInv'
  <1>1. /\ selectedSessionId' \in IdsOf(allLoadedSessions)
        /\ UNCHANGED <<server, requests, params, sessionList, allLoadedSessions,
                       isLoadingMore, loads, failures, overtaken>>
    BY DEF Click
  <1>2. TypeOK'
    <2>1. IdsOf(allLoadedSessions) \subseteq Sessions \ Foreign
      BY ListType DEF IInv, TypeOK
    <2>. QED  BY <1>1, <2>1 DEF IInv, TypeOK, server, params
  <1>3. ListsDiffer' /\ IdsAreFresh' /\ Truthful(row', events') /\ RowsAreKnown'
    BY <1>1 DEF IInv, ListsDiffer, IdsAreFresh, RowsAreKnown, server
  <1>4. NewestAreKnown' /\ RequestsAreOfThePage'
    BY <1>1 DEF IInv, NewestAreKnown, RequestsAreOfThePage, server, params
  <1>. QED  BY <1>2, <1>3, <1>4 DEF IInv

\* A request more for a page that is not the first, or that is where the page is.
LEMMA Loaded ==
  ASSUME IInv, NEW off \in Nat, Load(off)
  PROVE  /\ loads' \in Nat /\ requests' \in SUBSET Requests
         /\ \A r \in requests' : r \in requests \/ ( /\ r.start = startTime /\ r.offset = off
                                                     /\ r.answer = NoAnswer )
  <1>1. loads \in Nat /\ requests \in SUBSET Requests /\ startTime \in Nat
    BY DEF IInv, TypeOK
  <1>2. loads' = loads + 1 /\ requests' = requests \cup {Request(startTime, off)}
    BY DEF Load
  <1>3. loads' \in Nat
    BY <1>1, <1>2
  <1>4. /\ Request(startTime, off) \in Requests /\ Request(startTime, off).start = startTime
        /\ Request(startTime, off).offset = off /\ Request(startTime, off).answer = NoAnswer
    BY <1>1, RequestType
  <1>. QED  BY <1>1, <1>2, <1>3, <1>4

LEMMA StepLoadMore ==
  ASSUME IInv, LoadMore
  PROVE  IInv'
  <1> DEFINE prev == allLoadedSessions
             page == sessionList.sessions
             off == offset + Limit
             list == MergePage(prev, page, off)
             left == overtaken \cup (IdsOf(page) \ IdsOf(prev))
  <1>1. /\ prev \in Seq(Rows) /\ page \in Seq(Rows) /\ overtaken \in SUBSET Sessions
        /\ selectedSessionId \in Selectable /\ sessionList.ok
    BY DEF IInv, TypeOK, Answers, Selectable, LoadMore, CanLoadMore, HasMore
  <1>2. off \in Nat /\ off # 0
    <2>1. offset \in Nat /\ Limit \in Nat \ {0}
      BY RecentPageAssumption DEF IInv, TypeOK
    <2>. QED  BY <2>1
  <1>3. /\ offset' = off /\ Load(off) /\ allLoadedSessions' = list
        /\ selectedSessionId' = AutoSelect(list, selectedSessionId)
        /\ isLoadingMore' = FALSE /\ overtaken' = left
        /\ UNCHANGED <<server, startTime, filter, sessionList, failures>>
    BY DEF LoadMore, SetAllLoadedSessions
  <1> HIDE DEF off
  <1>4. /\ loads' \in Nat /\ requests' \in SUBSET Requests
        /\ \A r \in requests' : r \in requests \/ ( /\ r.start = startTime /\ r.offset = off
                                                    /\ r.answer = NoAnswer )
    BY <1>2, <1>3, Loaded
  <1>5. list \in Seq(Rows) /\ Distinct(list)
        /\ Known(row, events, list, left) /\ Complete(row, events, list, left, startTime)
    <2>1. Distinct(prev) /\ Distinct(page)
      BY DEF IInv, ListsDiffer
    <2>2. Known(row, events, prev, overtaken) /\ Known(row, events, page, IdsOf(page))
      BY <1>1, IdsOfRows DEF IInv, RowsAreKnown, Known
    <2>3. Complete(row, events, prev, overtaken, startTime)
      BY <1>1 DEF IInv, NewestAreKnown
    <2> HIDE DEF prev, page
    <2>. QED  BY <1>1, <1>2, <2>1, <2>2, <2>3, Merged
  <1>6. left \in SUBSET Sessions
    BY <1>1, ListType
  <1> HIDE DEF list, left
  <1>7. TypeOK'
    <2>1. AutoSelect(list, selectedSessionId) \in Selectable
      BY <1>1, <1>5, ListType
    <2>2. isLoadingMore' \in BOOLEAN
      BY <1>3
    <2>. QED  BY <1>2, <1>3, <1>4, <1>5, <1>6, <2>1, <2>2 DEF IInv, TypeOK, server, Selectable
  <1>8. ListsDiffer'
    BY <1>3, <1>4, <1>5, NoAnswerType, NoRows DEF IInv, ListsDiffer
  <1>9. IdsAreFresh' /\ Truthful(row', events')
    BY <1>3 DEF IInv, IdsAreFresh, server
  <1>10. RowsAreKnown'
    BY <1>3, <1>4, <1>5, NoAnswerType DEF IInv, RowsAreKnown, server
  <1>11. NewestAreKnown'
    BY <1>3, <1>4, <1>5, NoAnswerType DEF IInv, NewestAreKnown, server
  <1>12. RequestsAreOfThePage'
    BY <1>1, <1>2, <1>3, <1>4 DEF IInv, RequestsAreOfThePage
  <1>. QED  BY <1>7, <1>8, <1>9, <1>10, <1>11, <1>12 DEF IInv

LEMMA StepSetFilter ==
  ASSUME IInv, NEW f \in Filters, SetFilter(f)
  PROVE  IInv'
  <1>1. /\ filter' = f /\ Load(offset)
        /\ UNCHANGED <<server, startTime, offset, sessionList, shown, failures, overtaken>>
    BY DEF SetFilter
  <1>2. offset \in Nat
    BY DEF IInv, TypeOK
  <1>3. /\ loads' \in Nat /\ requests' \in SUBSET Requests
        /\ \A r \in requests' : r \in requests \/ ( /\ r.start = startTime /\ r.offset = offset
                                                    /\ r.answer = NoAnswer )
    BY <1>1, <1>2, Loaded
  <1>4. TypeOK'
    BY <1>1, <1>3 DEF IInv, TypeOK, server, shown
  <1>5. ListsDiffer'
    BY <1>1, <1>3, NoAnswerType, NoRows DEF IInv, ListsDiffer, shown
  <1>6. IdsAreFresh' /\ Truthful(row', events')
    BY <1>1 DEF IInv, IdsAreFresh, server
  <1>7. RowsAreKnown'
    BY <1>1, <1>3, NoAnswerType DEF IInv, RowsAreKnown, server, shown
  <1>8. NewestAreKnown'
    BY <1>1, <1>3, NoAnswerType DEF IInv, NewestAreKnown, server, shown
  <1>9. RequestsAreOfThePage'
    BY <1>1, <1>3 DEF IInv, RequestsAreOfThePage
  <1>. QED  BY <1>4, <1>5, <1>6, <1>7, <1>8, <1>9 DEF IInv

LEMMA StepSetTimeRange ==
  ASSUME IInv, NEW t \in Starts, SetTimeRange(t)
  PROVE  IInv'
  <1>1. /\ loads' = loads + 1 /\ startTime' = t /\ offset' = 0 /\ requests' = {Request(t, 0)}
        /\ sessionList' = NoAnswer /\ allLoadedSessions' = <<>>
        /\ selectedSessionId' = NoSession /\ isLoadingMore' = FALSE /\ overtaken' = {}
        /\ UNCHANGED <<server, filter, failures>>
    BY DEF SetTimeRange
  <1>2. t \in Nat /\ 0 \in Nat /\ loads \in Nat
    BY RecentPageAssumption DEF IInv, TypeOK
  <1>3. /\ Request(t, 0) \in Requests /\ Request(t, 0).start = t /\ Request(t, 0).offset = 0
        /\ Request(t, 0).answer = NoAnswer
    BY <1>2, RequestType
  <1>4. TypeOK'
    <2>1. loads' \in Nat
      BY <1>1, <1>2
    <2>2. requests' \in SUBSET Requests /\ isLoadingMore' \in BOOLEAN /\ offset' \in Nat
      BY <1>1, <1>3
    <2>3. allLoadedSessions' \in Seq(Rows) /\ sessionList' \in Answers
      BY <1>1, NoRows, NoAnswerType
    <2>. QED  BY <1>1, <1>2, <2>1, <2>2, <2>3 DEF IInv, TypeOK, server
  <1>5. ListsDiffer'
    BY <1>1, <1>3, NoAnswerType, NoRows DEF ListsDiffer
  <1>6. IdsAreFresh' /\ Truthful(row', events')
    BY <1>1 DEF IInv, IdsAreFresh, server
  <1>7. RowsAreKnown'
    BY <1>1, <1>3, NoAnswerType, NoRows DEF RowsAreKnown, Known
  <1>8. NewestAreKnown'
    BY <1>1, <1>3, NoAnswerType DEF NewestAreKnown
  <1>9. RequestsAreOfThePage'
    BY <1>1, <1>3 DEF RequestsAreOfThePage
  <1>. QED  BY <1>4, <1>5, <1>6, <1>7, <1>8, <1>9 DEF IInv

-----------------------------------------------------------------------------
(* What the page does at every step keeps the invariant, and the theorems. *)

LEMMA Initially == Init => IInv
  <1> SUFFICES ASSUME Init
               PROVE  IInv
    OBVIOUS
  <1>1. /\ row = [s \in Sessions |-> "absent"] /\ filter = ""
        /\ sessionList = NoAnswer /\ allLoadedSessions = <<>>
        /\ isLoadingMore = FALSE /\ overtaken = {}
    BY DEF Init
  <1>2. /\ next = 1 /\ startTime = 1 /\ offset = 0 /\ loads = 1 /\ failures = 0
        /\ selectedSessionId = NoSession
    BY DEF Init
  <1>3. events = <<>>
    BY DEF Init
  <1>4. PICK r \in Requests : /\ requests = {r} /\ r.start = 1 /\ r.offset = 0
                              /\ r.answer = NoAnswer
    <2> DEFINE r == [n |-> 1, start |-> 1, offset |-> 0, answer |-> NoAnswer, behind |-> {}]
    <2>1. r \in Requests
      BY NoAnswerType DEF Requests
    <2>2. r.start = 1 /\ r.offset = 0 /\ r.answer = NoAnswer /\ requests = {r}
      BY DEF Init
    <2>. QED  BY <2>1, <2>2
  <1>5. TypeOK
    <2>1. row \in [Sessions -> RowStates \cup {"absent"}] /\ requests \in SUBSET Requests
      BY <1>1, <1>4
    <2>2. next \in Nat \ {0} /\ startTime \in Nat /\ offset \in Nat /\ loads \in Nat /\ failures \in Nat
      BY <1>2
    <2>3. events \in Seq(Events)
      BY <1>3
    <2>4. allLoadedSessions \in Seq(Rows) /\ sessionList \in Answers
      BY <1>1, NoRows, NoAnswerType
    <2>. QED  BY <1>2, <1>1, <2>1, <2>2, <2>3, <2>4 DEF TypeOK
  <1>6. ListsDiffer
    BY <1>1, <1>4, NoAnswerType, NoRows DEF ListsDiffer
  <1>7. IdsAreFresh /\ Truthful(row, events)
    <2>1. \A k : k \notin 1..Len(events)
      BY <1>3
    <2>. QED  BY <1>1, <2>1 DEF IdsAreFresh, Truthful
  <1>8. RowsAreKnown
    BY <1>1, <1>4, NoAnswerType, NoRows DEF RowsAreKnown, Known
  <1>9. NewestAreKnown
    BY <1>1, <1>4, NoAnswerType DEF NewestAreKnown
  <1>10. RequestsAreOfThePage
    BY <1>2, <1>4 DEF RequestsAreOfThePage
  <1>. QED  BY <1>5, <1>6, <1>7, <1>8, <1>9, <1>10 DEF IInv

LEMMA Stuttering ==
  ASSUME IInv, UNCHANGED vars
  PROVE  IInv'
  <1>1. TypeOK' /\ ListsDiffer' /\ IdsAreFresh' /\ Truthful(row', events')
    BY DEF IInv, TypeOK, ListsDiffer, IdsAreFresh, vars
  <1>2. RowsAreKnown' /\ NewestAreKnown' /\ RequestsAreOfThePage'
    BY DEF IInv, RowsAreKnown, NewestAreKnown, RequestsAreOfThePage, vars
  <1>. QED  BY <1>1, <1>2 DEF IInv

\* IInv holds in every state of every behaviour of the page.
THEOREM Inductive == Spec => []IInv
<1>1. Init => IInv
  BY Initially
<1>2. IInv /\ [Next]_vars => IInv'
  <2> SUFFICES ASSUME IInv, [Next]_vars
               PROVE  IInv'
    OBVIOUS
  <2>1. CASE StartSession
    BY <2>1, StepStart
  <2>2. ASSUME NEW s \in Sessions, FinishSession(s) \/ DeleteSession(s) \/ Click(s)
        PROVE  IInv'
    BY <2>2, StepFinish, StepDelete, StepClick
  <2>3. ASSUME NEW r \in requests, Answer(r) \/ Fail(r) \/ ReceiveAnswer(r)
        PROVE  IInv'
    BY <2>3, StepAnswer, StepFail, StepReceiveAnswer
  <2>4. CASE ReceiveEvent
    BY <2>4, StepReceiveEvent
  <2>5. CASE LoadMore
    BY <2>5, StepLoadMore
  <2>6. ASSUME NEW f \in Filters, SetFilter(f)
        PROVE  IInv'
    BY <2>6, StepSetFilter
  <2>7. ASSUME NEW t \in Starts, SetTimeRange(t)
        PROVE  IInv'
    BY <2>7, StepSetTimeRange
  <2>8. CASE UNCHANGED vars
    BY <2>8, Stuttering
  <2>. QED  BY <2>1, <2>2, <2>3, <2>4, <2>5, <2>6, <2>7, <2>8 DEF Next
<1>. QED  BY <1>1, <1>2, PTL DEF Spec

\* Every variable of the page has its type.
THEOREM TypeCorrect == Spec => []TypeOK
<1>1. IInv => TypeOK
  BY DEF IInv
<1>. QED  BY <1>1, Inductive, PTL

\* ListFollowsTable: whatever the order in which answers and events arrive,
\* nothing of another configuration is listed or selected, and once nothing is on
\* its way the list has the rows of the table, and the newest of them, except
\* what is known to be overtaken (recent/page.tsx).
THEOREM ListTruth == Spec => []ListFollowsTable
<1>1. IInv => ListFollowsTable
  <2> SUFFICES ASSUME IInv
               PROVE  ListFollowsTable
    OBVIOUS
  <2>1. /\ allLoadedSessions \in Seq(Rows) /\ selectedSessionId \in Selectable
        /\ row \in [Sessions -> RowStates \cup {"absent"}]
    BY DEF IInv, TypeOK, Selectable
  <2>2. (IdsOf(allLoadedSessions) \cup {selectedSessionId}) \cap Foreign = {}
    <3>1. NoSession \notin Foreign
      <4>1. 0 \notin 1..MaxSessions
        BY RecentPageAssumption
      <4>. QED  BY <4>1, RecentPageAssumption DEF NoSession
    <3>. QED  BY <2>1, <3>1, ListType DEF Selectable
  <2>3. ASSUME Quiet
        PROVE  /\ \A i \in DOMAIN allLoadedSessions :
                    LET s == allLoadedSessions[i] IN s.id \in overtaken \/ row[s.id] = s.state
               /\ sessionList.ok =>
                    LET newest == PageOf(row, InRange, 0, Limit)
                    IN  IdsOf(newest) \subseteq IdsOf(allLoadedSessions) \cup overtaken
    <3>1. \A id : ~Announced(events, id)
      <4>1. \A k : k \notin 1..Len(events)
        BY <2>3 DEF Quiet
      <4>. QED  BY <4>1 DEF Announced
    <3>2. \A x \in RowsOf(allLoadedSessions) : x.id \in overtaken \/ row[x.id] = x.state
      BY <3>1 DEF IInv, RowsAreKnown, Known
    <3>3. \A i \in DOMAIN allLoadedSessions : allLoadedSessions[i] \in RowsOf(allLoadedSessions)
      BY DEF RowsOf
    <3>4. InRange = Own(row, startTime)
      BY DEF InRange, Present, Own
    <3>5. sessionList.ok => Newest(row, startTime) \subseteq IdsOf(allLoadedSessions) \cup overtaken
      BY <3>1 DEF IInv, NewestAreKnown, Complete
    <3>. QED  BY <3>2, <3>3, <3>4, <3>5 DEF Newest
  <2>. QED  BY <2>2, <2>3 DEF ListFollowsTable
<1>. QED  BY <1>1, Inductive, PTL

-----------------------------------------------------------------------------
(* The page implements the list its user is promised.                      *)

\* The effect on the list keeps the selection of a listed session.
LEMMA SelectionKept ==
  ASSUME NEW list, SetAllLoadedSessions(list, selectedSessionId), Distinct(allLoadedSessions')
  PROVE  L!Change
  <1>1. allLoadedSessions' = list /\ selectedSessionId' = AutoSelect(list, selectedSessionId)
    BY DEF SetAllLoadedSessions
  <1>2. L!Ids' = IdsOf(list)
    BY <1>1 DEF L!Ids, IdsOf
  <1>. QED  BY <1>1, <1>2 DEF L!Change, AutoSelect, Distinct

LEMMA EventKeepsSelection ==
  ASSUME IInv, ReceiveEvent, Distinct(allLoadedSessions')
  PROVE  L!Change \/ UNCHANGED <<allLoadedSessions, selectedSessionId>>
  <1> DEFINE e == Head(events)
             list == RemoveSessions(allLoadedSessions, {e.id})
             current == IF selectedSessionId = e.id THEN NoSession ELSE selectedSessionId
  <1>1. CASE SetAllLoadedSessions(list, current)
    <2>1. list \in Seq(Rows) /\ RowsOf(list) = {x \in RowsOf(allLoadedSessions) : x.id \notin {e.id}}
      <3>1. allLoadedSessions \in Seq(Rows)
        BY DEF IInv, TypeOK
      <3> HIDE DEF e
      <3>. QED  BY <3>1, RemovedRows
    <2>2. e.id \notin IdsOf(list)
      BY <2>1, IdsOfRows
    <2>3. NoSession \notin IdsOf(list)
      <3>1. NoSession \notin Sessions
        BY RecentPageAssumption DEF NoSession, Sessions
      <3>. QED  BY <2>1, <3>1, ListType
    <2> HIDE DEF list, e
    <2>4. allLoadedSessions' = list /\ selectedSessionId' = AutoSelect(list, current)
      BY <1>1 DEF SetAllLoadedSessions
    <2>5. L!Ids' = IdsOf(list)
      BY <2>4 DEF L!Ids, IdsOf
    <2>6. L!NoSession = NoSession
      BY DEF L!NoSession, NoSession
    <2>. QED  BY <2>2, <2>3, <2>4, <2>5, <2>6 DEF L!Change, AutoSelect, Distinct
  <1>2. CASE \E sessions : SetAllLoadedSessions(sessions, selectedSessionId)
    BY <1>2, SelectionKept
  <1>3. CASE UNCHANGED <<allLoadedSessions, selectedSessionId>>
    BY <1>3
  <1>. QED  BY <1>1, <1>2, <1>3 DEF ReceiveEvent

\* ImplementsSelectableList: whatever answers and events arrive, no session is
\* listed twice and the user's choice stays selected for as long as it is listed
\* (the effects on the list of recent/page.tsx).
THEOREM Refinement == Spec => ImplementsSelectableList
<1>1. Init => L!Init
  BY DEF Init, L!Init, L!NoSession, NoSession
<1>2. IInv /\ IInv' /\ [Next]_vars
        => [L!Change \/ L!Click]_<<allLoadedSessions, selectedSessionId>>
  <2> SUFFICES ASSUME IInv, IInv', [Next]_vars
               PROVE  \/ L!Change \/ L!Click
                      \/ UNCHANGED <<allLoadedSessions, selectedSessionId>>
    OBVIOUS
  <2>1. Distinct(allLoadedSessions')
    BY DEF IInv, ListsDiffer
  <2>2. CASE StartSession
    BY <2>2 DEF StartSession, shown
  <2>3. ASSUME NEW s \in Sessions, FinishSession(s) \/ DeleteSession(s)
        PROVE  UNCHANGED <<allLoadedSessions, selectedSessionId>>
    BY <2>3 DEF FinishSession, DeleteSession, shown
  <2>4. ASSUME NEW s \in Sessions, Click(s)
        PROVE  L!Click
    BY <2>4 DEF Click, L!Click, L!Ids, IdsOf
  <2>5. ASSUME NEW r \in requests, Answer(r) \/ Fail(r)
        PROVE  UNCHANGED <<allLoadedSessions, selectedSessionId>>
    BY <2>5 DEF Answer, Fail, shown
  <2>6. ASSUME NEW r \in requests, ReceiveAnswer(r)
        PROVE  L!Change
    BY <2>1, <2>6, SelectionKept DEF ReceiveAnswer
  <2>7. CASE ReceiveEvent
    BY <2>1, <2>7, EventKeepsSelection
  <2>8. CASE LoadMore
    BY <2>1, <2>8, SelectionKept DEF LoadMore
  <2>9. ASSUME NEW f \in Filters, SetFilter(f)
        PROVE  UNCHANGED <<allLoadedSessions, selectedSessionId>>
    BY <2>9 DEF SetFilter, shown
  <2>10. ASSUME NEW t \in Starts, SetTimeRange(t)
         PROVE  L!Change
    <3>1. allLoadedSessions' = <<>> /\ selectedSessionId' = NoSession
      BY <2>10 DEF SetTimeRange
    <3>. QED  BY <2>1, <3>1 DEF L!Change, L!NoSession, NoSession, Distinct
  <2>11. CASE UNCHANGED vars
    BY <2>11 DEF vars, shown
  <2>. QED  BY <2>2, <2>3, <2>4, <2>5, <2>6, <2>7, <2>8, <2>9, <2>10, <2>11 DEF Next
<1>. QED  BY <1>1, <1>2, Inductive, PTL DEF Spec, L!Spec, ImplementsSelectableList
=============================================================================
