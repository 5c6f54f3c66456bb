----------------------------- MODULE RecentPage -----------------------------
(***************************************************************************)
(* The page of live traffic of one configuration (recent/page.tsx,         *)
(* with-configs-recent.tsx, session-list.tsx): a list loaded page by page  *)
(* over HTTP and kept up to date by the events of the "sessions" topic,    *)
(* which come over another connection and in no order with the answers.    *)
(*                                                                         *)
(* A handler is one action with everything React does before it handles    *)
(* the next event: the render and the effects whose dependencies changed.  *)
(* The server is what SessionLog and UiConnection promise: every change of *)
(* a row is announced, and the events arrive in their order.               *)
(***************************************************************************)
EXTENDS SessionLists

CONSTANTS
  MaxSessions,  \* sessions the proxies record
  Foreign,      \* those of another configuration
  Limit,        \* rows of a page of the list
  Starts,       \* start times: the ids of the first sessions they include
  Filters,      \* values of the method and status filters
  MaxLoads,     \* bound on the requests sent
  MaxFailures   \* bound on the requests that fail

ASSUME RecentPageAssumption ==
  /\ MaxSessions \in Nat /\ Foreign \subseteq 1..MaxSessions
  /\ Limit \in Nat \ {0} /\ Starts \subseteq Nat /\ 1 \in Starts
  /\ MaxLoads \in Nat /\ MaxFailures \in Nat

Sessions == 1..MaxSessions

VARIABLES
  row,            \* the table: "absent", "pending" or "finished"
  next,           \* the next session's id
  events,         \* messages of the topic on their way
  requests,       \* requests of this page on their way
  startTime, filter, offset,
  sessionList,    \* the last answer; ok is false before the first one
  allLoadedSessions, selectedSessionId, isLoadingMore,
  loads, failures,
  overtaken       \* history: sessions whose row in the list may be out of date

vars == <<row, next, events, requests, startTime, filter, offset, sessionList,
          allLoadedSessions, selectedSessionId, isLoadingMore,
          loads, failures, overtaken>>

server == <<row, next, events>>
params == <<startTime, filter, offset>>
shown == <<allLoadedSessions, selectedSessionId, isLoadingMore>>

Present == {s \in Sessions : row[s] # "absent"}
InRange == {s \in Present \ Foreign : s >= startTime}

NoAnswer == [ok |-> FALSE, sessions |-> <<>>]

\* The effect that loads: the request of these parameters. behind is history,
\* the sessions an event announced after the server read the answer.
Request(start, off) ==
  [n |-> loads + 1, start |-> start, offset |-> off, answer |-> NoAnswer, behind |-> {}]

\* The parameters of the request change: the effect sends a new one. Nothing
\* cancels those on their way.
Load(off) ==
  /\ loads < MaxLoads /\ loads' = loads + 1
  /\ requests' = requests \cup {Request(startTime, off)}

Init ==
  /\ row = [s \in Sessions |-> "absent"] /\ next = 1
  /\ events = <<>>
  /\ startTime = 1 /\ filter = "" /\ offset = 0
  /\ requests = {[n |-> 1, start |-> 1, offset |-> 0, answer |-> NoAnswer, behind |-> {}]}
  /\ sessionList = NoAnswer
  /\ allLoadedSessions = <<>> /\ selectedSessionId = NoSession
  /\ isLoadingMore = FALSE
  /\ loads = 1 /\ failures = 0
  /\ overtaken = {}

-----------------------------------------------------------------------------
(* The server.                                                             *)

StartSession ==
  /\ next <= MaxSessions
  /\ next' = next + 1
  /\ row' = [row EXCEPT ![next] = "pending"]
  /\ events' = Append(events, [type |-> "new_session", id |-> next, state |-> "pending"])
  /\ UNCHANGED <<requests, params, sessionList, shown, loads, failures, overtaken>>

FinishSession(s) ==
  /\ row[s] = "pending"
  /\ row' = [row EXCEPT ![s] = "finished"]
  /\ events' = Append(events, [type |-> "new_session", id |-> s, state |-> "finished"])
  /\ UNCHANGED <<next, requests, params, sessionList, shown, loads, failures, overtaken>>

\* The reaper deletes the oldest finished session.
DeleteSession(s) ==
  /\ row[s] = "finished" /\ \A o \in Present : s <= o
  /\ row' = [row EXCEPT ![s] = "absent"]
  /\ events' = Append(events, [type |-> "delete_session", id |-> s, state |-> "absent"])
  /\ UNCHANGED <<next, requests, params, sessionList, shown, loads, failures, overtaken>>

\* handleRecentSessions: the filters are no parameter of the query.
Answer(r) ==
  /\ ~r.answer.ok
  /\ LET ids == {s \in Present \ Foreign : s >= r.start}
         answered == [r EXCEPT !.answer = [ok |-> TRUE, sessions |-> PageOf(row, ids, r.offset, Limit)]]
     IN  requests' = (requests \ {r}) \cup {answered}
  /\ UNCHANGED <<server, params, sessionList, shown, loads, failures, overtaken>>

\* The promise is rejected; nobody handles that.
Fail(r) ==
  /\ failures < MaxFailures /\ failures' = failures + 1
  /\ requests' = requests \ {r}
  /\ UNCHANGED <<server, params, sessionList, shown, loads, overtaken>>

-----------------------------------------------------------------------------
(* The page.                                                               *)

\* The effects on the list: the first row is selected if the selected is gone.
SetAllLoadedSessions(list, current) ==
  /\ allLoadedSessions' = list
  /\ selectedSessionId' = AutoSelect(list, current)

\* An answer arrives and is merged with the offset the page has by now.
ReceiveAnswer(r) ==
  /\ r.answer.ok
  /\ requests' = requests \ {r}
  /\ sessionList' = r.answer
  /\ SetAllLoadedSessions(MergePage(allLoadedSessions, r.answer.sessions, offset), selectedSessionId)
  /\ isLoadingMore' = FALSE
  /\ overtaken' = IF offset = 0 THEN r.behind
                  ELSE overtaken \cup (r.behind \ IdsOf(allLoadedSessions))
  /\ UNCHANGED <<server, params, loads, failures>>

\* The callback of useSubscription.
ReceiveEvent ==
  LET e == Head(events)
  IN  /\ events # <<>>
      /\ events' = Tail(events)
      /\ \/ /\ e.type = "new_session" /\ e.id \notin Foreign
            /\ SetAllLoadedSessions(
                 MergeSession(allLoadedSessions, [id |-> e.id, state |-> e.state]), selectedSessionId)
            /\ overtaken' = overtaken \ {e.id}
         \/ /\ e.type = "new_session" /\ e.id \in Foreign
            /\ UNCHANGED <<allLoadedSessions, selectedSessionId, overtaken>>
         \/ /\ e.type = "delete_session"
            /\ SetAllLoadedSessions(RemoveSessions(allLoadedSessions, {e.id}),
                 IF selectedSessionId = e.id THEN NoSession ELSE selectedSessionId)
            /\ overtaken' = overtaken \ {e.id}
      /\ requests' = {IF r.answer.ok THEN [r EXCEPT !.behind = @ \cup {e.id}] ELSE r : r \in requests}
      /\ UNCHANGED <<row, next, params, sessionList, isLoadingMore, loads, failures>>

\* The user clicks a row.
Click(id) ==
  /\ id \in IdsOf(allLoadedSessions)
  /\ selectedSessionId' = id
  /\ UNCHANGED <<server, requests, params, sessionList, allLoadedSessions,
                 isLoadingMore, loads, failures, overtaken>>

\* The "Load More" button.
HasMore == sessionList.ok /\ Len(sessionList.sessions) = Limit
CanLoadMore == HasMore /\ ~isLoadingMore

\* A mutant of LoadMore: the list is emptied for the next page.
LoadMoreReplacing ==
  /\ CanLoadMore
  /\ offset' = offset + Limit
  /\ Load(offset')
  /\ isLoadingMore' = TRUE
  /\ SetAllLoadedSessions(<<>>, selectedSessionId)
  /\ UNCHANGED <<server, startTime, filter, sessionList, failures, overtaken>>

\* The offset is a dependency of the effect that merges: the last answer is
\* merged again, and isLoadingMore is reset before the request was answered.
LoadMore ==
  /\ CanLoadMore
  /\ offset' = offset + Limit
  /\ Load(offset')
  /\ SetAllLoadedSessions(MergePage(allLoadedSessions, sessionList.sessions, offset'), selectedSessionId)
  /\ isLoadingMore' = FALSE
  /\ overtaken' = overtaken \cup (IdsOf(sessionList.sessions) \ IdsOf(allLoadedSessions))
  /\ UNCHANGED <<server, startTime, filter, sessionList, failures>>

\* A filter is chosen or cleared: the list is loaded again, at the offset it
\* has. A failed load leaves everything as it was.
SetFilter(f) ==
  /\ f # filter
  /\ filter' = f
  /\ Load(offset)
  /\ UNCHANGED <<server, startTime, offset, sessionList, shown, failures, overtaken>>

\* The start time is part of the key of the component: it is mounted anew, and
\* the answers to its predecessor go nowhere.
SetTimeRange(start) ==
  /\ start # startTime
  /\ loads < MaxLoads /\ loads' = loads + 1
  /\ startTime' = start /\ offset' = 0
  /\ requests' = {Request(start, 0)}
  /\ sessionList' = NoAnswer
  /\ allLoadedSessions' = <<>> /\ selectedSessionId' = NoSession
  /\ isLoadingMore' = FALSE
  /\ overtaken' = {}
  /\ UNCHANGED <<server, filter, failures>>

-----------------------------------------------------------------------------
Next ==
  \/ StartSession
  \/ \E s \in Sessions : FinishSession(s) \/ DeleteSession(s) \/ Click(s)
  \/ \E r \in requests : Answer(r) \/ Fail(r) \/ ReceiveAnswer(r)
  \/ ReceiveEvent \/ LoadMore
  \/ \E f \in Filters : SetFilter(f)
  \/ \E t \in Starts : SetTimeRange(t)

Spec == Init /\ [][Next]_vars

-----------------------------------------------------------------------------
(* Correctness.                                                            *)

Quiet == events = <<>> /\ requests = {}

\* Sessions of other configurations are never listed or selected, and what the
\* user sees once nothing is on its way is the table: every listed session is
\* there in the state it has, and the newest page is complete. The exceptions are
\* the sessions an event announced between the moment the server read an answer
\* and the moment it replaced the list, and those a "Load More" brought back.
ListFollowsTable ==
  /\ (IdsOf(allLoadedSessions) \cup {selectedSessionId}) \cap Foreign = {}
  /\ Quiet =>
       /\ \A i \in DOMAIN allLoadedSessions :
            LET s == allLoadedSessions[i] IN s.id \in overtaken \/ row[s.id] = s.state
       /\ sessionList.ok =>
            LET newest == PageOf(row, InRange, 0, Limit)
            IN  IdsOf(newest) \subseteq IdsOf(allLoadedSessions) \cup overtaken

\* The list keeps its promise to the user (SelectableList), whatever answers
\* and events arrive in whatever order.
L == INSTANCE SelectableList WITH list <- allLoadedSessions, selected <- selectedSessionId
ImplementsSelectableList == L!Spec
=============================================================================
