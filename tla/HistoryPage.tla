---------------------------- MODULE HistoryPage ----------------------------
(***************************************************************************)
(* The page of past traffic (history/page.tsx, with-configs-history.tsx,   *)
(* session-list.tsx, use-debounced.ts): the list of a configuration under  *)
(* search, filters and dates, loaded page by page through SWR, which keeps *)
(* an answer for every key it has had, and changed by every event of the   *)
(* "sessions" topic.                                                       *)
(*                                                                         *)
(* A handler is one action with the render and the effects that follow it; *)
(* an effect that changes the key of the request is an action of its own,  *)
(* ResetOffset, because the requests of both keys are sent.                *)
(***************************************************************************)
EXTENDS SessionLists

CONSTANTS
  Configs, First,     \* the configurations and the one the page opens with
  Criteria,           \* searches with their filters and dates
  Plain,              \* the criterion that every session meets
  MaxSessions,
  ConfigOf,           \* the configuration of a session
  Matches,            \* the sessions a criterion finds
  Old,                \* sessions 1..Old are in the table from the start
  Limit,
  MaxOffset,          \* bound on the offset
  MaxChanges,         \* bound on the changes of the request's key
  MaxFailures

Sessions == 1..MaxSessions

ASSUME HistoryPageAssumption ==
  /\ First \in Configs /\ Plain \in Criteria
  /\ MaxSessions \in Nat /\ Old \in 0..MaxSessions
  /\ ConfigOf \in [Sessions -> Configs]
  /\ Matches \in [Criteria -> SUBSET Sessions] /\ Matches[Plain] = Sessions
  /\ Limit \in Nat \ {0} /\ MaxOffset \in Nat
  /\ MaxChanges \in Nat /\ MaxFailures \in Nat

VARIABLES
  row,           \* the table: "absent" or "finished"
  next, events,
  cache,         \* SWR: the last answer for each key
  requests,      \* SWR: the requests on their way, one for each key
  configId, searchQuery, criterion, offset,
  resetting,     \* the offset is set to 0 in the next render
  allLoadedSessions, selectedSessionId, isLoadingMore,
  changes, failures,
  announced      \* history: sessions an event put into the list

vars == <<row, next, events, cache, requests, configId, searchQuery, criterion, offset,
          resetting, allLoadedSessions, selectedSessionId, isLoadingMore,
          changes, failures, announced>>

server == <<row, next, events>>
swr == <<cache, requests>>
key == [config |-> configId, criterion |-> criterion, offset |-> offset]
Keys == [config : Configs, criterion : Criteria, offset : 0..MaxOffset]
shown == <<allLoadedSessions, selectedSessionId, isLoadingMore, announced>>

Present == {s \in Sessions : row[s] # "absent"}

NoAnswer == [ok |-> FALSE, sessions |-> <<>>]
NoRequest == [sent |-> FALSE, answer |-> NoAnswer]
Sent == [sent |-> TRUE, answer |-> NoAnswer]

Init ==
  /\ row = [s \in Sessions |-> IF s <= Old THEN "finished" ELSE "absent"]
  /\ next = Old + 1 /\ events = <<>>
  /\ configId = First /\ searchQuery = Plain /\ criterion = Plain /\ offset = 0
  /\ cache = [k \in Keys |-> NoAnswer]
  /\ requests = [k \in Keys |-> IF k = key THEN Sent ELSE NoRequest]
  /\ resetting = FALSE
  /\ allLoadedSessions = <<>> /\ selectedSessionId = NoSession
  /\ isLoadingMore = FALSE
  /\ changes = 0 /\ failures = 0 /\ announced = {}

-----------------------------------------------------------------------------
(* The server.                                                             *)

RecordSession ==
  /\ next <= MaxSessions
  /\ next' = next + 1
  /\ row' = [row EXCEPT ![next] = "finished"]
  /\ events' = Append(events, [type |-> "new_session", id |-> next])
  /\ UNCHANGED <<swr, configId, searchQuery, criterion, offset, resetting, shown, changes, failures>>

DeleteSession ==
  /\ Present # {}
  /\ LET oldest == Min(Present)
     IN  /\ row' = [row EXCEPT ![oldest] = "absent"]
         /\ events' = Append(events, [type |-> "delete_session", id |-> oldest])
  /\ UNCHANGED <<next, swr, configId, searchQuery, criterion, offset, resetting, shown, changes, failures>>

\* handleSearchSessions and handleRecentSessions.
Found(k) == {s \in Present \cap Matches[k.criterion] : ConfigOf[s] = k.config}

Answer(k) ==
  /\ requests[k].sent /\ ~requests[k].answer.ok
  /\ requests' = [requests EXCEPT ![k].answer =
                    [ok |-> TRUE, sessions |-> PageOf(row, Found(k), k.offset, Limit)]]
  /\ UNCHANGED <<server, cache, configId, searchQuery, criterion, offset, resetting, shown, changes, failures>>

-----------------------------------------------------------------------------
(* SWR: an answer is kept under its key, whatever the page shows by then.  *)

\* The key changes to k: whatever the cache has is returned at once, and a
\* request is sent unless one is on its way that was sent within two seconds.
Revalidate(k) ==
  \/ requests' = [requests EXCEPT ![k] = Sent]
  \/ requests[k].sent /\ UNCHANGED requests

\* A request that failed is repeated for as long as its key is the page's.
Fail(k) ==
  /\ requests[k].sent /\ ~requests[k].answer.ok
  /\ failures < MaxFailures /\ failures' = failures + 1
  /\ requests' = [requests EXCEPT ![k] = IF k = key THEN Sent ELSE NoRequest]
  /\ UNCHANGED <<server, cache, configId, searchQuery, criterion, offset, resetting, shown, changes>>

-----------------------------------------------------------------------------
(* The page.                                                               *)

SetAllLoadedSessions(list, current) ==
  /\ allLoadedSessions' = list
  /\ selectedSessionId' = AutoSelect(list, current)

\* A mutant: isLoadingMore is left as it is.
MergeEffectLoading(list, data, off, loading) ==
  LET merged == IF data.ok THEN MergePage(list, data.sessions, off) ELSE list
  IN  /\ SetAllLoadedSessions(merged, selectedSessionId)
      /\ isLoadingMore' = (loading \/ isLoadingMore)
      /\ announced' = IF off = 0 /\ data.ok THEN {} ELSE announced

\* The effect that merges what SWR returns for the key k, an answer or nothing.
MergeEffect(list, data, off, loading) ==
  IF data.ok
    THEN /\ SetAllLoadedSessions(MergePage(list, data.sessions, off), selectedSessionId)
         /\ isLoadingMore' = FALSE
         /\ announced' = IF off = 0 THEN {} ELSE announced
    ELSE /\ SetAllLoadedSessions(list, selectedSessionId)
         /\ isLoadingMore' = loading
         /\ announced' = IF list = <<>> THEN {} ELSE announced

\* A mutant: the answer for any key is merged, as without SWR.
ReceiveAnyAnswer(k) ==
  LET answer == requests[k].answer
  IN  /\ answer.ok /\ ~resetting
      /\ requests' = [requests EXCEPT ![k] = NoRequest]
      /\ cache' = [cache EXCEPT ![k] = answer]
      /\ MergeEffect(allLoadedSessions, answer, offset, FALSE)
      /\ UNCHANGED <<server, configId, searchQuery, criterion, offset, resetting, changes, failures>>

\* Only a new answer for the page's key is merged.
ReceiveAnswer(k) ==
  LET answer == requests[k].answer
  IN  /\ answer.ok /\ ~resetting
      /\ requests' = [requests EXCEPT ![k] = NoRequest]
      /\ cache' = [cache EXCEPT ![k] = answer]
      /\ IF k = key /\ answer # cache[k]
           THEN MergeEffect(allLoadedSessions, answer, offset, FALSE)
           ELSE UNCHANGED <<allLoadedSessions, selectedSessionId, isLoadingMore, announced>>
      /\ UNCHANGED <<server, configId, searchQuery, criterion, offset, resetting, changes, failures>>

\* The callback of useSubscription knows nothing of the criterion.
ReceiveEvent ==
  LET e == Head(events)
  IN  /\ events # <<>> /\ ~resetting
      /\ events' = Tail(events)
      /\ \/ /\ e.type = "new_session" /\ ConfigOf[e.id] = configId
            /\ SetAllLoadedSessions(
                 MergeSession(allLoadedSessions, [id |-> e.id, state |-> "finished"]), selectedSessionId)
            /\ announced' = announced \cup {e.id}
         \/ /\ e.type = "new_session" /\ ConfigOf[e.id] # configId
            /\ UNCHANGED <<allLoadedSessions, selectedSessionId, announced>>
         \/ /\ e.type = "delete_session"
            /\ SetAllLoadedSessions(RemoveSessions(allLoadedSessions, {e.id}),
                 IF selectedSessionId = e.id THEN NoSession ELSE selectedSessionId)
            /\ announced' = announced \ {e.id}
      /\ UNCHANGED <<row, next, swr, configId, searchQuery, criterion, offset, resetting,
                     isLoadingMore, changes, failures>>

\* A row is clicked.
Click(id) ==
  /\ ~resetting /\ id \in IdsOf(allLoadedSessions)
  /\ selectedSessionId' = id
  /\ UNCHANGED <<server, swr, configId, searchQuery, criterion, offset, resetting,
                 allLoadedSessions, isLoadingMore, changes, failures, announced>>

\* The key of the request changes: its request is sent, and its data merged.
ChangeKey(list, k, loading) ==
  /\ Revalidate(k)
  /\ MergeEffect(list, cache[k], k.offset, loading)

\* The user types; the timer of useDebounced starts anew.
Type(q) ==
  /\ q # searchQuery /\ ~resetting /\ changes < MaxChanges
  /\ searchQuery' = q
  /\ changes' = changes + 1
  /\ UNCHANGED <<server, swr, configId, criterion, offset, resetting, shown, failures>>

\* The timer ends, or a filter or a date is chosen: the effect of the new
\* criterion empties the list, with the old offset in the key.
Settle ==
  /\ searchQuery # criterion /\ ~resetting
  /\ criterion' = searchQuery
  /\ ChangeKey(<<>>, [key EXCEPT !.criterion = searchQuery], isLoadingMore)
  /\ resetting' = (offset # 0)
  /\ UNCHANGED <<server, cache, configId, searchQuery, offset, changes, failures>>

ResetOffset ==
  /\ resetting
  /\ resetting' = FALSE
  /\ offset' = 0
  /\ ChangeKey(allLoadedSessions, [key EXCEPT !.offset = 0], isLoadingMore)
  /\ UNCHANGED <<server, cache, configId, searchQuery, criterion, changes, failures>>

\* The configuration is no dependency of that effect: list and offset stay.
SetConfig(c) ==
  /\ c # configId /\ ~resetting /\ changes < MaxChanges
  /\ changes' = changes + 1
  /\ configId' = c
  /\ ChangeKey(allLoadedSessions, [key EXCEPT !.config = c], isLoadingMore)
  /\ UNCHANGED <<server, cache, searchQuery, criterion, offset, resetting, failures>>

\* The "Load More" button is there when the last page was full and known.
HasMore == cache[key].ok /\ Len(cache[key].sessions) = Limit
CanLoadMore == HasMore /\ ~isLoadingMore

LoadMore ==
  /\ CanLoadMore /\ ~resetting
  /\ offset + Limit <= MaxOffset /\ offset' = offset + Limit
  /\ ChangeKey(allLoadedSessions, [key EXCEPT !.offset = @ + Limit], TRUE)
  /\ UNCHANGED <<server, cache, configId, searchQuery, criterion, resetting, changes, failures>>

-----------------------------------------------------------------------------
Next ==
  \/ RecordSession \/ DeleteSession \/ ReceiveEvent
  \/ \E k \in Keys : Answer(k) \/ Fail(k) \/ ReceiveAnswer(k)
  \/ \E s \in Sessions : Click(s)
  \/ Settle \/ ResetOffset \/ LoadMore
  \/ \E q \in Criteria : Type(q)
  \/ \E c \in Configs : SetConfig(c)

Spec == Init /\ [][Next]_vars

\* The request of the page's key is answered, the network delivers, timers end, React renders again.
Fairness ==
  /\ WF_vars(ReceiveEvent) /\ WF_vars(Settle) /\ WF_vars(ResetOffset)
  /\ WF_vars(Answer(key)) /\ WF_vars(ReceiveAnswer(key))

FairSpec == Spec /\ Fairness

-----------------------------------------------------------------------------
(* Correctness.                                                            *)

\* Once the answer for the key has come, the first page of the list is of the
\* configuration and the criterion chosen last, whatever other answers were on
\* their way or in the cache; only events add what the search would not find.
ListIsOfTheView ==
  offset = 0 /\ cache[key].ok =>
    \A id \in IdsOf(allLoadedSessions) :
      ConfigOf[id] = configId /\ (id \in Matches[criterion] \/ id \in announced)

\* The list keeps its promise to the user (SelectableList), as that of the live page does.
L == INSTANCE SelectableList WITH list <- allLoadedSessions, selected <- selectedSessionId
ImplementsSelectableList == L!Spec

\* "Loading..." ends, whatever fails or is chosen meanwhile.
LoadingEnds == isLoadingMore ~> ~isLoadingMore

\* "you can ... filter by specific proxy": every listed session is of the
\* configuration chosen.
OnlyThisConfig ==
  cache[key].ok => \A id \in IdsOf(allLoadedSessions) : ConfigOf[id] = configId
=============================================================================
