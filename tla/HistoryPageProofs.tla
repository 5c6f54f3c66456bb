------------------------- MODULE HistoryPageProofs -------------------------
(***************************************************************************)
(* HistoryPage for any configurations, criteria and sessions, any size of  *)
(* a page and any bounds: the first page of the list is of the view, and   *)
(* the page implements SelectableList.                                     *)
(***************************************************************************)
EXTENDS HistoryPage, SessionListsProofs

-----------------------------------------------------------------------------
(* The invariant.                                                          *)

Rows == [id : Sessions, state : {"finished"}]
Answers == [ok : BOOLEAN, sessions : Seq(Rows)]
Requests == [sent : BOOLEAN, answer : Answers]
Events == [type : {"new_session", "delete_session"}, id : Sessions]
Selectable == Sessions \cup {NoSession}

TypeOK ==
  /\ row \in [Sessions -> {"absent", "finished"}] /\ next \in Nat \ {0}
  /\ events \in Seq(Events)
  /\ cache \in [Keys -> Answers] /\ requests \in [Keys -> Requests]
  /\ configId \in Configs /\ searchQuery \in Criteria /\ criterion \in Criteria
  /\ offset \in 0..MaxOffset /\ resetting \in BOOLEAN
  /\ allLoadedSessions \in Seq(Rows) /\ selectedSessionId \in Selectable
  /\ isLoadingMore \in BOOLEAN
  /\ changes \in Nat /\ failures \in Nat /\ announced \in SUBSET Sessions

\* What the server finds for a key, with no session twice.
OfKey(k, list) ==
  /\ Distinct(list)
  /\ \A x \in RowsOf(list) : ConfigOf[x.id] = k.config /\ x.id \in Matches[k.criterion]
AnswersAreOfTheirKeys ==
  \A k \in Keys : OfKey(k, cache[k].sessions) /\ OfKey(k, requests[k].answer.sessions)

\* What is listed on the first page of a key was found for it, or announced.
OfView(list, config, crit, known) ==
  \A x \in RowsOf(list) : ConfigOf[x.id] = config /\ x.id \in Matches[crit] \cup known
ListIsOfTheKey ==
  offset = 0 /\ cache[key].ok => OfView(allLoadedSessions, configId, criterion, announced)

IInv ==
  /\ TypeOK /\ AnswersAreOfTheirKeys
  /\ Distinct(allLoadedSessions) /\ ListIsOfTheKey

-----------------------------------------------------------------------------
(* What the steps are made of.                                             *)

LEMMA SessionsFinite == Sessions \in SUBSET Nat /\ IsFiniteSet(Sessions)
  BY HistoryPageAssumption, FS_Interval DEF Sessions

LEMMA KeyType ==
  ASSUME IInv
  PROVE  /\ key \in Keys /\ key.config = configId /\ key.criterion = criterion
         /\ key.offset = offset
  BY DEF IInv, TypeOK, Keys, key

LEMMA NoRows == <<>> \in Seq(Rows) /\ Distinct(<<>>) /\ RowsOf(<<>>) = {}
  BY DEF Distinct, RowsOf

LEMMA NoAnswerType ==
  /\ NoAnswer \in Answers /\ NoAnswer.ok = FALSE /\ NoAnswer.sessions = <<>>
  /\ Sent \in Requests /\ Sent.answer = NoAnswer /\ Sent.sent = TRUE
  /\ NoRequest \in Requests /\ NoRequest.answer = NoAnswer
  BY NoRows DEF NoAnswer, Answers, Sent, NoRequest, Requests

\* No session is found in an empty answer.
LEMMA NothingOfKey ==
  \A k \in Keys : OfKey(k, NoAnswer.sessions)
  BY NoAnswerType, NoRows DEF OfKey

LEMMA ListType ==
  ASSUME NEW list \in Seq(Rows)
  PROVE  /\ IdsOf(list) \subseteq Sessions
         /\ RowsOf(list) \subseteq Rows
         /\ \A current \in Selectable : AutoSelect(list, current) \in Selectable
  <1>1. RowsOf(list) \subseteq Rows /\ (list # <<>> => Head(list) \in RowsOf(list))
    BY RowsType
  <1>2. \A x \in RowsOf(list) : x.id \in Sessions
    BY <1>1 DEF Rows
  <1>3. IdsOf(list) \subseteq Sessions
    BY <1>2, IdsOfRows
  <1>4. list # <<>> => Head(list).id \in Sessions
    BY <1>1, <1>2
  <1>. QED  BY <1>1, <1>3, <1>4 DEF AutoSelect, Selectable

\* The effect that merges an answer: on the first page the list is the answer.
LEMMA Shown ==
  ASSUME NEW list \in Seq(Rows), Distinct(list), NEW data \in Answers, Distinct(data.sessions),
         NEW off \in Nat, NEW loading \in BOOLEAN,
         selectedSessionId \in Selectable, announced \in SUBSET Sessions,
         MergeEffect(list, data, off, loading)
  PROVE  /\ allLoadedSessions' \in Seq(Rows) /\ Distinct(allLoadedSessions')
         /\ selectedSessionId' \in Selectable /\ isLoadingMore' \in BOOLEAN
         /\ announced' \in SUBSET Sessions
         /\ data.ok /\ off = 0 => allLoadedSessions' = data.sessions
  <1> DEFINE merged == MergePage(list, data.sessions, off)
  <1>1. data.sessions \in Seq(Rows) /\ data.ok \in BOOLEAN
    BY DEF Answers
  <1>2. off = 0 => merged = data.sessions
    BY DEF MergePage
  <1>3. merged \in Seq(Rows) /\ Distinct(merged)
    <2>1. CASE off = 0
      BY <1>1, <1>2, <2>1
    <2>2. CASE off # 0
      BY <1>1, <2>2, MergedPage
    <2>. QED  BY <2>1, <2>2
  <1> HIDE DEF merged
  <1>4. CASE data.ok
    <2>1. /\ allLoadedSessions' = merged
          /\ selectedSessionId' = AutoSelect(merged, selectedSessionId)
          /\ isLoadingMore' = FALSE /\ announced' \in {{}, announced}
      BY <1>4 DEF MergeEffect, SetAllLoadedSessions, merged
    <2>. QED  BY <1>2, <1>3, <2>1, ListType
  <1>5. CASE ~data.ok
    <2>1. /\ allLoadedSessions' = list
          /\ selectedSessionId' = AutoSelect(list, selectedSessionId)
          /\ isLoadingMore' = loading /\ announced' \in {{}, announced}
      BY <1>5 DEF MergeEffect, SetAllLoadedSessions
    <2>. QED  BY <1>5, <2>1, ListType
  <1>. QED  BY <1>4, <1>5

\* A step that changes the key shows what the cache has for the new one.
LEMMA Rekeyed ==
  ASSUME IInv, NEW list \in Seq(Rows), Distinct(list), NEW k \in Keys, NEW loading \in BOOLEAN,
         ChangeKey(list, k, loading), key' = k, UNCHANGED <<server, cache, failures>>,
         changes' \in Nat, searchQuery' \in Criteria, resetting' \in BOOLEAN,
         configId' = k.config, criterion' = k.criterion, offset' = k.offset
  PROVE  IInv'
  <1>1. /\ requests \in [Keys -> Requests] /\ cache \in [Keys -> Answers]
        /\ selectedSessionId \in Selectable /\ announced \in SUBSET Sessions
        /\ cache[k] \in Answers /\ OfKey(k, cache[k].sessions)
    BY DEF IInv, TypeOK, AnswersAreOfTheirKeys
  <1>2. k.config \in Configs /\ k.criterion \in Criteria /\ k.offset \in 0..MaxOffset
    BY DEF Keys
  <1>3. k.offset \in Nat
    BY <1>2, HistoryPageAssumption
  <1>4. /\ allLoadedSessions' \in Seq(Rows) /\ Distinct(allLoadedSessions')
        /\ selectedSessionId' \in Selectable /\ isLoadingMore' \in BOOLEAN
        /\ announced' \in SUBSET Sessions
        /\ cache[k].ok /\ k.offset = 0 => allLoadedSessions' = cache[k].sessions
    <2>1. MergeEffect(list, cache[k], k.offset, loading)
      BY DEF ChangeKey
    <2>2. Distinct(cache[k].sessions)
      BY <1>1 DEF OfKey
    <2>. QED  BY <1>1, <1>3, <2>1, <2>2, Shown
  <1>5. requests' = [requests EXCEPT ![k] = Sent] \/ requests' = requests
    BY DEF ChangeKey, Revalidate
  <1>6. TypeOK'
    <2>1. requests' \in [Keys -> Requests]
      BY <1>1, <1>5, NoAnswerType
    <2>. QED  BY <1>2, <1>4, <2>1 DEF IInv, TypeOK, server
  <1>7. AnswersAreOfTheirKeys'
    <2>1. \A j \in Keys : requests'[j] \in {Sent, requests[j]}
      BY <1>1, <1>5
    <2>. QED  BY <2>1, NoAnswerType, NothingOfKey DEF IInv, AnswersAreOfTheirKeys
  <1>8. ListIsOfTheKey'
    <2>1. cache[k].ok /\ k.offset = 0
            => OfView(allLoadedSessions', k.config, k.criterion, announced')
      BY <1>1, <1>4 DEF OfKey, OfView
    <2>. QED  BY <2>1 DEF ListIsOfTheKey
  <1>. QED  BY <1>4, <1>6, <1>7, <1>8 DEF IInv

-----------------------------------------------------------------------------
(* The steps of the server and of SWR.                                     *)

\* What the page shows does not depend on the server's steps.
LEMMA ServerStep ==
  ASSUME IInv, row' \in [Sessions -> {"absent", "finished"}], next' \in Nat \ {0},
         events' \in Seq(Events),
         UNCHANGED <<swr, configId, searchQuery, criterion, offset, resetting, shown, changes,
                     failures>>
  PROVE  IInv'
  <1>1. TypeOK' /\ AnswersAreOfTheirKeys' /\ Distinct(allLoadedSessions')
    BY DEF IInv, TypeOK, AnswersAreOfTheirKeys, swr, shown
  <1>2. ListIsOfTheKey'
    BY DEF IInv, ListIsOfTheKey, swr, shown, key
  <1>. QED  BY <1>1, <1>2 DEF IInv

LEMMA StepRecord ==
  ASSUME IInv, RecordSession
  PROVE  IInv'
  <1> DEFINE e == [type |-> "new_session", id |-> next]
  <1>1. row \in [Sessions -> {"absent", "finished"}] /\ next \in Nat \ {0} /\ events \in Seq(Events)
    BY DEF IInv, TypeOK
  <1>2. next \in Sessions
    BY <1>1, HistoryPageAssumption DEF RecordSession, Sessions
  <1>3. e \in Events
    BY <1>2 DEF Events
  <1>4. row' \in [Sessions -> {"absent", "finished"}]
    BY <1>1 DEF RecordSession
  <1>5. next' \in Nat \ {0}
    BY <1>1 DEF RecordSession
  <1>6. events' = Append(events, e)
    BY DEF RecordSession
  <1> HIDE DEF e
  <1>7. events' \in Seq(Events)
    BY <1>1, <1>3, <1>6, Enqueued
  <1>. QED  BY <1>4, <1>5, <1>7, ServerStep DEF RecordSession

LEMMA StepDelete ==
  ASSUME IInv, DeleteSession
  PROVE  IInv'
  <1> DEFINE oldest == Min(Present)
             e == [type |-> "delete_session", id |-> oldest]
  <1>1. row \in [Sessions -> {"absent", "finished"}] /\ next \in Nat \ {0} /\ events \in Seq(Events)
    BY DEF IInv, TypeOK
  <1>2. oldest \in Present
    <2>1. Present \in SUBSET Nat /\ Present # {}
      BY SessionsFinite DEF Present, DeleteSession
    <2>2. \E m \in Present : \A n \in Present : m <= n
      BY <2>1, LeastOf
    <2>. QED  BY <2>2 DEF Min
  <1>3. e \in Events
    BY <1>2 DEF Events, Present
  <1>4. row' \in [Sessions -> {"absent", "finished"}]
    BY <1>1 DEF DeleteSession
  <1>5. events' = Append(events, e)
    BY DEF DeleteSession
  <1> HIDE DEF e
  <1>6. events' \in Seq(Events)
    BY <1>1, <1>3, <1>5, Enqueued
  <1>7. next' \in Nat \ {0}
    BY <1>1 DEF DeleteSession
  <1>. QED  BY <1>4, <1>6, <1>7, ServerStep DEF DeleteSession

\* A page of what the server finds for a key is of the key.
LEMMA PageOfFound ==
  ASSUME IInv, NEW k \in Keys
  PROVE  LET p == PageOf(row, Found(k), k.offset, Limit)
         IN  p \in Seq(Rows) /\ OfKey(k, p)
  <1>1. PICK found \in SUBSET Sessions : found = Found(k)
    BY DEF Found, Present
  <1>2. found \in SUBSET Nat /\ IsFiniteSet(found)
    BY SessionsFinite, FS_Subset
  <1>3. \A s \in found : row[s] = "finished" /\ ConfigOf[s] = k.config /\ s \in Matches[k.criterion]
    BY <1>1 DEF Found, Present, IInv, TypeOK
  <1>4. RowsIn(row, found, Rows)
    BY <1>3 DEF RowsIn, Rows
  <1>5. k.offset \in Nat /\ Limit \in Nat
    BY HistoryPageAssumption DEF Keys
  <1>6. LET p == PageOf(row, found, k.offset, Limit)
        IN  p \in Seq(Rows) /\ Distinct(p) /\ RowsFrom(row, found, p)
    BY <1>2, <1>4, <1>5, PageRows
  <1>. QED  BY <1>1, <1>3, <1>6 DEF OfKey, RowsFrom

LEMMA StepAnswer ==
  ASSUME IInv, NEW k \in Keys, Answer(k)
  PROVE  IInv'
  <1> DEFINE page == PageOf(row, Found(k), k.offset, Limit)
             answer == [ok |-> TRUE, sessions |-> page]
  <1>1. page \in Seq(Rows) /\ OfKey(k, page)
    BY PageOfFound
  <1>2. /\ requests' = [requests EXCEPT ![k].answer = answer]
        /\ UNCHANGED <<server, cache, configId, searchQuery, criterion, offset, resetting, shown,
                       changes, failures>>
    BY DEF Answer
  <1> HIDE DEF page
  <1>3. answer \in Answers /\ answer.sessions = page
    BY <1>1 DEF Answers
  <1> HIDE DEF answer
  <1>4. requests \in [Keys -> Requests]
    BY DEF IInv, TypeOK
  <1>5. /\ requests' \in [Keys -> Requests]
        /\ \A j \in Keys : requests'[j].answer = IF j = k THEN answer ELSE requests[j].answer
    BY <1>2, <1>3, <1>4 DEF Requests
  <1>6. TypeOK'
    BY <1>2, <1>5 DEF IInv, TypeOK, server, shown
  <1>7. AnswersAreOfTheirKeys'
    BY <1>1, <1>2, <1>3, <1>5 DEF IInv, AnswersAreOfTheirKeys
  <1>8. Distinct(allLoadedSessions') /\ ListIsOfTheKey'
    BY <1>2 DEF IInv, ListIsOfTheKey, shown, key
  <1>. QED  BY <1>6, <1>7, <1>8 DEF IInv

LEMMA StepFail ==
  ASSUME IInv, NEW k \in Keys, Fail(k)
  PROVE  IInv'
  <1>1. /\ failures' \in Nat
        /\ requests' = [requests EXCEPT ![k] = IF k = key THEN Sent ELSE NoRequest]
        /\ UNCHANGED <<server, cache, configId, searchQuery, criterion, offset, resetting, shown,
                       changes>>
    BY DEF Fail, IInv, TypeOK
  <1>2. requests \in [Keys -> Requests]
    BY DEF IInv, TypeOK
  <1>3. /\ requests' \in [Keys -> Requests]
        /\ \A j \in Keys : requests'[j].answer \in {NoAnswer, requests[j].answer}
    BY <1>1, <1>2, NoAnswerType
  <1>4. TypeOK'
    BY <1>1, <1>3 DEF IInv, TypeOK, server, shown
  <1>5. AnswersAreOfTheirKeys'
    BY <1>1, <1>3, NothingOfKey DEF IInv, AnswersAreOfTheirKeys
  <1>6. Distinct(allLoadedSessions') /\ ListIsOfTheKey'
    BY <1>1 DEF IInv, ListIsOfTheKey, shown, key
  <1>. QED  BY <1>4, <1>5, <1>6 DEF IInv

LEMMA StepReceiveAnswer ==
  ASSUME IInv, NEW k \in Keys, ReceiveAnswer(k)
  PROVE  IInv'
  <1> DEFINE answer == requests[k].answer
             Merges == k = key /\ answer # cache[k]
  <1>1. /\ requests \in [Keys -> Requests] /\ cache \in [Keys -> Answers]
        /\ answer \in Answers /\ OfKey(k, answer.sessions)
        /\ allLoadedSessions \in Seq(Rows) /\ Distinct(allLoadedSessions)
        /\ selectedSessionId \in Selectable /\ announced \in SUBSET Sessions
        /\ isLoadingMore \in BOOLEAN
    BY DEF IInv, TypeOK, AnswersAreOfTheirKeys, Requests
  <1>2. offset \in Nat
    BY HistoryPageAssumption DEF IInv, TypeOK
  <1>3. /\ requests' = [requests EXCEPT ![k] = NoRequest]
        /\ cache' = [cache EXCEPT ![k] = answer] /\ answer.ok
        /\ Merges => MergeEffect(allLoadedSessions, answer, offset, FALSE)
        /\ ~Merges => UNCHANGED <<allLoadedSessions, selectedSessionId, isLoadingMore, announced>>
        /\ UNCHANGED <<server, configId, searchQuery, criterion, offset, resetting, changes, failures>>
    BY DEF ReceiveAnswer
  <1> HIDE DEF answer
  <1>4. Merges => /\ allLoadedSessions' \in Seq(Rows) /\ Distinct(allLoadedSessions')
                  /\ selectedSessionId' \in Selectable /\ isLoadingMore' \in BOOLEAN
                  /\ announced' \in SUBSET Sessions
                  /\ offset = 0 => allLoadedSessions' = answer.sessions
    <2>1. Distinct(answer.sessions)
      BY <1>1 DEF OfKey
    <2> HIDE DEF Merges
    <2>. QED  BY <1>1, <1>2, <1>3, <2>1, Shown
  <1>5. requests' \in [Keys -> Requests] /\ cache' \in [Keys -> Answers]
    BY <1>1, <1>3, NoAnswerType
  <1>6. \A j \in Keys : /\ cache'[j] = IF j = k THEN answer ELSE cache[j]
                        /\ requests'[j].answer \in {NoAnswer, requests[j].answer}
    BY <1>1, <1>3, NoAnswerType
  <1>7. key' = key /\ key \in Keys /\ key.config = configId /\ key.criterion = criterion
    BY <1>3, KeyType DEF key
  <1>8. TypeOK'
    BY <1>1, <1>3, <1>4, <1>5 DEF IInv, TypeOK, server
  <1>9. AnswersAreOfTheirKeys'
    BY <1>1, <1>6, NothingOfKey DEF IInv, AnswersAreOfTheirKeys
  <1>10. Distinct(allLoadedSessions')
    BY <1>1, <1>3, <1>4
  <1>11. ListIsOfTheKey'
    <2>1. CASE Merges
      BY <1>1, <1>3, <1>4, <1>7, <2>1 DEF ListIsOfTheKey, OfKey, OfView
    <2>2. CASE ~Merges
      <3>1. cache'[key] = cache[key]
        BY <1>6, <1>7, <2>2
      <3>. QED  BY <1>3, <1>7, <2>2, <3>1 DEF IInv, ListIsOfTheKey
    <2>. QED  BY <2>1, <2>2
  <1>. QED  BY <1>8, <1>9, <1>10, <1>11 DEF IInv

-----------------------------------------------------------------------------
(* The steps of the page.                                                  *)

\* A session that was announced is listed with those found.
LEMMA ViewMerged ==
  ASSUME NEW list, NEW merged, NEW x, NEW config, NEW crit, NEW known,
         RowsOf(merged) = {y \in RowsOf(list) : y.id # x.id} \cup {x}, ConfigOf[x.id] = config,
         OfView(list, config, crit, known)
  PROVE  OfView(merged, config, crit, known \cup {x.id})
  BY DEF OfView

LEMMA ViewRemoved ==
  ASSUME NEW list, NEW left, NEW id, NEW config, NEW crit, NEW known,
         RowsOf(left) = {y \in RowsOf(list) : y.id \notin {id}},
         OfView(list, config, crit, known)
  PROVE  OfView(left, config, crit, known \ {id})
  BY DEF OfView

LEMMA StepReceiveEvent ==
  ASSUME IInv, ReceiveEvent
  PROVE  IInv'
  <1> DEFINE e == Head(events)
             list == allLoadedSessions
             x == [id |-> e.id, state |-> "finished"]
             merged == MergeSession(list, x)
             left == RemoveSessions(list, {e.id})
             current == IF selectedSessionId = e.id THEN NoSession ELSE selectedSessionId
  <1>1. /\ events \in Seq(Events) /\ events # <<>> /\ list \in Seq(Rows) /\ Distinct(list)
        /\ selectedSessionId \in Selectable /\ announced \in SUBSET Sessions
    BY DEF IInv, TypeOK, ReceiveEvent
  <1>2. events' \in Seq(Events) /\ e \in Events
    BY <1>1, Dequeued DEF ReceiveEvent
  <1>3. e.id \in Sessions /\ x \in Rows /\ x.id = e.id
    BY <1>2 DEF Events, Rows
  <1>4. /\ \/ /\ ConfigOf[e.id] = configId
              /\ allLoadedSessions' = merged
              /\ selectedSessionId' = AutoSelect(merged, selectedSessionId)
              /\ announced' = announced \cup {e.id}
           \/ UNCHANGED <<allLoadedSessions, selectedSessionId, announced>>
           \/ /\ allLoadedSessions' = left
              /\ selectedSessionId' = AutoSelect(left, current)
              /\ announced' = announced \ {e.id}
        /\ UNCHANGED <<row, next, swr, configId, searchQuery, criterion, offset, resetting,
                       isLoadingMore, changes, failures>>
    BY DEF ReceiveEvent, SetAllLoadedSessions
  <1>5. /\ merged \in Seq(Rows) /\ Distinct(merged)
        /\ RowsOf(merged) = {y \in RowsOf(list) : y.id # x.id} \cup {x}
    <2> HIDE DEF x
    <2>. QED  BY <1>1, <1>3, MergedSession, SMTT(30)
  <1>6. /\ left \in Seq(Rows) /\ Distinct(left)
        /\ RowsOf(left) = {y \in RowsOf(list) : y.id \notin {e.id}}
    BY <1>1, RemovedRows
  <1>7. current \in Selectable
    BY <1>1 DEF Selectable
  <1>8. /\ AutoSelect(merged, selectedSessionId) \in Selectable
        /\ AutoSelect(left, current) \in Selectable
    BY <1>1, <1>5, <1>6, <1>7, ListType
  <1>9. \A config, crit, known : OfView(list, config, crit, known) =>
          /\ ConfigOf[e.id] = config => OfView(merged, config, crit, known \cup {e.id})
          /\ OfView(left, config, crit, known \ {e.id})
    BY <1>3, <1>5, <1>6, ViewMerged, ViewRemoved
  <1> HIDE DEF e, x, merged, left, current
  <1>10. TypeOK'
    <2>1. allLoadedSessions' \in Seq(Rows) /\ selectedSessionId' \in Selectable
      BY <1>1, <1>4, <1>5, <1>6, <1>8
    <2>2. announced' \in SUBSET Sessions
      BY <1>1, <1>3, <1>4
    <2>. QED  BY <1>2, <1>4, <2>1, <2>2 DEF IInv, TypeOK, swr
  <1>11. AnswersAreOfTheirKeys' /\ Distinct(allLoadedSessions')
    BY <1>1, <1>4, <1>5, <1>6 DEF IInv, AnswersAreOfTheirKeys, swr
  <1>12. ListIsOfTheKey'
    <2>1. UNCHANGED <<key, cache, configId, criterion, offset>>
      BY <1>4 DEF key, swr
    <2>2. offset = 0 /\ cache[key].ok
            => OfView(allLoadedSessions', configId, criterion, announced')
      <3>1. offset = 0 /\ cache[key].ok => OfView(list, configId, criterion, announced)
        BY DEF IInv, ListIsOfTheKey
      <3> HIDE DEF list
      <3>2. offset = 0 /\ cache[key].ok =>
              /\ ConfigOf[e.id] = configId
                   => OfView(merged, configId, criterion, announced \cup {e.id})
              /\ OfView(left, configId, criterion, announced \ {e.id})
        BY <1>9, <3>1
      <3>. QED  BY <1>4, <3>1, <3>2 DEF list
    <2>. QED  BY <2>1, <2>2 DEF ListIsOfTheKey
  <1>. QED  BY <1>10, <1>11, <1>12 DEF IInv

LEMMA StepClick ==
  ASSUME IInv, NEW s \in Sessions, Click(s)
  PROVE  IInv'
  <1>1. /\ selectedSessionId' \in Selectable
        /\ UNCHANGED <<server, swr, configId, searchQuery, criterion, offset, resetting,
                       allLoadedSessions, isLoadingMore, changes, failures, announced>>
    BY DEF Click, Selectable
  <1>2. TypeOK' /\ AnswersAreOfTheirKeys' /\ Distinct(allLoadedSessions')
    BY <1>1 DEF IInv, TypeOK, AnswersAreOfTheirKeys, server, swr
  <1>3. ListIsOfTheKey'
    BY <1>1 DEF IInv, ListIsOfTheKey, swr, key
  <1>. QED  BY <1>2, <1>3 DEF IInv

LEMMA StepType ==
  ASSUME IInv, NEW q \in Criteria, Type(q)
  PROVE  IInv'
  <1>1. /\ searchQuery' \in Criteria /\ changes' \in Nat
        /\ UNCHANGED <<server, swr, configId, criterion, offset, resetting, shown, failures>>
    BY DEF Type, IInv, TypeOK
  <1>2. TypeOK' /\ AnswersAreOfTheirKeys' /\ Distinct(allLoadedSessions')
    BY <1>1 DEF IInv, TypeOK, AnswersAreOfTheirKeys, server, swr, shown
  <1>3. ListIsOfTheKey'
    BY <1>1 DEF IInv, ListIsOfTheKey, swr, shown, key
  <1>. QED  BY <1>2, <1>3 DEF IInv

LEMMA StepSettle ==
  ASSUME IInv, Settle
  PROVE  IInv'
  <1> DEFINE k == [key EXCEPT !.criterion = searchQuery]
  <1>1. /\ searchQuery \in Criteria /\ configId \in Configs /\ offset \in 0..MaxOffset
        /\ isLoadingMore \in BOOLEAN /\ changes \in Nat
    BY DEF IInv, TypeOK
  <1>2. /\ k \in Keys /\ k.config = configId /\ k.criterion = searchQuery /\ k.offset = offset
    BY <1>1, KeyType DEF Keys
  <1>3. k = key' /\ resetting' \in BOOLEAN
    BY DEF Settle, key
  <1>. QED  BY <1>1, <1>2, <1>3, NoRows, Rekeyed DEF Settle

LEMMA StepResetOffset ==
  ASSUME IInv, ResetOffset
  PROVE  IInv'
  <1> DEFINE k == [key EXCEPT !.offset = 0]
  <1>1. /\ searchQuery \in Criteria /\ configId \in Configs /\ criterion \in Criteria
        /\ isLoadingMore \in BOOLEAN /\ changes \in Nat
        /\ allLoadedSessions \in Seq(Rows) /\ Distinct(allLoadedSessions)
    BY DEF IInv, TypeOK
  <1>2. 0 \in 0..MaxOffset
    BY HistoryPageAssumption
  <1>3. /\ k \in Keys /\ k.config = configId /\ k.criterion = criterion /\ k.offset = 0
    BY <1>1, <1>2, KeyType DEF Keys
  <1>4. offset' = 0 /\ UNCHANGED <<configId, criterion>> /\ resetting' \in BOOLEAN
    BY DEF ResetOffset
  <1>5. k = key'
    BY <1>4 DEF key
  <1>. QED  BY <1>1, <1>3, <1>4, <1>5, Rekeyed DEF ResetOffset

LEMMA StepSetConfig ==
  ASSUME IInv, NEW c \in Configs, SetConfig(c)
  PROVE  IInv'
  <1> DEFINE k == [key EXCEPT !.config = c]
  <1>1. /\ searchQuery \in Criteria /\ criterion \in Criteria /\ offset \in 0..MaxOffset
        /\ isLoadingMore \in BOOLEAN /\ resetting \in BOOLEAN /\ changes' \in Nat
        /\ allLoadedSessions \in Seq(Rows) /\ Distinct(allLoadedSessions)
    BY DEF IInv, TypeOK, SetConfig
  <1>2. /\ k \in Keys /\ k.config = c /\ k.criterion = criterion /\ k.offset = offset
    BY <1>1, KeyType DEF Keys
  <1>3. k = key'
    BY DEF SetConfig, key
  <1>. QED  BY <1>1, <1>2, <1>3, Rekeyed DEF SetConfig

LEMMA StepLoadMore ==
  ASSUME IInv, LoadMore
  PROVE  IInv'
  <1> DEFINE k == [key EXCEPT !.offset = @ + Limit]
  <1>1. /\ searchQuery \in Criteria /\ configId \in Configs /\ criterion \in Criteria
        /\ resetting \in BOOLEAN /\ changes \in Nat
        /\ allLoadedSessions \in Seq(Rows) /\ Distinct(allLoadedSessions)
    BY DEF IInv, TypeOK
  <1>2. offset + Limit \in 0..MaxOffset
    BY HistoryPageAssumption DEF IInv, TypeOK, LoadMore
  <1>3. /\ k \in Keys /\ k.config = configId /\ k.criterion = criterion
        /\ k.offset = offset + Limit
    BY <1>1, <1>2, KeyType DEF Keys
  <1>4. k = key'
    BY KeyType DEF LoadMore, key
  <1>. QED  BY <1>1, <1>3, <1>4, Rekeyed DEF LoadMore

-----------------------------------------------------------------------------
(* Every step keeps the invariant, and the theorems.                       *)

LEMMA Initially == Init => IInv
  <1> SUFFICES ASSUME Init
               PROVE  IInv
    OBVIOUS
  <1>1. /\ cache = [k \in Keys |-> NoAnswer] /\ resetting = FALSE
        /\ requests = [k \in Keys |-> IF k = key THEN Sent ELSE NoRequest]
        /\ isLoadingMore = FALSE /\ announced = {}
    BY DEF Init
  <1>2. row \in [Sessions -> {"absent", "finished"}]
    BY DEF Init
  <1>3. /\ next \in Nat \ {0} /\ offset \in 0..MaxOffset /\ changes \in Nat /\ failures \in Nat
        /\ selectedSessionId \in Selectable
    BY HistoryPageAssumption DEF Init, Selectable
  <1>4. /\ configId \in Configs /\ searchQuery \in Criteria /\ criterion \in Criteria
    BY HistoryPageAssumption DEF Init
  <1>5. events \in Seq(Events)
    BY DEF Init
  <1>6. allLoadedSessions \in Seq(Rows) /\ Distinct(allLoadedSessions)
    BY NoRows DEF Init
  <1>7. TypeOK
    <2>1. cache \in [Keys -> Answers] /\ requests \in [Keys -> Requests]
      BY <1>1, NoAnswerType
    <2>. QED  BY <1>1, <1>2, <1>3, <1>4, <1>5, <1>6, <2>1 DEF TypeOK
  <1>8. AnswersAreOfTheirKeys
    BY <1>1, NoAnswerType, NothingOfKey DEF AnswersAreOfTheirKeys
  <1>9. ListIsOfTheKey
    <2>1. key \in Keys
      BY <1>3, <1>4 DEF key, Keys
    <2>. QED  BY <1>1, <2>1, NoAnswerType DEF ListIsOfTheKey
  <1>. QED  BY <1>6, <1>7, <1>8, <1>9 DEF IInv

LEMMA Stuttering ==
  ASSUME IInv, UNCHANGED vars
  PROVE  IInv'
  <1>1. TypeOK' /\ AnswersAreOfTheirKeys' /\ Distinct(allLoadedSessions')
    BY DEF IInv, TypeOK, AnswersAreOfTheirKeys, vars
  <1>2. ListIsOfTheKey'
    BY DEF IInv, ListIsOfTheKey, vars, key
  <1>. QED  BY <1>1, <1>2 DEF IInv

\* IInv holds in every state of every behaviour of the page.
THEOREM Inductive == Spec => []IInv
<1>1. Init => IInv
  BY Initially
<1>2. IInv /\ [Next]_vars => IInv'
  <2> SUFFICES ASSUME IInv, [Next]_vars
               PROVE  IInv'
    OBVIOUS
  <2>1. CASE RecordSession \/ DeleteSession \/ ReceiveEvent
    BY <2>1, StepRecord, StepDelete, StepReceiveEvent
  <2>2. ASSUME NEW k \in Keys, Answer(k) \/ Fail(k) \/ ReceiveAnswer(k)
        PROVE  IInv'
    BY <2>2, StepAnswer, StepFail, StepReceiveAnswer
  <2>3. ASSUME NEW s \in Sessions, Click(s)
        PROVE  IInv'
    BY <2>3, StepClick
  <2>4. CASE Settle \/ ResetOffset \/ LoadMore
    BY <2>4, StepSettle, StepResetOffset, StepLoadMore
  <2>5. ASSUME NEW q \in Criteria, Type(q)
        PROVE  IInv'
    BY <2>5, StepType
  <2>6. ASSUME NEW c \in Configs, SetConfig(c)
        PROVE  IInv'
    BY <2>6, StepSetConfig
  <2>7. CASE UNCHANGED vars
    BY <2>7, Stuttering
  <2>. QED  BY <2>1, <2>2, <2>3, <2>4, <2>5, <2>6, <2>7 DEF Next
<1>. QED  BY <1>1, <1>2, PTL DEF Spec

\* Every variable of the page has its type.
THEOREM TypeCorrect == Spec => []TypeOK
<1>1. IInv => TypeOK
  BY DEF IInv
<1>. QED  BY <1>1, Inductive, PTL

\* ListIsOfTheView: once the answer for the key has come, the first page of the
\* list is of the configuration and the criterion chosen last, whatever other
\* answers were on their way or in the cache (with-configs-history.tsx).
THEOREM ViewTruth == Spec => []ListIsOfTheView
<1>1. IInv => ListIsOfTheView
  BY IdsOfRows DEF IInv, ListIsOfTheKey, ListIsOfTheView, OfView
<1>. QED  BY <1>1, Inductive, PTL

-----------------------------------------------------------------------------
(* "Loading..." has an answer to wait for.                                 *)

\* The button waits for the first answer for the page's key, and its request is
\* on its way.
LoadingIsAwaited == isLoadingMore => requests[key].sent /\ ~cache[key].ok

\* A change of the key to k leaves the mark only if k has no answer yet.
LEMMA ChangeAwaits ==
  ASSUME IInv, NEW k \in Keys, NEW list, NEW loading, ChangeKey(list, k, loading)
  PROVE  isLoadingMore' => requests'[k].sent /\ ~cache[k].ok
<1>1. requests'[k].sent
  BY NoAnswerType DEF ChangeKey, Revalidate, IInv, TypeOK
<1>. QED  BY <1>1 DEF ChangeKey, MergeEffect

LEMMA AwaitedStep ==
  ASSUME IInv, LoadingIsAwaited, [Next]_vars
  PROVE  LoadingIsAwaited'
<1>0. key \in Keys
  BY KeyType
<1>1. CASE UNCHANGED <<requests, cache, isLoadingMore, key>>
  BY <1>1 DEF LoadingIsAwaited
<1>2. CASE RecordSession \/ DeleteSession \/ ReceiveEvent \/ (\E s \in Sessions : Click(s))
             \/ (\E q \in Criteria : Type(q)) \/ UNCHANGED vars
  BY <1>1, <1>2 DEF RecordSession, DeleteSession, ReceiveEvent, Click, Type, swr, shown, key, vars
<1>3. ASSUME NEW k \in Keys, Answer(k) PROVE LoadingIsAwaited'
  <2>1. requests'[key].sent = requests[key].sent
    BY <1>0, <1>3 DEF Answer, IInv, TypeOK, Requests
  <2>. QED  BY <1>3, <2>1 DEF Answer, shown, key, LoadingIsAwaited
<1>4. ASSUME NEW k \in Keys, Fail(k) PROVE LoadingIsAwaited'
  <2>1. requests[key].sent => requests'[key].sent
    BY <1>0, <1>4, NoAnswerType DEF Fail, IInv, TypeOK
  <2>. QED  BY <1>4, <2>1 DEF Fail, shown, key, LoadingIsAwaited
<1>5. ASSUME NEW k \in Keys, ReceiveAnswer(k) PROVE LoadingIsAwaited'
  <2>1. key' = key
    BY <1>5 DEF ReceiveAnswer, key
  <2>2. CASE k = key
    <3>1. cache[k].ok => ~isLoadingMore
      BY <2>2 DEF LoadingIsAwaited
    <3>2. CASE requests[k].answer # cache[k]
      <4>1. ~isLoadingMore'
        BY <1>5, <2>2, <3>2 DEF ReceiveAnswer, MergeEffect
      <4>. QED  BY <4>1 DEF LoadingIsAwaited
    <3>3. CASE requests[k].answer = cache[k]
      <4>1. ~isLoadingMore'
        BY <1>5, <3>1, <3>3 DEF ReceiveAnswer
      <4>. QED  BY <4>1 DEF LoadingIsAwaited
    <3>. QED  BY <3>2, <3>3
  <2>3. CASE k # key
    <3>1. requests'[key] = requests[key] /\ cache'[key] = cache[key]
      BY <1>0, <1>5, <2>3 DEF ReceiveAnswer, IInv, TypeOK
    <3>2. isLoadingMore' = isLoadingMore
      BY <1>5, <2>3 DEF ReceiveAnswer
    <3>. QED  BY <2>1, <3>1, <3>2 DEF LoadingIsAwaited
  <2>. QED  BY <2>2, <2>3
<1>6. CASE Settle
  <2>1. [key EXCEPT !.criterion = searchQuery] \in Keys
    BY <1>0 DEF Keys, IInv, TypeOK
  <2>2. key' = [key EXCEPT !.criterion = searchQuery] /\ cache' = cache
    BY <1>6 DEF Settle, key
  <2>. QED  BY <1>6, <2>1, <2>2, ChangeAwaits DEF Settle, LoadingIsAwaited
<1>7. CASE ResetOffset
  <2>1. [key EXCEPT !.offset = 0] \in Keys
    BY <1>0, HistoryPageAssumption DEF Keys
  <2>2. key' = [key EXCEPT !.offset = 0] /\ cache' = cache
    BY <1>7 DEF ResetOffset, key
  <2>. QED  BY <1>7, <2>1, <2>2, ChangeAwaits DEF ResetOffset, LoadingIsAwaited
<1>8. ASSUME NEW c \in Configs, SetConfig(c) PROVE LoadingIsAwaited'
  <2>1. [key EXCEPT !.config = c] \in Keys
    BY <1>0 DEF Keys
  <2>2. key' = [key EXCEPT !.config = c] /\ cache' = cache
    BY <1>8 DEF SetConfig, key
  <2>. QED  BY <1>8, <2>1, <2>2, ChangeAwaits DEF SetConfig, LoadingIsAwaited
<1>9. CASE LoadMore
  <2>1. offset' = offset + Limit /\ offset + Limit \in 0..MaxOffset
    BY <1>9, HistoryPageAssumption DEF LoadMore, IInv, TypeOK
  <2>2. key' = [key EXCEPT !.offset = @ + Limit] /\ cache' = cache
    BY <1>9 DEF LoadMore, key
  <2>3. [key EXCEPT !.offset = @ + Limit] \in Keys
    BY <1>0, <2>1, KeyType DEF Keys
  <2>. QED  BY <1>9, <2>2, <2>3, ChangeAwaits DEF LoadMore, LoadingIsAwaited
<1>. QED  BY <1>2, <1>3, <1>4, <1>5, <1>6, <1>7, <1>8, <1>9 DEF Next

\* Whatever fails, is searched or is chosen while "Loading..." is shown, a request
\* for what the page shows then is on its way, and its answer ends it: the safety
\* part of LoadingEnds.
THEOREM LoadingIsAnswered == Spec => []LoadingIsAwaited
<1>1. Init => LoadingIsAwaited
  BY DEF Init, LoadingIsAwaited
<1>. QED  BY <1>1, AwaitedStep, Inductive, PTL DEF Spec

-----------------------------------------------------------------------------
(* The page implements the list its user is promised.                      *)

\* The effect on the list keeps the selection of a listed session.
LEMMA SelectionKept ==
  ASSUME NEW list, SetAllLoadedSessions(list, selectedSessionId), Distinct(allLoadedSessions')
  PROVE  L!Change
  <1>1. allLoadedSessions' = list /\ selectedSessionId' = AutoSelect(list, selectedSessionId)
    BY DEF SetAllLoadedSessions
  <1>2. L!Ids' = IdsOf(list)
    BY <1>1 DEF L!Ids, IdsOf
  <1>. QED  BY <1>1, <1>2 DEF L!Change, AutoSelect, Distinct

LEMMA MergeKeepsSelection ==
  ASSUME NEW list, NEW data, NEW off, NEW loading, MergeEffect(list, data, off, loading),
         Distinct(allLoadedSessions')
  PROVE  L!Change
  BY SelectionKept DEF MergeEffect

LEMMA EventKeepsSelection ==
  ASSUME IInv, ReceiveEvent, Distinct(allLoadedSessions')
  PROVE  L!Change \/ UNCHANGED <<allLoadedSessions, selectedSessionId>>
  <1> DEFINE e == Head(events)
             list == RemoveSessions(allLoadedSessions, {e.id})
             current == IF selectedSessionId = e.id THEN NoSession ELSE selectedSessionId
  <1>1. CASE SetAllLoadedSessions(list, current)
    <2>1. list \in Seq(Rows) /\ RowsOf(list) = {x \in RowsOf(allLoadedSessions) : x.id \notin {e.id}}
      <3>1. allLoadedSessions \in Seq(Rows)
        BY DEF IInv, TypeOK
      <3> HIDE DEF e
      <3>. QED  BY <3>1, RemovedRows
    <2>2. e.id \notin IdsOf(list)
      BY <2>1, IdsOfRows
    <2>3. NoSession \notin IdsOf(list)
      <3>1. NoSession \notin Sessions
        BY HistoryPageAssumption DEF NoSession, Sessions
      <3>. QED  BY <2>1, <3>1, ListType
    <2> HIDE DEF list, e
    <2>4. allLoadedSessions' = list /\ selectedSessionId' = AutoSelect(list, current)
      BY <1>1 DEF SetAllLoadedSessions
    <2>5. L!Ids' = IdsOf(list)
      BY <2>4 DEF L!Ids, IdsOf
    <2>6. L!NoSession = NoSession
      BY DEF L!NoSession, NoSession
    <2>. QED  BY <2>2, <2>3, <2>4, <2>5, <2>6 DEF L!Change, AutoSelect, Distinct
  <1>2. CASE \E sessions : SetAllLoadedSessions(sessions, selectedSessionId)
    BY <1>2, SelectionKept
  <1>3. CASE UNCHANGED <<allLoadedSessions, selectedSessionId>>
    BY <1>3
  <1>. QED  BY <1>1, <1>2, <1>3 DEF ReceiveEvent

\* ImplementsSelectableList: whatever answers and events arrive and whatever is
\* searched, no session is listed twice and the user's choice stays selected for
\* as long as it is listed (the effects on the list of history/page.tsx).
THEOREM Refinement == Spec => ImplementsSelectableList
<1>1. Init => L!Init
  BY DEF Init, L!Init, L!NoSession, NoSession
<1>2. IInv /\ IInv' /\ [Next]_vars
        => [L!Change \/ L!Click]_<<allLoadedSessions, selectedSessionId>>
  <2> SUFFICES ASSUME IInv, IInv', [Next]_vars
               PROVE  \/ L!Change \/ L!Click
                      \/ UNCHANGED <<allLoadedSessions, selectedSessionId>>
    OBVIOUS
  <2>1. Distinct(allLoadedSessions')
    BY DEF IInv
  <2>2. CASE RecordSession \/ DeleteSession
    BY <2>2 DEF RecordSession, DeleteSession, shown
  <2>3. CASE ReceiveEvent
    BY <2>1, <2>3, EventKeepsSelection
  <2>4. ASSUME NEW k \in Keys, Answer(k) \/ Fail(k)
        PROVE  UNCHANGED <<allLoadedSessions, selectedSessionId>>
    BY <2>4 DEF Answer, Fail, shown
  <2>5. ASSUME NEW k \in Keys, ReceiveAnswer(k)
        PROVE  L!Change \/ UNCHANGED <<allLoadedSessions, selectedSessionId>>
    BY <2>1, <2>5, MergeKeepsSelection DEF ReceiveAnswer
  <2>6. ASSUME NEW s \in Sessions, Click(s)
        PROVE  L!Click
    BY <2>6 DEF Click, L!Click, L!Ids, IdsOf
  <2>7. CASE Settle \/ ResetOffset \/ LoadMore
    BY <2>1, <2>7, MergeKeepsSelection DEF Settle, ResetOffset, LoadMore, ChangeKey
  <2>8. ASSUME NEW q \in Criteria, Type(q)
        PROVE  UNCHANGED <<allLoadedSessions, selectedSessionId>>
    BY <2>8 DEF Type, shown
  <2>9. ASSUME NEW c \in Configs, SetConfig(c)
        PROVE  L!Change
    BY <2>1, <2>9, MergeKeepsSelection DEF SetConfig, ChangeKey
  <2>10. CASE UNCHANGED vars
    BY <2>10 DEF vars
  <2>. QED  BY <2>2, <2>3, <2>4, <2>5, <2>6, <2>7, <2>8, <2>9, <2>10 DEF Next
<1>. QED  BY <1>1, <1>2, Inductive, PTL DEF Spec, L!Spec, ImplementsSelectableList
=============================================================================
