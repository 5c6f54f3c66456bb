-------------------------- MODULE BookmarksProofs --------------------------
(***************************************************************************)
(* Bookmarks for any sessions, bookmarks and searches, any size of a page  *)
(* and any bounds: a session is saved once, and the first page of the list *)
(* is what the table has.                                                  *)
(***************************************************************************)
EXTENDS Bookmarks, SessionListsProofs

-----------------------------------------------------------------------------
(* The invariant.                                                          *)

Rows == [id : Ids, state : Nat]
Answers == [ok : BOOLEAN, bookmarks : Seq(Rows)]
Requests == [sent : BOOLEAN, answer : Answers]
Creates == [session : Sessions, at : {"sent", "checked", "done"}]
Selectable == Ids \cup {NoBookmark}
Deletes == [id : Ids, selected : Selectable, at : {"sent", "done"}]

TypeOK ==
  /\ sessions \in SUBSET Sessions
  /\ DOMAIN saved \in SUBSET Ids /\ saved \in [DOMAIN saved -> Sessions]
  /\ version \in [Ids -> Nat] /\ next \in Nat \ {0}
  /\ creates \in Seq(Creates) /\ events \in Seq(Rows) /\ deletes \in SUBSET Deletes
  /\ cache \in [Keys -> Answers] /\ requests \in [Keys -> Requests]
  /\ searchQuery \in Searches /\ debounced \in Searches /\ filter \in Filters
  /\ offset \in 0..MaxOffset /\ resetting \in BOOLEAN
  /\ allLoadedBookmarks \in Seq(Rows) /\ selectedBookmarkId \in Selectable
  /\ hasAutoSelected \in BOOLEAN /\ isLoadingMore \in BOOLEAN
  /\ acts \in Nat /\ untold \in BOOLEAN /\ overlapped \in SUBSET Sessions

\* BookmarksOf, for any table.
Of(bookmarks, s) == {b \in DOMAIN bookmarks : bookmarks[b] = s}

\* A session whose requests did not overlap has one of them on its way at a time,
\* which finds no bookmark when it goes on to create one.
RequestsAreAlone ==
  /\ \A i, j \in DOMAIN creates :
       /\ creates[i].session = creates[j].session /\ creates[i].session \notin overlapped
       /\ creates[i].at # "done" /\ creates[j].at # "done"
       => i = j
  /\ \A i \in DOMAIN creates :
       creates[i].at = "checked" /\ creates[i].session \notin overlapped
         => Of(saved, creates[i].session) = {}
BookmarksDiffer ==
  /\ \A b \in DOMAIN saved : b < next
  /\ \A b, c \in DOMAIN saved : saved[b] = saved[c] /\ saved[b] \notin overlapped => b = c

\* No bookmark is twice in a list, nor in an answer; answers are of requests.
ListsDiffer ==
  /\ Distinct(allLoadedBookmarks)
  /\ \A k \in Keys : /\ Distinct(cache[k].bookmarks)
                     /\ Distinct(requests[k].answer.bookmarks)
                     /\ requests[k].answer.ok => requests[k].sent

\* An update on its way that is the last of its bookmark has its note of now.
Announced(queue, id) == \E n \in 1..Len(queue) : queue[n].id = id
Truthful(notes, queue) ==
  \A n \in 1..Len(queue) :
    \/ queue[n].state = notes[queue[n].id]
    \/ \E m \in 1..Len(queue) : m > n /\ queue[m].id = queue[n].id

\* A list has the bookmarks of another, place by place, and their notes of now
\* but for updates on their way.
FirstPage(notes, ids) == PageOf(notes, ids, 0, Limit)
SameIds(list, other) ==
  DOMAIN list = DOMAIN other /\ \A i \in DOMAIN list : list[i].id = other[i].id
Current(notes, queue, x) == x.state = notes[x.id] \/ Announced(queue, x.id)
UpToDate(notes, queue, ids, list) ==
  /\ SameIds(list, FirstPage(notes, ids))
  /\ \A i \in DOMAIN list : Current(notes, queue, list[i])

\* A deletion has yet to ask for the list again, or it was asked for, or the answer
\* underway is right, or the list is.
ListIsComing ==
  \/ \E d \in deletes : d.at = "done"
  \/ requests[key].sent /\ ~requests[key].answer.ok
  \/ requests[key].answer.ok /\ requests[key].answer.bookmarks = FirstPage(version, Found(key))
  \/ ~requests[key].sent /\ UpToDate(version, events, Found(key), allLoadedBookmarks)

\* What SWR would not merge again is listed already.
Cached(notes, queue, list, other) ==
  /\ SameIds(list, other)
  /\ \A i \in DOMAIN list : list[i].state = other[i].state \/ Current(notes, queue, list[i])
ListIsOfTheCache ==
  cache[key].ok => Cached(version, events, allLoadedBookmarks, cache[key].bookmarks)

Told ==
  ~untold => /\ Truthful(version, events)
             /\ offset = 0 => ListIsComing /\ ListIsOfTheCache

IInv ==
  /\ TypeOK /\ RequestsAreAlone /\ BookmarksDiffer /\ ListsDiffer /\ Told

-----------------------------------------------------------------------------
(* Keys, answers and pages.                                                *)

LEMMA KeyType ==
  ASSUME IInv
  PROVE  /\ key \in Keys /\ key.search = debounced /\ key.filter = filter
         /\ key.offset = offset /\ offset \in Nat
  <1>1. offset \in Nat
    BY BookmarksAssumption DEF IInv, TypeOK
  <1>. QED  BY <1>1 DEF IInv, TypeOK, Keys, key

LEMMA NoRows == <<>> \in Seq(Rows) /\ Distinct(<<>>)
  BY DEF Distinct

LEMMA NoAnswerType ==
  /\ NoAnswer \in Answers /\ NoAnswer.ok = FALSE /\ Distinct(NoAnswer.bookmarks)
  /\ Sent \in Requests /\ Sent.answer = NoAnswer /\ Sent.sent = TRUE
  /\ NoRequest \in Requests /\ NoRequest.answer = NoAnswer /\ NoRequest.sent = FALSE
  BY NoRows DEF NoAnswer, Answers, Sent, NoRequest, Requests

LEMMA RowAt ==
  ASSUME NEW list \in Seq(Rows), NEW i \in DOMAIN list
  PROVE  list[i] \in Rows /\ list[i].id \in Ids /\ list[i].state \in Nat
  <1>1. list[i] \in Rows
    BY RowsType
  <1>. QED  BY <1>1 DEF Rows

LEMMA HeadAt ==
  ASSUME NEW list \in Seq(Rows), list # <<>>
  PROVE  Head(list).id \in Ids
  <1>1. Head(list) \in Rows
    BY RowsType
  <1>. QED  BY <1>1 DEF Rows

\* A page of the table has the notes of now.
LEMMA PageOfTable ==
  ASSUME NEW notes \in [Ids -> Nat], NEW ids \in SUBSET Ids, NEW off \in Nat
  PROVE  LET p == PageOf(notes, ids, off, Limit)
         IN  /\ p \in Seq(Rows) /\ Distinct(p)
             /\ \A i \in DOMAIN p : p[i].state = notes[p[i].id]
  <1>1. ids \in SUBSET Nat /\ IsFiniteSet(ids) /\ Limit \in Nat
    <2>1. Ids \in SUBSET Nat /\ IsFiniteSet(Ids)
      BY BookmarksAssumption, FS_Interval DEF Ids
    <2>. QED  BY <2>1, FS_Subset, BookmarksAssumption
  <1>2. RowsIn(notes, ids, Rows)
    BY DEF RowsIn, Rows
  <1>3. LET p == PageOf(notes, ids, off, Limit)
        IN  p \in Seq(Rows) /\ Distinct(p) /\ RowsFrom(notes, ids, p)
    BY <1>1, <1>2, PageRows
  <1>. QED  BY <1>3 DEF RowsFrom, RowsOf

\* ... and which bookmarks it has does not depend on their notes.
LEMMA PagesAlike ==
  ASSUME NEW notes, NEW others, NEW ids
  PROVE  SameIds(FirstPage(notes, ids), FirstPage(others, ids))
  <1> DEFINE n == Cardinality(ids)
             last == IF 0 + Limit < n THEN 0 + Limit ELSE n
             Id(i) == InOrder(ids)[n + 1 - 0 - i]
             p == [i \in 1..(last - 0) |-> [id |-> Id(i), state |-> notes[Id(i)]]]
             q == [i \in 1..(last - 0) |-> [id |-> Id(i), state |-> others[Id(i)]]]
  <1>1. FirstPage(notes, ids) = p /\ FirstPage(others, ids) = q
    BY DEF FirstPage, PageOf
  <1> HIDE DEF last, n
  <1>2. DOMAIN p = DOMAIN q /\ \A i \in DOMAIN p : p[i].id = q[i].id
    OBVIOUS
  <1>. QED  BY <1>1, <1>2 DEF SameIds

\* Lists of the same bookmarks with the same notes are equal.
LEMMA SameList ==
  ASSUME NEW p \in Seq(Rows), NEW q \in Seq(Rows), SameIds(p, q),
         \A i \in DOMAIN p : p[i].state = q[i].state
  PROVE  p = q
  <1>1. /\ DOMAIN p = 1..Len(p) /\ DOMAIN q = 1..Len(q) /\ Len(p) \in Nat /\ Len(q) \in Nat
        /\ \A i \in 1..Len(p) : p[i] \in Rows
        /\ \A i \in 1..Len(q) : q[i] \in Rows
    BY RowsType
  <1>2. DOMAIN p = DOMAIN q
    BY DEF SameIds
  <1>3. Len(p) = Len(q)
    <2>1. \A m, n \in Nat : 1..m = 1..n => m = n
      <3> SUFFICES ASSUME NEW m \in Nat, NEW n \in Nat, 1..m = 1..n
                   PROVE  m = n
        OBVIOUS
      <3>1. m \in 1..m \/ m = 0
        OBVIOUS
      <3>2. n \in 1..n \/ n = 0
        OBVIOUS
      <3>. QED  BY <3>1, <3>2
    <2>. QED  BY <1>1, <1>2, <2>1
  <1>4. \A i \in 1..Len(p) : p[i] = q[i]
    <2> TAKE i \in 1..Len(p)
    <2>1. p[i] \in Rows /\ q[i] \in Rows /\ p[i].id = q[i].id /\ p[i].state = q[i].state
      BY <1>1, <1>2 DEF SameIds
    <2>2. \A x, y \in Rows : x.id = y.id /\ x.state = y.state => x = y
      BY DEF Rows
    <2>. QED  BY <2>1, <2>2
  <1>. QED  BY <1>3, <1>4, SeqEqual

-----------------------------------------------------------------------------
(* Updates on their way.                                                   *)

LEMMA TruthfulEnqueue ==
  ASSUME NEW notes \in [Ids -> Nat], NEW queue \in Seq(Rows), Truthful(notes, queue),
         NEW e \in Rows
  PROVE  Truthful([notes EXCEPT ![e.id] = e.state], Append(queue, e))
  <1> DEFINE r == Append(queue, e)
             new == [notes EXCEPT ![e.id] = e.state]
  <1>1. /\ Len(r) = Len(queue) + 1 /\ Len(queue) \in Nat
        /\ \A i \in 1..Len(queue) : i \in 1..Len(r) /\ r[i] = queue[i] /\ queue[i] \in Rows
        /\ Len(r) \in 1..Len(r) /\ r[Len(r)] = e
        /\ \A i \in 1..Len(r) : i # Len(r) => i \in 1..Len(queue)
    BY Enqueued
  <1> HIDE DEF r
  <1>2. \A b \in Ids : new[b] = IF b = e.id THEN e.state ELSE notes[b]
    OBVIOUS
  <1>3. e.id \in Ids /\ new[e.id] = e.state
    BY <1>2 DEF Rows
  <1> HIDE DEF new
  <1>4. ASSUME NEW n \in 1..Len(r)
        PROVE  \/ r[n].state = new[r[n].id]
               \/ \E m \in 1..Len(r) : m > n /\ r[m].id = r[n].id
    <2>1. CASE n = Len(r)
      BY <1>1, <1>3, <2>1
    <2>2. CASE n # Len(r)
      <3>1. n \in 1..Len(queue) /\ r[n] = queue[n] /\ queue[n].id \in Ids /\ Len(r) > n
        BY <1>1, <2>2 DEF Rows
      <3>2. \/ queue[n].state = notes[queue[n].id]
            \/ \E m \in 1..Len(queue) : m > n /\ queue[m].id = queue[n].id
        BY <3>1 DEF Truthful
      <3>3. CASE queue[n].id = e.id
        BY <1>1, <3>1, <3>3
      <3>4. CASE queue[n].id # e.id
        <4>1. new[queue[n].id] = notes[queue[n].id]
          BY <1>2, <3>1, <3>4
        <4>. QED  BY <1>1, <3>1, <3>2, <4>1
      <3>. QED  BY <3>3, <3>4
    <2>. QED  BY <2>1, <2>2
  <1>5. Truthful(new, r)
    BY <1>4 DEF Truthful
  <1>. QED  BY <1>5 DEF new, r

LEMMA TruthfulDequeue ==
  ASSUME NEW notes, NEW queue \in Seq(Rows), queue # <<>>, Truthful(notes, queue)
  PROVE  Truthful(notes, Tail(queue)) /\ Current(notes, Tail(queue), Head(queue))
  <1> DEFINE r == Tail(queue)
  <1>1. /\ Len(r) = Len(queue) - 1 /\ Len(queue) \in Nat \ {0}
        /\ Head(queue) = queue[1] /\ 1 \in 1..Len(queue)
        /\ \A i \in 1..Len(r) : i + 1 \in 1..Len(queue) /\ r[i] = queue[i + 1]
        /\ \A i \in 1..Len(queue) : i # 1 => i - 1 \in 1..Len(r) /\ r[i - 1] = queue[i]
    BY Dequeued
  <1> HIDE DEF r
  <1>2. \A n \in 1..Len(queue) : \/ queue[n].state = notes[queue[n].id]
                                 \/ \E m \in 1..Len(queue) : m > n /\ queue[m].id = queue[n].id
    BY DEF Truthful
  <1>3. \A m, n \in 1..Len(queue) : m > n => m - 1 \in 1..Len(r) /\ r[m - 1] = queue[m] /\ m - 1 > n - 1
    BY <1>1
  <1>4. ASSUME NEW n \in 1..Len(r)
        PROVE  \/ r[n].state = notes[r[n].id]
               \/ \E m \in 1..Len(r) : m > n /\ r[m].id = r[n].id
    <2>1. n + 1 \in 1..Len(queue) /\ r[n] = queue[n + 1] /\ n + 1 - 1 = n
      BY <1>1
    <2>2. CASE queue[n + 1].state = notes[queue[n + 1].id]
      BY <2>1, <2>2
    <2>3. ASSUME NEW m \in 1..Len(queue), m > n + 1, queue[m].id = queue[n + 1].id
          PROVE  \E l \in 1..Len(r) : l > n /\ r[l].id = r[n].id
      <3>1. m - 1 \in 1..Len(r) /\ r[m - 1] = queue[m] /\ m - 1 > n + 1 - 1
        BY <1>3, <2>1, <2>3
      <3>. QED  BY <2>1, <2>3, <3>1
    <2>. QED  BY <1>2, <2>1, <2>2, <2>3
  <1>5. Current(notes, r, queue[1])
    <2>1. CASE queue[1].state = notes[queue[1].id]
      BY <2>1 DEF Current
    <2>2. ASSUME NEW m \in 1..Len(queue), m > 1, queue[m].id = queue[1].id
          PROVE  Announced(r, queue[1].id)
      <3>1. m - 1 \in 1..Len(r) /\ r[m - 1] = queue[m]
        BY <1>1, <2>2
      <3>. QED  BY <2>2, <3>1 DEF Announced
    <2>. QED  BY <1>1, <1>2, <2>1, <2>2 DEF Current
  <1>. QED  BY <1>1, <1>4, <1>5 DEF Truthful, r

\* A row is announced as its note changes.
LEMMA CurrentEnqueue ==
  ASSUME NEW notes \in [Ids -> Nat], NEW queue \in Seq(Rows), NEW e \in Rows, NEW x \in Rows,
         Current(notes, queue, x)
  PROVE  Current([notes EXCEPT ![e.id] = e.state], Append(queue, e), x)
  <1>1. \A id : Announced(queue, id) \/ id = e.id => Announced(Append(queue, e), id)
    BY Enqueued DEF Announced
  <1>. QED  BY <1>1 DEF Current, Rows

LEMMA CurrentDequeue ==
  ASSUME NEW notes, NEW queue \in Seq(Rows), queue # <<>>, NEW x, x.id # Head(queue).id,
         Current(notes, queue, x)
  PROVE  Current(notes, Tail(queue), x)
  <1>1. Announced(queue, x.id) => Announced(Tail(queue), x.id)
    BY Dequeued, SMTT(30) DEF Announced
  <1>. QED  BY <1>1 DEF Current

\* The list with an updated row.
Updated(list, e) == [i \in DOMAIN list |-> IF list[i].id = e.id THEN e ELSE list[i]]

LEMMA UpdatedRows ==
  ASSUME NEW list \in Seq(Rows), NEW e \in Rows
  PROVE  /\ Updated(list, e) \in Seq(Rows) /\ DOMAIN Updated(list, e) = DOMAIN list
         /\ \A i \in DOMAIN list : Updated(list, e)[i].id = list[i].id
         /\ Distinct(list) => Distinct(Updated(list, e))
  <1> DEFINE n == Len(list)
             r == Updated(list, e)
  <1>1. n \in Nat /\ DOMAIN list = 1..n /\ \A i \in 1..n : list[i] \in Rows
    BY RowsType
  <1> HIDE DEF n
  <1>2. r = [i \in 1..n |-> IF list[i].id = e.id THEN e ELSE list[i]]
    BY <1>1 DEF Updated
  <1> HIDE DEF r
  <1>3. r \in [1..n -> Rows] /\ \A i \in 1..n : r[i].id = list[i].id
    BY <1>1, <1>2
  <1>4. r \in Seq(Rows) /\ DOMAIN r = 1..n
    BY <1>1, <1>3
  <1>. QED  BY <1>1, <1>3, <1>4 DEF Distinct, r

LEMMA UpToDateEnqueue ==
  ASSUME NEW notes \in [Ids -> Nat], NEW queue \in Seq(Rows), NEW e \in Rows, NEW ids,
         NEW list \in Seq(Rows), NEW other
  PROVE  LET new == [notes EXCEPT ![e.id] = e.state]
         IN  /\ UpToDate(notes, queue, ids, list) => UpToDate(new, Append(queue, e), ids, list)
             /\ Cached(notes, queue, list, other) => Cached(new, Append(queue, e), list, other)
  <1> DEFINE new == [notes EXCEPT ![e.id] = e.state]
  <1>1. \A i \in DOMAIN list : Current(notes, queue, list[i]) => Current(new, Append(queue, e), list[i])
    BY RowAt, CurrentEnqueue
  <1> HIDE DEF new
  <1>2. SameIds(FirstPage(notes, ids), FirstPage(new, ids))
    BY PagesAlike
  <1>3. SameIds(list, FirstPage(notes, ids)) => SameIds(list, FirstPage(new, ids))
    BY <1>2 DEF SameIds
  <1>. QED  BY <1>1, <1>3 DEF UpToDate, Cached, new

LEMMA UpToDateDequeue ==
  ASSUME NEW notes, NEW queue \in Seq(Rows), queue # <<>>, Truthful(notes, queue), NEW ids,
         NEW list \in Seq(Rows), NEW other
  PROVE  LET new == Updated(list, Head(queue))
         IN  /\ UpToDate(notes, queue, ids, list) => UpToDate(notes, Tail(queue), ids, new)
             /\ Cached(notes, queue, list, other) => Cached(notes, Tail(queue), new, other)
  <1> DEFINE e == Head(queue)
             new == Updated(list, e)
  <1>1. e \in Rows /\ Current(notes, Tail(queue), e)
    BY Dequeued, TruthfulDequeue
  <1>2. \A i \in DOMAIN list : new[i] = IF list[i].id = e.id THEN e ELSE list[i]
    BY DEF Updated
  <1>3. DOMAIN new = DOMAIN list /\ \A i \in DOMAIN list : new[i].id = list[i].id
    BY <1>1, UpdatedRows
  <1> HIDE DEF new, e
  <1>4. \A i \in DOMAIN list :
          /\ Current(notes, queue, list[i]) => Current(notes, Tail(queue), new[i])
          /\ new[i] = list[i] \/ Current(notes, Tail(queue), new[i])
    <2> TAKE i \in DOMAIN list
    <2>1. CASE list[i].id = e.id
      BY <1>1, <1>2, <2>1
    <2>2. CASE list[i].id # e.id
      BY <1>2, <2>2, CurrentDequeue DEF e
    <2>. QED  BY <2>1, <2>2
  <1>5. \A p : SameIds(list, p) => SameIds(new, p)
    BY <1>3 DEF SameIds
  <1>. QED  BY <1>3, <1>4, <1>5 DEF UpToDate, Cached, new, e

-----------------------------------------------------------------------------
(* What a step leaves alone.                                               *)

LEMMA SavedKept ==
  ASSUME IInv, UNCHANGED <<creates, saved, next, overlapped>>
  PROVE  RequestsAreAlone' /\ BookmarksDiffer'
  BY DEF IInv, RequestsAreAlone, BookmarksDiffer

\* A bookmark less does not harm.
LEMMA SavedLess ==
  ASSUME IInv, NEW b, saved' = Removed(b), UNCHANGED <<creates, next, overlapped>>
  PROVE  /\ RequestsAreAlone' /\ BookmarksDiffer'
         /\ DOMAIN saved' \in SUBSET Ids /\ saved' \in [DOMAIN saved' -> Sessions]
  <1>1. /\ DOMAIN saved' = DOMAIN saved \ {b}
        /\ \A c \in DOMAIN saved' : saved'[c] = saved[c]
        /\ saved' = [c \in DOMAIN saved \ {b} |-> saved[c]]
    BY DEF Removed
  <1>2. DOMAIN saved \in SUBSET Ids /\ saved \in [DOMAIN saved -> Sessions]
    BY DEF IInv, TypeOK
  <1>3. BookmarksDiffer'
    BY <1>1 DEF IInv, BookmarksDiffer
  <1>4. RequestsAreAlone'
    <2>1. \A s : Of(saved', s) \subseteq Of(saved, s)
      BY <1>1 DEF Of
    <2>. QED  BY <2>1 DEF IInv, RequestsAreAlone
  <1>. QED  BY <1>1, <1>2, <1>3, <1>4

LEMMA ListsKept ==
  ASSUME IInv, UNCHANGED <<swr, allLoadedBookmarks>>
  PROVE  ListsDiffer'
  BY DEF IInv, ListsDiffer, swr

LEMMA ToldKept ==
  ASSUME IInv, UNCHANGED <<version, saved, events, swr, debounced, filter, offset,
                           allLoadedBookmarks, untold>>,
         deletes \subseteq deletes'
  PROVE  Told'
  <1>1. Told /\ UNCHANGED <<version, events, requests, cache, offset, allLoadedBookmarks, untold>>
    BY DEF IInv, swr
  <1>2. key' = key /\ Found(key)' = Found(key)
    BY DEF key, Found
  <1>3. ListIsComing => ListIsComing'
    BY <1>1, <1>2 DEF ListIsComing
  <1>4. ListIsOfTheCache => ListIsOfTheCache'
    BY <1>1, <1>2 DEF ListIsOfTheCache
  <1>. QED  BY <1>1, <1>3, <1>4 DEF Told

LEMMA ToldNothing == untold' = TRUE => Told'
  BY DEF Told

-----------------------------------------------------------------------------
(* Saving a session.                                                       *)

\* The step from sent to checked or done of one request.
LEMMA StepHandleBookmark ==
  ASSUME IInv, NEW s \in Sessions, HandleBookmark(s)
  PROVE  IInv'
  <1> DEFINE c == [session |-> s, at |-> "sent"]
  <1>1. creates \in Seq(Creates) /\ c \in Creates
    BY DEF IInv, TypeOK, Creates
  <1>2. /\ creates' = Append(creates, c)
        /\ overlapped' = overlapped \cup (IF InFlight(s) THEN {s} ELSE {})
        /\ UNCHANGED <<table, events, swr, deletes, view, shown, untold>>
    BY DEF HandleBookmark
  <1>3. acts' \in Nat
    BY DEF HandleBookmark, Act, IInv, TypeOK
  <1>4. c.session = s /\ c.at = "sent"
    OBVIOUS
  <1> HIDE DEF c
  <1>5. /\ creates' \in Seq(Creates) /\ Len(creates') \in Nat /\ Len(creates) \in Nat
        /\ \A i \in 1..Len(creates) : creates'[i] = creates[i]
        /\ creates'[Len(creates')] = c
        /\ \A i \in 1..Len(creates') : i # Len(creates') => i \in 1..Len(creates)
    BY <1>1, <1>2, Enqueued
  <1>6. DOMAIN creates = 1..Len(creates) /\ DOMAIN creates' = 1..Len(creates')
    BY <1>1, <1>5
  <1>7. TypeOK'
    <2>1. overlapped' \in SUBSET Sessions
      BY <1>2 DEF IInv, TypeOK
    <2>. QED  BY <1>2, <1>3, <1>5, <2>1 DEF IInv, TypeOK, table, swr, view, shown
  <1>8. RequestsAreAlone'
    <2>1. saved' = saved
      BY <1>2 DEF table
    <2>2. overlapped \subseteq overlapped' /\ (InFlight(s) => s \in overlapped')
      BY <1>2
    <2>3. \A i \in DOMAIN creates :
            creates[i].session = s /\ creates[i].at # "done" => s \in overlapped'
      BY <2>2 DEF InFlight
    <2>4. \A i \in DOMAIN creates' : creates'[i].at = "checked"
            => i \in DOMAIN creates /\ creates'[i] = creates[i]
      BY <1>4, <1>5, <1>6
    <2>5. \A i, j \in DOMAIN creates' :
            /\ creates'[i].session = creates'[j].session /\ creates'[i].session \notin overlapped'
            /\ creates'[i].at # "done" /\ creates'[j].at # "done"
            => i = j
      <3> SUFFICES ASSUME NEW i \in DOMAIN creates', NEW j \in DOMAIN creates',
                          creates'[i].session = creates'[j].session,
                          creates'[i].session \notin overlapped',
                          creates'[i].at # "done", creates'[j].at # "done"
                   PROVE  i = j
        OBVIOUS
      <3>1. CASE i # Len(creates') /\ j # Len(creates')
        <4>1. i \in DOMAIN creates /\ j \in DOMAIN creates
              /\ creates'[i] = creates[i] /\ creates'[j] = creates[j]
          BY <1>5, <1>6, <3>1
        <4>. QED  BY <2>2, <4>1 DEF IInv, RequestsAreAlone
      <3>2. CASE i = Len(creates') /\ j # Len(creates')
        <4>1. j \in DOMAIN creates /\ creates'[j] = creates[j] /\ creates'[i].session = s
          BY <1>4, <1>5, <1>6, <3>2
        <4>. QED  BY <2>3, <4>1
      <3>3. CASE i # Len(creates') /\ j = Len(creates')
        <4>1. i \in DOMAIN creates /\ creates'[i] = creates[i] /\ creates'[j].session = s
          BY <1>4, <1>5, <1>6, <3>3
        <4>. QED  BY <2>3, <4>1
      <3>. QED  BY <3>1, <3>2, <3>3
    <2>6. \A i \in DOMAIN creates' :
            creates'[i].at = "checked" /\ creates'[i].session \notin overlapped'
              => Of(saved', creates'[i].session) = {}
      BY <2>1, <2>2, <2>4 DEF IInv, RequestsAreAlone
    <2>. QED  BY <2>5, <2>6 DEF RequestsAreAlone
  <1>9. BookmarksDiffer'
    BY <1>2 DEF IInv, BookmarksDiffer, table
  <1>10. ListsDiffer' /\ Told'
    BY <1>2, ListsKept, ToldKept DEF table, view, shown
  <1>. QED  BY <1>7, <1>8, <1>9, <1>10 DEF IInv

LEMMA StepDeleteSession ==
  ASSUME IInv, NEW s \in Sessions, DeleteSession(s)
  PROVE  IInv'
  <1>1. /\ sessions' \in SUBSET Sessions /\ acts' \in Nat
        /\ UNCHANGED <<saved, version, next, creates, events, swr, deletes, view, shown, untold,
                       overlapped>>
    BY DEF DeleteSession, Act, IInv, TypeOK
  <1>2. TypeOK'
    BY <1>1 DEF IInv, TypeOK, swr, view, shown
  <1>3. RequestsAreAlone' /\ BookmarksDiffer' /\ ListsDiffer' /\ Told'
    BY <1>1, SavedKept, ListsKept, ToldKept DEF view, shown
  <1>. QED  BY <1>2, <1>3 DEF IInv

\* A request goes from one state to another.
LEMMA RequestMoves ==
  ASSUME IInv, NEW i \in DOMAIN creates, NEW at \in {"checked", "done"},
         creates' = [creates EXCEPT ![i].at = at]
  PROVE  /\ creates' \in Seq(Creates) /\ DOMAIN creates' = DOMAIN creates
         /\ \A j \in DOMAIN creates : /\ creates'[j].session = creates[j].session
                                      /\ creates'[j].at = IF j = i THEN at ELSE creates[j].at
         /\ creates[i].session \in Sessions
  <1> DEFINE n == Len(creates)
  <1>1. creates \in Seq(Creates)
    BY DEF IInv, TypeOK
  <1>2. n \in Nat /\ DOMAIN creates = 1..n /\ \A j \in 1..n : creates[j] \in Creates
    BY <1>1, RowsType
  <1> HIDE DEF n
  <1>3. creates \in [1..n -> Creates]
    BY <1>1, <1>2
  <1>4. creates' \in [1..n -> Creates]
    BY <1>2, <1>3 DEF Creates
  <1>5. creates' \in Seq(Creates)
    BY <1>2, <1>4
  <1>. QED  BY <1>2, <1>3, <1>4, <1>5 DEF Creates

\* Requests stay alone when one goes on and those that checked find no bookmark.
LEMMA MovedAlone ==
  ASSUME IInv, NEW i \in DOMAIN creates, NEW at, creates[i].at # "done",
         DOMAIN creates' = DOMAIN creates,
         \A j \in DOMAIN creates : /\ creates'[j].session = creates[j].session
                                   /\ creates'[j].at = IF j = i THEN at ELSE creates[j].at,
         UNCHANGED overlapped,
         \A j \in DOMAIN creates : creates'[j].at = "checked" /\ creates[j].session \notin overlapped
           => Of(saved', creates[j].session) = {}
  PROVE  RequestsAreAlone'
  <1>1. \A j \in DOMAIN creates : creates'[j].at # "done" => creates[j].at # "done"
    OBVIOUS
  <1>2. \A j, n \in DOMAIN creates :
          /\ creates[j].session = creates[n].session /\ creates[j].session \notin overlapped
          /\ creates[j].at # "done" /\ creates[n].at # "done"
          => j = n
    BY DEF IInv, RequestsAreAlone
  <1>3. ASSUME NEW j \in DOMAIN creates', NEW n \in DOMAIN creates',
               creates'[j].session = creates'[n].session, creates'[j].session \notin overlapped',
               creates'[j].at # "done", creates'[n].at # "done"
        PROVE  j = n
    <2>1. j \in DOMAIN creates /\ n \in DOMAIN creates
      OBVIOUS
    <2>2. creates[j].at # "done" /\ creates[n].at # "done"
      BY <1>1, <1>3, <2>1
    <2>3. creates[j].session = creates[n].session /\ creates[j].session \notin overlapped
      BY <1>3, <2>1
    <2>. QED  BY <1>2, <2>1, <2>2, <2>3
  <1>4. \A j \in DOMAIN creates' :
          creates'[j].at = "checked" /\ creates'[j].session \notin overlapped'
            => Of(saved', creates'[j].session) = {}
    OBVIOUS
  <1>. QED  BY <1>3, <1>4 DEF RequestsAreAlone

LEMMA StepCheckBookmarked ==
  ASSUME IInv, NEW i \in DOMAIN creates, CheckBookmarked(i)
  PROVE  IInv'
  <1> DEFINE s == creates[i].session
             at == IF BookmarksOf(s) = {} THEN "checked" ELSE "done"
  <1>1. /\ creates[i].at = "sent" /\ at \in {"checked", "done"}
        /\ creates' = [creates EXCEPT ![i].at = at]
        /\ UNCHANGED <<table, events, swr, deletes, view, shown, acts, untold, overlapped>>
    BY DEF CheckBookmarked
  <1>2. at = "checked" => Of(saved, s) = {}
    BY DEF BookmarksOf, Of
  <1> HIDE DEF at
  <1>3. /\ creates' \in Seq(Creates) /\ DOMAIN creates' = DOMAIN creates
        /\ \A j \in DOMAIN creates : /\ creates'[j].session = creates[j].session
                                     /\ creates'[j].at = IF j = i THEN at ELSE creates[j].at
    BY <1>1, RequestMoves
  <1>4. TypeOK'
    BY <1>1, <1>3 DEF IInv, TypeOK, table, swr, view, shown
  <1>5. RequestsAreAlone'
    <2>1. saved' = saved
      BY <1>1 DEF table
    <2>2. \A j \in DOMAIN creates :
            creates'[j].at = "checked" /\ creates[j].session \notin overlapped
              => Of(saved, creates[j].session) = {}
      BY <1>2, <1>3 DEF IInv, RequestsAreAlone
    <2>. QED  BY <1>1, <1>3, <2>1, <2>2, MovedAlone
  <1>6. BookmarksDiffer'
    BY <1>1 DEF IInv, BookmarksDiffer, table
  <1>7. ListsDiffer' /\ Told'
    BY <1>1, ListsKept, ToldKept DEF table, view, shown
  <1>. QED  BY <1>4, <1>5, <1>6, <1>7 DEF IInv

LEMMA StepCreateBookmark ==
  ASSUME IInv, NEW i \in DOMAIN creates, CreateBookmark(i)
  PROVE  IInv'
  <1> DEFINE s == creates[i].session
  <1>1. /\ creates[i].at = "checked" /\ creates' = [creates EXCEPT ![i].at = "done"]
        /\ UNCHANGED <<sessions, version, events, swr, deletes, view, shown, acts, overlapped>>
    BY DEF CreateBookmark
  <1>2. /\ creates' \in Seq(Creates) /\ DOMAIN creates' = DOMAIN creates
        /\ \A j \in DOMAIN creates : /\ creates'[j].session = creates[j].session
                                     /\ creates'[j].at = IF j = i THEN "done" ELSE creates[j].at
        /\ s \in Sessions
    BY <1>1, RequestMoves
  <1>3. /\ DOMAIN saved \in SUBSET Ids /\ saved \in [DOMAIN saved -> Sessions]
        /\ next \in Nat \ {0} /\ untold \in BOOLEAN
    BY DEF IInv, TypeOK
  <1>4. CASE UNCHANGED <<saved, next, untold>>
    <2>1. TypeOK'
      BY <1>1, <1>2, <1>4 DEF IInv, TypeOK, swr, view, shown
    <2>3. RequestsAreAlone'
      <3>1. \A j \in DOMAIN creates :
              creates'[j].at = "checked" /\ creates[j].session \notin overlapped
                => Of(saved, creates[j].session) = {}
        BY <1>2 DEF IInv, RequestsAreAlone
      <3>. QED  BY <1>1, <1>2, <1>4, <3>1, MovedAlone
    <2>4. BookmarksDiffer'
      BY <1>1, <1>4 DEF IInv, BookmarksDiffer
    <2>5. ListsDiffer' /\ Told'
      BY <1>1, <1>4, ListsKept, ToldKept DEF view, shown
    <2>. QED  BY <2>1, <2>3, <2>4, <2>5 DEF IInv
  <1>5. CASE /\ next \in Ids /\ next' = next + 1 /\ untold' = TRUE
             /\ saved' = [b \in DOMAIN saved \cup {next} |-> IF b = next THEN s ELSE saved[b]]
    <2>1. /\ DOMAIN saved' = DOMAIN saved \cup {next} /\ next \notin DOMAIN saved
          /\ saved'[next] = s /\ \A b \in DOMAIN saved : saved'[b] = saved[b]
      <3>1. \A b \in DOMAIN saved : b < next
        BY DEF IInv, BookmarksDiffer
      <3>2. ~(next < next)
        BY <1>3
      <3>. QED  BY <1>5, <3>1, <3>2
    <2>2. TypeOK'
      <3>1. DOMAIN saved' \in SUBSET Ids /\ saved' \in [DOMAIN saved' -> Sessions]
        BY <1>2, <1>3, <1>5
      <3>2. next' \in Nat \ {0}
        BY <1>3, <1>5
      <3>. QED  BY <1>1, <1>2, <1>5, <3>1, <3>2 DEF IInv, TypeOK, swr, view, shown
    <2>3. s \notin overlapped => Of(saved, s) = {}
      BY <1>1 DEF IInv, RequestsAreAlone
    <2>4. RequestsAreAlone'
      <3>1. \A q : q # s => Of(saved', q) = Of(saved, q)
        BY <2>1 DEF Of
      <3>2. ASSUME NEW j \in DOMAIN creates, creates'[j].at = "checked",
                   creates[j].session \notin overlapped
            PROVE  Of(saved', creates[j].session) = {}
        <4>1. j # i /\ creates[j].at = "checked"
          BY <1>2, <3>2
        <4>2. creates[j].session # s
          BY <1>1, <3>2, <4>1 DEF IInv, RequestsAreAlone
        <4>3. Of(saved, creates[j].session) = {}
          BY <3>2, <4>1 DEF IInv, RequestsAreAlone
        <4>. QED  BY <3>1, <4>2, <4>3
      <3>. QED  BY <1>1, <1>2, <3>2, MovedAlone
    <2>5. BookmarksDiffer'
      <3>1. \A b \in DOMAIN saved' : b < next'
        <4>1. \A b \in DOMAIN saved : b < next /\ b \in Nat
          BY <1>3, BookmarksAssumption DEF IInv, BookmarksDiffer, Ids
        <4>2. \A b \in DOMAIN saved : b < next + 1
          BY <1>3, <4>1
        <4>3. next < next + 1
          BY <1>3
        <4>4. \A b \in DOMAIN saved' : b = next \/ b \in DOMAIN saved
          BY <2>1
        <4>. QED  BY <1>5, <4>2, <4>3, <4>4
      <3>2. \A b \in DOMAIN saved : saved[b] = s => s \in overlapped
        BY <2>3 DEF Of
      <3>. QED  BY <1>1, <2>1, <3>1, <3>2 DEF IInv, BookmarksDiffer
    <2>6. ListsDiffer' /\ Told'
      BY <1>1, <1>5, ListsKept, ToldNothing DEF shown
    <2>. QED  BY <2>2, <2>4, <2>5, <2>6 DEF IInv
  <1>. QED  BY <1>4, <1>5 DEF CreateBookmark

-----------------------------------------------------------------------------
(* The other handlers of the server.                                       *)

LEMMA StepUpdateBookmark ==
  ASSUME IInv, NEW b \in Ids, UpdateBookmark(b)
  PROVE  IInv'
  <1> DEFINE e == [id |-> b, state |-> version[b] + 1]
             new == [version EXCEPT ![e.id] = e.state]
  <1>1. /\ version \in [Ids -> Nat] /\ events \in Seq(Rows) /\ untold \in BOOLEAN
        /\ allLoadedBookmarks \in Seq(Rows)
    BY DEF IInv, TypeOK
  <1>2. e \in Rows
    BY <1>1 DEF Rows
  <1>3. /\ version' = new /\ acts' \in Nat
        /\ UNCHANGED <<sessions, saved, next, creates, swr, deletes, view, shown, overlapped>>
    BY DEF UpdateBookmark, Act, IInv, TypeOK
  <1>4. \/ events' = Append(events, e) /\ untold' = (untold \/ AnswerUnderway)
        \/ untold' = TRUE /\ UNCHANGED events
    BY DEF UpdateBookmark
  <1>5. new \in [Ids -> Nat]
    BY <1>1
  <1> HIDE DEF e
  <1>6. events' \in Seq(Rows) /\ untold' \in BOOLEAN
    <2>1. events' \in Seq(Rows)
      BY <1>1, <1>2, <1>4, Enqueued, SMTT(20)
    <2>2. (untold \/ AnswerUnderway) \in BOOLEAN
      OBVIOUS
    <2>. QED  BY <1>4, <2>1, <2>2
  <1>7. TypeOK'
    BY <1>3, <1>5, <1>6 DEF IInv, TypeOK, swr, view, shown
  <1>8. RequestsAreAlone' /\ BookmarksDiffer' /\ ListsDiffer'
    BY <1>3, SavedKept, ListsKept DEF shown
  <1>9. Told'
    <2> SUFFICES ASSUME untold' = FALSE
                 PROVE  /\ Truthful(version', events')
                        /\ offset' = 0 => ListIsComing' /\ ListIsOfTheCache'
      BY <1>6 DEF Told
    <2>1. events' = Append(events, e) /\ ~untold /\ ~AnswerUnderway
      BY <1>4
    <2>2. Truthful(version, events) /\ (offset = 0 => ListIsComing /\ ListIsOfTheCache)
      BY <2>1 DEF IInv, Told
    <2>3. Truthful(version', events')
      BY <1>1, <1>2, <1>3, <2>1, <2>2, TruthfulEnqueue
    <2>4. \A ids, other :
            /\ UpToDate(version, events, ids, allLoadedBookmarks)
                 => UpToDate(version', events', ids, allLoadedBookmarks)
            /\ Cached(version, events, allLoadedBookmarks, other)
                 => Cached(version', events', allLoadedBookmarks, other)
      BY <1>1, <1>2, <1>3, <2>1, UpToDateEnqueue
    <2>5. ~requests[key].answer.ok
      BY <2>1, KeyType DEF AnswerUnderway
    <2>6. key' = key /\ Found(key)' = Found(key)
      BY <1>3 DEF key, Found, view
    <2>7. UNCHANGED <<requests, cache, deletes, offset, allLoadedBookmarks>>
      BY <1>3 DEF swr, view, shown
    <2>8. ListIsComing => ListIsComing'
      BY <2>4, <2>5, <2>6, <2>7 DEF ListIsComing
    <2>9. ListIsOfTheCache => ListIsOfTheCache'
      BY <2>4, <2>6, <2>7 DEF ListIsOfTheCache
    <2>. QED  BY <2>2, <2>3, <2>7, <2>8, <2>9
  <1>. QED  BY <1>7, <1>8, <1>9 DEF IInv

LEMMA StepDeleteElsewhere ==
  ASSUME IInv, NEW b \in Ids, DeleteElsewhere(b)
  PROVE  IInv'
  <1>1. /\ saved' = Removed(b) /\ untold' = TRUE /\ acts' \in Nat
        /\ UNCHANGED <<sessions, version, next, creates, events, swr, deletes, view, shown,
                       overlapped>>
    BY DEF DeleteElsewhere, Act, IInv, TypeOK
  <1>2. /\ RequestsAreAlone' /\ BookmarksDiffer'
        /\ DOMAIN saved' \in SUBSET Ids /\ saved' \in [DOMAIN saved' -> Sessions]
    BY <1>1, SavedLess
  <1>3. TypeOK'
    BY <1>1, <1>2 DEF IInv, TypeOK, swr, view, shown
  <1>4. ListsDiffer' /\ Told'
    BY <1>1, ListsKept, ToldNothing DEF shown
  <1>. QED  BY <1>2, <1>3, <1>4 DEF IInv

LEMMA StepDeleteBookmark ==
  ASSUME IInv, NEW d \in deletes, DeleteBookmark(d)
  PROVE  IInv'
  <1> DEFINE done == [d EXCEPT !.at = "done"]
  <1>1. /\ saved' = Removed(d.id) /\ deletes' = (deletes \ {d}) \cup {done}
        /\ UNCHANGED <<sessions, version, next, creates, events, swr, view, shown, acts, untold,
                       overlapped>>
    BY DEF DeleteBookmark
  <1>2. d \in Deletes
    BY DEF IInv, TypeOK
  <1>3. done \in Deletes /\ done.at = "done"
    BY <1>2 DEF Deletes
  <1> HIDE DEF done
  <1>4. /\ RequestsAreAlone' /\ BookmarksDiffer'
        /\ DOMAIN saved' \in SUBSET Ids /\ saved' \in [DOMAIN saved' -> Sessions]
    BY <1>1, SavedLess
  <1>5. TypeOK'
    BY <1>1, <1>3, <1>4 DEF IInv, TypeOK, swr, view, shown
  <1>6. ListsDiffer'
    BY <1>1, ListsKept DEF shown
  <1>7. Told'
    <2>1. ListIsComing'
      BY <1>1, <1>3 DEF ListIsComing
    <2>2. key' = key
      BY <1>1 DEF key, view
    <2>3. ListIsOfTheCache => ListIsOfTheCache'
      BY <1>1, <2>2 DEF ListIsOfTheCache, swr, shown
    <2>. QED  BY <1>1, <2>1, <2>3 DEF IInv, Told, view
  <1>. QED  BY <1>4, <1>5, <1>6, <1>7 DEF IInv

\* What the server finds for a key is a set of bookmarks.
LEMMA FoundType ==
  ASSUME IInv, NEW k
  PROVE  Found(k) \in SUBSET Ids
  BY DEF IInv, TypeOK, Found

LEMMA StepAnswer ==
  ASSUME IInv, NEW k \in Keys, Answer(k)
  PROVE  IInv'
  <1> DEFINE page == PageOf(version, Found(k), k.offset, Limit)
             answer == [ok |-> TRUE, bookmarks |-> page]
  <1>1. page \in Seq(Rows) /\ Distinct(page)
    <2>1. version \in [Ids -> Nat] /\ k.offset \in Nat
      BY BookmarksAssumption DEF IInv, TypeOK, Keys
    <2>. QED  BY <2>1, FoundType, PageOfTable
  <1>2. /\ requests' = [requests EXCEPT ![k].answer = answer] /\ requests[k].sent
        /\ UNCHANGED <<table, creates, events, cache, deletes, view, shown, acts, untold, overlapped>>
    BY DEF Answer
  <1>3. k.offset = 0 => page = FirstPage(version, Found(k))
    BY DEF FirstPage
  <1> HIDE DEF page
  <1>4. answer \in Answers /\ answer.bookmarks = page /\ answer.ok = TRUE
    BY <1>1 DEF Answers
  <1> HIDE DEF answer
  <1>5. requests \in [Keys -> Requests]
    BY DEF IInv, TypeOK
  <1>6. /\ requests' \in [Keys -> Requests]
        /\ \A j \in Keys : /\ requests'[j].answer = IF j = k THEN answer ELSE requests[j].answer
                           /\ requests'[j].sent = requests[j].sent
    BY <1>2, <1>4, <1>5 DEF Requests
  <1>7. TypeOK'
    BY <1>2, <1>6 DEF IInv, TypeOK, table, view, shown
  <1>8. RequestsAreAlone' /\ BookmarksDiffer'
    BY <1>2, SavedKept DEF table
  <1>9. ListsDiffer'
    BY <1>1, <1>2, <1>4, <1>6 DEF IInv, ListsDiffer, shown
  <1>10. Told'
    <2>1. key' = key /\ Found(key)' = Found(key)
      BY <1>2 DEF key, Found, table, view
    <2>2. UNCHANGED <<version, events, cache, deletes, offset, allLoadedBookmarks, untold>>
      BY <1>2 DEF table, view, shown
    <2>3. key \in Keys /\ key.offset = offset
      BY KeyType
    <2>4. CASE k = key
      <3>1. offset = 0 => ListIsComing'
        BY <1>3, <1>4, <1>6, <2>1, <2>2, <2>3, <2>4 DEF ListIsComing
      <3>2. ListIsOfTheCache => ListIsOfTheCache'
        BY <2>1, <2>2 DEF ListIsOfTheCache
      <3>. QED  BY <2>2, <3>1, <3>2 DEF IInv, Told
    <2>5. CASE k # key
      <3>1. requests'[key].answer = requests[key].answer /\ requests'[key].sent = requests[key].sent
        BY <1>6, <2>3, <2>5
      <3>2. ListIsComing => ListIsComing'
        BY <2>1, <2>2, <3>1 DEF ListIsComing
      <3>3. ListIsOfTheCache => ListIsOfTheCache'
        BY <2>1, <2>2 DEF ListIsOfTheCache
      <3>. QED  BY <2>2, <3>2, <3>3 DEF IInv, Told
    <2>. QED  BY <2>4, <2>5
  <1>. QED  BY <1>7, <1>8, <1>9, <1>10 DEF IInv

-----------------------------------------------------------------------------
(* The steps of the page.                                                  *)

\* The effect that merges an answer: the first page of the list is the answer.
LEMMA Shown ==
  ASSUME IInv, NEW data \in Answers, Distinct(data.bookmarks), NEW off \in Nat,
         NEW auto \in BOOLEAN, NEW loading \in BOOLEAN, MergeEffect(data, off, auto, loading)
  PROVE  /\ allLoadedBookmarks' \in Seq(Rows) /\ Distinct(allLoadedBookmarks')
         /\ selectedBookmarkId' \in Selectable
         /\ hasAutoSelected' \in BOOLEAN /\ isLoadingMore' \in BOOLEAN
         /\ data.ok /\ off = 0 => allLoadedBookmarks' = data.bookmarks
  <1> DEFINE list == allLoadedBookmarks
             merged == MergePage(list, data.bookmarks, off)
             selects == off = 0 /\ data.bookmarks # <<>> /\ ~auto
  <1>1. /\ data.bookmarks \in Seq(Rows) /\ list \in Seq(Rows) /\ Distinct(list)
        /\ selectedBookmarkId \in Selectable
    BY DEF Answers, IInv, TypeOK, ListsDiffer
  <1>2. off = 0 => merged = data.bookmarks
    BY DEF MergePage
  <1>3. merged \in Seq(Rows) /\ Distinct(merged)
    <2>1. CASE off = 0
      BY <1>1, <1>2, <2>1
    <2>2. CASE off # 0
      BY <1>1, <2>2, MergedPage
    <2>. QED  BY <2>1, <2>2
  <1>4. selects => Head(data.bookmarks).id \in Selectable
    BY <1>1, HeadAt DEF Selectable
  <1> HIDE DEF merged
  <1>5. CASE data.ok
    <2>1. /\ allLoadedBookmarks' = merged
          /\ selectedBookmarkId' = IF selects THEN Head(data.bookmarks).id ELSE selectedBookmarkId
          /\ hasAutoSelected' = (auto \/ selects) /\ isLoadingMore' = FALSE
      BY <1>5 DEF MergeEffect, merged
    <2>2. hasAutoSelected' \in BOOLEAN /\ isLoadingMore' \in BOOLEAN
      BY <2>1
    <2> HIDE DEF selects
    <2>. QED  BY <1>1, <1>2, <1>3, <1>4, <2>1, <2>2
  <1>6. CASE ~data.ok
    BY <1>1, <1>6 DEF MergeEffect
  <1>. QED  BY <1>5, <1>6

\* A list of the bookmarks of an answer that is right is up to date.
LEMMA RightAnswer ==
  ASSUME NEW notes \in [Ids -> Nat], NEW ids \in SUBSET Ids, NEW queue, NEW list
  PROVE  LET page == FirstPage(notes, ids)
         IN  /\ UpToDate(notes, queue, ids, page)
             /\ Cached(notes, queue, list, page) => UpToDate(notes, queue, ids, list)
             /\ Cached(notes, queue, list, list)
  <1> DEFINE page == FirstPage(notes, ids)
  <1>1. \A i \in DOMAIN page : page[i].state = notes[page[i].id]
    BY PageOfTable DEF FirstPage
  <1>2. \A other : SameIds(other, other)
    BY DEF SameIds
  <1> HIDE DEF page
  <1>3. UpToDate(notes, queue, ids, page)
    BY <1>1, <1>2 DEF UpToDate, Current, page
  <1>4. ASSUME Cached(notes, queue, list, page)
        PROVE  UpToDate(notes, queue, ids, list)
    <2>1. SameIds(list, page)
      BY <1>4 DEF Cached
    <2>2. ASSUME NEW i \in DOMAIN list
          PROVE  Current(notes, queue, list[i])
      <3>1. i \in DOMAIN page /\ list[i].id = page[i].id
        BY <2>1 DEF SameIds
      <3>2. page[i].state = notes[list[i].id]
        BY <1>1, <3>1
      <3>. QED  BY <1>4, <3>2 DEF Cached, Current
    <2>. QED  BY <2>1, <2>2 DEF UpToDate, page
  <1>5. Cached(notes, queue, list, list)
    BY <1>2 DEF Cached
  <1>. QED  BY <1>3, <1>4, <1>5 DEF page

LEMMA StepReceiveAnswer ==
  ASSUME IInv, NEW k \in Keys, ReceiveAnswer(k)
  PROVE  IInv'
  <1> DEFINE answer == requests[k].answer
             Merges == k = key /\ answer # cache[k]
  <1>1. /\ requests \in [Keys -> Requests] /\ cache \in [Keys -> Answers]
        /\ answer \in Answers /\ Distinct(answer.bookmarks) /\ requests[k].sent
        /\ allLoadedBookmarks \in Seq(Rows) /\ Distinct(allLoadedBookmarks)
        /\ selectedBookmarkId \in Selectable
        /\ hasAutoSelected \in BOOLEAN /\ isLoadingMore \in BOOLEAN
    BY DEF IInv, TypeOK, ListsDiffer, Requests, ReceiveAnswer
  <1>2. key \in Keys /\ key.offset = offset /\ offset \in Nat
    BY KeyType
  <1>3. /\ requests' = [requests EXCEPT ![k] = NoRequest]
        /\ cache' = [cache EXCEPT ![k] = answer] /\ answer.ok
        /\ Merges => MergeEffect(answer, offset, hasAutoSelected, FALSE)
        /\ ~Merges => UNCHANGED shown
        /\ UNCHANGED <<table, creates, events, deletes, view, acts, untold, overlapped>>
    BY DEF ReceiveAnswer
  <1> HIDE DEF answer
  <1>4. /\ allLoadedBookmarks' \in Seq(Rows) /\ Distinct(allLoadedBookmarks')
        /\ selectedBookmarkId' \in Selectable
        /\ hasAutoSelected' \in BOOLEAN /\ isLoadingMore' \in BOOLEAN
        /\ Merges /\ offset = 0 => allLoadedBookmarks' = answer.bookmarks
        /\ ~Merges => allLoadedBookmarks' = allLoadedBookmarks
    <2>1. CASE Merges
      <3> HIDE DEF Merges
      <3>. QED  BY <1>1, <1>2, <1>3, <2>1, Shown
    <2>2. CASE ~Merges
      <3> HIDE DEF Merges
      <3>. QED  BY <1>1, <1>3, <2>2 DEF shown
    <2>. QED  BY <2>1, <2>2
  <1>5. requests' \in [Keys -> Requests] /\ cache' \in [Keys -> Answers]
    BY <1>1, <1>3, NoAnswerType
  <1>6. \A j \in Keys : /\ cache'[j] = IF j = k THEN answer ELSE cache[j]
                        /\ requests'[j] = IF j = k THEN NoRequest ELSE requests[j]
    BY <1>1, <1>3
  <1>7. TypeOK'
    BY <1>3, <1>4, <1>5 DEF IInv, TypeOK, table, view
  <1>8. RequestsAreAlone' /\ BookmarksDiffer'
    BY <1>3, SavedKept DEF table
  <1>9. ListsDiffer'
    BY <1>1, <1>4, <1>6, NoAnswerType DEF IInv, ListsDiffer
  <1>10. Told'
    <2>1. key' = key /\ Found(key)' = Found(key)
      BY <1>3 DEF key, Found, table, view
    <2>2. UNCHANGED <<version, events, deletes, offset, untold>>
      BY <1>3 DEF table, view
    <2>3. version \in [Ids -> Nat] /\ Found(key) \in SUBSET Ids
      BY FoundType DEF IInv, TypeOK
    <2>4. CASE k # key
      <3>1. requests'[key] = requests[key] /\ cache'[key] = cache[key]
        BY <1>2, <1>6, <2>4
      <3>2. allLoadedBookmarks' = allLoadedBookmarks
        BY <1>4, <2>4
      <3>3. ListIsComing => ListIsComing'
        BY <2>1, <2>2, <3>1, <3>2 DEF ListIsComing
      <3>4. ListIsOfTheCache => ListIsOfTheCache'
        BY <2>1, <2>2, <3>1, <3>2 DEF ListIsOfTheCache
      <3>. QED  BY <2>2, <3>3, <3>4 DEF IInv, Told
    <2>5. ASSUME k = key, offset = 0, ~untold
          PROVE  ListIsComing' /\ ListIsOfTheCache'
      <3>1. ListIsComing /\ ListIsOfTheCache
        BY <2>5 DEF IInv, Told
      <3>2. \/ \E d \in deletes : d.at = "done"
            \/ answer.bookmarks = FirstPage(version, Found(key))
        BY <1>1, <1>3, <2>5, <3>1 DEF ListIsComing, answer
      <3>3. cache'[key] = answer /\ requests'[key] = NoRequest
        BY <1>2, <1>6, <2>5
      <3>4. Cached(version, events, allLoadedBookmarks', answer.bookmarks)
        <4>1. CASE Merges
          BY <1>4, <2>3, <2>5, <4>1, RightAnswer
        <4>2. CASE ~Merges
          BY <1>3, <1>4, <2>5, <3>1, <4>2 DEF ListIsOfTheCache
        <4>. QED  BY <4>1, <4>2
      <3>5. answer.bookmarks = FirstPage(version, Found(key))
              => UpToDate(version, events, Found(key), allLoadedBookmarks')
        BY <2>3, <3>4, RightAnswer
      <3>6. ListIsComing'
        BY <2>1, <2>2, <3>2, <3>3, <3>5, NoAnswerType DEF ListIsComing
      <3>7. ListIsOfTheCache'
        BY <2>1, <2>2, <3>3, <3>4 DEF ListIsOfTheCache
      <3>. QED  BY <3>6, <3>7
    <2>. QED  BY <2>2, <2>4, <2>5 DEF IInv, Told
  <1>. QED  BY <1>7, <1>8, <1>9, <1>10 DEF IInv

LEMMA StepReceiveUpdate ==
  ASSUME IInv, ReceiveUpdate
  PROVE  IInv'
  <1> DEFINE list == allLoadedBookmarks
             e == Head(events)
  <1>1. /\ events \in Seq(Rows) /\ events # <<>> /\ list \in Seq(Rows) /\ Distinct(list)
    BY DEF IInv, TypeOK, ListsDiffer, ReceiveUpdate
  <1>2. /\ events' = Tail(events) /\ allLoadedBookmarks' = Updated(list, e)
        /\ UNCHANGED <<table, creates, swr, deletes, view, selectedBookmarkId, hasAutoSelected,
                       isLoadingMore, acts, untold, overlapped>>
    BY DEF ReceiveUpdate, Updated
  <1>3. events' \in Seq(Rows) /\ e \in Rows
    BY <1>1, <1>2, Dequeued
  <1>4. allLoadedBookmarks' \in Seq(Rows) /\ Distinct(allLoadedBookmarks')
    BY <1>1, <1>2, <1>3, UpdatedRows
  <1>5. TypeOK'
    BY <1>2, <1>3, <1>4 DEF IInv, TypeOK, table, swr, view
  <1>6. RequestsAreAlone' /\ BookmarksDiffer'
    BY <1>2, SavedKept DEF table
  <1>7. ListsDiffer'
    BY <1>2, <1>4 DEF IInv, ListsDiffer, swr
  <1>8. Told'
    <2>1. key' = key /\ Found(key)' = Found(key)
      BY <1>2 DEF key, Found, table, view
    <2>2. UNCHANGED <<version, requests, cache, deletes, offset, untold>>
      BY <1>2 DEF table, swr, view
    <2>3. ASSUME ~untold
          PROVE  /\ Truthful(version, events')
                 /\ ListIsComing => ListIsComing'
                 /\ ListIsOfTheCache => ListIsOfTheCache'
      <3>1. Truthful(version, events)
        BY <2>3 DEF IInv, Told
      <3>2. Truthful(version, events')
        BY <1>1, <1>2, <3>1, TruthfulDequeue
      <3>3. \A ids, other :
              /\ UpToDate(version, events, ids, list)
                   => UpToDate(version, events', ids, allLoadedBookmarks')
              /\ Cached(version, events, list, other)
                   => Cached(version, events', allLoadedBookmarks', other)
        BY <1>1, <1>2, <3>1, UpToDateDequeue
      <3>4. ListIsComing => ListIsComing'
        BY <2>1, <2>2, <3>3 DEF ListIsComing
      <3>5. ListIsOfTheCache => ListIsOfTheCache'
        BY <2>1, <2>2, <3>3 DEF ListIsOfTheCache
      <3>. QED  BY <3>2, <3>4, <3>5
    <2>. QED  BY <2>2, <2>3 DEF IInv, Told
  <1>. QED  BY <1>5, <1>6, <1>7, <1>8 DEF IInv

\* A step that changes the key shows what the cache has for the new one, and asks
\* for it, or waits for the request that is on its way.
LEMMA Rekeyed ==
  ASSUME IInv, NEW k \in Keys, NEW auto \in BOOLEAN, NEW loading \in BOOLEAN,
         ChangeKey(k, auto, loading), key' = k, offset' = k.offset,
         searchQuery' \in Searches, debounced' \in Searches, filter' \in Filters,
         resetting' \in BOOLEAN, acts' \in Nat,
         UNCHANGED <<table, creates, events, cache, deletes, overlapped>>
  PROVE  IInv'
  <1>1. /\ requests \in [Keys -> Requests] /\ cache \in [Keys -> Answers]
        /\ cache[k] \in Answers /\ Distinct(cache[k].bookmarks) /\ untold \in BOOLEAN
    BY DEF IInv, TypeOK, ListsDiffer
  <1>2. k.offset \in 0..MaxOffset /\ k.offset \in Nat
    BY BookmarksAssumption DEF Keys
  <1>3. /\ \/ /\ requests' = [requests EXCEPT ![k] = Sent]
              /\ untold' = (untold /\ events # <<>>)
           \/ /\ requests[k].sent /\ UNCHANGED requests
              /\ untold' = (untold \/ requests[k].answer.ok)
        /\ MergeEffect(cache[k], k.offset, auto, loading)
    BY DEF ChangeKey
  <1>4. /\ allLoadedBookmarks' \in Seq(Rows) /\ Distinct(allLoadedBookmarks')
        /\ selectedBookmarkId' \in Selectable
        /\ hasAutoSelected' \in BOOLEAN /\ isLoadingMore' \in BOOLEAN
        /\ cache[k].ok /\ k.offset = 0 => allLoadedBookmarks' = cache[k].bookmarks
    BY <1>1, <1>2, <1>3, Shown
  <1>5. TypeOK'
    <2>1. requests' \in [Keys -> Requests]
      BY <1>1, <1>3, NoAnswerType
    <2>2. (untold /\ events # <<>>) \in BOOLEAN /\ (untold \/ requests[k].answer.ok) \in BOOLEAN
      OBVIOUS
    <2>3. untold' \in BOOLEAN
      BY <1>3, <2>2
    <2>. QED  BY <1>2, <1>4, <2>1, <2>3 DEF IInv, TypeOK, table
  <1>6. RequestsAreAlone' /\ BookmarksDiffer'
    BY SavedKept DEF table
  <1>7. ListsDiffer'
    <2>1. \A j \in Keys : requests'[j] = Sent \/ requests'[j] = requests[j]
      BY <1>1, <1>3
    <2>. QED  BY <1>4, <2>1, NoAnswerType DEF IInv, ListsDiffer
  <1>8. Told'
    <2> SUFFICES ASSUME ~untold'
                 PROVE  /\ Truthful(version', events')
                        /\ offset' = 0 => ListIsComing' /\ ListIsOfTheCache'
      BY DEF Told
    <2>1. Truthful(version, events)
      <3>1. CASE ~untold
        BY <3>1 DEF IInv, Told
      <3>2. CASE events = <<>>
        <4>1. \A n : n \notin 1..Len(events)
          BY <3>2
        <4>. QED  BY <4>1 DEF Truthful
      <3>. QED  BY <1>3, <3>1, <3>2
    <2>2. requests'[k].sent /\ ~requests'[k].answer.ok
      <3>1. CASE requests' = [requests EXCEPT ![k] = Sent]
        BY <1>1, <3>1, NoAnswerType
      <3>2. CASE /\ requests[k].sent /\ UNCHANGED requests
                 /\ untold' = (untold \/ requests[k].answer.ok)
        BY <3>2
      <3>. QED  BY <1>3, <3>1, <3>2
    <2>3. ListIsComing'
      BY <2>2 DEF ListIsComing
    <2>4. offset' = 0 => ListIsOfTheCache'
      <3>1. k.offset = 0 /\ cache[k].ok
              => Cached(version', events', allLoadedBookmarks', cache[k].bookmarks)
        BY <1>4 DEF Cached, SameIds
      <3>. QED  BY <3>1 DEF ListIsOfTheCache
    <2>. QED  BY <2>1, <2>3, <2>4 DEF table
  <1>. QED  BY <1>5, <1>6, <1>7, <1>8 DEF IInv

LEMMA ViewType ==
  ASSUME IInv
  PROVE  /\ searchQuery \in Searches /\ debounced \in Searches /\ filter \in Filters
         /\ offset \in 0..MaxOffset /\ resetting \in BOOLEAN
         /\ hasAutoSelected \in BOOLEAN /\ isLoadingMore \in BOOLEAN /\ acts \in Nat
  BY DEF IInv, TypeOK

LEMMA StepClick ==
  ASSUME IInv, NEW b \in Ids, Click(b)
  PROVE  IInv'
  <1>1. /\ selectedBookmarkId' \in Selectable /\ acts' \in Nat
        /\ UNCHANGED <<table, creates, events, swr, deletes, view, allLoadedBookmarks,
                       hasAutoSelected, isLoadingMore, untold, overlapped>>
    BY ViewType DEF Click, Act, Selectable
  <1>2. TypeOK'
    BY <1>1 DEF IInv, TypeOK, table, swr, view
  <1>3. RequestsAreAlone' /\ BookmarksDiffer' /\ ListsDiffer' /\ Told'
    BY <1>1, SavedKept, ListsKept, ToldKept DEF table, view
  <1>. QED  BY <1>2, <1>3 DEF IInv

LEMMA StepType ==
  ASSUME IInv, NEW q \in Searches, Type(q)
  PROVE  IInv'
  <1>1. /\ searchQuery' \in Searches /\ acts' \in Nat
        /\ UNCHANGED <<table, creates, events, swr, deletes, debounced, filter, offset, resetting,
                       shown, untold, overlapped>>
    BY ViewType DEF Type, Act
  <1>2. TypeOK'
    BY <1>1 DEF IInv, TypeOK, table, swr, shown
  <1>3. RequestsAreAlone' /\ BookmarksDiffer' /\ ListsDiffer' /\ Told'
    BY <1>1, SavedKept, ListsKept, ToldKept DEF table, shown
  <1>. QED  BY <1>2, <1>3 DEF IInv

LEMMA StepSettle ==
  ASSUME IInv, Settle
  PROVE  IInv'
  <1> DEFINE k == [key EXCEPT !.search = searchQuery]
  <1>1. k \in Keys /\ k.search = searchQuery /\ k.filter = filter /\ k.offset = offset
    BY KeyType, ViewType DEF Keys
  <1>2. /\ debounced' = searchQuery /\ ResetEffect(k)
        /\ UNCHANGED <<table, creates, events, cache, deletes, searchQuery, filter, offset, acts,
                       overlapped>>
    BY DEF Settle
  <1>3. k = key'
    BY <1>2 DEF key
  <1>4. ChangeKey(k, FALSE, isLoadingMore) /\ resetting' \in BOOLEAN
    BY <1>2 DEF ResetEffect
  <1> HIDE DEF k
  <1>. QED  BY <1>1, <1>2, <1>3, <1>4, ViewType, Rekeyed

LEMMA StepSelectFilter ==
  ASSUME IInv, NEW f \in Filters, SelectFilter(f)
  PROVE  IInv'
  <1> DEFINE k == [key EXCEPT !.filter = f]
  <1>1. k \in Keys /\ k.search = debounced /\ k.filter = f /\ k.offset = offset
    BY KeyType DEF Keys
  <1>2. /\ filter' = f /\ ResetEffect(k) /\ acts' \in Nat
        /\ UNCHANGED <<table, creates, events, cache, deletes, searchQuery, debounced, offset,
                       overlapped>>
    BY ViewType DEF SelectFilter, Act
  <1>3. k = key'
    BY <1>2 DEF key
  <1>4. ChangeKey(k, FALSE, isLoadingMore) /\ resetting' \in BOOLEAN
    BY <1>2 DEF ResetEffect
  <1> HIDE DEF k
  <1>. QED  BY <1>1, <1>2, <1>3, <1>4, ViewType, Rekeyed

LEMMA StepClearFilters ==
  ASSUME IInv, ClearFilters
  PROVE  IInv'
  <1>1. /\ searchQuery' = All /\ All \in Searches /\ filter' = NoFilter /\ NoFilter \in Filters
        /\ acts' \in Nat
        /\ UNCHANGED <<table, creates, events, cache, deletes, debounced, offset, overlapped>>
    BY ViewType, BookmarksAssumption DEF ClearFilters, Act
  <1>2. CASE filter # NoFilter
    <2> DEFINE k == [key EXCEPT !.filter = NoFilter]
    <2>1. k \in Keys /\ k.search = debounced /\ k.filter = NoFilter /\ k.offset = offset
      BY <1>1, KeyType DEF Keys
    <2>2. k = key'
      BY <1>1 DEF key
    <2>3. ChangeKey(k, FALSE, isLoadingMore) /\ resetting' \in BOOLEAN
      BY <1>2 DEF ClearFilters, ResetEffect
    <2> HIDE DEF k
    <2>. QED  BY <1>1, <2>1, <2>2, <2>3, ViewType, Rekeyed
  <1>3. CASE filter = NoFilter
    <2>1. UNCHANGED <<filter, requests, resetting, shown, untold>>
      BY <1>1, <1>3 DEF ClearFilters
    <2>2. TypeOK'
      BY <1>1, <2>1 DEF IInv, TypeOK, table, shown
    <2>3. RequestsAreAlone' /\ BookmarksDiffer' /\ ListsDiffer' /\ Told'
      BY <1>1, <2>1, SavedKept, ListsKept, ToldKept DEF table, swr, shown
    <2>. QED  BY <2>2, <2>3 DEF IInv
  <1>. QED  BY <1>2, <1>3

LEMMA StepResetOffset ==
  ASSUME IInv, ResetOffset
  PROVE  IInv'
  <1> DEFINE k == [key EXCEPT !.offset = 0]
  <1>1. 0 \in 0..MaxOffset
    BY BookmarksAssumption
  <1>2. k \in Keys /\ k.search = debounced /\ k.filter = filter /\ k.offset = 0
    BY <1>1, KeyType, ViewType DEF Keys
  <1>3. /\ resetting' = FALSE /\ offset' = 0
        /\ ChangeKey(k, hasAutoSelected, isLoadingMore)
        /\ UNCHANGED <<table, creates, events, cache, deletes, searchQuery, debounced, filter,
                       acts, overlapped>>
    BY DEF ResetOffset
  <1>4. k = key'
    BY <1>3 DEF key
  <1> HIDE DEF k
  <1>. QED  BY <1>2, <1>3, <1>4, ViewType, Rekeyed

LEMMA StepLoadMore ==
  ASSUME IInv, LoadMore
  PROVE  IInv'
  <1> DEFINE k == [key EXCEPT !.offset = @ + Limit]
  <1>1. offset + Limit \in 0..MaxOffset
    BY BookmarksAssumption, ViewType DEF LoadMore
  <1>2. k \in Keys /\ k.search = debounced /\ k.filter = filter /\ k.offset = offset + Limit
    BY <1>1, KeyType, ViewType DEF Keys
  <1>3. /\ offset' = offset + Limit
        /\ ChangeKey(k, hasAutoSelected, TRUE)
        /\ UNCHANGED <<table, creates, events, cache, deletes, searchQuery, debounced, filter,
                       resetting, acts, overlapped>>
    BY DEF LoadMore
  <1>4. k = key'
    BY <1>3, KeyType DEF key
  <1> HIDE DEF k
  <1>. QED  BY <1>2, <1>3, <1>4, ViewType, Rekeyed

LEMMA StepHandleDelete ==
  ASSUME IInv, NEW b \in Ids, HandleDelete(b)
  PROVE  IInv'
  <1> DEFINE d == [id |-> b, selected |-> selectedBookmarkId, at |-> "sent"]
  <1>1. /\ deletes' = deletes \cup {d} /\ acts' \in Nat
        /\ UNCHANGED <<table, creates, events, swr, view, shown, untold, overlapped>>
    BY ViewType DEF HandleDelete, Act
  <1>2. d \in Deletes
    BY DEF IInv, TypeOK, Deletes
  <1> HIDE DEF d
  <1>3. TypeOK'
    BY <1>1, <1>2 DEF IInv, TypeOK, table, swr, view, shown
  <1>4. RequestsAreAlone' /\ BookmarksDiffer' /\ ListsDiffer' /\ Told'
    BY <1>1, SavedKept, ListsKept, ToldKept DEF table, view, shown
  <1>. QED  BY <1>3, <1>4 DEF IInv

LEMMA StepDeleteReturns ==
  ASSUME IInv, NEW d \in deletes, DeleteReturns(d)
  PROVE  IInv'
  <1>1. /\ deletes' = deletes \ {d} /\ requests' = [requests EXCEPT ![key] = Sent]
        /\ selectedBookmarkId' \in {NoBookmark, selectedBookmarkId}
        /\ UNCHANGED <<table, creates, events, cache, view, allLoadedBookmarks, hasAutoSelected,
                       isLoadingMore, acts, untold, overlapped>>
    BY DEF DeleteReturns
  <1>2. requests \in [Keys -> Requests] /\ key \in Keys
    BY KeyType DEF IInv, TypeOK
  <1>3. /\ requests' \in [Keys -> Requests] /\ requests'[key] = Sent
        /\ \A k \in Keys : requests'[k] = Sent \/ requests'[k] = requests[k]
    BY <1>1, <1>2, NoAnswerType
  <1>4. TypeOK'
    BY <1>1, <1>3 DEF IInv, TypeOK, table, view, Selectable
  <1>5. RequestsAreAlone' /\ BookmarksDiffer'
    BY <1>1, SavedKept DEF table
  <1>6. ListsDiffer'
    BY <1>1, <1>3, NoAnswerType DEF IInv, ListsDiffer
  <1>7. Told'
    <2>1. key' = key
      BY <1>1 DEF key, view
    <2>2. ListIsComing'
      BY <1>3, <2>1, NoAnswerType DEF ListIsComing
    <2>3. ListIsOfTheCache => ListIsOfTheCache'
      BY <1>1, <2>1 DEF ListIsOfTheCache, table
    <2>. QED  BY <1>1, <2>2, <2>3 DEF IInv, Told, table, view
  <1>. QED  BY <1>4, <1>5, <1>6, <1>7 DEF IInv

LEMMA StepLoseDelete ==
  ASSUME IInv, NEW d \in deletes, LoseDelete(d)
  PROVE  IInv'
  <1>1. /\ deletes' = deletes \ {d} /\ untold' = TRUE /\ acts' \in Nat
        /\ UNCHANGED <<table, creates, events, swr, view, shown, overlapped>>
    BY ViewType DEF LoseDelete, Act
  <1>2. TypeOK'
    BY <1>1 DEF IInv, TypeOK, table, swr, view, shown
  <1>3. RequestsAreAlone' /\ BookmarksDiffer' /\ ListsDiffer' /\ Told'
    BY <1>1, SavedKept, ListsKept, ToldNothing DEF table, shown
  <1>. QED  BY <1>2, <1>3 DEF IInv

-----------------------------------------------------------------------------
(* Every step keeps the invariant, and the theorems.                       *)

LEMMA Initially == Init => IInv
  <1> SUFFICES ASSUME Init
               PROVE  IInv
    OBVIOUS
  <1>1. /\ sessions = Sessions /\ saved = OldSession /\ overlapped = {} /\ deletes = {}
        /\ searchQuery = All /\ debounced = All /\ filter = NoFilter
        /\ cache = [k \in Keys |-> NoAnswer]
        /\ requests = [k \in Keys |-> IF k = key THEN Sent ELSE NoRequest]
        /\ resetting = FALSE /\ hasAutoSelected = FALSE /\ isLoadingMore = FALSE
        /\ untold = FALSE /\ version = [b \in Ids |-> 0]
    BY DEF Init
  <1>2. creates = <<>> /\ events = <<>> /\ allLoadedBookmarks = <<>>
    BY DEF Init
  <1>3. next = Old + 1 /\ offset = 0 /\ selectedBookmarkId = NoBookmark /\ acts = 0
    BY DEF Init
  <1>4. /\ MaxBookmarks \in Nat /\ Old \in Nat /\ Old <= MaxBookmarks /\ MaxOffset \in Nat
        /\ All \in Searches /\ NoFilter \in Filters
        /\ OldSession \in [1..Old -> Sessions] /\ IsInjective(OldSession)
    BY BookmarksAssumption
  <1>5. DOMAIN saved = 1..Old /\ saved \in [DOMAIN saved -> Sessions]
    BY <1>1, <1>4
  <1>6. offset \in 0..MaxOffset /\ next \in Nat \ {0} /\ acts \in Nat
    BY <1>3, <1>4
  <1>7. key \in Keys
    BY <1>1, <1>4, <1>6 DEF key, Keys
  <1>8. TypeOK
    <2>1. cache \in [Keys -> Answers] /\ requests \in [Keys -> Requests]
      BY <1>1, NoAnswerType
    <2>2. creates \in Seq(Creates) /\ events \in Seq(Rows)
      BY <1>2
    <2>3. version \in [Ids -> Nat]
      BY <1>1
    <2>4. DOMAIN saved \in SUBSET Ids
      BY <1>4, <1>5 DEF Ids
    <2>5. selectedBookmarkId \in Selectable
      BY <1>3 DEF Selectable
    <2>. QED  BY <1>1, <1>2, <1>4, <1>5, <1>6, <2>1, <2>2, <2>3, <2>4, <2>5, NoRows DEF TypeOK
  <1>9. RequestsAreAlone
    <2>1. \A i : i \notin DOMAIN creates
      BY <1>2
    <2>. QED  BY <2>1 DEF RequestsAreAlone
  <1>10. BookmarksDiffer
    <2>1. \A b \in DOMAIN saved : b < next
      BY <1>3, <1>4, <1>5
    <2>2. \A b, c \in DOMAIN saved : saved[b] = saved[c] => b = c
      BY <1>1, <1>4 DEF IsInjective
    <2>. QED  BY <2>1, <2>2 DEF BookmarksDiffer
  <1>11. ListsDiffer
    BY <1>1, <1>2, NoRows, NoAnswerType DEF ListsDiffer
  <1>12. Told
    <2>1. Truthful(version, events)
      <3>1. \A n : n \notin 1..Len(events)
        BY <1>2
      <3>. QED  BY <3>1 DEF Truthful
    <2>2. ListIsComing
      BY <1>1, <1>7, NoAnswerType DEF ListIsComing
    <2>3. ListIsOfTheCache
      BY <1>1, <1>7, NoAnswerType DEF ListIsOfTheCache
    <2>. QED  BY <2>1, <2>2, <2>3 DEF Told
  <1>. QED  BY <1>8, <1>9, <1>10, <1>11, <1>12 DEF IInv

LEMMA Stuttering ==
  ASSUME IInv, UNCHANGED vars
  PROVE  IInv'
  <1>1. TypeOK'
    BY DEF IInv, TypeOK, vars, table, swr, view, shown
  <1>2. RequestsAreAlone' /\ BookmarksDiffer' /\ ListsDiffer' /\ Told'
    BY SavedKept, ListsKept, ToldKept DEF vars, table, view, shown
  <1>. QED  BY <1>1, <1>2 DEF IInv

\* IInv holds in every state of every behaviour of the table, the button and the page.
THEOREM Inductive == Spec => []IInv
<1>1. Init => IInv
  BY Initially
<1>2. IInv /\ [Next]_vars => IInv'
  <2> SUFFICES ASSUME IInv, [Next]_vars
               PROVE  IInv'
    OBVIOUS
  <2>1. ASSUME NEW s \in Sessions, HandleBookmark(s) \/ DeleteSession(s)
        PROVE  IInv'
    BY <2>1, StepHandleBookmark, StepDeleteSession
  <2>2. ASSUME NEW i \in DOMAIN creates, CheckBookmarked(i) \/ CreateBookmark(i)
        PROVE  IInv'
    BY <2>2, StepCheckBookmarked, StepCreateBookmark
  <2>3. ASSUME NEW b \in Ids,
               UpdateBookmark(b) \/ DeleteElsewhere(b) \/ Click(b) \/ HandleDelete(b)
        PROVE  IInv'
    BY <2>3, StepUpdateBookmark, StepDeleteElsewhere, StepClick, StepHandleDelete
  <2>4. ASSUME NEW k \in Keys, Answer(k) \/ ReceiveAnswer(k)
        PROVE  IInv'
    BY <2>4, StepAnswer, StepReceiveAnswer
  <2>5. ASSUME NEW d \in deletes, DeleteBookmark(d) \/ DeleteReturns(d) \/ LoseDelete(d)
        PROVE  IInv'
    BY <2>5, StepDeleteBookmark, StepDeleteReturns, StepLoseDelete
  <2>6. ASSUME NEW q \in Searches, Type(q)
        PROVE  IInv'
    BY <2>6, StepType
  <2>7. ASSUME NEW f \in Filters, SelectFilter(f)
        PROVE  IInv'
    BY <2>7, StepSelectFilter
  <2>8. CASE ReceiveUpdate \/ Settle \/ ClearFilters \/ ResetOffset \/ LoadMore
    BY <2>8, StepReceiveUpdate, StepSettle, StepClearFilters, StepResetOffset, StepLoadMore
  <2>9. CASE UNCHANGED vars
    BY <2>9, Stuttering
  <2>. QED  BY <2>1, <2>2, <2>3, <2>4, <2>5, <2>6, <2>7, <2>8, <2>9 DEF Next
<1>. QED  BY <1>1, <1>2, PTL DEF Spec

\* Every variable of the table and of the page has its type.
THEOREM TypeCorrect == Spec => []TypeOK
<1>1. IInv => TypeOK
  BY DEF IInv
<1>. QED  BY <1>1, Inductive, PTL

\* OneBookmarkPerSession: IsSessionBookmarked and CreateBookmark are two steps, and
\* still a session is saved once unless two requests overlapped (api_bookmarks.go).
THEOREM SavedOnce == Spec => []OneBookmarkPerSession
<1>1. IInv => OneBookmarkPerSession
  <2> SUFFICES ASSUME IInv, NEW s \in Sessions \ overlapped
               PROVE  Cardinality(BookmarksOf(s)) <= 1
    BY DEF OneBookmarkPerSession
  <2>1. \A b, c \in BookmarksOf(s) : b = c
    BY DEF IInv, BookmarksDiffer, BookmarksOf
  <2>2. BookmarksOf(s) = {} \/ \E b : BookmarksOf(s) = {b}
    BY <2>1
  <2>3. Cardinality(BookmarksOf(s)) \in {0, 1}
    BY <2>2, FS_EmptySet, FS_Singleton
  <2>. QED  BY <2>3
<1>. QED  BY <1>1, Inductive, PTL

\* A list without repetitions has as many bookmarks as rows.
LEMMA AsManyIds ==
  ASSUME NEW list \in Seq(Rows), Distinct(list)
  PROVE  Cardinality(IdsOf(list)) = Len(list)
  <1> DEFINE n == Len(list)
             f == [i \in 1..n |-> list[i].id]
  <1>1. n \in Nat /\ DOMAIN list = 1..n
    BY RowsType
  <1> HIDE DEF n
  <1>2. f \in [1..n -> IdsOf(list)]
    BY <1>1 DEF IdsOf
  <1>3. \A i, j \in 1..n : f[i] = f[j] => i = j
    BY <1>1 DEF Distinct
  <1>4. \A x \in IdsOf(list) : \E i \in 1..n : f[i] = x
    BY <1>1 DEF IdsOf
  <1>5. f \in Bijection(1..n, IdsOf(list))
    BY <1>2, <1>3, <1>4 DEF Bijection, Injection, Surjection, IsInjective
  <1>. QED  BY <1>1, <1>5, FS_CountingElements DEF ExistsBijection, n

\* ListIsTheTable: once nothing is on its way, the first page of the list is what
\* the table has, however deletions, updates, searches and the answers for other
\* keys interleave, if the page was told of every change (saved/page.tsx).
THEOREM ListTruth == Spec => []ListIsTheTable
<1>1. IInv => ListIsTheTable
  <2> SUFFICES ASSUME IInv
               PROVE  ListIsTheTable
    OBVIOUS
  <2>1. /\ allLoadedBookmarks \in Seq(Rows) /\ Distinct(allLoadedBookmarks)
        /\ version \in [Ids -> Nat] /\ Found(key) \in SUBSET Ids
    BY FoundType DEF IInv, TypeOK, ListsDiffer
  <2>2. Cardinality(Listed) = Len(allLoadedBookmarks)
    BY <2>1, AsManyIds DEF Listed
  <2>3. ASSUME Quiet, offset = 0, ~untold
        PROVE  allLoadedBookmarks = PageOf(version, Found(key), 0, Limit)
    <3> DEFINE page == FirstPage(version, Found(key))
    <3>1. /\ ListIsComing /\ ~requests[key].sent /\ deletes = {}
          /\ ~requests[key].answer.ok
      BY <2>3, KeyType DEF IInv, Told, Quiet, ListsDiffer
    <3>2. UpToDate(version, events, Found(key), allLoadedBookmarks)
      BY <3>1 DEF ListIsComing
    <3>3. \A id : ~Announced(events, id)
      <4>1. \A n : n \notin 1..Len(events)
        BY <2>3 DEF Quiet
      <4>. QED  BY <4>1 DEF Announced
    <3>4. /\ SameIds(allLoadedBookmarks, page)
          /\ \A i \in DOMAIN allLoadedBookmarks :
               allLoadedBookmarks[i].state = version[allLoadedBookmarks[i].id]
      BY <3>2, <3>3 DEF UpToDate, Current
    <3>5. page \in Seq(Rows) /\ \A i \in DOMAIN page : page[i].state = version[page[i].id]
      <4>1. 0 \in Nat
        OBVIOUS
      <4>2. LET p == PageOf(version, Found(key), 0, Limit)
            IN  p \in Seq(Rows) /\ \A i \in DOMAIN p : p[i].state = version[p[i].id]
        BY <2>1, <4>1, PageOfTable
      <4>. QED  BY <4>2 DEF FirstPage
    <3> HIDE DEF page
    <3>6. \A i \in DOMAIN allLoadedBookmarks : allLoadedBookmarks[i].state = page[i].state
      BY <3>4, <3>5 DEF SameIds
    <3>7. allLoadedBookmarks = page
      BY <2>1, <3>4, <3>5, <3>6, SameList
    <3>. QED  BY <3>7 DEF page, FirstPage
  <2>. QED  BY <2>2, <2>3 DEF ListIsTheTable
<1>. QED  BY <1>1, Inductive, PTL
=============================================================================
