----------------------------- MODULE Bookmarks -----------------------------
(***************************************************************************)
(* Saved sessions: the table with the handlers that create, list, update   *)
(* and delete bookmarks (api_bookmarks.go, model_proxy_bookmark.go), the   *)
(* button that saves a session (session-details.tsx) and the page with the *)
(* list of them (saved/page.tsx, saved-page.tsx, saved-list.tsx).          *)
(*                                                                         *)
(* A bookmark's id is its place in the order of creation. Note and tags    *)
(* are a version number; SavedDetails has their editor. The server         *)
(* announces updates on "saved_sessions", and neither creations nor        *)
(* deletions: those of other tabs reach the page with its next request.    *)
(***************************************************************************)
EXTENDS SessionLists

CONSTANTS
  Sessions,
  MaxBookmarks, Old,  \* bookmarks 1..Old are in the table from the start
  OldSession,         \* the session each of these is of
  Searches, All,      \* the texts searched for, All finding everything
  Matches,            \* the bookmarks a search finds
  Filters, NoFilter,  \* methods and statuses; the server is not told of them
  Limit,
  MaxOffset,          \* bound on the offset
  MaxActs             \* bound on what users and the reaper do, and on lost requests

Ids == 1..MaxBookmarks
NoBookmark == 0

ASSUME BookmarksAssumption ==
  /\ MaxBookmarks \in Nat /\ Old \in 0..MaxBookmarks
  /\ OldSession \in [1..Old -> Sessions] /\ IsInjective(OldSession)
  /\ All \in Searches /\ NoFilter \in Filters
  /\ Matches \in [Searches -> SUBSET Ids] /\ Matches[All] = Ids
  /\ Limit \in Nat \ {0} /\ MaxOffset \in Nat /\ MaxActs \in Nat

VARIABLES
  sessions,      \* the sessions that are still recorded
  saved,         \* the table: each bookmark's session, for those there are
  version,       \* the table: each bookmark's note and tags
  next,          \* the id of the next bookmark
  creates,       \* POST requests, in the order of the clicks
  events,        \* "update_session" messages on their way
  cache,         \* SWR: the last answer for each key
  requests,      \* SWR: the requests on their way, one for each key
  deletes,       \* DELETE requests of handleDelete, with what it captured
  searchQuery, debounced, filter, offset,
  resetting,     \* the offset is set to 0 in the next render
  allLoadedBookmarks, selectedBookmarkId, hasAutoSelected, isLoadingMore,
  acts,
  untold,        \* history: the page missed a change, or has an answer older than one
  overlapped     \* history: sessions saved by two requests at a time

table == <<sessions, saved, version, next>>
swr == <<cache, requests>>
view == <<searchQuery, debounced, filter, offset, resetting>>
shown == <<allLoadedBookmarks, selectedBookmarkId, hasAutoSelected, isLoadingMore>>

vars == <<table, creates, events, swr, deletes, view, shown, acts, untold, overlapped>>

key == [search |-> debounced, filter |-> filter, offset |-> offset]
Keys == [search : Searches, filter : Filters, offset : 0..MaxOffset]

\* Something is done that the bound acts.
Act == acts < MaxActs /\ acts' = acts + 1

NoAnswer == [ok |-> FALSE, bookmarks |-> <<>>]
NoRequest == [sent |-> FALSE, answer |-> NoAnswer]
Sent == [sent |-> TRUE, answer |-> NoAnswer]

Init ==
  /\ sessions = Sessions
  /\ saved = OldSession /\ version = [b \in Ids |-> 0] /\ next = Old + 1
  /\ creates = <<>> /\ events = <<>> /\ deletes = {}
  /\ searchQuery = All /\ debounced = All /\ filter = NoFilter /\ offset = 0
  /\ cache = [k \in Keys |-> NoAnswer]
  /\ requests = [k \in Keys |-> IF k = key THEN Sent ELSE NoRequest]
  /\ resetting = FALSE
  /\ allLoadedBookmarks = <<>> /\ selectedBookmarkId = NoBookmark
  /\ hasAutoSelected = FALSE /\ isLoadingMore = FALSE
  /\ acts = 0
  /\ untold = FALSE /\ overlapped = {}

-----------------------------------------------------------------------------
(* Saving a session, in another tab. The button is never disabled.         *)

InFlight(s) == \E i \in DOMAIN creates : creates[i].session = s /\ creates[i].at # "done"

HandleBookmark(s) ==
  /\ Act
  /\ creates' = Append(creates, [session |-> s, at |-> "sent"])
  /\ overlapped' = overlapped \cup (IF InFlight(s) THEN {s} ELSE {})
  /\ UNCHANGED <<table, events, swr, deletes, view, shown, untold>>

BookmarksOf(s) == {b \in DOMAIN saved : saved[b] = s}

\* A mutant: the bookmarks there are do not matter.
CheckNothing(i) ==
  /\ creates[i].at = "sent"
  /\ creates' = [creates EXCEPT ![i].at = "checked"]
  /\ UNCHANGED <<table, events, swr, deletes, view, shown, acts, untold, overlapped>>

\* IsSessionBookmarked: a bookmark there is already is the answer.
CheckBookmarked(i) ==
  /\ creates[i].at = "sent"
  /\ creates' = [creates EXCEPT ![i].at = IF BookmarksOf(creates[i].session) = {}
                                            THEN "checked" ELSE "done"]
  /\ UNCHANGED <<table, events, swr, deletes, view, shown, acts, untold, overlapped>>

\* CreateBookmark copies the session, if it is still there. What is deleted
\* between the copy and the insertion makes no difference to either.
CreateBookmark(i) ==
  /\ creates[i].at = "checked"
  /\ creates' = [creates EXCEPT ![i].at = "done"]
  /\ \/ /\ creates[i].session \in sessions /\ next \in Ids
        /\ saved' = [b \in DOMAIN saved \cup {next} |->
                       IF b = next THEN creates[i].session ELSE saved[b]]
        /\ next' = next + 1
        /\ untold' = TRUE
     \/ /\ creates[i].session \notin sessions
        /\ UNCHANGED <<saved, next, untold>>
  /\ UNCHANGED <<sessions, version, events, swr, deletes, view, shown, acts, overlapped>>

\* The reaper deletes a session; its bookmarks are copies and stay.
DeleteSession(s) ==
  /\ s \in sessions /\ Act
  /\ sessions' = sessions \ {s}
  /\ UNCHANGED <<saved, version, next, creates, events, swr, deletes, view, shown, untold, overlapped>>

-----------------------------------------------------------------------------
(* The other handlers of the server.                                       *)

\* An answer computed before a change and not yet received is older than it.
AnswerUnderway == \E k \in Keys : requests[k].answer.ok

\* handleUpdateBookmark, for another tab. Publish may drop the message.
UpdateBookmark(b) ==
  /\ b \in DOMAIN saved /\ Act
  /\ version' = [version EXCEPT ![b] = @ + 1]
  /\ \/ /\ events' = Append(events, [id |-> b, state |-> version[b] + 1])
        /\ untold' = (untold \/ AnswerUnderway)
     \/ /\ untold' = TRUE
        /\ UNCHANGED events
  /\ UNCHANGED <<sessions, saved, next, creates, swr, deletes, view, shown,
                 overlapped>>

Removed(b) == [c \in DOMAIN saved \ {b} |-> saved[c]]

DeleteElsewhere(b) ==
  /\ b \in DOMAIN saved /\ Act
  /\ saved' = Removed(b)
  /\ untold' = TRUE
  /\ UNCHANGED <<sessions, version, next, creates, events, swr, deletes, view, shown, overlapped>>

\* handleDeleteBookmark: a bookmark that is gone already is no error.
DeleteBookmark(d) ==
  /\ d.at = "sent"
  /\ saved' = Removed(d.id)
  /\ deletes' = (deletes \ {d}) \cup {[d EXCEPT !.at = "done"]}
  /\ UNCHANGED <<sessions, version, next, creates, events, swr, view, shown, acts, untold,
                 overlapped>>

\* GetBookmarks: newest first. The method and the status are no condition.
Found(k) == DOMAIN saved \cap Matches[k.search]

Answer(k) ==
  /\ requests[k].sent /\ ~requests[k].answer.ok
  /\ requests' = [requests EXCEPT ![k].answer =
                    [ok |-> TRUE, bookmarks |-> PageOf(version, Found(k), k.offset, Limit)]]
  /\ UNCHANGED <<table, creates, events, cache, deletes, view, shown, acts, untold, overlapped>>

-----------------------------------------------------------------------------
(* The page.                                                               *)

\* The effect that merges what SWR returns for the page's key. The first
\* bookmark is selected once after the page opens or the key changes.
MergeEffect(data, off, auto, loading) ==
  LET selects == off = 0 /\ data.bookmarks # <<>> /\ ~auto
  IN  IF data.ok
        THEN /\ allLoadedBookmarks' = MergePage(allLoadedBookmarks, data.bookmarks, off)
             /\ selectedBookmarkId' = IF selects THEN Head(data.bookmarks).id
                                                 ELSE selectedBookmarkId
             /\ hasAutoSelected' = (auto \/ selects)
             /\ isLoadingMore' = FALSE
        ELSE /\ hasAutoSelected' = auto /\ isLoadingMore' = loading
             /\ UNCHANGED <<allLoadedBookmarks, selectedBookmarkId>>

\* The key changes to k: what the cache has is shown, and a request is sent
\* unless one is on its way that was sent within two seconds.
ChangeKey(k, auto, loading) ==
  /\ \/ requests' = [requests EXCEPT ![k] = Sent] /\ untold' = (untold /\ events # <<>>)
     \/ /\ requests[k].sent /\ UNCHANGED requests
        /\ untold' = (untold \/ requests[k].answer.ok)
  /\ MergeEffect(cache[k], k.offset, auto, loading)

ReceiveAnswer(k) ==
  LET answer == requests[k].answer
  IN  /\ answer.ok /\ ~resetting
      /\ requests' = [requests EXCEPT ![k] = NoRequest]
      /\ cache' = [cache EXCEPT ![k] = answer]
      /\ IF k = key /\ answer # cache[k]
           THEN MergeEffect(answer, offset, hasAutoSelected, FALSE)
           ELSE UNCHANGED shown
      /\ UNCHANGED <<table, creates, events, deletes, view, acts, untold, overlapped>>

\* The callback of useSubscription changes a row in its place.
ReceiveUpdate ==
  /\ events # <<>> /\ ~resetting
  /\ events' = Tail(events)
  /\ allLoadedBookmarks' = [i \in DOMAIN allLoadedBookmarks |->
       IF allLoadedBookmarks[i].id = Head(events).id THEN Head(events) ELSE allLoadedBookmarks[i]]
  /\ UNCHANGED <<table, creates, swr, deletes, view, selectedBookmarkId, hasAutoSelected,
                 isLoadingMore, acts, untold, overlapped>>

Listed == IdsOf(allLoadedBookmarks)

\* handleBookmarkClick.
Click(b) ==
  /\ Act /\ ~resetting /\ b \in Listed
  /\ selectedBookmarkId' = b
  /\ UNCHANGED <<table, creates, events, swr, deletes, view, allLoadedBookmarks, hasAutoSelected,
                 isLoadingMore, untold, overlapped>>

\* The user types; the timer of useDebounced starts anew.
Type(q) ==
  /\ Act /\ ~resetting /\ q # searchQuery
  /\ searchQuery' = q
  /\ UNCHANGED <<table, creates, events, swr, deletes, debounced, filter, offset, resetting, shown, untold, overlapped>>

\* The effect of another search or filter: the ref is reset at once, the offset
\* in the next render, so that the key first has the old offset. The list stays.
ResetEffect(k) ==
  /\ ChangeKey(k, FALSE, isLoadingMore)
  /\ resetting' = (k.offset # 0)

Settle ==
  /\ searchQuery # debounced /\ ~resetting
  /\ debounced' = searchQuery
  /\ ResetEffect([key EXCEPT !.search = searchQuery])
  /\ UNCHANGED <<table, creates, events, cache, deletes, searchQuery, filter, offset, acts,
                 overlapped>>

\* The methods and statuses to choose from are those of the listed bookmarks.
SelectFilter(f) ==
  /\ Act /\ ~resetting /\ f # filter /\ (f = NoFilter \/ Listed # {})
  /\ filter' = f
  /\ ResetEffect([key EXCEPT !.filter = f])
  /\ UNCHANGED <<table, creates, events, cache, deletes, searchQuery, debounced, offset, overlapped>>

\* "Clear": the search follows when the timer ends.
ClearFilters ==
  /\ Act /\ ~resetting /\ (filter # NoFilter \/ searchQuery # All)
  /\ searchQuery' = All /\ filter' = NoFilter
  /\ IF filter # NoFilter
       THEN ResetEffect([key EXCEPT !.filter = NoFilter])
       ELSE UNCHANGED <<requests, resetting, shown, untold>>
  /\ UNCHANGED <<table, creates, events, cache, deletes, debounced, offset,
                 overlapped>>

ResetOffset ==
  /\ resetting
  /\ resetting' = FALSE /\ offset' = 0
  /\ ChangeKey([key EXCEPT !.offset = 0], hasAutoSelected, isLoadingMore)
  /\ UNCHANGED <<table, creates, events, cache, deletes, searchQuery, debounced, filter, acts,
                 overlapped>>

\* The button is there when the last page is known and full.
HasMore == cache[key].ok /\ Len(cache[key].bookmarks) = Limit

LoadMore ==
  /\ HasMore /\ ~isLoadingMore /\ ~resetting
  /\ offset + Limit <= MaxOffset /\ offset' = offset + Limit
  /\ ChangeKey([key EXCEPT !.offset = @ + Limit], hasAutoSelected, TRUE)
  /\ UNCHANGED <<table, creates, events, cache, deletes, searchQuery, debounced, filter, resetting,
                 acts, overlapped>>

\* handleDelete, up to its await: the selection it will compare is that of now.
HandleDelete(b) ==
  /\ Act /\ b \in Listed /\ ~resetting
  /\ deletes' = deletes \cup {[id |-> b, selected |-> selectedBookmarkId, at |-> "sent"]}
  /\ UNCHANGED <<table, creates, events, swr, view, shown, untold, overlapped>>

\* A mutant: the list is not loaded again.
DeleteReturnsOnly(d) ==
  /\ d.at = "done" /\ ~resetting
  /\ deletes' = deletes \ {d}
  /\ selectedBookmarkId' = IF d.selected = d.id THEN NoBookmark ELSE selectedBookmarkId
  /\ UNCHANGED <<table, creates, events, swr, view, allLoadedBookmarks, hasAutoSelected,
                 isLoadingMore, acts, untold, overlapped>>

\* ... and after it: mutate asks for the page's key again, whatever is on its way.
DeleteReturns(d) ==
  /\ d.at = "done" /\ ~resetting
  /\ deletes' = deletes \ {d}
  /\ selectedBookmarkId' = IF d.selected = d.id THEN NoBookmark ELSE selectedBookmarkId
  /\ requests' = [requests EXCEPT ![key] = Sent]
  /\ UNCHANGED <<table, creates, events, cache, view, allLoadedBookmarks, hasAutoSelected,
                 isLoadingMore, acts, untold, overlapped>>

\* The request or its answer is lost, and handleDelete only logs it.
LoseDelete(d) ==
  /\ Act
  /\ deletes' = deletes \ {d}
  /\ untold' = TRUE
  /\ UNCHANGED <<table, creates, events, swr, view, shown, overlapped>>

-----------------------------------------------------------------------------
Next ==
  \/ \E s \in Sessions : HandleBookmark(s) \/ DeleteSession(s)
  \/ \E i \in DOMAIN creates : CheckBookmarked(i) \/ CreateBookmark(i)
  \/ \E b \in Ids : UpdateBookmark(b) \/ DeleteElsewhere(b) \/ Click(b) \/ HandleDelete(b)
  \/ \E k \in Keys : Answer(k) \/ ReceiveAnswer(k)
  \/ \E d \in deletes : DeleteBookmark(d) \/ DeleteReturns(d) \/ LoseDelete(d)
  \/ \E q \in Searches : Type(q)
  \/ \E f \in Filters : SelectFilter(f)
  \/ ReceiveUpdate \/ Settle \/ ClearFilters \/ ResetOffset \/ LoadMore

Spec == Init /\ [][Next]_vars

-----------------------------------------------------------------------------
(* Correctness.                                                            *)

\* Nothing is on its way to the page.
Quiet ==
  /\ ~requests[key].sent /\ deletes = {} /\ events = <<>>
  /\ searchQuery = debounced /\ ~resetting

\* No bookmark is listed twice, however the table moves between two pages.
\* Once nothing is on its way, the first page is what the table has for the
\* search of now, with the notes of now, however deletions, updates, searches
\* and the answers for other keys interleave; what this takes is that the page
\* was told of every change, and has no answer that is older than one.
ListIsTheTable ==
  /\ Cardinality(Listed) = Len(allLoadedBookmarks)
  /\ Quiet /\ offset = 0 /\ ~untold =>
       allLoadedBookmarks = PageOf(version, Found(key), 0, Limit)

\* A session is saved once, unless two requests to save it overlapped.
OneBookmarkPerSession ==
  \A s \in Sessions \ overlapped : Cardinality(BookmarksOf(s)) <= 1
=============================================================================
