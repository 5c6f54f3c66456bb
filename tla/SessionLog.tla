----------------------------- MODULE SessionLog -----------------------------
(***************************************************************************)
(* The life of a recorded request: the proxy handler (pkg/core/proxy.go),  *)
(* the proxy_sessions table, the goroutine that finishes a session after   *)
(* the response, the retention reaper (pkg/core/reaper.go), the deletion   *)
(* of a configuration (pkg/web/api/api_configs.go) and the list of a UI    *)
(* page that receives every event of the "sessions" topic.                 *)
(*                                                                         *)
(* Every statement sent to the database and every call of the publish      *)
(* function is a step of its own; between two steps of a handler any other *)
(* handler, the reaper or an API call may run. What the hub may lose on    *)
(* the way is modelled in WsHub; here no event is lost.                    *)
(***************************************************************************)
EXTENDS Naturals, FiniteSets

CONSTANTS
  Requests,     \* requests of this run of the program, each one session id
  OldSessions,  \* rows left by an earlier run, of a configuration with no server
  MaxRetain,    \* max_sessions_retain; 0 switches the reaper off
  MaxLogErrors   \* bound on the statements that fail

ASSUME SessionLogAssumption ==
  /\ IsFiniteSet(Requests) /\ IsFiniteSet(OldSessions)
  /\ Requests \cap OldSessions = {}
  /\ MaxRetain \in Nat /\ MaxLogErrors \in Nat

Sessions == Requests \cup OldSessions

\* A row is missing, has response_status_code 0, or has the final status.
RowStates == {"absent", "pending", "finished"}

VARIABLES
  pc,         \* where the handler of a request, and its finish goroutine, is
  timestamp,  \* entry.Timestamp
  clock,      \* the next timestamp
  row,        \* the proxy_sessions table
  view,       \* the list of a page for the requests' configuration
  reaper,     \* where reap() is, its overLimit and its idsToDelete
  logErrors,  \* statements that failed so far
  touched,    \* history: sessions deleted while the program still worked on them
  lost        \* history: rows a deleted configuration took since the reaper counted

logVars == <<pc, timestamp, clock, row, view, reaper, logErrors, touched, lost>>

Present == {s \in Sessions : row[s] # "absent"}

\* The handler or its goroutine may still write or announce the session.
InFlight(s) == s \in Requests /\ pc[s] \in
  {"inserted", "forwarding", "answered", "saved"}

LogInit ==
  /\ pc = [r \in Requests |-> "idle"]
  /\ timestamp = [s \in Sessions |-> 0]
  /\ clock = 1
  /\ row \in [Sessions -> RowStates]
  /\ \A r \in Requests : row[r] = "absent"
  /\ \A s \in OldSessions : row[s] # "absent"
  /\ view = [r \in Requests |-> "absent"]
  /\ reaper = [at |-> "ticker", over |-> 0, ids |-> {}]
  /\ logErrors = 0
  /\ touched = {}
  /\ lost = {}

\* A statement fails (a busy or broken database); the caller's error path runs.
DbError ==
  /\ logErrors < MaxLogErrors
  /\ logErrors' = logErrors + 1

-----------------------------------------------------------------------------
(* NewProxyHandler.                                                        *)

\* The timestamp is taken before the body is read and the row inserted.
ReceiveRequest(r) ==
  /\ pc[r] = "idle"
  /\ pc' = [pc EXCEPT ![r] = "reading"]
  /\ timestamp' = [timestamp EXCEPT ![r] = clock]
  /\ clock' = clock + 1
  /\ UNCHANGED <<row, view, reaper, logErrors, touched, lost>>

\* The body is too large or cannot be read: answered 413 or 500, not recorded.
RejectBody(r) ==
  /\ pc[r] = "reading"
  /\ pc' = [pc EXCEPT ![r] = "over"]
  /\ UNCHANGED <<timestamp, clock, row, view, reaper, logErrors, touched, lost>>

StartProxySession(r) ==
  /\ pc[r] = "reading"
  /\ row' = [row EXCEPT ![r] = "pending"]
  /\ pc' = [pc EXCEPT ![r] = "inserted"]
  /\ UNCHANGED <<timestamp, clock, view, reaper, logErrors, touched, lost>>

\* session stays nil: the request is forwarded and never recorded.
StartFails(r) ==
  /\ pc[r] = "reading"
  /\ DbError
  /\ pc' = [pc EXCEPT ![r] = "over"]
  /\ UNCHANGED <<timestamp, clock, row, view, reaper, touched, lost>>

\* Mutant of MergeSession: an entry the list already has is kept.
MergeOnlyNew(r, state) ==
  view' = [view EXCEPT ![r] = IF @ = "absent" THEN state ELSE @]

\* mergeSessions of the page: replace the entry of that id or add one.
MergeSession(r, state) == view' = [view EXCEPT ![r] = state]

\* Mutant of PublishStart: the event is sent by a goroutine of its own.
PublishStartLater(r) ==
  /\ pc[r] \notin {"idle", "reading"}
  /\ pc' = [pc EXCEPT ![r] = IF @ = "inserted" THEN "forwarding" ELSE @]
  /\ MergeSession(r, "pending")
  /\ UNCHANGED <<timestamp, clock, row, reaper, logErrors, touched, lost>>

PublishStart(r) ==
  /\ pc[r] = "inserted"
  /\ pc' = [pc EXCEPT ![r] = "forwarding"]
  /\ MergeSession(r, "pending")
  /\ UNCHANGED <<timestamp, clock, row, reaper, logErrors, touched, lost>>

\* The request cannot be built or the target cannot be reached: 500 or 502 to
\* the client, and nothing is written to the session.
TargetFails(r) ==
  /\ pc[r] = "forwarding"
  /\ pc' = [pc EXCEPT ![r] = "over"]
  /\ UNCHANGED <<timestamp, clock, row, view, reaper, logErrors, touched, lost>>

\* The response (an event stream may break off) has been copied to the client
\* and the goroutine of line 226 is started.
TargetAnswers(r) ==
  /\ pc[r] = "forwarding"
  /\ pc' = [pc EXCEPT ![r] = "answered"]
  /\ UNCHANGED <<timestamp, clock, row, view, reaper, logErrors, touched, lost>>

\* db.Save updates the row and, if there is none any more, inserts it again.
FinishProxySession(r) ==
  /\ pc[r] = "answered"
  /\ row' = [row EXCEPT ![r] = "finished"]
  /\ pc' = [pc EXCEPT ![r] = "saved"]
  /\ UNCHANGED <<timestamp, clock, view, reaper, logErrors, touched, lost>>

FinishFails(r) ==
  /\ pc[r] = "answered"
  /\ DbError
  /\ pc' = [pc EXCEPT ![r] = "over"]
  /\ UNCHANGED <<timestamp, clock, row, view, reaper, touched, lost>>

PublishFinish(r) ==
  /\ pc[r] = "saved"
  /\ pc' = [pc EXCEPT ![r] = "over"]
  /\ MergeSession(r, "finished")
  /\ UNCHANGED <<timestamp, clock, row, reaper, logErrors, touched, lost>>

-----------------------------------------------------------------------------
(* MaxSessionRowsReaper.reap, every five minutes.                          *)

\* Mutant of ReapCount: one row too many is deleted.
ReapCountInclusive ==
  /\ reaper.at = "ticker"
  /\ Cardinality(Present) > MaxRetain
  /\ reaper' = [at |-> "counted", over |-> Cardinality(Present) - MaxRetain + 1, ids |-> {}]
  /\ lost' = {}
  /\ UNCHANGED <<pc, timestamp, clock, row, view, logErrors, touched>>

\* The count and the early returns.
ReapCount ==
  /\ MaxRetain > 0
  /\ reaper.at = "ticker"
  /\ Cardinality(Present) > MaxRetain
  /\ reaper' = [at |-> "counted", over |-> Cardinality(Present) - MaxRetain, ids |-> {}]
  /\ lost' = {}
  /\ UNCHANGED <<pc, timestamp, clock, row, view, logErrors, touched>>

\* Mutant of Oldest: the limit is one too small.
OldestButOne(ids, n) ==
  /\ ids \subseteq Present
  /\ Cardinality(ids) = (IF n <= Cardinality(Present) THEN n - 1 ELSE Cardinality(Present))
  /\ \A old \in ids, new \in Present \ ids : timestamp[old] <= timestamp[new]

\* ORDER BY timestamp ASC LIMIT n; ties are broken as the database likes.
Oldest(ids, n) ==
  /\ ids \subseteq Present
  /\ Cardinality(ids) = (IF n <= Cardinality(Present) THEN n ELSE Cardinality(Present))
  /\ \A old \in ids, new \in Present \ ids : timestamp[old] <= timestamp[new]

ReapSelect ==
  /\ reaper.at = "counted"
  /\ \E ids \in SUBSET Sessions :
       /\ Oldest(ids, reaper.over)
       /\ reaper' = IF ids = {}
                      THEN [at |-> "ticker", over |-> 0, ids |-> {}]
                      ELSE [reaper EXCEPT !.at = "selected", !.ids = ids]
  /\ UNCHANGED <<pc, timestamp, clock, row, view, logErrors, touched, lost>>

ReapDelete ==
  /\ reaper.at = "selected"
  /\ row' = [s \in Sessions |-> IF s \in reaper.ids THEN "absent" ELSE row[s]]
  /\ reaper' = [reaper EXCEPT !.at = "deleted"]
  /\ touched' = touched \cup {s \in reaper.ids : InFlight(s)}
  /\ UNCHANGED <<pc, timestamp, clock, view, logErrors, lost>>

\* delete_session: the page filters the ids out of its list.
ReapPublish ==
  /\ reaper.at = "deleted"
  /\ view' = [r \in Requests |-> IF r \in reaper.ids THEN "absent" ELSE view[r]]
  /\ reaper' = [at |-> "ticker", over |-> 0, ids |-> {}]
  /\ UNCHANGED <<pc, timestamp, clock, row, logErrors, touched, lost>>

\* Any statement of reap() fails: it returns and the ticker tries again.
ReapFails ==
  /\ reaper.at \in {"counted", "selected"}
  /\ DbError
  /\ reaper' = [at |-> "ticker", over |-> 0, ids |-> {}]
  /\ UNCHANGED <<pc, timestamp, clock, row, view, touched, lost>>

-----------------------------------------------------------------------------
\* handleDeleteConfig for the configuration of the old sessions, which has no
\* proxy server: one transaction, no event.
DeleteOldConfig ==
  /\ \E s \in OldSessions : row[s] # "absent"
  /\ row' = [s \in Sessions |-> IF s \in OldSessions THEN "absent" ELSE row[s]]
  /\ lost' = lost \cup {s \in OldSessions : row[s] # "absent"}
  /\ UNCHANGED <<pc, timestamp, clock, view, reaper, logErrors, touched>>

-----------------------------------------------------------------------------
HandlerStep(r) ==
  \/ StartProxySession(r) \/ StartFails(r) \/ RejectBody(r) \/ PublishStart(r)
  \/ FinishProxySession(r) \/ FinishFails(r) \/ PublishFinish(r)

\* The client of net/http returns sooner or later.
TargetStep(r) == TargetFails(r) \/ TargetAnswers(r)

ReapStep == ReapCount \/ ReapSelect \/ ReapDelete \/ ReapPublish \/ ReapFails

LogNext ==
  \/ \E r \in Requests : ReceiveRequest(r) \/ HandlerStep(r) \/ TargetStep(r)
  \/ ReapStep
  \/ DeleteOldConfig

LogSpec == LogInit /\ [][LogNext]_logVars

\* Goroutines run and the ticker ticks; requests need not arrive.
LogFairness ==
  /\ \A r \in Requests : WF_logVars(HandlerStep(r))
  /\ WF_logVars(ReapStep)

FairLogSpec == LogSpec /\ LogFairness

-----------------------------------------------------------------------------
(* Correctness.                                                            *)

\* Every variable has its type.
LogTypeOK ==
  /\ pc \in [Requests -> {"idle", "reading", "inserted", "forwarding", "answered",
                          "saved", "over"}]
  /\ timestamp \in [Sessions -> Nat]
  /\ clock \in Nat
  /\ row \in [Sessions -> RowStates]
  /\ view \in [Requests -> RowStates]
  /\ reaper \in [at : {"ticker", "counted", "selected", "deleted"}, over : Nat,
                 ids : SUBSET Sessions]
  /\ logErrors \in 0..MaxLogErrors
  /\ touched \subseteq Requests
  /\ lost \subseteq OldSessions

\* A reap never leaves fewer than max_sessions_retain rows, although it counts,
\* selects and deletes in three statements between which handlers insert rows;
\* rows a configuration deleted in between took are counted as if still there.
ReaperLeavesEnough ==
  [][reaper.at = "selected" /\ reaper'.at = "deleted"
       => Cardinality(Present' \cup lost) >= MaxRetain]_logVars

\* Rows and events stay together: once a request is over, and unless the reaper
\* is about to announce its deletion, the page shows the state of its row. The
\* exception are sessions deleted while still being worked on.
ViewFollowsRow ==
  \A r \in Requests \ touched :
    ~InFlight(r) /\ ~(reaper.at = "deleted" /\ r \in reaper.ids) => view[r] = row[r]

\* Two handlers, a goroutine and the reaper publish to one page, yet a session
\* it shows as finished never goes back to pending.
NoRegress ==
  [][\A r \in Requests : view[r] = "finished" => view'[r] # "pending"]_logVars

\* Once requests stop coming the table gets down to the limit and stays there,
\* sessions that were inserted again by their Save included.
EventuallyWithinLimit ==
  <>[](MaxRetain > 0 => Cardinality(Present) <= MaxRetain)

\* "response_status_code = 0 for pending": a row has status 0 only while its
\* request is in progress.
PendingMeansInFlight ==
  \A r \in Requests : row[r] = "pending" => InFlight(r)

\* The page removes "deleted IDs from the UI list without a refresh": when
\* nothing is in progress it shows no session that is not in the table.
DeletedLeaveTheView ==
  (reaper.at = "ticker" /\ \A r \in Requests : ~InFlight(r))
    => \A r \in Requests : row[r] = "absent" => view[r] = "absent"
=============================================================================
