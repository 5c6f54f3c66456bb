----------------------------- MODULE ProxyPages -----------------------------
(***************************************************************************)
(* The pages that administer the proxies: the cards of the running ones    *)
(* with the form that creates another (proxies/page.tsx and _components),  *)
(* the table of the saved ones (saved-configs-tab.tsx) and the settings    *)
(* (settings/page.tsx), over the lists they share                          *)
(* (global-app-context.tsx). The server is what ProxyRegistry details: a   *)
(* handler is one step, but for the deletion, which checks and deletes in  *)
(* two. It is also used from elsewhere, a call may fail on its way there   *)
(* or back, and the daemon may be restarted.                               *)
(***************************************************************************)
EXTENDS Naturals, FiniteSets

CONSTANTS
  Entries,       \* what a proxy is configured with: address and target
  Configs,       \* the rows' identifiers; there are as many rows in a run
  EntryOf,       \* the entry a row is about
  Initial,       \* the rows of the configuration file at the start
  Old,           \* the rows only a former run used
  Keys, Values,  \* the settings
  Default,       \* their value at the start
  NoConfig,
  MaxSteps,      \* bound on what the user does
  MaxFailures,   \* bound on the calls that fail
  MaxElsewhere   \* bound on creations elsewhere and restarts

ASSUME ProxyPagesAssumption ==
  /\ EntryOf \in [Configs -> Entries]
  /\ Initial \subseteq Configs /\ Old \subseteq Configs \ Initial
  /\ \A c, d \in Initial \cup Old : EntryOf[c] = EntryOf[d] => c = d
  /\ NoConfig \notin Configs \cup Entries /\ Default \in Values
  /\ {MaxSteps, MaxFailures, MaxElsewhere} \subseteq Nat

VARIABLES
  status,        \* server: the rows, and which have a proxy running
  orphans,       \* server: the proxies that run although their row was deleted
  deleted,       \* server: the identifiers of deleted rows, which never come back
  sysList,       \* server: sysConfig.Proxies
  file,          \* the configuration file
  running, saved,             \* server: settings in force and settings stored
  allConfigs, sysConfig,      \* what the pages have of status and sysList
  listFetch, sysFetch,        \* the requests for them that count
  view,                       \* the page or tab that is shown
  card,                       \* a card's own copy of its status
  calls,                      \* other requests on their way
  form, isSubmitting, isExporting, isDeleting, isToggling,
  settings,                   \* the settings page
  steps, failures, elsewhere,
  missed,        \* history: a change no answer told of, and no refresh since
  raced,         \* history: started after the check of a deletion under way
  chosen         \* history: what each setting was last changed to and saved as

server == <<status, orphans, deleted, sysList, file, running, saved>>
lists == <<allConfigs, sysConfig, listFetch, sysFetch>>
proxyUi == <<card, form, isSubmitting, isExporting, isDeleting, isToggling>>
bounds == <<steps, failures, elsewhere>>
vars == <<server, lists, view, calls, proxyUi, settings, bounds, missed, raced, chosen>>

Statuses == {"absent", "inactive", "active"}
Views == {"active", "saved", "settings"}
NoCard == "none"
Rows == {c \in Configs : status[c] # "absent"}
Running == {c \in Configs : status[c] = "active"} \cup orphans
Entry(configs) == {EntryOf[c] : c \in configs}

\* GetOrCreateConfigRow: the row of the entry, or a new one.
RowsFor(e) ==
  LET rows == {c \in Rows : EntryOf[c] = e}
  IN  IF rows # {} THEN rows ELSE {c \in Configs \ deleted : EntryOf[c] = e}

\* The rows with a deletion that is past its check.
Checked == {x.config : x \in {y \in calls : y.at \in {"checked", "unheard"}}}
Started(c) == status' = [status EXCEPT ![c] = "active"] /\ raced' = raced \cup ({c} \cap Checked)

Idle == [at |-> "none"]
Asked == [at |-> "asked"]

\* The settings page: its fields, what it loaded, saving; touched is history, the
\* fields changed since the page was loaded.
Closed == [at |-> "closed"]
Loaded(values) ==
  [at |-> "ready", form |-> values, shown |-> values, saving |-> FALSE, touched |-> {}]

\* The active tab mounts a card for every configuration listed as active.
Cards(list, shown) ==
  [c \in Configs |-> IF shown = "active" /\ list[c] = "active"
                       THEN IF card[c] = NoCard THEN "active" ELSE card[c]
                       ELSE NoCard]

Init ==
  /\ status = [c \in Configs |-> CASE c \in Initial -> "active"
                                    [] c \in Old -> "inactive"
                                    [] OTHER -> "absent"]
  /\ orphans = {} /\ deleted = {} /\ sysList = Entry(Initial) /\ file = sysList
  /\ running = [k \in Keys |-> Default] /\ saved = running
  /\ allConfigs = [c \in Configs |-> "absent"] /\ sysConfig = {}
  /\ listFetch = Asked /\ sysFetch = Asked
  /\ view = "active" /\ card = [c \in Configs |-> NoCard] /\ calls = {}
  /\ form = NoConfig /\ isSubmitting = FALSE /\ isExporting = FALSE
  /\ isDeleting = NoConfig /\ isToggling = {}
  /\ settings = Closed
  /\ steps = 0 /\ failures = 0 /\ elsewhere = 0
  /\ missed = FALSE /\ raced = {} /\ chosen = saved

Step == steps < MaxSteps /\ steps' = steps + 1 /\ UNCHANGED <<failures, elsewhere>>

Call(kind, c, values) ==
  [kind |-> kind, config |-> c, values |-> values, status |-> "absent",
   at |-> "sent", live |-> TRUE]
Send(kind, c, values) == calls' = calls \cup {Call(kind, c, values)}

-----------------------------------------------------------------------------
(* The shared lists. SWR drops an answer when a later request was sent and *)
(* repeats a request that failed.                                          *)

\* refreshConfigs.
Refresh == listFetch' = Asked /\ sysFetch' = Asked /\ missed' = FALSE

AnswerList ==
  /\ listFetch = Asked /\ listFetch' = [at |-> "answered", list |-> status]
  /\ UNCHANGED <<server, allConfigs, sysConfig, sysFetch, view, calls, proxyUi, settings,
                 bounds, missed, raced, chosen>>

AnswerSysConfig ==
  /\ sysFetch = Asked /\ sysFetch' = [at |-> "answered", list |-> sysList]
  /\ UNCHANGED <<server, allConfigs, sysConfig, listFetch, view, calls, proxyUi, settings,
                 bounds, missed, raced, chosen>>

\* The switch and the calls of a card that goes are no longer heard of.
Unmounted(mounted) ==
  {IF x.kind \in {"start", "stop", "detail"} /\ mounted[x.config] = NoCard
     THEN [x EXCEPT !.live = FALSE] ELSE x : x \in calls}
StillMounted(mounted) == {c \in isToggling : mounted[c] # NoCard}

ReceiveList ==
  /\ listFetch.at = "answered"
  /\ allConfigs' = listFetch.list /\ listFetch' = Idle
  /\ card' = Cards(allConfigs', view)
  /\ calls' = Unmounted(card') /\ isToggling' = StillMounted(card')
  /\ UNCHANGED <<server, sysConfig, sysFetch, view, form, isSubmitting, isExporting,
                 isDeleting, settings, bounds, missed, raced, chosen>>

ReceiveSysConfig ==
  /\ sysFetch.at = "answered"
  /\ sysConfig' = sysFetch.list /\ sysFetch' = Idle
  /\ UNCHANGED <<server, allConfigs, listFetch, view, calls, proxyUi, settings, bounds,
                 missed, raced, chosen>>

-----------------------------------------------------------------------------
(* What the user does.                                                     *)

\* The tabs of the page, and the sidebar. What is left is unmounted; the settings
\* page asks for the configuration.
Show(v) ==
  /\ Step /\ view # v /\ view' = v
  /\ card' = Cards(allConfigs, v)
  /\ calls' = {[x EXCEPT !.live = @ /\ x.kind = "export" /\ v # "settings"] :
                 x \in {y \in Unmounted(card') : y.kind # "load"}}
              \cup IF v = "settings" THEN {Call("load", NoConfig, saved)} ELSE {}
  /\ isToggling' = StillMounted(card') /\ isDeleting' = NoConfig
  /\ isExporting' = (isExporting /\ v # "settings")
  /\ form' = NoConfig /\ isSubmitting' = FALSE
  /\ settings' = IF v = "settings" THEN [at |-> "loading"] ELSE Closed
  /\ UNCHANGED <<server, lists, missed, raced, chosen>>

\* Typed, or picked from the history of configurations.
FillForm(e) ==
  /\ Step /\ view = "active" /\ form # e /\ form' = e
  /\ UNCHANGED <<server, lists, view, calls, card, isSubmitting, isExporting, isDeleting,
                 isToggling, settings, missed, raced, chosen>>

CreateProxy ==
  /\ Step /\ view = "active" /\ form # NoConfig /\ ~isSubmitting
  /\ isSubmitting' = TRUE
  /\ Send("create", form, saved)
  /\ UNCHANGED <<server, lists, view, card, form, isExporting, isDeleting, isToggling,
                 settings, missed, raced, chosen>>

ToggleProxy(c) ==
  /\ Step /\ card[c] # NoCard /\ c \notin isToggling
  /\ isToggling' = isToggling \cup {c}
  /\ Send(IF card[c] = "active" THEN "stop" ELSE "start", c, saved)
  /\ UNCHANGED <<server, lists, view, card, form, isSubmitting, isExporting, isDeleting,
                 settings, missed, raced, chosen>>

ExportProxies ==
  /\ Step /\ view = "active" /\ ~isExporting
  /\ isExporting' = TRUE
  /\ Send("export", NoConfig, saved)
  /\ UNCHANGED <<server, lists, view, card, form, isSubmitting, isDeleting, isToggling,
                 settings, missed, raced, chosen>>

\* Confirmed in the dialog of a row that is listed as inactive.
DeleteConfig(c) ==
  /\ Step /\ view = "saved" /\ allConfigs[c] = "inactive" /\ isDeleting # c
  /\ isDeleting' = c
  /\ Send("delete", c, saved)
  /\ UNCHANGED <<server, lists, view, card, form, isSubmitting, isExporting, isToggling,
                 settings, missed, raced, chosen>>

EditSetting(k, v) ==
  /\ Step /\ settings.at = "ready" /\ settings.form[k] # v
  /\ settings' = [settings EXCEPT !.form[k] = v, !.touched = @ \cup {k}]
  /\ UNCHANGED <<server, lists, view, calls, proxyUi, missed, raced, chosen>>

\* isChanged compares with what was loaded, also after it was saved.
SaveSettings ==
  /\ Step /\ settings.at = "ready" /\ ~settings.saving /\ settings.form # settings.shown
  /\ settings' = [settings EXCEPT !.saving = TRUE]
  /\ Send("save", NoConfig, settings.form)
  /\ chosen' = [k \in Keys |-> IF k \in settings.touched THEN settings.form[k] ELSE chosen[k]]
  /\ UNCHANGED <<server, lists, view, proxyUi, missed, raced>>

-----------------------------------------------------------------------------
(* The server handles a call, and the page hears of it.                    *)

Ok(x) == calls' = (calls \ {x}) \cup {[x EXCEPT !.at = "ok"]}
Refuse(x) == calls' = (calls \ {x}) \cup {[x EXCEPT !.at = "error"]}
Answered(x) == x.at \in {"ok", "error"}

HandleCreate(x) ==
  /\ x.kind = "create" /\ x.at = "sent"
  /\ \/ Ok(x) /\ \E c \in RowsFor(x.config) : Started(c)
     \/ Refuse(x) /\ UNCHANGED <<status, raced>>
  /\ UNCHANGED <<orphans, deleted, sysList, file, running, saved, lists, view, proxyUi,
                 settings, bounds, missed, chosen>>

\* A stop is only acknowledged. What is not running is not registered either, so
\* it cannot be started.
HandleToggle(x) ==
  /\ x.kind \in {"start", "stop"} /\ x.at = "sent"
  /\ IF x.kind = "stop" /\ x.config \in Running THEN Ok(x) ELSE Refuse(x)
  /\ UNCHANGED <<server, lists, view, proxyUi, settings, bounds, missed, raced, chosen>>

HandleDetail(x) ==
  /\ x.kind = "detail" /\ x.at = "sent"
  /\ IF status[x.config] = "absent" THEN Refuse(x)
     ELSE calls' = (calls \ {x}) \cup {[x EXCEPT !.at = "ok", !.status = status[x.config]]}
  /\ UNCHANGED <<server, lists, view, proxyUi, settings, bounds, missed, raced, chosen>>

\* The list in memory is replaced before the file is written.
HandleExport(x) ==
  /\ x.kind = "export" /\ x.at = "sent"
  /\ sysList' = Entry(Running)
  /\ \/ Ok(x) /\ file' = sysList' /\ UNCHANGED missed
     \/ Refuse(x) /\ UNCHANGED file /\ missed' = TRUE
  /\ UNCHANGED <<status, orphans, deleted, running, saved, lists, view, proxyUi, settings,
                 bounds, raced, chosen>>

Check(x) == calls' = (calls \ {x}) \cup {[x EXCEPT !.at = "checked"]}

\* A mutant: the server relies on the button.
HandleAnyDelete(x) ==
  /\ x.kind = "delete" /\ x.at = "sent" /\ Check(x)
  /\ UNCHANGED <<server, lists, view, proxyUi, settings, bounds, missed, raced, chosen>>

\* Is its proxy running? Two deletions of one row that are this far count as one.
HandleDelete(x) ==
  /\ x.kind = "delete" /\ x.at = "sent"
  /\ IF x.config \in Running THEN Refuse(x) ELSE Check(x)
  /\ UNCHANGED <<server, lists, view, proxyUi, settings, bounds, missed, raced, chosen>>

\* The transaction of the deletion, which does not look again: a proxy that was
\* started since the check goes on without its row. There may be no one left to
\* be told.
DeleteRows(x) ==
  /\ x.kind = "delete" /\ x.at \in {"checked", "unheard"}
  /\ \/ /\ IF x.at = "checked" THEN Ok(x) /\ UNCHANGED missed
           ELSE calls' = calls \ {x} /\ missed' = TRUE
        /\ status' = [status EXCEPT ![x.config] = "absent"]
        /\ orphans' = orphans \cup ({x.config} \cap Running)
        /\ deleted' = deleted \cup {x.config}
     \/ /\ IF x.at = "checked" THEN Refuse(x) ELSE calls' = calls \ {x}
        /\ UNCHANGED <<status, orphans, deleted, missed>>
  /\ raced' = raced \cap Checked'
  /\ UNCHANGED <<sysList, file, running, saved, lists, view, proxyUi, settings, bounds, chosen>>

\* GET answers the settings in force, POST stores them for the next start, one
\* key at a time until one of them fails.
HandleSettings(x) ==
  /\ x.kind \in {"load", "save"} /\ x.at = "sent"
  /\ \/ x.kind = "load" /\ UNCHANGED saved
        /\ calls' = (calls \ {x}) \cup {[x EXCEPT !.at = "ok", !.values = running]}
        /\ UNCHANGED chosen
     \/ x.kind = "save" /\ Ok(x) /\ saved' = x.values /\ UNCHANGED chosen
     \/ /\ x.kind = "save" /\ Refuse(x)
        /\ \E done \in SUBSET Keys :
             saved' = [k \in Keys |-> IF k \in done THEN x.values[k] ELSE saved[k]]
        /\ chosen' = saved'
  /\ UNCHANGED <<status, orphans, deleted, sysList, file, running, lists, view, proxyUi,
                 settings, bounds, missed, raced>>

\* The connection breaks before the server has the call, or before its answer is
\* here; a deletion goes on.
Fail(x) ==
  /\ failures < MaxFailures /\ failures' = failures + 1
  /\ x.at \notin {"error", "unheard"}
  /\ calls' = (calls \ {x}) \cup {[x EXCEPT !.at = "error"]}
              \cup IF x.at = "checked" THEN {[x EXCEPT !.at = "unheard", !.live = FALSE]} ELSE {}
  /\ missed' = (missed \/ (x.at = "ok" /\ x.kind \in {"create", "delete", "export"}))
  /\ UNCHANGED <<server, lists, view, proxyUi, settings, steps, elsewhere, raced, chosen>>

\* handleCreate after its await.
ReceiveCreate(x) ==
  /\ x.kind = "create" /\ Answered(x) /\ calls' = calls \ {x}
  /\ isSubmitting' = (isSubmitting /\ ~x.live)
  /\ form' = IF x.live /\ x.at = "ok" THEN NoConfig ELSE form
  /\ IF x.at = "ok" THEN Refresh ELSE UNCHANGED <<listFetch, sysFetch, missed>>
  /\ UNCHANGED <<server, allConfigs, sysConfig, view, card, isExporting, isDeleting,
                 isToggling, settings, bounds, raced, chosen>>

\* handleToggle after its await: the card asks for its configuration.
ReceiveToggle(x) ==
  /\ x.kind \in {"start", "stop"} /\ Answered(x)
  /\ calls' = (calls \ {x}) \cup IF x.live /\ x.at = "ok"
                                   THEN {Call("detail", x.config, saved)} ELSE {}
  /\ isToggling' = IF x.live THEN isToggling \ {x.config} ELSE isToggling
  /\ UNCHANGED <<server, lists, view, card, form, isSubmitting, isExporting, isDeleting,
                 settings, bounds, missed, raced, chosen>>

\* handleStatusChange after its await.
ReceiveDetail(x) ==
  /\ x.kind = "detail" /\ Answered(x) /\ calls' = calls \ {x}
  /\ card' = IF x.live /\ x.at = "ok" THEN [card EXCEPT ![x.config] = x.status] ELSE card
  /\ UNCHANGED <<server, lists, view, form, isSubmitting, isExporting, isDeleting,
                 isToggling, settings, bounds, missed, raced, chosen>>

\* Mutants: an export that fails leaves the button disabled; nothing is refreshed.
ReceiveExportOk(x) ==
  /\ x.kind = "export" /\ Answered(x) /\ calls' = calls \ {x}
  /\ isExporting' = (isExporting /\ ~(x.live /\ x.at = "ok"))
  /\ IF x.at = "ok" THEN Refresh ELSE UNCHANGED <<listFetch, sysFetch, missed>>
  /\ UNCHANGED <<server, allConfigs, sysConfig, view, card, form, isSubmitting, isDeleting,
                 isToggling, settings, bounds, raced, chosen>>
ReceiveExportOnly(x) ==
  /\ x.kind = "export" /\ Answered(x) /\ calls' = calls \ {x}
  /\ isExporting' = (isExporting /\ ~x.live)
  /\ UNCHANGED <<server, lists, view, card, form, isSubmitting, isDeleting, isToggling,
                 settings, bounds, missed, raced, chosen>>

\* handleExport after its await.
ReceiveExport(x) ==
  /\ x.kind = "export" /\ Answered(x) /\ calls' = calls \ {x}
  /\ isExporting' = (isExporting /\ ~x.live)
  /\ IF x.at = "ok" THEN Refresh ELSE UNCHANGED <<listFetch, sysFetch, missed>>
  /\ UNCHANGED <<server, allConfigs, sysConfig, view, card, form, isSubmitting, isDeleting,
                 isToggling, settings, bounds, raced, chosen>>

\* handleDelete after its await; isDeleting may be another row's by now.
ReceiveDelete(x) ==
  /\ x.kind = "delete" /\ Answered(x) /\ calls' = calls \ {x}
  /\ isDeleting' = IF x.live THEN NoConfig ELSE isDeleting
  /\ IF x.at = "ok" THEN Refresh ELSE UNCHANGED <<listFetch, sysFetch, missed>>
  /\ UNCHANGED <<server, allConfigs, sysConfig, view, card, form, isSubmitting, isExporting,
                 isToggling, settings, bounds, raced, chosen>>

\* fetchSysConfig and handleSave after their awaits.
ReceiveSettings(x) ==
  /\ x.kind \in {"load", "save"} /\ Answered(x) /\ calls' = calls \ {x}
  /\ settings' = CASE ~x.live -> settings
                   [] x.live /\ x.kind = "save" -> [settings EXCEPT !.saving = FALSE]
                   [] x.live /\ x.kind = "load" /\ x.at = "ok" ->
                        Loaded(x.values)
                   [] OTHER -> [at |-> "error"]
  /\ UNCHANGED <<server, lists, view, proxyUi, bounds, missed, raced, chosen>>

-----------------------------------------------------------------------------
(* What happens to the server elsewhere.                                   *)

\* The command line merges a proxy the daemon does not run.
MergeElsewhere(e) ==
  /\ elsewhere < MaxElsewhere /\ elsewhere' = elsewhere + 1
  /\ e \notin Entry(Running)
  /\ \E c \in RowsFor(e) : Started(c)
  /\ sysList' = sysList \cup {e}
  /\ missed' = TRUE
  /\ UNCHANGED <<orphans, deleted, file, running, saved, lists, view, calls, proxyUi, settings,
                 steps, failures, chosen>>

Restart ==
  /\ elsewhere < MaxElsewhere /\ elsewhere' = elsewhere + 1
  /\ \E row \in [file -> Configs] :
       /\ \A e \in file : row[e] \in RowsFor(e)
       /\ status' = [c \in Configs |-> CASE \E e \in file : row[e] = c -> "active"
                                         [] c \in Rows /\ \A e \in file : row[e] # c -> "inactive"
                                         [] OTHER -> "absent"]
  /\ orphans' = {} /\ sysList' = file /\ running' = saved
  /\ calls' = {IF x.at \in {"sent", "checked"} THEN [x EXCEPT !.at = "error"] ELSE x :
                 x \in {y \in calls : y.at # "unheard"}}
  /\ missed' = TRUE /\ raced' = {}
  /\ UNCHANGED <<deleted, file, saved, lists, view, proxyUi, settings, steps, failures, chosen>>

-----------------------------------------------------------------------------
Handle(x) ==
  HandleCreate(x) \/ HandleToggle(x) \/ HandleDetail(x) \/ HandleExport(x)
  \/ HandleDelete(x) \/ DeleteRows(x) \/ HandleSettings(x)

Receive(x) ==
  ReceiveCreate(x) \/ ReceiveToggle(x) \/ ReceiveDetail(x) \/ ReceiveExport(x)
  \/ ReceiveDelete(x) \/ ReceiveSettings(x)

Network == \E x \in calls : Handle(x) \/ Receive(x)

Next ==
  \/ AnswerList \/ AnswerSysConfig \/ ReceiveList \/ ReceiveSysConfig
  \/ \E v \in Views : Show(v)
  \/ \E e \in Entries : FillForm(e) \/ MergeElsewhere(e)
  \/ \E c \in Configs : ToggleProxy(c) \/ DeleteConfig(c)
  \/ CreateProxy \/ ExportProxies
  \/ \E k \in Keys, v \in Values : EditSetting(k, v)
  \/ SaveSettings
  \/ \E x \in calls : Handle(x) \/ Receive(x) \/ Fail(x)
  \/ Restart

Spec == Init /\ [][Next]_vars

\* Every call is answered or fails; there is no timeout in the page.
FairSpec == Spec /\ WF_vars(Network)

-----------------------------------------------------------------------------
(* Properties.                                                             *)

Quiet ==
  /\ listFetch = Idle /\ sysFetch = Idle
  /\ \A x \in calls : x.kind \notin {"create", "export", "delete"} \/ x.at = "unheard"

\* Once its calls are answered, the page lists the configurations there are, the
\* running ones as running, and knows which are in the server's list, however the
\* answers of overlapping calls and refreshes arrived; only a change it was not
\* told of (an answer lost, the command line, a restart) may be missing.
PageFollowsServer == Quiet /\ ~missed => allConfigs = status /\ sysConfig = sysList

\* No configuration is deleted under a running proxy, although the table that
\* offers the deletion may be out of date: a proxy loses its row only to a deletion
\* that found it not running, and that was still under way when it was started.
RunningIsKept ==
  [][\A c \in Configs \ raced : status[c] = "active" => status'[c] # "absent"]_vars

\* A button that shows that something is under way becomes usable again.
BusyEnds ==
  /\ isSubmitting ~> ~isSubmitting
  /\ isExporting ~> ~isExporting
  /\ settings.at = "loading" ~> settings.at # "loading"

\* "It will be lost upon restart unless you export": a running proxy that is not
\* in the configuration file is shown as an unsaved one.
UnsavedIsFlagged ==
  Quiet /\ ~missed =>
    \A c \in Running : EntryOf[c] \notin file =>
      allConfigs[c] = "active" /\ EntryOf[c] \notin sysConfig

\* "Settings saved. Changes will take effect after restart.": a setting that was
\* changed and saved stays so until it is changed again.
SavedSettingStays ==
  calls = {} /\ failures = 0 => saved = chosen
=============================================================================
