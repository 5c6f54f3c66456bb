# A verification project for inspect-http-proxy

TLA+ models of the parts of inspect-http-proxy that run concurrently, TLC
configurations that check them on small instances, and TLAPS proofs that hold
for every instance. `PROJECT.json` lists, for every definition, the source lines
it models; for every property, a mutant of the code that breaks it; and the
hazards of the code with the properties that cover them.

## The system

One Go process listens on several proxy addresses, forwards each request to a
target, records request and response in SQLite, and shows them live in a web UI.

| component | state | operations | interacts with |
|---|---|---|---|
| WebSocket hub, `pkg/web/api/ws.go` | `clients`, `subscriptions`, per client `topics`, `send` channel, connection, two goroutines | register, unregister, subscribe, unsubscribe, ping, Publish | every publisher; the UI |
| proxy handler, `pkg/core/proxy.go`, `model_proxy_session.go` | one row of `proxy_sessions` per request | start, forward, finish in a goroutine of its own | database, Publish |
| reaper, `pkg/core/reaper.go` | none between ticks; count and ids within one | count, select, delete, publish | database, Publish |
| proxy registry, `proxy.go` (StartProxyServer), `global.go`, `api_proxyserver.go`, `main.go` | `config_ids`, `id_to_config`, `id_to_proxyserver`, `sysConfig.Proxies`, listeners | start at boot, create, start, stop, merge, status | `proxy_configs`, configuration file |
| configuration, `proxy_config.go`, `model_proxy_config.go`, `api_configs.go` | rows of `proxy_configs`, the TOML file | get or create, export, delete, settings | registry, sessions |
| daemon, `daemon.go`, `main.go` | pid file, socket | start, stop, status, merge | other processes of the program |
| bookmarks, `model_proxy_bookmark.go`, `api_bookmarks.go`, `saved/` | `proxy_bookmarks`; the list, its selection, the editor's dirty mark | create, list, update, delete, auto-save | sessions, Publish |
| UI connection, `websocket-provider.tsx`, `use-subscription.ts` | callbacks per topic, requests on their way | mount, unmount, open, lose, reopen | the hub |
| live and history pages, `recent/`, `history/` | list, selection, offset, filters, SWR's cache | load, merge an event, remove ids, load more, search | session API, hub |
| request builder, `_jotai/http-req.ts`, `http-req-builder.tsx` | the draft, tabs, responses | edit, send, copy a session | response store |
| response store, `_jotai/http-res.ts` | map in memory, IndexedDB | get, update, clean up | builder, viewer |
| administration pages, `proxies/`, `settings/` | shared lists, cards, forms, busy marks | create, start, stop, export, delete, save settings | registry, configuration API |
| navigation, `config-provider.tsx`, `pinned-configs-store.ts`, sidebar | URL, selection, localStorage, pins | click, redirect, pin | router, pages |
| database start-up, `db.go`, `migrations/` | database file, backup, version | copy, open, migrate | - |
| statistics, routes, console, rendering | none of their own | - | - |

What is hard to test here: goroutines that end each other through channels and
connections; several publishers of one topic; sequences of SQL statements with
other statements in between; a shared slice without a lock; success reported
before the work is done; in the UI, state read before an await and used after it,
answers and events that overtake each other, effects that react to each other's
writes, and two stores of one thing. The
`hazards` of `PROJECT.json` name the lines.

What makes each component correct:

- hub: each channel is closed exactly once; the three views of who is subscribed
  agree; order of publication is kept; a connection's two goroutines end together.
- sessions: what a page shows is what is in the table; a session never goes back;
  the table gets down to its limit and is not cut below it.
- registry: one id per configuration; what listens is listed; what is listed is
  served; an export loses nothing.
- daemon: a running daemon is found, keeps its files and gets no rival; somebody
  answers in the end.
- lists of the UI: nothing listed twice, nothing of another view, what is listed is what
  the server has once nothing is on its way, the user's selection stays.
- editor and builder: what was written last is what is saved, for the thing it was written
  for; an answer is shown for its own request only, and not lost.
- administration and navigation: pages end up with what the server has; redirects come
  to rest; the places that name the chosen configuration agree.

## Modules

| module | models | proofs |
|---|---|---|
| `WsHub` | the hub, the pumps, the publishers; implements `PubSub` | `ServerProofs` |
| `PubSub` | abstract: what a publish/subscribe service promises | |
| `SessionLog` | request handler, finishing goroutine, reaper, deletion of a configuration, the page's list | `ServerProofs` |
| `ProxyRegistry` | StartProxyServer and its callers, configuration rows, export, deletion, stop | `ServerProofs` |
| `Daemon` | starting, finding, stopping and killing processes that share a socket and a pid file | `ServerProofs` |
| `UiConnection` | provider, subscribing components, loss and reopening of the connection | `FrameProofs` |
| `SessionLists` | the operators of every list: merge of an event, of a page, auto-selection | `SessionListsProofs` |
| `SelectableList` | abstract: what a list with a selection promises | |
| `RecentPage` | the live page; implements `SelectableList` | `RecentPageProofs` |
| `HistoryPage` | the history page over SWR's cache; implements `SelectableList`, which is proved and in no run | `HistoryPageProofs` |
| `Bookmarks` | table and handlers of bookmarks, the page that lists them | `BookmarksProofs` |
| `SavedDetails` | the editor of note and tags, the update of a row | `SavedDetailsProofs` |
| `RequestDraft`, `Panels`, `ResponseStore`, `JsonEditor` | draft and hash, tabs, map and IndexedDB, the JSON editor: operators only | |
| `Workbench` | composes these four: editing, sending, answers, tabs, reload | `FrameProofs` |
| `ProxyPages` | proxies and settings pages against the server | `ProxyPagesProofs` |
| `Navigation` | URL, router, provider, pins | `FrameProofs` |

`MC*.tla` only extend these for TLC. Operators introduced as "mutant of X" in a
module are not part of its specification: they are plausible faulty versions of X
used to see that a property can fail.

### WsHub

The register, unregister and broadcast channels are unbuffered: a send is a
rendezvous with `run()` in its select, modelled by `hub` moving from *select* to
the received request; what `run()` then does under its mutex is a second step.
`Publish` drops its message when the hub is not in the select. `readPump` and
`writePump` are program counters of a client; a write has a beginning and an end,
because the WebSocket library panics when two goroutines write at once, which
`handlePingMessage` makes possible. A full `send` buffer evicts the client; a
broadcast to a closed channel panics, and a panic ends the process: `Running`
guards every action. The history variables `written` and `evicted` exist only for
the properties. Payloads are numbers in the order of the calls of Publish.

`PubSub` is the promise behind Publish, without goroutines, channels and buffers: a publication
gets to all who are subscribed at that moment or to none, those who are left out get nothing any
more, and the order is that of the calls. The mapping: `subscribers` are `subscriptions`; `cut`
are the clients whose channel is closed; `received` is what a connection was given followed by
what its channel holds; `last` is the last call the hub is through with. A broadcast is `Deliver`
with the clients it evicts as `slow`; a dropped call is `Lose`; the unregister case is `Leave`.
A message in the buffer of a client whose write then fails counts as received: `received` is what
was handed to the client's goroutine.

### SessionLog

A request goes through `reading`, `inserted`, `forwarding`, `answered`, `saved`.
Each SQL statement and each publish is a step. `FinishProxySession` is
`db.Save`, which inserts a row that is no longer there. `row` and `view` keep the
three states the properties tell apart: absent, pending (status 0), finished.
Old rows belong to a configuration without a server, which `handleDeleteConfig`
may delete at any time. No event is lost here: the loss is modelled in `WsHub`.
The reaper's `SELECT ... ORDER BY timestamp LIMIT n` is `Oldest`; a statement
of it that fails ends the reap. A failing count leaves everything as it was and is
not a step of its own. The number of failures is bounded: `DELETE ... WHERE id IN` binds a
variable for each id, so that an overshoot above SQLite's limit of variables would fail at every
tick, which is outside the model.

### ProxyRegistry

A call of StartProxyServer is a process: First, Create, ConfigAdd, AddProxyConfig,
AddProxyServer, then the goroutine that binds the address. Its callers are the
loop of main, `handleProxyServerCreate`, `handleProxyServerStart` (check, then
match by target) and a merge command (check of `sysConfig.Proxies`, start, then an
append whose read and store are two steps, because no lock protects the slice).
The fingerprint of an entry is the entry itself with its Active/Error mark, which
is part of the JSON that is hashed. An id is the name of the call that inserted the
row. Two behaviours come from libraries: GORM adds a non-zero primary key of the
destination to the condition of `First`, so the fallback after a failed insert
finds nothing; an address can be bound once.
One deletion and one export run at a time (bounds).

### Daemon

Processes share `~/.ihpp/ihpp.sock` and `ihpp.pid` and nothing else. `socket` and
`pidfile` name the process that made the file, so that a file left by a dead process
is told from one that answers. Each removal, creation and search is a step; a process
may be killed at every one of them, which leaves both files, and `main` never closes
its listener, so that the socket file stays after a normal end too. The child of
`--daemon` runs `main` from the beginning, with the environment variable that keeps it
from forking again. Nothing keeps two starts apart: the history variable `overlapped`
holds the processes that started while another one was between its search and its
listener, and the safety properties say exactly what is true of the others.
`noSocket`, `noPid` and `failed` record the errors the program logs and ignores, or
dies of.

### UiConnection

`subscriptions` are the callbacks per topic; every new callback sends a request, and of those that
go only the last one of a topic. What `sendMessage` of the library is given before the connection is open is
queued and sent when it opens. The server is the part of `WsHub` one client sees: it applies
requests in their order and forgets the client when the connection ends.

### RecentPage, HistoryPage, SessionLists, SelectableList

A handler is one action with the render and the effects that follow it; an effect that changes
the key of a request is an action of its own. An answer is computed when the server handles the
request and arrives later; events arrive in their order and in no order with answers. The live
page fetches by itself for its time range, and a late answer is merged like any other: nothing
but unmounting the page drops one. The history page uses SWR: `cache` has an answer for every key, a new key shows the cached one at
once and sends a request unless one was sent less than two seconds ago. Both instances of
`SelectableList` map `list` and `selected`, and the abstract specification is a property of the
runs: no row twice, and the selected row stays selected as long as it is listed, whatever the
page does. The mapping of `recent` is checked by a run and proved, that of `HistoryPage` is proved.

### Bookmarks

Creation is a check and an insertion, two statements of requests that other tabs send without
waiting. The page's list is loaded through SWR like the history's; the server is never told of
method and status, which only make another key. The server announces updates only: creations and
deletions of other tabs, dropped messages and lost answers set the history variable `untold`,
as does an answer that is shared with an older request; a request sent later clears it.
`selected` of a DELETE request is what `handleDelete` captured before its await.

### SavedDetails

A text is a note and tags, each a value of a small set, so that an edit can restore what was
there before. Each has a pause of its own (`useDebounced`): `AutoSave(p)` is enabled only if the
part differs from what its pause saw last, as an effect does not run for a value that did not
change. The answer of a save clears the dirty mark and becomes the data of the bookmark that is
shown when it arrives, as in the code. `UpdateBookmarkMetadata` is `ReadRow` and `SaveRow`;
`db.Save` inserts a row that is gone. `crossed`, `overlapped` and `unnoticed` record the three
situations in which the code misplaces a text, forgets that it is unsaved, or leaves it marked
with nothing to save it: another bookmark opened with an edit unsaved, an edit during a save, and
an edit that leaves what both pauses had seen.

### Workbench, RequestDraft, Panels, ResponseStore, JsonEditor

The four operator modules describe one store each and `Workbench` has the actions. A response's
key is the hash of the draft with the time of the click. Operations on IndexedDB are queued and
run in their order; the count after a write and the deletion that follows it are transactions of
their own, so that cleanups overlap. A read captures the map before it waits and writes the
captured one back. A reload loses memory and operations under way, and restores the stored tabs.
The JSON editor (vanilla-jsoneditor, external) keeps a text of its own. Because `onBlurJson` is a
new function in every render, the effect that is commented "Only run on mount" makes a new editor
of the draft's body each time the builder renders; `RenderBuilder` is that, in every action that
renders it. A click takes the focus first, so no action of the user but typing happens while
`typing` (the library reports the blur in the same turn as the click's mousedown, a reload by key
excepted).

### ProxyPages

The server's handlers are one step each; `ProxyRegistry` has them in detail. The deletion of a
row is two, `HandleDelete` with the check and `DeleteRows` with the transaction, since a start in
between is what a page cannot see. A row has an identifier (`Configs`), what it is about is an
entry (`EntryOf`): forms, the configuration file and `sysConfig.Proxies` name entries, and an
entry whose row was deleted gets a new identifier (`RowsFor`). `orphans` are the proxies that run
without a row. A call can be lost before the server gets it or after; a deletion goes on when
nobody waits for it any more (`unheard`). Cards keep their own copy of a status, as the switch's code
does; pages that are left no longer hear of their calls. SWR drops answers that a later refresh
has replaced. `missed` is set by changes no answer told of, `raced` by a start while a deletion
of the row is past its check.

### Navigation

A handler is one action with its render and effects. The router gets to a URL some time after it
was asked, and a later request may overtake an earlier one, which is then dropped. The live page
waits until both lists of `GlobalProvider` are loaded (`isLoading`); the model has one list, so
that the page chooses as soon as the configurations are there.

## Runs

| run | instance | shows |
|---|---|---|
| `hub` | 2 clients, 1 topic, capacity 1, 3 publishes, one client pings | `OpenIffInClients`, `StaleSubscribersWereEvicted`, `PanicCauses`, `ImplementsPubSub`, `PumpsEndTogether` |
| `session_log` | 3 requests, 1 old row, limit 1, one failing statement | `ViewFollowsRow`, `ReaperLeavesEnough`, `NoRegress`, `EventuallyWithinLimit` |
| `registry` | 2 calls, 2 addresses, an invalid target, one proxy configured, one export, one failing statement | `OneIdPerEntry`, `ListenersAreListed`, `ExportKeepsListeners`, `ActiveGetsServed` |
| `daemon` | 3 processes, a forked child included | `DaemonIsFound`, `OneDaemon`, `PidNamesDaemon`, `SomeDaemonAnswers` |
| `ui_connection` | 3 components on 2 topics, 6 mounts and unmounts, 2 losses | `ServerFollowsTab`, `EventuallySubscribed` |
| `recent` | 3 sessions, one of another configuration, pages of 1, 2 loads, 1 failure | `ListFollowsTable`, `ImplementsSelectableList` |
| `history` | 3 sessions of 2 configurations, a search, 2 pages of 1, 2 changes of the key, 1 failure | `ListIsOfTheView`, `LoadingEnds` |
| `saved_details` | 2 bookmarks, one with a tag, 2 values; at most 4 of 2 edits, 2 openings, 1 failure or act of another tab | `TextsStayWhereWritten`, `LastEditIsSaved`, `DeletedStaysDeleted`, `EditsAreSaved` |
| `workbench` | 2 requests, 2 edits, 1 reload, 1 switch, stores of 1 response and 1 tab | `ResponseOfItsRequest`, `PanelsAgree`, `StoreBounded`, `OutcomeIsKept`, `EditorShowsDraft` |
| `proxy_pages` | 2 entries and 3 rows, 4 acts of the user, 1 failure, 1 act elsewhere or restart | `PageFollowsServer`, `RunningIsKept`, `BusyEnds` |
| `navigation` | 2 configurations, 3 clicks, 1 change of the configurations | `SelectionAgrees`, `PinsFollowUrl`, `NavigationSettles` |
| `bookmarks` | 2 saved sessions, pages of 1, a search, a filter, 3 acts | `ListIsTheTable`, `OneBookmarkPerSession` |

Bounds. Capacity 1 and three publishes are what it takes to buffer, to evict and to publish again
to the same topic; two clients let one be evicted while the other is served. Three requests and a
limit of one let the reaper select sessions in every stage of a request while another is
inserted. Two calls let any two of main, an API call and a merge race for a row, an address or
the slice while a configuration is deleted and an export runs; more calls and rows of earlier
runs are left to the proofs. Three processes let one stop or die while another starts and forks
the third. Pages of one row make every second row a second page; three sessions then give a page
more than the list has. Two edits, saves or requests are what overlaps; a third would overlap
with one of them in the same way. Three acts are a deletion and two requests to save the session
again, or a search, the way back and a deletion in between. An edit needs four steps to be undone
under a save, or to be left behind for another bookmark and found again. The third row lets an
entry come back after its first row was deleted. The stores hold one entry, so that
every second write meets the limit. Deadlock is not checked: every system here may stop when
nobody connects, sends, types or clicks.

Fairness. Goroutines that can run do run (weak fairness of the hub, the pumps, the handlers, the
reaper's ticks, the starting calls and the processes). The rendezvous with the hub needs strong
fairness: it is enabled only while the hub is in its select, and Go's select chooses at random
among the ready cases. In the UI timers end, the server answers, React renders again, the library
reopens a lost connection and the router gets to the last URL it was asked for: each is weak
fairness of that step alone. Nothing is assumed of peers, targets (except that an answer or an
error comes, which no property relies on), users, other tabs or other processes.

## Known divergences

What follows is not true of the code. Where there is a configuration, TLC finds the
counterexample with it (`tlc -config MCX.cfg <module>`); the properties above are stated with the
condition that excludes the case.

| configuration | module | property that fails | what happens |
|---|---|---|---|
| `MCWsHubPanic` | `MCWsHub` | `PublishReachesSubscribers` | `ws.go:104` an evicted client stays in `h.subscriptions`; the next publish to its topic sends on a closed channel and the process ends |
| `MCSessionLogPending` | `MCSessionLog` | `PendingMeansInFlight` | `proxy.go:141` a request whose target cannot be reached keeps status 0 for good |
| `MCSessionLogGhost` | `MCSessionLog` | `DeletedLeaveTheView` | `model_proxy_session.go:158` a session reaped while in progress comes back to the page |
| `MCProxyRegistryStop` | `MCProxyRegistry` | `StopStops` | `api_proxyserver.go:109` stop answers 200 and stops nothing |
| `MCProxyRegistryRace` | `MCProxyRegistry` | `RaceIsNoError` | `model_proxy_config.go:72` the fallback after a lost insert race still carries the generated id and finds nothing |
| `MCHistoryPageConfig` | `MCHistoryPage` | `OnlyThisConfig` | `with-configs-history.tsx:84` another configuration keeps list and offset: with an offset above 0 the list mixes both |
| `MCSavedDetailsCrossed` | `MCSavedDetails` | `TextsStayWithTheirBookmark` | `saved-details.tsx:68` another bookmark opened with an edit unsaved gets its text |

Further, without a configuration of their own (the names are definitions of the modules):
`ProxyRegistry!FailedIsInactive`, as a proxy that cannot bind its address is active (`proxy.go:339`);
`ProxyRegistry!MergeReportsConflict`, as a merge does not see a proxy the API created on its
address (`main.go:258`); `Workbench!ViewerShowsOutcome`, as the map captured before the read is
written back and hides an outcome (`http-res.ts:227`); `ProxyPages!UnsavedIsFlagged`, as a running
proxy that is not in the file is not shown as unsaved; `ProxyPages!SavedSettingStays`, as a save of
the reopened settings page, which shows the settings in force, reverts a saved one;
in the bookmark editor, an edit undone within the pause keeps `dirtyRef` set, with no save to come
until the next edit or blur, so that events are ignored and the next bookmark opened shows this
one's text; an edit that leaves what the pauses saw last, such as removing the only tag within two
seconds of opening the page, is saved by nothing but a blur or the next edit
(`saved-details.tsx:90`); an edit made during a save loses its mark when the answer comes
(`saved-details.tsx:78`), so that nothing saves it and an event overwrites it; the event of an own
save that comes after a later one shows the older text until the next event; a proxy started
between the check and the transaction of a deletion runs on without its row, in no list, and is
exported (`api_configs.go:198`); `UiConnection!ReconnectRestoresTopics`, as nothing subscribes again after a loss; the active tab after a reload is the last one restored; a
response that was loading when the page was reloaded loads for ever; what is being typed into the
JSON editor is lost when the list of configurations is loaded again (`RefreshConfigs`); a deleted bookmark stays
listed on a page with an offset above 0, as only that page is loaded again; a row clicked while
its deletion is under way stays selected; method and status on the page of saved sessions filter
nothing.

## Proofs

The proofs hold for every value of the constants, from the assumption of the module: bounds are
natural numbers, sets of names do not overlap where the code keeps them apart. Those that say
more: `WsHubAssumption` (a buffer has a place), `ProxyRegistryAssumption` (a new row's id is
not the id of an old one), `SavedDetailsAssumption` (finitely many bookmarks),
`RecentPageAssumption` (a page has a row; sessions are numbered in the order they begin, as the
table is sorted by their timestamp), `HistoryPageAssumption` (a page has a row; every session is
found without a search), `BookmarksAssumption` (a page has a row; the rows there are at first are
of different sessions; every bookmark is found without a search), `WorkbenchAssumption` (the store holds a response; an
empty target and an empty body exist, and what the editor's parser makes of a body is one) and
`NavigationAssumption` (finitely many configurations, and no value that stands for a missing one
is an id or a date).

`FrameProofs` is about what is around every page: `Workbench`, `UiConnection` and `Navigation`. It
extends all three, so the last two have `Init`, `Next` and `Spec` under names of their own.
`ServerProofs` is about the four components of the server in the same way: `HubSpec`, `LogSpec`,
`RegistrySpec` and `DaemonSpec` are their specifications. `SessionListsProofs` has what the three
pages with lists share: rows removed, joined or merged by id stay distinct, and `PageOf` gives the
newest rows of a view, each once.

No property is inductive alone. What each proof adds:

- `WsHub`: `HubIInv` adds `Handshake`: which
  states of the two pumps, the connection and the hub go together (a client in the
  hub's unregister case has a reader that is done, a client that is not yet
  registered has no subscriptions, and so on), and that `topics` and
  `subscriptions` are inverse to each other for clients still in `clients`. With it
  the unregister case provably removes every subscription, so that only an eviction
  can leave a closed subscriber. `MessagesInOrder` needs that what is written, what
  is buffered and what the hub holds have increasing numbers not above `calls`. With both,
  `HubImplementsPubSub` shows a subscription, the unregister case, an accepted or a dropped call
  and a broadcast to be steps of `PubSub` and all others to be stutters: a broadcast gives every
  subscriber that is not evicted its message in one step, as `writePump` only moves messages from
  the channel to the connection.
- `SessionLog`: the page follows the table because each state of the program counter
  determines row and view of a session that was not touched by the reaper; `NoRegress`
  because the pending event precedes the finishing goroutine; the reaper leaves enough
  because rows other than the old ones are only ever added between its count and its
  deletion.
- `ProxyRegistry`: everyone who holds an id means the same entry by it - calls, map and
  row (`IdMeansEntry`) - because a call without an id has used its name for nothing
  (`Fresh`) and a fingerprint has one row (`Rows`). A deleted row leaves the map entry,
  which is why a second id is possible then. `Stored` says what a call has put in the
  maps by the time it gets to a point; `Collecting` that an export has every listener
  in its list or under an id still to be looked up, where an active id keeps its entry.
- `Daemon`: an undisturbed daemon's socket is in place and nobody is past the search for
  a daemon (`SocketIsSafe`), since two processes that are starting at once are known to
  overlap (`StartsOverlap`); the pid file follows from both (`PidIsSafe`).
- `SavedDetails`: a text in the editor or in a PATCH is of the bookmark it goes to (`Attributed`).
  `LastEditIsSaved` rests on `Calm`, in which every place a text can hide in has a successor: an
  unsaved edit is waiting for its pause or its PATCH, or restored what the pauses had seen
  (`EditIsSent`), SWR's data are the row or an answer or event is to come (`CacheIsTheRow`), the
  last event of a bookmark carries its row (`EventsEndWithTheRow`), and the editor shows the row
  unless it is dirty, the end of the editing is to come or an event is (`EditorCatchesUp`). Texts may return, so nothing is concluded from a
  text being new; what a PATCH carries is known because no edit was made while it was under way.
  `Survivors` says which saves have read a row that is now deleted.
- `Workbench`: two sends never have one key, as each leaves a later timestamp in the draft
  (`KeysDiffer`), so a loading or finished state under a key is of one request wherever it is:
  in the map, in IndexedDB, in an operation that waits, in the map a read has captured
  (`StatesAreOwn`). An outcome is stored, or it is the last write of its key that waits for
  IndexedDB, or it was cleaned up (`OutcomesAreSaved`). Each overlapping
  cleanup deletes by a stale count; `CleanupsSuffice` counts what the waiting ones are still to
  delete. `PanelsAgree` needs that no two tabs have one id (`TabsDiffer`) and that storing what
  was stored changes nothing.
- `UiConnection`: the server handles requests in their order, so what it will have of a topic is
  decided by the last request for it that is on its way, and by what it has if there is none.
  `TabInv` says that one of the two places a request can be in is empty (`QueueOrWire`) and that
  what the requests in the other one lead to is what the components want (`Follows`). Lemmas say
  what appending a request and handling the first one do to the last ones.
- `Navigation`: what the provider has chosen agrees with the URL it was rendered for (`IsChosen`),
  and a URL without a configuration always has a redirect on its way (`IsReplaced`), which is what
  `SelectionAgrees` needs and a state with redirects on their way does not show. A redirect that
  comes late lands on a URL the user has changed: both parts hold for whatever URL the router
  gets to, and for every list of configurations that arrives between.
- `RecentPage`: the last
  event of a session in the queue announces the row there is (`Truthful`); every listed row is the table's or has an event to come or is known to be
  overtaken (`RowsAreKnown`); and the newest rows of the table are listed, or announced in the
  queue, or overtaken (`NewestAreKnown`), also by the answers that are under way
  (`RequestsAreOfThePage`). `Refinement` shows each action to be a step of `SelectableList` or a
  stutter, with the same invariant.
- `HistoryPage`: an answer has only sessions of its key, wherever it is: under way or in SWR's
  cache (`AnswersAreOfTheirKeys`). Whichever of the two is merged, late or cached, replaces the
  list of the first page by one of its key (`ListIsOfTheKey`, the property itself); the events
  that add to it are those of the configuration. `Refinement` is as for the live page.
- `Bookmarks`: a session whose requests do not overlap has one on its way at a time, and when that
  one has found no bookmark there is none (`RequestsAreAlone`), so the insertion makes the only
  one (`BookmarksDiffer`, the property itself). For the list (`Told`): as long as every change
  was told, a deletion has yet to ask for the list again, or the request is not answered, or its
  answer is the table's page, or the list is (`ListIsComing`); notes that are behind have an update on its
  way that is the last of its bookmark and carries the note of now (`Truthful`). That is not
  inductive alone: SWR does not hand the page an answer that equals the cached one, so the
  list must already have what the cache has (`ListIsOfTheCache`).
- `ProxyPages`: a list that is not the server's has a refresh under way that will see it, or an
  answered call that will ask for one, or was never told (`ListsAreCurrent`); every busy mark has its call
  (`BusyIsAwaited`). TLC finds this true, but it is not inductive: it admits a
  page that waits for a call of a card it does not show, whose answer would break it. What was
  missing is `CardsAreShown`: the page waits for calls of mounted cards only, because unmounting a
  card forgets its calls. `NothingHangs` is the safety part of `BusyEnds`. The action
  property `RunningIsKept` follows from `RacesAreKnown`: where a deletion is past its check and the
  proxy of its row runs, it was started since. The check makes it true, starts record the race,
  and the answer, loss or end of any other call leaves it so.

Where a proof needs an induction over data (the order of a finite set of numbers, the size of a
list), it takes a smallest counterexample, which exists by the library's `WFMin` as strict
inclusion of finite sets and `<` on the naturals are well-founded; the induction theorems
themselves take an operator and cannot be used. For that, `SessionLists` writes the rows of a
list at some of its places with a function (`InOrder`, `Picked`), not with `SelectSeq`.

Liveness under fairness is out of the prover's reach, but what makes a wait end is an invariant,
and those are proved: nobody waits for something that is not on its way.

| liveness property | theorem | its safety part |
|---|---|---|
| `PumpsEndTogether` | `NoPumpIsLeft` | when one goroutine of a connection is done, the connection or the channel the other one waits on is closed, or the hub has the client in hand; when both are done and it has not, the hub has forgotten the client |
| `ActiveGetsServed` | `NothingActiveIsDead` | an address reported as active is served, or one of its calls is about to bind |
| `SomeDaemonAnswers` | `LastStartIsReachable` | when nobody is starting, the socket is of a process that answers or was told to stop, unless something was killed or failed |
| `LoadingEnds` | `LoadingIsAnswered` | while "Loading..." shows, the key's first request is on its way |
| `EditsAreSaved` | `NothingIsStuck` | what is not saved is in a PATCH under way, or in the editor, marked, with a pause to come, or restored what the pauses had seen; a mark waits for a PATCH or a pause |
| `BusyEnds` | `NothingHangs` | every busy mark has its call |
| `NavigationSettles` | `RedirectsEnd` | `Rank`, the URLs the router was asked for and has not got to, with those that are not final counted twice, falls whenever it gets to one: a redirect goes to a final URL, and only a URL that is not final has one |

Only model-checked are the nine liveness properties themselves: these seven,
`EventuallyWithinLimit` and `EventuallySubscribed`. The type invariants, the invariants in the
table above and the refinement of `HistoryPage` are proved and in no run.

## Plan

1. `Database`: backup, migrate, crash, restart.
2. An abstract log that `SessionLog` implements for sessions that are not reaped while in
   progress.
3. The checkboxes of the session lists with the batch copy.

## Not modelled

Header rewriting, URL joining, body limits, formatting and console output (data that
no property tells apart); read-only statistics, session details and the batch endpoint; the
request that forwards the builder's draft; routing and embedded files; rendering, copying to the
clipboard, resizing of panels, the version check. Database start-up: see the plan. Called by
nothing, and left out: `StopProxyServer`, `ConfigSet`, `ConfigClear`, the Remove and Clear
methods of the store, `IsDaemonRunning` and the searches for a process by pid or name; in the UI
`clearAll`, `delete` and `clear` of the response store, `updateTabAtom`, `clearStoredTabs` and
`togglePanelAtom`. The loop that closes the servers at shutdown is followed by the end of the
process.
