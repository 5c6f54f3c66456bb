----------------------------- MODULE Navigation -----------------------------
(***************************************************************************)
(* Which configuration the pages are about. It is in the URL, in the state *)
(* of the provider around the pages (config-provider.tsx), in localStorage *)
(* and, with the start time, in the pins of the sidebar                    *)
(* (app-nav-sidebar.tsx, pinned-configs-store.ts); effects carry it from   *)
(* one to the other whenever the URL or the list of configurations changes *)
(* (recent/page.tsx). The router changes the URL some time after it was    *)
(* asked to; a later request may overtake an earlier one.                  *)
(*                                                                         *)
(* An action is a handler with the render and the effects that follow it.  *)
(***************************************************************************)
EXTENDS Naturals, SequencesExt, FiniteSetsExt

CONSTANTS
  Configs,     \* ids, in the order of their creation
  Starts,      \* start times
  Today,       \* the one the page falls back to
  None,        \* no configuration or start time
  MaxClicks,   \* bound on what the user does
  MaxChanges   \* bound on the changes of the configurations

ASSUME NavigationAssumption ==
  /\ Configs \subseteq Nat /\ IsFiniteSet(Configs) /\ Today \in Starts /\ None \notin Configs \cup Starts
  /\ MaxClicks \in Nat /\ MaxChanges \in Nat

VARIABLES
  server,      \* the configurations there are, and which of them are running
  allConfigs,  \* those the page knows of; NotLoaded before the first answer
  url, navs,   \* the URL, and those the router was asked for
  selected,    \* selectedConfigId of the provider, None without one
  persistent,  \* "selected-config-id" in localStorage
  pins,        \* pinnedConfigsAtom and its copy in localStorage
  clicks, changes

navigationVars == <<server, allConfigs, url, navs, selected, persistent, pins, clicks, changes>>

Paths == {"recent", "history", "proxies"}
Url(path, config, from) == [path |-> path, config |-> config, from |-> from]
Urls == [path : Paths, config : Configs \cup {None}, from : Starts \cup {None}]

\* A list of configurations: which are running, by id. The newest comes first.
NoList == [loaded |-> FALSE, active |-> <<>>]
List(active) == [loaded |-> TRUE, active |-> active]
Ids(list) == DOMAIN list.active
First(list) == Max(Ids(list))
FirstActive(list) ==
  LET running == {c \in Ids(list) : list.active[c]}
  IN  IF running = {} THEN First(list) ELSE Max(running)

-----------------------------------------------------------------------------
(* The effects.                                                            *)

HasProvider(u) == u.path \in {"recent", "history"}
DefaultId(u, list) == IF u.path = "recent" THEN FirstActive(list) ELSE First(list)

\* A mutant: what is stored comes before what the URL says.
StoredFirst(u, list, stored) ==
  CASE stored \in Ids(list) -> stored
    [] stored \notin Ids(list) /\ u.config \in Ids(list) -> u.config
    [] OTHER -> DefaultId(u, list)

\* The provider's choice: URL, localStorage, default.
ProviderChoice(u, list, stored) ==
  CASE u.config \in Ids(list) -> u.config
    [] u.config \notin Ids(list) /\ stored \in Ids(list) -> stored
    [] OTHER -> DefaultId(u, list)

\* It writes the default to the URL, and what was stored only when the URL has no
\* configuration; the recent page looks after its own URL.
ProviderRedirect(u, list, stored) ==
  IF /\ u.path = "history" /\ Ids(list) # {} /\ u.config \notin Ids(list)
     /\ stored \in Ids(list) => u.config = None
    THEN <<[u EXCEPT !.config = ProviderChoice(u, list, stored)]>>
    ELSE <<>>

\* A mutant: it is the running configuration's page in any case.
RecentAlways(u, list) ==
  IF u.path = "recent" /\ list.loaded /\ u.config \in Ids(list) \cup {None}
    THEN <<[u EXCEPT !.config = IF Ids(list) = {} THEN None ELSE FirstActive(list),
                     !.from = IF u.from = None THEN Today ELSE u.from]>>
    ELSE <<>>

\* The recent page completes its URL, unless the configuration does not exist.
RecentRedirect(u, list) ==
  LET complete ==
        [u EXCEPT !.config = IF u.config = None /\ Ids(list) # {} THEN FirstActive(list)
                             ELSE u.config,
                  !.from = IF u.from = None THEN Today ELSE u.from]
  IN  IF u.path = "recent" /\ list.loaded /\ u.config \in Ids(list) \cup {None} /\ complete # u
        THEN <<complete>> ELSE <<>>

\* The pin of the page's configuration takes the parameters of the URL.
SyncPins(u, pinned) ==
  [i \in DOMAIN pinned |-> IF u.path = "recent" /\ pinned[i].id = u.config
                             THEN [pinned[i] EXCEPT !.from = u.from] ELSE pinned[i]]

\* A render for this URL and list, with the effects it triggers.
Render(u, list, stored, pinned, asked) ==
  /\ url' = u /\ allConfigs' = list
  /\ IF HasProvider(u) /\ Ids(list) # {}
       THEN /\ selected' = ProviderChoice(u, list, stored)
            /\ persistent' = selected'
       ELSE /\ selected' = IF u.path = url.path THEN selected ELSE None
            /\ persistent' = stored
  /\ pins' = SyncPins(u, pinned)
  /\ navs' = asked \o ProviderRedirect(u, list, stored) \o RecentRedirect(u, list)

NavigationInit ==
  /\ server \in [Configs -> BOOLEAN]
  /\ allConfigs = NoList
  /\ url \in {Url(p, None, None) : p \in Paths}
  /\ navs = <<>> /\ selected = None /\ persistent = None /\ pins = <<>>
  /\ clicks = 0 /\ changes = 0

-----------------------------------------------------------------------------
(* The router and the list.                                                *)

\* The router gets to a URL it was asked for; those before it are dropped.
Navigate(i) ==
  /\ i \in DOMAIN navs
  /\ Render(navs[i], allConfigs, persistent, pins, SubSeq(navs, i + 1, Len(navs)))
  /\ UNCHANGED <<server, clicks, changes>>

ReceiveConfigs ==
  /\ allConfigs # List(server)
  /\ Render(url, List(server), persistent, pins, navs)
  /\ UNCHANGED <<server, clicks, changes>>

\* A configuration is created or started, stops with the daemon, or is deleted.
ChangeConfigs ==
  /\ changes < MaxChanges /\ changes' = changes + 1
  /\ \E S \in SUBSET Configs : server' \in [S -> BOOLEAN] /\ server' # server
  /\ UNCHANGED <<allConfigs, url, navs, selected, persistent, pins, clicks>>

-----------------------------------------------------------------------------
(* What the user does.                                                     *)

Click == clicks < MaxClicks /\ clicks' = clicks + 1 /\ UNCHANGED <<server, changes>>
Push(u) == navs' = Append(navs, u)

\* The pins without that of a configuration, which has at most one.
PinPlace(id) == CHOOSE i \in DOMAIN pins : pins[i].id = id
Unpin(id) ==
  pins' = IF \E i \in DOMAIN pins : pins[i].id = id THEN RemoveAt(pins, PinPlace(id)) ELSE pins

\* pinnedItems: a pin of a configuration the page does not know of is not shown.
PinShown(i) == i \in DOMAIN pins /\ pins[i].id \in Ids(allConfigs)

\* An entry of the sidebar, or a pin, is clicked.
OpenPage(path) ==
  /\ Click /\ Push(Url(path, None, None))
  /\ UNCHANGED <<allConfigs, url, selected, persistent, pins>>

OpenPin(i) ==
  /\ PinShown(i)
  /\ Click /\ Push(Url("recent", pins[i].id, pins[i].from))
  /\ UNCHANGED <<allConfigs, url, selected, persistent, pins>>

RemovePin(i) ==
  /\ PinShown(i)
  /\ Click
  /\ Unpin(pins[i].id)
  /\ UNCHANGED <<allConfigs, url, navs, selected, persistent>>

\* A mutant: every click pins again.
PinAgain(c) ==
  /\ url.path = "proxies" /\ c \in Ids(allConfigs) /\ allConfigs.active[c]
  /\ Click /\ Push(Url("recent", c, Today))
  /\ pins' = Append(pins, [id |-> c, from |-> Today])
  /\ UNCHANGED <<allConfigs, url, selected, persistent>>

\* handleMonitor of a card: the configuration is pinned once.
Monitor(c) ==
  /\ url.path = "proxies" /\ c \in Ids(allConfigs) /\ allConfigs.active[c]
  /\ Click /\ Push(Url("recent", c, Today))
  /\ LET known == {i \in DOMAIN pins : pins[i].id = c}
     IN  pins' = IF known = {} THEN Append(pins, [id |-> c, from |-> Today])
                 ELSE [i \in DOMAIN pins |-> IF i \in known THEN [id |-> c, from |-> Today] ELSE pins[i]]
  /\ UNCHANGED <<allConfigs, url, selected, persistent>>

SetTimeRange(f) ==
  /\ url.path = "recent" /\ url.config \in Ids(allConfigs) /\ url.from # f
  /\ Click /\ Push([url EXCEPT !.from = f])
  /\ UNCHANGED <<allConfigs, url, selected, persistent, pins>>

\* handleRemoveInvalidPin, on the page of a configuration that is not listed.
RemoveInvalidPin ==
  /\ url.path = "recent" /\ allConfigs.loaded /\ Ids(allConfigs) # {}
  /\ url.config \notin Ids(allConfigs) \cup {None}
  /\ Click /\ Push(Url("proxies", None, None))
  /\ Unpin(url.config)
  /\ UNCHANGED <<allConfigs, url, selected, persistent>>

\* setSelectedConfigId: the effect runs before the URL has changed and goes back
\* to the URL's configuration, until the router gets there.
SelectConfig(c) ==
  /\ url.path = "history" /\ c \in Ids(allConfigs) /\ c # selected
  /\ Click
  /\ Render(url, allConfigs, c, pins, Append(navs, [url EXCEPT !.config = c]))

NavigationNext ==
  \/ \E i \in DOMAIN navs : Navigate(i)
  \/ ReceiveConfigs \/ ChangeConfigs
  \/ \E p \in Paths : OpenPage(p)
  \/ \E i \in DOMAIN pins : OpenPin(i) \/ RemovePin(i)
  \/ \E c \in Configs : Monitor(c) \/ SelectConfig(c)
  \/ \E f \in Starts : SetTimeRange(f)
  \/ RemoveInvalidPin

NavigationSpec == NavigationInit /\ [][NavigationNext]_navigationVars

\* The router gets to the last URL it was asked for.
FairNavigationSpec == NavigationSpec /\ WF_navigationVars(\E i \in DOMAIN navs : Navigate(i))

-----------------------------------------------------------------------------
(* Properties.                                                             *)

\* Once the router is done, the history page shows the sessions of a
\* configuration that is listed, the one the URL names if it is, and the same
\* one is remembered for the next visit.
SelectionAgrees ==
  navs = <<>> /\ HasProvider(url) /\ Ids(allConfigs) # {} =>
    /\ selected \in Ids(allConfigs) /\ persistent = selected
    /\ url.config \in Ids(allConfigs) => selected = url.config
    /\ url.config # None

\* No configuration is pinned twice, and the pin of the page that is shown leads
\* back to it with the start time it shows.
PinsFollowUrl ==
  /\ \A i, j \in DOMAIN pins : pins[i].id = pins[j].id => i = j
  /\ navs = <<>> /\ url.path = "recent" =>
       \A i \in DOMAIN pins : pins[i].id = url.config => pins[i].from = url.from

\* The effects of the provider and of the page do not send each other from URL to
\* URL: left alone, the router comes to rest.
NavigationSettles == <>[](navs = <<>>)
=============================================================================
