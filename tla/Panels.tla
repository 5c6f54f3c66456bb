------------------------------- MODULE Panels -------------------------------
(***************************************************************************)
(* The tabs of the bottom panel (_jotai/bottom-panel-store.ts,             *)
(* bottom-panel.tsx, bottom-panel-tabs.tsx): the request builder, which    *)
(* cannot be closed, and a tab for every response. Closeable tabs are kept *)
(* in localStorage, the last MaxStoredTabs of them.                        *)
(***************************************************************************)
EXTENDS Naturals, SequencesExt

CONSTANTS
  MaxStoredTabs,
  NoKey          \* the key of a tab that shows no response

VARIABLES
  tabs,       \* tabsAtom: a tab is its id and the key of the response it shows
  activeTab,  \* activeTabIdAtom, kept in localStorage
  stored,     \* the tabs in localStorage
  open        \* isPanelOpenAtom

panelVars == <<tabs, activeTab, stored, open>>

BuilderId == 0
Builder == [id |-> BuilderId, key |-> NoKey]

TabIds(ts) == {ts[i].id : i \in DOMAIN ts}

\* saveTabsToStorage. The builder is the first tab and the only one that cannot
\* be closed.
Storable(ts) ==
  LET closeable == Tail(ts)
      n == Len(closeable)
  IN  SubSeq(closeable, IF n > MaxStoredTabs THEN n - MaxStoredTabs + 1 ELSE 1, n)

\* What a page load makes of localStorage: the builder, then every stored tab,
\* each of which becomes the active one when it is added.
LoadTabs ==
  /\ tabs' = <<Builder>> \o stored
  /\ activeTab' = Last(<<Builder>> \o stored).id
  /\ UNCHANGED <<stored, open>>

PanelsInit ==
  /\ tabs = <<Builder>> /\ activeTab = BuilderId
  /\ stored = <<>> /\ open = TRUE

\* addTabAtom for a new response.
AddTab(tab) ==
  /\ tabs' = Append(tabs, tab)
  /\ activeTab' = tab.id
  /\ stored' = Storable(Append(tabs, tab))
  /\ UNCHANGED open

PlaceOf(id) == CHOOSE i \in DOMAIN tabs : tabs[i].id = id

\* A mutant: the removal is not stored.
ForgetTab(id) ==
  /\ id \in TabIds(tabs) \ {BuilderId}
  /\ tabs' = RemoveAt(tabs, PlaceOf(id))
  /\ activeTab' = IF activeTab = id THEN Head(tabs).id ELSE activeTab
  /\ UNCHANGED <<stored, open>>

\* removeTabAtom and the panel's effect. The builder has no close button; no other
\* tab has the same id.
RemoveTab(id) ==
  /\ id \in TabIds(tabs) \ {BuilderId}
  /\ LET rest == RemoveAt(tabs, PlaceOf(id))
     IN  /\ tabs' = rest
         /\ stored' = Storable(rest)
         /\ activeTab' = IF activeTab = id THEN Head(rest).id ELSE activeTab
  /\ UNCHANGED open

\* A click on a tab, or on the arrows beside them.
ActivateTab(id) ==
  /\ open /\ id \in TabIds(tabs) \ {activeTab}
  /\ activeTab' = id
  /\ UNCHANGED <<tabs, stored, open>>

\* The sidebar's button.
TogglePanel == open' = ~open /\ UNCHANGED <<tabs, activeTab, stored>>

\* Only the active tab is rendered, and only in an open panel.
KeyOf(id) == tabs[PlaceOf(id)].key
ShownKey == IF open /\ activeTab \in TabIds(tabs) THEN KeyOf(activeTab) ELSE NoKey
BuilderShown == open /\ activeTab = BuilderId
=============================================================================
