--------------------------- MODULE ProxyPagesProofs ---------------------------
(***************************************************************************)
(* Proofs about the pages that administer the proxies (ProxyPages): the    *)
(* lists are those of the server once nothing is on its way, a running     *)
(* proxy loses its configuration only to a deletion under way when it was  *)
(* started, and whatever shows that something is under way has a call that *)
(* will end it.                                                            *)
(***************************************************************************)
EXTENDS ProxyPages, TLAPS

\* Calls; those of a configuration have one.
OfConfig == {"start", "stop", "detail", "delete"}
Kinds == OfConfig \cup {"create", "export", "load", "save"}
Whatever == Configs \cup Entries \cup {NoConfig}
Stages == {"sent", "checked", "unheard", "ok", "error"}
Calls == {x \in [kind : Kinds, config : Whatever, values : [Keys -> Values],
                 status : Statuses, at : Stages, live : BOOLEAN] :
            /\ x.kind \in OfConfig => x.config \in Configs
            /\ x.at = "unheard" => ~x.live}
Fetches(lists_) == [at : {"none", "asked"}] \cup [at : {"answered"}, list : lists_]
Pages == [at : {"closed", "loading", "error"}]
   \cup [at : {"ready"}, form : [Keys -> Values], shown : [Keys -> Values],
         saving : BOOLEAN, touched : SUBSET Keys]

TypeOK ==
  /\ status \in [Configs -> Statuses] /\ orphans \in SUBSET Configs /\ deleted \in SUBSET Configs
  /\ sysList \in SUBSET Entries /\ file \in SUBSET Entries
  /\ running \in [Keys -> Values] /\ saved \in [Keys -> Values]
  /\ allConfigs \in [Configs -> Statuses] /\ sysConfig \in SUBSET Entries
  /\ listFetch \in Fetches([Configs -> Statuses]) /\ sysFetch \in Fetches(SUBSET Entries)
  /\ view \in Views /\ card \in [Configs -> Statuses \cup {NoCard}]
  /\ calls \in SUBSET Calls
  /\ form \in Entries \cup {NoConfig} /\ isSubmitting \in BOOLEAN /\ isExporting \in BOOLEAN
  /\ isDeleting \in Configs \cup {NoConfig} /\ isToggling \in SUBSET Configs
  /\ settings \in Pages
  /\ steps \in Nat /\ failures \in Nat /\ elsewhere \in Nat
  /\ missed \in BOOLEAN /\ raced \in SUBSET Configs /\ chosen \in [Keys -> Values]

\* A change the server made for a call whose answer is not here yet.
Untold(sent) == \E x \in sent : x.at = "ok" /\ x.kind \in {"create", "export", "delete"}

\* What the page has, or what the answer on its way has, is what the server has,
\* unless the page missed a change or will be told of one.
ListsAreCurrent ==
  missed \/ Untold(calls) \/
    /\ listFetch = Idle => allConfigs = status
    /\ listFetch.at = "answered" => listFetch.list = status
    /\ sysFetch = Idle => sysConfig = sysList
    /\ sysFetch.at = "answered" => sysFetch.list = sysList

\* What shows that something is under way has a call the page waits for.
Awaited(sent, kinds, configs) ==
  \E x \in sent : x.kind \in kinds /\ x.config \in configs /\ x.live
BusyIsAwaited ==
  /\ isSubmitting => Awaited(calls, {"create"}, Whatever)
  /\ isExporting => Awaited(calls, {"export"}, Whatever)
  /\ isDeleting # NoConfig => Awaited(calls, {"delete"}, {isDeleting})
  /\ \A c \in isToggling : Awaited(calls, {"start", "stop"}, {c})
  /\ settings.at = "loading" => Awaited(calls, {"load"}, Whatever)
  /\ settings.at = "ready" /\ settings.saving => Awaited(calls, {"save"}, Whatever)

\* Cards are mounted on the tab of the running ones; the page waits for the calls
\* of those that are.
OfCard == {"start", "stop", "detail"}
CardsAreShown ==
  /\ \A c \in Configs : card[c] # NoCard => view = "active"
  /\ \A x \in calls : x.live /\ x.kind \in OfCard => card[x.config] # NoCard

\* A deletion that is past its check found its proxy not running: where one runs,
\* it was started since.
RacesAreKnown == Checked \cap Running \subseteq raced

IInv == TypeOK /\ ListsAreCurrent /\ BusyIsAwaited /\ CardsAreShown /\ RacesAreKnown

-----------------------------------------------------------------------------
(* Calls and fetches.                                                      *)

LEMMA CallType ==
  ASSUME NEW kind \in Kinds, NEW c \in Whatever, NEW values \in [Keys -> Values],
         kind \in OfConfig => c \in Configs
  PROVE  LET x == Call(kind, c, values)
         IN  x \in Calls /\ x.kind = kind /\ x.config = c /\ x.at = "sent" /\ x.live
  BY DEF Call, Calls, Statuses, Stages

LEMMA FetchType ==
  ASSUME NEW S
  PROVE  /\ Idle \in Fetches(S) /\ Asked \in Fetches(S)
         /\ \A l \in S : [at |-> "answered", list |-> l] \in Fetches(S)
         /\ \A f \in Fetches(S) : f.at = "answered" => f.list \in S
         /\ Asked # Idle /\ Asked.at = "asked"
  BY DEF Fetches, Idle, Asked

\* The answer of a call arrives.
LEMMA Heard ==
  ASSUME NEW sent \in SUBSET Calls, NEW x \in sent, NEW kinds, NEW configs,
         Awaited(sent, kinds, configs),
         ~x.live \/ x.kind \notin kinds \/ x.config \notin configs
  PROVE  Awaited(sent \ {x}, kinds, configs)
  BY DEF Awaited

LEMMA MoreAwaited ==
  ASSUME NEW sent, NEW more, sent \subseteq more, NEW kinds, NEW configs,
         Awaited(sent, kinds, configs)
  PROVE  Awaited(more, kinds, configs)
  BY DEF Awaited

-----------------------------------------------------------------------------
(* Types.                                                                  *)

\* The actions of the page and of the server, one for the other, change calls.
LEMMA UnmountedType ==
  ASSUME TypeOK, NEW mounted \in [Configs -> Statuses \cup {NoCard}]
  PROVE  /\ Unmounted(mounted) \in SUBSET Calls /\ StillMounted(mounted) \in SUBSET Configs
         /\ \A z \in Unmounted(mounted) :
              \E x \in calls : /\ z.kind = x.kind /\ z.config = x.config /\ z.at = x.at
                               /\ z.live => x.live
         /\ \A x \in calls :
              \/ x \in Unmounted(mounted)
              \/ /\ x.kind \in {"start", "stop", "detail"} /\ mounted[x.config] = NoCard
                 /\ [x EXCEPT !.live = FALSE] \in Unmounted(mounted)
  <1> DEFINE gone(x) == x.kind \in {"start", "stop", "detail"} /\ mounted[x.config] = NoCard
             z(x) == IF gone(x) THEN [x EXCEPT !.live = FALSE] ELSE x
  <1>1. Unmounted(mounted) = {z(x) : x \in calls}
    BY DEF Unmounted
  <1>2. calls \in SUBSET Calls /\ isToggling \in SUBSET Configs
    BY DEF TypeOK
  <1>3. \A x \in calls : /\ z(x) \in Calls /\ z(x).kind = x.kind /\ z(x).config = x.config
                         /\ z(x).at = x.at /\ (z(x).live => x.live)
    BY <1>2 DEF Calls
  <1>4. StillMounted(mounted) \in SUBSET Configs
    BY <1>2 DEF StillMounted
  <1>5. \A x \in calls : z(x) = x \/ (gone(x) /\ z(x) = [x EXCEPT !.live = FALSE])
    OBVIOUS
  <1>6. Unmounted(mounted) \in SUBSET Calls
    BY <1>1, <1>3
  <1>7. \A w \in Unmounted(mounted) :
          \E x \in calls : /\ w.kind = x.kind /\ w.config = x.config /\ w.at = x.at
                           /\ w.live => x.live
    BY <1>1, <1>3
  <1>8. \A x \in calls : \/ x \in Unmounted(mounted)
                         \/ gone(x) /\ [x EXCEPT !.live = FALSE] \in Unmounted(mounted)
    BY <1>1, <1>5
  <1>. QED  BY <1>4, <1>6, <1>7, <1>8

LEMMA CardsType ==
  ASSUME TypeOK, NEW list \in [Configs -> Statuses], NEW v \in Views
  PROVE  /\ Cards(list, v) \in [Configs -> Statuses \cup {NoCard}]
         /\ \A c \in Configs : Cards(list, v)[c] # NoCard => v = "active"
  BY DEF Cards, TypeOK, Statuses, NoCard

LEMMA AnswerTypes ==
  ASSUME TypeOK, AnswerList \/ AnswerSysConfig \/ ReceiveList \/ ReceiveSysConfig
  PROVE  TypeOK'
  <1>1. CASE AnswerList
    <2>1. listFetch' \in Fetches([Configs -> Statuses])
      BY <1>1, FetchType DEF AnswerList, TypeOK
    <2>. QED  BY <1>1, <2>1 DEF AnswerList, TypeOK, server, proxyUi, bounds
  <1>2. CASE AnswerSysConfig
    <2>1. sysFetch' \in Fetches(SUBSET Entries)
      BY <1>2, FetchType DEF AnswerSysConfig, TypeOK
    <2>. QED  BY <1>2, <2>1 DEF AnswerSysConfig, TypeOK, server, proxyUi, bounds
  <1>3. CASE ReceiveList
    <2>1. /\ allConfigs' = listFetch.list /\ listFetch' = Idle /\ card' = Cards(allConfigs', view)
          /\ calls' = Unmounted(card') /\ isToggling' = StillMounted(card')
          /\ UNCHANGED <<server, sysConfig, sysFetch, view, form, isSubmitting, isExporting,
                         isDeleting, settings, bounds, missed, raced, chosen>>
      BY <1>3 DEF ReceiveList
    <2>2. allConfigs' \in [Configs -> Statuses] /\ listFetch' \in Fetches([Configs -> Statuses])
      BY <1>3, <2>1, FetchType DEF ReceiveList, TypeOK
    <2>3. card' \in [Configs -> Statuses \cup {NoCard}]
      BY <2>1, <2>2, CardsType DEF TypeOK
    <2>4. calls' \in SUBSET Calls /\ isToggling' \in SUBSET Configs
      BY <2>1, <2>3, UnmountedType
    <2>. QED  BY <2>1, <2>2, <2>3, <2>4 DEF TypeOK, server, bounds
  <1>4. CASE ReceiveSysConfig
    <2>1. sysConfig' \in SUBSET Entries /\ sysFetch' \in Fetches(SUBSET Entries)
      BY <1>4, FetchType DEF ReceiveSysConfig, TypeOK
    <2>. QED  BY <1>4, <2>1 DEF ReceiveSysConfig, TypeOK, server, proxyUi, bounds
  <1>. QED  BY <1>1, <1>2, <1>3, <1>4

LEMMA ShowType ==
  ASSUME TypeOK, NEW v \in Views, Show(v)
  PROVE  TypeOK'
  <1>1. /\ view' = v /\ card' = Cards(allConfigs, v)
        /\ calls' = {[x EXCEPT !.live = @ /\ x.kind = "export" /\ v # "settings"] :
                       x \in {y \in Unmounted(card') : y.kind # "load"}}
                    \cup IF v = "settings" THEN {Call("load", NoConfig, saved)} ELSE {}
        /\ isToggling' = StillMounted(card') /\ isDeleting' = NoConfig
        /\ isExporting' = (isExporting /\ v # "settings")
        /\ form' = NoConfig /\ isSubmitting' = FALSE
        /\ settings' = IF v = "settings" THEN [at |-> "loading"] ELSE Closed
        /\ UNCHANGED <<server, lists, missed, raced, chosen>>
    BY DEF Show
  <1>2. steps' \in Nat /\ failures' \in Nat /\ elsewhere' \in Nat
    <2>1. steps \in Nat /\ failures \in Nat /\ elsewhere \in Nat
      BY DEF TypeOK
    <2>. QED  BY <2>1 DEF Show, Step
  <1>3. card' \in [Configs -> Statuses \cup {NoCard}]
    BY <1>1, CardsType DEF TypeOK
  <1>4. isToggling' \in SUBSET Configs /\ Unmounted(card') \in SUBSET Calls
    BY <1>1, <1>3, UnmountedType
  <1>5. calls' \in SUBSET Calls
    <2>1. ASSUME NEW x \in Calls
          PROVE  [x EXCEPT !.live = @ /\ x.kind = "export" /\ v # "settings"] \in Calls
      BY DEF Calls
    <2>2. Call("load", NoConfig, saved) \in Calls
      BY CallType DEF TypeOK, Kinds, OfConfig, Whatever
    <2>. QED  BY <1>1, <1>4, <2>1, <2>2
  <1>6. settings' \in Pages /\ isExporting' \in BOOLEAN /\ isSubmitting' \in BOOLEAN
    BY <1>1 DEF Pages, Closed
  <1>. QED  BY <1>1, <1>2, <1>3, <1>4, <1>5, <1>6 DEF TypeOK, server, lists

LEMMA StepType ==
  ASSUME TypeOK, Step
  PROVE  steps' \in Nat /\ failures' \in Nat /\ elsewhere' \in Nat
  <1>1. steps \in Nat /\ failures \in Nat /\ elsewhere \in Nat
    BY DEF TypeOK
  <1>. QED  BY <1>1 DEF Step

\* The user asks for something: a call is sent.
LEMMA SendType ==
  ASSUME TypeOK, NEW kind \in Kinds, NEW c \in Whatever,
         NEW values \in [Keys -> Values], kind \in OfConfig => c \in Configs,
         Send(kind, c, values)
  PROVE  calls' \in SUBSET Calls
  <1>1. Call(kind, c, values) \in Calls
    BY CallType
  <1>. QED  BY <1>1 DEF Send, TypeOK

LEMMA UserTypes ==
  ASSUME TypeOK,
         \/ \E e \in Entries : FillForm(e)
         \/ \E c \in Configs : ToggleProxy(c) \/ DeleteConfig(c)
         \/ CreateProxy \/ ExportProxies
  PROVE  TypeOK'
  <1> USE DEF Kinds, OfConfig, Whatever
  <1>1. ASSUME NEW e \in Entries, FillForm(e)
        PROVE  TypeOK'
    <2>1. Step
      BY <1>1 DEF FillForm
    <2>. QED  BY <1>1, <2>1, StepType DEF FillForm, TypeOK, server, lists
  <1>2. ASSUME NEW c \in Configs, ToggleProxy(c)
        PROVE  TypeOK'
    <2>1. Step /\ calls' \in SUBSET Calls
      BY <1>2, SendType DEF ToggleProxy, TypeOK
    <2>2. isToggling' \in SUBSET Configs
      BY <1>2 DEF ToggleProxy, TypeOK
    <2>. QED  BY <1>2, <2>1, <2>2, StepType DEF ToggleProxy, TypeOK, server, lists
  <1>3. ASSUME NEW c \in Configs, DeleteConfig(c)
        PROVE  TypeOK'
    <2>1. Step /\ calls' \in SUBSET Calls
      BY <1>3, SendType DEF DeleteConfig, TypeOK
    <2>. QED  BY <1>3, <2>1, StepType DEF DeleteConfig, TypeOK, server, lists
  <1>4. CASE CreateProxy
    <2>1. Step /\ calls' \in SUBSET Calls
      BY <1>4, SendType DEF CreateProxy, TypeOK
    <2>. QED  BY <1>4, <2>1, StepType DEF CreateProxy, TypeOK, server, lists
  <1>5. CASE ExportProxies
    <2>1. Step /\ calls' \in SUBSET Calls
      BY <1>5, SendType DEF ExportProxies, TypeOK
    <2>. QED  BY <1>5, <2>1, StepType DEF ExportProxies, TypeOK, server, lists
  <1>. QED  BY <1>1, <1>2, <1>3, <1>4, <1>5

\* A page of settings that is ready.
LEMMA Ready ==
  ASSUME TypeOK, settings.at = "ready"
  PROVE  /\ settings \in [at : {"ready"}, form : [Keys -> Values], shown : [Keys -> Values],
                          saving : BOOLEAN, touched : SUBSET Keys]
         /\ settings.form \in [Keys -> Values] /\ settings.touched \in SUBSET Keys
  <1>1. settings \in Pages
    BY DEF TypeOK
  <1>2. settings \in [at : {"ready"}, form : [Keys -> Values], shown : [Keys -> Values],
                      saving : BOOLEAN, touched : SUBSET Keys]
    BY <1>1 DEF Pages
  <1>. QED  BY <1>2

LEMMA SettingsTypes ==
  ASSUME TypeOK,
         (\E k \in Keys, v \in Values : EditSetting(k, v)) \/ SaveSettings
  PROVE  TypeOK'
  <1>1. ASSUME NEW k \in Keys, NEW v \in Values, EditSetting(k, v)
        PROVE  TypeOK'
    <2>1. Step /\ settings.at = "ready"
      BY <1>1 DEF EditSetting
    <2>2. settings' \in Pages
      BY <1>1, <2>1, Ready DEF EditSetting, Pages
    <2>. QED  BY <1>1, <2>1, <2>2, StepType DEF EditSetting, TypeOK, server, lists, proxyUi
  <1>2. CASE SaveSettings
    <2>1. Step /\ settings.at = "ready"
      BY <1>2 DEF SaveSettings
    <2>2. settings' \in Pages
      BY <1>2, <2>1, Ready DEF SaveSettings, Pages
    <2>3. calls' \in SUBSET Calls
      BY <1>2, <2>1, Ready, SendType DEF SaveSettings, Kinds, OfConfig, Whatever
    <2>4. chosen' \in [Keys -> Values]
      BY <1>2, <2>1, Ready DEF SaveSettings, TypeOK
    <2>. QED  BY <1>2, <2>1, <2>2, <2>3, <2>4, StepType DEF SaveSettings, TypeOK, server, lists, proxyUi
  <1>. QED  BY <1>1, <1>2

\* The server's answer.
LEMMA AnsweredType ==
  ASSUME TypeOK, NEW x \in calls
  PROVE  /\ \A a \in Stages \ {"unheard"} : [x EXCEPT !.at = a] \in Calls
         /\ Ok(x) \/ Refuse(x) \/ Check(x) => calls' \in SUBSET Calls
         /\ x \in Calls
  <1>1. calls \in SUBSET Calls /\ x \in Calls
    BY DEF TypeOK
  <1>2. \A a \in Stages \ {"unheard"} : [x EXCEPT !.at = a] \in Calls
    BY <1>1 DEF Calls, Stages
  <1>. QED  BY <1>1, <1>2 DEF Ok, Refuse, Check, Stages

LEMMA StartedType ==
  ASSUME TypeOK, NEW e, NEW c \in RowsFor(e), Started(c)
  PROVE  c \in Configs /\ status' \in [Configs -> Statuses] /\ raced' \in SUBSET Configs
  <1>1. c \in Configs
    BY DEF RowsFor, Rows
  <1>. QED  BY <1>1 DEF Started, TypeOK, Statuses

\* What runs, and what it is configured with.
LEMMA RunningType ==
  ASSUME TypeOK
  PROVE  Running \in SUBSET Configs /\ Entry(Running) \in SUBSET Entries
  BY ProxyPagesAssumption DEF Running, Entry, TypeOK

LEMMA HandleTypes ==
  ASSUME TypeOK, NEW x \in calls, Handle(x) \/ Fail(x)
  PROVE  TypeOK'
  <1>1. CASE HandleCreate(x)
    <2>1. calls' \in SUBSET Calls
      BY <1>1, AnsweredType DEF HandleCreate
    <2>2. status' \in [Configs -> Statuses] /\ raced' \in SUBSET Configs
      <3>1. CASE \E c \in RowsFor(x.config) : Started(c)
        BY <3>1, StartedType
      <3>2. CASE UNCHANGED <<status, raced>>
        BY <3>2 DEF TypeOK
      <3>. QED  BY <1>1, <3>1, <3>2 DEF HandleCreate
    <2>. QED  BY <1>1, <2>1, <2>2 DEF HandleCreate, TypeOK, lists, proxyUi, bounds
  <1>2. CASE HandleToggle(x)
    <2>1. calls' \in SUBSET Calls
      BY <1>2, AnsweredType DEF HandleToggle
    <2>. QED  BY <1>2, <2>1 DEF HandleToggle, TypeOK, server, lists, proxyUi, bounds
  <1>3. CASE HandleDetail(x)
    <2>1. calls' \in SUBSET Calls
      <3>1. CASE status[x.config] = "absent"
        BY <1>3, <3>1, AnsweredType DEF HandleDetail
      <3>2. CASE status[x.config] # "absent"
        <4>1. x \in Calls /\ calls \in SUBSET Calls /\ status \in [Configs -> Statuses]
          BY DEF TypeOK
        <4>2. status[x.config] \in Statuses
          BY <1>3, <4>1 DEF HandleDetail, Calls, OfConfig
        <4>3. [x EXCEPT !.at = "ok", !.status = status[x.config]] \in Calls
          BY <4>1, <4>2 DEF Calls, Stages
        <4>. QED  BY <1>3, <3>2, <4>1, <4>3 DEF HandleDetail
      <3>. QED  BY <3>1, <3>2
    <2>. QED  BY <1>3, <2>1 DEF HandleDetail, TypeOK, server, lists, proxyUi, bounds
  <1>4. CASE HandleExport(x)
    <2>1. calls' \in SUBSET Calls
      BY <1>4, AnsweredType DEF HandleExport
    <2>2. sysList' \in SUBSET Entries /\ file' \in SUBSET Entries /\ missed' \in BOOLEAN
      BY <1>4, RunningType DEF HandleExport, TypeOK
    <2>. QED  BY <1>4, <2>1, <2>2 DEF HandleExport, TypeOK, lists, proxyUi, bounds
  <1>5. CASE HandleDelete(x)
    <2>1. calls' \in SUBSET Calls
      BY <1>5, AnsweredType DEF HandleDelete
    <2>. QED  BY <1>5, <2>1 DEF HandleDelete, TypeOK, server, lists, proxyUi, bounds
  <1>6. CASE HandleSettings(x)
    <2>1. x \in Calls /\ calls \in SUBSET Calls /\ x.values \in [Keys -> Values]
          /\ running \in [Keys -> Values] /\ saved \in [Keys -> Values]
      BY DEF TypeOK, Calls
    <2>2. calls' \in SUBSET Calls
      <3>1. [x EXCEPT !.at = "ok", !.values = running] \in Calls
        BY <2>1 DEF Calls, Stages
      <3>. QED  BY <1>6, <2>1, <3>1, AnsweredType DEF HandleSettings
    <2>3. saved' \in [Keys -> Values] /\ chosen' \in [Keys -> Values]
      BY <1>6, <2>1 DEF HandleSettings, TypeOK
    <2>. QED  BY <1>6, <2>2, <2>3 DEF HandleSettings, TypeOK, lists, proxyUi, bounds
  <1>7. CASE Fail(x)
    <2>1. calls' \in SUBSET Calls
      <3>1. calls \in SUBSET Calls /\ [x EXCEPT !.at = "error"] \in Calls
            /\ [x EXCEPT !.at = "unheard", !.live = FALSE] \in Calls
        <4>1. x \in Calls /\ calls \in SUBSET Calls
          BY DEF TypeOK
        <4>. QED  BY <4>1 DEF Calls, Stages
      <3>. QED  BY <1>7, <3>1 DEF Fail
    <2>2. failures' \in Nat
      <3>1. failures \in Nat
        BY DEF TypeOK
      <3>. QED  BY <1>7, <3>1 DEF Fail
    <2>3. missed' \in BOOLEAN
      BY <1>7 DEF Fail
    <2>. QED  BY <1>7, <2>1, <2>2, <2>3 DEF Fail, TypeOK, server, lists, proxyUi
  <1>8. CASE DeleteRows(x)
    <2>1. x \in Calls /\ calls \in SUBSET Calls
      BY DEF TypeOK
    <2>2. calls' \in SUBSET Calls
      BY <1>8, <2>1, AnsweredType DEF DeleteRows
    <2>3. /\ status' \in [Configs -> Statuses] /\ orphans' \in SUBSET Configs
          /\ raced' \in SUBSET Configs /\ missed' \in BOOLEAN
      BY <1>8, RunningType DEF DeleteRows, TypeOK, Statuses
    <2>4. deleted' \in SUBSET Configs
      <3>1. x.config \in Configs
        BY <1>8, <2>1 DEF DeleteRows, Calls, OfConfig
      <3>. QED  BY <1>8, <3>1 DEF DeleteRows, TypeOK
    <2>. QED  BY <1>8, <2>2, <2>3, <2>4 DEF DeleteRows, TypeOK, lists, proxyUi, bounds
  <1>. QED  BY <1>1, <1>2, <1>3, <1>4, <1>5, <1>6, <1>7, <1>8 DEF Handle

LEMMA RefreshType ==
  ASSUME TypeOK, Refresh \/ UNCHANGED <<listFetch, sysFetch, missed>>
  PROVE  /\ listFetch' \in Fetches([Configs -> Statuses]) /\ sysFetch' \in Fetches(SUBSET Entries)
         /\ missed' \in BOOLEAN
  <1>1. /\ listFetch \in Fetches([Configs -> Statuses]) /\ sysFetch \in Fetches(SUBSET Entries)
        /\ missed \in BOOLEAN
    BY DEF TypeOK
  <1>2. Asked \in Fetches([Configs -> Statuses]) /\ Asked \in Fetches(SUBSET Entries)
    BY FetchType
  <1>. QED  BY <1>1, <1>2 DEF Refresh

LEMMA ReceiveTypes ==
  ASSUME TypeOK, NEW x \in calls, Receive(x)
  PROVE  TypeOK'
  <1>0. x \in Calls /\ calls \in SUBSET Calls /\ calls \ {x} \in SUBSET Calls
    BY DEF TypeOK
  <1>1. CASE ReceiveCreate(x)
    <2>1. Refresh \/ UNCHANGED <<listFetch, sysFetch, missed>>
      BY <1>1 DEF ReceiveCreate
    <2>2. isSubmitting' \in BOOLEAN /\ form' \in Entries \cup {NoConfig}
      BY <1>1 DEF ReceiveCreate, TypeOK
    <2>. QED  BY <1>0, <1>1, <2>1, <2>2, RefreshType DEF ReceiveCreate, TypeOK, server, bounds
  <1>2. CASE ReceiveToggle(x)
    <2>1. isToggling' \in SUBSET Configs
      BY <1>2 DEF ReceiveToggle, TypeOK
    <2>2. calls' \in SUBSET Calls
      <3>1. x.config \in Configs /\ "detail" \in Kinds /\ saved \in [Keys -> Values]
        BY <1>0, <1>2 DEF Calls, TypeOK, Kinds, OfConfig, ReceiveToggle
      <3>2. Call("detail", x.config, saved) \in Calls
        BY <3>1, CallType DEF Whatever
      <3>. QED  BY <1>0, <1>2, <3>2 DEF ReceiveToggle
    <2>. QED  BY <1>2, <2>1, <2>2 DEF ReceiveToggle, TypeOK, server, lists, bounds
  <1>3. CASE ReceiveDetail(x)
    <2>1. card' \in [Configs -> Statuses \cup {NoCard}]
      <3>1. x.status \in Statuses
        BY <1>0 DEF Calls
      <3>. QED  BY <1>3, <3>1 DEF ReceiveDetail, TypeOK
    <2>. QED  BY <1>0, <1>3, <2>1 DEF ReceiveDetail, TypeOK, server, lists, bounds
  <1>4. CASE ReceiveExport(x)
    <2>1. Refresh \/ UNCHANGED <<listFetch, sysFetch, missed>>
      BY <1>4 DEF ReceiveExport
    <2>2. isExporting' \in BOOLEAN
      BY <1>4 DEF ReceiveExport
    <2>. QED  BY <1>0, <1>4, <2>1, <2>2, RefreshType DEF ReceiveExport, TypeOK, server, bounds
  <1>5. CASE ReceiveDelete(x)
    <2>1. Refresh \/ UNCHANGED <<listFetch, sysFetch, missed>>
      BY <1>5 DEF ReceiveDelete
    <2>2. isDeleting' \in Configs \cup {NoConfig}
      BY <1>5 DEF ReceiveDelete, TypeOK
    <2>. QED  BY <1>0, <1>5, <2>1, <2>2, RefreshType DEF ReceiveDelete, TypeOK, server, bounds
  <1>6. CASE ReceiveSettings(x)
    <2>1. x.values \in [Keys -> Values]
      BY <1>0 DEF Calls
    <2>2. settings' \in Pages
      <3>1. Loaded(x.values) \in Pages /\ [at |-> "error"] \in Pages
        BY <2>1 DEF Loaded, Pages
      <3>2. [settings EXCEPT !.saving = FALSE] \in Pages
        <4>1. settings \in Pages
          BY DEF TypeOK
        <4>. QED  BY <4>1 DEF Pages
      <3>3. settings \in Pages
        BY DEF TypeOK
      <3>. QED  BY <1>6, <3>1, <3>2, <3>3 DEF ReceiveSettings
    <2>. QED  BY <1>0, <1>6, <2>2 DEF ReceiveSettings, TypeOK, server, lists, proxyUi, bounds
  <1>. QED  BY <1>1, <1>2, <1>3, <1>4, <1>5, <1>6 DEF Receive

LEMMA ElsewhereTypes ==
  ASSUME TypeOK, (\E e \in Entries : MergeElsewhere(e)) \/ Restart
  PROVE  TypeOK'
  <1>1. elsewhere \in Nat /\ calls \in SUBSET Calls
    BY DEF TypeOK
  <1>2. ASSUME NEW e \in Entries, MergeElsewhere(e)
        PROVE  TypeOK'
    <2>1. elsewhere' \in Nat
      BY <1>1, <1>2 DEF MergeElsewhere
    <2>2. status' \in [Configs -> Statuses] /\ raced' \in SUBSET Configs
      BY <1>2, StartedType DEF MergeElsewhere
    <2>. QED  BY <1>2, <2>1, <2>2 DEF MergeElsewhere, TypeOK, lists, proxyUi
  <1>3. CASE Restart
    <2>1. elsewhere' \in Nat
      BY <1>1, <1>3 DEF Restart
    <2>2. status' \in [Configs -> Statuses]
      BY <1>3 DEF Restart, Statuses
    <2>3. calls' \in SUBSET Calls
      <3>1. \A x \in calls : [x EXCEPT !.at = "error"] \in Calls
        BY AnsweredType DEF Stages
      <3>. QED  BY <1>1, <1>3, <3>1 DEF Restart
    <2>. QED  BY <1>3, <2>1, <2>2, <2>3 DEF Restart, TypeOK, lists, proxyUi
  <1>. QED  BY <1>2, <1>3

\* Whatever happens, every variable keeps its type.
LEMMA TypesKept ==
  ASSUME TypeOK, [Next]_vars
  PROVE  TypeOK'
  <1>1. CASE UNCHANGED vars
    BY <1>1 DEF vars, TypeOK, server, lists, proxyUi, bounds
  <1>. QED  BY <1>1, AnswerTypes, ShowType, UserTypes, SettingsTypes, HandleTypes,
               ReceiveTypes, ElsewhereTypes DEF Next

-----------------------------------------------------------------------------
(* The lists.                                                              *)

\* What was untold of stays so while calls are only sent, or no longer waited for.
LEMMA StillUntold ==
  ASSUME NEW sent, NEW after, Untold(sent),
         \A x \in sent : \E y \in after : y.at = x.at /\ y.kind = x.kind
  PROVE  Untold(after)
  BY DEF Untold

\* A call the server answers: what it changes, the page is to be told of.
LEMMA ToldLater ==
  ASSUME TypeOK, NEW x \in calls, x.at # "ok"
  PROVE  /\ Ok(x) \/ Refuse(x) \/ Check(x) => (Untold(calls) => Untold(calls'))
         /\ Ok(x) /\ x.kind \in {"create", "export", "delete"} => Untold(calls')
  <1>1. x \in Calls /\ calls \in SUBSET Calls
    BY DEF TypeOK
  <1>2. [x EXCEPT !.at = "ok"].at = "ok" /\ [x EXCEPT !.at = "ok"].kind = x.kind
    BY <1>1 DEF Calls
  <1>3. Ok(x) \/ Refuse(x) \/ Check(x) => (Untold(calls) => Untold(calls'))
    BY DEF Ok, Refuse, Check, Untold
  <1>4. Ok(x) => [x EXCEPT !.at = "ok"] \in calls'
    BY DEF Ok
  <1>. QED  BY <1>2, <1>3, <1>4 DEF Untold

LEMMA ListsAnswered ==
  ASSUME ListsAreCurrent, AnswerList \/ AnswerSysConfig \/ ReceiveList \/ ReceiveSysConfig, TypeOK
  PROVE  ListsAreCurrent'
  <1>1. CASE AnswerList
    BY <1>1 DEF AnswerList, ListsAreCurrent, server, Asked, Idle
  <1>2. CASE AnswerSysConfig
    BY <1>2 DEF AnswerSysConfig, ListsAreCurrent, server, Asked, Idle
  <1>3. CASE ReceiveList
    <2>1. /\ allConfigs' = listFetch.list /\ listFetch' = Idle /\ listFetch.at = "answered"
          /\ calls' = Unmounted(card') /\ card' = Cards(allConfigs', view)
          /\ UNCHANGED <<server, sysConfig, sysFetch, missed>>
      BY <1>3 DEF ReceiveList
    <2>2. card' \in [Configs -> Statuses \cup {NoCard}]
      <3>1. allConfigs' \in [Configs -> Statuses] /\ view \in Views
        BY <2>1, FetchType DEF TypeOK
      <3>. QED  BY <2>1, <3>1, CardsType
    <2>3. Untold(calls) => Untold(calls')
      <3>1. \A x \in calls : \E y \in calls' : y.at = x.at /\ y.kind = x.kind
        <4> SUFFICES ASSUME NEW x \in calls
                     PROVE  \E y \in calls' : y.at = x.at /\ y.kind = x.kind
          OBVIOUS
        <4>1. x \in calls' \/ [x EXCEPT !.live = FALSE] \in calls'
          BY <2>1, <2>2, UnmountedType
        <4>2. [x EXCEPT !.live = FALSE].at = x.at /\ [x EXCEPT !.live = FALSE].kind = x.kind
          BY DEF TypeOK, Calls
        <4>. QED  BY <4>1, <4>2
      <3>. QED  BY <3>1, StillUntold
    <2>. QED  BY <2>1, <2>3 DEF ListsAreCurrent, server, Idle
  <1>4. CASE ReceiveSysConfig
    BY <1>4 DEF ReceiveSysConfig, ListsAreCurrent, server, Idle
  <1>. QED  BY <1>1, <1>2, <1>3, <1>4

\* What the user does changes nothing on the server.
LEMMA ListsUser ==
  ASSUME ListsAreCurrent, TypeOK,
         \/ \E e \in Entries : FillForm(e)
         \/ \E c \in Configs : ToggleProxy(c) \/ DeleteConfig(c)
         \/ CreateProxy \/ ExportProxies \/ SaveSettings
         \/ \E k \in Keys, v \in Values : EditSetting(k, v)
  PROVE  ListsAreCurrent'
  <1>1. calls \subseteq calls' /\ UNCHANGED <<server, lists, missed>>
    BY DEF FillForm, ToggleProxy, DeleteConfig, CreateProxy, ExportProxies, SaveSettings,
           EditSetting, Send
  <1>2. Untold(calls) => Untold(calls')
    BY <1>1, StillUntold
  <1>. QED  BY <1>1, <1>2 DEF ListsAreCurrent, server, lists

LEMMA ListsShow ==
  ASSUME ListsAreCurrent, TypeOK, NEW v \in Views, Show(v)
  PROVE  ListsAreCurrent'
  <1>1. /\ card' = Cards(allConfigs, v) /\ UNCHANGED <<server, lists, missed>>
        /\ {[x EXCEPT !.live = @ /\ x.kind = "export" /\ v # "settings"] :
              x \in {y \in Unmounted(card') : y.kind # "load"}} \subseteq calls'
    BY DEF Show
  <1>2. card' \in [Configs -> Statuses \cup {NoCard}]
    BY <1>1, CardsType DEF TypeOK
  <1>3. ASSUME NEW x \in calls, x.kind # "load"
        PROVE  \E y \in calls' : y.at = x.at /\ y.kind = x.kind
    <2>1. PICK z \in Unmounted(card') : z.at = x.at /\ z.kind = x.kind /\ z \in Calls
      <3>1. x \in Unmounted(card') \/ [x EXCEPT !.live = FALSE] \in Unmounted(card')
        BY <1>2, UnmountedType
      <3>2. [x EXCEPT !.live = FALSE].at = x.at /\ [x EXCEPT !.live = FALSE].kind = x.kind
        BY DEF TypeOK, Calls
      <3>3. Unmounted(card') \in SUBSET Calls
        BY <1>2, UnmountedType
      <3>. QED  BY <3>1, <3>2, <3>3
    <2>2. [z EXCEPT !.live = @ /\ z.kind = "export" /\ v # "settings"] \in calls'
      BY <1>1, <1>3, <2>1
    <2>3. /\ [z EXCEPT !.live = @ /\ z.kind = "export" /\ v # "settings"].at = z.at
          /\ [z EXCEPT !.live = @ /\ z.kind = "export" /\ v # "settings"].kind = z.kind
      BY <2>1 DEF Calls
    <2>. QED  BY <2>1, <2>2, <2>3
  <1>4. Untold(calls) => Untold(calls')
    BY <1>3 DEF Untold
  <1>. QED  BY <1>1, <1>4 DEF ListsAreCurrent, server, lists

LEMMA ListsHandle ==
  ASSUME ListsAreCurrent, TypeOK, NEW x \in calls, Handle(x) \/ Fail(x)
  PROVE  ListsAreCurrent'
  <1>1. CASE HandleCreate(x)
    <2>1. x.kind = "create" /\ x.at = "sent" /\ UNCHANGED <<sysList, lists, missed>>
      BY <1>1 DEF HandleCreate
    <2>2. Untold(calls') \/ (UNCHANGED status /\ (Untold(calls) => Untold(calls')))
      BY <1>1, <2>1, ToldLater DEF HandleCreate
    <2>. QED  BY <2>1, <2>2 DEF ListsAreCurrent, lists
  <1>2. CASE HandleToggle(x)
    <2>1. x.at = "sent" /\ UNCHANGED <<server, lists, missed>> /\ (Ok(x) \/ Refuse(x))
      BY <1>2 DEF HandleToggle
    <2>. QED  BY <2>1, ToldLater DEF ListsAreCurrent, lists, server
  <1>3. CASE HandleDetail(x)
    <2>1. x.at = "sent" /\ UNCHANGED <<server, lists, missed>>
      BY <1>3 DEF HandleDetail
    <2>2. Untold(calls) => Untold(calls')
      BY <1>3, <2>1, ToldLater DEF HandleDetail, Untold
    <2>. QED  BY <2>1, <2>2 DEF ListsAreCurrent, lists, server
  <1>4. CASE HandleExport(x)
    <2>1. x.kind = "export" /\ x.at = "sent"
      BY <1>4 DEF HandleExport
    <2>2. Untold(calls') \/ missed'
      BY <1>4, <2>1, ToldLater DEF HandleExport
    <2>. QED  BY <2>2 DEF ListsAreCurrent
  <1>5. CASE HandleDelete(x)
    <2>1. x.at = "sent" /\ UNCHANGED <<server, lists, missed>> /\ (Refuse(x) \/ Check(x))
      BY <1>5 DEF HandleDelete
    <2>. QED  BY <2>1, ToldLater DEF ListsAreCurrent, lists, server
  <1>6. CASE HandleSettings(x)
    <2>1. x.at = "sent" /\ UNCHANGED <<status, sysList, lists, missed>>
      BY <1>6 DEF HandleSettings
    <2>2. Untold(calls) => Untold(calls')
      BY <1>6, <2>1, ToldLater DEF HandleSettings, Untold
    <2>. QED  BY <2>1, <2>2 DEF ListsAreCurrent, lists
  <1>7. CASE Fail(x)
    <2>1. /\ calls \ {x} \subseteq calls' /\ UNCHANGED <<server, lists>>
          /\ missed' = (missed \/ (x.at = "ok" /\ x.kind \in {"create", "delete", "export"}))
      BY <1>7 DEF Fail
    <2>2. Untold(calls) => Untold(calls') \/ missed'
      BY <2>1 DEF Untold
    <2>. QED  BY <2>1, <2>2 DEF ListsAreCurrent, lists, server
  <1>8. CASE DeleteRows(x)
    <2>1. /\ x.kind = "delete" /\ x.at \in {"checked", "unheard"}
          /\ UNCHANGED <<sysList, lists>>
      BY <1>8 DEF DeleteRows
    <2>2. CASE x.at = "checked"
      <3>1. UNCHANGED missed
        BY <1>8, <2>2 DEF DeleteRows
      <3>2. Untold(calls') \/ (UNCHANGED status /\ (Untold(calls) => Untold(calls')))
        BY <1>8, <2>1, <2>2, ToldLater DEF DeleteRows
      <3>. QED  BY <2>1, <3>1, <3>2 DEF ListsAreCurrent, lists
    <2>3. CASE x.at = "unheard"
      <3>1. missed' \/ UNCHANGED <<status, missed>>
        BY <1>8, <2>3 DEF DeleteRows
      <3>2. Untold(calls) => Untold(calls')
        BY <1>8, <2>3 DEF DeleteRows, Untold
      <3>. QED  BY <2>1, <3>1, <3>2 DEF ListsAreCurrent, lists
    <2>. QED  BY <2>1, <2>2, <2>3
  <1>. QED  BY <1>1, <1>2, <1>3, <1>4, <1>5, <1>6, <1>7, <1>8 DEF Handle

LEMMA ListsReceive ==
  ASSUME ListsAreCurrent, TypeOK, NEW x \in calls, Receive(x)
  PROVE  ListsAreCurrent'
  <1>1. CASE ReceiveCreate(x) \/ ReceiveExport(x) \/ ReceiveDelete(x)
    <2>1. /\ calls' = calls \ {x} /\ UNCHANGED <<server, allConfigs, sysConfig>>
          /\ IF x.at = "ok" THEN Refresh ELSE UNCHANGED <<listFetch, sysFetch, missed>>
      BY <1>1 DEF ReceiveCreate, ReceiveExport, ReceiveDelete
    <2>2. CASE x.at = "ok"
      <3>1. listFetch' = Asked /\ sysFetch' = Asked
        BY <2>1, <2>2 DEF Refresh
      <3>. QED  BY <3>1 DEF ListsAreCurrent, Asked, Idle
    <2>3. CASE x.at # "ok"
      <3>1. Untold(calls) => Untold(calls')
        BY <2>1, <2>3 DEF Untold
      <3>. QED  BY <2>1, <2>3, <3>1 DEF ListsAreCurrent, server
    <2>. QED  BY <2>2, <2>3
  <1>2. CASE ReceiveToggle(x) \/ ReceiveDetail(x) \/ ReceiveSettings(x)
    <2>1. /\ calls \ {x} \subseteq calls' /\ UNCHANGED <<server, lists, missed>>
          /\ x.kind \notin {"create", "export", "delete"}
      BY <1>2 DEF ReceiveToggle, ReceiveDetail, ReceiveSettings
    <2>2. Untold(calls) => Untold(calls')
      BY <2>1 DEF Untold
    <2>. QED  BY <2>1, <2>2 DEF ListsAreCurrent, server, lists
  <1>. QED  BY <1>1, <1>2 DEF Receive

LEMMA ListsKept ==
  ASSUME ListsAreCurrent, TypeOK, [Next]_vars
  PROVE  ListsAreCurrent'
  <1>1. CASE UNCHANGED vars
    BY <1>1 DEF vars, server, lists, ListsAreCurrent
  <1>2. CASE (\E e \in Entries : MergeElsewhere(e)) \/ Restart
    BY <1>2 DEF MergeElsewhere, Restart, ListsAreCurrent
  <1>. QED  BY <1>1, <1>2, ListsAnswered, ListsUser, ListsShow, ListsHandle, ListsReceive DEF Next

-----------------------------------------------------------------------------
(* What shows that something is under way.                                 *)

\* A card that goes takes its switch with it; other calls are still waited for.
LEMMA StillAwaited ==
  ASSUME TypeOK, NEW mounted \in [Configs -> Statuses \cup {NoCard}], NEW kinds, NEW configs,
         Awaited(calls, kinds, configs),
         \/ kinds \cap {"start", "stop", "detail"} = {}
         \/ \A c \in configs : mounted[c] # NoCard
  PROVE  Awaited(Unmounted(mounted), kinds, configs)
  <1>1. PICK x \in calls : x.kind \in kinds /\ x.config \in configs /\ x.live
    BY DEF Awaited
  <1>2. x \in Unmounted(mounted)
    BY <1>1, UnmountedType
  <1>. QED  BY <1>1, <1>2 DEF Awaited

LEMMA BusyAnswered ==
  ASSUME IInv, AnswerList \/ AnswerSysConfig \/ ReceiveList \/ ReceiveSysConfig
  PROVE  BusyIsAwaited' /\ CardsAreShown'
  <1>1. CASE AnswerList \/ AnswerSysConfig \/ ReceiveSysConfig
    BY <1>1 DEF AnswerList, AnswerSysConfig, ReceiveSysConfig, IInv, BusyIsAwaited,
                CardsAreShown, proxyUi
  <1>2. CASE ReceiveList
    <2>1. /\ allConfigs' = listFetch.list /\ card' = Cards(allConfigs', view)
          /\ listFetch.at = "answered"
          /\ calls' = Unmounted(card') /\ isToggling' = StillMounted(card')
          /\ UNCHANGED <<view, isSubmitting, isExporting, isDeleting, settings>>
      BY <1>2 DEF ReceiveList
    <2>2. card' \in [Configs -> Statuses \cup {NoCard}] /\ CardsAreShown'
      <3>1. allConfigs' \in [Configs -> Statuses] /\ view \in Views
        BY <2>1, FetchType DEF IInv, TypeOK
      <3>2. /\ card' \in [Configs -> Statuses \cup {NoCard}]
            /\ \A c \in Configs : card'[c] # NoCard => view = "active"
        BY <2>1, <3>1, CardsType DEF IInv
      <3>3. \A x \in calls' : x.live /\ x.kind \in OfCard => card'[x.config] # NoCard
        BY <2>1 DEF Unmounted, OfCard, IInv, TypeOK, Calls
      <3>. QED  BY <2>1, <3>2, <3>3 DEF CardsAreShown
    <2>3. \A kinds, configs :
            /\ Awaited(calls, kinds, configs)
            /\ kinds \cap {"start", "stop", "detail"} = {} \/ (\A c \in configs : card'[c] # NoCard)
            => Awaited(calls', kinds, configs)
      BY <2>1, <2>2, StillAwaited DEF IInv
    <2>4. \A c \in isToggling' : Awaited(calls', {"start", "stop"}, {c})
      BY <2>1, <2>3 DEF IInv, BusyIsAwaited, StillMounted
    <2>. QED  BY <2>1, <2>2, <2>3, <2>4 DEF IInv, BusyIsAwaited
  <1>. QED  BY <1>1, <1>2

LEMMA BusyShow ==
  ASSUME IInv, NEW v \in Views, Show(v)
  PROVE  BusyIsAwaited' /\ CardsAreShown'
  <1> DEFINE kept(x) == [x EXCEPT !.live = @ /\ x.kind = "export" /\ v # "settings"]
  <1>1. /\ card' = Cards(allConfigs, v) /\ isToggling' = StillMounted(card')
        /\ calls' = {kept(x) : x \in {y \in Unmounted(card') : y.kind # "load"}}
                    \cup IF v = "settings" THEN {Call("load", NoConfig, saved)} ELSE {}
        /\ isDeleting' = NoConfig /\ isExporting' = (isExporting /\ v # "settings")
        /\ isSubmitting' = FALSE /\ view # v /\ view' = v
        /\ settings' = IF v = "settings" THEN [at |-> "loading"] ELSE Closed
    BY DEF Show
  <1>2. card' \in [Configs -> Statuses \cup {NoCard}]
        /\ \A c \in Configs : card'[c] # NoCard => v = "active"
    BY <1>1, CardsType DEF IInv, TypeOK
  <1>3. isToggling' = {}
    <2>1. \A c \in isToggling : card[c] # NoCard
      BY DEF IInv, BusyIsAwaited, Awaited, CardsAreShown, OfCard
    <2>. QED  BY <1>1, <1>2, <2>1 DEF IInv, TypeOK, CardsAreShown, StillMounted
  <1>4. isExporting' => Awaited(calls', {"export"}, Whatever)
    <2> SUFFICES ASSUME isExporting'
                 PROVE  Awaited(calls', {"export"}, Whatever)
      OBVIOUS
    <2>1. Awaited(Unmounted(card'), {"export"}, Whatever)
      BY <1>1, <1>2, StillAwaited DEF IInv, BusyIsAwaited
    <2>2. PICK x \in Unmounted(card') : x.kind = "export" /\ x.config \in Whatever /\ x.live
      BY <2>1 DEF Awaited
    <2>3. x \in Calls
      BY <1>2, UnmountedType DEF IInv
    <2>4. kept(x) \in calls' /\ kept(x).kind = "export" /\ kept(x).config = x.config /\ kept(x).live
      BY <1>1, <2>2, <2>3 DEF Calls
    <2>. QED  BY <2>2, <2>4 DEF Awaited
  <1>5. settings'.at = "loading" => Awaited(calls', {"load"}, Whatever)
    <2>1. CASE v = "settings"
      <3>1. Call("load", NoConfig, saved).kind = "load" /\ Call("load", NoConfig, saved).live
            /\ Call("load", NoConfig, saved).config = NoConfig
        BY DEF Call
      <3>2. Call("load", NoConfig, saved) \in calls'
        BY <1>1, <2>1
      <3>. QED  BY <3>1, <3>2 DEF Awaited, Whatever
    <2>2. CASE v # "settings"
      BY <1>1, <2>2 DEF Closed
    <2>. QED  BY <2>1, <2>2
  <1>6. settings'.at # "ready"
    BY <1>1 DEF Closed
  <1>7. \A x \in calls' : x.live /\ x.kind \in OfCard => card'[x.config] # NoCard
    <2>1. \A x \in Unmounted(card') : x \in Calls
      BY <1>2, UnmountedType DEF IInv
    <2>2. \A x \in Unmounted(card') : kept(x).kind = x.kind /\ (kept(x).live => x.kind = "export")
      BY <2>1 DEF Calls
    <2>3. Call("load", NoConfig, saved).kind = "load"
      BY DEF Call
    <2> HIDE DEF kept
    <2>. QED  BY <1>1, <2>2, <2>3 DEF OfCard
  <1>. QED  BY <1>1, <1>2, <1>3, <1>4, <1>5, <1>6, <1>7 DEF BusyIsAwaited, CardsAreShown

\* The user asks for something: what is sent is what is waited for.
LEMMA BusyUser ==
  ASSUME IInv,
         \/ \E e \in Entries : FillForm(e)
         \/ \E c \in Configs : ToggleProxy(c) \/ DeleteConfig(c)
         \/ CreateProxy \/ ExportProxies \/ SaveSettings
         \/ \E k \in Keys, v \in Values : EditSetting(k, v)
  PROVE  BusyIsAwaited' /\ CardsAreShown'
  <1>1. calls \subseteq calls' /\ UNCHANGED <<card, view>>
    BY DEF FillForm, ToggleProxy, DeleteConfig, CreateProxy, ExportProxies, SaveSettings,
           EditSetting, Send, proxyUi
  <1>2. \A kinds, configs : Awaited(calls, kinds, configs) => Awaited(calls', kinds, configs)
    BY <1>1, MoreAwaited
  <1>3. ASSUME NEW kind, NEW c, NEW values, Send(kind, c, values)
        PROVE  /\ \A kinds, configs : kind \in kinds /\ c \in configs => Awaited(calls', kinds, configs)
               /\ kind \in OfCard => (card[c] # NoCard => CardsAreShown')
               /\ kind \notin OfCard => CardsAreShown'
    <2> DEFINE x == Call(kind, c, values)
    <2>1. x.kind = kind /\ x.config = c /\ x.live
      BY DEF Call
    <2>2. calls' = calls \cup {x}
      BY <1>3 DEF Send
    <2> HIDE DEF x
    <2>. QED  BY <1>1, <2>1, <2>2 DEF Awaited, IInv, CardsAreShown
  <1>4. ASSUME NEW e \in Entries, FillForm(e)
        PROVE  BusyIsAwaited' /\ CardsAreShown'
    BY <1>4 DEF FillForm, IInv, BusyIsAwaited, CardsAreShown
  <1>5. ASSUME NEW c \in Configs, ToggleProxy(c)
        PROVE  BusyIsAwaited' /\ CardsAreShown'
    <2>1. card[c] # NoCard /\ isToggling' = isToggling \cup {c}
          /\ UNCHANGED <<isSubmitting, isExporting, isDeleting, settings>>
      BY <1>5 DEF ToggleProxy
    <2>2. Awaited(calls', {"start", "stop"}, {c}) /\ CardsAreShown'
      <3>1. Send("start", c, saved) \/ Send("stop", c, saved)
        BY <1>5 DEF ToggleProxy
      <3>. QED  BY <1>3, <2>1, <3>1 DEF OfCard
    <2>. QED  BY <1>2, <2>1, <2>2 DEF IInv, BusyIsAwaited
  <1>6. ASSUME NEW c \in Configs, DeleteConfig(c)
        PROVE  BusyIsAwaited' /\ CardsAreShown'
    <2>1. isDeleting' = c /\ Send("delete", c, saved)
          /\ UNCHANGED <<isSubmitting, isExporting, isToggling, settings>>
      BY <1>6 DEF DeleteConfig
    <2>. QED  BY <1>2, <1>3, <2>1 DEF IInv, BusyIsAwaited, OfCard
  <1>7. CASE CreateProxy
    <2>1. Send("create", form, saved) /\ form \in Whatever
          /\ UNCHANGED <<isDeleting, isExporting, isToggling, settings>>
      BY <1>7 DEF CreateProxy, IInv, TypeOK, Whatever
    <2>. QED  BY <1>2, <1>3, <2>1 DEF IInv, BusyIsAwaited, OfCard
  <1>8. CASE ExportProxies
    <2>1. Send("export", NoConfig, saved) /\ NoConfig \in Whatever
          /\ UNCHANGED <<isDeleting, isSubmitting, isToggling, settings>>
      BY <1>8 DEF ExportProxies, Whatever
    <2>. QED  BY <1>2, <1>3, <2>1 DEF IInv, BusyIsAwaited, OfCard
  <1>9. CASE SaveSettings
    <2>1. Send("save", NoConfig, settings.form) /\ NoConfig \in Whatever /\ UNCHANGED proxyUi
          /\ settings.at = "ready" /\ settings' = [settings EXCEPT !.saving = TRUE]
      BY <1>9 DEF SaveSettings, Whatever
    <2>2. settings'.at = "ready"
      BY <2>1, Ready DEF IInv
    <2>. QED  BY <1>2, <1>3, <2>1, <2>2 DEF IInv, BusyIsAwaited, OfCard, proxyUi
  <1>10. ASSUME NEW k \in Keys, NEW v \in Values, EditSetting(k, v)
         PROVE  BusyIsAwaited' /\ CardsAreShown'
    <2>1. settings.at = "ready" /\ UNCHANGED <<calls, proxyUi>>
          /\ settings' = [settings EXCEPT !.form[k] = v, !.touched = @ \cup {k}]
      BY <1>10 DEF EditSetting
    <2>2. settings'.at = "ready" /\ settings'.saving = settings.saving
      BY <2>1, Ready DEF IInv
    <2>. QED  BY <1>1, <2>1, <2>2 DEF IInv, BusyIsAwaited, CardsAreShown, proxyUi
  <1>. QED  BY <1>4, <1>5, <1>6, <1>7, <1>8, <1>9, <1>10

LEMMA BusyHandle ==
  ASSUME IInv, NEW x \in calls, Handle(x) \/ Fail(x)
  PROVE  BusyIsAwaited' /\ CardsAreShown'
  <1> DEFINE Same(y) == y.kind = x.kind /\ y.config = x.config /\ y.live = x.live
             Less(y) == y.kind = x.kind /\ y.config = x.config /\ (y.live => x.live)
  <1>1. x \in Calls /\ calls \in SUBSET Calls /\ calls' \in SUBSET Calls
    BY HandleTypes DEF IInv, TypeOK
  <1>2. /\ \A a : Same([x EXCEPT !.at = a])
        /\ \A a, t : Same([x EXCEPT !.at = a, !.status = t])
        /\ \A a, w : Same([x EXCEPT !.at = a, !.values = w])
        /\ \A a : Less([x EXCEPT !.at = a, !.live = FALSE])
        /\ \A y : Same(y) => Less(y)
    BY <1>1 DEF Calls
  <1> HIDE DEF Same, Less
  <1>3. /\ \A z \in calls' : z \in calls \/ Less(z)
        /\ calls \ {x} \subseteq calls'
        /\ ~x.live \/ \E y \in calls' : Same(y)
    <2> DEFINE Replacing(y) == Same(y) /\ calls' = (calls \ {x}) \cup {y}
    <2>1. Ok(x) \/ Refuse(x) \/ Check(x) => \E y : Replacing(y)
      BY <1>2 DEF Ok, Refuse, Check
    <2>2. HandleDetail(x) => \E y : Replacing(y)
      BY <1>2, <2>1 DEF HandleDetail
    <2>3. HandleSettings(x) => \E y : Replacing(y)
      BY <1>2, <2>1 DEF HandleSettings
    <2>4. HandleCreate(x) \/ HandleToggle(x) \/ HandleExport(x) \/ HandleDelete(x)
            => \E y : Replacing(y)
      BY <2>1 DEF HandleCreate, HandleToggle, HandleExport, HandleDelete
    <2>5. CASE \E y : Replacing(y)
      BY <1>2, <2>5
    <2>6. CASE Fail(x)
      BY <1>2, <2>6 DEF Fail
    <2>7. CASE DeleteRows(x)
      <3>1. CASE x.at = "checked"
        BY <2>1, <2>5, <2>7, <3>1 DEF DeleteRows
      <3>2. CASE x.at = "unheard"
        BY <1>1, <2>7, <3>2 DEF DeleteRows, Calls
      <3>. QED  BY <2>7, <3>1, <3>2 DEF DeleteRows
    <2>. QED  BY <2>2, <2>3, <2>4, <2>5, <2>6, <2>7 DEF Handle
  <1>4. \A kinds, configs : Awaited(calls, kinds, configs) => Awaited(calls', kinds, configs)
    <2> SUFFICES ASSUME NEW kinds, NEW configs, Awaited(calls, kinds, configs)
                 PROVE  Awaited(calls', kinds, configs)
      OBVIOUS
    <2>1. PICK z \in calls : z.kind \in kinds /\ z.config \in configs /\ z.live
      BY DEF Awaited
    <2>2. CASE z = x
      BY <1>3, <2>1, <2>2 DEF Awaited, Same
    <2>3. CASE z # x
      BY <1>3, <2>1, <2>3 DEF Awaited
    <2>. QED  BY <2>2, <2>3
  <1>5. UNCHANGED <<view, proxyUi, settings>>
    BY DEF Handle, HandleCreate, HandleToggle, HandleDetail, HandleExport, HandleDelete,
           DeleteRows, HandleSettings, Fail
  <1>6. CardsAreShown'
    BY <1>3, <1>5 DEF IInv, CardsAreShown, proxyUi, Less
  <1>. QED  BY <1>4, <1>5, <1>6 DEF IInv, BusyIsAwaited, proxyUi

LEMMA BusyReceive ==
  ASSUME IInv, NEW x \in calls, Receive(x)
  PROVE  BusyIsAwaited' /\ CardsAreShown'
  <1>1. calls \in SUBSET Calls /\ x \in Calls /\ x.config \in Whatever
    BY DEF IInv, TypeOK, Calls, Whatever
  <1>2. \A kinds, configs :
          /\ Awaited(calls, kinds, configs)
          /\ ~x.live \/ x.kind \notin kinds \/ x.config \notin configs
          => Awaited(calls \ {x}, kinds, configs)
    BY <1>1, Heard
  <1>3. CASE ReceiveCreate(x)
    <2>1. /\ x.kind = "create" /\ calls' = calls \ {x} /\ isSubmitting' = (isSubmitting /\ ~x.live)
          /\ UNCHANGED <<view, card, isExporting, isDeleting, isToggling, settings>>
      BY <1>3 DEF ReceiveCreate
    <2>. QED  BY <1>2, <2>1 DEF IInv, BusyIsAwaited, CardsAreShown
  <1>4. CASE ReceiveToggle(x)
    <2>1. /\ x.kind \in {"start", "stop"} /\ calls \ {x} \subseteq calls'
          /\ isToggling' = IF x.live THEN isToggling \ {x.config} ELSE isToggling
          /\ UNCHANGED <<view, card, isSubmitting, isExporting, isDeleting, settings>>
      BY <1>4 DEF ReceiveToggle
    <2>2. \A kinds, configs : Awaited(calls \ {x}, kinds, configs) => Awaited(calls', kinds, configs)
      BY <2>1, MoreAwaited
    <2>3. \A c \in isToggling' : Awaited(calls', {"start", "stop"}, {c})
      BY <1>2, <2>1, <2>2 DEF IInv, BusyIsAwaited
    <2>4. CardsAreShown'
      <3>1. \A y \in calls' : y \in calls \/ (x.live /\ y.config = x.config)
        BY <1>4 DEF ReceiveToggle, Call
      <3>2. x.live => card[x.config] # NoCard
        BY <2>1 DEF IInv, CardsAreShown, OfCard
      <3>. QED  BY <2>1, <3>1, <3>2 DEF IInv, CardsAreShown
    <2>. QED  BY <1>2, <2>1, <2>2, <2>3, <2>4 DEF IInv, BusyIsAwaited
  <1>5. CASE ReceiveDetail(x)
    <2>1. /\ x.kind = "detail" /\ calls' = calls \ {x}
          /\ card' = IF x.live /\ x.at = "ok" THEN [card EXCEPT ![x.config] = x.status] ELSE card
          /\ UNCHANGED <<view, isSubmitting, isExporting, isDeleting, isToggling, settings>>
      BY <1>5 DEF ReceiveDetail
    <2>2. CardsAreShown'
      <3>1. x.config \in Configs /\ x.status # NoCard
        BY <1>1, <2>1 DEF Calls, OfConfig, Statuses, NoCard
      <3>2. x.live => view = "active"
        BY <2>1, <3>1 DEF IInv, CardsAreShown, OfCard
      <3>. QED  BY <2>1, <3>1, <3>2 DEF IInv, TypeOK, CardsAreShown
    <2>. QED  BY <1>2, <2>1, <2>2 DEF IInv, BusyIsAwaited
  <1>6. CASE ReceiveExport(x)
    <2>1. /\ x.kind = "export" /\ calls' = calls \ {x} /\ isExporting' = (isExporting /\ ~x.live)
          /\ UNCHANGED <<view, card, isSubmitting, isDeleting, isToggling, settings>>
      BY <1>6 DEF ReceiveExport
    <2>. QED  BY <1>2, <2>1 DEF IInv, BusyIsAwaited, CardsAreShown
  <1>7. CASE ReceiveDelete(x)
    <2>1. /\ x.kind = "delete" /\ calls' = calls \ {x}
          /\ isDeleting' = IF x.live THEN NoConfig ELSE isDeleting
          /\ UNCHANGED <<view, card, isSubmitting, isExporting, isToggling, settings>>
      BY <1>7 DEF ReceiveDelete
    <2>. QED  BY <1>2, <2>1 DEF IInv, BusyIsAwaited, CardsAreShown
  <1>8. CASE ReceiveSettings(x)
    <2>1. /\ x.kind \in {"load", "save"} /\ calls' = calls \ {x} /\ UNCHANGED <<view, proxyUi>>
      BY <1>8 DEF ReceiveSettings
    <2>2. settings'.at = "loading" => Awaited(calls', {"load"}, Whatever)
      <3>1. settings.at = "loading" => Awaited(calls, {"load"}, Whatever)
        BY DEF IInv, BusyIsAwaited
      <3>2. CASE ~x.live
        BY <1>2, <1>8, <3>1, <3>2 DEF ReceiveSettings
      <3>3. CASE x.live /\ x.kind = "save"
        <4>1. settings' = [settings EXCEPT !.saving = FALSE] /\ settings \in Pages
          BY <1>8, <3>3 DEF ReceiveSettings, IInv, TypeOK
        <4>2. settings'.at = "loading" => settings.at = "loading"
          BY <4>1 DEF Pages
        <4>. QED  BY <1>2, <2>1, <3>1, <3>3, <4>2
      <3>4. CASE x.live /\ x.kind = "load"
        BY <1>8, <3>4 DEF ReceiveSettings, Loaded
      <3>. QED  BY <2>1, <3>2, <3>3, <3>4
    <2>3. settings'.at = "ready" /\ settings'.saving => Awaited(calls', {"save"}, Whatever)
      <3>1. settings.at = "ready" /\ settings.saving => Awaited(calls, {"save"}, Whatever)
        BY DEF IInv, BusyIsAwaited
      <3>2. CASE ~x.live
        BY <1>2, <1>8, <3>1, <3>2 DEF ReceiveSettings
      <3>3. CASE x.live /\ x.kind = "save"
        <4>1. settings' = [settings EXCEPT !.saving = FALSE]
          BY <1>8, <3>3 DEF ReceiveSettings
        <4>2. settings'.at = "ready" => settings.at = "ready"
          <5>1. settings \in Pages
            BY DEF IInv, TypeOK
          <5>. QED  BY <4>1, <5>1 DEF Pages
        <4>3. settings.at = "ready" => ~settings'.saving
          BY <4>1, Ready DEF IInv
        <4>. QED  BY <4>2, <4>3
      <3>4. CASE x.live /\ x.kind = "load"
        BY <1>8, <3>4 DEF ReceiveSettings, Loaded
      <3>. QED  BY <2>1, <3>2, <3>3, <3>4
    <2>. QED  BY <1>2, <2>1, <2>2, <2>3 DEF IInv, BusyIsAwaited, CardsAreShown, proxyUi
  <1>. QED  BY <1>3, <1>4, <1>5, <1>6, <1>7, <1>8 DEF Receive

-----------------------------------------------------------------------------
(* Deletions and starts that overlap.                                      *)

\* What runs stays, and no other deletion is past its check.
LEMMA RacesStay ==
  ASSUME RacesAreKnown, Checked' \subseteq Checked, Running' \subseteq Running, UNCHANGED raced
  PROVE  RacesAreKnown'
  BY DEF RacesAreKnown

\* Calls that are only left behind, or become answers.
LEMMA CheckedStay ==
  ASSUME \A y \in calls' : y.at \in {"checked", "unheard"} =>
           \E x \in calls : x.at \in {"checked", "unheard"} /\ x.config = y.config
  PROVE  Checked' \subseteq Checked
  BY DEF Checked

\* What the page does.
LEMMA RacesOfPage ==
  ASSUME RacesAreKnown, TypeOK,
         \/ AnswerList \/ AnswerSysConfig \/ ReceiveList \/ ReceiveSysConfig
         \/ \E v \in Views : Show(v)
         \/ \E e \in Entries : FillForm(e)
         \/ \E c \in Configs : ToggleProxy(c) \/ DeleteConfig(c)
         \/ CreateProxy \/ ExportProxies \/ SaveSettings
         \/ \E k \in Keys, v \in Values : EditSetting(k, v)
         \/ \E x \in calls : Receive(x)
  PROVE  RacesAreKnown' /\ UNCHANGED <<status, raced>>
  <1>1. UNCHANGED <<server, raced>>
    BY DEF AnswerList, AnswerSysConfig, ReceiveList, ReceiveSysConfig, Show, FillForm,
           ToggleProxy, DeleteConfig, CreateProxy, ExportProxies, SaveSettings, EditSetting,
           Receive, ReceiveCreate, ReceiveToggle, ReceiveDetail, ReceiveExport, ReceiveDelete,
           ReceiveSettings
  <1>2. ASSUME NEW kind, NEW c, NEW values
        PROVE  Call(kind, c, values).at = "sent"
    BY DEF Call
  <1>3. Checked' \subseteq Checked
    <2>1. CASE UNCHANGED calls
      BY <2>1 DEF Checked
    <2>2. CASE \E kind, c, values : Send(kind, c, values)
      BY <1>2, <2>2, CheckedStay DEF Send
    <2>3. CASE ReceiveList
      <3>1. calls' = Unmounted(card') /\ card' \in [Configs -> Statuses \cup {NoCard}]
        <4>1. /\ card' = Cards(allConfigs', view) /\ allConfigs' = listFetch.list
              /\ listFetch.at = "answered" /\ calls' = Unmounted(card')
          BY <2>3 DEF ReceiveList
        <4>2. allConfigs' \in [Configs -> Statuses] /\ view \in Views
          BY <4>1, FetchType DEF TypeOK
        <4>. QED  BY <4>1, <4>2, CardsType
      <3>. QED  BY <3>1, UnmountedType, CheckedStay
    <2>4. ASSUME NEW v \in Views, Show(v)
          PROVE  Checked' \subseteq Checked
      <3> DEFINE kept(x) == [x EXCEPT !.live = @ /\ x.kind = "export" /\ v # "settings"]
      <3>1. /\ card' = Cards(allConfigs, v)
            /\ calls' = {kept(x) : x \in {y \in Unmounted(card') : y.kind # "load"}}
                        \cup IF v = "settings" THEN {Call("load", NoConfig, saved)} ELSE {}
        BY <2>4 DEF Show
      <3>2. card' \in [Configs -> Statuses \cup {NoCard}]
        BY <3>1, CardsType DEF TypeOK
      <3>3. \A x \in Unmounted(card') :
              /\ kept(x).at = x.at /\ kept(x).config = x.config
              /\ \E y \in calls : y.at = x.at /\ y.config = x.config
        <4>1. \A x \in Unmounted(card') : x \in Calls
          BY <3>2, UnmountedType
        <4>2. \A x \in Unmounted(card') : kept(x).at = x.at /\ kept(x).config = x.config
          BY <4>1 DEF Calls
        <4>. QED  BY <3>2, <4>2, UnmountedType
      <3> HIDE DEF kept
      <3>4. \A y \in calls' : y.at = "sent" \/ \E x \in calls : x.at = y.at /\ x.config = y.config
        BY <1>2, <3>1, <3>3
      <3>. QED  BY <3>4, CheckedStay
    <2>5. ASSUME NEW x \in calls, Receive(x)
          PROVE  Checked' \subseteq Checked
      <3>1. \A y \in calls' : y \in calls \/ y.at = "sent"
        BY <1>2, <2>5 DEF Receive, ReceiveCreate, ReceiveToggle, ReceiveDetail, ReceiveExport,
                 ReceiveDelete, ReceiveSettings
      <3>. QED  BY <3>1, CheckedStay
    <2>6. \/ UNCHANGED calls \/ \E kind, c, values : Send(kind, c, values)
          \/ ReceiveList \/ \E v \in Views : Show(v)
          \/ \E x \in calls : Receive(x)
      BY DEF AnswerList, AnswerSysConfig, ReceiveSysConfig, FillForm, ToggleProxy, DeleteConfig,
             CreateProxy, ExportProxies, SaveSettings, EditSetting
    <2>. QED  BY <2>1, <2>2, <2>3, <2>4, <2>5, <2>6
  <1>. QED  BY <1>1, <1>3, RacesStay DEF server, Running

\* A start is a race if a deletion of its row is past its check.
LEMMA RacesOfStart ==
  ASSUME RacesAreKnown, TypeOK, NEW e, NEW c \in RowsFor(e), Started(c), UNCHANGED orphans,
         Checked' \subseteq Checked
  PROVE  RacesAreKnown'
  <1>1. c \in Configs /\ status' = [status EXCEPT ![c] = "active"]
        /\ raced' = raced \cup ({c} \cap Checked)
    BY StartedType DEF Started
  <1>2. Running' \subseteq Running \cup {c}
    BY <1>1 DEF Running, TypeOK
  <1>. QED  BY <1>1, <1>2 DEF RacesAreKnown

LEMMA RacesOfServer ==
  ASSUME RacesAreKnown, TypeOK, NEW x \in calls, Handle(x) \/ Fail(x)
  PROVE  RacesAreKnown'
  <1> DEFINE at(a) == [x EXCEPT !.at = a]
  <1>1. x \in Calls /\ calls \in SUBSET Calls
    BY DEF TypeOK
  <1>2. \A a : at(a).at = a /\ at(a).config = x.config
    BY <1>1 DEF Calls
  <1>3. Ok(x) \/ Refuse(x) => Checked' \subseteq Checked
    <2>1. Ok(x) \/ Refuse(x) => \A y \in calls' : y \in calls \/ y.at \in {"ok", "error"}
      BY <1>2 DEF Ok, Refuse
    <2>. QED  BY <2>1, CheckedStay
  <1>4. CASE HandleCreate(x)
    <2>1. UNCHANGED orphans /\ (Ok(x) \/ Refuse(x))
      BY <1>4 DEF HandleCreate
    <2>2. CASE \E c \in RowsFor(x.config) : Started(c)
      BY <1>3, <2>1, <2>2, RacesOfStart
    <2>3. CASE UNCHANGED <<status, raced>>
      BY <1>3, <2>1, <2>3, RacesStay DEF Running
    <2>. QED  BY <1>4, <2>2, <2>3 DEF HandleCreate
  <1>5. CASE HandleToggle(x) \/ HandleExport(x)
    BY <1>3, <1>5, RacesStay DEF HandleToggle, HandleExport, server, Running
  <1>6. CASE HandleDetail(x)
    <2>1. Checked' \subseteq Checked
      <3>1. [x EXCEPT !.at = "ok", !.status = status[x.config]].at = "ok"
        BY <1>1 DEF Calls
      <3>2. Ok(x) \/ Refuse(x) \/ \A y \in calls' : y \in calls \/ y.at = "ok"
        BY <1>6, <3>1 DEF HandleDetail
      <3>. QED  BY <1>3, <3>2, CheckedStay
    <2>. QED  BY <1>6, <2>1, RacesStay DEF HandleDetail, server, Running
  <1>7. CASE HandleSettings(x)
    <2>1. Checked' \subseteq Checked
      <3>1. [x EXCEPT !.at = "ok", !.values = running].at = "ok"
        BY <1>1 DEF Calls
      <3>2. Ok(x) \/ Refuse(x) \/ \A y \in calls' : y \in calls \/ y.at = "ok"
        BY <1>7, <3>1 DEF HandleSettings
      <3>. QED  BY <1>3, <3>2, CheckedStay
    <2>. QED  BY <1>7, <2>1, RacesStay DEF HandleSettings, Running
  <1>8. CASE HandleDelete(x)
    <2>1. UNCHANGED <<server, raced>>
      BY <1>8 DEF HandleDelete
    <2>2. CASE Refuse(x)
      BY <1>3, <2>1, <2>2, RacesStay DEF server, Running
    <2>3. CASE Check(x) /\ x.config \notin Running
      <3>1. Checked' \subseteq Checked \cup {x.config}
        BY <1>2, <2>3 DEF Check, Checked
      <3>. QED  BY <2>1, <2>3, <3>1 DEF RacesAreKnown, server, Running
    <2>. QED  BY <1>8, <2>2, <2>3 DEF HandleDelete
  <1>9. CASE DeleteRows(x)
    <2>1. Checked' \subseteq Checked
      <3>1. Ok(x) \/ Refuse(x) \/ calls' = calls \ {x}
        BY <1>9 DEF DeleteRows
      <3>. QED  BY <1>3, <3>1, CheckedStay
    <2>2. Running' \subseteq Running
      <3>1. x.config \in Configs
        BY <1>1, <1>9 DEF DeleteRows, Calls, OfConfig
      <3>2. /\ orphans' \subseteq orphans \cup Running
            /\ \A c \in Configs : status'[c] = "active" => status[c] = "active"
        BY <1>9, <3>1 DEF DeleteRows, TypeOK
      <3>. QED  BY <3>2 DEF Running
    <2>3. raced' = raced \cap Checked'
      BY <1>9 DEF DeleteRows
    <2>. QED  BY <2>1, <2>2, <2>3 DEF RacesAreKnown
  <1>10. CASE Fail(x)
    <2>1. Checked' \subseteq Checked
      <3>1. [x EXCEPT !.at = "unheard", !.live = FALSE].config = x.config
        BY <1>1 DEF Calls
      <3>2. \A y \in calls' : y \in calls \/ y.at = "error" \/ (x.at = "checked" /\ y.config = x.config)
        BY <1>2, <1>10, <3>1 DEF Fail
      <3>. QED  BY <3>2, CheckedStay
    <2>. QED  BY <1>10, <2>1, RacesStay DEF Fail, server, Running
  <1>. QED  BY <1>4, <1>5, <1>6, <1>7, <1>8, <1>9, <1>10 DEF Handle

LEMMA RacesKept ==
  ASSUME RacesAreKnown, TypeOK, [Next]_vars
  PROVE  RacesAreKnown'
  <1>1. CASE UNCHANGED vars
    BY <1>1 DEF vars, server, RacesAreKnown, Checked, Running
  <1>2. ASSUME NEW e \in Entries, MergeElsewhere(e)
        PROVE  RacesAreKnown'
    <2>1. Checked' \subseteq Checked
      BY <1>2 DEF MergeElsewhere, Checked
    <2>. QED  BY <1>2, <2>1, RacesOfStart DEF MergeElsewhere
  <1>3. CASE Restart
    <2> DEFINE ended(x) == IF x.at \in {"sent", "checked"} THEN [x EXCEPT !.at = "error"] ELSE x
    <2>1. calls' = {ended(x) : x \in {y \in calls : y.at # "unheard"}}
      BY <1>3 DEF Restart
    <2>2. \A x \in calls : x.at # "unheard" => ended(x).at \notin {"checked", "unheard"}
      BY DEF TypeOK, Calls
    <2> HIDE DEF ended
    <2>3. Checked' = {}
      BY <2>1, <2>2 DEF Checked
    <2>. QED  BY <2>3 DEF RacesAreKnown
  <1>. QED  BY <1>1, <1>2, <1>3, RacesOfPage, RacesOfServer DEF Next

-----------------------------------------------------------------------------
(* The theorems.                                                           *)

LEMMA Initially == Init => IInv
  <1> SUFFICES ASSUME Init
               PROVE  IInv
    OBVIOUS
  <1>1. /\ status \in [Configs -> Statuses] /\ sysList = Entry(Initial) /\ file = Entry(Initial)
        /\ orphans = {} /\ deleted = {} /\ raced = {}
        /\ running = [k \in Keys |-> Default] /\ saved = running /\ chosen = saved
        /\ allConfigs = [c \in Configs |-> "absent"] /\ sysConfig = {}
    BY DEF Init, Statuses
  <1>2. /\ listFetch = Asked /\ sysFetch = Asked /\ view = "active"
        /\ card = [c \in Configs |-> NoCard] /\ calls = {} /\ settings = Closed
        /\ form = NoConfig /\ isDeleting = NoConfig /\ isToggling = {}
    BY DEF Init
  <1>3. /\ isSubmitting = FALSE /\ isExporting = FALSE /\ missed = FALSE
    BY DEF Init
  <1>4. steps \in Nat /\ failures \in Nat /\ elsewhere \in Nat
    BY DEF Init
  <1>5. TypeOK
    <2>1. /\ sysList \in SUBSET Entries /\ file \in SUBSET Entries /\ Default \in Values
      BY <1>1, ProxyPagesAssumption DEF Entry
    <2>2. /\ running \in [Keys -> Values] /\ saved \in [Keys -> Values] /\ chosen \in [Keys -> Values]
          /\ allConfigs \in [Configs -> Statuses]
      BY <1>1, <2>1 DEF Statuses
    <2>3. settings \in Pages /\ view \in Views
      BY <1>2 DEF Closed, Pages, Views
    <2>. QED  BY <1>1, <1>2, <1>3, <1>4, <2>1, <2>2, <2>3, FetchType DEF TypeOK
  <1>6. ListsAreCurrent
    BY <1>2 DEF ListsAreCurrent, Asked, Idle
  <1>7. BusyIsAwaited /\ CardsAreShown
    BY <1>2, <1>3 DEF BusyIsAwaited, CardsAreShown, Closed
  <1>8. RacesAreKnown
    BY <1>2 DEF RacesAreKnown, Checked
  <1>. QED  BY <1>5, <1>6, <1>7, <1>8 DEF IInv

\* IInv holds in every state of every behaviour of the pages.
THEOREM Inductive == Spec => []IInv
<1>1. Init => IInv
  BY Initially
<1>2. IInv /\ [Next]_vars => IInv'
  <2> SUFFICES ASSUME IInv, [Next]_vars
               PROVE  IInv'
    OBVIOUS
  <2>1. TypeOK' /\ ListsAreCurrent'
    BY TypesKept, ListsKept DEF IInv
  <2>2. BusyIsAwaited' /\ CardsAreShown'
    <3>1. CASE UNCHANGED vars
      BY <3>1 DEF vars, lists, proxyUi, IInv, BusyIsAwaited, CardsAreShown
    <3>2. CASE \E e \in Entries : MergeElsewhere(e)
      BY <3>2 DEF MergeElsewhere, proxyUi, IInv, BusyIsAwaited, CardsAreShown
    <3>3. CASE Restart
      <4> DEFINE ended(x) == IF x.at \in {"sent", "checked"} THEN [x EXCEPT !.at = "error"] ELSE x
      <4>1. calls' = {ended(x) : x \in {y \in calls : y.at # "unheard"}}
            /\ UNCHANGED <<view, proxyUi, settings>>
        BY <3>3 DEF Restart
      <4>2. \A x \in calls : /\ ended(x).kind = x.kind /\ ended(x).config = x.config
                             /\ ended(x).live = x.live /\ (x.live => x.at # "unheard")
        BY DEF IInv, TypeOK, Calls
      <4> HIDE DEF ended
      <4>3. \A kinds, configs : Awaited(calls, kinds, configs) => Awaited(calls', kinds, configs)
        BY <4>1, <4>2 DEF Awaited
      <4>4. CardsAreShown'
        BY <4>1, <4>2 DEF IInv, CardsAreShown, proxyUi
      <4>. QED  BY <4>1, <4>3, <4>4 DEF IInv, BusyIsAwaited, proxyUi
    <3>. QED  BY <3>1, <3>2, <3>3, BusyAnswered, BusyShow, BusyUser, BusyHandle, BusyReceive
              DEF Next
  <2>3. RacesAreKnown'
    BY RacesKept DEF IInv
  <2>. QED  BY <2>1, <2>2, <2>3 DEF IInv
<1>. QED  BY <1>1, <1>2, PTL DEF Spec

\* Every variable of the pages has its type.
THEOREM TypeCorrect == Spec => []TypeOK
<1>1. IInv => TypeOK
  BY DEF IInv
<1>. QED  BY <1>1, Inductive, PTL

\* PageFollowsServer: once the calls that change the proxies and the refreshes
\* they cause are answered, the page shows what the server has, unless it was
\* never told of a change (refreshConfigs of global-app-context.tsx).
THEOREM ListsFollow == Spec => []PageFollowsServer
<1>1. IInv => PageFollowsServer
  BY DEF IInv, ListsAreCurrent, Untold, Quiet, PageFollowsServer, Idle
<1>. QED  BY <1>1, Inductive, PTL

\* RunningIsKept: a running proxy loses its configuration only to a deletion that
\* was past its check when the proxy was started (handleDeleteConfig), although the
\* table that offers the deletion may be out of date.
THEOREM RunningSurvives == Spec => RunningIsKept
<1>1. IInv /\ [Next]_vars
        => (\A c \in Configs \ raced : status[c] = "active" => status'[c] # "absent")
           \/ UNCHANGED vars
  <2> SUFFICES ASSUME IInv, Next, NEW c \in Configs \ raced, status[c] = "active"
               PROVE  status'[c] # "absent"
    OBVIOUS
  <2>1. TypeOK /\ RacesAreKnown /\ status \in [Configs -> Statuses] /\ c \in Running
    BY DEF IInv, TypeOK, Running
  <2>2. ASSUME NEW e, NEW d \in RowsFor(e), Started(d)
        PROVE  status'[c] # "absent"
    BY <2>1, <2>2 DEF Started
  <2>3. ASSUME NEW e \in Entries, MergeElsewhere(e)
        PROVE  status'[c] # "absent"
    BY <2>2, <2>3 DEF MergeElsewhere
  <2>4. ASSUME NEW x \in calls, Handle(x) \/ Fail(x)
        PROVE  status'[c] # "absent"
    <3>1. CASE HandleCreate(x)
      BY <2>2, <3>1 DEF HandleCreate
    <3>2. CASE DeleteRows(x)
      <4>1. x.config \in Checked
        BY <3>2 DEF DeleteRows, Checked
      <4>2. x.config # c
        BY <2>1, <4>1 DEF RacesAreKnown
      <4>. QED  BY <2>1, <3>2, <4>2 DEF DeleteRows
    <3>3. CASE \/ HandleToggle(x) \/ HandleDetail(x) \/ HandleExport(x) \/ HandleDelete(x)
               \/ HandleSettings(x) \/ Fail(x)
      BY <3>3 DEF HandleToggle, HandleDetail, HandleExport, HandleDelete, HandleSettings, Fail,
                  server
    <3>. QED  BY <2>4, <3>1, <3>2, <3>3 DEF Handle
  <2>5. CASE Restart
    BY <2>1, <2>5 DEF Restart, Rows
  <2>6. CASE UNCHANGED status
    BY <2>6
  <2>. QED  BY <2>1, <2>3, <2>4, <2>5, <2>6, RacesOfPage DEF Next
<1>. QED  BY <1>1, Inductive, PTL DEF Spec, RunningIsKept

\* Nothing shows that something is under way without a call that will end it, as
\* the page waits for its answer: this is what BusyEnds comes down to
\* (isSubmitting, isExporting, isDeleting, isToggling, the settings page).
THEOREM NothingHangs == Spec => []BusyIsAwaited
<1>1. IInv => BusyIsAwaited
  BY DEF IInv
<1>. QED  BY <1>1, Inductive, PTL
=============================================================================
