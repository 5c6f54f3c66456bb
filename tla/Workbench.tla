------------------------------ MODULE Workbench ------------------------------
(***************************************************************************)
(* The request builder at work (http-req-builder.tsx): the draft, the tabs *)
(* and the responses together. A request is sent while others are under    *)
(* way, tabs are opened, closed and switched, the page is reloaded, and    *)
(* IndexedDB answers when it likes. The captured session that is replayed  *)
(* comes from session-details.tsx or saved-session-info.tsx.               *)
(***************************************************************************)
EXTENDS RequestDraft, Panels, ResponseStore, JsonEditor

CONSTANTS MaxSends, MaxEdits, MaxReloads, MaxSwitches  \* bounds on the user's steps

ASSUME WorkbenchAssumption ==
  /\ MaxStoredTabs \in Nat /\ MaxStoredResponses \in Nat \ {0}
  /\ Original \in Targets \ {""} /\ "" \in Targets /\ "" \in Bodies
  /\ \A b \in Bodies : Decoded(b) \in Bodies
  /\ {MaxSends, MaxEdits, MaxReloads, MaxSwitches} \subseteq Nat

VARIABLES
  draft,          \* requestAtom
  now,            \* the clock of Date.now()
  isCalculating,  \* of the builder that is mounted
  sends,          \* what became of each request sent
  reloads, edits, switches,
  evicted,        \* history: keys the cleanup deleted
  interrupted     \* history: a reload came before a cleanup, and no count since

workVars == <<draft, now, isCalculating, sends>>
counters == <<reloads, edits, switches>>
history == <<evicted, interrupted>>
vars == <<panelVars, storeVars, workVars, editor, counters, history>>

\* A request sent: its key, and hashing, posted, answered, failed or, when the
\* page was left before that was in the store, lost.
KeyOfSend(s) == sends[s].key
UnderWay(s) == sends[s].phase \in {"hashing", "posted"}
Unsaved(key) == \E i \in DOMAIN ops : ops[i].op = "put" /\ ops[i].key = key

Init ==
  /\ PanelsInit /\ StoreInit
  /\ now = 1 /\ draft = DefaultRequest(1)
  /\ isCalculating = FALSE /\ sends = <<>>
  /\ editor = NewEditor("")
  /\ reloads = 0 /\ edits = 0 /\ switches = 0
  /\ evicted = {} /\ interrupted = FALSE

\* What a change of the panel does to what it shows: a builder that is left
\* forgets that it was sending, a viewer asks for its response.
Mount ==
  /\ isCalculating' = (isCalculating /\ BuilderShown')
  /\ IF ShownKey' \notin {NoKey, ShownKey}
       THEN GetResponseState(ShownKey') ELSE UNCHANGED storeVars

-----------------------------------------------------------------------------
(* The builder.                                                            *)

EditorShown == BuilderShown /\ draft.bodyType = "json"

\* A render of the builder, which its own state and its draft cause: the JSON
\* editor comes, goes or is rendered again.
RenderBuilder ==
  editor' = CASE ~EditorShown' -> NoEditor
              [] EditorShown' /\ ~editor.shown -> NewEditor(draft'.body)
              [] EditorShown' /\ editor.shown
                 /\ <<draft, isCalculating>>' # <<draft, isCalculating>> ->
                   Rendered(editor, draft'.body, draft'.body # draft.body)
              [] OTHER -> editor

\* A click leaves the editor before it does anything else.
FocusElsewhere == ~editor.typing

Edited(req) ==
  UNION { {SetTarget(req, t) : t \in Targets},
          IF req.bodyType = "raw" THEN {SetBody(req, b) : b \in Bodies} ELSE {},
          {SetBodyType(req, t) : t \in BodyTypes} }

\* What an edit of the headers or of the form data makes of the rows.
EditedRows(rows) ==
  UNION { {AddRow(rows)},
          {UpdateKey(rows, i, "content-type") : i \in DOMAIN rows},
          {ToggleRow(rows, i) : i \in DOMAIN rows},
          {RemoveRow(rows, i) : i \in DOMAIN rows} }

\* Bound: nothing is edited after the last request.
MayEdit == edits < MaxEdits /\ Len(sends) < MaxSends

EditDraft ==
  /\ BuilderShown /\ FocusElsewhere
  /\ MayEdit /\ edits' = edits + 1
  /\ draft' \in Edited(draft)
       \cup {[draft EXCEPT !.headers = rows] : rows \in EditedRows(draft.headers)}
       \cup IF draft.bodyType # "form-data" THEN {}
            ELSE {[draft EXCEPT !.entries = rows] : rows \in EditedRows(draft.entries)}
  /\ UNCHANGED <<panelVars, storeVars, now, isCalculating, sends, reloads, switches, history>>
  /\ RenderBuilder

TypeBody(text) ==
  /\ MayEdit /\ edits' = edits + 1
  /\ TypeText(text)
  /\ UNCHANGED <<panelVars, storeVars, workVars, reloads, switches, history>>

DebouncedChange ==
  /\ EmitChange
  /\ UNCHANGED <<panelVars, storeVars, workVars, counters, history>>

\* onBlurJson: the text becomes the body of a new draft, so the builder is rendered.
LeaveEditor ==
  /\ editor.shown
  /\ draft' = SetBody(draft, editor.text)
  /\ editor' = Rendered(Left, draft'.body, draft'.body # draft.body)
  /\ UNCHANGED <<panelVars, storeVars, now, isCalculating, sends, counters, history>>

\* The list of configurations comes anew, which the builder reads too: a render
\* that nothing the user does in the builder brings about.
RefreshConfigs ==
  /\ editor.shown
  /\ editor' = Rendered(editor, draft.body, FALSE)
  /\ UNCHANGED <<panelVars, storeVars, workVars, counters, history>>

\* handleCopyToHttpReq of a captured session, on any page.
CopyToHttpReq(body) ==
  /\ FocusElsewhere
  /\ MayEdit /\ edits' = edits + 1
  /\ now' = now + 1
  /\ draft' = ResetRequest([target |-> Original, body |-> body,
                            headers |-> <<Row("content-type", "raw")>>], now')
  /\ UNCHANGED <<panelVars, storeVars, isCalculating, sends, reloads, switches, history>>
  /\ RenderBuilder

CanSend == BuilderShown /\ FocusElsewhere /\ ~isCalculating /\ draft.target # ""

\* A mutant: the timestamp stays what it was.
SendSameTimestamp ==
  /\ CanSend /\ Len(sends) < MaxSends
  /\ isCalculating' = TRUE /\ now' = now + 1
  /\ sends' = Append(sends, [key |-> RequestHash(draft), phase |-> "hashing"])
  /\ UNCHANGED <<panelVars, storeVars, draft, counters, history>>
  /\ RenderBuilder

\* sendRequest up to the hash, which is that of the request with the timestamp
\* the previous send left; the new one is for the next. getLatestBody never finds
\* the editor, because its ref is made before the editor is: it takes the draft's body.
SendRequest ==
  /\ CanSend /\ Len(sends) < MaxSends
  /\ isCalculating' = TRUE /\ now' = now + 1
  /\ sends' = Append(sends, [key |-> RequestHash(draft), phase |-> "hashing"])
  /\ draft' = [draft EXCEPT !.timestamp = now']
  /\ UNCHANGED <<panelVars, storeVars, counters, history>>
  /\ RenderBuilder

\* The hash is there: a tab is opened, the response is loading, the request is
\* posted. The builder is left if it was shown; the viewer finds the response.
PostRequest(s) ==
  /\ sends[s].phase = "hashing"
  /\ sends' = [sends EXCEPT ![s].phase = "posted"]
  /\ AddTab([id |-> now, key |-> KeyOfSend(s)]) /\ now' = now + 1
  /\ UpdateResponseState(KeyOfSend(s),
       [StateIn(responseMap, KeyOfSend(s)) EXCEPT !.loading = TRUE, !.error = FALSE])
  /\ isCalculating' = (isCalculating /\ BuilderShown')
  /\ UNCHANGED <<draft, counters, history>>
  /\ RenderBuilder

\* The answer of /api/httpreq; the data is that of this request.
ReceiveResponse(s) ==
  /\ sends[s].phase = "posted"
  /\ sends' = [sends EXCEPT ![s].phase = "answered"]
  /\ UpdateResponseState(KeyOfSend(s),
       [StateIn(responseMap, KeyOfSend(s)) EXCEPT !.loading = FALSE, !.data = s])
  /\ UNCHANGED <<panelVars, draft, now, isCalculating, editor, counters, history>>

\* It failed.
ReceiveError(s) ==
  /\ sends[s].phase = "posted"
  /\ sends' = [sends EXCEPT ![s].phase = "failed"]
  /\ UpdateResponseState(KeyOfSend(s),
       [StateIn(responseMap, KeyOfSend(s)) EXCEPT !.loading = FALSE, !.error = TRUE])
  /\ UNCHANGED <<panelVars, draft, now, isCalculating, editor, counters, history>>

-----------------------------------------------------------------------------
(* The panel, IndexedDB and the page.                                      *)

CloseTab(id) ==
  /\ FocusElsewhere /\ open /\ RemoveTab(id) /\ Mount
  /\ UNCHANGED <<draft, now, sends, counters, history>>
  /\ RenderBuilder

SwitchTab(id) ==
  /\ switches < MaxSwitches /\ switches' = switches + 1
  /\ FocusElsewhere /\ ActivateTab(id) /\ Mount
  /\ UNCHANGED <<draft, now, sends, reloads, edits, history>>
  /\ RenderBuilder

OpenOrClosePanel ==
  /\ switches < MaxSwitches /\ switches' = switches + 1
  /\ FocusElsewhere /\ TogglePanel /\ Mount
  /\ UNCHANGED <<draft, now, sends, reloads, edits, history>>
  /\ RenderBuilder

\* IndexedDB takes a step.
StoreStep ==
  /\ IndexedDB
  /\ evicted' = evicted \cup ({db[i].key : i \in DOMAIN db} \ {db'[i].key : i \in DOMAIN db'})
  /\ interrupted' = (interrupted /\ counting' >= counting)
  /\ UNCHANGED <<panelVars, workVars, editor, counters>>

Reload ==
  /\ reloads < MaxReloads /\ reloads' = reloads + 1
  /\ LoadTabs
  /\ LoadStore(IF ShownKey' = NoKey THEN <<>> ELSE <<ShownKey'>>)
  /\ now' = now + 1 /\ draft' = DefaultRequest(now')
  /\ isCalculating' = FALSE
  /\ editor' = IF EditorShown' THEN NewEditor("") ELSE NoEditor
  /\ sends' = [s \in DOMAIN sends |->
                 IF UnderWay(s) \/ Unsaved(KeyOfSend(s)) THEN [sends[s] EXCEPT !.phase = "lost"] ELSE sends[s]]
  /\ interrupted' = (interrupted \/ counting > 0 \/ deleting # <<>>)
  /\ UNCHANGED <<edits, switches, evicted>>

Next ==
  \/ EditDraft \/ DebouncedChange \/ LeaveEditor \/ RefreshConfigs
  \/ \E b \in Bodies : TypeBody(b) \/ CopyToHttpReq(b)
  \/ SendRequest
  \/ \E s \in DOMAIN sends : PostRequest(s) \/ ReceiveResponse(s) \/ ReceiveError(s)
  \/ \E id \in TabIds(tabs) : CloseTab(id) \/ SwitchTab(id)
  \/ OpenOrClosePanel
  \/ StoreStep
  \/ Reload

Spec == Init /\ [][Next]_vars

-----------------------------------------------------------------------------
(* Properties.                                                             *)

Final(state) == ~state.loading /\ (state.error \/ state.data # NoData)

\* "Update timestamp to ensure hash changes on each send": a response that is
\* shown or stored under a key is that of the one request with this key, also
\* when the same draft is sent again while the first answer is on its way.
ResponseOfItsRequest ==
  LET Own(key, state) ==
        state.data # NoData => {s \in DOMAIN sends : KeyOfSend(s) = key} = {state.data}
  IN  /\ \A key \in DOMAIN responseMap : Own(key, responseMap[key])
      /\ \A i \in DOMAIN db : Own(db[i].key, db[i].state)

\* The tabs a reload restores are the last ones the panel shows, no two tabs are
\* confused, and one of them is the active one.
PanelsAgree ==
  /\ stored = Storable(tabs)
  /\ activeTab \in TabIds(tabs)
  /\ \A i, j \in DOMAIN tabs : tabs[i].id = tabs[j].id => i = j

\* MAX_STORED_RESPONSES bounds the store whenever no cleanup is to come, whichever
\* way the cleanups of several writes overlap; a cleanup that a reload cut off is
\* made up for after the next write.
StoreBounded ==
  counting = 0 /\ deleting = <<>> /\ ~interrupted => Len(db) <= MaxStoredResponses

\* The outcome of a request is in memory, on its way to the store or in it until
\* the cleanup deletes it: the map that a slow read puts back, and a reload, may
\* take it out of memory only.
OutcomeIsKept ==
  \A s \in DOMAIN sends : sends[s].phase \in {"answered", "failed"} =>
    LET key == KeyOfSend(s)
    IN  \/ Final(StateIn(responseMap, key))
        \/ \E i \in DOMAIN ops : ops[i].op = "put" /\ ops[i].key = key /\ Final(ops[i].state)
        \/ \E i \in DOMAIN db : db[i].key = key /\ Final(db[i].state)
        \/ key \in evicted

\* The editor shows the body that a request is sent with whenever the user is not
\* typing in it: after the focus has left it, the text it had is decoded or a
\* captured request is replayed, whatever preventUpdating was left at.
EditorShowsDraft == editor.shown /\ ~editor.typing => editor.text = draft.body

\* "We pass the hash to the viewer so it knows which data to pull from the map":
\* once IndexedDB has nothing left to do, the viewer that is shown shows the
\* outcome of its request.
ViewerShowsOutcome ==
  \A s \in DOMAIN sends :
    /\ sends[s].phase \in {"answered", "failed"} /\ ops = <<>>
    /\ ShownKey = KeyOfSend(s) /\ ShownKey \notin evicted
    => Shown(ShownKey) \in {"response", "error"}
=============================================================================
