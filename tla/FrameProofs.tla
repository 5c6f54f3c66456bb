---------------------------- MODULE FrameProofs ----------------------------
(***************************************************************************)
(* Proofs about what is around every page of the UI: the panel with the    *)
(* request builder (Workbench, and so the draft, the tabs, the response    *)
(* store and the JSON editor it is made of), the connection to the server  *)
(* (UiConnection) and the navigation (Navigation). They hold for any       *)
(* targets, bodies, topics, components and configurations, any bounds of   *)
(* the stores and any number of the user's steps.                          *)
(***************************************************************************)
EXTENDS Workbench, UiConnection, Navigation,
        FiniteSetTheorems, SequenceTheorems, WellFoundedInduction, TLAPS

-----------------------------------------------------------------------------
(* Types.                                                                  *)

Rows == [key : {"", "content-type"}, value : BodyTypes \cup {""}, enabled : BOOLEAN]
Drafts == [target : Targets, headers : Seq(Rows), body : Bodies, bodyType : BodyTypes,
           entries : Seq(Rows), timestamp : Nat]
Keys == [target : Targets, headers : SUBSET Rows, body : Bodies, timestamp : Nat]
Phases == {"hashing", "posted", "answered", "failed", "lost"}
Sends == [key : Keys, phase : Phases]
Tabs == [id : Nat, key : Keys \cup {NoKey}]
States == [loading : BOOLEAN, error : BOOLEAN, data : Nat]
Maps == UNION {[D -> States] : D \in SUBSET Keys}
Entries == [key : Keys, state : States]
Ops == [op : {"put", "get"}, key : Keys, state : States, map : Maps]
Editors == [shown : BOOLEAN, text : Bodies, typing : BOOLEAN, timer : BOOLEAN,
            preventUpdating : BOOLEAN]

WorkType ==
  /\ draft \in Drafts /\ now \in Nat \ {0} /\ isCalculating \in BOOLEAN
  /\ sends \in Seq(Sends) /\ editor \in Editors
PanelType == tabs \in Seq(Tabs) /\ activeTab \in Nat /\ stored \in Seq(Tabs) /\ open \in BOOLEAN
StoreType ==
  /\ responseMap \in Maps /\ db \in Seq(Entries) /\ ops \in Seq(Ops)
  /\ counting \in Nat /\ deleting \in Seq(Nat)
  /\ evicted \subseteq Keys /\ interrupted \in BOOLEAN
CounterType == reloads \in Nat /\ edits \in Nat /\ switches \in Nat

TypeOK == WorkType /\ PanelType /\ StoreType /\ CounterType

-----------------------------------------------------------------------------
(* The inductive invariant.                                                *)

\* The timestamp of the draft is later than that of every request sent, so the
\* keys differ.
KeysDiffer ==
  /\ draft.timestamp <= now
  /\ \A s \in 1..Len(sends) : KeyOfSend(s).timestamp < draft.timestamp
  /\ \A s, t \in 1..Len(sends) : KeyOfSend(s) = KeyOfSend(t) => s = t

\* The ids of the tabs are times past; the builder is the first tab.
TabsDiffer ==
  /\ tabs # <<>> /\ tabs[1] = Builder
  /\ \A i \in 1..Len(tabs) : tabs[i].id < now
  /\ \A i, j \in 1..Len(tabs) : tabs[i].id = tabs[j].id => i = j
PanelsInv == TabsDiffer /\ activeTab \in TabIds(tabs) /\ stored = Storable(tabs)

\* Every state there is of a response, also in a map that a read carries, has
\* no data or that of the request with its key.
Own(requests, key, state) ==
  state.data # NoData =>
    state.data \in 1..Len(requests) /\ requests[state.data].key = key
OwnMap(requests, map) == \A key \in DOMAIN map : Own(requests, key, map[key])
StatesAreOwn ==
  /\ OwnMap(sends, responseMap)
  /\ \A i \in 1..Len(db) : Own(sends, db[i].key, db[i].state)
  /\ \A i \in 1..Len(ops) : Own(sends, ops[i].key, ops[i].state) /\ OwnMap(sends, ops[i].map)

\* The store has one entry for a key.
OneEntry == \A i, j \in 1..Len(db) : db[i].key = db[j].key => i = j

\* What the cleanups to come leave: each count makes up for one entry, and what the
\* last deletion leaves is what was right when its entries were counted.
Excess == IF deleting = <<>> THEN 0 ELSE deleting[Len(deleting)]
CleanupsSuffice == ~interrupted => Len(db) <= MaxStoredResponses + counting + Excess

\* The last write of a finished request has its outcome.
IsPut(o, key) == o.op = "put" /\ o.key = key
IsQueued(todo, key) ==
  \E i \in 1..Len(todo) :
    /\ IsPut(todo[i], key) /\ Final(todo[i].state)
    /\ \A j \in 1..Len(todo) : i < j => ~IsPut(todo[j], key)
IsStored(todo, store, key) ==
  /\ \A i \in 1..Len(todo) : ~IsPut(todo[i], key)
  /\ \E i \in 1..Len(store) : store[i].key = key /\ Final(store[i].state)
IsSaved(gone, todo, store, key) ==
  key \in gone \/ IsQueued(todo, key) \/ IsStored(todo, store, key)
OutcomesAreSaved ==
  \A s \in 1..Len(sends) :
    sends[s].phase \in {"answered", "failed"} => IsSaved(evicted, ops, db, sends[s].key)

WorkbenchInv ==
  /\ TypeOK /\ KeysDiffer /\ PanelsInv
  /\ StatesAreOwn /\ OneEntry /\ CleanupsSuffice /\ OutcomesAreSaved /\ EditorShowsDraft

-----------------------------------------------------------------------------
(* Sequences and maps.                                                     *)

\* A sequence with one more element.
LEMMA Enqueued ==
  ASSUME NEW S, NEW q \in Seq(S), NEW e \in S
  PROVE  LET r == Append(q, e)
         IN  /\ r \in Seq(S) /\ Len(r) = Len(q) + 1 /\ Len(q) \in Nat
             /\ \A i \in 1..Len(q) : i \in 1..Len(r) /\ r[i] = q[i] /\ q[i] \in S
             /\ Len(r) \in 1..Len(r) /\ r[Len(r)] = e
             /\ \A i \in 1..Len(r) : i # Len(r) => i \in 1..Len(q)
  <1> DEFINE r == Append(q, e)
  <1>1. /\ r \in Seq(S) /\ Len(r) = Len(q) + 1 /\ Len(q) \in Nat
        /\ \A i \in 1..Len(q) : r[i] = q[i] /\ q[i] \in S
        /\ r[Len(q) + 1] = e
    BY ElementOfSeq, LenProperties
  <1>. QED  BY <1>1

LEMMA Singleton ==
  ASSUME NEW S, NEW x \in S
  PROVE  <<x>> \in Seq(S)
  OBVIOUS

\* A sequence without its first element.
LEMMA Dequeued ==
  ASSUME NEW S, NEW q \in Seq(S), q # <<>>
  PROVE  LET r == Tail(q)
         IN  /\ r \in Seq(S) /\ Len(r) = Len(q) - 1 /\ Len(q) \in Nat \ {0}
             /\ Head(q) = q[1] /\ Head(q) \in S /\ 1 \in 1..Len(q)
             /\ \A i \in 1..Len(r) : i + 1 \in 1..Len(q) /\ r[i] = q[i + 1]
             /\ \A i \in 1..Len(q) : i # 1 => i - 1 \in 1..Len(r) /\ r[i - 1] = q[i]
  <1> DEFINE r == Tail(q)
  <1>1. /\ r \in Seq(S) /\ Len(r) = Len(q) - 1 /\ Len(q) \in Nat \ {0} /\ Head(q) = q[1]
        /\ \A i \in 1..Len(r) : r[i] = q[i + 1]
    BY HeadTailProperties, EmptySeq
  <1>2. Head(q) \in S
    BY HeadTailProperties
  <1>. QED  BY <1>1, <1>2

\* A sequence without one of its elements.
LEMMA Removed ==
  ASSUME NEW S, NEW q \in Seq(S), NEW p \in 1..Len(q)
  PROVE  LET r == RemoveAt(q, p)
         IN  /\ r \in Seq(S) /\ Len(r) = Len(q) - 1 /\ Len(q) \in Nat \ {0}
             /\ \A i \in 1..Len(r) : i < p => i \in 1..Len(q) /\ r[i] = q[i]
             /\ \A i \in 1..Len(r) : ~(i < p) => i + 1 \in 1..Len(q) /\ r[i] = q[i + 1]
             /\ \A i \in 1..Len(q) : i < p => i \in 1..Len(r) /\ r[i] = q[i]
             /\ \A i \in 1..Len(q) : i > p => i - 1 \in 1..Len(r) /\ r[i - 1] = q[i]
  <1> DEFINE f == SubSeq(q, 1, p - 1)
             b == SubSeq(q, p + 1, Len(q))
             r == f \o b
  <1>1. Len(q) \in Nat /\ \A i \in 1..Len(q) : q[i] \in S
    BY ElementOfSeq, LenProperties
  <1>2. f \in Seq(S) /\ Len(f) = p - 1 /\ \A i \in 1..p-1 : f[i] = q[i]
    <2>1. \A i \in 1..p-1 : q[i] \in S
      BY <1>1
    <2>2. /\ f \in Seq(S) /\ Len(f) = IF 1 <= p - 1 THEN p - 1 - 1 + 1 ELSE 0
          /\ \A i \in 1..p-1-1+1 : f[i] = q[1+i-1]
      BY <1>1, <2>1, SubSeqProperties
    <2>. QED  BY <2>2, <1>1
  <1>3. b \in Seq(S) /\ Len(b) = Len(q) - p /\ \A i \in 1..Len(q)-p : b[i] = q[p + i]
    <2>1. \A i \in p+1..Len(q) : q[i] \in S
      BY <1>1
    <2>2. /\ b \in Seq(S) /\ Len(b) = IF p + 1 <= Len(q) THEN Len(q) - (p + 1) + 1 ELSE 0
          /\ \A i \in 1..Len(q)-(p+1)+1 : b[i] = q[p+1+i-1]
      BY <1>1, <2>1, SubSeqProperties
    <2>. QED  BY <2>2, <1>1
  <1>4. /\ r \in Seq(S) /\ Len(r) = Len(f) + Len(b)
        /\ \A i \in 1..Len(f) + Len(b) : r[i] = IF i <= Len(f) THEN f[i] ELSE b[i - Len(f)]
    BY <1>2, <1>3, ConcatProperties
  <1> HIDE DEF f, b, r
  <1>5. r \in Seq(S) /\ Len(r) = Len(q) - 1 /\ Len(q) \in Nat \ {0}
    BY <1>1, <1>2, <1>3, <1>4
  <1>6. \A i \in 1..Len(r) : i < p => i \in 1..Len(q) /\ r[i] = q[i]
    BY <1>1, <1>2, <1>3, <1>4
  <1>7. \A i \in 1..Len(r) : ~(i < p) => i + 1 \in 1..Len(q) /\ r[i] = q[i + 1]
    <2> SUFFICES ASSUME NEW i \in 1..Len(r), ~(i < p)
                 PROVE  i + 1 \in 1..Len(q) /\ r[i] = q[i + 1]
      OBVIOUS
    <2>1. i - (p - 1) \in 1..Len(q)-p /\ p + (i - (p - 1)) = i + 1 /\ i + 1 \in 1..Len(q)
      BY <1>1, <1>5
    <2>2. r[i] = b[i - (p - 1)]
      BY <1>1, <1>2, <1>3, <1>4
    <2>. QED  BY <2>1, <2>2, <1>3
  <1>8. \A i \in 1..Len(q) : i < p => i \in 1..Len(r) /\ r[i] = q[i]
    BY <1>5, <1>6
  <1>9. \A i \in 1..Len(q) : i > p => i - 1 \in 1..Len(r) /\ r[i - 1] = q[i]
    <2> SUFFICES ASSUME NEW i \in 1..Len(q), i > p
                 PROVE  i - 1 \in 1..Len(r) /\ r[i - 1] = q[i]
      OBVIOUS
    <2>1. i - 1 \in 1..Len(r) /\ ~(i - 1 < p) /\ (i - 1) + 1 = i
      BY <1>5
    <2>. QED  BY <2>1, <1>7
  <1>10. r = RemoveAt(q, p)
    BY DEF RemoveAt, r, f, b
  <1>. QED  BY <1>5, <1>6, <1>7, <1>8, <1>9, <1>10

\* A map with one more state.
LEMMA WithType ==
  ASSUME NEW map \in Maps, NEW key \in Keys, NEW state \in States
  PROVE  /\ With(map, key, state) \in Maps
         /\ DOMAIN With(map, key, state) = DOMAIN map \cup {key}
         /\ \A k \in DOMAIN map \cup {key} :
              With(map, key, state)[k] = IF k = key THEN state ELSE map[k]
  <1>1. PICK D \in SUBSET Keys : map \in [D -> States]
    BY DEF Maps
  <1>2. With(map, key, state) \in [D \cup {key} -> States]
    BY <1>1 DEF With
  <1>3. D \cup {key} \in SUBSET Keys
    BY <1>1
  <1>. QED  BY <1>1, <1>2, <1>3 DEF Maps, With

LEMMA StateType ==
  ASSUME NEW map \in Maps, NEW key
  PROVE  StateIn(map, key) \in States /\ DOMAIN map \subseteq Keys
  BY DEF Maps, StateIn, States, EmptyState, NoData

LEMMA NoMap == <<>> \in Maps /\ DOMAIN <<>> = {}
  <1>1. DOMAIN <<>> = {}
    OBVIOUS
  <1>2. <<>> = [k \in {} |-> EmptyState]
    OBVIOUS
  <1>. QED  BY <1>1, <1>2 DEF Maps

-----------------------------------------------------------------------------
(* The draft.                                                              *)

LEMMA RowType ==
  /\ Row("", "") \in Rows
  /\ \A v \in BodyTypes : Row("content-type", v) \in Rows
  /\ Row("content-type", "json") \in Rows /\ Row("content-type", "raw") \in Rows
  BY DEF Row, Rows, BodyTypes

\* Every new request has the timestamp it is given.
LEMMA DefaultType ==
  ASSUME NEW n \in Nat
  PROVE  DefaultRequest(n) \in Drafts /\ DefaultRequest(n).timestamp = n
  <1>1. <<Row("content-type", "json")>> \in Seq(Rows)
    BY RowType, Singleton
  <1>0. <<>> \in Seq(Rows) /\ "json" \in BodyTypes
    BY EmptySeq DEF BodyTypes
  <1>. QED  BY <1>0, <1>1, WorkbenchAssumption DEF DefaultRequest, Drafts, WorkbenchAssumption

LEMMA ResetType ==
  ASSUME NEW n \in Nat, NEW b \in Bodies
  PROVE  LET r == ResetRequest([target |-> Original, body |-> b,
                                headers |-> <<Row("content-type", "raw")>>], n)
         IN  r \in Drafts /\ r.timestamp = n
  <1>1. <<Row("content-type", "raw")>> \in Seq(Rows)
    BY RowType, Singleton
  <1>2. Decoded(b) \in Bodies /\ Original \in Targets
    BY WorkbenchAssumption DEF WorkbenchAssumption
  <1>3. DefaultRequest(n) \in Drafts /\ DefaultRequest(n).timestamp = n
    BY DefaultType
  <1>. QED  BY <1>1, <1>2, <1>3 DEF ResetRequest, Drafts

\* The key of a request has its timestamp.
LEMMA HashType ==
  ASSUME NEW req \in Drafts
  PROVE  RequestHash(req) \in Keys /\ RequestHash(req).timestamp = req.timestamp
  <1>1. \A i \in DOMAIN req.headers : req.headers[i] \in Rows
    BY ElementOfSeq, LenProperties DEF Drafts
  <1>. QED  BY <1>1 DEF RequestHash, Keys, Drafts

\* An edit leaves the timestamp alone.
LEMMA EditedRowsType ==
  ASSUME NEW rows \in Seq(Rows), NEW r \in EditedRows(rows)
  PROVE  r \in Seq(Rows)
  <1>1. DOMAIN rows = 1..Len(rows) /\ Len(rows) \in Nat
    BY LenProperties
  <1>2. CASE r = AddRow(rows)
    BY <1>2, RowType, Enqueued DEF AddRow
  <1>3. CASE \E i \in DOMAIN rows : r = UpdateKey(rows, i, "content-type")
    <2>1. PICK i \in 1..Len(rows) : r = [rows EXCEPT ![i].key = "content-type"]
      BY <1>1, <1>3 DEF UpdateKey
    <2>2. rows[i] \in Rows
      BY ElementOfSeq
    <2>3. [rows[i] EXCEPT !.key = "content-type"] \in Rows
      BY <2>2 DEF Rows
    <2>. QED  BY <2>1, <2>3, ExceptSeq
  <1>4. CASE \E i \in DOMAIN rows : r = ToggleRow(rows, i)
    <2>1. PICK i \in 1..Len(rows) : r = [rows EXCEPT ![i].enabled = ~@]
      BY <1>1, <1>4 DEF ToggleRow
    <2>2. rows[i] \in Rows
      BY ElementOfSeq
    <2>3. [rows[i] EXCEPT !.enabled = ~@] \in Rows
      BY <2>2 DEF Rows
    <2>. QED  BY <2>1, <2>3, ExceptSeq
  <1>5. CASE \E i \in DOMAIN rows : r = RemoveRow(rows, i)
    BY <1>1, <1>5, Removed DEF RemoveRow, RemoveAt
  <1>. QED  BY <1>2, <1>3, <1>4, <1>5 DEF EditedRows

LEMMA EditedType ==
  ASSUME NEW req \in Drafts, NEW r \in Edited(req)
  PROVE  r \in Drafts /\ r.timestamp = req.timestamp
  <1>1. CASE \E t \in Targets : r = SetTarget(req, t)
    BY <1>1 DEF SetTarget, Drafts
  <1>2. CASE \E b \in Bodies : r = SetBody(req, b)
    BY <1>2, WorkbenchAssumption DEF SetBody, Drafts, WorkbenchAssumption
  <1>3. CASE \E t \in BodyTypes : r = SetBodyType(req, t)
    <2>1. PICK t \in BodyTypes : r = SetBodyType(req, t)
      BY <1>3
    <2> DEFINE rows == {i \in DOMAIN req.headers : req.headers[i].key = "content-type"}
               first == CHOOSE i \in rows : \A j \in rows : i <= j
    <2>2. req.headers \in Seq(Rows)
      BY DEF Drafts
    <2>3. Row("content-type", t) \in Rows
      BY <2>1, RowType
    <2>4. Append(req.headers, Row("content-type", t)) \in Seq(Rows)
      BY <2>2, <2>3, Enqueued
    <2>5. [req.headers EXCEPT ![first] = Row("content-type", t)] \in Seq(Rows)
      <3>1. CASE first \in 1..Len(req.headers)
        BY <2>2, <2>3, <3>1, ExceptSeq
      <3>2. CASE first \notin 1..Len(req.headers)
        <4>1. [req.headers EXCEPT ![first] = Row("content-type", t)] = req.headers
          BY <2>2, <3>2, LenProperties
        <4>. QED  BY <2>2, <4>1
      <3>. QED  BY <3>1, <3>2
    <2>6. PICK h \in Seq(Rows) : r = [req EXCEPT !.bodyType = t, !.headers = h]
      BY <2>1, <2>4, <2>5 DEF SetBodyType
    <2>. QED  BY <2>1, <2>6 DEF Drafts
  <1>. QED  BY <1>1, <1>2, <1>3 DEF Edited

-----------------------------------------------------------------------------
(* The builder: its draft, the requests sent, the editor.                  *)

LEMMA SendAt ==
  ASSUME sends \in Seq(Sends), NEW s \in 1..Len(sends)
  PROVE  sends[s] \in Sends /\ sends[s].key \in Keys
  <1>1. sends[s] \in Sends
    BY ElementOfSeq
  <1>. QED  BY <1>1 DEF Sends

\* A request goes on, or is lost.
LEMMA MovedSend ==
  ASSUME sends \in Seq(Sends), NEW s \in DOMAIN sends, NEW ph \in Phases
  PROVE  LET m == [sends EXCEPT ![s].phase = ph]
         IN  /\ m \in Seq(Sends) /\ Len(m) = Len(sends)
             /\ \A t \in 1..Len(sends) :
                  m[t].key = sends[t].key /\ m[t].phase = IF t = s THEN ph ELSE sends[t].phase
  <1>1. s \in 1..Len(sends) /\ Len(sends) \in Nat /\ \A t \in 1..Len(sends) : sends[t] \in Sends
    BY ElementOfSeq, LenProperties
  <1> DEFINE e == [sends[s] EXCEPT !.phase = ph]
             m == [sends EXCEPT ![s] = e]
  <1>2. e \in Sends /\ e.key = sends[s].key /\ e.phase = ph
    BY <1>1 DEF Sends
  <1>3. m \in Seq(Sends) /\ Len(m) = Len(sends)
        /\ \A t \in 1..Len(sends) : m[t] = IF t = s THEN e ELSE sends[t]
    BY <1>1, <1>2, ExceptSeq
  <1>4. m = [sends EXCEPT ![s].phase = ph]
    OBVIOUS
  <1> HIDE DEF e, m
  <1>. QED  BY <1>2, <1>3, <1>4

LEMMA LostSends ==
  ASSUME sends \in Seq(Sends), NEW lost
  PROVE  LET m == [s \in DOMAIN sends |->
                     IF s \in lost THEN [sends[s] EXCEPT !.phase = "lost"] ELSE sends[s]]
         IN  /\ m \in Seq(Sends) /\ Len(m) = Len(sends)
             /\ \A t \in 1..Len(sends) :
                  m[t].key = sends[t].key
                  /\ m[t].phase = IF t \in lost THEN "lost" ELSE sends[t].phase
  <1> DEFINE e(s) == IF s \in lost THEN [sends[s] EXCEPT !.phase = "lost"] ELSE sends[s]
             m == [s \in DOMAIN sends |-> e(s)]
  <1>1. /\ Len(sends) \in Nat /\ DOMAIN sends = 1..Len(sends)
        /\ \A t \in 1..Len(sends) : sends[t] \in Sends
    BY ElementOfSeq, LenProperties
  <1>2. \A t \in 1..Len(sends) :
          e(t) \in Sends /\ e(t).key = sends[t].key
          /\ e(t).phase = IF t \in lost THEN "lost" ELSE sends[t].phase
    BY <1>1 DEF Sends, Phases
  <1>3. \A t \in 1..Len(sends) : m[t] = e(t)
    BY <1>1
  <1> HIDE DEF e
  <1>4. m \in [1..Len(sends) -> Sends]
    BY <1>1, <1>2
  <1>5. m \in Seq(Sends) /\ Len(m) = Len(sends)
    BY <1>1, <1>4, SeqDef, LenProperties
  <1>6. m = [s \in DOMAIN sends |->
               IF s \in lost THEN [sends[s] EXCEPT !.phase = "lost"] ELSE sends[s]]
    BY DEF e
  <1> HIDE DEF m
  <1>. QED  BY <1>2, <1>3, <1>5, <1>6

LEMMA EditorType ==
  /\ NoEditor \in Editors /\ ~NoEditor.shown
  /\ \A b \in Bodies : NewEditor(b) \in Editors /\ NewEditor(b).text = b
  /\ "" \in Bodies
  BY WorkbenchAssumption DEF WorkbenchAssumption, NoEditor, NewEditor, Editors

LEMMA RenderedType ==
  ASSUME NEW ed \in Editors, NEW b \in Bodies, NEW changed
  PROVE  Rendered(ed, b, changed) \in Editors /\ Rendered(ed, b, changed).text = b
  BY DEF Rendered, Editors

\* A render leaves the editor alone or gives it the body of the draft.
LEMMA RenderShowsDraft ==
  ASSUME draft' \in Drafts, editor \in Editors, RenderBuilder, EditorShowsDraft
  PROVE  editor' \in Editors /\ EditorShowsDraft'
  <1>1. draft'.body \in Bodies
    BY DEF Drafts
  <1>2. CASE ~EditorShown'
    BY <1>2, EditorType DEF RenderBuilder, EditorShowsDraft
  <1>3. CASE EditorShown' /\ ~editor.shown
    BY <1>1, <1>3, EditorType DEF RenderBuilder, EditorShowsDraft
  <1>4. CASE EditorShown' /\ editor.shown /\ <<draft, isCalculating>>' # <<draft, isCalculating>>
    BY <1>1, <1>4, RenderedType DEF RenderBuilder, EditorShowsDraft
  <1>5. CASE EditorShown' /\ editor.shown /\ <<draft, isCalculating>>' = <<draft, isCalculating>>
    <2>1. editor' = editor /\ draft' = draft
      BY <1>5 DEF RenderBuilder
    <2>. QED  BY <2>1 DEF EditorShowsDraft
  <1>. QED  BY <1>2, <1>3, <1>4, <1>5

\* What a step does to the builder: it keeps the keys of the requests sent, or
\* sends one more.
KeysKept ==
  Len(sends') = Len(sends) /\ \A s \in 1..Len(sends) : sends'[s].key = sends[s].key

LEMMA StillDiffer ==
  ASSUME WorkType, KeysDiffer, KeysKept, draft'.timestamp \in Nat, now' \in Nat,
         draft.timestamp <= draft'.timestamp, draft'.timestamp <= now'
  PROVE  KeysDiffer'
  <1>1. Len(sends) \in Nat /\ draft.timestamp \in Nat
    BY LenProperties DEF WorkType, Drafts
  <1>0. sends \in Seq(Sends)
    BY DEF WorkType
  <1>2. \A s \in 1..Len(sends) : sends[s] \in Sends
    BY <1>0, ElementOfSeq
  <1>3. \A s \in 1..Len(sends) : sends[s].key.timestamp \in Nat
    BY <1>2 DEF Sends, Keys
  <1>. QED  BY <1>1, <1>3 DEF KeysDiffer, KeysKept, KeyOfSend

LEMMA Untouched ==
  ASSUME WorkType, KeysDiffer, EditorShowsDraft, UNCHANGED <<workVars, editor>>
  PROVE  WorkType' /\ KeysDiffer' /\ EditorShowsDraft'
  BY DEF workVars, WorkType, KeysDiffer, KeyOfSend, EditorShowsDraft

\* The draft is replaced and the builder rendered.
LEMMA Redrafted ==
  ASSUME WorkType, KeysDiffer, EditorShowsDraft, draft' \in Drafts, now' \in Nat \ {0},
         draft.timestamp <= draft'.timestamp, draft'.timestamp <= now',
         isCalculating' \in BOOLEAN, sends' = sends, RenderBuilder
  PROVE  WorkType' /\ KeysDiffer' /\ EditorShowsDraft'
  <1>1. editor' \in Editors /\ EditorShowsDraft'
    BY RenderShowsDraft DEF WorkType
  <1>2. KeysKept /\ draft'.timestamp \in Nat
    BY DEF KeysKept, Drafts
  <1>3. KeysDiffer'
    BY <1>2, StillDiffer
  <1>. QED  BY <1>1, <1>3 DEF WorkType

LEMMA WorkEdit ==
  ASSUME WorkType, KeysDiffer, EditorShowsDraft, EditDraft
  PROVE  WorkType' /\ KeysDiffer' /\ EditorShowsDraft'
  <1>1. draft \in Drafts /\ draft.headers \in Seq(Rows) /\ draft.entries \in Seq(Rows)
    BY DEF WorkType, Drafts
  <1>2. draft' \in Drafts /\ draft'.timestamp = draft.timestamp
    <2>1. CASE draft' \in Edited(draft)
      BY <1>1, <2>1, EditedType
    <2>2. CASE \E rows \in EditedRows(draft.headers) : draft' = [draft EXCEPT !.headers = rows]
      <3>1. PICK rows \in Seq(Rows) : draft' = [draft EXCEPT !.headers = rows]
        BY <1>1, <2>2, EditedRowsType
      <3>. QED  BY <1>1, <3>1 DEF Drafts
    <2>3. CASE \E rows \in EditedRows(draft.entries) : draft' = [draft EXCEPT !.entries = rows]
      <3>1. PICK rows \in Seq(Rows) : draft' = [draft EXCEPT !.entries = rows]
        BY <1>1, <2>3, EditedRowsType
      <3>. QED  BY <1>1, <3>1 DEF Drafts
    <2>. QED  BY <2>1, <2>2, <2>3 DEF EditDraft
  <1>3. UNCHANGED <<now, isCalculating, sends>> /\ RenderBuilder
    BY DEF EditDraft
  <1>4. draft.timestamp \in Nat /\ draft.timestamp <= now /\ now \in Nat \ {0} /\ isCalculating \in BOOLEAN
    BY <1>1 DEF Drafts, KeysDiffer, WorkType
  <1>. QED  BY <1>2, <1>3, <1>4, Redrafted

LEMMA WorkCopy ==
  ASSUME WorkType, KeysDiffer, EditorShowsDraft, NEW b \in Bodies, CopyToHttpReq(b)
  PROVE  WorkType' /\ KeysDiffer' /\ EditorShowsDraft'
  <1>1. now \in Nat \ {0} /\ draft.timestamp \in Nat /\ draft.timestamp <= now
        /\ isCalculating \in BOOLEAN
    BY DEF WorkType, KeysDiffer, Drafts
  <1>2. now' = now + 1 /\ UNCHANGED <<isCalculating, sends>> /\ RenderBuilder
    BY DEF CopyToHttpReq
  <1>3. draft' \in Drafts /\ draft'.timestamp = now'
    BY <1>1, <1>2, ResetType DEF CopyToHttpReq
  <1>. QED  BY <1>1, <1>2, <1>3, Redrafted

LEMMA WorkEditor ==
  ASSUME WorkType, KeysDiffer, EditorShowsDraft,
         DebouncedChange \/ LeaveEditor \/ RefreshConfigs \/ \E b \in Bodies : TypeBody(b)
  PROVE  WorkType' /\ KeysDiffer' /\ EditorShowsDraft'
  <1>1. editor \in Editors /\ draft \in Drafts /\ draft.body \in Bodies
    BY DEF WorkType, Drafts
  <1>2. CASE DebouncedChange
    BY <1>1, <1>2 DEF DebouncedChange, EmitChange, workVars, Editors, WorkType, KeysDiffer,
                      KeyOfSend, EditorShowsDraft
  <1>3. CASE RefreshConfigs
    <2>1. editor' \in Editors /\ editor'.text = draft.body /\ UNCHANGED workVars
      BY <1>1, <1>3, RenderedType DEF RefreshConfigs
    <2>. QED  BY <2>1 DEF workVars, WorkType, KeysDiffer, KeyOfSend, EditorShowsDraft
  <1>4. CASE \E b \in Bodies : TypeBody(b)
    <2>1. editor' \in Editors /\ editor'.typing /\ UNCHANGED workVars
      BY <1>1, <1>4 DEF TypeBody, TypeText, Editors
    <2>. QED  BY <2>1 DEF workVars, WorkType, KeysDiffer, KeyOfSend, EditorShowsDraft
  <1>5. CASE LeaveEditor
    <2>1. draft' \in Drafts /\ draft'.timestamp = draft.timestamp /\ draft'.body \in Bodies
      BY <1>1, <1>5, WorkbenchAssumption
      DEF LeaveEditor, SetBody, Drafts, Editors, WorkbenchAssumption
    <2>2. Left \in Editors
      BY <1>1 DEF Left, Editors
    <2>3. editor' \in Editors /\ editor'.text = draft'.body
      BY <1>5, <2>1, <2>2, RenderedType DEF LeaveEditor
    <2>4. UNCHANGED <<now, isCalculating, sends>>
      BY <1>5 DEF LeaveEditor
    <2>. QED  BY <2>1, <2>3, <2>4 DEF WorkType, KeysDiffer, KeyOfSend, EditorShowsDraft
  <1>. QED  BY <1>2, <1>3, <1>4, <1>5

LEMMA WorkSend ==
  ASSUME WorkType, KeysDiffer, EditorShowsDraft, SendRequest
  PROVE  WorkType' /\ KeysDiffer' /\ EditorShowsDraft'
  <1> DEFINE new == [key |-> RequestHash(draft), phase |-> "hashing"]
  <1>1. /\ draft \in Drafts /\ sends \in Seq(Sends) /\ now \in Nat \ {0} /\ editor \in Editors
        /\ draft.timestamp \in Nat /\ draft.timestamp <= now
    BY DEF WorkType, Drafts, KeysDiffer
  <1>2. new \in Sends /\ new.key.timestamp = draft.timestamp
    BY <1>1, HashType DEF Sends, Phases
  <1>3. isCalculating' = TRUE /\ now' = now + 1 /\ sends' = Append(sends, new)
        /\ draft' = [draft EXCEPT !.timestamp = now'] /\ RenderBuilder
    BY DEF SendRequest
  <1>4. draft' \in Drafts /\ draft'.timestamp = now + 1
    <2>1. draft' = [draft EXCEPT !.timestamp = now + 1] /\ now + 1 \in Nat
      BY <1>1, <1>3
    <2>. QED  BY <1>1, <2>1 DEF Drafts
  <1>5. editor' \in Editors /\ EditorShowsDraft'
    BY <1>1, <1>3, <1>4, RenderShowsDraft
  <1>6. /\ sends' \in Seq(Sends) /\ Len(sends') = Len(sends) + 1 /\ Len(sends) \in Nat
        /\ \A i \in 1..Len(sends) : sends'[i] = sends[i] /\ sends[i] \in Sends
        /\ sends'[Len(sends')] = new
        /\ \A i \in 1..Len(sends') : i # Len(sends') => i \in 1..Len(sends)
    BY <1>1, <1>2, <1>3, Enqueued
  <1> HIDE DEF new
  <1>7. \A s \in 1..Len(sends) : sends[s].key.timestamp < draft.timestamp
                                 /\ sends[s].key.timestamp \in Nat
    BY <1>6 DEF KeysDiffer, KeyOfSend, Sends, Keys
  <1>8. \A s \in 1..Len(sends') : sends'[s].key.timestamp < now + 1
    BY <1>1, <1>2, <1>6, <1>7
  <1>9. \A s, t \in 1..Len(sends') : sends'[s].key = sends'[t].key => s = t
    <2>1. \A s \in 1..Len(sends) : sends'[s].key # new.key /\ sends'[s].key = sends[s].key
      BY <1>1, <1>2, <1>6, <1>7
    <2>2. \A s, t \in 1..Len(sends) : sends[s].key = sends[t].key => s = t
      BY DEF KeysDiffer, KeyOfSend
    <2>. QED  BY <1>6, <2>1, <2>2
  <1>. QED  BY <1>1, <1>3, <1>4, <1>5, <1>6, <1>8, <1>9 DEF WorkType, KeysDiffer, KeyOfSend

LEMMA WorkPost ==
  ASSUME WorkType, KeysDiffer, EditorShowsDraft, NEW s \in DOMAIN sends, PostRequest(s)
  PROVE  WorkType' /\ KeysDiffer' /\ EditorShowsDraft'
  <1>1. /\ draft \in Drafts /\ sends \in Seq(Sends) /\ now \in Nat \ {0} /\ editor \in Editors
        /\ draft.timestamp \in Nat /\ draft.timestamp <= now
    BY DEF WorkType, Drafts, KeysDiffer
  <1>2. /\ now' = now + 1 /\ draft' = draft /\ RenderBuilder
        /\ sends' = [sends EXCEPT ![s].phase = "posted"]
        /\ isCalculating' = (isCalculating /\ BuilderShown')
    BY DEF PostRequest
  <1>3. sends' \in Seq(Sends) /\ KeysKept
    <2>1. "posted" \in Phases
      BY DEF Phases
    <2>. QED  BY <1>1, <1>2, <2>1, MovedSend DEF KeysKept
  <1>4. now' \in Nat \ {0} /\ draft'.timestamp <= now' /\ isCalculating' \in BOOLEAN
    BY <1>1, <1>2
  <1>5. KeysDiffer'
    BY <1>1, <1>2, <1>3, <1>4, StillDiffer
  <1>6. editor' \in Editors /\ EditorShowsDraft'
    BY <1>1, <1>2, RenderShowsDraft
  <1>. QED  BY <1>1, <1>2, <1>3, <1>4, <1>5, <1>6 DEF WorkType

LEMMA WorkAnswer ==
  ASSUME WorkType, KeysDiffer, EditorShowsDraft, NEW s \in DOMAIN sends,
         ReceiveResponse(s) \/ ReceiveError(s)
  PROVE  WorkType' /\ KeysDiffer' /\ EditorShowsDraft'
  <1>1. sends \in Seq(Sends) /\ draft.timestamp \in Nat /\ draft.timestamp <= now /\ now \in Nat
    BY DEF WorkType, Drafts, KeysDiffer
  <1>2. PICK ph \in Phases : sends' = [sends EXCEPT ![s].phase = ph]
    BY DEF ReceiveResponse, ReceiveError, Phases
  <1>3. sends' \in Seq(Sends) /\ KeysKept
    BY <1>1, <1>2, MovedSend DEF KeysKept
  <1>4. UNCHANGED <<draft, now, isCalculating, editor>>
    BY DEF ReceiveResponse, ReceiveError
  <1>5. KeysDiffer'
    BY <1>1, <1>3, <1>4, StillDiffer
  <1>. QED  BY <1>3, <1>4, <1>5 DEF WorkType, EditorShowsDraft

LEMMA WorkPanel ==
  ASSUME WorkType, KeysDiffer, EditorShowsDraft,
         OpenOrClosePanel \/ \E id \in TabIds(tabs) : CloseTab(id) \/ SwitchTab(id)
  PROVE  WorkType' /\ KeysDiffer' /\ EditorShowsDraft'
  <1>1. /\ draft \in Drafts /\ now \in Nat \ {0} /\ isCalculating \in BOOLEAN
        /\ draft.timestamp \in Nat /\ draft.timestamp <= now
    BY DEF WorkType, Drafts, KeysDiffer
  <1>2. UNCHANGED <<draft, now, sends>> /\ RenderBuilder /\ Mount
    BY DEF OpenOrClosePanel, CloseTab, SwitchTab
  <1>3. isCalculating' \in BOOLEAN
    BY <1>2 DEF Mount
  <1>. QED  BY <1>1, <1>2, <1>3, Redrafted

LEMMA WorkReload ==
  ASSUME WorkType, KeysDiffer, EditorShowsDraft, Reload
  PROVE  WorkType' /\ KeysDiffer' /\ EditorShowsDraft'
  <1>1. sends \in Seq(Sends) /\ draft.timestamp \in Nat /\ draft.timestamp <= now
        /\ now \in Nat \ {0}
    BY DEF WorkType, Drafts, KeysDiffer
  <1> DEFINE lost == {s \in DOMAIN sends : UnderWay(s) \/ Unsaved(KeyOfSend(s))}
  <1>2. sends' = [s \in DOMAIN sends |->
                    IF s \in lost THEN [sends[s] EXCEPT !.phase = "lost"] ELSE sends[s]]
    BY DEF Reload
  <1> HIDE DEF lost
  <1>3. sends' \in Seq(Sends) /\ KeysKept
    BY <1>1, <1>2, LostSends DEF KeysKept
  <1>4. /\ now' = now + 1 /\ draft' = DefaultRequest(now') /\ isCalculating' = FALSE
        /\ editor' = IF EditorShown' THEN NewEditor("") ELSE NoEditor
    BY DEF Reload
  <1>5. now' \in Nat \ {0} /\ draft.timestamp <= now'
    <2>1. now' = now + 1
      BY <1>4
    <2>. QED  BY <1>1, <2>1
  <1>8. draft' \in Drafts /\ draft'.timestamp = now'
    BY <1>4, <1>5, DefaultType
  <1>10. draft'.body = ""
    BY <1>4 DEF DefaultRequest
  <1>9. draft'.timestamp <= now'
    BY <1>5, <1>8
  <1>6. editor' \in Editors /\ EditorShowsDraft'
    BY <1>4, <1>10, EditorType DEF EditorShowsDraft
  <1>7. KeysDiffer'
    BY <1>1, <1>3, <1>5, <1>8, <1>9, StillDiffer
  <1>. QED  BY <1>3, <1>4, <1>5, <1>6, <1>7, <1>8 DEF WorkType

LEMMA WorkInit == Init => WorkType /\ KeysDiffer /\ EditorShowsDraft
  <1> SUFFICES ASSUME Init
               PROVE  WorkType /\ KeysDiffer /\ EditorShowsDraft
    OBVIOUS
  <1>1. /\ now = 1 /\ draft = DefaultRequest(1) /\ isCalculating = FALSE /\ sends = <<>>
        /\ editor = NewEditor("")
    BY DEF Init
  <1>2. draft \in Drafts /\ draft.timestamp = 1
    BY <1>1, DefaultType
  <1>3. editor \in Editors /\ EditorShowsDraft
    BY <1>1, EditorType DEF EditorShowsDraft, DefaultRequest
  <1>4. sends \in Seq(Sends) /\ Len(sends) = 0
    BY <1>1, EmptySeq
  <1>7. now = 1
    BY <1>1
  <1>8. isCalculating \in BOOLEAN
    BY <1>1
  <1>9. now \in Nat \ {0}
    BY <1>7
  <1>5. WorkType
    BY <1>2, <1>3, <1>4, <1>8, <1>9 DEF WorkType
  <1>6. KeysDiffer
    BY <1>2, <1>4, <1>7 DEF KeysDiffer
  <1>. QED  BY <1>3, <1>5, <1>6

LEMMA WorkStep ==
  ASSUME WorkType, KeysDiffer, EditorShowsDraft, [Next]_vars
  PROVE  WorkType' /\ KeysDiffer' /\ EditorShowsDraft'
  <1>1. CASE EditDraft
    BY <1>1, WorkEdit
  <1>2. CASE DebouncedChange \/ LeaveEditor \/ RefreshConfigs \/ \E b \in Bodies : TypeBody(b)
    BY <1>2, WorkEditor
  <1>3. CASE \E b \in Bodies : CopyToHttpReq(b)
    BY <1>3, WorkCopy
  <1>4. CASE SendRequest
    BY <1>4, WorkSend
  <1>5. CASE \E s \in DOMAIN sends : PostRequest(s) \/ ReceiveResponse(s) \/ ReceiveError(s)
    BY <1>5, WorkPost, WorkAnswer
  <1>6. CASE OpenOrClosePanel \/ \E id \in TabIds(tabs) : CloseTab(id) \/ SwitchTab(id)
    BY <1>6, WorkPanel
  <1>7. CASE StoreStep
    BY <1>7, Untouched DEF StoreStep
  <1>8. CASE Reload
    BY <1>8, WorkReload
  <1>9. CASE UNCHANGED vars
    BY <1>9, Untouched DEF vars
  <1>. QED  BY <1>1, <1>2, <1>3, <1>4, <1>5, <1>6, <1>7, <1>8, <1>9 DEF Next

-----------------------------------------------------------------------------
(* The panel.                                                              *)

LEMMA BuilderType == Builder \in Tabs /\ Builder.id = 0
  BY DEF Builder, BuilderId, Tabs

\* What is stored are the last tabs but the builder, and not more of them than
\* there may be.
LEMMA StorableType ==
  ASSUME NEW ts \in Seq(Tabs), ts # <<>>
  PROVE  /\ Storable(ts) \in Seq(Tabs)
         /\ Len(Storable(ts)) \in Nat /\ Len(Storable(ts)) <= MaxStoredTabs
         /\ \E k \in Nat \ {0} : \A i \in 1..Len(Storable(ts)) :
              i + k \in 1..Len(ts) /\ Storable(ts)[i] = ts[i + k]
  <1> DEFINE c == Tail(ts)
             n == Len(c)
             m == IF n > MaxStoredTabs THEN n - MaxStoredTabs + 1 ELSE 1
             st == SubSeq(c, m, n)
  <1>1. /\ c \in Seq(Tabs) /\ Len(c) = Len(ts) - 1 /\ Len(ts) \in Nat \ {0}
        /\ \A i \in 1..Len(c) : c[i] = ts[i + 1]
    BY Dequeued
  <1>2. \A i \in 1..Len(c) : c[i] \in Tabs
    BY <1>1, ElementOfSeq
  <1>3. MaxStoredTabs \in Nat
    BY WorkbenchAssumption DEF WorkbenchAssumption
  <1>5. st = Storable(ts)
    BY DEF Storable
  <1>9. n = Len(ts) - 1 /\ n = Len(c)
    BY <1>1
  <1> HIDE DEF c, n
  <1>0. n \in Nat
    BY <1>1, <1>9
  <1>4. m \in Nat \ {0} /\ m <= n + 1 /\ n - m + 1 <= MaxStoredTabs
    BY <1>0, <1>3
  <1>6. \A i \in m..n : c[i] \in Tabs
    BY <1>0, <1>2, <1>4, <1>9
  <1> HIDE DEF m
  <1>7. /\ st \in Seq(Tabs) /\ Len(st) = IF m <= n THEN n - m + 1 ELSE 0
        /\ \A i \in 1..n-m+1 : st[i] = c[m + i - 1]
    BY <1>0, <1>4, <1>6, SubSeqProperties
  <1> HIDE DEF st
  <1>8. Len(st) = n - m + 1 /\ n - m + 1 \in Nat
    BY <1>0, <1>4, <1>7
  <1>10. \A i \in 1..Len(st) : i + m \in 1..Len(ts) /\ st[i] = ts[i + m]
    <2> SUFFICES ASSUME NEW i \in 1..Len(st)
                 PROVE  i + m \in 1..Len(ts) /\ st[i] = ts[i + m]
      OBVIOUS
    <2>1. m + i - 1 \in 1..Len(c) /\ (m + i - 1) + 1 = i + m
      BY <1>0, <1>4, <1>8, <1>9
    <2>2. st[i] = c[m + i - 1]
      BY <1>7, <1>8
    <2>3. c[m + i - 1] = ts[i + m]
      BY <1>1, <2>1
    <2>4. i + m \in 1..Len(ts)
      BY <1>1, <1>4, <2>1
    <2>. QED  BY <2>2, <2>3, <2>4
  <1>. QED  BY <1>3, <1>4, <1>5, <1>7, <1>8, <1>10

\* What a reload restores would be stored as it is.
LEMMA StorableAgain ==
  ASSUME NEW st \in Seq(Tabs), Len(st) <= MaxStoredTabs
  PROVE  LET ts == <<Builder>> \o st
         IN  /\ ts \in Seq(Tabs) /\ ts # <<>> /\ Len(ts) = Len(st) + 1 /\ Len(st) \in Nat
             /\ 1 \in 1..Len(ts) /\ ts[1] = Builder
             /\ \A i \in 1..Len(ts) : i # 1 => i - 1 \in 1..Len(st) /\ ts[i] = st[i - 1]
             /\ Storable(ts) = st
  <1> DEFINE ts == <<Builder>> \o st
  <1>1. <<Builder>> \in Seq(Tabs) /\ Len(<<Builder>>) = 1 /\ <<Builder>>[1] = Builder
    BY BuilderType, Singleton
  <1>2. Len(st) \in Nat /\ MaxStoredTabs \in Nat
    BY LenProperties, WorkbenchAssumption DEF WorkbenchAssumption
  <1>3. /\ ts \in Seq(Tabs) /\ Len(ts) = 1 + Len(st)
        /\ \A i \in 1..1 + Len(st) : ts[i] = IF i <= 1 THEN <<Builder>>[i] ELSE st[i - 1]
    BY <1>1, ConcatProperties
  <1> HIDE DEF ts
  <1>4. Len(ts) = Len(st) + 1 /\ 1 \in 1..Len(ts) /\ ts[1] = Builder
    BY <1>1, <1>2, <1>3
  <1>5. \A i \in 1..Len(ts) : i # 1 => i - 1 \in 1..Len(st) /\ ts[i] = st[i - 1]
    BY <1>2, <1>3
  <1>6. ts # <<>>
    BY <1>4, <1>2, EmptySeq
  <1>7. Tail(ts) = st
    <2>1. /\ Tail(ts) \in Seq(Tabs) /\ Len(Tail(ts)) = Len(ts) - 1
          /\ \A i \in 1..Len(Tail(ts)) : Tail(ts)[i] = ts[i + 1] /\ i + 1 \in 1..Len(ts)
      BY <1>3, <1>6, Dequeued
    <2>2. Len(Tail(ts)) = Len(st)
      BY <1>2, <1>4, <2>1
    <2>3. \A i \in 1..Len(Tail(ts)) : Tail(ts)[i] = st[i]
      <3> SUFFICES ASSUME NEW i \in 1..Len(Tail(ts))
                   PROVE  Tail(ts)[i] = st[i]
        OBVIOUS
      <3>1. i + 1 \in 1..Len(ts) /\ i + 1 # 1 /\ (i + 1) - 1 = i /\ Tail(ts)[i] = ts[i + 1]
        BY <2>1
      <3>. QED  BY <1>5, <3>1
    <2>. QED  BY <2>1, <2>2, <2>3, SeqEqual
  <1>8. Storable(ts) = SubSeq(st, 1, Len(st))
    <2>1. ~(Len(st) > MaxStoredTabs)
      BY <1>2
    <2>2. Storable(ts) =
            SubSeq(st, IF Len(st) > MaxStoredTabs THEN Len(st) - MaxStoredTabs + 1 ELSE 1, Len(st))
      BY <1>7 DEF Storable
    <2>. QED  BY <2>1, <2>2
  <1>9. Storable(ts) = st
    BY <1>8, SubSeqFull
  <1>. QED  BY <1>2, <1>3, <1>4, <1>5, <1>6, <1>9 DEF ts

\* A tab is at its place.
LEMMA Place ==
  ASSUME tabs \in Seq(Tabs), NEW id \in TabIds(tabs)
  PROVE  PlaceOf(id) \in 1..Len(tabs) /\ tabs[PlaceOf(id)].id = id
  <1>1. DOMAIN tabs = 1..Len(tabs)
    BY LenProperties
  <1>. QED  BY <1>1 DEF PlaceOf, TabIds

LEMMA TabIdsOf ==
  ASSUME NEW ts \in Seq(Tabs)
  PROVE  /\ \A id \in TabIds(ts) : \E i \in 1..Len(ts) : ts[i].id = id
         /\ \A i \in 1..Len(ts) : ts[i].id \in TabIds(ts) /\ ts[i] \in Tabs /\ ts[i].id \in Nat
  <1>1. DOMAIN ts = 1..Len(ts)
    BY LenProperties
  <1>2. \A i \in 1..Len(ts) : ts[i] \in Tabs
    BY ElementOfSeq
  <1>. QED  BY <1>1, <1>2 DEF TabIds, Tabs

\* What the steps of the workbench do to the panel.
LEMMA PanelPart ==
  ASSUME WorkType, [Next]_vars
  PROVE  \/ now' = now + 1 /\ \E k \in Keys : AddTab([id |-> now, key |-> k])
         \/ now' = now /\ \E id \in TabIds(tabs) : RemoveTab(id) \/ ActivateTab(id)
         \/ now' = now /\ TogglePanel
         \/ now' = now + 1 /\ LoadTabs
         \/ now' \in Nat /\ now' >= now /\ UNCHANGED panelVars
  <1>1. now \in Nat
    BY DEF WorkType
  <1>2. CASE \E s \in DOMAIN sends : PostRequest(s)
    <2>1. PICK s \in DOMAIN sends : PostRequest(s)
      BY <1>2
    <2>2. s \in 1..Len(sends) /\ sends \in Seq(Sends)
      BY LenProperties DEF WorkType
    <2>3. sends[s] \in Sends
      BY <2>2, ElementOfSeq
    <2>4. KeyOfSend(s) \in Keys
      BY <2>3 DEF KeyOfSend, Sends
    <2>. QED  BY <2>1, <2>4 DEF PostRequest
  <1>3. CASE \E id \in TabIds(tabs) : CloseTab(id) \/ SwitchTab(id)
    BY <1>3 DEF CloseTab, SwitchTab
  <1>4. CASE OpenOrClosePanel
    BY <1>4 DEF OpenOrClosePanel
  <1>5. CASE Reload
    BY <1>5 DEF Reload
  <1>6. CASE EditDraft \/ SendRequest \/ \E b \in Bodies : CopyToHttpReq(b)
    <2>1. now' \in {now, now + 1} /\ UNCHANGED panelVars
      BY <1>6 DEF EditDraft, SendRequest, CopyToHttpReq
    <2>. QED  BY <1>1, <2>1
  <1>7. CASE \/ DebouncedChange \/ LeaveEditor \/ RefreshConfigs \/ StoreStep \/ UNCHANGED vars
             \/ \E b \in Bodies : TypeBody(b)
             \/ \E s \in DOMAIN sends : ReceiveResponse(s) \/ ReceiveError(s)
    <2>1. now' = now /\ UNCHANGED panelVars
      BY <1>7 DEF DebouncedChange, LeaveEditor, RefreshConfigs, StoreStep, vars, workVars,
                  TypeBody, ReceiveResponse, ReceiveError
    <2>. QED  BY <1>1, <2>1
  <1>. QED  BY <1>2, <1>3, <1>4, <1>5, <1>6, <1>7 DEF Next

\* A response gets a tab, whose id no tab has.
LEMMA PanelsAdd ==
  ASSUME PanelType, PanelsInv, now \in Nat \ {0}, now' = now + 1,
         NEW k \in Keys, AddTab([id |-> now, key |-> k])
  PROVE  PanelType' /\ PanelsInv'
  <1> DEFINE tab == [id |-> now, key |-> k]
  <1>1. tab \in Tabs /\ tab.id = now
    BY DEF Tabs
  <1>2. tabs' = Append(tabs, tab) /\ activeTab' = tab.id /\ open' = open
        /\ stored' = Storable(Append(tabs, tab))
    BY DEF AddTab
  <1> HIDE DEF tab
  <1>3. tabs \in Seq(Tabs) /\ tabs # <<>> /\ tabs[1] = Builder
    BY DEF PanelType, PanelsInv, TabsDiffer
  <1>4. Len(tabs) \in Nat \ {0}
    BY <1>3, EmptySeq
  <1>5. /\ tabs' \in Seq(Tabs) /\ Len(tabs') = Len(tabs) + 1
        /\ \A i \in 1..Len(tabs) : i \in 1..Len(tabs') /\ tabs'[i] = tabs[i]
        /\ Len(tabs') \in 1..Len(tabs') /\ tabs'[Len(tabs')] = tab
        /\ \A i \in 1..Len(tabs') : i # Len(tabs') => i \in 1..Len(tabs)
    BY <1>1, <1>2, <1>3, Enqueued
  <1>6. \A i \in 1..Len(tabs) : tabs[i].id < now /\ tabs[i].id \in Nat
    BY <1>3, TabIdsOf DEF PanelsInv, TabsDiffer
  <1>7. \A i, j \in 1..Len(tabs') : tabs'[i].id = tabs'[j].id => i = j
    <2>1. \A i \in 1..Len(tabs) : tabs'[i].id # tab.id /\ tabs'[i].id = tabs[i].id
      BY <1>1, <1>5, <1>6
    <2>. QED  BY <1>5, <2>1 DEF PanelsInv, TabsDiffer
  <1>8. \A i \in 1..Len(tabs') : tabs'[i].id < now'
    BY <1>1, <1>5, <1>6
  <1>9. tabs' # <<>> /\ tabs'[1] = Builder
    BY <1>3, <1>4, <1>5, EmptySeq
  <1>10. activeTab' \in TabIds(tabs') /\ activeTab' \in Nat
    BY <1>1, <1>2, <1>5, TabIdsOf
  <1>11. stored' \in Seq(Tabs) /\ stored' = Storable(tabs')
    BY <1>2, <1>5, <1>9, StorableType
  <1>. QED  BY <1>2, <1>5, <1>7, <1>8, <1>9, <1>10, <1>11 DEF PanelType, PanelsInv, TabsDiffer

\* A tab but the builder is closed.
LEMMA PanelsRemove ==
  ASSUME PanelType, PanelsInv, now \in Nat \ {0}, now' = now,
         NEW id \in TabIds(tabs), RemoveTab(id)
  PROVE  PanelType' /\ PanelsInv'
  <1> DEFINE p == PlaceOf(id)
  <1>1. tabs \in Seq(Tabs) /\ tabs # <<>> /\ tabs[1] = Builder
    BY DEF PanelType, PanelsInv, TabsDiffer
  <1>2. p \in 1..Len(tabs) /\ tabs[p].id = id
    BY <1>1, Place
  <1>3. /\ tabs' = RemoveAt(tabs, p) /\ stored' = Storable(tabs') /\ open' = open
        /\ activeTab' = IF activeTab = id THEN Head(tabs').id ELSE activeTab
        /\ id # BuilderId
    BY DEF RemoveTab
  <1> HIDE DEF p
  <1>4. p # 1
    BY <1>1, <1>2, <1>3 DEF Builder
  <1>5. /\ tabs' \in Seq(Tabs) /\ Len(tabs') = Len(tabs) - 1 /\ Len(tabs) \in Nat \ {0}
        /\ \A i \in 1..Len(tabs') : i < p => i \in 1..Len(tabs) /\ tabs'[i] = tabs[i]
        /\ \A i \in 1..Len(tabs') : ~(i < p) => i + 1 \in 1..Len(tabs) /\ tabs'[i] = tabs[i + 1]
        /\ \A i \in 1..Len(tabs) : i < p => i \in 1..Len(tabs') /\ tabs'[i] = tabs[i]
        /\ \A i \in 1..Len(tabs) : i > p => i - 1 \in 1..Len(tabs') /\ tabs'[i - 1] = tabs[i]
    BY <1>1, <1>2, <1>3, Removed
  <1>6. 1 \in 1..Len(tabs') /\ tabs'[1] = Builder /\ Len(tabs') \in Nat
    BY <1>1, <1>2, <1>4, <1>5
  <1>7. tabs' # <<>>
    BY <1>6, EmptySeq
  <1>8. \A i \in 1..Len(tabs') : \E j \in 1..Len(tabs) :
          tabs'[i] = tabs[j] /\ j = IF i < p THEN i ELSE i + 1
    BY <1>5
  <1>9. \A i \in 1..Len(tabs') : tabs'[i].id < now'
    BY <1>8 DEF PanelsInv, TabsDiffer
  <1>10. \A i, j \in 1..Len(tabs') : tabs'[i].id = tabs'[j].id => i = j
    <2> SUFFICES ASSUME NEW i \in 1..Len(tabs'), NEW j \in 1..Len(tabs'),
                        tabs'[i].id = tabs'[j].id
                 PROVE  i = j
      OBVIOUS
    <2>1. PICK k \in 1..Len(tabs) : tabs'[i] = tabs[k] /\ k = IF i < p THEN i ELSE i + 1
      BY <1>8
    <2>2. PICK l \in 1..Len(tabs) : tabs'[j] = tabs[l] /\ l = IF j < p THEN j ELSE j + 1
      BY <1>8
    <2>3. k = l
      BY <2>1, <2>2 DEF PanelsInv, TabsDiffer
    <2>4. i \in Int /\ j \in Int /\ p \in Int
      BY <1>2
    <2>. QED  BY <2>1, <2>2, <2>3, <2>4
  <1>11. activeTab' \in TabIds(tabs')
    <2>1. CASE activeTab = id
      <3>1. Head(tabs') = tabs'[1]
        BY <1>5, <1>7, Dequeued
      <3>. QED  BY <1>3, <1>5, <1>6, <2>1, <3>1, TabIdsOf
    <2>2. CASE activeTab # id
      <3>1. PICK i \in 1..Len(tabs) : tabs[i].id = activeTab
        BY <1>1, TabIdsOf DEF PanelsInv
      <3>2. i # p
        BY <1>2, <2>2, <3>1
      <3>3. \E j \in 1..Len(tabs') : tabs'[j] = tabs[i]
        BY <1>2, <1>5, <3>2
      <3>. QED  BY <1>3, <1>5, <2>2, <3>1, <3>3, TabIdsOf
    <2>. QED  BY <2>1, <2>2
  <1>12. activeTab' \in Nat
    BY <1>5, <1>11, TabIdsOf
  <1>13. stored' \in Seq(Tabs)
    BY <1>3, <1>5, <1>7, StorableType
  <1>. QED  BY <1>3, <1>5, <1>6, <1>7, <1>9, <1>10, <1>11, <1>12, <1>13
            DEF PanelType, PanelsInv, TabsDiffer

\* A reload brings the builder and the stored tabs, which the panel had.
LEMMA PanelsLoad ==
  ASSUME PanelType, PanelsInv, now \in Nat \ {0}, now' = now + 1, LoadTabs
  PROVE  PanelType' /\ PanelsInv'
  <1>1. tabs \in Seq(Tabs) /\ tabs # <<>> /\ tabs[1] = Builder /\ stored = Storable(tabs)
    BY DEF PanelType, PanelsInv, TabsDiffer
  <1>2. /\ tabs' = <<Builder>> \o stored /\ activeTab' = Last(tabs').id
        /\ stored' = stored /\ open' = open
    BY DEF LoadTabs
  <1>3. /\ stored \in Seq(Tabs) /\ Len(stored) \in Nat /\ Len(stored) <= MaxStoredTabs
        /\ \E k \in Nat \ {0} : \A i \in 1..Len(stored) :
             i + k \in 1..Len(tabs) /\ stored[i] = tabs[i + k]
    BY <1>1, StorableType
  <1>4. PICK k \in Nat \ {0} : \A i \in 1..Len(stored) :
               i + k \in 1..Len(tabs) /\ stored[i] = tabs[i + k]
    BY <1>3
  <1>5. /\ tabs' \in Seq(Tabs) /\ tabs' # <<>> /\ Len(tabs') = Len(stored) + 1
        /\ 1 \in 1..Len(tabs') /\ tabs'[1] = Builder
        /\ \A i \in 1..Len(tabs') : i # 1 => i - 1 \in 1..Len(stored) /\ tabs'[i] = stored[i - 1]
        /\ Storable(tabs') = stored
    BY <1>2, <1>3, StorableAgain
  <1>6. Len(tabs) \in Nat \ {0}
    BY <1>1, EmptySeq
  <1>7. \A i \in 1..Len(tabs') : \E j \in 1..Len(tabs) :
          tabs'[i] = tabs[j] /\ j = IF i = 1 THEN 1 ELSE i - 1 + k
    <2> SUFFICES ASSUME NEW i \in 1..Len(tabs')
                 PROVE  \E j \in 1..Len(tabs) :
                          tabs'[i] = tabs[j] /\ j = IF i = 1 THEN 1 ELSE i - 1 + k
      OBVIOUS
    <2>1. CASE i = 1
      BY <1>1, <1>5, <1>6, <2>1
    <2>2. CASE i # 1
      <3>1. i - 1 \in 1..Len(stored) /\ tabs'[i] = stored[i - 1]
        BY <1>5, <2>2
      <3>2. i - 1 + k \in 1..Len(tabs) /\ stored[i - 1] = tabs[i - 1 + k]
        BY <1>4, <3>1
      <3>. QED  BY <2>2, <3>1, <3>2
    <2>. QED  BY <2>1, <2>2
  <1>8. \A i \in 1..Len(tabs') : tabs'[i].id < now'
    <2>1. \A i \in 1..Len(tabs) : tabs[i].id < now /\ tabs[i].id \in Nat
      BY <1>1, TabIdsOf DEF PanelsInv, TabsDiffer
    <2>2. \A i \in 1..Len(tabs) : tabs[i].id < now'
      BY <2>1
    <2>. QED  BY <1>7, <2>2
  <1>9. \A i, j \in 1..Len(tabs') : tabs'[i].id = tabs'[j].id => i = j
    <2> SUFFICES ASSUME NEW i \in 1..Len(tabs'), NEW j \in 1..Len(tabs'),
                        tabs'[i].id = tabs'[j].id
                 PROVE  i = j
      OBVIOUS
    <2>1. PICK m \in 1..Len(tabs) : tabs'[i] = tabs[m] /\ m = IF i = 1 THEN 1 ELSE i - 1 + k
      BY <1>7
    <2>2. PICK l \in 1..Len(tabs) : tabs'[j] = tabs[l] /\ l = IF j = 1 THEN 1 ELSE j - 1 + k
      BY <1>7
    <2>3. m = l
      BY <2>1, <2>2 DEF PanelsInv, TabsDiffer
    <2>4. i \in Nat \ {0} /\ j \in Nat \ {0} /\ k \in Nat \ {0}
      OBVIOUS
    <2>. QED  BY <2>1, <2>2, <2>3, <2>4
  <1>10. activeTab' \in TabIds(tabs') /\ activeTab' \in Nat
    <2>1. Len(tabs') \in 1..Len(tabs')
      BY <1>3, <1>5
    <2>. QED  BY <1>2, <1>5, <2>1, TabIdsOf DEF Last
  <1>. QED  BY <1>2, <1>3, <1>5, <1>8, <1>9, <1>10 DEF PanelType, PanelsInv, TabsDiffer

LEMMA PanelStep ==
  ASSUME WorkType, PanelType, PanelsInv, [Next]_vars
  PROVE  PanelType' /\ PanelsInv'
  <1>1. now \in Nat \ {0}
    BY DEF WorkType
  <1>2. CASE now' = now + 1 /\ \E k \in Keys : AddTab([id |-> now, key |-> k])
    BY <1>1, <1>2, PanelsAdd
  <1>3. CASE now' = now /\ \E id \in TabIds(tabs) : RemoveTab(id)
    BY <1>1, <1>3, PanelsRemove
  <1>4. CASE now' = now /\ \E id \in TabIds(tabs) : ActivateTab(id)
    <2>1. activeTab' \in TabIds(tabs) /\ UNCHANGED <<now, tabs, stored, open>>
      BY <1>4 DEF ActivateTab
    <2>2. activeTab' \in Nat
      BY <2>1, TabIdsOf DEF PanelType
    <2>. QED  BY <2>1, <2>2 DEF PanelType, PanelsInv, TabsDiffer
  <1>5. CASE now' = now /\ TogglePanel
    BY <1>5 DEF TogglePanel, PanelType, PanelsInv, TabsDiffer
  <1>6. CASE now' = now + 1 /\ LoadTabs
    BY <1>1, <1>6, PanelsLoad
  <1>7. CASE now' \in Nat /\ now' >= now /\ UNCHANGED panelVars
    <2>1. \A i \in 1..Len(tabs) : tabs[i].id < now /\ tabs[i].id \in Nat
      BY TabIdsOf DEF PanelType, PanelsInv, TabsDiffer
    <2>2. \A i \in 1..Len(tabs) : tabs[i].id < now'
      BY <1>1, <1>7, <2>1
    <2>. QED  BY <1>7, <2>2 DEF panelVars, PanelType, PanelsInv, TabsDiffer
  <1>. QED  BY <1>2, <1>3, <1>4, <1>5, <1>6, <1>7, PanelPart

LEMMA PanelInit == Init => PanelType /\ PanelsInv
  <1> SUFFICES ASSUME Init
               PROVE  PanelType /\ PanelsInv
    OBVIOUS
  <1>1. tabs = <<Builder>> /\ activeTab = BuilderId /\ stored = <<>> /\ open = TRUE
    BY DEF Init, PanelsInit
  <1>2. now = 1
    BY DEF Init
  <1>3. tabs \in Seq(Tabs) /\ tabs # <<>> /\ Len(tabs) = 1 /\ tabs[1] = Builder
    BY <1>1, BuilderType, Singleton
  <1>4. stored \in Seq(Tabs) /\ stored = Storable(tabs)
    <2>1. <<>> \in Seq(Tabs) /\ Len(<<>>) = 0 /\ MaxStoredTabs \in Nat
      BY EmptySeq, WorkbenchAssumption DEF WorkbenchAssumption
    <2>2. Len(<<>>) <= MaxStoredTabs /\ <<Builder>> \o <<>> = <<Builder>>
      BY <2>1, BuilderType, Singleton, ConcatEmptySeq
    <2>3. Storable(<<Builder>>) = <<>>
      BY <2>1, <2>2, StorableAgain
    <2>. QED  BY <1>1, <2>1, <2>3
  <1>5. activeTab \in Nat /\ activeTab = tabs[1].id /\ tabs[1].id < now
    BY <1>1, <1>2, BuilderType DEF Builder, BuilderId
  <1>6. activeTab \in TabIds(tabs)
    BY <1>3, <1>5, TabIdsOf
  <1>. QED  BY <1>1, <1>3, <1>4, <1>5, <1>6 DEF PanelType, PanelsInv, TabsDiffer

-----------------------------------------------------------------------------
(* The store: the data of its states.                                      *)

OwnOps(requests, o) == Own(requests, o.key, o.state) /\ OwnMap(requests, o.map)

\* A state that is one request's stays so when more are sent.
LEMMA StillOwn ==
  ASSUME NEW old \in Seq(Sends), NEW new, Len(new) \in Nat, Len(old) <= Len(new),
         \A s \in 1..Len(old) : new[s].key = old[s].key
  PROVE  /\ \A key, state : Own(old, key, state) => Own(new, key, state)
         /\ \A map : OwnMap(old, map) => OwnMap(new, map)
         /\ \A o : OwnOps(old, o) => OwnOps(new, o)
  <1>1. \A s \in 1..Len(old) : s \in 1..Len(new)
    BY LenProperties
  <1>2. \A key, state : Own(old, key, state) => Own(new, key, state)
    BY <1>1 DEF Own
  <1>. QED  BY <1>2 DEF OwnMap, OwnOps

LEMMA OwnWith ==
  ASSUME NEW requests, NEW map \in Maps, NEW key \in Keys, NEW state \in States,
         OwnMap(requests, map), Own(requests, key, state)
  PROVE  OwnMap(requests, With(map, key, state))
  <1> DEFINE w == With(map, key, state)
  <1>1. DOMAIN w = DOMAIN map \cup {key}
        /\ \A k \in DOMAIN map \cup {key} : w[k] = IF k = key THEN state ELSE map[k]
    BY WithType
  <1> HIDE DEF w
  <1>2. \A k \in DOMAIN w : Own(requests, k, w[k])
    BY <1>1 DEF OwnMap
  <1>. QED  BY <1>2 DEF OwnMap, w

LEMMA OwnEmpty ==
  ASSUME NEW requests
  PROVE  OwnMap(requests, <<>>) /\ \A key : Own(requests, key, EmptyState)
  BY NoMap DEF OwnMap, Own, EmptyState, NoData

LEMMA OwnStateIn ==
  ASSUME NEW requests, NEW map \in Maps, NEW key, OwnMap(requests, map)
  PROVE  Own(requests, key, StateIn(map, key))
  BY OwnEmpty DEF OwnMap, StateIn

LEMMA OpType ==
  ASSUME StoreType, NEW key \in Keys, NEW state \in States
  PROVE  /\ Put(key, state) \in Ops
         /\ Put(key, state).op = "put" /\ Put(key, state).key = key
         /\ Put(key, state).state = state /\ Put(key, state).map = <<>>
         /\ Get(key) \in Ops /\ Get(key).op = "get" /\ Get(key).key = key
         /\ Get(key).state = EmptyState /\ Get(key).map = responseMap
  BY NoMap DEF StoreType, Put, Get, Ops, States, EmptyState, NoData

\* What a page load reads.
LEMMA LoadedOps ==
  ASSUME StoreType, NEW keys \in Seq(Keys), LoadStore(keys)
  PROVE  /\ ops' \in Seq(Ops)
         /\ \A i \in 1..Len(ops') :
              ops'[i].op = "get" /\ ops'[i].state = EmptyState /\ ops'[i].map = <<>>
  <1> DEFINE o(i) == [Get(keys[i]) EXCEPT !.map = <<>>]
  <1>1. Len(keys) \in Nat /\ DOMAIN keys = 1..Len(keys)
    BY LenProperties
  <1>2. \A i \in 1..Len(keys) : keys[i] \in Keys
    BY ElementOfSeq
  <1>3. \A i \in 1..Len(keys) :
          o(i) \in Ops /\ o(i).op = "get" /\ o(i).state = EmptyState /\ o(i).map = <<>>
    BY <1>2, NoMap DEF Get, Ops, States, EmptyState, NoData
  <1>4. ops' = [i \in 1..Len(keys) |-> o(i)]
    BY <1>1 DEF LoadStore
  <1> HIDE DEF o
  <1>5. ops' \in [1..Len(keys) -> Ops] /\ \A i \in 1..Len(keys) : ops'[i] = o(i)
    BY <1>3, <1>4
  <1>6. ops' \in Seq(Ops) /\ Len(ops') = Len(keys)
    BY <1>1, <1>5, SeqDef, LenProperties
  <1>. QED  BY <1>3, <1>5, <1>6

\* The requests sent keep their keys; there may be a new one.
SendsGrow ==
  /\ sends \in Seq(Sends) /\ sends' \in Seq(Sends) /\ Len(sends) <= Len(sends')
  /\ \A s \in 1..Len(sends) : sends'[s].key = sends[s].key

StoreInv == StoreType /\ StatesAreOwn /\ OneEntry

LEMMA GrownOwn ==
  ASSUME SendsGrow
  PROVE  /\ \A key, state : Own(sends, key, state) => Own(sends', key, state)
         /\ \A map : OwnMap(sends, map) => OwnMap(sends', map)
         /\ \A o : OwnOps(sends, o) => OwnOps(sends', o)
  <1>1. sends \in Seq(Sends) /\ Len(sends') \in Nat /\ Len(sends) <= Len(sends')
    BY LenProperties DEF SendsGrow
  <1>. QED  BY <1>1, StillOwn DEF SendsGrow

\* Steps that leave the store alone.
LEMMA StoreSame ==
  ASSUME StoreInv, SendsGrow, UNCHANGED <<storeVars, history>>
  PROVE  StoreInv'
  <1>1. UNCHANGED <<responseMap, db, ops, counting, deleting, evicted, interrupted>>
    BY DEF storeVars, history
  <1>2. StatesAreOwn'
    BY <1>1, GrownOwn DEF StoreInv, StatesAreOwn, OwnOps
  <1>. QED  BY <1>1, <1>2 DEF StoreInv, StoreType, OneEntry

LEMMA StoreUpdate ==
  ASSUME StoreInv, SendsGrow, UNCHANGED history, NEW k \in Keys, NEW st \in States,
         Own(sends', k, st), UpdateResponseState(k, st)
  PROVE  StoreInv'
  <1>1. /\ responseMap' = With(responseMap, k, st) /\ ops' = Append(ops, Put(k, st))
        /\ UNCHANGED <<db, counting, deleting, evicted, interrupted>>
    BY DEF UpdateResponseState, history
  <1>2. responseMap \in Maps /\ ops \in Seq(Ops)
    BY DEF StoreInv, StoreType
  <1>3. /\ Put(k, st) \in Ops /\ OwnOps(sends', Put(k, st))
    BY OpType, OwnEmpty DEF OwnOps, StoreInv
  <1>4. responseMap' \in Maps
    BY <1>1, <1>2, WithType
  <1>5. OwnMap(sends', responseMap')
    BY <1>1, <1>2, GrownOwn, OwnWith DEF StoreInv, StatesAreOwn
  <1>6. /\ ops' \in Seq(Ops)
        /\ \A i \in 1..Len(ops) : ops'[i] = ops[i]
        /\ ops'[Len(ops')] = Put(k, st)
        /\ \A i \in 1..Len(ops') : i # Len(ops') => i \in 1..Len(ops)
    BY <1>1, <1>2, <1>3, Enqueued
  <1>7. \A i \in 1..Len(ops) : OwnOps(sends', ops[i])
    BY GrownOwn DEF StoreInv, StatesAreOwn, OwnOps
  <1>8. \A i \in 1..Len(ops') : OwnOps(sends', ops'[i])
    BY <1>3, <1>6, <1>7
  <1>9. \A i \in 1..Len(db) : Own(sends', db[i].key, db[i].state)
    BY GrownOwn DEF StoreInv, StatesAreOwn
  <1>10. StatesAreOwn'
    BY <1>1, <1>5, <1>8, <1>9 DEF StatesAreOwn, OwnOps
  <1>. QED  BY <1>1, <1>4, <1>6, <1>10 DEF StoreInv, StoreType, OneEntry

LEMMA StoreRead ==
  ASSUME StoreInv, SendsGrow, UNCHANGED history, NEW k \in Keys, GetResponseState(k)
  PROVE  StoreInv'
  <1>1. UNCHANGED <<responseMap, db, counting, deleting, evicted, interrupted>>
    BY DEF GetResponseState, history
  <1>2. responseMap \in Maps /\ ops \in Seq(Ops)
    BY DEF StoreInv, StoreType
  <1>3. Get(k) \in Ops /\ OwnOps(sends', Get(k))
    <2>1. EmptyState \in States
      BY DEF EmptyState, States, NoData
    <2>2. Get(k) \in Ops /\ Get(k).state = EmptyState /\ Get(k).map = responseMap
      BY <2>1, OpType DEF StoreInv
    <2>3. OwnMap(sends', responseMap)
      BY GrownOwn DEF StoreInv, StatesAreOwn
    <2>. QED  BY <2>2, <2>3, OwnEmpty DEF OwnOps
  <1>4. \A i \in 1..Len(ops) : OwnOps(sends', ops[i])
    BY GrownOwn DEF StoreInv, StatesAreOwn, OwnOps
  <1>5. ops' \in Seq(Ops) /\ \A i \in 1..Len(ops') : OwnOps(sends', ops'[i])
    <2>1. CASE ops' = ops
      BY <1>2, <1>4, <2>1
    <2>2. CASE ops' = Append(ops, Get(k))
      <3>1. /\ ops' \in Seq(Ops)
            /\ \A i \in 1..Len(ops) : ops'[i] = ops[i]
            /\ ops'[Len(ops')] = Get(k)
            /\ \A i \in 1..Len(ops') : i # Len(ops') => i \in 1..Len(ops)
        BY <1>2, <1>3, <2>2, Enqueued
      <3>. QED  BY <1>3, <1>4, <3>1
    <2>. QED  BY <2>1, <2>2 DEF GetResponseState
  <1>6. OwnMap(sends', responseMap) /\ \A i \in 1..Len(db) : Own(sends', db[i].key, db[i].state)
    BY GrownOwn DEF StoreInv, StatesAreOwn
  <1>7. StatesAreOwn'
    BY <1>1, <1>5, <1>6 DEF StatesAreOwn, OwnOps
  <1>. QED  BY <1>1, <1>5, <1>7 DEF StoreInv, StoreType, OneEntry

LEMMA StoreLoad ==
  ASSUME StoreInv, SendsGrow, evicted' = evicted, interrupted' \in BOOLEAN,
         NEW keys \in Seq(Keys), LoadStore(keys)
  PROVE  StoreInv'
  <1>1. responseMap' = <<>> /\ counting' = 0 /\ deleting' = <<>> /\ db' = db
    BY DEF LoadStore
  <1>2. /\ ops' \in Seq(Ops)
        /\ \A i \in 1..Len(ops') : ops'[i].state = EmptyState /\ ops'[i].map = <<>>
    BY LoadedOps DEF StoreInv
  <1>3. \A i \in 1..Len(db) : Own(sends', db[i].key, db[i].state)
    BY GrownOwn DEF StoreInv, StatesAreOwn
  <1>4. StatesAreOwn'
    BY <1>1, <1>2, <1>3, OwnEmpty DEF StatesAreOwn
  <1>5. responseMap' \in Maps /\ deleting' \in Seq(Nat)
    BY <1>1, NoMap, EmptySeq
  <1>6. counting' \in Nat
    BY <1>1
  <1>. QED  BY <1>1, <1>2, <1>4, <1>5, <1>6 DEF StoreInv, StoreType, OneEntry

\* The entries a write of a key leaves are those of the other keys.
OthersOf(key) ==
  LET old == {i \in DOMAIN db : db[i].key = key}
  IN  IF old = {} THEN db ELSE RemoveAt(db, CHOOSE i \in old : TRUE)

LEMMA Others ==
  ASSUME StoreInv, NEW key
  PROVE  LET others == OthersOf(key)
         IN  /\ others \in Seq(Entries) /\ Len(others) <= Len(db)
             /\ \A i \in 1..Len(others) :
                  others[i].key # key /\ \E j \in 1..Len(db) : others[i] = db[j]
             /\ \A j \in 1..Len(db) : db[j].key # key => \E i \in 1..Len(others) : others[i] = db[j]
             /\ \A i, j \in 1..Len(others) : others[i].key = others[j].key => i = j
  <1>1. /\ db \in Seq(Entries) /\ DOMAIN db = 1..Len(db) /\ Len(db) \in Nat
        /\ \A i, j \in 1..Len(db) : db[i].key = db[j].key => i = j
    BY LenProperties DEF StoreInv, StoreType, OneEntry
  <1>2. CASE \A i \in 1..Len(db) : db[i].key # key
    <2>1. OthersOf(key) = db
      BY <1>1, <1>2 DEF OthersOf
    <2>. QED  BY <1>1, <1>2, <2>1
  <1>3. CASE \E i \in 1..Len(db) : db[i].key = key
    <2>1. PICK p \in 1..Len(db) : db[p].key = key /\ OthersOf(key) = RemoveAt(db, p)
      BY <1>1, <1>3 DEF OthersOf
    <2> DEFINE r == RemoveAt(db, p)
    <2>2. /\ r \in Seq(Entries) /\ Len(r) = Len(db) - 1 /\ Len(db) \in Nat \ {0}
          /\ \A i \in 1..Len(r) : i < p => i \in 1..Len(db) /\ r[i] = db[i]
          /\ \A i \in 1..Len(r) : ~(i < p) => i + 1 \in 1..Len(db) /\ r[i] = db[i + 1]
          /\ \A i \in 1..Len(db) : i < p => i \in 1..Len(r) /\ r[i] = db[i]
          /\ \A i \in 1..Len(db) : i > p => i - 1 \in 1..Len(r) /\ r[i - 1] = db[i]
      BY <1>1, Removed
    <2> HIDE DEF r
    <2>3. \A i \in 1..Len(r) : \E j \in 1..Len(db) :
            j # p /\ r[i] = db[j] /\ j = IF i < p THEN i ELSE i + 1
      <3> SUFFICES ASSUME NEW i \in 1..Len(r)
                   PROVE  \E j \in 1..Len(db) :
                            j # p /\ r[i] = db[j] /\ j = IF i < p THEN i ELSE i + 1
        OBVIOUS
      <3>1. CASE i < p
        BY <2>2, <3>1
      <3>2. CASE ~(i < p)
        BY <2>2, <3>2
      <3>. QED  BY <3>1, <3>2
    <2>4. \A i \in 1..Len(r) : r[i].key # key
      BY <1>1, <2>1, <2>3
    <2>5. \A j \in 1..Len(db) : db[j].key # key => \E i \in 1..Len(r) : r[i] = db[j]
      <3> SUFFICES ASSUME NEW j \in 1..Len(db), db[j].key # key
                   PROVE  \E i \in 1..Len(r) : r[i] = db[j]
        OBVIOUS
      <3>1. j < p \/ j > p
        BY <2>1
      <3>. QED  BY <2>2, <3>1
    <2>6. \A i, j \in 1..Len(r) : r[i].key = r[j].key => i = j
      <3> SUFFICES ASSUME NEW i \in 1..Len(r), NEW j \in 1..Len(r), r[i].key = r[j].key
                   PROVE  i = j
        OBVIOUS
      <3>1. PICK k \in 1..Len(db) : r[i] = db[k] /\ k = IF i < p THEN i ELSE i + 1
        BY <2>3
      <3>2. PICK l \in 1..Len(db) : r[j] = db[l] /\ l = IF j < p THEN j ELSE j + 1
        BY <2>3
      <3>3. k = l
        BY <1>1, <3>1, <3>2
      <3>4. i \in Int /\ j \in Int /\ p \in Int
        OBVIOUS
      <3>. QED  BY <3>1, <3>2, <3>3, <3>4
    <2>7. OthersOf(key) = r
      BY <2>1 DEF r
    <2>8. r \in Seq(Entries) /\ Len(r) <= Len(db)
      BY <2>2
    <2>9. \A i \in 1..Len(r) : r[i].key # key /\ \E j \in 1..Len(db) : r[i] = db[j]
      BY <2>3, <2>4
    <2>. QED  BY <2>5, <2>6, <2>7, <2>8, <2>9
  <1>. QED  BY <1>2, <1>3

\* A cleanup takes the first n entries.
LEMMA CutOff ==
  ASSUME db \in Seq(Entries), NEW n \in Nat
  PROVE  LET rest == SubSeq(db, n + 1, Len(db))
         IN  /\ rest \in Seq(Entries) /\ Len(rest) = IF n < Len(db) THEN Len(db) - n ELSE 0
             /\ \A i \in 1..Len(rest) : i + n \in 1..Len(db) /\ rest[i] = db[i + n]
  <1> DEFINE rest == SubSeq(db, n + 1, Len(db))
  <1>1. Len(db) \in Nat /\ \A i \in 1..Len(db) : db[i] \in Entries
    BY LenProperties, ElementOfSeq
  <1>2. \A i \in n + 1..Len(db) : db[i] \in Entries
    BY <1>1
  <1>3. /\ rest \in Seq(Entries)
        /\ Len(rest) = IF n + 1 <= Len(db) THEN Len(db) - (n + 1) + 1 ELSE 0
        /\ \A i \in 1..Len(db) - (n + 1) + 1 : rest[i] = db[n + 1 + i - 1]
    BY <1>1, <1>2, SubSeqProperties
  <1> HIDE DEF rest
  <1>4. Len(rest) = IF n < Len(db) THEN Len(db) - n ELSE 0
    BY <1>1, <1>3
  <1>5. \A i \in 1..Len(rest) : i + n \in 1..Len(db) /\ rest[i] = db[i + n]
    <2> SUFFICES ASSUME NEW i \in 1..Len(rest)
                 PROVE  i + n \in 1..Len(db) /\ rest[i] = db[i + n]
      OBVIOUS
    <2>1. i \in 1..Len(db) - (n + 1) + 1 /\ n + 1 + i - 1 = i + n /\ i + n \in 1..Len(db)
      BY <1>1, <1>4
    <2>. QED  BY <1>3, <2>1
  <1>. QED  BY <1>3, <1>4, <1>5 DEF rest

\* What a step of IndexedDB leaves to show.
LEMMA StorePart ==
  ASSUME StoreInv, StoreStep,
         responseMap' \in Maps, OwnMap(sends, responseMap'),
         db' \in Seq(Entries), \A i \in 1..Len(db') : Own(sends, db'[i].key, db'[i].state),
         \A i, j \in 1..Len(db') : db'[i].key = db'[j].key => i = j,
         ops' \in Seq(Ops), \A i \in 1..Len(ops') : \E j \in 1..Len(ops) : ops'[i] = ops[j],
         counting' \in Nat, deleting' \in Seq(Nat)
  PROVE  StoreInv'
  <1>1. sends' = sends
    BY DEF StoreStep, workVars
  <1>2. DOMAIN db = 1..Len(db) /\ \A i \in 1..Len(db) : db[i] \in Entries
    BY LenProperties, ElementOfSeq DEF StoreInv, StoreType
  <1>3. evicted \subseteq Keys /\ {db[i].key : i \in DOMAIN db} \subseteq Keys
    BY <1>2 DEF StoreInv, StoreType, Entries
  <1>4. evicted' \subseteq Keys /\ interrupted' \in BOOLEAN
    BY <1>3 DEF StoreStep
  <1>5. \A i \in 1..Len(ops') : Own(sends, ops'[i].key, ops'[i].state) /\ OwnMap(sends, ops'[i].map)
    BY DEF StoreInv, StatesAreOwn
  <1>6. StatesAreOwn'
    BY <1>1, <1>5 DEF StatesAreOwn
  <1>. QED  BY <1>4, <1>6 DEF StoreInv, StoreType, OneEntry

\* The first operation is taken from the queue.
LEMMA TakenOp ==
  ASSUME StoreInv, ops # <<>>, ops' = Tail(ops)
  PROVE  /\ Head(ops) = ops[1] /\ 1 \in 1..Len(ops) /\ Head(ops) \in Ops /\ OwnOps(sends, Head(ops))
         /\ ops' \in Seq(Ops) /\ \A i \in 1..Len(ops') : \E j \in 1..Len(ops) : ops'[i] = ops[j]
         /\ \A i \in 1..Len(ops') : i + 1 \in 1..Len(ops) /\ ops'[i] = ops[i + 1]
         /\ \A i \in 1..Len(ops) : i # 1 => i - 1 \in 1..Len(ops') /\ ops'[i - 1] = ops[i]
  <1>1. ops \in Seq(Ops)
    BY DEF StoreInv, StoreType
  <1>2. /\ ops' \in Seq(Ops) /\ Head(ops) = ops[1] /\ Head(ops) \in Ops /\ 1 \in 1..Len(ops)
        /\ \A i \in 1..Len(ops') : i + 1 \in 1..Len(ops) /\ ops'[i] = ops[i + 1]
        /\ \A i \in 1..Len(ops) : i # 1 => i - 1 \in 1..Len(ops') /\ ops'[i - 1] = ops[i]
    BY <1>1, Dequeued
  <1>3. OwnOps(sends, Head(ops))
    BY <1>2 DEF StoreInv, StatesAreOwn, OwnOps
  <1>. QED  BY <1>2, <1>3

\* What a write makes of the store.
LEMMA PutIs ==
  ASSUME StoreInv, RunPut
  PROVE  LET o == Head(ops)
             e == [key |-> o.key, state |-> o.state]
         IN  /\ db' = Append(OthersOf(o.key), e) /\ e \in Entries /\ Own(sends, e.key, e.state)
             /\ o.op = "put" /\ ops # <<>> /\ ops' = Tail(ops) /\ counting' = counting + 1
             /\ UNCHANGED <<responseMap, deleting>>
  <1>1. ops # <<>> /\ ops' = Tail(ops)
    BY DEF RunPut
  <1>2. Head(ops) \in Ops /\ OwnOps(sends, Head(ops))
    BY <1>1, TakenOp
  <1>. QED  BY <1>1, <1>2 DEF RunPut, OthersOf, Ops, Entries, OwnOps

LEMMA StorePut ==
  ASSUME StoreInv, StoreStep, RunPut
  PROVE  StoreInv'
  <1> DEFINE o == Head(ops)
             e == [key |-> o.key, state |-> o.state]
             others == OthersOf(o.key)
  <1>1. /\ db' = Append(others, e) /\ e \in Entries /\ Own(sends, e.key, e.state)
        /\ ops # <<>> /\ ops' = Tail(ops) /\ counting' = counting + 1
        /\ UNCHANGED <<responseMap, deleting>>
    BY PutIs
  <1>2. /\ others \in Seq(Entries)
        /\ \A i \in 1..Len(others) : others[i].key # o.key /\ \E j \in 1..Len(db) : others[i] = db[j]
        /\ \A i, j \in 1..Len(others) : others[i].key = others[j].key => i = j
    BY Others
  <1>3. e.key = o.key
    OBVIOUS
  <1> HIDE DEF o, e, others
  <1>4. /\ db' \in Seq(Entries)
        /\ \A i \in 1..Len(others) : db'[i] = others[i]
        /\ db'[Len(db')] = e
        /\ \A i \in 1..Len(db') : i # Len(db') => i \in 1..Len(others)
    BY <1>1, <1>2, Enqueued
  <1>5. \A i \in 1..Len(others) : Own(sends, others[i].key, others[i].state)
    BY <1>2 DEF StoreInv, StatesAreOwn
  <1>6. \A i \in 1..Len(db') : Own(sends, db'[i].key, db'[i].state)
    BY <1>1, <1>4, <1>5
  <1>7. \A i, j \in 1..Len(db') : db'[i].key = db'[j].key => i = j
    BY <1>2, <1>3, <1>4
  <1>8. /\ responseMap' \in Maps /\ OwnMap(sends, responseMap') /\ counting' \in Nat
        /\ deleting' \in Seq(Nat)
    BY <1>1 DEF StoreInv, StoreType, StatesAreOwn
  <1>9. ops' \in Seq(Ops) /\ \A i \in 1..Len(ops') : \E j \in 1..Len(ops) : ops'[i] = ops[j]
    BY <1>1, TakenOp
  <1>. QED  BY <1>4, <1>6, <1>7, <1>8, <1>9, StorePart

LEMMA StoreGet ==
  ASSUME StoreInv, StoreStep, RunGet
  PROVE  StoreInv'
  <1> DEFINE o == Head(ops)
             found == {i \in DOMAIN db : db[i].key = o.key}
  <1>1. ops # <<>> /\ ops' = Tail(ops) /\ UNCHANGED <<db, counting, deleting>>
    BY DEF RunGet
  <1>2. /\ o \in Ops /\ OwnOps(sends, o) /\ ops' \in Seq(Ops)
        /\ \A i \in 1..Len(ops') : \E j \in 1..Len(ops) : ops'[i] = ops[j]
    BY <1>1, TakenOp
  <1>3. /\ db \in Seq(Entries) /\ counting \in Nat /\ deleting \in Seq(Nat)
        /\ responseMap \in Maps /\ OwnMap(sends, responseMap)
        /\ \A i \in 1..Len(db) : Own(sends, db[i].key, db[i].state)
        /\ \A i, j \in 1..Len(db) : db[i].key = db[j].key => i = j
    BY DEF StoreInv, StoreType, StatesAreOwn, OneEntry
  <1>4. responseMap' \in Maps /\ OwnMap(sends, responseMap')
    <2>1. CASE found = {}
      BY <1>3, <2>1 DEF RunGet
    <2>2. CASE found # {}
      <3>1. PICK i \in found : responseMap' = With(o.map, o.key, db[i].state)
        BY <2>2 DEF RunGet
      <3>2. i \in 1..Len(db) /\ db[i].key = o.key
        BY <1>3, LenProperties
      <3>3. db[i] \in Entries /\ Own(sends, o.key, db[i].state)
        BY <1>3, <3>2, ElementOfSeq
      <3>4. o.map \in Maps /\ o.key \in Keys /\ db[i].state \in States /\ OwnMap(sends, o.map)
        BY <1>2, <3>3 DEF Ops, Entries, OwnOps
      <3>. QED  BY <3>1, <3>3, <3>4, WithType, OwnWith
    <2>. QED  BY <2>1, <2>2
  <1>. QED  BY <1>1, <1>2, <1>3, <1>4, StorePart

LEMMA StoreCount ==
  ASSUME StoreInv, StoreStep, CountEntries
  PROVE  StoreInv'
  <1>1. /\ counting > 0 /\ counting' = counting - 1 /\ UNCHANGED <<responseMap, db, ops>>
        /\ deleting' = IF Len(db) > MaxStoredResponses
                         THEN Append(deleting, Len(db) - MaxStoredResponses) ELSE deleting
    BY DEF CountEntries
  <1>2. /\ db \in Seq(Entries) /\ counting \in Nat /\ deleting \in Seq(Nat) /\ ops \in Seq(Ops)
        /\ responseMap \in Maps /\ OwnMap(sends, responseMap)
        /\ \A i \in 1..Len(db) : Own(sends, db[i].key, db[i].state)
        /\ \A i, j \in 1..Len(db) : db[i].key = db[j].key => i = j
    BY DEF StoreInv, StoreType, StatesAreOwn, OneEntry
  <1>3. counting' \in Nat /\ Len(db) \in Nat /\ MaxStoredResponses \in Nat
    <2>1. counting > 0 /\ counting' = counting - 1 /\ counting \in Nat
      BY <1>1, <1>2
    <2>2. counting' \in Nat
      BY <2>1
    <2>. QED  BY <1>2, <2>2, LenProperties, WorkbenchAssumption DEF WorkbenchAssumption
  <1>4. deleting' \in Seq(Nat)
    <2>1. CASE Len(db) > MaxStoredResponses
      <3>1. Len(db) - MaxStoredResponses \in Nat
        BY <1>3, <2>1
      <3>. QED  BY <1>1, <1>2, <2>1, <3>1, Enqueued
    <2>2. CASE ~(Len(db) > MaxStoredResponses)
      BY <1>1, <1>2, <2>2
    <2>. QED  BY <2>1, <2>2
  <1>. QED  BY <1>1, <1>2, <1>3, <1>4, StorePart

LEMMA StoreCleanup ==
  ASSUME StoreInv, StoreStep, CleanupEntries
  PROVE  StoreInv'
  <1> DEFINE n == Head(deleting)
  <1>1. /\ deleting # <<>> /\ deleting' = Tail(deleting) /\ db' = SubSeq(db, n + 1, Len(db))
        /\ UNCHANGED <<responseMap, ops, counting>>
    BY DEF CleanupEntries
  <1>2. /\ db \in Seq(Entries) /\ counting \in Nat /\ deleting \in Seq(Nat) /\ ops \in Seq(Ops)
        /\ responseMap \in Maps /\ OwnMap(sends, responseMap)
        /\ \A i \in 1..Len(db) : Own(sends, db[i].key, db[i].state)
        /\ \A i, j \in 1..Len(db) : db[i].key = db[j].key => i = j
    BY DEF StoreInv, StoreType, StatesAreOwn, OneEntry
  <1>3. n \in Nat /\ deleting' \in Seq(Nat)
    BY <1>1, <1>2, Dequeued
  <1> HIDE DEF n
  <1>4. /\ db' \in Seq(Entries)
        /\ \A i \in 1..Len(db') : i + n \in 1..Len(db) /\ db'[i] = db[i + n]
    BY <1>1, <1>2, <1>3, CutOff
  <1>5. \A i \in 1..Len(db') : Own(sends, db'[i].key, db'[i].state)
    BY <1>2, <1>4
  <1>6. \A i, j \in 1..Len(db') : db'[i].key = db'[j].key => i = j
    <2> SUFFICES ASSUME NEW i \in 1..Len(db'), NEW j \in 1..Len(db'), db'[i].key = db'[j].key
                 PROVE  i = j
      OBVIOUS
    <2>1. i + n = j + n
      BY <1>2, <1>4
    <2>. QED  BY <1>3, <2>1
  <1>. QED  BY <1>1, <1>2, <1>3, <1>4, <1>5, <1>6, StorePart

-----------------------------------------------------------------------------
(* What the steps of the workbench do to the store.                        *)

LEMMA ShownKeyType ==
  ASSUME PanelType'
  PROVE  ShownKey' \in Keys \cup {NoKey}
  <1>1. tabs' \in Seq(Tabs)
    BY DEF PanelType
  <1>2. DOMAIN tabs' = 1..Len(tabs') /\ \A i \in 1..Len(tabs') : tabs'[i] \in Tabs
    BY <1>1, LenProperties, ElementOfSeq
  <1>3. \A i \in DOMAIN tabs' : tabs'[i].key \in Keys \cup {NoKey}
    BY <1>2 DEF Tabs
  <1>4. CASE (open /\ activeTab \in TabIds(tabs))'
    <2>1. \E i \in DOMAIN tabs' : tabs'[i].id = activeTab'
      BY <1>4 DEF TabIds
    <2>2. PlaceOf(activeTab)' \in DOMAIN tabs'
      BY <2>1 DEF PlaceOf
    <2>. QED  BY <1>3, <1>4, <2>2 DEF ShownKey, KeyOf
  <1>5. CASE ~(open /\ activeTab \in TabIds(tabs))'
    BY <1>5 DEF ShownKey
  <1>. QED  BY <1>4, <1>5

Finished(phase) == phase \in {"answered", "failed"}

\* A request goes on, and the state of its key becomes st.
Advances(s, st) ==
  /\ s \in 1..Len(sends) /\ sends[s].key \in Keys /\ st \in States
  /\ UpdateResponseState(sends[s].key, st) /\ Own(sends', sends[s].key, st)
  /\ Len(sends') = Len(sends)
  /\ \A t \in 1..Len(sends) : sends'[t].key = sends[t].key
                              /\ (t # s => sends'[t].phase = sends[t].phase)
  /\ Finished(sends'[s].phase) => Final(st)
  /\ UNCHANGED history

LEMMA AdvancePost ==
  ASSUME WorkType, StoreInv, NEW s \in DOMAIN sends, PostRequest(s)
  PROVE  \E st : Advances(s, st)
  <1> DEFINE old == StateIn(responseMap, KeyOfSend(s))
             st == [old EXCEPT !.loading = TRUE, !.error = FALSE]
  <1>1. s \in 1..Len(sends) /\ sends \in Seq(Sends)
    BY LenProperties DEF WorkType
  <1>2. sends[s].key \in Keys
    BY <1>1, SendAt
  <1>3. /\ Len(sends') = Len(sends)
        /\ \A t \in 1..Len(sends) : sends'[t].key = sends[t].key
             /\ sends'[t].phase = IF t = s THEN "posted" ELSE sends[t].phase
    BY <1>1, MovedSend DEF PostRequest, Phases
  <1>4. old \in States /\ Own(sends, sends[s].key, old)
    BY StateType, OwnStateIn DEF StoreInv, StoreType, StatesAreOwn, KeyOfSend
  <1>5. Own(sends', sends[s].key, old)
    BY <1>3, <1>4 DEF Own
  <1> HIDE DEF old
  <1>6. st \in States /\ Own(sends', sends[s].key, st)
    BY <1>4, <1>5 DEF States, Own
  <1>7. UpdateResponseState(sends[s].key, st) /\ UNCHANGED history
    BY DEF PostRequest, KeyOfSend, old
  <1>8. ~Finished(sends'[s].phase)
    BY <1>1, <1>3 DEF Finished
  <1> HIDE DEF st
  <1>. QED  BY <1>1, <1>2, <1>3, <1>6, <1>7, <1>8 DEF Advances

LEMMA AdvanceAnswer ==
  ASSUME WorkType, StoreInv, NEW s \in DOMAIN sends, ReceiveResponse(s)
  PROVE  \E st : Advances(s, st)
  <1> DEFINE old == StateIn(responseMap, KeyOfSend(s))
             st == [old EXCEPT !.loading = FALSE, !.data = s]
  <1>1. s \in 1..Len(sends) /\ sends \in Seq(Sends) /\ Len(sends) \in Nat
    BY LenProperties DEF WorkType
  <1>2. sends[s].key \in Keys
    BY <1>1, SendAt
  <1>3. /\ Len(sends') = Len(sends)
        /\ \A t \in 1..Len(sends) : sends'[t].key = sends[t].key
             /\ sends'[t].phase = IF t = s THEN "answered" ELSE sends[t].phase
    BY <1>1, MovedSend DEF ReceiveResponse, Phases
  <1>4. old \in States
    BY StateType DEF StoreInv, StoreType
  <1>5. s \in Nat /\ s # 0
    BY <1>1
  <1>6. UpdateResponseState(sends[s].key, st) /\ UNCHANGED history
    BY DEF ReceiveResponse, KeyOfSend
  <1> HIDE DEF old
  <1>7. st \in States /\ st.data = s /\ st.loading = FALSE
    BY <1>4, <1>5 DEF States
  <1> HIDE DEF st
  <1>8. Own(sends', sends[s].key, st) /\ Final(st)
    BY <1>1, <1>3, <1>5, <1>7 DEF Own, Final, NoData
  <1>. QED  BY <1>1, <1>2, <1>3, <1>6, <1>7, <1>8 DEF Advances

LEMMA AdvanceError ==
  ASSUME WorkType, StoreInv, NEW s \in DOMAIN sends, ReceiveError(s)
  PROVE  \E st : Advances(s, st)
  <1> DEFINE old == StateIn(responseMap, KeyOfSend(s))
             st == [old EXCEPT !.loading = FALSE, !.error = TRUE]
  <1>1. s \in 1..Len(sends) /\ sends \in Seq(Sends)
    BY LenProperties DEF WorkType
  <1>2. sends[s].key \in Keys
    BY <1>1, SendAt
  <1>3. /\ Len(sends') = Len(sends)
        /\ \A t \in 1..Len(sends) : sends'[t].key = sends[t].key
             /\ sends'[t].phase = IF t = s THEN "failed" ELSE sends[t].phase
    BY <1>1, MovedSend DEF ReceiveError, Phases
  <1>4. old \in States /\ Own(sends, sends[s].key, old)
    BY StateType, OwnStateIn DEF StoreInv, StoreType, StatesAreOwn, KeyOfSend
  <1>5. Own(sends', sends[s].key, old)
    BY <1>3, <1>4 DEF Own
  <1>6. UpdateResponseState(sends[s].key, st) /\ UNCHANGED history
    BY DEF ReceiveError, KeyOfSend
  <1> HIDE DEF old
  <1>7. st \in States /\ st.error = TRUE /\ st.loading = FALSE /\ Own(sends', sends[s].key, st)
    BY <1>4, <1>5 DEF States, Own
  <1> HIDE DEF st
  <1>8. Final(st)
    BY <1>7 DEF Final
  <1>. QED  BY <1>1, <1>2, <1>3, <1>6, <1>7, <1>8 DEF Advances

LEMMA StoreActions ==
  ASSUME WorkType, PanelType', StoreInv, [Next]_vars
  PROVE  \/ \E s, st : Advances(s, st)
         \/ sends' = sends /\ UNCHANGED history /\ \E k \in Keys : GetResponseState(k)
         \/ StoreStep
         \/ Reload /\ \E keys \in Seq(Keys) : LoadStore(keys)
         \/ /\ UNCHANGED <<storeVars, history>>
            /\ \A t \in 1..Len(sends') :
                 Finished(sends'[t].phase) => t \in 1..Len(sends) /\ sends'[t] = sends[t]
  <1>1. CASE \E s \in DOMAIN sends : PostRequest(s) \/ ReceiveResponse(s) \/ ReceiveError(s)
    BY <1>1, AdvancePost, AdvanceAnswer, AdvanceError
  <1>2. CASE OpenOrClosePanel \/ \E id \in TabIds(tabs) : CloseTab(id) \/ SwitchTab(id)
    <2>1. Mount /\ sends' = sends /\ UNCHANGED history
      BY <1>2 DEF OpenOrClosePanel, CloseTab, SwitchTab
    <2>2. CASE ShownKey' \notin {NoKey, ShownKey}
      BY <2>1, <2>2, ShownKeyType DEF Mount
    <2>3. CASE ~(ShownKey' \notin {NoKey, ShownKey})
      BY <2>1, <2>3 DEF Mount
    <2>. QED  BY <2>2, <2>3
  <1>3. CASE Reload
    <2>1. LoadStore(IF ShownKey' = NoKey THEN <<>> ELSE <<ShownKey'>>)
      BY <1>3 DEF Reload
    <2>2. (IF ShownKey' = NoKey THEN <<>> ELSE <<ShownKey'>>) \in Seq(Keys)
      BY ShownKeyType, Singleton, EmptySeq
    <2>. QED  BY <1>3, <2>1, <2>2
  <1>4. CASE SendRequest
    <2> DEFINE new == [key |-> RequestHash(draft), phase |-> "hashing"]
    <2>1. sends' = Append(sends, new) /\ UNCHANGED <<storeVars, history>>
      BY <1>4 DEF SendRequest
    <2>2. sends \in Seq(Sends) /\ new \in Sends /\ new.phase = "hashing"
      BY HashType DEF WorkType, Sends, Phases
    <2> HIDE DEF new
    <2>3. /\ \A i \in 1..Len(sends) : sends'[i] = sends[i]
          /\ sends'[Len(sends')] = new
          /\ \A i \in 1..Len(sends') : i # Len(sends') => i \in 1..Len(sends)
      BY <2>1, <2>2, Enqueued
    <2>. QED  BY <2>1, <2>2, <2>3 DEF Finished
  <1>5. CASE \/ EditDraft \/ DebouncedChange \/ LeaveEditor \/ RefreshConfigs \/ UNCHANGED vars
             \/ \E b \in Bodies : TypeBody(b) \/ CopyToHttpReq(b)
    <2>1. UNCHANGED <<sends, storeVars, history>>
      BY <1>5 DEF EditDraft, DebouncedChange, LeaveEditor, RefreshConfigs, TypeBody,
                  CopyToHttpReq, workVars, vars
    <2>. QED  BY <2>1
  <1>. QED  BY <1>1, <1>2, <1>3, <1>4, <1>5 DEF Next

LEMMA SendsStep ==
  ASSUME WorkType, WorkType', [Next]_vars
  PROVE  SendsGrow
  <1>1. sends \in Seq(Sends) /\ sends' \in Seq(Sends) /\ Len(sends) \in Nat
    BY LenProperties DEF WorkType
  <1>2. CASE SendRequest
    <2>1. RequestHash(draft) \in Keys
      BY HashType DEF WorkType
    <2>2. [key |-> RequestHash(draft), phase |-> "hashing"] \in Sends
      BY <2>1 DEF Sends, Phases
    <2>3. Len(sends') = Len(sends) + 1 /\ \A i \in 1..Len(sends) : sends'[i] = sends[i]
      BY <1>1, <1>2, <2>2, Enqueued DEF SendRequest
    <2>. QED  BY <1>1, <2>3 DEF SendsGrow
  <1>3. CASE \E s \in DOMAIN sends : PostRequest(s) \/ ReceiveResponse(s) \/ ReceiveError(s)
    <2>1. PICK s \in DOMAIN sends, ph \in Phases : sends' = [sends EXCEPT ![s].phase = ph]
      BY <1>3 DEF PostRequest, ReceiveResponse, ReceiveError, Phases
    <2>. QED  BY <1>1, <2>1, MovedSend DEF SendsGrow
  <1>4. CASE Reload
    <2> DEFINE lost == {s \in DOMAIN sends : UnderWay(s) \/ Unsaved(KeyOfSend(s))}
    <2>1. sends' = [s \in DOMAIN sends |->
                      IF s \in lost THEN [sends[s] EXCEPT !.phase = "lost"] ELSE sends[s]]
      BY <1>4 DEF Reload
    <2> HIDE DEF lost
    <2>. QED  BY <1>1, <2>1, LostSends DEF SendsGrow
  <1>5. CASE sends' = sends
    BY <1>1, <1>5 DEF SendsGrow
  <1>6. CASE \/ EditDraft \/ DebouncedChange \/ LeaveEditor \/ RefreshConfigs \/ UNCHANGED vars
             \/ OpenOrClosePanel \/ StoreStep
             \/ \E b \in Bodies : TypeBody(b) \/ CopyToHttpReq(b)
             \/ \E id \in TabIds(tabs) : CloseTab(id) \/ SwitchTab(id)
    BY <1>5, <1>6 DEF EditDraft, DebouncedChange, LeaveEditor, RefreshConfigs, TypeBody,
       CopyToHttpReq, workVars, vars, OpenOrClosePanel, StoreStep, CloseTab, SwitchTab
  <1>. QED  BY <1>2, <1>3, <1>4, <1>6 DEF Next

LEMMA StoreIsKept ==
  ASSUME WorkType, WorkType', PanelType', StoreInv, [Next]_vars
  PROVE  StoreInv'
  <1>1. SendsGrow
    BY SendsStep
  <1>2. CASE \E s, st : Advances(s, st)
    BY <1>1, <1>2, StoreUpdate DEF Advances
  <1>3. CASE sends' = sends /\ UNCHANGED history /\ \E k \in Keys : GetResponseState(k)
    BY <1>1, <1>3, StoreRead
  <1>4. CASE StoreStep
    BY <1>4, StorePut, StoreGet, StoreCount, StoreCleanup DEF StoreStep, IndexedDB
  <1>5. CASE Reload /\ \E keys \in Seq(Keys) : LoadStore(keys)
    <2>1. evicted' = evicted /\ interrupted' \in BOOLEAN
      BY <1>5 DEF Reload
    <2>. QED  BY <1>1, <1>5, <2>1, StoreLoad
  <1>6. CASE UNCHANGED <<storeVars, history>>
    BY <1>1, <1>6, StoreSame
  <1>. QED  BY <1>2, <1>3, <1>4, <1>5, <1>6, StoreActions

LEMMA StoreTypes ==
  ASSUME StoreInv
  PROVE  /\ db \in Seq(Entries) /\ Len(db) \in Nat /\ counting \in Nat /\ deleting \in Seq(Nat)
         /\ Excess \in Nat /\ MaxStoredResponses \in Nat /\ ops \in Seq(Ops)
  <1>1. db \in Seq(Entries) /\ counting \in Nat /\ deleting \in Seq(Nat) /\ ops \in Seq(Ops)
    BY DEF StoreInv, StoreType
  <1>2. Excess \in Nat
    <2>1. CASE deleting = <<>>
      BY <2>1 DEF Excess
    <2>2. CASE deleting # <<>>
      <3>1. Len(deleting) \in Nat \ {0}
        BY <1>1, <2>2, EmptySeq
      <3>2. Len(deleting) \in 1..Len(deleting)
        BY <3>1
      <3>. QED  BY <1>1, <2>2, <3>2, ElementOfSeq DEF Excess
    <2>. QED  BY <2>1, <2>2
  <1>. QED  BY <1>1, <1>2, LenProperties, WorkbenchAssumption DEF WorkbenchAssumption

LEMMA Uninterrupted ==
  ASSUME StoreStep, counting' >= counting
  PROVE  ~interrupted' => ~interrupted
  BY DEF StoreStep

\* Writes, counts and deletions in any order leave enough cleanups to come.
LEMMA CleanupsStep ==
  ASSUME WorkType, PanelType', StoreInv, StoreInv', CleanupsSuffice, [Next]_vars
  PROVE  CleanupsSuffice'
  <1>1. /\ db \in Seq(Entries) /\ Len(db) \in Nat /\ counting \in Nat /\ deleting \in Seq(Nat)
        /\ Excess \in Nat /\ MaxStoredResponses \in Nat
    BY StoreTypes
  <1>2. CASE UNCHANGED <<db, counting, deleting, interrupted>>
    BY <1>2 DEF CleanupsSuffice, Excess
  <1>3. CASE Reload /\ \E keys \in Seq(Keys) : LoadStore(keys)
    <2>1. counting' = 0 /\ deleting' = <<>> /\ db' = db
      BY <1>3 DEF LoadStore
    <2>2. ~interrupted' => ~interrupted /\ ~(counting > 0) /\ deleting = <<>>
      BY <1>3 DEF Reload
    <2>3. deleting = <<>> => Excess = 0
      BY DEF Excess
    <2>4. Excess' = 0
      BY <2>1 DEF Excess
    <2>5. counting' = counting \/ counting > 0
      BY <1>1, <2>1
    <2>. QED  BY <2>1, <2>2, <2>3, <2>4, <2>5 DEF CleanupsSuffice
  <1>4. CASE StoreStep /\ RunPut
    <2> DEFINE others == OthersOf(Head(ops).key)
    <2>1. others \in Seq(Entries) /\ Len(others) <= Len(db)
      BY Others
    <2>2. /\ \E e \in Entries : db' = Append(others, e)
          /\ counting' = counting + 1 /\ deleting' = deleting
      BY <1>4, PutIs
    <2> HIDE DEF others
    <2>3. Len(db') = Len(others) + 1 /\ Len(others) \in Nat
      BY <2>1, <2>2, Enqueued
    <2>4. counting' = counting + 1 /\ Excess' = Excess /\ counting' >= counting
      BY <1>1, <2>2 DEF Excess
    <2>5. ~interrupted' => ~interrupted
      BY <1>4, <2>4, Uninterrupted
    <2>. QED  BY <1>1, <2>1, <2>3, <2>4, <2>5 DEF CleanupsSuffice
  <1>5. CASE StoreStep /\ RunGet
    <2>1. UNCHANGED <<db, counting, deleting>>
      BY <1>5 DEF RunGet
    <2>2. ~interrupted' => ~interrupted
      BY <1>1, <1>5, <2>1, Uninterrupted
    <2>. QED  BY <2>1, <2>2 DEF CleanupsSuffice, Excess
  <1>6. CASE StoreStep /\ CountEntries
    <2>1. /\ counting > 0 /\ counting' = counting - 1 /\ db' = db
          /\ deleting' = IF Len(db) > MaxStoredResponses
                           THEN Append(deleting, Len(db) - MaxStoredResponses) ELSE deleting
      BY <1>6 DEF CountEntries
    <2>2. Excess' \in Nat /\ counting' \in Nat
      BY StoreTypes DEF StoreInv, StoreType, Excess
    <2>3. CASE Len(db) > MaxStoredResponses
      <3> DEFINE n == Len(db) - MaxStoredResponses
      <3>1. n \in Nat
        BY <1>1, <2>3
      <3>2. deleting' = Append(deleting, n)
        BY <2>1, <2>3
      <3> HIDE DEF n
      <3>3. deleting' \in Seq(Nat) /\ deleting'[Len(deleting')] = n /\ Len(deleting') \in 1..Len(deleting')
        BY <1>1, <3>1, <3>2, Enqueued
      <3>4. deleting' # <<>>
        BY <3>3, EmptySeq
      <3>5. Excess' = n
        BY <3>3, <3>4 DEF Excess
      <3>6. Len(db) = MaxStoredResponses + n /\ db' = db
        BY <1>1, <2>1 DEF n
      <3>. QED  BY <1>1, <2>2, <3>1, <3>5, <3>6 DEF CleanupsSuffice
    <2>4. CASE ~(Len(db) > MaxStoredResponses)
      <3>1. Len(db') <= MaxStoredResponses
        BY <1>1, <2>1, <2>4
      <3>2. Len(db') \in Nat
        BY <1>1, <2>1
      <3>. QED  BY <1>1, <2>2, <3>1, <3>2 DEF CleanupsSuffice
    <2>. QED  BY <2>3, <2>4
  <1>7. CASE StoreStep /\ CleanupEntries
    <2> DEFINE n == Head(deleting)
    <2>1. /\ deleting # <<>> /\ deleting' = Tail(deleting) /\ db' = SubSeq(db, n + 1, Len(db))
          /\ counting' = counting
      BY <1>7 DEF CleanupEntries
    <2>2. /\ n \in Nat /\ n = deleting[1] /\ Len(deleting) \in Nat \ {0}
          /\ deleting' \in Seq(Nat) /\ Len(deleting') = Len(deleting) - 1
          /\ \A i \in 1..Len(deleting') : deleting'[i] = deleting[i + 1]
      BY <1>1, <2>1, Dequeued
    <2> HIDE DEF n
    <2>3. Len(db') = IF n < Len(db) THEN Len(db) - n ELSE 0
      BY <1>1, <2>1, <2>2, CutOff
    <2>4. ~interrupted' => ~interrupted
      BY <1>1, <1>7, <2>1, Uninterrupted
    <2>5. CASE Len(deleting) = 1
      <3>1. Excess = n
        BY <2>1, <2>2, <2>5 DEF Excess
      <3>2. deleting' = <<>>
        BY <2>2, <2>5, EmptySeq
      <3>3. Excess' = 0
        BY <3>2 DEF Excess
      <3>4. ~interrupted' => Len(db) <= MaxStoredResponses + counting + n
        BY <2>4, <3>1 DEF CleanupsSuffice
      <3>5. Len(db) \in Nat /\ counting' \in Nat
        BY <1>1, <2>1
      <3>6. ~interrupted' => Len(db') <= MaxStoredResponses + counting'
        <4>1. /\ MaxStoredResponses \in Nat /\ counting \in Nat /\ counting' = counting
              /\ n \in Nat /\ Len(db) \in Nat
          BY <1>1, <2>1, <2>2
        <4>2. \A l, m, c, d \in Nat :
                l <= m + c + d => (IF d < l THEN l - d ELSE 0) <= m + c
          OBVIOUS
        <4>3. ~interrupted' => (IF n < Len(db) THEN Len(db) - n ELSE 0) <= MaxStoredResponses + counting
          BY <3>4, <4>1, <4>2
        <4>. QED  BY <2>3, <4>1, <4>3
      <3>. QED  BY <1>1, <3>3, <3>5, <3>6 DEF CleanupsSuffice
    <2>6. CASE Len(deleting) # 1
      <3>1. Len(deleting') \in 1..Len(deleting') /\ Len(deleting') + 1 = Len(deleting)
        BY <2>2, <2>6
      <3>2. deleting'[Len(deleting')] = deleting[Len(deleting)]
        BY <2>2, <3>1
      <3>3. deleting' # <<>>
        BY <3>1, <2>2, EmptySeq
      <3>4. Excess' = Excess
        BY <2>1, <3>2, <3>3 DEF Excess
      <3>. QED  BY <1>1, <2>1, <2>2, <2>3, <2>4, <3>4 DEF CleanupsSuffice
    <2>. QED  BY <2>2, <2>5, <2>6
  <1>8. CASE \/ \E s, st : Advances(s, st)
             \/ UNCHANGED history /\ \E k \in Keys : GetResponseState(k)
             \/ UNCHANGED <<storeVars, history>>
    BY <1>2, <1>8 DEF Advances, UpdateResponseState, GetResponseState, storeVars, history
  <1>. QED  BY <1>3, <1>4, <1>5, <1>6, <1>7, <1>8, StoreActions DEF StoreStep, IndexedDB

-----------------------------------------------------------------------------
(* The outcome of a request.                                               *)

LEMMA SavedEnqueue ==
  ASSUME NEW gone, NEW q \in Seq(Ops), NEW store, NEW key, NEW o \in Ops, ~IsPut(o, key),
         IsSaved(gone, q, store, key)
  PROVE  IsSaved(gone, Append(q, o), store, key)
  <1> DEFINE r == Append(q, o)
  <1>1. /\ Len(r) = Len(q) + 1 /\ Len(q) \in Nat
        /\ \A i \in 1..Len(q) : i \in 1..Len(r) /\ r[i] = q[i]
        /\ r[Len(r)] = o
        /\ \A i \in 1..Len(r) : i # Len(r) => i \in 1..Len(q)
    BY Enqueued
  <1> HIDE DEF r
  <1>2. CASE IsQueued(q, key)
    <2>1. PICK i \in 1..Len(q) : /\ IsPut(q[i], key) /\ Final(q[i].state)
                                 /\ \A j \in 1..Len(q) : i < j => ~IsPut(q[j], key)
      BY <1>2 DEF IsQueued
    <2>2. \A j \in 1..Len(r) : i < j => ~IsPut(r[j], key)
      BY <1>1, <2>1
    <2>. QED  BY <1>1, <2>1, <2>2 DEF IsSaved, IsQueued, r
  <1>3. CASE IsStored(q, store, key)
    <2>1. \A j \in 1..Len(r) : ~IsPut(r[j], key)
      BY <1>1, <1>3 DEF IsStored
    <2>. QED  BY <1>3, <2>1 DEF IsSaved, IsStored, r
  <1>. QED  BY <1>2, <1>3 DEF IsSaved

LEMMA QueuedNow ==
  ASSUME NEW q \in Seq(Ops), NEW key, NEW o \in Ops, IsPut(o, key), Final(o.state)
  PROVE  IsQueued(Append(q, o), key)
  <1> DEFINE r == Append(q, o)
  <1>1. Len(r) \in 1..Len(r) /\ r[Len(r)] = o
    BY Enqueued
  <1> HIDE DEF r
  <1>2. \A j \in 1..Len(r) : ~(Len(r) < j)
    BY <1>1
  <1>. QED  BY <1>1, <1>2 DEF IsQueued, r

\* The first operation is not a write of the key.
LEMMA SavedDequeue ==
  ASSUME NEW gone, NEW q \in Seq(Ops), q # <<>>, NEW store, NEW key, ~IsPut(Head(q), key),
         IsSaved(gone, q, store, key)
  PROVE  IsSaved(gone, Tail(q), store, key)
  <1> DEFINE r == Tail(q)
  <1>1. /\ Head(q) = q[1]
        /\ \A i \in 1..Len(r) : i + 1 \in 1..Len(q) /\ r[i] = q[i + 1]
        /\ \A i \in 1..Len(q) : i # 1 => i - 1 \in 1..Len(r) /\ r[i - 1] = q[i]
    BY Dequeued
  <1> HIDE DEF r
  <1>2. CASE IsQueued(q, key)
    <2>1. PICK i \in 1..Len(q) : /\ IsPut(q[i], key) /\ Final(q[i].state)
                                 /\ \A j \in 1..Len(q) : i < j => ~IsPut(q[j], key)
      BY <1>2 DEF IsQueued
    <2>2. i # 1
      BY <1>1, <2>1
    <2>3. i - 1 \in 1..Len(r) /\ r[i - 1] = q[i]
      BY <1>1, <2>2
    <2>4. \A j \in 1..Len(r) : i - 1 < j => ~IsPut(r[j], key)
      <3> SUFFICES ASSUME NEW j \in 1..Len(r), i - 1 < j
                   PROVE  ~IsPut(r[j], key)
        OBVIOUS
      <3>1. i < j + 1 /\ j + 1 \in 1..Len(q) /\ r[j] = q[j + 1]
        BY <1>1
      <3>. QED  BY <2>1, <3>1
    <2>. QED  BY <2>1, <2>3, <2>4 DEF IsSaved, IsQueued, r
  <1>3. CASE IsStored(q, store, key)
    <2>1. \A j \in 1..Len(r) : ~IsPut(r[j], key)
      BY <1>1, <1>3 DEF IsStored
    <2>. QED  BY <1>3, <2>1 DEF IsSaved, IsStored, r
  <1>. QED  BY <1>2, <1>3 DEF IsSaved

\* A write puts the outcome it has into the store, and leaves those of other keys.
LEMMA SavedPut ==
  ASSUME StoreInv, RunPut, NEW gone, NEW key, IsSaved(gone, ops, db, key)
  PROVE  IsSaved(gone, ops', db', key)
  <1> DEFINE o == Head(ops)
             e == [key |-> o.key, state |-> o.state]
             others == OthersOf(o.key)
  <1>1. /\ db' = Append(others, e) /\ e \in Entries /\ o.op = "put"
        /\ ops # <<>> /\ ops' = Tail(ops)
    BY PutIs
  <1>2. /\ others \in Seq(Entries)
        /\ \A j \in 1..Len(db) : db[j].key # o.key => \E i \in 1..Len(others) : others[i] = db[j]
    BY Others
  <1>3. e.key = o.key /\ e.state = o.state
    OBVIOUS
  <1>4. /\ ops \in Seq(Ops) /\ o = ops[1] /\ 1 \in 1..Len(ops)
        /\ \A i \in 1..Len(ops') : i + 1 \in 1..Len(ops) /\ ops'[i] = ops[i + 1]
    BY <1>1, TakenOp, StoreTypes
  <1>5. /\ \A i \in 1..Len(others) : i \in 1..Len(db') /\ db'[i] = others[i]
        /\ Len(db') \in 1..Len(db') /\ db'[Len(db')] = e
    BY <1>1, <1>2, Enqueued
  <1>6. CASE o.key # key
    <2>1. ~IsPut(Head(ops), key)
      BY <1>6 DEF IsPut
    <2>2. IsSaved(gone, ops', db, key)
      <3>1. IsSaved(gone, Tail(ops), db, key)
        BY <1>1, <1>4, <2>1, SavedDequeue, SMTT(20)
      <3>. QED  BY <1>1, <3>1
    <2> HIDE DEF o, e, others
    <2>3. IsStored(ops', db, key) => IsStored(ops', db', key)
      <3> SUFFICES ASSUME NEW i \in 1..Len(db), db[i].key = key, Final(db[i].state)
                   PROVE  \E n \in 1..Len(db') : db'[n].key = key /\ Final(db'[n].state)
        BY DEF IsStored
      <3>1. PICK n \in 1..Len(others) : others[n] = db[i]
        BY <1>2, <1>6
      <3>. QED  BY <1>5, <3>1
    <2>. QED  BY <2>2, <2>3 DEF IsSaved
  <1>7. CASE o.key = key
    <2>1. IsPut(ops[1], key)
      BY <1>1, <1>4, <1>7 DEF IsPut
    <2>2. ~IsStored(ops, db, key)
      BY <1>4, <2>1 DEF IsStored
    <2>3. CASE IsQueued(ops, key)
      <3>1. PICK i \in 1..Len(ops) : /\ IsPut(ops[i], key) /\ Final(ops[i].state)
                                     /\ \A j \in 1..Len(ops) : i < j => ~IsPut(ops[j], key)
        BY <2>3 DEF IsQueued
      <3>2. CASE i = 1
        <4> HIDE DEF e, others
        <4>1. Final(e.state) /\ e.key = key
          BY <1>3, <1>4, <1>7, <3>1, <3>2
        <4>2. \A j \in 1..Len(ops') : ~IsPut(ops'[j], key)
          <5> SUFFICES ASSUME NEW j \in 1..Len(ops')
                       PROVE  ~IsPut(ops'[j], key)
            OBVIOUS
          <5>1. j + 1 \in 1..Len(ops) /\ 1 < j + 1 /\ ops'[j] = ops[j + 1]
            BY <1>4
          <5>. QED  BY <3>1, <3>2, <5>1
        <4>3. IsStored(ops', db', key)
          BY <1>5, <4>1, <4>2 DEF IsStored
        <4>. QED  BY <4>3 DEF IsSaved
      <3>3. CASE i # 1
        <4>1. i - 1 \in 1..Len(ops') /\ ops'[i - 1] = ops[i]
          BY <1>1, <3>3, TakenOp
        <4>2. \A j \in 1..Len(ops') : i - 1 < j => ~IsPut(ops'[j], key)
          <5> SUFFICES ASSUME NEW j \in 1..Len(ops'), i - 1 < j
                       PROVE  ~IsPut(ops'[j], key)
            OBVIOUS
          <5>1. j + 1 \in 1..Len(ops) /\ i < j + 1 /\ ops'[j] = ops[j + 1]
            BY <1>4
          <5>. QED  BY <3>1, <5>1
        <4>. QED  BY <3>1, <4>1, <4>2 DEF IsSaved, IsQueued
      <3>. QED  BY <3>2, <3>3
    <2>. QED  BY <2>2, <2>3 DEF IsSaved
  <1>. QED  BY <1>6, <1>7

\* A cleanup takes the outcome from the store, or leaves it.
LEMMA SavedCleanup ==
  ASSUME StoreInv, StoreStep, CleanupEntries, NEW key, IsSaved(evicted, ops, db, key)
  PROVE  IsSaved(evicted', ops', db', key)
  <1> DEFINE n == Head(deleting)
  <1>1. /\ deleting # <<>> /\ db' = SubSeq(db, n + 1, Len(db)) /\ ops' = ops
        /\ evicted' = evicted \cup ({db[i].key : i \in DOMAIN db} \ {db'[i].key : i \in DOMAIN db'})
    BY DEF CleanupEntries, StoreStep
  <1>2. /\ db \in Seq(Entries) /\ deleting \in Seq(Nat) /\ DOMAIN db = 1..Len(db)
        /\ \A i, j \in 1..Len(db) : db[i].key = db[j].key => i = j
    BY LenProperties DEF StoreInv, StoreType, OneEntry
  <1>3. n \in Nat
    BY <1>1, <1>2, Dequeued
  <1> HIDE DEF n
  <1>4. /\ db' \in Seq(Entries)
        /\ \A i \in 1..Len(db') : i + n \in 1..Len(db) /\ db'[i] = db[i + n]
    BY <1>1, <1>2, <1>3, CutOff
  <1>5. DOMAIN db' = 1..Len(db')
    BY <1>4, LenProperties
  <1>6. CASE key \in evicted \/ IsQueued(ops, key)
    BY <1>1, <1>6 DEF IsSaved
  <1>7. CASE IsStored(ops, db, key)
    <2>1. PICK i \in 1..Len(db) : db[i].key = key /\ Final(db[i].state)
      BY <1>7 DEF IsStored
    <2>2. CASE \E j \in 1..Len(db') : db'[j].key = key
      <3>1. PICK j \in 1..Len(db') : db'[j].key = key
        BY <2>2
      <3>2. j + n = i
        BY <1>2, <1>4, <2>1, <3>1
      <3>3. IsStored(ops', db', key)
        BY <1>1, <1>4, <1>7, <2>1, <3>1, <3>2 DEF IsStored
      <3>. QED  BY <3>3 DEF IsSaved
    <2>3. CASE \A j \in 1..Len(db') : db'[j].key # key
      <3>1. key \in evicted'
        BY <1>1, <1>2, <1>5, <2>1, <2>3
      <3>. QED  BY <3>1 DEF IsSaved
    <2>. QED  BY <2>2, <2>3
  <1>. QED  BY <1>6, <1>7 DEF IsSaved

LEMMA StoreGrows ==
  ASSUME StoreStep
  PROVE  sends' = sends /\ evicted \subseteq evicted'
  BY DEF StoreStep, workVars

LEMMA OutcomesStep ==
  ASSUME WorkType, WorkType', KeysDiffer, PanelType', StoreInv, OutcomesAreSaved, [Next]_vars
  PROVE  OutcomesAreSaved'
  <1> SUFFICES ASSUME NEW t \in 1..Len(sends'), Finished(sends'[t].phase)
               PROVE  IsSaved(evicted', ops', db', sends'[t].key)
    BY DEF OutcomesAreSaved, Finished
  <1> DEFINE WasSaved == /\ t \in 1..Len(sends) /\ sends'[t].key = sends[t].key
                         /\ IsSaved(evicted, ops, db, sends[t].key)
  <1>1. ASSUME t \in 1..Len(sends), sends'[t].key = sends[t].key, sends'[t].phase = sends[t].phase
        PROVE  WasSaved
    BY <1>1 DEF OutcomesAreSaved, Finished
  <1> HIDE DEF WasSaved
  <1>2. ops \in Seq(Ops) /\ sends \in Seq(Sends) /\ Len(sends) \in Nat
    BY StoreTypes, LenProperties DEF WorkType
  <1>3. CASE \E s, st : Advances(s, st)
    <2>1. PICK s, st : Advances(s, st)
      BY <1>3
    <2> DEFINE k == sends[s].key
    <2>2. /\ s \in 1..Len(sends) /\ k \in Keys /\ st \in States
          /\ ops' = Append(ops, Put(k, st)) /\ db' = db /\ evicted' = evicted
          /\ Len(sends') = Len(sends)
          /\ \A u \in 1..Len(sends) : sends'[u].key = sends[u].key
                                      /\ (u # s => sends'[u].phase = sends[u].phase)
          /\ Finished(sends'[s].phase) => Final(st)
      BY <2>1 DEF Advances, UpdateResponseState, history
    <2>3. /\ Put(k, st) \in Ops /\ Put(k, st).op = "put"
          /\ Put(k, st).key = k /\ Put(k, st).state = st
      BY <2>2, OpType DEF StoreInv
    <2> HIDE DEF k
    <2>4. CASE t = s
      <3>1. Final(Put(k, st).state) /\ IsPut(Put(k, st), k)
        BY <2>2, <2>3, <2>4 DEF IsPut
      <3>2. IsQueued(ops', k)
        BY <1>2, <2>2, <2>3, <3>1, QueuedNow
      <3>3. sends'[t].key = k
        BY <2>2, <2>4 DEF k
      <3>. QED  BY <3>2, <3>3 DEF IsSaved
    <2>5. CASE t # s
      <3>1. t \in 1..Len(sends) /\ WasSaved
        BY <1>1, <2>2, <2>5
      <3>2. sends[t].key # k
        BY <2>2, <2>5, <3>1 DEF KeysDiffer, KeyOfSend, k
      <3>3. ~IsPut(Put(k, st), sends[t].key)
        BY <2>3, <3>2 DEF IsPut
      <3>4. IsSaved(evicted, ops, db, sends[t].key) /\ sends'[t].key = sends[t].key
        BY <3>1 DEF WasSaved
      <3>5. IsSaved(evicted, ops', db, sends[t].key)
        BY <1>2, <2>2, <2>3, <3>3, <3>4, SavedEnqueue
      <3>. QED  BY <2>2, <3>4, <3>5
    <2>. QED  BY <2>4, <2>5
  <1>4. CASE sends' = sends /\ UNCHANGED history /\ \E k \in Keys : GetResponseState(k)
    <2>1. WasSaved /\ db' = db /\ evicted' = evicted
      BY <1>1, <1>4 DEF history, GetResponseState
    <2>2. IsSaved(evicted, ops, db, sends[t].key) /\ sends'[t].key = sends[t].key
      BY <2>1 DEF WasSaved
    <2>3. PICK k \in Keys : ops' = ops \/ ops' = Append(ops, Get(k))
      BY <1>4 DEF GetResponseState
    <2>4. CASE ops' = Append(ops, Get(k))
      <3>1. EmptyState \in States
        BY DEF EmptyState, States, NoData
      <3>2. Get(k) \in Ops /\ Get(k).op = "get"
        BY <3>1, OpType DEF StoreInv
      <3>3. ~IsPut(Get(k), sends[t].key)
        BY <3>2 DEF IsPut
      <3>. QED  BY <1>2, <2>1, <2>2, <2>4, <3>2, <3>3, SavedEnqueue
    <2>. QED  BY <2>1, <2>2, <2>3, <2>4
  <1>5. CASE StoreStep
    <2>1. sends' = sends /\ evicted \subseteq evicted'
      BY <1>5, StoreGrows
    <2>2. IsSaved(evicted, ops, db, sends[t].key) /\ sends'[t].key = sends[t].key
      BY <1>1, <2>1 DEF WasSaved
    <2>3. CASE RunPut
      <3>1. IsSaved(evicted, ops', db', sends[t].key)
        BY <2>2, <2>3, SavedPut
      <3>. QED  BY <2>1, <2>2, <3>1 DEF IsSaved
    <2>4. CASE RunGet
      <3>1. ops # <<>> /\ Head(ops).op = "get" /\ ops' = Tail(ops) /\ db' = db
        BY <2>4 DEF RunGet
      <3>2. ~IsPut(Head(ops), sends[t].key)
        BY <3>1 DEF IsPut
      <3>3. IsSaved(evicted, ops', db', sends[t].key)
        BY <1>2, <2>2, <3>1, <3>2, SavedDequeue
      <3>. QED  BY <2>1, <2>2, <3>3 DEF IsSaved
    <2>5. CASE CountEntries
      <3>1. ops' = ops /\ db' = db
        BY <2>5 DEF CountEntries
      <3>. QED  BY <2>1, <2>2, <3>1 DEF IsSaved
    <2>6. CASE CleanupEntries
      BY <1>5, <2>2, <2>6, SavedCleanup
    <2>. QED  BY <1>5, <2>3, <2>4, <2>5, <2>6 DEF StoreStep, IndexedDB
  <1>6. CASE Reload /\ \E keys \in Seq(Keys) : LoadStore(keys)
    <2> DEFINE lost == {s \in DOMAIN sends : UnderWay(s) \/ Unsaved(KeyOfSend(s))}
    <2>1. /\ sends' = [s \in DOMAIN sends |->
                         IF s \in lost THEN [sends[s] EXCEPT !.phase = "lost"] ELSE sends[s]]
          /\ evicted' = evicted
      BY <1>6 DEF Reload
    <2>2. /\ \A i \in 1..Len(ops') : ops'[i].op = "get"
          /\ db' = db
      BY <1>6, LoadedOps DEF StoreInv, LoadStore
    <2> HIDE DEF lost
    <2>3. /\ Len(sends') = Len(sends)
          /\ \A u \in 1..Len(sends) :
               /\ sends'[u].key = sends[u].key
               /\ sends'[u].phase = IF u \in lost THEN "lost" ELSE sends[u].phase
      BY <1>2, <2>1, LostSends
    <2>4. t \in 1..Len(sends) /\ t \notin lost /\ sends'[t].phase = sends[t].phase
      BY <2>3 DEF Finished
    <2>5. IsSaved(evicted, ops, db, sends[t].key) /\ sends'[t].key = sends[t].key
      BY <1>1, <2>3, <2>4 DEF WasSaved
    <2>6. ~Unsaved(sends[t].key)
      BY <1>2, <2>4, LenProperties DEF lost, KeyOfSend
    <2>7. ~IsQueued(ops, sends[t].key)
      BY <1>2, <2>6, LenProperties DEF IsQueued, IsPut, Unsaved
    <2>8. \A i \in 1..Len(ops') : ~IsPut(ops'[i], sends[t].key)
      BY <2>2 DEF IsPut
    <2>9. sends[t].key \in evicted \/ IsStored(ops, db, sends[t].key)
      BY <2>5, <2>7 DEF IsSaved
    <2>10. IsStored(ops, db, sends[t].key) => IsStored(ops', db', sends[t].key)
      BY <2>2, <2>8 DEF IsStored
    <2>11. IsSaved(evicted', ops', db', sends[t].key)
      BY <2>1, <2>9, <2>10 DEF IsSaved
    <2>. QED  BY <2>5, <2>11
  <1>7. CASE /\ UNCHANGED <<storeVars, history>>
             /\ \A u \in 1..Len(sends') :
                  Finished(sends'[u].phase) => u \in 1..Len(sends) /\ sends'[u] = sends[u]
    <2>1. WasSaved
      BY <1>1, <1>7
    <2>. QED  BY <1>7, <2>1 DEF WasSaved, storeVars, history
  <1>. QED  BY <1>3, <1>4, <1>5, <1>6, <1>7, StoreActions

-----------------------------------------------------------------------------
(* The invariant and the theorems.                                         *)

LEMMA StoreInitially == Init => StoreInv /\ CleanupsSuffice /\ OutcomesAreSaved
  <1> SUFFICES ASSUME Init
               PROVE  StoreInv /\ CleanupsSuffice /\ OutcomesAreSaved
    OBVIOUS
  <1>1. responseMap = <<>> /\ db = <<>> /\ ops = <<>> /\ deleting = <<>> /\ evicted = {}
    BY DEF Init, StoreInit
  <1>2. counting = 0
    BY DEF Init, StoreInit
  <1>3. interrupted \in BOOLEAN
    BY DEF Init
  <1>4. 1..Len(<<>>) = {} /\ Len(<<>>) = 0
    OBVIOUS
  <1>5. responseMap \in Maps /\ db \in Seq(Entries) /\ ops \in Seq(Ops) /\ deleting \in Seq(Nat)
    BY <1>1, NoMap, EmptySeq
  <1>6. counting \in Nat
    BY <1>2
  <1>7. StoreType
    BY <1>1, <1>3, <1>5, <1>6 DEF StoreType
  <1>8. StatesAreOwn /\ OneEntry
    BY <1>1, <1>4, OwnEmpty DEF StatesAreOwn, OneEntry
  <1>9. Len(db) = 0 /\ Excess = 0 /\ MaxStoredResponses \in Nat
    BY <1>1, <1>4, WorkbenchAssumption DEF Excess, WorkbenchAssumption
  <1>10. CleanupsSuffice
    BY <1>2, <1>9 DEF CleanupsSuffice
  <1>11. sends = <<>>
    BY DEF Init
  <1>12. OutcomesAreSaved
    BY <1>4, <1>11 DEF OutcomesAreSaved
  <1>. QED  BY <1>7, <1>8, <1>10, <1>12 DEF StoreInv

LEMMA CounterInit == Init => CounterType
  <1>1. Init => reloads = 0 /\ edits = 0 /\ switches = 0
    BY DEF Init
  <1>. QED  BY <1>1 DEF CounterType

LEMMA CounterStep ==
  ASSUME CounterType, [Next]_vars
  PROVE  CounterType'
  <1>1. reloads' \in {reloads, reloads + 1} /\ edits' \in {edits, edits + 1}
        /\ switches' \in {switches, switches + 1}
    BY DEF Next, vars, counters, EditDraft, DebouncedChange, LeaveEditor, RefreshConfigs, TypeBody,
       CopyToHttpReq, SendRequest, PostRequest, ReceiveResponse, ReceiveError, CloseTab, SwitchTab,
       OpenOrClosePanel, StoreStep, Reload
  <1>. QED  BY <1>1 DEF CounterType

\* The invariant of the workbench is inductive.
LEMMA WorkbenchInductive == Spec => []WorkbenchInv
  <1>1. Init => WorkbenchInv
    BY WorkInit, PanelInit, StoreInitially, CounterInit DEF WorkbenchInv, TypeOK, StoreInv
  <1>2. WorkbenchInv /\ [Next]_vars => WorkbenchInv'
    <2> SUFFICES ASSUME WorkbenchInv, [Next]_vars
                 PROVE  WorkbenchInv'
      OBVIOUS
    <2>1. WorkType' /\ KeysDiffer' /\ EditorShowsDraft'
      BY WorkStep DEF WorkbenchInv, TypeOK
    <2>2. PanelType' /\ PanelsInv'
      BY PanelStep DEF WorkbenchInv, TypeOK
    <2>3. StoreInv
      BY DEF WorkbenchInv, TypeOK, StoreInv
    <2>4. StoreInv'
      BY <2>1, <2>2, <2>3, StoreIsKept DEF WorkbenchInv, TypeOK
    <2>5. CleanupsSuffice'
      BY <2>2, <2>3, <2>4, CleanupsStep DEF WorkbenchInv, TypeOK
    <2>6. OutcomesAreSaved'
      BY <2>1, <2>2, <2>3, OutcomesStep DEF WorkbenchInv, TypeOK
    <2>7. CounterType'
      BY CounterStep DEF WorkbenchInv, TypeOK
    <2>. QED  BY <2>1, <2>2, <2>4, <2>5, <2>6, <2>7 DEF WorkbenchInv, TypeOK, StoreInv
  <1>. QED  BY <1>1, <1>2, PTL DEF Spec

\* Every variable of the draft, the panel, the response store and the editor has
\* its type.
THEOREM WorkbenchTypeCorrect == Spec => []TypeOK
  <1>1. WorkbenchInv => TypeOK
    BY DEF WorkbenchInv
  <1>. QED  BY <1>1, WorkbenchInductive, PTL

\* A response in the map or in IndexedDB is that of the one request with its key,
\* because every send leaves a new timestamp for the next.
THEOREM Attribution == Spec => []ResponseOfItsRequest
  <1>1. ASSUME WorkbenchInv
        PROVE  ResponseOfItsRequest
    <2>1. DOMAIN sends = 1..Len(sends) /\ sends \in Seq(Sends)
      BY <1>1, LenProperties DEF WorkbenchInv, TypeOK, WorkType
    <2>2. DOMAIN db = 1..Len(db)
      BY <1>1, LenProperties DEF WorkbenchInv, TypeOK, StoreType
    <2>3. ASSUME NEW key, NEW state, Own(sends, key, state), state.data # NoData
          PROVE  {s \in DOMAIN sends : KeyOfSend(s) = key} = {state.data}
      BY <1>1, <2>1, <2>3 DEF WorkbenchInv, KeysDiffer, Own, KeyOfSend
    <2>4. \A key \in DOMAIN responseMap : Own(sends, key, responseMap[key])
      BY <1>1 DEF WorkbenchInv, StatesAreOwn, OwnMap
    <2>5. \A i \in DOMAIN db : Own(sends, db[i].key, db[i].state)
      BY <1>1, <2>2 DEF WorkbenchInv, StatesAreOwn
    <2>. QED  BY <2>3, <2>4, <2>5 DEF ResponseOfItsRequest
  <1>. QED  BY <1>1, WorkbenchInductive, PTL

\* The tabs shown, those stored and the active one agree (bottom-panel-store.ts).
THEOREM PanelAgreement == Spec => []PanelsAgree
  <1>1. ASSUME WorkbenchInv
        PROVE  PanelsAgree
    <2>1. DOMAIN tabs = 1..Len(tabs)
      BY <1>1, LenProperties DEF WorkbenchInv, TypeOK, PanelType
    <2>. QED  BY <1>1, <2>1 DEF WorkbenchInv, PanelsInv, TabsDiffer, PanelsAgree
  <1>. QED  BY <1>1, WorkbenchInductive, PTL

\* MAX_STORED_RESPONSES bounds the store when no cleanup is to come, however many
\* writes, counts and deletions overlapped.
THEOREM Bound == Spec => []StoreBounded
  <1>1. ASSUME WorkbenchInv
        PROVE  StoreBounded
    <2>1. SUFFICES ASSUME counting = 0, deleting = <<>>, ~interrupted
                   PROVE  Len(db) <= MaxStoredResponses
      BY DEF StoreBounded
    <2>2. Len(db) <= MaxStoredResponses + counting + Excess
      BY <1>1, <2>1 DEF WorkbenchInv, CleanupsSuffice
    <2>3. Excess = 0
      BY <2>1 DEF Excess
    <2>4. MaxStoredResponses \in Nat
      BY WorkbenchAssumption DEF WorkbenchAssumption
    <2>. QED  BY <2>1, <2>2, <2>3, <2>4
  <1>. QED  BY <1>1, WorkbenchInductive, PTL

\* The outcome of a request is never lost but by the cleanup.
THEOREM Keeping == Spec => []OutcomeIsKept
  <1>1. ASSUME WorkbenchInv
        PROVE  OutcomeIsKept
    <2>1. DOMAIN sends = 1..Len(sends)
      BY <1>1, LenProperties DEF WorkbenchInv, TypeOK, WorkType
    <2>2. DOMAIN db = 1..Len(db) /\ DOMAIN ops = 1..Len(ops)
      BY <1>1, LenProperties DEF WorkbenchInv, TypeOK, StoreType
    <2> SUFFICES ASSUME NEW s \in 1..Len(sends), sends[s].phase \in {"answered", "failed"}
                 PROVE  \/ \E i \in DOMAIN ops : /\ ops[i].op = "put" /\ ops[i].key = KeyOfSend(s)
                                                 /\ Final(ops[i].state)
                        \/ \E i \in DOMAIN db : db[i].key = KeyOfSend(s) /\ Final(db[i].state)
                        \/ KeyOfSend(s) \in evicted
      BY <2>1 DEF OutcomeIsKept
    <2>3. IsSaved(evicted, ops, db, KeyOfSend(s))
      BY <1>1 DEF WorkbenchInv, OutcomesAreSaved, KeyOfSend
    <2>. QED  BY <2>2, <2>3 DEF IsSaved, IsQueued, IsStored, IsPut
  <1>. QED  BY <1>1, WorkbenchInductive, PTL

\* The editor that the user is not typing in shows the body a request is sent
\* with (json-editor.tsx).
THEOREM EditorAgreement == Spec => []EditorShowsDraft
  <1>1. WorkbenchInv => EditorShowsDraft
    BY DEF WorkbenchInv
  <1>. QED  BY <1>1, WorkbenchInductive, PTL

-----------------------------------------------------------------------------
(* The connection: what is on its way to the server.                       *)

\* LastIs and WillHave for any requests on their way and any topics at the server.
Request(type, t) == [type |-> type, topic |-> t]
LastOf(q, t, type) ==
  \E n \in 1..Len(q) : q[n] = Request(type, t) /\ \A m \in 1..Len(q) : m > n => q[m].topic # t
Will(q, set, t) == LastOf(q, t, "subscribe") \/ (t \in set /\ ~LastOf(q, t, "unsubscribe"))

\* One of the two queues is empty; what is on its way is the other one.
QueueOrWire ==
  /\ readyState = "connecting" => wire = <<>> /\ topics = {}
  /\ readyState = "open" => queue = <<>>
OnTheirWay == IF readyState = "open" THEN wire ELSE queue

Follows(q, set, wanted, calm) ==
  \A t \in Topics : /\ Will(q, set, t) => t \in wanted
                    /\ calm /\ t \in wanted => Will(q, set, t)
TabInv ==
  /\ ConnectionTypeOK /\ QueueOrWire
  /\ Follows(OnTheirWay, topics, Wanted, losses = 0)

\* A request of the queue is one or the other for its topic.
LEMMA RequestIs ==
  ASSUME NEW x \in Requests
  PROVE  /\ x.topic \in Topics /\ x.type \in {"subscribe", "unsubscribe"}
         /\ x = Request(x.type, x.topic)
  BY DEF Requests, Request

LEMMA RequestType ==
  ASSUME NEW type \in {"subscribe", "unsubscribe"}, NEW t \in Topics
  PROVE  Request(type, t) \in Requests /\ Request(type, t).type = type /\ Request(type, t).topic = t
  BY DEF Requests, Request

\* A request is appended: it decides for its topic, and for no other.
LEMMA WillAppend ==
  ASSUME NEW q \in Seq(Requests), NEW type \in {"subscribe", "unsubscribe"},
         NEW t \in Topics, NEW set, NEW u \in Topics
  PROVE  Will(Append(q, Request(type, t)), set, u)
           <=> IF u = t THEN type = "subscribe" ELSE Will(q, set, u)
  <1> DEFINE x == Request(type, t)
             r == Append(q, x)
  <1>1. x \in Requests /\ x.type = type /\ x.topic = t
    BY RequestType
  <1> HIDE DEF x
  <1>2. /\ Len(r) = Len(q) + 1 /\ Len(q) \in Nat
        /\ \A i \in 1..Len(q) : i \in 1..Len(r) /\ r[i] = q[i] /\ q[i] \in Requests
        /\ Len(r) \in 1..Len(r) /\ r[Len(r)] = x
        /\ \A i \in 1..Len(r) : i # Len(r) => i \in 1..Len(q)
    <2>1. /\ r \in Seq(Requests) /\ Len(r) = Len(q) + 1 /\ Len(q) \in Nat
          /\ \A i \in 1..Len(q) : r[i] = q[i] /\ q[i] \in Requests
          /\ r[Len(q) + 1] = x
      BY <1>1, ElementOfSeq, LenProperties
    <2>. QED  BY <2>1
  <1> HIDE DEF r
  <1>3. \A kind : Request(kind, u).topic = u /\ Request(kind, u).type = kind
    BY DEF Request
  <1>4. CASE u = t
    <2>1. \A kind \in {"subscribe", "unsubscribe"} : LastOf(r, t, kind) => kind = type
      <3> SUFFICES ASSUME NEW kind \in {"subscribe", "unsubscribe"}, LastOf(r, t, kind)
                   PROVE  kind = type
        OBVIOUS
      <3>1. PICK n \in 1..Len(r) : r[n] = Request(kind, t) /\ \A m \in 1..Len(r) : m > n => r[m].topic # t
        BY DEF LastOf
      <3>2. n = Len(r)
        BY <3>1, <1>1, <1>2
      <3>. QED  BY <3>1, <3>2, <1>1, <1>2, <1>3, <1>4
    <2>2. LastOf(r, t, type)
      <3>1. r[Len(r)] = Request(type, t)
        BY <1>2 DEF x
      <3>2. \A m \in 1..Len(r) : ~(m > Len(r))
        BY <1>2
      <3>. QED  BY <3>1, <3>2, <1>2 DEF LastOf
    <2>. QED  BY <2>1, <2>2, <1>4 DEF Will, r, x
  <1>5. CASE u # t
    <2>1. \A kind : LastOf(r, u, kind) <=> LastOf(q, u, kind)
      <3> SUFFICES ASSUME NEW kind
                   PROVE  LastOf(r, u, kind) <=> LastOf(q, u, kind)
        OBVIOUS
      <3>1. ASSUME LastOf(r, u, kind)
            PROVE  LastOf(q, u, kind)
        <4>1. PICK n \in 1..Len(r) : r[n] = Request(kind, u) /\ \A m \in 1..Len(r) : m > n => r[m].topic # u
          BY <3>1 DEF LastOf
        <4>2. n # Len(r)
          BY <4>1, <1>1, <1>2, <1>3, <1>5
        <4>3. n \in 1..Len(q) /\ q[n] = Request(kind, u)
          BY <4>1, <4>2, <1>2
        <4>4. \A m \in 1..Len(q) : m > n => q[m].topic # u
          BY <4>1, <1>2
        <4>. QED  BY <4>3, <4>4 DEF LastOf
      <3>2. ASSUME LastOf(q, u, kind)
            PROVE  LastOf(r, u, kind)
        <4>1. PICK n \in 1..Len(q) : q[n] = Request(kind, u) /\ \A m \in 1..Len(q) : m > n => q[m].topic # u
          BY <3>2 DEF LastOf
        <4>2. n \in 1..Len(r) /\ r[n] = Request(kind, u)
          BY <4>1, <1>2
        <4>3. \A m \in 1..Len(r) : m > n => r[m].topic # u
          BY <4>1, <1>1, <1>2, <1>5
        <4>. QED  BY <4>2, <4>3 DEF LastOf
      <3>. QED  BY <3>1, <3>2
    <2>. QED  BY <2>1, <1>5 DEF Will, r, x
  <1>. QED  BY <1>4, <1>5 DEF r, x

\* A topic that is requested is requested a last time.
LEMMA SomeLast ==
  ASSUME NEW q \in Seq(Requests), NEW t, NEW i \in 1..Len(q), q[i].topic = t
  PROVE  \E n \in 1..Len(q) : q[n].topic = t /\ \A m \in 1..Len(q) : m > n => q[m].topic # t
  <1> DEFINE R == OpToRel(<, Nat)
             S == {k \in Nat : k < Len(q) /\ q[Len(q) - k].topic = t}
  <1>1. IsWellFoundedOn(R, Nat)
    BY NatLessThanWellFounded
  <1>2. \A m, n \in Nat : <<n, m>> \in R <=> n < m
    BY DEF OpToRel
  <1>3. Len(q) \in Nat
    BY LenProperties
  <1>4. S \subseteq Nat /\ S # {}
    <2>1. Len(q) - i \in Nat /\ Len(q) - i < Len(q) /\ Len(q) - (Len(q) - i) = i
      BY <1>3
    <2>2. Len(q) - i \in S
      BY <2>1
    <2>. QED  BY <2>2
  <1>5. \A k \in S : k \in Nat /\ k < Len(q) /\ q[Len(q) - k].topic = t
    OBVIOUS
  <1>6. \A k \in Nat : k < Len(q) /\ q[Len(q) - k].topic = t => k \in S
    OBVIOUS
  <1> HIDE DEF R, S
  <1>7. PICK k \in S : \A j \in S : ~(<<j, k>> \in R)
    BY <1>1, <1>4, WFMin
  <1> DEFINE n == Len(q) - k
  <1>8. n \in 1..Len(q) /\ q[n].topic = t
    BY <1>3, <1>5
  <1>9. \A m \in 1..Len(q) : m > n => q[m].topic # t
    <2> SUFFICES ASSUME NEW m \in 1..Len(q), m > n, q[m].topic = t
                 PROVE  FALSE
      OBVIOUS
    <2>1. Len(q) - m \in Nat /\ Len(q) - m < k /\ Len(q) - m < Len(q) /\ Len(q) - (Len(q) - m) = m
      BY <1>3, <1>5
    <2>2. Len(q) - m \in S
      BY <2>1, <1>6
    <2>. QED  BY <2>1, <2>2, <1>2, <1>5, <1>7
  <1>. QED  BY <1>8, <1>9

\* The server applies the first request: what it will have is the same.
LEMMA WillTail ==
  ASSUME NEW q \in Seq(Requests), q # <<>>, NEW set \in SUBSET Topics, NEW u \in Topics
  PROVE  Will(Tail(q), Applied(Head(q), set), u) <=> Will(q, set, u)
  <1> DEFINE r == Tail(q)
             x == Head(q)
  <1>1. /\ r \in Seq(Requests) /\ Len(r) = Len(q) - 1 /\ Len(q) \in Nat \ {0}
        /\ x = q[1] /\ x \in Requests
        /\ \A i \in 1..Len(r) : i + 1 \in 1..Len(q) /\ r[i] = q[i + 1]
        /\ \A i \in 1..Len(q) : i # 1 => i - 1 \in 1..Len(r) /\ r[i - 1] = q[i]
    <2>1. /\ r \in Seq(Requests) /\ Len(r) = Len(q) - 1 /\ Len(q) \in Nat \ {0} /\ x = q[1]
          /\ \A i \in 1..Len(r) : r[i] = q[i + 1]
      BY HeadTailProperties, EmptySeq
    <2>2. x \in Requests
      BY HeadTailProperties
    <2>. QED  BY <2>1, <2>2
  <1> HIDE DEF r, x
  <1>2. \A kind : Request(kind, u).topic = u /\ Request(kind, u).type = kind
    BY DEF Request
  <1>3. x.type \in {"subscribe", "unsubscribe"} /\ x = Request(x.type, x.topic)
    BY <1>1, RequestIs
  <1>4. \A kind : LastOf(r, u, kind) => LastOf(q, u, kind)
    <2> SUFFICES ASSUME NEW kind, LastOf(r, u, kind)
                 PROVE  LastOf(q, u, kind)
      OBVIOUS
    <2>1. PICK n \in 1..Len(r) : r[n] = Request(kind, u) /\ \A m \in 1..Len(r) : m > n => r[m].topic # u
      BY DEF LastOf
    <2>2. n + 1 \in 1..Len(q) /\ q[n + 1] = Request(kind, u)
      BY <2>1, <1>1
    <2>3. ASSUME NEW m \in 1..Len(q), m > n + 1
          PROVE  q[m].topic # u
      <3>1. m # 1 /\ m - 1 > n
        BY <2>3, <1>1
      <3>2. m - 1 \in 1..Len(r) /\ r[m - 1] = q[m]
        BY <3>1, <1>1
      <3>. QED  BY <3>1, <3>2, <2>1
    <2>. QED  BY <2>2, <2>3 DEF LastOf
  <1>5. \A kind : LastOf(q, u, kind) =>
          LastOf(r, u, kind) \/ (x = Request(kind, u) /\ \A m \in 1..Len(r) : r[m].topic # u)
    <2> SUFFICES ASSUME NEW kind, LastOf(q, u, kind)
                 PROVE  LastOf(r, u, kind) \/ (x = Request(kind, u) /\ \A m \in 1..Len(r) : r[m].topic # u)
      OBVIOUS
    <2>1. PICK n \in 1..Len(q) : q[n] = Request(kind, u) /\ \A m \in 1..Len(q) : m > n => q[m].topic # u
      BY DEF LastOf
    <2>2. \A m \in 1..Len(r) : m + 1 > n => r[m].topic # u
      BY <2>1, <1>1
    <2>3. CASE n = 1
      <3>1. x = Request(kind, u)
        BY <2>1, <2>3, <1>1
      <3>2. \A m \in 1..Len(r) : m + 1 > n
        BY <2>3, <1>1
      <3>. QED  BY <3>1, <3>2, <2>2
    <2>4. CASE n # 1
      <3>1. n - 1 \in 1..Len(r) /\ r[n - 1] = Request(kind, u)
        BY <2>1, <2>4, <1>1
      <3>2. \A m \in 1..Len(r) : m > n - 1 => m + 1 > n
        BY <1>1
      <3>. QED  BY <3>1, <3>2, <2>2 DEF LastOf
    <2>. QED  BY <2>3, <2>4
  <1>6. CASE x.topic # u
    <2>1. u \in Applied(x, set) <=> u \in set
      BY <1>6 DEF Applied
    <2>2. \A kind : LastOf(q, u, kind) <=> LastOf(r, u, kind)
      BY <1>2, <1>4, <1>5, <1>6
    <2>. QED  BY <2>1, <2>2 DEF Will, r, x
  <1>7. CASE x.topic = u /\ \A m \in 1..Len(r) : r[m].topic # u
    <2>1. \A kind : ~LastOf(r, u, kind)
      BY <1>2, <1>7 DEF LastOf
    <2>2. LastOf(q, u, x.type)
      <3>1. 1 \in 1..Len(q) /\ q[1] = Request(x.type, u)
        BY <1>1, <1>3, <1>7
      <3>2. \A m \in 1..Len(q) : m > 1 => q[m].topic # u
        BY <1>1, <1>7
      <3>. QED  BY <3>1, <3>2 DEF LastOf
    <2>3. \A kind : LastOf(q, u, kind) => kind = x.type
      BY <2>1, <1>2, <1>5
    <2>4. u \in Applied(x, set) <=> x.type = "subscribe"
      BY <1>3, <1>7 DEF Applied
    <2>. QED  BY <2>1, <2>2, <2>3, <2>4, <1>3 DEF Will, r, x
  <1>8. CASE \E m \in 1..Len(r) : r[m].topic = u
    <2>1. PICK n \in 1..Len(r) : r[n].topic = u /\ \A m \in 1..Len(r) : m > n => r[m].topic # u
      BY <1>1, <1>8, SomeLast
    <2>2. r[n] \in Requests
      BY <1>1, ElementOfSeq
    <2>3. r[n].type \in {"subscribe", "unsubscribe"} /\ r[n] = Request(r[n].type, u)
      BY <2>1, <2>2, RequestIs
    <2>4. LastOf(r, u, r[n].type)
      BY <2>1, <2>3 DEF LastOf
    <2>5. \A kind : LastOf(q, u, kind) <=> LastOf(r, u, kind)
      BY <1>4, <1>5, <1>8
    <2>. QED  BY <2>3, <2>4, <2>5 DEF Will, r, x
  <1>. QED  BY <1>6, <1>7, <1>8
-----------------------------------------------------------------------------
(* The connection.                                                         *)

\* The properties' WillHave is about what is on its way.
LEMMA WillHaveIs ==
  ASSUME ConnectionTypeOK, QueueOrWire, NEW t \in Topics
  PROVE  WillHave(t) <=> Will(OnTheirWay, topics, t)
  <1>1. wire \o queue = OnTheirWay
    <2>1. queue \in Seq(Requests) /\ wire \in Seq(Requests) /\ readyState \in {"connecting", "open"}
      BY DEF ConnectionTypeOK
    <2>2. CASE readyState = "open"
      BY <2>1, <2>2, ConcatEmptySeq DEF QueueOrWire, OnTheirWay
    <2>3. CASE readyState = "connecting"
      BY <2>1, <2>3, ConcatEmptySeq DEF QueueOrWire, OnTheirWay
    <2>. QED  BY <2>1, <2>2, <2>3
  <1>2. OnTheirWay \in Seq(Requests)
    BY DEF ConnectionTypeOK, OnTheirWay
  <1>3. \A type : LastIs(t, type) <=> LastOf(OnTheirWay, t, type)
    <2>1. DOMAIN OnTheirWay = 1..Len(OnTheirWay)
      BY <1>2
    <2>. QED  BY <1>1, <2>1 DEF LastIs, LastOf, Request
  <1>. QED  BY <1>3 DEF WillHave, Will

LEMMA ConnectionStart ==
  ASSUME ConnectionInit
  PROVE  TabInv
  <1>1. ConnectionTypeOK /\ QueueOrWire
    <2>1. <<>> \in Seq(Requests)
      OBVIOUS
    <2>. QED  BY <2>1, UiConnectionAssumption DEF ConnectionInit, ConnectionTypeOK, QueueOrWire
  <1>2. OnTheirWay = <<>> /\ topics = {} /\ Wanted = {}
    BY DEF ConnectionInit, OnTheirWay, Wanted
  <1>3. \A t : ~Will(<<>>, {}, t)
    BY DEF Will, LastOf
  <1>. QED  BY <1>1, <1>2, <1>3 DEF TabInv, Follows

\* A request is sent or queued.
LEMMA Sent ==
  ASSUME ConnectionTypeOK, QueueOrWire, NEW type \in {"subscribe", "unsubscribe"}, NEW t \in Topics,
         SendMessage(type, t), UNCHANGED readyState
  PROVE  /\ queue' \in Seq(Requests) /\ wire' \in Seq(Requests)
         /\ OnTheirWay' = Append(OnTheirWay, Request(type, t))
         /\ readyState = "connecting" => wire' = wire
         /\ readyState = "open" => queue' = queue
  <1>1. Request(type, t) \in Requests
    BY RequestType
  <1>2. queue \in Seq(Requests) /\ wire \in Seq(Requests)
    BY DEF ConnectionTypeOK
  <1>3. \A q \in Seq(Requests) : Append(q, Request(type, t)) \in Seq(Requests)
    BY <1>1
  <1>4. CASE readyState = "open"
    <2>1. wire' = Append(wire, Request(type, t)) /\ queue' = queue
      BY <1>4 DEF SendMessage, Request
    <2>. QED  BY <1>2, <1>3, <1>4, <2>1 DEF OnTheirWay
  <1>5. CASE readyState = "connecting"
    <2>1. queue' = Append(queue, Request(type, t)) /\ wire' = wire
      BY <1>5 DEF SendMessage, Request
    <2>. QED  BY <1>2, <1>3, <1>5, <2>1 DEF OnTheirWay
  <1>. QED  BY <1>4, <1>5 DEF ConnectionTypeOK

\* A callback comes or goes: the topics wanted change by its topic at most.
LEMMA StepSubscribe ==
  ASSUME TabInv, NEW c \in Components, Subscribe(c)
  PROVE  TabInv'
  <1> DEFINE T == TopicOf[c]
  <1>1. T \in Topics
    BY UiConnectionAssumption
  <1>2. ConnectionTypeOK /\ QueueOrWire /\ OnTheirWay \in Seq(Requests)
    BY DEF TabInv, ConnectionTypeOK, OnTheirWay
  <1>3. /\ queue' \in Seq(Requests) /\ wire' \in Seq(Requests)
        /\ OnTheirWay' = Append(OnTheirWay, Request("subscribe", T))
        /\ readyState = "connecting" => wire' = wire
        /\ readyState = "open" => queue' = queue
    BY <1>1, <1>2, Sent DEF Subscribe
  <1>4. ConnectionTypeOK' /\ QueueOrWire'
    BY <1>1, <1>2, <1>3, UiConnectionAssumption DEF Subscribe, ConnectionTypeOK, QueueOrWire
  <1>5. \A u \in Topics : u \in Wanted' <=> u = T \/ u \in Wanted
    BY <1>1, <1>2 DEF Subscribe, ConnectionTypeOK, Wanted
  <1>6. \A u \in Topics : Will(OnTheirWay', topics', u) <=> u = T \/ Will(OnTheirWay, topics, u)
    <2>1. topics' = topics
      BY DEF Subscribe
    <2>. QED  BY <1>1, <1>2, <1>3, <2>1, WillAppend
  <1>7. losses' = losses
    BY DEF Subscribe
  <1>. QED  BY <1>4, <1>5, <1>6, <1>7 DEF TabInv, Follows

LEMMA StepUnsubscribe ==
  ASSUME TabInv, NEW c \in Components, Unsubscribe(c)
  PROVE  TabInv'
  <1> DEFINE T == TopicOf[c]
  <1>1. T \in Topics
    BY UiConnectionAssumption
  <1>2. ConnectionTypeOK /\ QueueOrWire /\ OnTheirWay \in Seq(Requests)
    BY DEF TabInv, ConnectionTypeOK, OnTheirWay
  <1>3. \A u \in Topics : subscriptions'[u] = IF u = T THEN subscriptions[u] \ {c} ELSE subscriptions[u]
    BY <1>1, <1>2 DEF Unsubscribe, ConnectionTypeOK
  <1>4. topics' = topics /\ losses' = losses /\ readyState' = readyState
    BY DEF Unsubscribe
  <1>5. c \in subscriptions[T]
    BY DEF Unsubscribe, Mounted
  <1>6. CASE subscriptions'[T] = {}
    <2>1. SendMessage("unsubscribe", T)
      BY <1>6 DEF Unsubscribe
    <2>2. /\ queue' \in Seq(Requests) /\ wire' \in Seq(Requests)
          /\ OnTheirWay' = Append(OnTheirWay, Request("unsubscribe", T))
          /\ readyState = "connecting" => wire' = wire
          /\ readyState = "open" => queue' = queue
      BY <1>1, <1>2, <1>4, <2>1, Sent
    <2>3. ConnectionTypeOK' /\ QueueOrWire'
      BY <1>1, <1>2, <2>2, UiConnectionAssumption DEF Unsubscribe, ConnectionTypeOK, QueueOrWire
    <2>4. \A u \in Topics : u \in Wanted' <=> u # T /\ u \in Wanted
      BY <1>3, <1>6 DEF Wanted
    <2>5. \A u \in Topics : Will(OnTheirWay', topics', u) <=> u # T /\ Will(OnTheirWay, topics, u)
      BY <1>1, <1>2, <1>4, <2>2, WillAppend
    <2>. QED  BY <1>4, <2>3, <2>4, <2>5 DEF TabInv, Follows
  <1>7. CASE subscriptions'[T] # {}
    <2>1. UNCHANGED <<queue, wire>>
      BY <1>7 DEF Unsubscribe
    <2>2. ConnectionTypeOK' /\ QueueOrWire'
      BY <1>1, <1>2, <2>1, UiConnectionAssumption DEF Unsubscribe, ConnectionTypeOK, QueueOrWire
    <2>3. \A u \in Topics : u \in Wanted' <=> u \in Wanted
      BY <1>3, <1>5, <1>7 DEF Wanted
    <2>4. OnTheirWay' = OnTheirWay
      BY <1>4, <2>1 DEF OnTheirWay
    <2>. QED  BY <1>4, <2>2, <2>3, <2>4 DEF TabInv, Follows
  <1>. QED  BY <1>6, <1>7

LEMMA StepOpen ==
  ASSUME TabInv, Open
  PROVE  TabInv'
  <1>1. OnTheirWay' = OnTheirWay /\ topics' = topics /\ losses' = losses /\ Wanted' = Wanted
    BY DEF Open, OnTheirWay, Wanted
  <1>2. <<>> \in Seq(Requests)
    OBVIOUS
  <1>3. ConnectionTypeOK'
    BY <1>2 DEF TabInv, ConnectionTypeOK, Open
  <1>4. QueueOrWire'
    BY DEF TabInv, QueueOrWire, Open
  <1>. QED  BY <1>1, <1>3, <1>4 DEF TabInv, Follows

\* What is lost is lost for the server too.
LEMMA StepClose ==
  ASSUME TabInv, Close
  PROVE  TabInv'
  <1>1. <<>> \in Seq(Requests)
    OBVIOUS
  <1>2. ConnectionTypeOK'
    BY <1>1, UiConnectionAssumption DEF TabInv, ConnectionTypeOK, Close
  <1>3. QueueOrWire'
    BY DEF TabInv, QueueOrWire, Close
  <1>4. OnTheirWay' = <<>> /\ topics' = {}
    BY DEF TabInv, QueueOrWire, Close, OnTheirWay
  <1>5. losses' # 0
    BY UiConnectionAssumption DEF TabInv, ConnectionTypeOK, Close
  <1>6. \A t : ~Will(<<>>, {}, t)
    BY DEF Will, LastOf
  <1>. QED  BY <1>2, <1>3, <1>4, <1>5, <1>6 DEF TabInv, Follows

LEMMA StepServerReceive ==
  ASSUME TabInv, ServerReceive
  PROVE  TabInv'
  <1>1. ConnectionTypeOK /\ QueueOrWire
    BY DEF TabInv
  <1>2. wire \in Seq(Requests) /\ wire # <<>> /\ topics \in SUBSET Topics
    BY <1>1 DEF ConnectionTypeOK, ServerReceive
  <1>3. readyState = "open" /\ queue = <<>>
    BY <1>1, <1>2 DEF ConnectionTypeOK, QueueOrWire
  <1>4. Head(wire) \in Requests /\ Tail(wire) \in Seq(Requests)
    BY <1>2, HeadTailProperties
  <1>5. Applied(Head(wire), topics) \in SUBSET Topics
    BY <1>2, <1>4, RequestIs DEF Applied
  <1>6. ConnectionTypeOK' /\ QueueOrWire'
    BY <1>1, <1>3, <1>4, <1>5 DEF ConnectionTypeOK, QueueOrWire, ServerReceive
  <1>7. OnTheirWay = wire /\ OnTheirWay' = Tail(wire)
    BY <1>3 DEF OnTheirWay, ServerReceive
  <1>8. \A u \in Topics : Will(OnTheirWay', topics', u) <=> Will(OnTheirWay, topics, u)
    BY <1>2, <1>7, WillTail DEF ServerReceive
  <1>9. losses' = losses /\ Wanted' = Wanted
    BY DEF ServerReceive, Wanted
  <1>. QED  BY <1>6, <1>8, <1>9 DEF TabInv, Follows

\* TabInv holds in every state of every behaviour of the tab's connection.
THEOREM ConnectionInductive == ConnectionSpec => []TabInv
<1>1. ConnectionInit => TabInv
  BY ConnectionStart
<1>2. TabInv /\ [ConnectionNext]_connectionVars => TabInv'
  <2> SUFFICES ASSUME TabInv, [ConnectionNext]_connectionVars
               PROVE  TabInv'
    OBVIOUS
  <2>1. ASSUME NEW c \in Components, Subscribe(c)
        PROVE  TabInv'
    BY <2>1, StepSubscribe
  <2>2. ASSUME NEW c \in Components, Unsubscribe(c)
        PROVE  TabInv'
    BY <2>2, StepUnsubscribe
  <2>3. CASE Open
    BY <2>3, StepOpen
  <2>4. CASE Close
    BY <2>4, StepClose
  <2>5. CASE ServerReceive
    BY <2>5, StepServerReceive
  <2>6. CASE UNCHANGED connectionVars
    BY <2>6 DEF TabInv, ConnectionTypeOK, QueueOrWire, OnTheirWay, Follows, Wanted, connectionVars
  <2>. QED  BY <2>1, <2>2, <2>3, <2>4, <2>5, <2>6 DEF ConnectionNext
<1>. QED  BY <1>1, <1>2, PTL DEF ConnectionSpec

\* Every variable of the connection has its type.
THEOREM ConnectionTypeCorrect == ConnectionSpec => []ConnectionTypeOK
<1>1. TabInv => ConnectionTypeOK
  BY DEF TabInv
<1>. QED  BY <1>1, ConnectionInductive, PTL

\* ServerFollowsTab: however components that share a topic are mounted and
\* unmounted, before and after the connection opens, the requests on their way
\* leave the server with the topics somebody listens to, or with fewer after a
\* loss (websocket-provider.tsx).
THEOREM SubscriptionsFollow == ConnectionSpec => []ServerFollowsTab
<1>1. TabInv => ServerFollowsTab
  BY WillHaveIs DEF TabInv, Follows, ServerFollowsTab
<1>. QED  BY <1>1, ConnectionInductive, PTL

-----------------------------------------------------------------------------
(* Navigation.                                                             *)

Servers == UNION {[S -> BOOLEAN] : S \in SUBSET Configs}
Lists == {NoList} \cup {List(active) : active \in Servers}
Pins == [id : Configs, from : Starts \cup {None}]
NavTypeOK ==
  /\ server \in Servers /\ allConfigs \in Lists
  /\ url \in Urls /\ navs \in Seq(Urls)
  /\ selected \in Configs \cup {None} /\ persistent \in Configs \cup {None}
  /\ pins \in Seq(Pins)
  /\ clicks \in Nat /\ changes \in Nat

\* No configuration is pinned twice, and the pin of a page has its start time.
PinsDiffer(pinned) == \A i, j \in 1..Len(pinned) : pinned[i].id = pinned[j].id => i = j
PinsAgree(pinned, u) ==
  u.path = "recent" => \A i \in 1..Len(pinned) : pinned[i].id = u.config => pinned[i].from = u.from

\* What the provider has chosen; a URL without a configuration is to be replaced.
IsChosen(u, list, choice, memory) ==
  HasProvider(u) /\ Ids(list) # {} =>
    /\ choice \in Ids(list) /\ memory = choice
    /\ u.config \in Ids(list) => choice = u.config
IsReplaced(u, list, asked) ==
  asked = <<>> /\ HasProvider(u) /\ Ids(list) # {} => u.config # None

NavInv ==
  /\ NavTypeOK /\ PinsDiffer(pins) /\ PinsAgree(pins, url)
  /\ IsChosen(url, allConfigs, selected, persistent)
  /\ IsReplaced(url, allConfigs, navs)

\* A finite set of numbers has a greatest one: a smallest set without would have
\* one as soon as an element is taken away.
HasMax(S) == \E x \in S : \A y \in S : x >= y
LEMMA MaxOf ==
  ASSUME NEW S \in SUBSET Nat, IsFiniteSet(S), S # {}
  PROVE  Max(S) \in S
  <1> DEFINE R == StrictSubsetOrdering(S)
             F == {T \in FiniteSubsetsOf(S) : T # {} /\ ~HasMax(T)}
  <1>1. ASSUME F # {}
        PROVE  FALSE
    <2>1. IsWellFoundedOn(R, FiniteSubsetsOf(S))
      BY FS_StrictSubsetOrderingWellFounded
    <2>2. \A T, U \in SUBSET S : U \subseteq T /\ U # T => <<U, T>> \in R
      BY DEF StrictSubsetOrdering
    <2>3. F \subseteq FiniteSubsetsOf(S) /\ F \subseteq SUBSET S
      BY DEF FiniteSubsetsOf
    <2> HIDE DEF R
    <2>4. PICK T \in F : \A U \in F : ~(<<U, T>> \in R)
      BY <1>1, <2>1, <2>3, WFMin
    <2>5. T \in SUBSET S /\ IsFiniteSet(T) /\ T # {} /\ ~HasMax(T)
      BY <2>4 DEF FiniteSubsetsOf
    <2>6. PICK x \in T : TRUE
      BY <2>5
    <2> DEFINE U == T \ {x}
    <2>7. U \in SUBSET S /\ U \subseteq T /\ U # T /\ IsFiniteSet(U)
      BY <2>5, FS_RemoveElement
    <2>8. U \notin F
      BY <2>2, <2>4, <2>5, <2>7
    <2>9. U = {} \/ HasMax(U)
      BY <2>7, <2>8 DEF FiniteSubsetsOf
    <2>10. T \subseteq Nat
      BY <2>5
    <2>11. HasMax(T)
      BY <2>9, <2>10 DEF HasMax
    <2>. QED  BY <2>5, <2>11
  <1>2. HasMax(S)
    BY <1>1 DEF FiniteSubsetsOf
  <1>. QED  BY <1>2 DEF HasMax, Max

LEMMA ListIds ==
  ASSUME NEW list \in Lists
  PROVE  /\ Ids(list) \in SUBSET Configs
         /\ Ids(list) # {} => list.loaded
  <1>1. CASE list = NoList
    BY <1>1 DEF NoList, Ids
  <1>2. CASE list \in {List(active) : active \in Servers}
    BY <1>2 DEF List, Ids, Servers
  <1>. QED  BY <1>1, <1>2 DEF Lists

\* A choice is among the configurations, if there are any.
LEMMA OwnChoices ==
  ASSUME NEW list \in Lists, Ids(list) # {}, NEW u, NEW kept
  PROVE  /\ FirstActive(list) \in Ids(list)
         /\ ProviderChoice(u, list, kept) \in Ids(list)
  <1>1. \A S \in SUBSET Ids(list) : S # {} => Max(S) \in S
    <2> SUFFICES ASSUME NEW S \in SUBSET Ids(list), S # {}
                 PROVE  Max(S) \in S
      OBVIOUS
    <2>1. S \in SUBSET Configs
      BY ListIds
    <2>2. S \in SUBSET Nat /\ IsFiniteSet(S)
      BY <2>1, NavigationAssumption, FS_Subset
    <2>. QED  BY <2>2, MaxOf
  <1>2. First(list) \in Ids(list)
    BY <1>1 DEF First
  <1>3. FirstActive(list) \in Ids(list)
    <2> DEFINE running == {c \in Ids(list) : list.active[c]}
    <2>1. FirstActive(list) = IF running = {} THEN First(list) ELSE Max(running)
      BY DEF FirstActive
    <2>2. running \in SUBSET Ids(list)
      OBVIOUS
    <2> HIDE DEF running
    <2>3. running # {} => Max(running) \in Ids(list)
      BY <1>1, <2>2
    <2>. QED  BY <1>2, <2>1, <2>3
  <1>. QED  BY <1>2, <1>3 DEF ProviderChoice, DefaultId

LEMMA UrlParts ==
  ASSUME NEW u \in Urls
  PROVE  u.path \in Paths /\ u.config \in Configs \cup {None} /\ u.from \in Starts \cup {None}
  BY DEF Urls

\* The redirects are URLs, and a URL without a configuration has one.
LEMMA Redirects ==
  ASSUME NEW u \in Urls, NEW list \in Lists, NEW kept
  PROVE  /\ ProviderRedirect(u, list, kept) \in Seq(Urls)
         /\ RecentRedirect(u, list) \in Seq(Urls)
         /\ HasProvider(u) /\ Ids(list) # {} /\ u.config = None =>
              ProviderRedirect(u, list, kept) # <<>> \/ RecentRedirect(u, list) # <<>>
  <1>1. /\ Ids(list) \in SUBSET Configs
        /\ Ids(list) # {} => list.loaded /\ FirstActive(list) \in Ids(list)
                             /\ ProviderChoice(u, list, kept) \in Ids(list)
    <2>1. Ids(list) # {} => FirstActive(list) \in Ids(list) /\ ProviderChoice(u, list, kept) \in Ids(list)
      BY OwnChoices
    <2>. QED  BY <2>1, ListIds
  <1>2. None \notin Configs /\ Today \in Starts
    BY NavigationAssumption
  <1> DEFINE chosen == [u EXCEPT !.config = ProviderChoice(u, list, kept)]
             complete == [u EXCEPT !.config = IF u.config = None /\ Ids(list) # {}
                                                THEN FirstActive(list) ELSE u.config,
                                   !.from = IF u.from = None THEN Today ELSE u.from]
  <1>3. Ids(list) # {} => chosen \in Urls
    BY <1>1 DEF Urls
  <1>4. complete \in Urls
    BY <1>1, <1>2 DEF Urls
  <1>5. u.config = None /\ Ids(list) # {} => complete.config # u.config
    BY <1>1, <1>2 DEF Urls
  <1>6. <<>> \in Seq(Urls) /\ \A x \in Urls : <<x>> \in Seq(Urls) /\ <<x>> # <<>>
    OBVIOUS
  <1>7. ProviderRedirect(u, list, kept) \in Seq(Urls)
    BY <1>3, <1>6 DEF ProviderRedirect
  <1>8. RecentRedirect(u, list) \in Seq(Urls)
    BY <1>4, <1>6 DEF RecentRedirect
  <1>9. ASSUME HasProvider(u), Ids(list) # {}, u.config = None
        PROVE  ProviderRedirect(u, list, kept) # <<>> \/ RecentRedirect(u, list) # <<>>
    <2>1. CASE u.path = "history"
      <3>1. ProviderRedirect(u, list, kept) = <<chosen>>
        BY <1>1, <1>2, <1>9, <2>1 DEF ProviderRedirect
      <3>. QED  BY <1>3, <1>6, <1>9, <3>1
    <2>2. CASE u.path = "recent"
      <3>1. complete # u
        BY <1>5, <1>9
      <3>2. RecentRedirect(u, list) = <<complete>>
        BY <1>1, <1>9, <2>2, <3>1 DEF RecentRedirect
      <3>. QED  BY <1>4, <1>6, <3>2
    <2>. QED  BY <1>9, <2>1, <2>2 DEF HasProvider
  <1>. QED  BY <1>7, <1>8, <1>9

\* The effect on the pins keeps their ids.
LEMMA PinsSynced ==
  ASSUME NEW u \in Urls, NEW pinned \in Seq(Pins), PinsDiffer(pinned)
  PROVE  LET r == SyncPins(u, pinned)
         IN  r \in Seq(Pins) /\ PinsDiffer(r) /\ PinsAgree(r, u)
  <1> DEFINE r == SyncPins(u, pinned)
  <1>1. DOMAIN pinned = 1..Len(pinned) /\ Len(pinned) \in Nat
    BY LenProperties
  <1>2. \A i \in 1..Len(pinned) : pinned[i] \in Pins
    BY ElementOfSeq
  <1>3. \A i \in 1..Len(pinned) :
          r[i] = IF u.path = "recent" /\ pinned[i].id = u.config
                   THEN [pinned[i] EXCEPT !.from = u.from] ELSE pinned[i]
    BY <1>1 DEF SyncPins
  <1>4. \A i \in 1..Len(pinned) : r[i] \in Pins /\ r[i].id = pinned[i].id
    BY <1>2, <1>3, UrlParts DEF Pins
  <1>5. r \in Seq(Pins) /\ Len(r) = Len(pinned)
    <2>1. r = [i \in 1..Len(pinned) |-> r[i]]
      BY <1>1 DEF SyncPins
    <2>. QED  BY <1>1, <1>4, <2>1
  <1>6. \A i \in 1..Len(r) : u.path = "recent" /\ r[i].id = u.config => r[i].from = u.from
    BY <1>2, <1>3, <1>4, <1>5 DEF Pins
  <1> HIDE DEF r
  <1>7. PinsDiffer(r)
    BY <1>4, <1>5 DEF PinsDiffer
  <1>. QED  BY <1>5, <1>6, <1>7 DEF PinsAgree, r

\* A render keeps everything, whatever it is of.
LEMMA RenderKeeps ==
  ASSUME NavTypeOK, NEW u \in Urls, NEW list \in Lists, NEW kept \in Configs \cup {None},
         NEW asked \in Seq(Urls), PinsDiffer(pins),
         Render(u, list, kept, pins, asked)
  PROVE  /\ url' \in Urls /\ allConfigs' \in Lists /\ navs' \in Seq(Urls) /\ pins' \in Seq(Pins)
         /\ selected' \in Configs \cup {None} /\ persistent' \in Configs \cup {None}
         /\ PinsDiffer(pins)' /\ PinsAgree(pins, url)'
         /\ IsChosen(url, allConfigs, selected, persistent)'
         /\ IsReplaced(url, allConfigs, navs)'
  <1>1. url' = u /\ allConfigs' = list /\ pins' = SyncPins(u, pins)
    BY DEF Render
  <1>2. pins' \in Seq(Pins) /\ PinsDiffer(pins)' /\ PinsAgree(pins, url)'
    <2>1. pins \in Seq(Pins)
      BY DEF NavTypeOK
    <2>2. PinsDiffer(SyncPins(u, pins)) /\ PinsAgree(SyncPins(u, pins), u) /\ SyncPins(u, pins) \in Seq(Pins)
      BY <2>1, PinsSynced
    <2>. QED  BY <1>1, <2>2 DEF PinsDiffer, PinsAgree
  <1> DEFINE p == ProviderRedirect(u, list, kept)
             q == RecentRedirect(u, list)
  <1>3. p \in Seq(Urls) /\ q \in Seq(Urls)
    BY Redirects
  <1>4. HasProvider(u) /\ Ids(list) # {} /\ u.config = None => p # <<>> \/ q # <<>>
    BY Redirects
  <1>5. navs' = asked \o p \o q
    BY DEF Render
  <1> HIDE DEF p, q
  <1>6. navs' \in Seq(Urls) /\ (navs' = <<>> => p = <<>> /\ q = <<>>)
    <2>1. asked \o p \in Seq(Urls) /\ Len(asked \o p) = Len(asked) + Len(p)
      BY <1>3, ConcatProperties
    <2>2. navs' \in Seq(Urls) /\ Len(navs') = Len(asked) + Len(p) + Len(q)
      BY <1>3, <1>5, <2>1, ConcatProperties
    <2>3. Len(asked) \in Nat /\ Len(p) \in Nat /\ Len(q) \in Nat
      BY <1>3, LenProperties
    <2>4. Len(navs') = 0 => Len(p) = 0 /\ Len(q) = 0
      <3>1. \A a, b, c \in Nat : a + b + c = 0 => b = 0 /\ c = 0
        OBVIOUS
      <3>2. Len(navs') = Len(asked) + Len(p) + Len(q)
        BY <2>2
      <3>. QED  BY <2>3, <3>1, <3>2
    <2>5. navs' = <<>> => Len(navs') = 0
      OBVIOUS
    <2>6. (Len(p) = 0 => p = <<>>) /\ (Len(q) = 0 => q = <<>>)
      BY <1>3, EmptySeq
    <2>. QED  BY <2>2, <2>4, <2>5, <2>6
  <1>7. IsReplaced(url, allConfigs, navs)'
    BY <1>1, <1>4, <1>6 DEF IsReplaced
  <1>8. CASE HasProvider(u) /\ Ids(list) # {}
    <2>1. selected' = ProviderChoice(u, list, kept) /\ persistent' = selected'
      BY <1>8 DEF Render
    <2>2. selected' \in Ids(list) /\ Ids(list) \in SUBSET Configs
      <3>1. ProviderChoice(u, list, kept) \in Ids(list)
        BY <1>8, OwnChoices
      <3>. QED  BY <2>1, <3>1, ListIds
    <2>3. u.config \in Ids(list) => selected' = u.config
      BY <2>1 DEF ProviderChoice
    <2>. QED  BY <1>1, <1>2, <1>6, <1>7, <2>1, <2>2, <2>3 DEF IsChosen
  <1>9. CASE ~(HasProvider(u) /\ Ids(list) # {})
    <2>1. selected' \in Configs \cup {None} /\ persistent' = kept
      BY <1>9 DEF Render, NavTypeOK
    <2>2. IsChosen(url, allConfigs, selected, persistent)'
      BY <1>1, <1>9 DEF IsChosen
    <2>. QED  BY <1>1, <1>2, <1>6, <1>7, <2>1, <2>2
  <1>. QED  BY <1>8, <1>9

LEMMA NavigationStart ==
  ASSUME NavigationInit
  PROVE  NavInv
  <1>1. <<>> \in Seq(Urls) /\ <<>> \in Seq(Pins)
    OBVIOUS
  <1>2. url \in Urls /\ server \in Servers /\ allConfigs \in Lists
    BY DEF NavigationInit, Urls, Url, Servers, Lists
  <1>3. NavTypeOK
    BY <1>1, <1>2 DEF NavTypeOK, NavigationInit
  <1>4. PinsDiffer(pins) /\ PinsAgree(pins, url)
    BY DEF NavigationInit, PinsDiffer, PinsAgree
  <1>5. Ids(allConfigs) = {}
    BY DEF NavigationInit, NoList, Ids
  <1>. QED  BY <1>3, <1>4, <1>5 DEF NavInv, IsChosen, IsReplaced

\* The router, the list and the selector render.
LEMMA StepRender ==
  ASSUME NavInv,
         \/ \E i \in DOMAIN navs : Navigate(i)
         \/ ReceiveConfigs
         \/ \E c \in Configs : SelectConfig(c)
  PROVE  NavInv'
  <1>1. NavTypeOK /\ PinsDiffer(pins)
    BY DEF NavInv
  <1>2. \E u \in Urls, list \in Lists, kept \in Configs \cup {None}, asked \in Seq(Urls) :
          Render(u, list, kept, pins, asked)
    <2>1. ASSUME NEW i \in DOMAIN navs, Navigate(i)
          PROVE  /\ navs[i] \in Urls /\ SubSeq(navs, i + 1, Len(navs)) \in Seq(Urls)
                 /\ Render(navs[i], allConfigs, persistent, pins, SubSeq(navs, i + 1, Len(navs)))
      <3>1. navs \in Seq(Urls) /\ Len(navs) \in Nat /\ i \in 1..Len(navs)
        BY <1>1, LenProperties DEF NavTypeOK
      <3>2. \A j \in i + 1..Len(navs) : navs[j] \in Urls
        BY <3>1, ElementOfSeq
      <3>3. SubSeq(navs, i + 1, Len(navs)) \in Seq(Urls)
        BY <3>1, <3>2, SubSeqProperties
      <3>. QED  BY <2>1, <3>1, <3>3, ElementOfSeq DEF Navigate
    <2>2. ASSUME ReceiveConfigs
          PROVE  List(server) \in Lists /\ Render(url, List(server), persistent, pins, navs)
      BY <1>1, <2>2 DEF ReceiveConfigs, NavTypeOK, Lists
    <2>3. ASSUME NEW c \in Configs, SelectConfig(c)
          PROVE  /\ [url EXCEPT !.config = c] \in Urls
                 /\ Append(navs, [url EXCEPT !.config = c]) \in Seq(Urls)
                 /\ Render(url, allConfigs, c, pins, Append(navs, [url EXCEPT !.config = c]))
      <3>1. [url EXCEPT !.config = c] \in Urls
        BY <1>1 DEF NavTypeOK, Urls
      <3>. QED  BY <1>1, <2>3, <3>1 DEF SelectConfig, NavTypeOK
    <2>4. url \in Urls /\ allConfigs \in Lists /\ persistent \in Configs \cup {None} /\ navs \in Seq(Urls)
      BY <1>1 DEF NavTypeOK
    <2>. QED  BY <2>1, <2>2, <2>3, <2>4
  <1>3. PICK u \in Urls, list \in Lists, kept \in Configs \cup {None}, asked \in Seq(Urls) :
          Render(u, list, kept, pins, asked)
    BY <1>2
  <1>4. server' = server /\ clicks' \in Nat /\ changes' = changes
    <2>1. clicks \in Nat
      BY <1>1 DEF NavTypeOK
    <2>2. ASSUME NEW i \in DOMAIN navs, Navigate(i)
          PROVE  server' = server /\ clicks' = clicks /\ changes' = changes
      BY <2>2 DEF Navigate
    <2>3. ASSUME ReceiveConfigs
          PROVE  server' = server /\ clicks' = clicks /\ changes' = changes
      BY <2>3 DEF ReceiveConfigs
    <2>4. ASSUME NEW c \in Configs, SelectConfig(c)
          PROVE  server' = server /\ clicks' = clicks + 1 /\ changes' = changes
      BY <2>4 DEF SelectConfig, Click
    <2>. QED  BY <2>1, <2>2, <2>3, <2>4
  <1>5. /\ url' \in Urls /\ allConfigs' \in Lists /\ navs' \in Seq(Urls) /\ pins' \in Seq(Pins)
        /\ selected' \in Configs \cup {None} /\ persistent' \in Configs \cup {None}
        /\ PinsDiffer(pins)' /\ PinsAgree(pins, url)'
        /\ IsChosen(url, allConfigs, selected, persistent)'
        /\ IsReplaced(url, allConfigs, navs)'
    BY <1>1, <1>3, RenderKeeps
  <1>. QED  BY <1>1, <1>4, <1>5 DEF NavInv, NavTypeOK

LEMMA StepConfigs ==
  ASSUME NavInv, ChangeConfigs
  PROVE  NavInv'
  <1>1. server' \in Servers
    BY DEF ChangeConfigs, Servers
  <1>2. changes' \in Nat /\ UNCHANGED <<allConfigs, url, navs, selected, persistent, pins, clicks>>
    BY DEF ChangeConfigs, NavInv, NavTypeOK
  <1>. QED  BY <1>1, <1>2 DEF NavInv, NavTypeOK, PinsDiffer, PinsAgree, IsChosen, IsReplaced

\* A click asks for a page; the pins it leaves are right for the one there is.
LEMMA Clicked ==
  ASSUME NavInv, Click, UNCHANGED <<allConfigs, url, selected, persistent>>,
         navs' = navs \/ \E u \in Urls : Push(u),
         pins' \in Seq(Pins), PinsDiffer(pins'), PinsAgree(pins', url)
  PROVE  NavInv'
  <1>1. navs' \in Seq(Urls) /\ (navs' = <<>> => navs = <<>>)
    <2>1. navs \in Seq(Urls)
      BY DEF NavInv, NavTypeOK
    <2>2. ASSUME NEW u \in Urls, Push(u)
          PROVE  navs' \in Seq(Urls) /\ navs' # <<>>
      <3>1. navs' = Append(navs, u) /\ navs' \in Seq(Urls) /\ Len(navs') = Len(navs) + 1 /\ Len(navs) \in Nat
        BY <2>1, <2>2, LenProperties DEF Push
      <3>2. Len(navs') # 0
        BY <3>1
      <3>. QED  BY <3>1, <3>2
    <2>. QED  BY <2>1, <2>2
  <1>2. clicks' \in Nat /\ server' = server /\ changes' = changes
    BY DEF Click, NavInv, NavTypeOK
  <1>3. NavTypeOK'
    BY <1>1, <1>2 DEF NavInv, NavTypeOK
  <1>. QED  BY <1>1, <1>3 DEF NavInv, PinsDiffer, PinsAgree, IsChosen, IsReplaced

LEMMA StepOpenPage ==
  ASSUME NavInv, NEW p \in Paths, OpenPage(p)
  PROVE  NavInv'
  <1>1. Url(p, None, None) \in Urls
    BY DEF Url, Urls
  <1>. QED  BY <1>1, Clicked DEF OpenPage, NavInv, NavTypeOK

LEMMA PinParts ==
  ASSUME NavInv
  PROVE  /\ DOMAIN pins = 1..Len(pins) /\ Len(pins) \in Nat
         /\ \A i \in 1..Len(pins) :
              pins[i] \in Pins /\ pins[i].id \in Configs /\ pins[i].from \in Starts \cup {None}
  <1>1. pins \in Seq(Pins)
    BY DEF NavInv, NavTypeOK
  <1>2. \A i \in 1..Len(pins) : pins[i] \in Pins
    BY <1>1, ElementOfSeq
  <1>. QED  BY <1>1, <1>2, LenProperties DEF Pins

LEMMA StepOpenPin ==
  ASSUME NavInv, NEW i \in DOMAIN pins, OpenPin(i)
  PROVE  NavInv'
  <1>1. Url("recent", pins[i].id, pins[i].from) \in Urls
    BY PinParts DEF Url, Urls, Paths
  <1>. QED  BY <1>1, Clicked DEF OpenPin, NavInv, NavTypeOK

LEMMA Unpinned ==
  ASSUME NavInv, NEW id, Unpin(id)
  PROVE  pins' \in Seq(Pins) /\ PinsDiffer(pins') /\ PinsAgree(pins', url)
  <1>1. pins \in Seq(Pins) /\ PinsDiffer(pins) /\ PinsAgree(pins, url)
    BY DEF NavInv, NavTypeOK
  <1>2. CASE \E i \in DOMAIN pins : pins[i].id = id
    <2> DEFINE p == PinPlace(id)
               r == RemoveAt(pins, p)
    <2>1. p \in 1..Len(pins)
      BY <1>2, PinParts DEF PinPlace
    <2>2. pins' = r
      BY <1>2 DEF Unpin
    <2> HIDE DEF p
    <2>3. /\ r \in Seq(Pins) /\ Len(r) = Len(pins) - 1 /\ Len(pins) \in Nat \ {0}
          /\ \A i \in 1..Len(r) : i < p => i \in 1..Len(pins) /\ r[i] = pins[i]
          /\ \A i \in 1..Len(r) : ~(i < p) => i + 1 \in 1..Len(pins) /\ r[i] = pins[i + 1]
      BY <1>1, <2>1, Removed
    <2> HIDE DEF r
    <2>4. PinsDiffer(r)
      <3> SUFFICES ASSUME NEW i \in 1..Len(r), NEW j \in 1..Len(r), r[i].id = r[j].id
                   PROVE  i = j
        BY DEF PinsDiffer
      <3> DEFINE at(k) == IF k < p THEN k ELSE k + 1
      <3>1. /\ at(i) \in 1..Len(pins) /\ r[i] = pins[at(i)]
            /\ at(j) \in 1..Len(pins) /\ r[j] = pins[at(j)]
        BY <2>3
      <3>2. at(i) = at(j)
        BY <1>1, <3>1 DEF PinsDiffer
      <3>3. i \in Int /\ j \in Int /\ p \in Int
        BY <2>1
      <3>. QED  BY <3>2, <3>3
    <2>5. PinsAgree(r, url)
      BY <1>1, <2>3 DEF PinsAgree
    <2>. QED  BY <2>2, <2>3, <2>4, <2>5
  <1>3. CASE ~\E i \in DOMAIN pins : pins[i].id = id
    BY <1>1, <1>3 DEF Unpin
  <1>. QED  BY <1>2, <1>3

LEMMA StepRemovePin ==
  ASSUME NavInv, NEW i \in DOMAIN pins, RemovePin(i)
  PROVE  NavInv'
  <1>1. pins' \in Seq(Pins) /\ PinsDiffer(pins') /\ PinsAgree(pins', url)
    BY Unpinned DEF RemovePin
  <1>. QED  BY <1>1, Clicked DEF RemovePin

LEMMA StepRemoveInvalidPin ==
  ASSUME NavInv, RemoveInvalidPin
  PROVE  NavInv'
  <1>1. pins' \in Seq(Pins) /\ PinsDiffer(pins') /\ PinsAgree(pins', url)
    BY Unpinned DEF RemoveInvalidPin
  <1>2. Url("proxies", None, None) \in Urls
    BY DEF Url, Urls, Paths
  <1>. QED  BY <1>1, <1>2, Clicked DEF RemoveInvalidPin

LEMMA StepMonitor ==
  ASSUME NavInv, NEW c \in Configs, Monitor(c)
  PROVE  NavInv'
  <1> DEFINE known == {i \in DOMAIN pins : pins[i].id = c}
             pin == [id |-> c, from |-> Today]
  <1>1. pins \in Seq(Pins) /\ PinsDiffer(pins) /\ url.path = "proxies"
    BY DEF NavInv, NavTypeOK, Monitor
  <1>2. pin \in Pins /\ Url("recent", c, Today) \in Urls
    BY NavigationAssumption DEF Pins, Url, Urls, Paths
  <1>3. pin.id = c
    OBVIOUS
  <1>4. \A i \in 1..Len(pins) : i \in known <=> pins[i].id = c
    BY PinParts
  <1> HIDE DEF pin
  <1>5. pins' \in Seq(Pins) /\ PinsDiffer(pins')
    <2>1. CASE known = {}
      <3>1. pins' = Append(pins, pin)
        BY <2>1 DEF Monitor, pin
      <3>2. /\ pins' \in Seq(Pins) /\ Len(pins') = Len(pins) + 1 /\ Len(pins) \in Nat
            /\ \A i \in 1..Len(pins) : pins'[i] = pins[i]
            /\ pins'[Len(pins) + 1] = pin
        BY <1>1, <1>2, <3>1, LenProperties
      <3>3. \A i \in 1..Len(pins) : pins[i].id # c
        BY <1>4, <2>1
      <3>4. \A i \in 1..Len(pins') : IF i = Len(pins) + 1 THEN pins'[i].id = c
                                     ELSE i \in 1..Len(pins) /\ pins'[i].id = pins[i].id
        BY <1>3, <3>2
      <3>. QED  BY <1>1, <3>2, <3>3, <3>4 DEF PinsDiffer
    <2>2. CASE known # {}
      <3>1. pins' = [i \in DOMAIN pins |-> IF i \in known THEN pin ELSE pins[i]]
        BY <2>2 DEF Monitor, pin
      <3> HIDE DEF known
      <3>2. \A i \in 1..Len(pins) : pins'[i] \in Pins /\ pins'[i].id = pins[i].id
        BY <1>2, <1>3, <1>4, <3>1, PinParts
      <3>3. pins' \in Seq(Pins) /\ Len(pins') = Len(pins)
        <4>1. pins' = [i \in 1..Len(pins) |-> pins'[i]]
          BY <3>1, PinParts
        <4>. QED  BY <3>2, <4>1, PinParts
      <3>. QED  BY <1>1, <3>2, <3>3 DEF PinsDiffer
    <2>. QED  BY <2>1, <2>2
  <1>6. PinsAgree(pins', url)
    BY <1>1 DEF PinsAgree
  <1>. QED  BY <1>2, <1>5, <1>6, Clicked DEF Monitor

LEMMA StepTimeRange ==
  ASSUME NavInv, NEW f \in Starts, SetTimeRange(f)
  PROVE  NavInv'
  <1>1. [url EXCEPT !.from = f] \in Urls
    BY DEF NavInv, NavTypeOK, Urls
  <1>. QED  BY <1>1, Clicked DEF SetTimeRange, NavInv, NavTypeOK

\* NavInv holds in every state of every behaviour.
THEOREM NavigationInductive == NavigationSpec => []NavInv
<1>1. NavigationInit => NavInv
  BY NavigationStart
<1>2. NavInv /\ [NavigationNext]_navigationVars => NavInv'
  <2> SUFFICES ASSUME NavInv, [NavigationNext]_navigationVars
               PROVE  NavInv'
    OBVIOUS
  <2>1. CASE (\E i \in DOMAIN navs : Navigate(i)) \/ ReceiveConfigs \/ \E c \in Configs : SelectConfig(c)
    BY <2>1, StepRender
  <2>2. CASE ChangeConfigs
    BY <2>2, StepConfigs
  <2>3. CASE \E p \in Paths : OpenPage(p)
    BY <2>3, StepOpenPage
  <2>4. CASE \E i \in DOMAIN pins : OpenPin(i)
    BY <2>4, StepOpenPin
  <2>5. CASE \E i \in DOMAIN pins : RemovePin(i)
    BY <2>5, StepRemovePin
  <2>6. CASE \E c \in Configs : Monitor(c)
    BY <2>6, StepMonitor
  <2>7. CASE \E f \in Starts : SetTimeRange(f)
    BY <2>7, StepTimeRange
  <2>8. CASE RemoveInvalidPin
    BY <2>8, StepRemoveInvalidPin
  <2>9. CASE UNCHANGED navigationVars
    BY <2>9 DEF navigationVars, NavInv, NavTypeOK, PinsDiffer, PinsAgree, IsChosen, IsReplaced
  <2>. QED  BY <2>1, <2>2, <2>3, <2>4, <2>5, <2>6, <2>7, <2>8, <2>9 DEF NavigationNext
<1>. QED  BY <1>1, <1>2, PTL DEF NavigationSpec

\* Every variable of the navigation has its type.
THEOREM NavigationTypeCorrect == NavigationSpec => []NavTypeOK
<1>1. NavInv => NavTypeOK
  BY DEF NavInv
<1>. QED  BY <1>1, NavigationInductive, PTL

\* SelectionAgrees: however redirects, clicks and new lists of configurations
\* overtake each other, the URL, the provider's choice and what is remembered
\* agree once the router is done (config-provider.tsx).
THEOREM SelectionSettles == NavigationSpec => []SelectionAgrees
<1>1. NavInv => SelectionAgrees
  BY DEF NavInv, IsChosen, IsReplaced, SelectionAgrees
<1>. QED  BY <1>1, NavigationInductive, PTL

\* PinsFollowUrl: no configuration is pinned twice, and a page's pin leads back
\* to it with the start time it shows (recent/page.tsx).
THEOREM PinsLeadBack == NavigationSpec => []PinsFollowUrl
<1>1. NavInv => PinsFollowUrl
  BY PinParts DEF NavInv, PinsDiffer, PinsAgree, PinsFollowUrl
<1>. QED  BY <1>1, NavigationInductive, PTL

-----------------------------------------------------------------------------
(* Why the router comes to rest. A URL the effects leave alone is final. A *)
(* redirect is the only one of its URL and goes to a final one, so each    *)
(* URL the router gets to leaves fewer to go to, or fewer that are not     *)
(* final.                                                                  *)

IsFinal(u, list) ==
  /\ RecentRedirect(u, list) = <<>>
  /\ u.path = "history" /\ Ids(list) # {} => u.config \in Ids(list)
Unfinal(asked, list) == {i \in 1..Len(asked) : ~IsFinal(asked[i], list)}
Rank(asked, list) == Len(asked) + Cardinality(Unfinal(asked, list))

\* The variant of NavigationSettles.
RouterComesCloser ==
  (\E i \in DOMAIN navs : Navigate(i)) => Rank(navs, allConfigs)' < Rank(navs, allConfigs)

LEMMA HistoryRedirect ==
  ASSUME NEW u \in Urls, NEW list \in Lists, NEW kept, u.path = "history"
  PROVE  LET p == ProviderRedirect(u, list, kept)
         IN  \/ p = <<>>
             \/ /\ ~IsFinal(u, list)
                /\ \E x \in Urls : IsFinal(x, list) /\ p = <<x>>
  <1> DEFINE x == [u EXCEPT !.config = ProviderChoice(u, list, kept)]
  <1>1. SUFFICES ASSUME ProviderRedirect(u, list, kept) # <<>>
                 PROVE  ~IsFinal(u, list) /\ \E y \in Urls : IsFinal(y, list) /\ ProviderRedirect(u, list, kept) = <<y>>
    OBVIOUS
  <1>2. Ids(list) # {} /\ u.config \notin Ids(list) /\ ProviderRedirect(u, list, kept) = <<x>>
    BY <1>1 DEF ProviderRedirect
  <1>3. ProviderChoice(u, list, kept) \in Ids(list) /\ Ids(list) \in SUBSET Configs
    BY <1>2, OwnChoices, ListIds
  <1>4. x \in Urls /\ x.path = "history" /\ x.config \in Ids(list)
    BY <1>3 DEF Urls
  <1> HIDE DEF x
  <1>5. "history" # "recent"
    OBVIOUS
  <1>6. RecentRedirect(x, list) = <<>>
    BY <1>4, <1>5 DEF RecentRedirect
  <1>7. IsFinal(x, list) /\ ~IsFinal(u, list)
    BY <1>2, <1>4, <1>6 DEF IsFinal
  <1>. QED  BY <1>2, <1>4, <1>7

LEMMA RecentRedirectIsFinal ==
  ASSUME NEW u \in Urls, NEW list \in Lists, RecentRedirect(u, list) # <<>>
  PROVE  /\ u.path = "recent" /\ ~IsFinal(u, list)
         /\ \E x \in Urls : IsFinal(x, list) /\ RecentRedirect(u, list) = <<x>>
  <1> DEFINE x == [u EXCEPT !.config = IF u.config = None /\ Ids(list) # {}
                                         THEN FirstActive(list) ELSE u.config,
                            !.from = IF u.from = None THEN Today ELSE u.from]
             again == [x EXCEPT !.config = IF x.config = None /\ Ids(list) # {}
                                             THEN FirstActive(list) ELSE x.config,
                                !.from = IF x.from = None THEN Today ELSE x.from]
  <1>1. u.path = "recent" /\ RecentRedirect(u, list) = <<x>>
    BY DEF RecentRedirect
  <1>2. /\ Ids(list) \in SUBSET Configs
        /\ Ids(list) # {} => FirstActive(list) \in Ids(list)
    BY OwnChoices, ListIds
  <1>3. None \notin Configs /\ None \notin Starts /\ Today \in Starts
    BY NavigationAssumption
  <1>4. x \in Urls /\ x.path = "recent" /\ x.from # None /\ (Ids(list) # {} => x.config # None)
    BY <1>1, <1>2, <1>3 DEF Urls
  <1> HIDE DEF x
  <1>5. again = x
    BY <1>4 DEF Urls
  <1>6. RecentRedirect(x, list) = <<>>
    BY <1>5 DEF RecentRedirect
  <1>7. IsFinal(x, list)
    BY <1>4, <1>6 DEF IsFinal
  <1>. QED  BY <1>1, <1>4, <1>7 DEF IsFinal

\* What the two effects ask the router for: nothing, or a final URL instead of
\* one that is not.
Asks(u, list, kept, asked) == asked \o ProviderRedirect(u, list, kept) \o RecentRedirect(u, list)
AddsFinal(u, list, asked, new) ==
  \/ new = asked
  \/ /\ ~IsFinal(u, list)
     /\ \E x \in Urls : IsFinal(x, list) /\ new = asked \o <<x>>

LEMMA RedirectsAreFinal ==
  ASSUME NEW u \in Urls, NEW list \in Lists, NEW kept, NEW asked \in Seq(Urls)
  PROVE  AddsFinal(u, list, asked, Asks(u, list, kept, asked))
  <1> DEFINE p == ProviderRedirect(u, list, kept)
             q == RecentRedirect(u, list)
  <1>1. \/ p = <<>> /\ q = <<>>
        \/ /\ ~IsFinal(u, list)
           /\ \E x \in Urls : IsFinal(x, list) /\ ((p = <<>> /\ q = <<x>>) \/ (p = <<x>> /\ q = <<>>))
    <2>1. CASE u.path = "history"
      <3>1. q = <<>>
        BY <2>1 DEF RecentRedirect
      <3>. QED  BY <2>1, <3>1, HistoryRedirect
    <2>2. CASE u.path # "history"
      <3>1. p = <<>>
        BY <2>2 DEF ProviderRedirect
      <3>2. q = <<>> \/ (~IsFinal(u, list) /\ \E x \in Urls : IsFinal(x, list) /\ q = <<x>>)
        BY RecentRedirectIsFinal
      <3> HIDE DEF p, q
      <3>3. CASE q = <<>>
        BY <3>1, <3>3
      <3>4. CASE q # <<>>
        <4>1. PICK x \in Urls : IsFinal(x, list) /\ q = <<x>>
          BY <3>2, <3>4
        <4>2. ~IsFinal(u, list)
          BY <3>2, <3>4
        <4>. QED  BY <3>1, <4>1, <4>2
      <3>. QED  BY <3>3, <3>4
    <2>. QED  BY <2>1, <2>2
  <1> HIDE DEF p, q
  <1>2. asked \o <<>> = asked
    BY ConcatEmptySeq
  <1>3. \A x \in Urls : asked \o <<x>> \o <<>> = asked \o <<x>>
    <2> SUFFICES ASSUME NEW x \in Urls
                 PROVE  asked \o <<x>> \o <<>> = asked \o <<x>>
      OBVIOUS
    <2>1. asked \o <<x>> \in Seq(Urls)
      OBVIOUS
    <2>. QED  BY <2>1, ConcatEmptySeq
  <1>4. asked \o p \o q = asked \/ (~IsFinal(u, list) /\ \E x \in Urls : IsFinal(x, list) /\ asked \o p \o q = asked \o <<x>>)
    BY <1>1, <1>2, <1>3
  <1>. QED  BY <1>4 DEF p, q, Asks, AddsFinal

LEMMA UnfinalIsFinite ==
  ASSUME NEW asked \in Seq(Urls), NEW list
  PROVE  IsFiniteSet(Unfinal(asked, list)) /\ Cardinality(Unfinal(asked, list)) \in Nat
  <1>1. Len(asked) \in Nat
    BY LenProperties
  <1>2. IsFiniteSet(1..Len(asked))
    BY <1>1, FS_Interval
  <1>3. Unfinal(asked, list) \in SUBSET (1..Len(asked))
    BY DEF Unfinal
  <1>4. IsFiniteSet(Unfinal(asked, list))
    BY <1>2, <1>3, FS_Subset
  <1>. QED  BY <1>4, FS_CardinalityType

\* Getting to the i-th URL drops those before it, and adds a final one at most
\* when the i-th was not final.
LEMMA RankFalls ==
  ASSUME NEW asked \in Seq(Urls), NEW list, NEW i \in 1..Len(asked), NEW new \in Seq(Urls),
         AddsFinal(asked[i], list, SubSeq(asked, i + 1, Len(asked)), new)
  PROVE  Rank(new, list) < Rank(asked, list)
  <1> DEFINE n == Len(asked)
             rest == SubSeq(asked, i + 1, n)
             U == Unfinal(asked, list)
             V == Unfinal(new, list)
             added == new # rest
  <1>1. n \in Nat /\ i \in Nat /\ i <= n /\ i >= 1
    BY LenProperties
  <1>2. rest \in Seq(Urls) /\ Len(rest) = n - i /\ \A j \in 1..n - i : rest[j] = asked[i + j]
    <2>1. \A j \in i + 1..n : asked[j] \in Urls
      BY <1>1, ElementOfSeq
    <2>2. /\ rest \in Seq(Urls) /\ Len(rest) = IF i + 1 <= n THEN n - (i + 1) + 1 ELSE 0
          /\ \A j \in 1..n - (i + 1) + 1 : rest[j] = asked[(i + 1) + j - 1]
      BY <1>1, <2>1, SubSeqProperties
    <2>3. n - (i + 1) + 1 = n - i /\ \A j \in 1..n - i : (i + 1) + j - 1 = i + j
      BY <1>1
    <2>4. Len(rest) = n - i
      BY <1>1, <2>2
    <2>. QED  BY <2>2, <2>3, <2>4
  <1>3. /\ Len(new) = IF added THEN n - i + 1 ELSE n - i
        /\ added => ~IsFinal(asked[i], list)
        /\ \A j \in 1..Len(new) : ~IsFinal(new[j], list) => j \in 1..n - i /\ new[j] = asked[i + j]
    <2>1. CASE ~added
      BY <1>2, <2>1
    <2>2. CASE added
      <3>1. PICK x \in Urls : IsFinal(x, list) /\ new = rest \o <<x>>
        BY <2>2 DEF AddsFinal
      <3>2. <<x>> \in Seq(Urls) /\ Len(<<x>>) = 1 /\ <<x>>[1] = x
        OBVIOUS
      <3>3. /\ Len(new) = n - i + 1
            /\ \A j \in 1..n - i + 1 : new[j] = IF j <= n - i THEN rest[j] ELSE <<x>>[j - (n - i)]
        BY <1>2, <3>1, <3>2, ConcatProperties
      <3>4. ~IsFinal(asked[i], list)
        BY <2>2 DEF AddsFinal
      <3>5. \A j \in 1..n - i + 1 : j \in 1..n - i \/ (j - (n - i) = 1 /\ ~(j <= n - i))
        BY <1>1
      <3>6. \A j \in 1..n - i : j <= n - i /\ j \in 1..n - i + 1
        BY <1>1
      <3>7. ASSUME NEW j \in 1..n - i + 1, ~IsFinal(new[j], list)
            PROVE  j \in 1..n - i /\ new[j] = asked[i + j]
        <4>1. j \in 1..n - i
          <5>1. ~(j - (n - i) = 1 /\ ~(j <= n - i))
            BY <3>1, <3>2, <3>3, <3>7
          <5>. QED  BY <3>5, <5>1
        <4>2. new[j] = rest[j]
          BY <3>3, <3>6, <4>1
        <4>. QED  BY <1>2, <4>1, <4>2
      <3>. QED  BY <2>2, <3>3, <3>4, <3>7
    <2>. QED  BY <2>1, <2>2
  <1>4. IsFiniteSet(U) /\ Cardinality(U) \in Nat /\ Cardinality(V) \in Nat
    BY UnfinalIsFinite
  <1>5. IsFiniteSet(U \ {i}) /\ Cardinality(U \ {i}) = IF i \in U THEN Cardinality(U) - 1 ELSE Cardinality(U)
    BY <1>4, FS_RemoveElement
  <1>6. Cardinality(V) <= Cardinality(U \ {i})
    <2> DEFINE f == [j \in V |-> i + j]
    <2>1. V \subseteq Nat /\ \A j \in V : i + j \in U \ {i}
      <3> SUFFICES ASSUME NEW j \in V
                   PROVE  j \in Nat /\ i + j \in U \ {i}
        OBVIOUS
      <3>1. j \in 1..Len(new) /\ ~IsFinal(new[j], list)
        BY DEF Unfinal
      <3>2. j \in 1..n - i /\ ~IsFinal(asked[i + j], list)
        BY <1>3, <3>1
      <3>3. j \in Nat /\ i + j \in 1..n /\ i + j # i
        BY <1>1, <3>2
      <3>. QED  BY <3>2, <3>3 DEF Unfinal
    <2>2. \A j, k \in V : i + j = i + k => j = k
      BY <1>1, <2>1
    <2> HIDE DEF U, V
    <2>3. f \in Injection(V, U \ {i})
      BY <2>1, <2>2 DEF Injection, IsInjective
    <2>. QED  BY <1>5, <2>3, FS_Injection
  <1>7. added => i \in U
    BY <1>1, <1>3 DEF Unfinal
  <1>8. Rank(new, list) = Len(new) + Cardinality(V) /\ Rank(asked, list) = n + Cardinality(U)
    BY DEF Rank
  <1> HIDE DEF n, rest, U, V, added
  <1>. QED  BY <1>1, <1>3, <1>4, <1>5, <1>6, <1>7, <1>8

\* The safety part of NavigationSettles, its termination argument: left alone,
\* the effects of the provider and of the page do not send each other from URL to
\* URL, for each URL the router gets to leaves fewer redirects to come
\* (config-provider.tsx, recent/page.tsx).
THEOREM RedirectsEnd ==
  NavigationSpec => [](Rank(navs, allConfigs) \in Nat) /\ [][RouterComesCloser]_navigationVars
<1>1. NavInv => Rank(navs, allConfigs) \in Nat
  <2> SUFFICES ASSUME NavInv
               PROVE  Rank(navs, allConfigs) \in Nat
    OBVIOUS
  <2>1. navs \in Seq(Urls)
    BY DEF NavInv, NavTypeOK
  <2>2. Len(navs) \in Nat /\ Cardinality(Unfinal(navs, allConfigs)) \in Nat
    BY <2>1, LenProperties, UnfinalIsFinite
  <2>. QED  BY <2>2 DEF Rank
<1>2. NavInv /\ NavInv' => RouterComesCloser
  <2> SUFFICES ASSUME NavInv, NavInv', NEW i \in DOMAIN navs, Navigate(i)
               PROVE  Rank(navs', allConfigs') < Rank(navs, allConfigs)
    BY DEF RouterComesCloser, Rank, Unfinal
  <2>1. navs \in Seq(Urls) /\ navs' \in Seq(Urls) /\ allConfigs \in Lists
    BY DEF NavInv, NavTypeOK
  <2>2. i \in 1..Len(navs) /\ Len(navs) \in Nat
    BY <2>1, LenProperties
  <2> DEFINE rest == SubSeq(navs, i + 1, Len(navs))
  <2>3. navs[i] \in Urls /\ rest \in Seq(Urls)
    <3>1. \A j \in i + 1..Len(navs) : navs[j] \in Urls
      BY <2>1, <2>2, ElementOfSeq
    <3>. QED  BY <2>1, <2>2, <3>1, ElementOfSeq, SubSeqProperties
  <2>4. allConfigs' = allConfigs /\ navs' = Asks(navs[i], allConfigs, persistent, rest)
    BY DEF Navigate, Render, Asks
  <2>5. AddsFinal(navs[i], allConfigs, rest, navs')
    <3> HIDE DEF rest
    <3>. QED  BY <2>1, <2>3, <2>4, RedirectsAreFinal
  <2>6. Rank(navs', allConfigs) < Rank(navs, allConfigs)
    BY <2>1, <2>2, <2>5, RankFalls
  <2>. QED  BY <2>4, <2>6
<1>. QED  BY <1>1, <1>2, NavigationInductive, PTL
=============================================================================
