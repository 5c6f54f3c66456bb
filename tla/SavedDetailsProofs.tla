------------------------- MODULE SavedDetailsProofs -------------------------
(***************************************************************************)
(* Proofs about SavedDetails for any set of bookmarks and any number of    *)
(* edits, faults and bookmarks opened.                                     *)
(***************************************************************************)
EXTENDS SavedDetails, SequenceTheorems, TLAPS

\* What is in the editor or in a PATCH was written for the bookmark it goes to.
Attributed ==
  ~crossed =>
    /\ \A b \in Bookmarks : text[b] \in written[b]
    /\ \A s \in saves : s.text \in written[s.id]
    /\ dirty => content \in written[id]

\* A row that an update has read may come back.
Survivors ==
  /\ DeletedStaysDeleted
  /\ \A s \in saves : s.at = "read" /\ s.id \in deleted => s.id \in survivors

\* One tab in which nothing goes wrong.
Undisturbed == ~crossed /\ ~overlapped /\ failures = 0 /\ elsewhere = 0

\* Then every PATCH has the text of the last edit, which the row has from the first
\* save on; an edit that no PATCH has yet will be saved by the end of a pause, or it
\* restored what the pauses had seen.
EditIsSent ==
  /\ \A b \in Bookmarks : exists[b]
  /\ \A s \in saves :
       s.id = id /\ s.text = last[id] /\ s.at # "failed" /\ (s.at = "saved" => text[id] = last[id])
  /\ saves # {} => dirty \/ text[id] = last[id]
  /\ dirty => content = last[id] /\ (saves # {} \/ debounced # content \/ unnoticed)
  /\ \A b \in Bookmarks : text[b] = last[b] \/ (dirty /\ b = id)

\* What SWR has is the row, or the bookmark has an edit that is not saved. What
\* the editor shows is the row, or an event or the end of the editing is to come.
CacheIsTheRow ==
  \A b \in Bookmarks : b # id \/ ~dirty =>
    /\ cache[b].ok => cache[b].text = text[b]
    /\ loading[b].answer.ok => loading[b].answer.text = text[b]
EventsEndWithTheRow ==
  \A i \in 1..Len(events) :
    \/ events[i].text = text[events[i].id]
    \/ \E j \in 1..Len(events) : i < j /\ events[j].id = events[i].id
EditorCatchesUp ==
  cache[id].ok /\ ~dirty =>
    content = text[id] \/ isEditing \/ \E i \in 1..Len(events) : events[i].id = id

\* The inductive invariant.
Calm == EditIsSent /\ CacheIsTheRow /\ EventsEndWithTheRow /\ EditorCatchesUp
IInv ==
  /\ TypeOK /\ Attributed /\ Survivors
  /\ Undisturbed => Calm

Event == [id : Bookmarks, text : Texts]
Save == [id : Bookmarks, text : Texts, at : {"sent", "read", "saved", "failed"}]
Answer == [ok : BOOLEAN, text : Texts]

\* The queue of events gets one more, and loses its first.
LEMMA Enqueue ==
  ASSUME events \in Seq(Event), NEW e \in Event
  PROVE  LET q == Append(events, e)
         IN  /\ q \in Seq(Event) /\ Len(q) = Len(events) + 1 /\ Len(events) \in Nat
             /\ \A i \in 1..Len(events) : i \in 1..Len(q) /\ q[i] = events[i] /\ events[i] \in Event
             /\ Len(q) \in 1..Len(q) /\ q[Len(q)] = e
             /\ \A i \in 1..Len(q) : i # Len(q) => i \in 1..Len(events)
  <1> DEFINE q == Append(events, e)
  <1>1. /\ q \in Seq(Event) /\ Len(q) = Len(events) + 1
        /\ \A i \in 1..Len(events) : q[i] = events[i]
        /\ q[Len(events) + 1] = e
    BY AppendProperties
  <1>2. Len(events) \in Nat /\ \A i \in 1..Len(events) : events[i] \in Event
    BY ElementOfSeq, LenProperties
  <1>. QED
    BY <1>1, <1>2

LEMMA Dequeue ==
  ASSUME events \in Seq(Event), events # <<>>
  PROVE  /\ Head(events) \in Event /\ Head(events) = events[1]
         /\ Tail(events) \in Seq(Event) /\ Len(events) \in Nat \ {0}
         /\ Len(Tail(events)) = Len(events) - 1
         /\ \A i \in 1..Len(Tail(events)) : Tail(events)[i] = events[i + 1]
         /\ \A i \in 1..Len(events) : events[i] \in Event
  <1>1. /\ Tail(events) \in Seq(Event) /\ Len(Tail(events)) = Len(events) - 1
        /\ Head(events) \in Event
        /\ \A i \in 1..Len(Tail(events)) : Tail(events)[i] = events[i + 1]
    BY HeadTailProperties
  <1>2. Len(events) \in Nat \ {0} /\ \A i \in 1..Len(events) : events[i] \in Event
    BY EmptySeq, ElementOfSeq
  <1>3. Head(events) = events[1]
    BY SMT
  <1>. QED
    BY <1>1, <1>2, <1>3

\* A PATCH gets on.
LEMMA MovedSave ==
  ASSUME NEW s \in Save, NEW at \in {"sent", "read", "saved", "failed"}
  PROVE  /\ [s EXCEPT !.at = at] \in Save
         /\ [s EXCEPT !.at = at].id = s.id /\ [s EXCEPT !.at = at].text = s.text
         /\ [s EXCEPT !.at = at].at = at
  BY DEF Save

LEMMA BoundsType ==
  TypeOK => /\ typed \in Nat /\ elsewhere \in Nat /\ failures \in Nat /\ opens \in Nat
            /\ MaxEdits \in Nat /\ MaxFaults \in Nat /\ MaxOpens \in Nat /\ MaxSteps \in Nat
            /\ typed <= MaxEdits /\ elsewhere + failures <= MaxFaults
  BY SavedDetailsAssumption DEF TypeOK

\* A text is a function on the two parts; an edit changes one of them.
LEMMA EditedText ==
  ASSUME NEW t \in Texts, NEW p \in Parts, NEW v \in Values, v # t[p]
  PROVE  [t EXCEPT ![p] = v] \in Texts /\ [t EXCEPT ![p] = v] # t
  BY DEF Texts

LEMMA EmptyText == Empty \in Texts
  BY SavedDetailsAssumption DEF Empty, Texts

LEMMA InitIInv == Init => IInv
  <1> SUFFICES ASSUME Init PROVE IInv
    OBVIOUS
  <1> USE SavedDetailsAssumption, EmptyText DEF Init, NoData, Idle, Asked
  <1>1. TypeOK
    <2>1. 0 \in 0..MaxEdits /\ 0 \in 0..MaxOpens /\ 0 + 0 <= MaxFaults
      OBVIOUS
    <2>2. events \in Seq([id : Bookmarks, text : Texts])
      OBVIOUS
    <2>3. written \in [Bookmarks -> SUBSET Texts]
      OBVIOUS
    <2>4. /\ text \in [Bookmarks -> Texts] /\ exists \in [Bookmarks -> BOOLEAN]
          /\ cache \in [Bookmarks -> [ok : BOOLEAN, text : Texts]]
          /\ loading \in [Bookmarks -> [sent : BOOLEAN, answer : [ok : BOOLEAN, text : Texts]]]
      OBVIOUS
    <2>. QED
      BY <2>1, <2>2, <2>3, <2>4 DEF TypeOK
  <1>2. Attributed /\ Survivors
    BY DEF Attributed, Survivors, DeletedStaysDeleted
  <1>3. EditIsSent
    BY DEF EditIsSent
  <1>4. CacheIsTheRow /\ EventsEndWithTheRow /\ EditorCatchesUp
    BY DEF CacheIsTheRow, EventsEndWithTheRow, EditorCatchesUp
  <1>. QED
    BY <1>1, <1>2, <1>3, <1>4 DEF IInv, Calm

\* Every variable keeps its type.
LEMMA TypeStep == TypeOK /\ [Next]_vars => TypeOK'
<1> SUFFICES ASSUME TypeOK, [Next]_vars PROVE TypeOK'
    OBVIOUS
<1> USE SavedDetailsAssumption DEF table, editor, bounds, history, NoData, Idle, Asked, Data, Synced, TypeOK
<1>1. ASSUME NEW b \in Bookmarks, Open(b) PROVE TypeOK'
  <2>1. loading' \in [Bookmarks -> [sent : BOOLEAN, answer : [ok : BOOLEAN, text : Texts]]]
    BY <1>1, EmptyText DEF Open
  <2>2. content' \in Texts /\ id' \in Bookmarks /\ crossed' \in BOOLEAN
    BY <1>1 DEF Open
  <2>3. opens' \in 0..MaxOpens
    BY <1>1, BoundsType DEF Open
  <2>. QED
    BY <1>1, <2>1, <2>2, <2>3 DEF Open
<1>2. ASSUME NEW b \in Bookmarks, LoadAnswers(b) PROVE TypeOK'
    BY <1>2 DEF LoadAnswers
<1>3. ASSUME NEW b \in Bookmarks, LoadReturns(b) PROVE TypeOK'
  <2>1. loading[b] \in [sent : BOOLEAN, answer : [ok : BOOLEAN, text : Texts]]
    OBVIOUS
  <2>2. loading[b].answer \in [ok : BOOLEAN, text : Texts] /\ Idle \in [sent : BOOLEAN, answer : [ok : BOOLEAN, text : Texts]]
    BY <2>1, EmptyText
  <2>3. cache' \in [Bookmarks -> [ok : BOOLEAN, text : Texts]]
    BY <1>3, <2>2 DEF LoadReturns
  <2>4. loading' \in [Bookmarks -> [sent : BOOLEAN, answer : [ok : BOOLEAN, text : Texts]]]
    BY <1>3, <2>2 DEF LoadReturns
  <2>5. content' \in Texts
    BY <1>3, <2>2 DEF LoadReturns
  <2>. QED
    BY <1>3, <2>3, <2>4, <2>5 DEF LoadReturns
<1>4. ASSUME NEW b \in Bookmarks, NEW t \in Texts, EditElsewhere(b, t) PROVE TypeOK'
  <2>2. events' \in Seq([id : Bookmarks, text : Texts])
    BY <1>4, Enqueue DEF EditElsewhere, Event
  <2>3. text' \in [Bookmarks -> Texts] /\ written' \in [Bookmarks -> SUBSET Texts]
    BY <1>4 DEF EditElsewhere
  <2>4. elsewhere' \in Nat /\ elsewhere' + failures' <= MaxFaults
    BY <1>4, BoundsType DEF EditElsewhere
  <2>. QED
    BY <1>4, <2>2, <2>3, <2>4 DEF EditElsewhere
<1>5. ASSUME NEW b \in Bookmarks, DeleteElsewhere(b) PROVE TypeOK'
  <2>1. survivors' \subseteq Bookmarks
    BY <1>5 DEF DeleteElsewhere
  <2>2. elsewhere' \in Nat /\ elsewhere' + failures' <= MaxFaults
    <3> HIDE DEF TypeOK
    <3>. QED
      BY <1>5, BoundsType DEF DeleteElsewhere
  <2>3. exists' \in [Bookmarks -> BOOLEAN] /\ deleted' \subseteq Bookmarks
    BY <1>5 DEF DeleteElsewhere
  <2>. QED
    BY <1>5, <2>1, <2>2, <2>3 DEF DeleteElsewhere
<1>6. ASSUME NEW s \in saves, ReadRow(s) PROVE TypeOK'
  <2>1. saves' \subseteq Save
    BY <1>6, MovedSave DEF ReadRow, Moved, Save
  <2>. QED
    BY <1>6, <2>1 DEF ReadRow, Save
<1>7. ASSUME NEW s \in saves, SaveRow(s) PROVE TypeOK'
  <2>1. events' \in Seq([id : Bookmarks, text : Texts])
    BY <1>7, Enqueue DEF SaveRow, Event
  <2>2. saves' \subseteq Save
    BY <1>7, MovedSave DEF SaveRow, Moved, Save
  <2>. QED
    BY <1>7, <2>1, <2>2 DEF SaveRow, Save
<1>8. ASSUME NEW s \in saves, LoseSave(s) PROVE TypeOK'
  <2>1. saves' \subseteq Save
    BY <1>8, MovedSave DEF LoseSave, Moved, Save
  <2>. QED
    <3>1. failures' \in Nat /\ elsewhere' \in Nat /\ elsewhere' + failures' <= MaxFaults
      BY <1>8 DEF LoseSave
    <3>. QED
      BY <1>8, <2>1, <3>1 DEF LoseSave, Save
<1>9. ASSUME NEW s \in saves, SaveReturns(s) PROVE TypeOK'
  <2>1. s.text \in Texts
    OBVIOUS
  <2>2. content' \in Texts
    BY <1>9, <2>1 DEF SaveReturns
  <2>3. /\ cache' \in [Bookmarks -> [ok : BOOLEAN, text : Texts]]
        /\ loading' \in [Bookmarks -> [sent : BOOLEAN, answer : [ok : BOOLEAN, text : Texts]]]
    BY <1>9, <2>1, EmptyText DEF SaveReturns
  <2>4. saves' \subseteq saves
    BY <1>9 DEF SaveReturns
  <2>. QED
    BY <1>9, <2>2, <2>3, <2>4 DEF SaveReturns
<1>10. ASSUME NEW s \in saves, SaveFails(s) PROVE TypeOK'
    BY <1>10 DEF SaveFails
<1>11. ASSUME StartEditing PROVE TypeOK'
    BY <1>11 DEF StartEditing
<1>12. ASSUME NEW p \in Parts, NEW v \in Values, Edit(p, v) PROVE TypeOK'
  <2>1. content' \in Texts
    BY <1>12, EditedText DEF Edit
  <2>2. written' \in [Bookmarks -> SUBSET Texts] /\ last' \in [Bookmarks -> Texts]
    BY <1>12, <2>1 DEF Edit
  <2>3. unnoticed' \in BOOLEAN /\ overlapped' \in BOOLEAN /\ typed' \in 0..MaxEdits
    BY <1>12, BoundsType DEF Edit
  <2>. QED
    BY <1>12, <2>1, <2>2, <2>3 DEF Edit
<1>13. ASSUME HandleBlur PROVE TypeOK'
  <2>1. saves' \subseteq Save
    BY <1>13 DEF HandleBlur, HandleUpdate, Save
  <2>2. content' \in Texts
    BY <1>13 DEF HandleBlur
  <2>. QED
    BY <1>13, <2>1, <2>2 DEF HandleBlur, Save
<1>14. ASSUME NEW p \in Parts, AutoSave(p) PROVE TypeOK'
  <2>1. debounced' \in Texts
    BY <1>14 DEF AutoSave, Texts
  <2>2. saves' \subseteq Save
    BY <1>14 DEF AutoSave, HandleUpdate, Save
  <2>. QED
    BY <1>14, <2>1, <2>2 DEF AutoSave, Save
<1>15. ASSUME ReceiveUpdate PROVE TypeOK'
  <2>1. Head(events) \in Event /\ Tail(events) \in Seq(Event)
    BY <1>15, Dequeue DEF ReceiveUpdate, Event
  <2>2. content' \in Texts
    BY <1>15, <2>1 DEF ReceiveUpdate, Event
  <2>. QED
    BY <1>15, <2>1, <2>2 DEF ReceiveUpdate, Event
<1>16. CASE UNCHANGED vars
    BY <1>16 DEF vars, table, editor, bounds, history
<1>. QED
    BY <1>1, <1>2, <1>3, <1>4, <1>5, <1>6, <1>7, <1>8, <1>9, <1>10, <1>11, <1>12, <1>13, <1>14, <1>15, <1>16 DEF Next, EditNote, EditTags, Parts

\* Another bookmark is opened with nothing unsaved, or that is in crossed.
LEMMA AttributedStep == TypeOK /\ Attributed /\ [Next]_vars => Attributed'
<1> SUFFICES ASSUME TypeOK /\ Attributed, [Next]_vars PROVE Attributed'
    OBVIOUS
<1> USE SavedDetailsAssumption DEF table, editor, bounds, history, NoData, Idle, Asked, Data, Synced, TypeOK, Attributed
<1>1. ASSUME NEW b \in Bookmarks, Open(b) PROVE Attributed'
  <2>1. UNCHANGED <<text, saves, dirty, written>> /\ (~crossed' => ~crossed /\ ~dirty)
    BY <1>1 DEF Open
  <2>. QED
    BY <2>1
<1>2. ASSUME NEW b \in Bookmarks, LoadAnswers(b) PROVE Attributed'
    BY <1>2 DEF LoadAnswers
<1>3. ASSUME NEW b \in Bookmarks, LoadReturns(b) PROVE Attributed'
    BY <1>3 DEF LoadReturns
<1>4. ASSUME NEW b \in Bookmarks, NEW t \in Texts, EditElsewhere(b, t) PROVE Attributed'
    BY <1>4 DEF EditElsewhere
<1>5. ASSUME NEW b \in Bookmarks, DeleteElsewhere(b) PROVE Attributed'
    BY <1>5 DEF DeleteElsewhere
<1>6. ASSUME NEW s \in saves, ReadRow(s) PROVE Attributed'
    BY <1>6 DEF ReadRow, Moved
<1>7. ASSUME NEW s \in saves, SaveRow(s) PROVE Attributed'
    BY <1>7 DEF SaveRow, Moved
<1>8. ASSUME NEW s \in saves, LoseSave(s) PROVE Attributed'
    BY <1>8 DEF LoseSave, Moved
<1>9. ASSUME NEW s \in saves, SaveReturns(s) PROVE Attributed'
    BY <1>9 DEF SaveReturns
<1>10. ASSUME NEW s \in saves, SaveFails(s) PROVE Attributed'
    BY <1>10 DEF SaveFails
<1>11. ASSUME StartEditing PROVE Attributed'
    BY <1>11 DEF StartEditing
<1>12. ASSUME NEW p \in Parts, NEW v \in Values, Edit(p, v) PROVE Attributed'
  <2>1. /\ \A b \in Bookmarks : written[b] \subseteq written'[b]
        /\ content' \in written'[id]
    BY <1>12 DEF Edit
  <2>2. UNCHANGED <<text, saves, id, crossed>>
    BY <1>12 DEF Edit
  <2>. QED
    BY <2>1, <2>2
<1>13. ASSUME HandleBlur PROVE Attributed'
    BY <1>13 DEF HandleBlur, HandleUpdate
<1>14. ASSUME NEW p \in Parts, AutoSave(p) PROVE Attributed'
    BY <1>14 DEF AutoSave, HandleUpdate
<1>15. ASSUME ReceiveUpdate PROVE Attributed'
    BY <1>15 DEF ReceiveUpdate
<1>16. CASE UNCHANGED vars
    BY <1>16 DEF vars, table, editor, bounds, history
<1>. QED
    BY <1>1, <1>2, <1>3, <1>4, <1>5, <1>6, <1>7, <1>8, <1>9, <1>10, <1>11, <1>12, <1>13, <1>14, <1>15, <1>16 DEF Next, EditNote, EditTags, Parts

\* A PATCH has read the row before the deletion, or finds none.
LEMMA SurvivorsStep == TypeOK /\ Survivors /\ [Next]_vars => Survivors'
<1> SUFFICES ASSUME TypeOK /\ Survivors, [Next]_vars PROVE Survivors'
    OBVIOUS
<1> USE SavedDetailsAssumption DEF table, editor, bounds, history, NoData, Idle, Asked, Data, Synced, TypeOK, Survivors, DeletedStaysDeleted
<1>1. ASSUME NEW b \in Bookmarks, Open(b) PROVE Survivors'
    BY <1>1 DEF Open
<1>2. ASSUME NEW b \in Bookmarks, LoadAnswers(b) PROVE Survivors'
    BY <1>2 DEF LoadAnswers
<1>3. ASSUME NEW b \in Bookmarks, LoadReturns(b) PROVE Survivors'
    BY <1>3 DEF LoadReturns
<1>4. ASSUME NEW b \in Bookmarks, NEW t \in Texts, EditElsewhere(b, t) PROVE Survivors'
    BY <1>4 DEF EditElsewhere
<1>5. ASSUME NEW b \in Bookmarks, DeleteElsewhere(b) PROVE Survivors'
  <2>1. /\ \A c \in Bookmarks : exists'[c] <=> c # b /\ exists[c]
        /\ deleted' = deleted \cup {b} /\ survivors \subseteq survivors' /\ saves' = saves
        /\ \A s \in saves : s.at = "read" /\ s.id = b => s.id \in survivors'
    BY <1>5 DEF DeleteElsewhere
  <2>2. DeletedStaysDeleted'
    BY <2>1
  <2>3. \A s \in saves : s.at = "read" /\ s.id \in deleted' => s.id \in survivors'
    BY <2>1
  <2>. QED
    BY <2>1, <2>2, <2>3
<1>6. ASSUME NEW s \in saves, ReadRow(s) PROVE Survivors'
    BY <1>6 DEF ReadRow, Moved
<1>7. ASSUME NEW s \in saves, SaveRow(s) PROVE Survivors'
    BY <1>7 DEF SaveRow, Moved
<1>8. ASSUME NEW s \in saves, LoseSave(s) PROVE Survivors'
    BY <1>8 DEF LoseSave, Moved
<1>9. ASSUME NEW s \in saves, SaveReturns(s) PROVE Survivors'
    BY <1>9 DEF SaveReturns
<1>10. ASSUME NEW s \in saves, SaveFails(s) PROVE Survivors'
    BY <1>10 DEF SaveFails
<1>11. ASSUME StartEditing PROVE Survivors'
    BY <1>11 DEF StartEditing
<1>12. ASSUME NEW p \in Parts, NEW v \in Values, Edit(p, v) PROVE Survivors'
    BY <1>12 DEF Edit
<1>13. ASSUME HandleBlur PROVE Survivors'
    BY <1>13 DEF HandleBlur, HandleUpdate
<1>14. ASSUME NEW p \in Parts, AutoSave(p) PROVE Survivors'
    BY <1>14 DEF AutoSave, HandleUpdate
<1>15. ASSUME ReceiveUpdate PROVE Survivors'
    BY <1>15 DEF ReceiveUpdate
<1>16. CASE UNCHANGED vars
    BY <1>16 DEF vars, table, editor, bounds, history
<1>. QED
    BY <1>1, <1>2, <1>3, <1>4, <1>5, <1>6, <1>7, <1>8, <1>9, <1>10, <1>11, <1>12, <1>13, <1>14, <1>15, <1>16 DEF Next, EditNote, EditTags, Parts

\* What a step leaves as it was, as long as nothing goes wrong.
LEMMA CalmStep ==
  ASSUME TypeOK, [Next]_vars, Undisturbed'
  PROVE  /\ Undisturbed
         /\ \A b \in Bookmarks : ~DeleteElsewhere(b) /\ \A t \in Texts : ~EditElsewhere(b, t)
         /\ \A s \in saves : ~LoseSave(s)
         /\ \A b \in Bookmarks : Open(b) => ~dirty /\ saves = {}
         /\ \A p \in Parts, v \in Values : Edit(p, v) => saves = {}
<1> USE DEF Undisturbed, table, editor, bounds, history
<1>1. ASSUME NEW b \in Bookmarks, Open(b) PROVE Undisturbed /\ ~dirty /\ saves = {}
    BY <1>1, BoundsType DEF Open
<1>2. ASSUME NEW b \in Bookmarks, LoadAnswers(b) PROVE Undisturbed
    BY <1>2, BoundsType DEF LoadAnswers
<1>3. ASSUME NEW b \in Bookmarks, LoadReturns(b) PROVE Undisturbed
    BY <1>3, BoundsType DEF LoadReturns
<1>4. ASSUME NEW b \in Bookmarks, NEW t \in Texts, EditElsewhere(b, t) PROVE FALSE
    BY <1>4, BoundsType DEF EditElsewhere
<1>5. ASSUME NEW b \in Bookmarks, DeleteElsewhere(b) PROVE FALSE
    BY <1>5, BoundsType DEF DeleteElsewhere
<1>6. ASSUME NEW s \in saves, ReadRow(s) PROVE Undisturbed
    BY <1>6, BoundsType DEF ReadRow, Moved
<1>7. ASSUME NEW s \in saves, SaveRow(s) PROVE Undisturbed
    BY <1>7, BoundsType DEF SaveRow, Moved
<1>8. ASSUME NEW s \in saves, LoseSave(s) PROVE FALSE
    BY <1>8, BoundsType DEF LoseSave, Moved
<1>9. ASSUME NEW s \in saves, SaveReturns(s) PROVE Undisturbed
    BY <1>9, BoundsType DEF SaveReturns
<1>10. ASSUME NEW s \in saves, SaveFails(s) PROVE Undisturbed
    BY <1>10, BoundsType DEF SaveFails
<1>11. ASSUME StartEditing PROVE Undisturbed
    BY <1>11, BoundsType DEF StartEditing
<1>12. ASSUME NEW p \in Parts, NEW v \in Values, Edit(p, v) PROVE Undisturbed /\ saves = {}
    BY <1>12, BoundsType DEF Edit
<1>13. ASSUME HandleBlur PROVE Undisturbed
    BY <1>13, BoundsType DEF HandleBlur, HandleUpdate
<1>14. ASSUME NEW p \in Parts, AutoSave(p) PROVE Undisturbed
    BY <1>14, BoundsType DEF AutoSave, HandleUpdate
<1>15. ASSUME ReceiveUpdate PROVE Undisturbed
    BY <1>15, BoundsType DEF ReceiveUpdate
<1>16. ASSUME UNCHANGED vars PROVE Undisturbed
    BY <1>16 DEF vars
<1>. QED
    BY <1>1, <1>2, <1>3, <1>4, <1>5, <1>6, <1>7, <1>8, <1>9, <1>10, <1>11, <1>12, <1>13, <1>14, <1>15, <1>16 DEF Next, EditNote, EditTags, Parts

\* An edit is sent, and what is sent is saved.
LEMMA EditIsSentStep == TypeOK /\ Undisturbed /\ Calm /\ Undisturbed' /\ [Next]_vars => EditIsSent'
<1> SUFFICES ASSUME TypeOK /\ Undisturbed /\ Calm /\ Undisturbed', [Next]_vars PROVE EditIsSent'
    OBVIOUS
<1> USE SavedDetailsAssumption, CalmStep DEF EditIsSent, table, editor, bounds, history, NoData, Idle, Asked, Data, Synced, Calm
<1>1. ASSUME NEW b \in Bookmarks, Open(b) PROVE EditIsSent'
    BY <1>1 DEF EditIsSent, Open
<1>2. ASSUME NEW b \in Bookmarks, LoadAnswers(b) PROVE EditIsSent'
    BY <1>2 DEF EditIsSent, LoadAnswers
<1>3. ASSUME NEW b \in Bookmarks, LoadReturns(b) PROVE EditIsSent'
    BY <1>3 DEF EditIsSent, LoadReturns
<1>4. ASSUME NEW b \in Bookmarks, NEW t \in Texts, EditElsewhere(b, t) PROVE EditIsSent'
    BY <1>4
<1>5. ASSUME NEW b \in Bookmarks, DeleteElsewhere(b) PROVE EditIsSent'
    BY <1>5
<1>6. ASSUME NEW s \in saves, ReadRow(s) PROVE EditIsSent'
  <2> DEFINE r == [s EXCEPT !.at = "read"]
  <2>1. s \in Save /\ r.id = s.id /\ r.text = s.text /\ r.at = "read"
    BY MovedSave DEF TypeOK, Save
  <2>2. saves' = (saves \ {s}) \cup {r}
    BY <1>6, <2>1 DEF EditIsSent, ReadRow, Moved, TypeOK
  <2> HIDE DEF r
  <2>. QED
    BY <1>6, <2>1, <2>2 DEF EditIsSent, ReadRow
<1>7. ASSUME NEW s \in saves, SaveRow(s) PROVE EditIsSent'
  <2> DEFINE r == [s EXCEPT !.at = "saved"]
  <2>1. s \in Save /\ r.id = s.id /\ r.text = s.text /\ r.at = "saved"
    BY MovedSave DEF TypeOK, Save
  <2>2. s.id = id /\ s.text = last[id] /\ id \in Bookmarks /\ text \in [Bookmarks -> Texts]
    BY DEF EditIsSent, TypeOK
  <2>3. /\ saves' = (saves \ {s}) \cup {r}
        /\ text' = [text EXCEPT ![id] = last[id]] /\ exists' = [exists EXCEPT ![id] = TRUE]
    BY <1>7, <2>2 DEF SaveRow, Moved
  <2>4. text'[id] = last[id] /\ \A b \in Bookmarks : b # id => text'[b] = text[b]
    BY <2>2, <2>3
  <2> HIDE DEF r
  <2>. QED
    BY <1>7, <2>1, <2>2, <2>3, <2>4 DEF EditIsSent, SaveRow, TypeOK
<1>8. ASSUME NEW s \in saves, LoseSave(s) PROVE EditIsSent'
    BY <1>8
<1>9. ASSUME NEW s \in saves, SaveReturns(s) PROVE EditIsSent'
    BY <1>9 DEF EditIsSent, SaveReturns
<1>10. ASSUME NEW s \in saves, SaveFails(s) PROVE EditIsSent'
    BY <1>10 DEF EditIsSent, SaveFails
<1>11. ASSUME StartEditing PROVE EditIsSent'
    BY <1>11 DEF EditIsSent, StartEditing
<1>12. ASSUME NEW p \in Parts, NEW v \in Values, Edit(p, v) PROVE EditIsSent'
  <2>1. /\ saves = {} /\ saves' = {} /\ dirty' /\ id \in Bookmarks
        /\ last' = [last EXCEPT ![id] = content'] /\ unnoticed' = (debounced = content')
        /\ UNCHANGED <<text, exists, id, debounced>>
    BY <1>12 DEF Edit, TypeOK
  <2>2. last'[id] = content' /\ \A b \in Bookmarks : b # id => last'[b] = last[b]
    BY <2>1 DEF TypeOK
  <2>3. \A b \in Bookmarks : text[b] = last'[b] \/ b = id
    BY <2>2 DEF EditIsSent
  <2>. QED
    BY <2>1, <2>2, <2>3 DEF EditIsSent
<1>13. ASSUME HandleBlur PROVE EditIsSent'
    BY <1>13 DEF EditIsSent, HandleBlur, HandleUpdate
<1>14. ASSUME NEW p \in Parts, AutoSave(p) PROVE EditIsSent'
  <2> DEFINE r == [id |-> id, text |-> content, at |-> "sent"]
  <2>1. /\ saves' = IF dirty THEN saves \cup {r} ELSE saves
        /\ UNCHANGED <<text, exists, id, content, dirty, last>>
    BY <1>14 DEF AutoSave, HandleUpdate
  <2>2. r.id = id /\ r.text = content /\ r.at = "sent"
    OBVIOUS
  <2> HIDE DEF r
  <2>. QED
    BY <2>1, <2>2 DEF EditIsSent
<1>15. ASSUME ReceiveUpdate PROVE EditIsSent'
    BY <1>15 DEF EditIsSent, ReceiveUpdate
<1>16. CASE UNCHANGED vars
    BY <1>16 DEF EditIsSent, vars, table, editor, bounds, history
<1>. QED
    BY <1>1, <1>2, <1>3, <1>4, <1>5, <1>6, <1>7, <1>8, <1>9, <1>10, <1>11, <1>12, <1>13, <1>14, <1>15, <1>16 DEF EditIsSent, Next, EditNote, EditTags, Parts

\* SWR has the row.
LEMMA CacheIsTheRowStep == TypeOK /\ Undisturbed /\ Calm /\ Undisturbed' /\ [Next]_vars => CacheIsTheRow'
<1> SUFFICES ASSUME TypeOK /\ Undisturbed /\ Calm /\ Undisturbed', [Next]_vars PROVE CacheIsTheRow'
    OBVIOUS
<1> USE SavedDetailsAssumption, CalmStep DEF CacheIsTheRow, table, editor, bounds, history, NoData, Idle, Asked, Data, Synced, Calm
<1>1. ASSUME NEW b \in Bookmarks, Open(b) PROVE CacheIsTheRow'
  <2>1. /\ ~dirty /\ ~dirty' /\ UNCHANGED <<text, cache>>
        /\ \A c \in Bookmarks : loading'[c] = loading[c] \/ loading'[c] = Asked
    BY <1>1 DEF Open, TypeOK
  <2>. QED
    BY <2>1 DEF CacheIsTheRow
<1>2. ASSUME NEW b \in Bookmarks, LoadAnswers(b) PROVE CacheIsTheRow'
    BY <1>2 DEF CacheIsTheRow, LoadAnswers
<1>3. ASSUME NEW b \in Bookmarks, LoadReturns(b) PROVE CacheIsTheRow'
    BY <1>3 DEF CacheIsTheRow, LoadReturns
<1>4. ASSUME NEW b \in Bookmarks, NEW t \in Texts, EditElsewhere(b, t) PROVE CacheIsTheRow'
    BY <1>4
<1>5. ASSUME NEW b \in Bookmarks, DeleteElsewhere(b) PROVE CacheIsTheRow'
    BY <1>5
<1>6. ASSUME NEW s \in saves, ReadRow(s) PROVE CacheIsTheRow'
    BY <1>6 DEF CacheIsTheRow, ReadRow, Moved
<1>7. ASSUME NEW s \in saves, SaveRow(s) PROVE CacheIsTheRow'
  <2>1. /\ text' = [text EXCEPT ![id] = last[id]] /\ (~dirty => text[id] = last[id]) /\ id \in Bookmarks
        /\ UNCHANGED <<id, cache, loading, dirty>>
    BY <1>7 DEF EditIsSent, SaveRow, TypeOK
  <2>2. \A b \in Bookmarks : b # id \/ ~dirty => text'[b] = text[b]
    BY <2>1 DEF TypeOK
  <2>. QED
    BY <2>1, <2>2 DEF CacheIsTheRow
<1>8. ASSUME NEW s \in saves, LoseSave(s) PROVE CacheIsTheRow'
    BY <1>8
<1>9. ASSUME NEW s \in saves, SaveReturns(s) PROVE CacheIsTheRow'
  <2>1. /\ text[id] = last[id] /\ s.text = last[id] /\ id \in Bookmarks
        /\ cache' = [cache EXCEPT ![id] = Data(s.text)] /\ loading' = [loading EXCEPT ![id] = Idle]
        /\ UNCHANGED <<id, text>>
    BY <1>9 DEF EditIsSent, SaveReturns, TypeOK
  <2>2. cache'[id] = Data(last[id]) /\ loading'[id] = Idle
    BY <2>1 DEF TypeOK
  <2>3. \A b \in Bookmarks : b # id => cache'[b] = cache[b] /\ loading'[b] = loading[b]
    BY <2>1 DEF TypeOK
  <2>. QED
    BY <2>1, <2>2, <2>3 DEF CacheIsTheRow
<1>10. ASSUME NEW s \in saves, SaveFails(s) PROVE CacheIsTheRow'
    BY <1>10 DEF CacheIsTheRow, SaveFails
<1>11. ASSUME StartEditing PROVE CacheIsTheRow'
    BY <1>11 DEF CacheIsTheRow, StartEditing
<1>12. ASSUME NEW p \in Parts, NEW v \in Values, Edit(p, v) PROVE CacheIsTheRow'
    BY <1>12 DEF CacheIsTheRow, Edit
<1>13. ASSUME HandleBlur PROVE CacheIsTheRow'
    BY <1>13 DEF CacheIsTheRow, HandleBlur, HandleUpdate
<1>14. ASSUME NEW p \in Parts, AutoSave(p) PROVE CacheIsTheRow'
    BY <1>14 DEF CacheIsTheRow, AutoSave, HandleUpdate
<1>15. ASSUME ReceiveUpdate PROVE CacheIsTheRow'
    BY <1>15 DEF CacheIsTheRow, ReceiveUpdate
<1>16. CASE UNCHANGED vars
    BY <1>16 DEF CacheIsTheRow, vars, table, editor, bounds, history
<1>. QED
    BY <1>1, <1>2, <1>3, <1>4, <1>5, <1>6, <1>7, <1>8, <1>9, <1>10, <1>11, <1>12, <1>13, <1>14, <1>15, <1>16 DEF CacheIsTheRow, Next, EditNote, EditTags, Parts

\* The row is what the last event says.
LEMMA EventsEndWithTheRowStep == TypeOK /\ Undisturbed /\ Calm /\ Undisturbed' /\ [Next]_vars => EventsEndWithTheRow'
<1> SUFFICES ASSUME TypeOK /\ Undisturbed /\ Calm /\ Undisturbed', [Next]_vars PROVE EventsEndWithTheRow'
    OBVIOUS
<1> USE SavedDetailsAssumption, CalmStep DEF EventsEndWithTheRow, table, editor, bounds, history, NoData, Idle, Asked, Data, Synced, Calm
<1>1. ASSUME NEW b \in Bookmarks, Open(b) PROVE EventsEndWithTheRow'
    BY <1>1 DEF EventsEndWithTheRow, Open
<1>2. ASSUME NEW b \in Bookmarks, LoadAnswers(b) PROVE EventsEndWithTheRow'
    BY <1>2 DEF EventsEndWithTheRow, LoadAnswers
<1>3. ASSUME NEW b \in Bookmarks, LoadReturns(b) PROVE EventsEndWithTheRow'
    BY <1>3 DEF EventsEndWithTheRow, LoadReturns
<1>4. ASSUME NEW b \in Bookmarks, NEW t \in Texts, EditElsewhere(b, t) PROVE EventsEndWithTheRow'
    BY <1>4
<1>5. ASSUME NEW b \in Bookmarks, DeleteElsewhere(b) PROVE EventsEndWithTheRow'
    BY <1>5
<1>6. ASSUME NEW s \in saves, ReadRow(s) PROVE EventsEndWithTheRow'
    BY <1>6 DEF EventsEndWithTheRow, ReadRow, Moved
<1>7. ASSUME NEW s \in saves, SaveRow(s) PROVE EventsEndWithTheRow'
  <2> DEFINE e == [id |-> s.id, text |-> s.text]
  <2>1. /\ e \in Event /\ events \in Seq(Event) /\ events' = Append(events, e)
        /\ e.id = id /\ id \in Bookmarks /\ text' = [text EXCEPT ![id] = e.text]
    BY <1>7 DEF EditIsSent, SaveRow, TypeOK, Event
  <2> HIDE DEF e
  <2>2. /\ Len(events') = Len(events) + 1 /\ Len(events) \in Nat
        /\ \A i \in 1..Len(events) :
             i \in 1..Len(events') /\ events'[i] = events[i] /\ events[i].id \in Bookmarks
        /\ Len(events') \in 1..Len(events') /\ events'[Len(events')] = e
        /\ \A i \in 1..Len(events') : i # Len(events') => i \in 1..Len(events)
    BY <2>1, Enqueue DEF Event
  <2>3. \A b \in Bookmarks : text'[b] = IF b = id THEN e.text ELSE text[b]
    BY <2>1 DEF TypeOK
  <2> SUFFICES ASSUME NEW i \in 1..Len(events'), events'[i].text # text'[events'[i].id]
               PROVE  \E j \in 1..Len(events') : i < j /\ events'[j].id = events'[i].id
    BY DEF EventsEndWithTheRow
  <2>4. i \in 1..Len(events) /\ events'[i] = events[i] /\ events[i].id \in Bookmarks
    BY <2>1, <2>2, <2>3
  <2>5. CASE events[i].id = id
    <3>1. i < Len(events') /\ events'[Len(events')].id = events'[i].id
      BY <2>1, <2>2, <2>4, <2>5
    <3>. QED
      BY <2>2, <3>1
  <2>6. CASE events[i].id # id
    <3>1. PICK j \in 1..Len(events) : i < j /\ events[j].id = events[i].id
      BY <2>3, <2>4, <2>6 DEF EventsEndWithTheRow
    <3>. QED
      BY <2>2, <2>4, <3>1
  <2>. QED
    BY <2>5, <2>6
<1>8. ASSUME NEW s \in saves, LoseSave(s) PROVE EventsEndWithTheRow'
    BY <1>8
<1>9. ASSUME NEW s \in saves, SaveReturns(s) PROVE EventsEndWithTheRow'
    BY <1>9 DEF EventsEndWithTheRow, SaveReturns
<1>10. ASSUME NEW s \in saves, SaveFails(s) PROVE EventsEndWithTheRow'
    BY <1>10 DEF EventsEndWithTheRow, SaveFails
<1>11. ASSUME StartEditing PROVE EventsEndWithTheRow'
    BY <1>11 DEF EventsEndWithTheRow, StartEditing
<1>12. ASSUME NEW p \in Parts, NEW v \in Values, Edit(p, v) PROVE EventsEndWithTheRow'
    BY <1>12 DEF EventsEndWithTheRow, Edit
<1>13. ASSUME HandleBlur PROVE EventsEndWithTheRow'
    BY <1>13 DEF EventsEndWithTheRow, HandleBlur, HandleUpdate
<1>14. ASSUME NEW p \in Parts, AutoSave(p) PROVE EventsEndWithTheRow'
    BY <1>14 DEF EventsEndWithTheRow, AutoSave, HandleUpdate
<1>15. ASSUME ReceiveUpdate PROVE EventsEndWithTheRow'
  <2>1. events' = Tail(events) /\ text' = text /\ events # <<>> /\ events \in Seq(Event)
    BY <1>15 DEF ReceiveUpdate, TypeOK, Event
  <2>2. /\ Len(events) \in Nat \ {0} /\ Len(events') = Len(events) - 1
        /\ \A i \in 1..Len(events') : events'[i] = events[i + 1]
    BY <2>1, Dequeue
  <2> SUFFICES ASSUME NEW i \in 1..Len(events'), events'[i].text # text'[events'[i].id]
               PROVE  \E j \in 1..Len(events') : i < j /\ events'[j].id = events'[i].id
    BY DEF EventsEndWithTheRow
  <2>3. i + 1 \in 1..Len(events) /\ events[i + 1].text # text[events[i + 1].id]
    BY <2>1, <2>2
  <2>4. PICK j \in 1..Len(events) : i + 1 < j /\ events[j].id = events[i + 1].id
    BY <2>3 DEF EventsEndWithTheRow
  <2>5. j - 1 \in 1..Len(events') /\ i < j - 1 /\ (j - 1) + 1 = j
    BY <2>2, <2>4
  <2>6. events'[j - 1] = events[j] /\ events'[i] = events[i + 1]
    BY <2>2, <2>5
  <2>7. events'[j - 1].id = events'[i].id
    BY <2>4, <2>6
  <2>. QED
    BY <2>5, <2>7
<1>16. CASE UNCHANGED vars
    BY <1>16 DEF EventsEndWithTheRow, vars, table, editor, bounds, history
<1>. QED
    BY <1>1, <1>2, <1>3, <1>4, <1>5, <1>6, <1>7, <1>8, <1>9, <1>10, <1>11, <1>12, <1>13, <1>14, <1>15, <1>16 DEF EventsEndWithTheRow, Next, EditNote, EditTags, Parts

\* The editor gets to the row.
LEMMA EditorCatchesUpStep == TypeOK /\ Undisturbed /\ Calm /\ Undisturbed' /\ [Next]_vars => EditorCatchesUp'
<1> SUFFICES ASSUME TypeOK /\ Undisturbed /\ Calm /\ Undisturbed', [Next]_vars PROVE EditorCatchesUp'
    OBVIOUS
<1> USE SavedDetailsAssumption, CalmStep DEF EditorCatchesUp, table, editor, bounds, history, NoData, Idle, Asked, Data, Synced, Calm
<1>1. ASSUME NEW b \in Bookmarks, Open(b) PROVE EditorCatchesUp'
  <2>1. /\ ~dirty /\ id' = b /\ UNCHANGED <<text, cache>>
        /\ cache[b].ok => content' = cache[b].text
    BY <1>1 DEF Open
  <2>. QED
    BY <2>1 DEF EditorCatchesUp, CacheIsTheRow
<1>2. ASSUME NEW b \in Bookmarks, LoadAnswers(b) PROVE EditorCatchesUp'
    BY <1>2 DEF EditorCatchesUp, LoadAnswers
<1>3. ASSUME NEW b \in Bookmarks, LoadReturns(b) PROVE EditorCatchesUp'
  <2>1. /\ cache' = [cache EXCEPT ![b] = loading[b].answer] /\ loading[b].answer.ok
        /\ UNCHANGED <<id, text, dirty, isEditing, events>> /\ id \in Bookmarks
        /\ content' = IF b = id /\ cache[b] # loading[b].answer
                     THEN Synced(loading[b].answer, isEditing, dirty) ELSE content
    BY <1>3 DEF LoadReturns, TypeOK
  <2>2. CASE b = id /\ cache[b] # loading[b].answer
    BY <2>1, <2>2 DEF EditorCatchesUp, CacheIsTheRow
  <2>3. CASE ~(b = id /\ cache[b] # loading[b].answer)
    <3>1. cache'[id] = cache[id] /\ content' = content
      BY <2>1, <2>3 DEF TypeOK
    <3>. QED
      BY <2>1, <3>1 DEF EditorCatchesUp
  <2>. QED
    BY <2>2, <2>3
<1>4. ASSUME NEW b \in Bookmarks, NEW t \in Texts, EditElsewhere(b, t) PROVE EditorCatchesUp'
    BY <1>4
<1>5. ASSUME NEW b \in Bookmarks, DeleteElsewhere(b) PROVE EditorCatchesUp'
    BY <1>5
<1>6. ASSUME NEW s \in saves, ReadRow(s) PROVE EditorCatchesUp'
    BY <1>6 DEF EditorCatchesUp, ReadRow, Moved
<1>7. ASSUME NEW s \in saves, SaveRow(s) PROVE EditorCatchesUp'
  <2>1. /\ events \in Seq(Event) /\ [id |-> s.id, text |-> s.text] \in Event
        /\ events' = Append(events, [id |-> s.id, text |-> s.text])
        /\ text' = [text EXCEPT ![s.id] = s.text] /\ s.id \in Bookmarks
        /\ UNCHANGED <<id, cache, content, dirty, isEditing>>
    BY <1>7 DEF SaveRow, TypeOK, Event
  <2>2. /\ \A i \in 1..Len(events) : i \in 1..Len(events') /\ events'[i] = events[i]
        /\ Len(events') \in 1..Len(events') /\ events'[Len(events')].id = s.id
    BY <2>1, Enqueue
  <2>3. CASE s.id = id
    BY <2>1, <2>2, <2>3 DEF EditorCatchesUp
  <2>4. CASE s.id # id
    <3>1. text'[id] = text[id]
      BY <2>1, <2>4 DEF TypeOK
    <3>. QED
      BY <2>1, <2>2, <3>1 DEF EditorCatchesUp
  <2>. QED
    BY <2>3, <2>4
<1>8. ASSUME NEW s \in saves, LoseSave(s) PROVE EditorCatchesUp'
    BY <1>8
<1>9. ASSUME NEW s \in saves, SaveReturns(s) PROVE EditorCatchesUp'
  <2>1. s.text = text[id] /\ UNCHANGED <<id, text, isEditing>> /\ (~isEditing => content' = s.text)
    BY <1>9 DEF EditIsSent, SaveReturns
  <2>. QED
    BY <2>1 DEF EditorCatchesUp
<1>10. ASSUME NEW s \in saves, SaveFails(s) PROVE EditorCatchesUp'
    BY <1>10 DEF EditorCatchesUp, SaveFails
<1>11. ASSUME StartEditing PROVE EditorCatchesUp'
    BY <1>11 DEF EditorCatchesUp, StartEditing
<1>12. ASSUME NEW p \in Parts, NEW v \in Values, Edit(p, v) PROVE EditorCatchesUp'
    BY <1>12 DEF EditorCatchesUp, Edit
<1>13. ASSUME HandleBlur PROVE EditorCatchesUp'
  <2>1. /\ UNCHANGED <<id, text, cache, dirty>> /\ id \in Bookmarks
        /\ cache[id].ok /\ ~dirty => content' = cache[id].text
    BY <1>13 DEF HandleBlur, TypeOK
  <2>. QED
    BY <2>1 DEF EditorCatchesUp, CacheIsTheRow
<1>14. ASSUME NEW p \in Parts, AutoSave(p) PROVE EditorCatchesUp'
    BY <1>14 DEF EditorCatchesUp, AutoSave, HandleUpdate
<1>15. ASSUME ReceiveUpdate PROVE EditorCatchesUp'
  <2>1. /\ events' = Tail(events) /\ events # <<>> /\ events \in Seq(Event)
        /\ UNCHANGED <<id, text, cache, dirty, isEditing>>
        /\ content' = IF ~isEditing /\ ~dirty /\ Head(events).id = id THEN Head(events).text ELSE content
    BY <1>15 DEF ReceiveUpdate, TypeOK, Event
  <2>2. /\ Len(events) \in Nat \ {0} /\ Len(events') = Len(events) - 1 /\ Head(events) = events[1]
        /\ \A i \in 1..Len(events') : events'[i] = events[i + 1]
    BY <2>1, Dequeue
  <2>3. \A j \in 1..Len(events) : 1 < j => \E i \in 1..Len(events') : events'[i] = events[j]
    <3> SUFFICES ASSUME NEW j \in 1..Len(events), 1 < j
                 PROVE  \E i \in 1..Len(events') : events'[i] = events[j]
      OBVIOUS
    <3>1. j - 1 \in 1..Len(events') /\ (j - 1) + 1 = j
      BY <2>2
    <3>. QED
      BY <2>2, <3>1
  <2> SUFFICES ASSUME cache[id].ok, ~dirty, ~isEditing
               PROVE  content' = text[id] \/ \E i \in 1..Len(events') : events'[i].id = id
    BY <2>1 DEF EditorCatchesUp
  <2>4. CASE Head(events).id = id
    <3>1. 1 \in 1..Len(events) /\ content' = events[1].text /\ events[1].id = id
      BY <2>1, <2>2, <2>4
    <3>2. CASE \E j \in 1..Len(events) : 1 < j /\ events[j].id = id
      BY <2>3, <3>2
    <3>. QED
      BY <3>1, <3>2 DEF EventsEndWithTheRow
  <2>5. CASE Head(events).id # id
    <3>1. content' = content /\ events[1].id # id
      BY <2>1, <2>2, <2>5
    <3>2. CASE \E j \in 1..Len(events) : events[j].id = id
      <4>1. PICK j \in 1..Len(events) : events[j].id = id
        BY <3>2
      <4>2. 1 < j
        BY <2>2, <3>1, <4>1
      <4>. QED
        BY <2>3, <4>1, <4>2
    <3>. QED
      BY <3>1, <3>2 DEF EditorCatchesUp
  <2>. QED
    BY <2>4, <2>5
<1>16. CASE UNCHANGED vars
    BY <1>16 DEF EditorCatchesUp, vars, table, editor, bounds, history
<1>. QED
    BY <1>1, <1>2, <1>3, <1>4, <1>5, <1>6, <1>7, <1>8, <1>9, <1>10, <1>11, <1>12, <1>13, <1>14, <1>15, <1>16 DEF EditorCatchesUp, Next, EditNote, EditTags, Parts

\* A text that is written down stays where it was written: the invariant.
LEMMA Inductive == Spec => []IInv
<1>1. IInv /\ [Next]_vars => IInv'
  <2> SUFFICES ASSUME IInv, [Next]_vars PROVE IInv'
    OBVIOUS
  <2>1. (TypeOK /\ Attributed /\ Survivors)'
    BY TypeStep, AttributedStep, SurvivorsStep DEF IInv
  <2>2. ASSUME Undisturbed' PROVE Calm'
    <3>1. TypeOK /\ Undisturbed /\ Calm
      BY <2>2, CalmStep DEF IInv
    <3>. QED
      BY <2>2, <3>1, EditIsSentStep, CacheIsTheRowStep, EventsEndWithTheRowStep,
         EditorCatchesUpStep DEF Calm
  <2>. QED
    BY <2>1, <2>2 DEF IInv
<1>. QED
  BY <1>1, InitIInv, PTL DEF Spec

\* The variables of the editor, of SWR and of the server keep their types.
THEOREM TypeCorrect == Spec => []TypeOK
<1>1. IInv => TypeOK
  BY DEF IInv
<1>. QED
  BY <1>1, Inductive, PTL

\* A text is only ever saved to the bookmark it was written for, as long as no
\* other bookmark is opened with an edit unsaved: handleUpdate sends what the
\* editor has, for the bookmark it shows.
THEOREM Whereabouts == Spec => []TextsStayWhereWritten
<1>1. IInv => TextsStayWhereWritten
  BY DEF IInv, Attributed, TextsStayWhereWritten
<1>. QED
  BY <1>1, Inductive, PTL

\* UpdateBookmarkMetadata brings a deleted bookmark back only if it had read the
\* row before the deletion.
THEOREM Resurrection == Spec => []DeletedStaysDeleted
<1>1. IInv => DeletedStaysDeleted
  BY DEF IInv, Survivors
<1>. QED
  BY <1>1, Inductive, PTL

\* However loads, saves, events and the pauses of the debounce interleave, the
\* server ends up with what the editor held after the last edit of every bookmark,
\* and the editor shows it; only an edit that restored what the pauses had seen may
\* be left, in the editor and marked.
THEOREM NothingIsLost == Spec => []LastEditIsSaved
<1>1. IInv => LastEditIsSaved
  <2> SUFFICES ASSUME IInv, Quiet, Undisturbed
               PROVE  /\ \A b \in Bookmarks : text[b] = last[b] \/ (b = id /\ dirty)
                      /\ ~dirty /\ cache[id].ok => content = text[id]
                      /\ dirty => unnoticed /\ content = last[id]
    BY DEF LastEditIsSaved, Undisturbed
  <2>1. EditIsSent /\ EditorCatchesUp
    BY DEF IInv, Calm
  <2>2. ~\E i \in 1..Len(events) : events[i].id = id
    BY DEF Quiet
  <2>. QED
    BY <2>1, <2>2 DEF EditIsSent, EditorCatchesUp, Quiet
<1>. QED
  BY <1>1, Inductive, PTL

\* As long as no save failed and no bookmark was deleted, an edit that is marked as
\* unsaved has a PATCH on its way or a pause has yet to end, whatever is opened,
\* edited and saved meanwhile, here and in other tabs; or it restored what the
\* pauses had seen.
MarkedEditWaits ==
  failures = 0 /\ deleted = {} =>
    /\ \A b \in Bookmarks : exists[b]
    /\ \A s \in saves : s.at # "failed"
    /\ dirty => saves # {} \/ debounced # content \/ unnoticed

LEMMA MarkedEditWaitsStep ==
  TypeOK /\ MarkedEditWaits /\ [Next]_vars => MarkedEditWaits'
<1> SUFFICES ASSUME TypeOK, MarkedEditWaits, [Next]_vars PROVE MarkedEditWaits'
    OBVIOUS
<1> USE DEF MarkedEditWaits, TypeOK
<1>1. ASSUME NEW b \in Bookmarks, Open(b) PROVE MarkedEditWaits'
  BY <1>1 DEF Open, Synced, table
<1>2. ASSUME NEW b \in Bookmarks, NEW t \in Texts, LoadAnswers(b) \/ EditElsewhere(b, t) PROVE MarkedEditWaits'
  BY <1>2 DEF LoadAnswers, EditElsewhere, table, editor, bounds, history
<1>3. ASSUME NEW b \in Bookmarks, LoadReturns(b) PROVE MarkedEditWaits'
  BY <1>3 DEF LoadReturns, Synced, table, bounds, history
<1>4. ASSUME NEW b \in Bookmarks, DeleteElsewhere(b) PROVE MarkedEditWaits'
  BY <1>4 DEF DeleteElsewhere
<1>5. ASSUME NEW s \in saves, ReadRow(s) PROVE MarkedEditWaits'
  <2>1. s \in Save /\ UNCHANGED <<exists, content, debounced, dirty, failures, deleted>>
    BY <1>5 DEF ReadRow, table, editor, bounds, history, Save
  <2>2. saves' = (saves \ {s}) \cup {[s EXCEPT !.at = IF exists[s.id] THEN "read" ELSE "failed"]}
    BY <1>5 DEF ReadRow, Moved
  <2>3. exists[s.id] => [s EXCEPT !.at = IF exists[s.id] THEN "read" ELSE "failed"].at # "failed"
    BY <2>1 DEF Save
  <2>. QED  BY <2>1, <2>2, <2>3 DEF Save
<1>6. ASSUME NEW s \in saves, SaveRow(s) PROVE MarkedEditWaits'
  <2>1. /\ s \in Save /\ UNCHANGED <<content, debounced, dirty, failures, deleted>>
        /\ exists' = [exists EXCEPT ![s.id] = TRUE]
    BY <1>6 DEF SaveRow, editor, bounds, history, Save
  <2>2. saves' = (saves \ {s}) \cup {[s EXCEPT !.at = "saved"]}
    BY <1>6 DEF SaveRow, Moved
  <2>3. [s EXCEPT !.at = "saved"].at # "failed"
    BY <2>1 DEF Save
  <2>. QED  BY <2>1, <2>2, <2>3
<1>7. ASSUME NEW s \in saves, LoseSave(s) PROVE MarkedEditWaits'
  <2>1. failures' = failures + 1 /\ failures \in Nat
    BY <1>7 DEF LoseSave
  <2>2. failures' # 0
    BY <2>1
  <2>. QED  BY <2>2
<1>8. ASSUME NEW s \in saves, SaveReturns(s) PROVE MarkedEditWaits'
  BY <1>8 DEF SaveReturns, table, bounds, history
<1>9. ASSUME NEW s \in saves, SaveFails(s) PROVE MarkedEditWaits'
  BY <1>9 DEF SaveFails, table, editor, bounds, history
<1>10. ASSUME StartEditing PROVE MarkedEditWaits'
  BY <1>10 DEF StartEditing, table, history
<1>11. ASSUME NEW p \in Parts, NEW v \in Values, Edit(p, v) PROVE MarkedEditWaits'
  BY <1>11 DEF Edit, table
<1>12. ASSUME HandleBlur PROVE MarkedEditWaits'
  BY <1>12 DEF HandleBlur, HandleUpdate, Synced, table, bounds, history
<1>13. ASSUME NEW p \in Parts, AutoSave(p) PROVE MarkedEditWaits'
  <2>1. /\ UNCHANGED <<exists, failures, deleted, dirty>>
        /\ saves' = IF dirty THEN saves \cup {[id |-> id, text |-> content, at |-> "sent"]} ELSE saves
    BY <1>13 DEF AutoSave, HandleUpdate, table, bounds, history
  <2>2. [id |-> id, text |-> content, at |-> "sent"].at # "failed"
    OBVIOUS
  <2>3. \A s \in saves' : s \in saves \/ s.at # "failed"
    BY <2>1, <2>2
  <2>4. dirty => saves' # {}
    BY <2>1
  <2> HIDE DEF TypeOK
  <2>. QED  BY <2>1, <2>3, <2>4
<1>14. ASSUME ReceiveUpdate PROVE MarkedEditWaits'
  BY <1>14 DEF ReceiveUpdate, table, bounds, history
<1>15. CASE UNCHANGED vars
  BY <1>15 DEF vars, table, editor, bounds, history
<1>. QED
  BY <1>1, <1>2, <1>3, <1>4, <1>5, <1>6, <1>7, <1>8, <1>9, <1>10, <1>11, <1>12, <1>13, <1>14,
     <1>15 DEF Next, EditNote, EditTags, Parts

\* In one tab in which nothing goes wrong, the edit that the server does not have is
\* in a PATCH, or in the editor, marked, with a pause to end; or it restored what
\* the pauses had seen.
UnsavedEditWaits ==
  Undisturbed /\ ~unnoticed =>
    \A b \in Bookmarks : text[b] # last[b] =>
      \/ \E s \in saves : s.id = b /\ s.text = last[b]
      \/ b = id /\ dirty /\ content = last[b] /\ debounced # content

\* An edit waits for something that will save it, and a mark for something that
\* will clear it: the safety part of EditsAreSaved.
THEOREM NothingIsStuck == Spec => [](MarkedEditWaits /\ UnsavedEditWaits)
<1>1. Init => MarkedEditWaits
  BY DEF Init, MarkedEditWaits
<1>2. IInv /\ MarkedEditWaits /\ [Next]_vars => MarkedEditWaits'
  BY MarkedEditWaitsStep DEF IInv
<1>3. IInv => UnsavedEditWaits
  <2> SUFFICES ASSUME IInv, Undisturbed, ~unnoticed, NEW b \in Bookmarks, text[b] # last[b]
               PROVE  \/ \E s \in saves : s.id = b /\ s.text = last[b]
                      \/ b = id /\ dirty /\ content = last[b] /\ debounced # content
    BY DEF UnsavedEditWaits
  <2>1. EditIsSent
    BY DEF IInv, Calm
  <2>. QED
    BY <2>1 DEF EditIsSent
<1>. QED
  BY <1>1, <1>2, <1>3, Inductive, PTL DEF Spec
=============================================================================
