---------------------------- MODULE SavedDetails ----------------------------
(***************************************************************************)
(* The editor of a saved session's note and tags (saved-details.tsx,       *)
(* saved-metadata-editor.tsx), which saves by itself after a pause and on  *)
(* blur, and the server's side of it: UpdateBookmarkMetadata reads the row *)
(* and then saves all of it (model_proxy_bookmark.go, api_bookmarks.go).   *)
(*                                                                         *)
(* A text is a note and tags, each a value of a small set: an edit may     *)
(* restore what was there before. One editor serves all bookmarks: the     *)
(* list only changes its id.                                               *)
(***************************************************************************)
EXTENDS Naturals, Sequences, FiniteSets

CONSTANTS
  Bookmarks,
  Values, Nothing,   \* what a note or the tags may be; no note, no tags
  Stored,        \* what is stored at the start
  First,         \* the bookmark selected when the page opens
  MaxEdits,      \* bound on the edits in this tab
  MaxFaults,     \* bound on edits and deletions in other tabs and lost requests
  MaxOpens,      \* bound on the bookmarks selected and the notes clicked
  MaxSteps       \* bound on all of these together

Parts == {"note", "tags"}
Texts == [Parts -> Values]
Empty == [p \in Parts |-> Nothing]

ASSUME SavedDetailsAssumption ==
  /\ IsFiniteSet(Bookmarks) /\ First \in Bookmarks
  /\ Nothing \in Values /\ Stored \in [Bookmarks -> Texts]
  /\ {MaxEdits, MaxFaults, MaxOpens, MaxSteps} \subseteq Nat

VARIABLES
  text, exists,       \* the table
  events,             \* "update_session" messages on their way to this tab
  id,                 \* the bookmark shown
  cache,              \* SWR: what is shown for each bookmark
  loading,            \* SWR: the request for each, and its answer
  content,            \* note and tags in the editor
  debounced,          \* debouncedNote and debouncedTags
  dirty, isEditing,
  saves,              \* PATCH requests of handleUpdate on their way
  typed, opens, elsewhere, failures,
  written,            \* history: the texts each bookmark had, or that were written for it
  last,               \* history: what the editor held after the last edit of each
  unnoticed,          \* history: the last edit restored what the pauses had seen
  crossed,            \* history: another bookmark was opened with an edit unsaved
  overlapped,         \* history: an edit was made while another was being saved
  deleted, survivors  \* history: deleted bookmarks; those an update had read before

vars == <<text, exists, events, id, cache, loading, content, debounced, dirty, isEditing,
          saves, typed, opens, elsewhere, failures, written, last, unnoticed, crossed, overlapped,
          deleted, survivors>>

table == <<text, exists>>
editor == <<content, debounced, dirty, isEditing>>
bounds == <<typed, opens, elsewhere, failures>>
history == <<written, last, unnoticed, crossed, overlapped, deleted, survivors>>

NoData == [ok |-> FALSE, text |-> Empty]
Data(t) == [ok |-> TRUE, text |-> t]
Idle == [sent |-> FALSE, answer |-> NoData]
Asked == [sent |-> TRUE, answer |-> NoData]

Init ==
  /\ text = Stored /\ exists = [b \in Bookmarks |-> TRUE]
  /\ events = <<>>
  /\ id = First
  /\ cache = [b \in Bookmarks |-> NoData]
  /\ loading = [b \in Bookmarks |-> IF b = id THEN Asked ELSE Idle]
  /\ content = Empty /\ debounced = Empty /\ dirty = FALSE /\ isEditing = FALSE
  /\ saves = {}
  /\ typed = 0 /\ opens = 0 /\ elsewhere = 0 /\ failures = 0
  /\ written = [b \in Bookmarks |-> {Stored[b]}] /\ last = Stored /\ unnoticed = FALSE
  /\ crossed = FALSE /\ overlapped = FALSE /\ deleted = {} /\ survivors = {}

Goes == typed + opens + elsewhere + failures < MaxSteps

-----------------------------------------------------------------------------
(* The editor.                                                             *)

\* The effect on the data of SWR and on isEditing.
Synced(data, editing, isDirty) == IF data.ok /\ ~editing /\ ~isDirty THEN data.text ELSE content

\* A mutant: dirtyRef is not looked at.
HandleUpdateAlways == saves' = saves \cup {[id |-> id, text |-> content, at |-> "sent"]}

\* handleUpdate sends what the editor has, for the bookmark it shows. Of two
\* PATCHes with the same text at the same stage one is kept.
HandleUpdate ==
  IF dirty THEN saves' = saves \cup {[id |-> id, text |-> content, at |-> "sent"]}
           ELSE UNCHANGED saves

\* A row of the list is clicked. The data of the new key is shown at once if
\* there is any, and asked for.
Open(b) ==
  /\ b # id /\ ~isEditing /\ opens < MaxOpens /\ Goes
  /\ opens' = opens + 1
  /\ id' = b
  /\ loading' = [loading EXCEPT ![b] = IF @.sent THEN @ ELSE Asked]
  /\ content' = Synced(cache[b], FALSE, dirty)
  /\ crossed' = (crossed \/ dirty \/ saves # {})
  /\ UNCHANGED <<table, events, cache, debounced, dirty, isEditing, saves, typed, elsewhere,
                 failures, written, last, unnoticed, overlapped, deleted, survivors>>

\* The editor is there once the bookmark is loaded.
StartEditing ==
  /\ cache[id].ok /\ ~isEditing /\ opens < MaxOpens /\ Goes
  /\ opens' = opens + 1
  /\ isEditing' = TRUE
  /\ UNCHANGED <<table, events, id, cache, loading, content, debounced, dirty, saves, typed,
                 elsewhere, failures, history>>

\* The note or the tags change: dirtyRef is set, also when they become what they
\* were before the pause.
Edit(p, v) ==
  /\ cache[id].ok /\ typed < MaxEdits /\ Goes /\ v # content[p]
  /\ typed' = typed + 1
  /\ content' = [content EXCEPT ![p] = v]
  /\ dirty' = TRUE
  /\ written' = [written EXCEPT ![id] = @ \cup {content'}] /\ last' = [last EXCEPT ![id] = content']
  /\ unnoticed' = (debounced = content')
  /\ overlapped' = (overlapped \/ saves # {})
  /\ UNCHANGED <<table, events, id, cache, loading, debounced, isEditing, saves, opens,
                 elsewhere, failures, crossed, deleted, survivors>>

\* The text area is there while the note is edited.
EditNote(v) == isEditing /\ Edit("note", v)

\* A tag is added or removed, at any time; this includes what is in the tag input
\* when it loses the focus.
EditTags(v) == Edit("tags", v)

HandleBlur ==
  /\ isEditing
  /\ isEditing' = FALSE
  /\ HandleUpdate
  /\ content' = Synced(cache[id], FALSE, dirty)
  /\ UNCHANGED <<table, events, id, cache, loading, debounced, dirty, bounds, history>>

\* A mutant: the effect has only debouncedNote as a dependency.
AutoSaveNote(p) ==
  /\ debounced[p] # content[p]
  /\ debounced' = [debounced EXCEPT ![p] = content[p]]
  /\ IF p = "note" THEN HandleUpdate ELSE UNCHANGED saves
  /\ UNCHANGED <<table, events, id, cache, loading, content, dirty, isEditing, bounds, history>>

\* The pause of one useDebounced is over. What it has seen already runs no effect.
AutoSave(p) ==
  /\ debounced[p] # content[p]
  /\ debounced' = [debounced EXCEPT ![p] = content[p]]
  /\ HandleUpdate
  /\ UNCHANGED <<table, events, id, cache, loading, content, dirty, isEditing, bounds, history>>

\* A mutant: dirtyRef is not cleared.
SaveReturnsDirty(s) ==
  /\ s.at = "saved"
  /\ saves' = saves \ {s}
  /\ cache' = [cache EXCEPT ![id] = Data(s.text)]
  /\ loading' = [loading EXCEPT ![id] = Idle]
  /\ UNCHANGED <<table, events, id, editor, bounds, history>>

\* The answer of a PATCH: the edit counts as saved, and the answer becomes the
\* data of the bookmark shown by now; a load on its way for it is ignored.
SaveReturns(s) ==
  /\ s.at = "saved"
  /\ saves' = saves \ {s}
  /\ dirty' = FALSE
  /\ cache' = [cache EXCEPT ![id] = Data(s.text)]
  /\ loading' = [loading EXCEPT ![id] = Idle]
  /\ content' = Synced(Data(s.text), isEditing, FALSE)
  /\ UNCHANGED <<table, events, id, debounced, isEditing, bounds, history>>

\* The PATCH failed: the edit stays unsaved until something else saves it.
SaveFails(s) ==
  /\ s.at = "failed"
  /\ saves' = saves \ {s}
  /\ UNCHANGED <<table, events, id, cache, loading, editor, bounds, history>>

\* The answer of a GET.
LoadReturns(b) ==
  /\ loading[b].answer.ok
  /\ loading' = [loading EXCEPT ![b] = Idle]
  /\ cache' = [cache EXCEPT ![b] = loading[b].answer]
  /\ content' = IF b = id /\ cache[b] # loading[b].answer
               THEN Synced(loading[b].answer, isEditing, dirty) ELSE content
  /\ UNCHANGED <<table, events, id, debounced, dirty, isEditing, saves, bounds, history>>

\* The callback of useSubscription changes the editor and not the data of SWR.
ReceiveUpdate ==
  /\ events # <<>>
  /\ events' = Tail(events)
  /\ content' = IF ~isEditing /\ ~dirty /\ Head(events).id = id THEN Head(events).text ELSE content
  /\ UNCHANGED <<table, id, cache, loading, debounced, dirty, isEditing, saves, bounds, history>>

-----------------------------------------------------------------------------
(* The server.                                                             *)

LoadAnswers(b) ==
  /\ loading[b].sent /\ ~loading[b].answer.ok /\ exists[b]
  /\ loading' = [loading EXCEPT ![b].answer = Data(text[b])]
  /\ UNCHANGED <<table, events, id, cache, editor, saves, bounds, history>>

Moved(s, at) == saves' = (saves \ {s}) \cup {[s EXCEPT !.at = at]}

\* UpdateBookmarkMetadata: First ...
ReadRow(s) ==
  /\ s.at = "sent"
  /\ Moved(s, IF exists[s.id] THEN "read" ELSE "failed")
  /\ UNCHANGED <<table, events, id, cache, loading, editor, bounds, history>>

\* A mutant: the row is saved without having been read.
SaveUnread(s) ==
  /\ s.at \in {"sent", "read"}
  /\ text' = [text EXCEPT ![s.id] = s.text]
  /\ exists' = [exists EXCEPT ![s.id] = TRUE]
  /\ events' = Append(events, [id |-> s.id, text |-> s.text])
  /\ Moved(s, "saved")
  /\ UNCHANGED <<id, cache, loading, editor, bounds, history>>

\* ... then Save, which inserts the row if it is gone, and the publication.
SaveRow(s) ==
  /\ s.at = "read"
  /\ text' = [text EXCEPT ![s.id] = s.text]
  /\ exists' = [exists EXCEPT ![s.id] = TRUE]
  /\ events' = Append(events, [id |-> s.id, text |-> s.text])
  /\ Moved(s, "saved")
  /\ UNCHANGED <<id, cache, loading, editor, bounds, history>>

\* A PATCH is lost or the database fails.
LoseSave(s) ==
  /\ s.at \in {"sent", "read"}
  /\ elsewhere + failures < MaxFaults /\ Goes /\ failures' = failures + 1
  /\ Moved(s, "failed")
  /\ UNCHANGED <<table, events, id, cache, loading, editor, typed, opens, elsewhere, history>>

\* Another tab saves a text, or deletes a bookmark.
EditElsewhere(b, t) ==
  /\ exists[b] /\ t # text[b] /\ elsewhere + failures < MaxFaults /\ Goes
  /\ elsewhere' = elsewhere + 1
  /\ text' = [text EXCEPT ![b] = t]
  /\ written' = [written EXCEPT ![b] = @ \cup {t}]
  /\ events' = Append(events, [id |-> b, text |-> t])
  /\ UNCHANGED <<exists, id, cache, loading, editor, saves, typed, opens, failures, last,
                 unnoticed, crossed, overlapped, deleted, survivors>>

DeleteElsewhere(b) ==
  /\ exists[b] /\ elsewhere + failures < MaxFaults /\ Goes
  /\ elsewhere' = elsewhere + 1
  /\ exists' = [exists EXCEPT ![b] = FALSE]
  /\ deleted' = deleted \cup {b}
  /\ survivors' = survivors \cup {s.id : s \in {x \in saves : x.at = "read" /\ x.id = b}}
  /\ UNCHANGED <<text, events, id, cache, loading, editor, saves, typed, opens, failures,
                 written, last, unnoticed, crossed, overlapped>>

-----------------------------------------------------------------------------
Next ==
  \/ \E b \in Bookmarks :
       Open(b) \/ LoadAnswers(b) \/ LoadReturns(b) \/ DeleteElsewhere(b)
  \/ \E b \in Bookmarks, t \in Texts : EditElsewhere(b, t)
  \/ \E s \in saves :
       ReadRow(s) \/ SaveRow(s) \/ LoseSave(s) \/ SaveReturns(s) \/ SaveFails(s)
  \/ \E v \in Values : EditNote(v) \/ EditTags(v)
  \/ \E p \in Parts : AutoSave(p)
  \/ StartEditing \/ HandleBlur \/ ReceiveUpdate

Spec == Init /\ [][Next]_vars

\* Timers end, the server answers, and its answers arrive.
Fairness ==
  /\ WF_vars(\E p \in Parts : AutoSave(p))
  /\ WF_vars(\E s \in saves : ReadRow(s)) /\ WF_vars(\E s \in saves : SaveRow(s))
  /\ WF_vars(\E s \in saves : SaveReturns(s) \/ SaveFails(s))

FairSpec == Spec /\ Fairness

-----------------------------------------------------------------------------
(* Correctness.                                                            *)

\* Every variable has its type.
TypeOK ==
  /\ text \in [Bookmarks -> Texts] /\ exists \in [Bookmarks -> BOOLEAN]
  /\ events \in Seq([id : Bookmarks, text : Texts])
  /\ id \in Bookmarks
  /\ cache \in [Bookmarks -> [ok : BOOLEAN, text : Texts]]
  /\ loading \in [Bookmarks -> [sent : BOOLEAN, answer : [ok : BOOLEAN, text : Texts]]]
  /\ content \in Texts /\ debounced \in Texts /\ dirty \in BOOLEAN /\ isEditing \in BOOLEAN
  /\ saves \subseteq [id : Bookmarks, text : Texts, at : {"sent", "read", "saved", "failed"}]
  /\ typed \in 0..MaxEdits /\ opens \in 0..MaxOpens
  /\ elsewhere \in Nat /\ failures \in Nat /\ elsewhere + failures <= MaxFaults
  /\ written \in [Bookmarks -> SUBSET Texts] /\ last \in [Bookmarks -> Texts]
  /\ unnoticed \in BOOLEAN
  /\ crossed \in BOOLEAN /\ overlapped \in BOOLEAN
  /\ deleted \subseteq Bookmarks /\ survivors \subseteq Bookmarks

Quiet ==
  /\ saves = {} /\ events = <<>> /\ ~isEditing /\ debounced = content
  /\ \A b \in Bookmarks : ~loading[b].sent \/ ~exists[b]

\* A text is only ever saved to the bookmark it was written for, as long as no
\* other bookmark is opened while an edit is unsaved.
TextsStayWhereWritten == ~crossed => \A b \in Bookmarks : text[b] \in written[b]

\* Once everything has settled the server has what the editor held after the last
\* edit of every bookmark, and the editor shows it, however loads, saves, the events
\* of the tab's own saves and the pauses interleave; only an edit that restored what
\* the pauses had seen is left, still in the editor and marked as unsaved. What this
\* takes: no other bookmark opened with an edit unsaved, no edit during a save, no
\* failure, no other tab.
LastEditIsSaved ==
  Quiet /\ ~crossed /\ ~overlapped /\ failures = 0 /\ elsewhere = 0 =>
    /\ \A b \in Bookmarks : text[b] = last[b] \/ (b = id /\ dirty)
    /\ ~dirty /\ cache[id].ok => content = text[id]
    /\ dirty => unnoticed /\ content = last[id]

\* An update brings a deleted bookmark back only if it had read it before.
DeletedStaysDeleted == \A b \in deleted : exists[b] => b \in survivors

\* Every edit reaches the server, unless a save fails, another tab has a hand in it,
\* another bookmark is opened before, the edit is made during a save (whose answer
\* takes its mark), or it restores what the pauses had seen, so that none ends.
EditsAreSaved ==
  \A b \in Bookmarks :
    text[b] # last[b] ~>
      text[b] = last[b] \/ failures > 0 \/ elsewhere > 0 \/ crossed \/ overlapped \/ unnoticed

\* "Support optional note and tags for each bookmark": the texts of one bookmark
\* are never saved to another.
TextsStayWithTheirBookmark == \A b \in Bookmarks : text[b] \in written[b]
=============================================================================
