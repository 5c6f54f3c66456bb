--------------------------- MODULE SelectableList ---------------------------
(***************************************************************************)
(* What a list of sessions promises its user, whatever answers and events  *)
(* do to it: no session is listed twice, and the details shown beside it   *)
(* stay those of the session the user chose for as long as the list has    *)
(* it; only when it is gone is the first row shown instead.                *)
(***************************************************************************)
EXTENDS Naturals, SequencesExt

VARIABLES list, selected

NoSession == 0
Ids == {list[i].id : i \in DOMAIN list}

Init == list = <<>> /\ selected = NoSession

\* The rows change, or the page is opened anew.
Change ==
  /\ \A i, j \in DOMAIN list' : list'[i].id = list'[j].id => i = j
  /\ \/ selected \in Ids' /\ selected' = selected
     \/ selected \notin Ids' /\ list' # <<>> /\ selected' = Head(list').id
     \/ list' = <<>> /\ selected' \in {selected, NoSession}

\* The user chooses a row.
Click == selected' \in Ids /\ UNCHANGED list

Spec == Init /\ [][Change \/ Click]_<<list, selected>>
=============================================================================
