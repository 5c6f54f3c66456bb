---------------------------- MODULE SessionLists ----------------------------
(***************************************************************************)
(* The lists of sessions the pages keep: how an answer of the server, an   *)
(* event and a click change them (recent/page.tsx, history/page.tsx,       *)
(* with-configs-recent.tsx, with-configs-history.tsx, session-list.tsx).   *)
(* A row is a record with an id and a state; ids are the insertion order,  *)
(* which is the order of the timestamps.                                   *)
(***************************************************************************)
EXTENDS Naturals, SequencesExt, FiniteSetsExt

NoSession == 0

IdsOf(list) == {list[i].id : i \in DOMAIN list}

\* mergeSessions: a known session is replaced where it is, a new one comes first.
MergeSession(prev, session) ==
  IF session.id \in IdsOf(prev)
    THEN [i \in DOMAIN prev |-> IF prev[i].id = session.id THEN session ELSE prev[i]]
    ELSE <<session>> \o prev

\* A finite set of numbers in ascending order, and the rows of a list at a set of
\* places: what SetToSortSeq and SelectSeq give, in a form to reason about.
InOrder(set) ==
  CHOOSE s \in [1..Cardinality(set) -> set] : \A i, j \in DOMAIN s : i < j => s[i] < s[j]
Picked(list, places) == [n \in 1..Cardinality(places) |-> list[InOrder(places)[n]]]

\* delete_session.
RemoveSessions(prev, ids) == Picked(prev, {i \in DOMAIN prev : prev[i].id \notin ids})

\* An answer for offset 0 replaces the list, another one extends it by the
\* sessions it does not have.
MergePage(prev, page, offset) ==
  IF offset = 0 THEN page
  ELSE prev \o Picked(page, {i \in DOMAIN page : page[i].id \notin IdsOf(prev)})

\* A mutant: the effect selects the first row whatever is selected.
SelectFirst(list, current) == IF list # <<>> THEN Head(list).id ELSE current

\* The effect on allLoadedSessions.
AutoSelect(list, current) ==
  IF list # <<>> /\ current \notin IdsOf(list) THEN Head(list).id ELSE current

\* The server's page: what the configuration has, newest first.
PageOf(row, ids, offset, limit) ==
  LET n == Cardinality(ids)
      last == IF offset + limit < n THEN offset + limit ELSE n
      Id(i) == InOrder(ids)[n + 1 - offset - i]
  IN  [i \in 1..(last - offset) |-> [id |-> Id(i), state |-> row[Id(i)]]]
=============================================================================
