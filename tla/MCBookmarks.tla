---------------------------- MODULE MCBookmarks ----------------------------
(* Both sessions are saved at the start; a search finds the first bookmark *)
(* and the one created next.                                                *)
EXTENDS Bookmarks

CONSTANTS s1, s2, all, some

OldSessions == <<s1, s2>>
FoundOdd == [q \in {all, some} |-> IF q = all THEN Ids ELSE {1, 3} \cap Ids]
=============================================================================
