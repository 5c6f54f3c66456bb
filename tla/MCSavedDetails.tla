--------------------------- MODULE MCSavedDetails ---------------------------
(* Instances of SavedDetails for TLC.                                      *)
EXTENDS SavedDetails

CONSTANTS b1, b2

\* One bookmark has a tag, the other nothing yet.
MCStored == [b \in {b1, b2} |-> [Empty EXCEPT !["tags"] = IF b = b1 THEN "x" ELSE Nothing]]
=============================================================================
