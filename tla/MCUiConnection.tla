--------------------------- MODULE MCUiConnection ---------------------------
(* Instances of UiConnection for TLC.                                      *)
EXTENDS UiConnection

CONSTANTS c1, c2, c3, t1, t2

\* Two components share a topic, a third has one of its own.
Shared == [c \in {c1, c2, c3} |-> IF c = c3 THEN t2 ELSE t1]
=============================================================================
