--------------------------- MODULE MCHistoryPage ---------------------------
(* Instances of HistoryPage for TLC.                                       *)
EXTENDS HistoryPage

CONSTANTS c1, c2, all, search

\* Sessions 1 and 3 are of the first configuration; the search finds 1 and 2.
OddFirst == [s \in 1..3 |-> IF s = 2 THEN c2 ELSE c1]
Found12 == [c \in {all, search} |-> IF c = all THEN 1..3 ELSE {1, 2}]
=============================================================================
