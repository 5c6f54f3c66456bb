---------------------------- MODULE MCRecentPage ----------------------------
(* Instances of RecentPage for TLC.                                        *)
EXTENDS RecentPage

\* The second session belongs to another configuration.
SecondForeign == {2}
=============================================================================
