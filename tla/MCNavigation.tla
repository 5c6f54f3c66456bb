---------------------------- MODULE MCNavigation ----------------------------
(* Instances of Navigation for TLC.                                        *)
EXTENDS Navigation
=============================================================================
