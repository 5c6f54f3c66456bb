---------------------------- MODULE MCSessionLog ----------------------------
(* Instances of SessionLog for TLC. Symmetry is not used: one of the        *)
(* properties is a liveness property.                                       *)
EXTENDS SessionLog
=============================================================================
