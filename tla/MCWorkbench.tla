---------------------------- MODULE MCWorkbench ----------------------------
(* Instances of Workbench for TLC.                                         *)
EXTENDS Workbench

\* "dGVzdA" is base64 of "test"; "{}" is not base64 of anything.
Base64(text) == IF text = "dGVzdA" THEN "test" ELSE text
=============================================================================
