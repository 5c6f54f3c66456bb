------------------------------ MODULE MCWsHub ------------------------------
(* Instances of WsHub for TLC. The clients are not symmetric: only one of   *)
(* them pings.                                                              *)
EXTENDS WsHub
=============================================================================
