-------------------------- MODULE MCProxyRegistry --------------------------
(* Instances of ProxyRegistry for TLC.                                     *)
EXTENDS ProxyRegistry

CONSTANTS l1, t1

\* main finds one proxy in the configuration, or none.
OneProxy == <<[listen |-> l1, target |-> t1, mark |-> "plain"]>>
NoProxy == <<>>
=============================================================================
