---------------------------- MODULE MCProxyPages ----------------------------
(* Instances of ProxyPages for TLC: a configuration may get a second row   *)
(* after its first was deleted.                                            *)
EXTENDS ProxyPages, TLC

MCEntryOf == "a1" :> "a" @@ "b1" :> "b" @@ "b2" :> "b"
=============================================================================
