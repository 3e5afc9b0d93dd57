------------------------------- MODULE MCWsRelay -------------------------------
(***************************************************************************)
(* An instance of WsRelay for TLC: a sender, a receiver, and a second      *)
(* receiver connection, as a reloaded or twice opened page makes.          *)
(***************************************************************************)
EXTENDS WsRelay, TLC

CONSTANTS s1, x1, x2

Reloaded == {s1, x1, x2}
RoleOf   == (s1 :> "sender") @@ (x1 :> "receiver") @@ (x2 :> "receiver")
=============================================================================
