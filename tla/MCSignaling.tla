------------------------------ MODULE MCSignaling ------------------------------
(***************************************************************************)
(* An instance of Signaling for TLC: a sender, a receiver, and a second    *)
(* sender that knows the id (a reloaded page, or the program restarted).   *)
(***************************************************************************)
EXTENDS Signaling, TLC

CONSTANTS s1, s2, x1

TwoSenders == {s1, s2, x1}
RoleOf     == (s1 :> "sender") @@ (s2 :> "sender") @@ (x1 :> "receiver")
Count      == (s1 :> 2) @@ (s2 :> 1) @@ (x1 :> 1)
=============================================================================
