------------------------------ MODULE MCTransfer -------------------------------
(***************************************************************************)
(* Instances of Transfer for TLC: the streams are model values.            *)
(***************************************************************************)
EXTENDS Transfer

CONSTANTS r0, r1, p0

OneRelay   == {r0}
OtherRelay == {r1}
TwoRelays  == {r0, r1}
OneChannel == {p0}
=============================================================================
