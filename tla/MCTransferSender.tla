--------------------------- MODULE MCTransferSender ---------------------------
(***************************************************************************)
(* Instances of TransferSender for TLC: the streams are model values, and  *)
(* each configuration says which of them may fail, and how.                *)
(***************************************************************************)
EXTENDS TransferSender

CONSTANTS r1, r2, p1

NoStream   == {}
OneRelay   == {r1}
TwoRelays  == {r1, r2}
OneChannel == {p1}
OneOfEach  == {r1, p1}
=============================================================================
