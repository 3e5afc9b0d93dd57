------------------------------ MODULE MCTcpRelay ------------------------------
(***************************************************************************)
(* Instances of TcpRelay for TLC: four connections in two rooms, three of  *)
(* them in the same one, so that a third party meets every pair.           *)
(***************************************************************************)
EXTENDS TcpRelay, TLC

CONSTANTS c1, c2, c3, c4, roomA, roomB

FourConns == {c1, c2, c3, c4}
TwoRooms  == {roomA, roomB}
ThreeInA  == (c1 :> roomA) @@ (c2 :> roomA) @@ (c3 :> roomA) @@ (c4 :> roomB)
=============================================================================
