------------------------------ MODULE FileTransfer -----------------------------
(***************************************************************************)
(* What a transfer promises, whatever carries it out.  A chunk leaves the  *)
(* sender's file once, is then under way, and arrives, whole or damaged,   *)
(* or is lost; nothing brings a lost chunk back, nothing mends a damaged   *)
(* one and nothing arrives twice.  The receiver's "complete" means that    *)
(* every chunk arrived, but not that each arrived whole.  The sender's     *)
(* means only that the whole file left: some of it may be under way, lost  *)
(* or damaged.                                                             *)
(***************************************************************************)
CONSTANT Chunks

VARIABLES
  place,        \* where each chunk is
  senderDone,   \* the sender's page says "delivered"
  receiverDone  \* the receiver's page says "complete"

Ends == {"arrived", "damaged"}   \* of a chunk that reached the receiver

Init ==
  /\ place = [c \in Chunks |-> "file"]
  /\ senderDone = FALSE /\ receiverDone = FALSE

\* Some chunks of the place `from` change to the place `to`.
Move(C, from, to) ==
  /\ \A c \in C : place[c] = from
  /\ place' = [c \in Chunks |-> IF c \in C THEN to ELSE place[c]]

\* Chunks leave the file; a connection that has died swallows them.
Send ==
  /\ \E C \in SUBSET Chunks, to \in {"under way", "lost"} : Move(C, "file", to)
  /\ UNCHANGED <<senderDone, receiverDone>>

Lose ==
  /\ \E C \in SUBSET Chunks : Move(C, "under way", "lost")
  /\ UNCHANGED <<senderDone, receiverDone>>

\* A chunk arrives, and the receiver is done only with the last one.
Arrive ==
  /\ \E c \in Chunks, to \in Ends : Move({c}, "under way", to)
  /\ receiverDone' => \A c \in Chunks : place'[c] \in Ends
  /\ receiverDone => receiverDone'
  /\ UNCHANGED senderDone

Finish ==
  /\ \A c \in Chunks : place[c] # "file"
  /\ senderDone' = TRUE
  /\ UNCHANGED <<place, receiverDone>>

Next == Send \/ Lose \/ Arrive \/ Finish

Spec == Init /\ [][Next]_<<place, senderDone, receiverDone>>
=============================================================================
