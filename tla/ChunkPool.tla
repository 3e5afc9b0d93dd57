------------------------------ MODULE ChunkPool ------------------------------
(***************************************************************************)
(* What the sending engine promises of a file's chunks, however its pumps  *)
(* are scheduled and whatever fails: each chunk is free, taken by one      *)
(* stream, or handed to a connection; handed is for good; and "done" is    *)
(* said of a whole file only.  TransferSender implements it.               *)
(***************************************************************************)
CONSTANTS Streams, Chunks

VARIABLES
  taken,   \* the chunks each stream has taken and not handed over
  handed,  \* the chunks given to a connection
  done     \* has the user been told?

vars == <<taken, handed, done>>

Free == Chunks \ (handed \cup UNION {taken[s] : s \in Streams})

Init ==
  /\ taken = [s \in Streams |-> {}]
  /\ handed = {}
  /\ done = FALSE

\* A stream hands over some of its chunks, gives back others, takes free ones.
Turn(s) ==
  /\ taken' \in [Streams -> SUBSET Chunks]
  /\ \A t \in Streams \ {s} : taken'[t] = taken[t]
  /\ handed \subseteq handed' /\ handed' \subseteq handed \cup taken[s]
  /\ taken'[s] \subseteq (taken[s] \cup Free) \ handed'
  /\ UNCHANGED done

Finish ==
  /\ handed = Chunks
  /\ done' = TRUE
  /\ UNCHANGED <<taken, handed>>

Next == Finish \/ \E s \in Streams : Turn(s)

Spec == Init /\ [][Next]_vars
=============================================================================
