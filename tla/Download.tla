-------------------------------- MODULE Download -------------------------------
(***************************************************************************)
(* What a download promises to the user, whoever carries it out: but for  *)
(* the chunks that were written before it opened, and are missing at its   *)
(* front, the file on disk is at every moment a beginning of the file that *)
(* was sent; it is marked complete only with the last chunk, never changes *)
(* after that, and a download that was lost is never marked complete.      *)
(***************************************************************************)
EXTENDS Integers, Sequences

CONSTANT NumChunks   \* chunks in the file, a natural number

VARIABLES
  saved,   \* the chunks on disk, in order
  skipped, \* the chunks at the front that the file lacks
  status   \* "open", "complete" or "lost"

\* The n chunks that follow the first k.
Run(k, n) == [i \in 1 .. n |-> k + i]

Init == saved = <<>> /\ skipped = 0 /\ status = "open"

\* The download opens behind the chunks that were written by now.
OpenLate ==
  /\ status = "open" /\ saved = <<>> /\ skipped = 0
  /\ skipped' \in 0 .. NumChunks
  /\ UNCHANGED <<saved, status>>

\* Some more of the file reaches the disk.
Grow ==
  /\ status = "open"
  /\ \E n \in Len(saved) + 1 .. NumChunks - skipped : saved' = Run(skipped, n)
  /\ UNCHANGED <<skipped, status>>

\* The rest of the file is there and the download is marked complete.
Complete ==
  /\ status = "open"
  /\ saved' = Run(skipped, NumChunks - skipped)
  /\ status' = "complete"
  /\ UNCHANGED skipped

\* The browser shows a failed or cancelled download, or none at all.
Lose ==
  /\ status = "open"
  /\ status' = "lost"
  /\ UNCHANGED <<saved, skipped>>

Next == OpenLate \/ Grow \/ Complete \/ Lose

Spec == Init /\ [][Next]_<<saved, skipped, status>>
=============================================================================
