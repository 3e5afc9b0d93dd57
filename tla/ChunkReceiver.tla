----------------------------- MODULE ChunkReceiver -----------------------------
(***************************************************************************)
(* The receiving half of the browser's TransferEngine                      *)
(* (web/static/js/transfer.js): chunks arrive on many sockets in any order *)
(* and more than once, and are written in index order to a                 *)
(* StreamingDownloader that is created by the file-info message and takes  *)
(* several awaits to get ready.                                            *)
(*                                                                         *)
(* A write lands where the downloader's mode sends it at that moment:      *)
(* nowhere before the downloader exists, into fallbackChunks while         *)
(* prepare() is still waiting or in Blob mode, to the service worker in    *)
(* 'sw' mode.  The module keeps what each of those places was given.       *)
(***************************************************************************)
EXTENDS Integers, Sequences, FiniteSets

CONSTANTS
  TotalChunks,      \* info.totalChunks
  Modes             \* the modes prepare() can settle on in this browser

Chunks == 0 .. TotalChunks - 1

ASSUME ReceiverAssumption ==
  /\ TotalChunks \in Nat \ {0}
  /\ Modes \subseteq {"sw", "blob"}

VARIABLES
  mode,            \* "none": no downloader; "preparing": its mode is still null
  receivedChunks,  \* this.receivedChunks
  nextWriteIndex,  \* this._nextWriteIndex
  pendingChunks,   \* the keys of this._pendingChunks
  discarded,       \* chunks _writeChunk had no downloader for
  fallbackChunks,  \* the downloader's fallbackChunks
  posted,          \* chunks posted to the service worker
  saved,           \* the chunks of the Blob that close() saved
  swClosed,        \* close() told the service worker to end the download
  finished         \* _finishDownload has run: the page shows "complete"

orderVars == <<receivedChunks, nextWriteIndex, pendingChunks>>
sinkVars  == <<discarded, fallbackChunks, posted, saved, swClosed>>
vars == <<mode, orderVars, sinkVars, finished>>

\* Type invariant: the counters never pass the end of the file.
TypeOK ==
  /\ mode \in {"none", "preparing", "sw", "blob"}
  /\ receivedChunks \in 0 .. TotalChunks
  /\ nextWriteIndex \in 0 .. TotalChunks
  /\ pendingChunks \in SUBSET Chunks
  /\ discarded \in Seq(Chunks) /\ fallbackChunks \in Seq(Chunks)
  /\ posted \in Seq(Chunks) /\ saved \in Seq(Chunks)
  /\ swClosed \in BOOLEAN
  /\ finished \in BOOLEAN

Init ==
  /\ mode = "none"
  /\ receivedChunks = 0
  /\ nextWriteIndex = 0
  /\ pendingChunks = {}
  /\ discarded = <<>> /\ fallbackChunks = <<>> /\ posted = <<>> /\ saved = <<>>
  /\ swClosed = FALSE
  /\ finished = FALSE

\* The consecutive chunks from, from + 1, ... below to.
ChunkRun(from, to) == [i \in 1 .. to - from |-> from + i - 1]

\* The chunk was already received, through another pump or another connection.
Duplicate(c) == c < nextWriteIndex \/ c \in pendingChunks

WritesUpTo_OneOnly(c, n) ==
  n = IF c = nextWriteIndex THEN nextWriteIndex + 1 ELSE nextWriteIndex

\* The in-order run that chunk c unblocks ends below n: c and the stashed
\* chunks right after it, or nothing when c itself has to be stashed.
WritesUpTo(c, n) ==
  \/ c # nextWriteIndex /\ n = nextWriteIndex
  \/ /\ c = nextWriteIndex
     /\ n \in nextWriteIndex + 1 .. TotalChunks
     /\ nextWriteIndex + 1 .. n - 1 \subseteq pendingChunks
     /\ n \notin pendingChunks

StashAfter(c, n) == (pendingChunks \cup {c}) \ (nextWriteIndex .. n - 1)

Completes_CountsStash ==
  mode # "none" /\ receivedChunks + 1 + Cardinality(pendingChunks) >= TotalChunks

Completes_LateCount == mode # "none" /\ receivedChunks = TotalChunks

\* receivedChunks === totalChunks with this chunk; totalChunks is still 0 until
\* the file-info message was handled.
Completes == mode # "none" /\ receivedChunks + 1 = TotalChunks

\* _writeChunk and write() for each chunk of the run, fallbackChunks apart.
Write(run) ==
  /\ discarded' = IF mode = "none" THEN discarded \o run ELSE discarded
  /\ posted' = IF mode = "sw" THEN posted \o run ELSE posted

Fallback_BlobOnly(run) == IF mode = "blob" THEN fallbackChunks \o run ELSE fallbackChunks

\* fallbackChunks after write() was called for each chunk of the run.
Fallback(run) ==
  IF mode \in {"preparing", "blob"} THEN fallbackChunks \o run ELSE fallbackChunks

\* _finishDownload and close().  Outside 'sw' mode close() assembles the Blob,
\* also while prepare() has not settled, since its test is `mode === 'sw'`.
FinishDownload(fallback) ==
  /\ IF mode = "sw"
     THEN saved' = saved /\ fallbackChunks' = fallback
     ELSE saved' = fallback /\ fallbackChunks' = <<>>
  /\ swClosed' = (mode = "sw")
  /\ finished' = TRUE

\* _handleChunk: count the chunk, write what it unblocks or stash it, and end
\* the download with the last one.  A duplicate is ignored and changes nothing.
HandleChunk(c) ==
  /\ ~ Duplicate(c)
  /\ receivedChunks' = receivedChunks + 1
  /\ \E n \in 0 .. TotalChunks :
       /\ WritesUpTo(c, n)
       /\ nextWriteIndex' = n
       /\ Write(ChunkRun(nextWriteIndex, n))
       /\ IF Completes
          THEN /\ pendingChunks' = {}
               /\ FinishDownload(Fallback(ChunkRun(nextWriteIndex, n)))
          ELSE /\ pendingChunks' = StashAfter(c, n)
               /\ fallbackChunks' = Fallback(ChunkRun(nextWriteIndex, n))
               /\ UNCHANGED <<saved, swClosed, finished>>
  /\ UNCHANGED mode

FileInfoReceived_EveryCopy ==
  /\ ~ finished
  /\ mode' = "preparing"
  /\ fallbackChunks' = <<>>
  /\ UNCHANGED <<orderVars, discarded, posted, saved, swClosed, finished>>

\* _onFileInfoReceived, up to its await.  The relay and the control channel both
\* bring the message; the later copy is ignored.
FileInfoReceived ==
  /\ mode = "none"
  /\ mode' = "preparing"
  /\ UNCHANGED <<orderVars, sinkVars, finished>>

\* prepare() settles: the service worker answered, or the Blob fallback is used.
PrepareDone(m) ==
  /\ mode = "preparing"
  /\ mode' = m
  /\ UNCHANGED <<orderVars, sinkVars, finished>>

Next ==
  \/ \E c \in Chunks : HandleChunk(c)
  \/ FileInfoReceived
  \/ \E m \in Modes : PrepareDone(m)

\* Every chunk is eventually delivered at least once, and so is the file-info.
\* Nothing makes prepare() settle: the service worker may never answer.
Fairness ==
  /\ \A c \in Chunks : WF_vars(HandleChunk(c))
  /\ WF_vars(FileInfoReceived)

Spec     == Init /\ [][Next]_vars
FairSpec == Spec /\ Fairness
-----------------------------------------------------------------------------

(***************************************************************************)
(* The order of the file.  Whatever the arrival order, the duplicates and  *)
(* the moment prepare() settles, the chunks handed on so far are exactly   *)
(* 0, 1, ... in order, the discarded ones first, then those of the Blob    *)
(* path, then those of the service worker: nothing is written twice, out   *)
(* of order or skipped ("in strict index order", transfer.js:692).         *)
(***************************************************************************)
InOrder ==
  discarded \o (saved \o (fallbackChunks \o posted)) = ChunkRun(0, nextWriteIndex)

(***************************************************************************)
(* The counter that ends the transfer is exact: it is the number of chunks *)
(* written plus the number stashed, and every stashed chunk lies beyond    *)
(* the gap at nextWriteIndex, so the stash never hides a writable chunk.   *)
(***************************************************************************)
Accounting ==
  /\ receivedChunks = nextWriteIndex + Cardinality(pendingChunks)
  /\ pendingChunks \subseteq nextWriteIndex + 1 .. TotalChunks - 1

(***************************************************************************)
(* The page says "complete" only when every chunk was written, however     *)
(* they were ordered; and once the file-info is known, the last chunk      *)
(* does end it unless some chunk came before the file-info.                *)
(***************************************************************************)
FinishedMeansAllWritten ==
  /\ finished => nextWriteIndex = TotalChunks /\ mode # "none"
  /\ (receivedChunks = TotalChunks /\ discarded = <<>>) => finished

(***************************************************************************)
(* The saved file is whole, however it was saved, unless a chunk came      *)
(* before the file-info or was stranded in fallbackChunks by a service     *)
(* worker that answered late.  In particular the Blob is whole also when   *)
(* the last chunk arrives while prepare() is still waiting.                *)
(***************************************************************************)
SavedFileIsWhole ==
  (finished /\ discarded = <<>> /\ fallbackChunks = <<>>) =>
    (IF swClosed THEN posted ELSE saved) = ChunkRun(0, TotalChunks)

(***************************************************************************)
(* After "complete" nothing more is written: duplicates still in flight    *)
(* and the late end of prepare() leave the saved file alone.               *)
(***************************************************************************)
NothingWrittenAfterTheEnd ==
  [][finished => UNCHANGED <<orderVars, sinkVars, finished>>]_vars

(***************************************************************************)
(* The phases of a download.  A chunk reaches a sink only in the mode that *)
(* feeds it, the service worker last; a Blob is saved only by the end, and *)
(* never beside a stream that was closed; the end comes exactly with the   *)
(* last chunk, unless that one still came before the file-info.            *)
(***************************************************************************)
Phases ==
  /\ mode = "none" => fallbackChunks = <<>> /\ ~ finished
  /\ mode # "sw" => posted = <<>> /\ ~ swClosed
  /\ ~ finished => saved = <<>> /\ ~ swClosed
  /\ finished => receivedChunks = TotalChunks
  /\ finished /\ ~ swClosed => posted = <<>> /\ fallbackChunks = <<>>
  /\ swClosed => saved = <<>>
  /\ receivedChunks = TotalChunks /\ ~ finished => discarded # <<>>

(***************************************************************************)
(* The download ends, whatever the arrival order and even if prepare()     *)
(* never settles, unless a chunk was written before the file-info came.    *)
(***************************************************************************)
DownloadEnds == <>(finished \/ discarded # <<>>)

-----------------------------------------------------------------------------
(* What the comment says; the code does otherwise (README). *)

(***************************************************************************)
(* "writes incoming bytes to a real Chrome download" (transfer.js:37): the *)
(* download the user gets is the whole file once the page says complete.   *)
(***************************************************************************)
StreamHasEveryChunk == (swClosed /\ discarded = <<>>) => posted = ChunkRun(0, TotalChunks)
=============================================================================
