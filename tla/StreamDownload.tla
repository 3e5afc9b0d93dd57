----------------------------- MODULE StreamDownload ----------------------------
(***************************************************************************)
(* The streaming download: the receiver page's StreamingDownloader         *)
(* (transfer.js), the service worker (sw.js) and the browser's download.   *)
(* The page posts messages to the worker, which arrive in order; the fetch *)
(* of the hidden iframe is an event of its own, ordered with none of them. *)
(* Chunks are numbered 1 .. NumChunks in the order the page writes them.   *)
(* prepare() is asynchronous and nobody waits for it: write() and close()  *)
(* may run at any of its awaits, while this.mode is still null.  What was  *)
(* written by then stays in fallbackChunks: close() makes a Blob of it, if *)
(* it comes before the stream opens, and nobody looks at it otherwise.     *)
(***************************************************************************)
EXTENDS Integers, Sequences

CONSTANTS
  NumChunks,  \* chunks the page writes before it closes the download
  NoEntry     \* streams has no entry of this id

Entries == [pending : Seq(1 .. NumChunks), live : BOOLEAN, closed : BOOLEAN]

ASSUME StreamDownloadAssumption == NumChunks \in Nat /\ NoEntry \notin Entries

VARIABLES
  worker,   \* the registration: no worker yet, one that installs, an active one
  prep,     \* how far prepare() is
  mode,     \* this.mode
  writer,   \* the page still writes, has closed the stream or saved a Blob
  written,  \* chunks handed to write()
  fallback, \* this.fallbackChunks
  port,     \* messages on their way to the worker
  acked,    \* did the worker answer the registration?
  iframe,   \* the hidden iframe and its fetch
  entry,    \* streams.get(id): [pending, live, closed]
  stream,   \* chunks in the ReadableStream, not read by the browser yet
  ended,    \* was controller.close() called?
  download, \* the stream's download as the browser shows it
  saved,    \* chunks in the stream's file on disk
  blob      \* chunks in the file that close() made of fallbackChunks

writerVars  == <<writer, written, fallback>>
pageVars    == <<prep, mode, acked, writerVars>>
browserVars == <<download, saved, blob>>
vars == <<worker, pageVars, port, iframe, entry, stream, ended, browserVars>>

Chunk(k) == [type |-> "chunk", data |-> k]
Register == [type |-> "register", data |-> 0]
Close    == [type |-> "close", data |-> 0]
Messages == {Register, Close} \cup {Chunk(k) : k \in 1 .. NumChunks}

TypeOK ==
  /\ worker \in {"absent", "installing", "active", "redundant"}
  /\ prep \in {"registering", "waiting", "posted", "done"}
  /\ mode \in {"null", "sw", "blob"}
  /\ writer \in {"open", "closed", "tidied", "saved"}
  /\ written \in 0 .. NumChunks /\ fallback \in Seq(1 .. NumChunks)
  /\ port \in Seq(Messages)
  /\ acked \in BOOLEAN /\ ended \in BOOLEAN
  /\ iframe \in {"none", "fetching", "answered", "removed"}
  /\ entry \in Entries \cup {NoEntry}
  /\ entry # NoEntry /\ entry.live => entry.pending = <<>> /\ ~entry.closed
  /\ stream \in Seq(1 .. NumChunks) /\ saved \in Seq(1 .. NumChunks)
  /\ blob \in Seq(1 .. NumChunks)
  /\ download \in {"none", "started", "complete", "failed", "missing", "cancelled"}

\* An earlier visit may have left an active worker.
Init ==
  /\ worker \in {"absent", "active"}
  /\ prep = "registering" /\ mode = "null" /\ acked = FALSE
  /\ writer = "open" /\ written = 0 /\ fallback = <<>>
  /\ port = <<>> /\ iframe = "none" /\ entry = NoEntry
  /\ stream = <<>> /\ ended = FALSE
  /\ download = "none" /\ saved = <<>> /\ blob = <<>>

-----------------------------------------------------------------------------
(* The page: prepare(). *)

\* No service workers on this page, or register() rejects.
RegisterFails ==
  /\ prep = "registering"
  /\ mode' = "blob" /\ prep' = "done"
  /\ UNCHANGED <<worker, acked, writerVars, port, iframe, entry, stream, ended, browserVars>>

\* register() resolves; if there was no worker, one begins to install.
RegisterWorker ==
  /\ prep = "registering"
  /\ prep' = "waiting"
  /\ worker' = IF worker = "absent" THEN "installing" ELSE worker
  /\ UNCHANGED <<mode, acked, writerVars, port, iframe, entry, stream, ended, browserVars>>

\* _waitForActive resolves with a worker, at once or when it gets active: it is
\* sent the registration, with a port to answer.
PostRegister ==
  /\ prep = "waiting" /\ worker = "active"
  /\ prep' = "posted"
  /\ port' = Append(port, Register)
  /\ UNCHANGED <<worker, mode, acked, writerVars, iframe, entry, stream, ended, browserVars>>

FallBack_NoTimer ==
  /\ prep = "waiting" /\ worker = "redundant"
  /\ mode' = "blob" /\ prep' = "done"
  /\ UNCHANGED <<worker, acked, writerVars, port, iframe, entry, stream, ended, browserVars>>

\* After 3 s the timer of _waitForActive resolves with no worker.
FallBack ==
  /\ prep = "waiting" /\ worker # "active"
  /\ mode' = "blob" /\ prep' = "done"
  /\ UNCHANGED <<worker, acked, writerVars, port, iframe, entry, stream, ended, browserVars>>

\* The worker has answered; nothing asks whether the page wrote or closed before.
OpenIframe ==
  /\ prep = "posted" /\ acked
  /\ iframe' = "fetching"
  /\ mode' = "sw" /\ prep' = "done"
  /\ UNCHANGED <<worker, acked, writerVars, port, entry, stream, ended, browserVars>>

-----------------------------------------------------------------------------
(* The page: write() and close(), wherever prepare() is. *)

Write ==
  /\ writer = "open" /\ written < NumChunks
  /\ written' = written + 1
  /\ \/ mode = "sw" /\ port' = Append(port, Chunk(written + 1)) /\ UNCHANGED fallback
     \/ mode # "sw" /\ fallback' = Append(fallback, written + 1) /\ UNCHANGED port
  /\ UNCHANGED <<worker, prep, mode, acked, writer, iframe, entry, stream, ended, browserVars>>

\* close() in the mode 'sw'.
CloseStream ==
  /\ writer = "open" /\ written = NumChunks /\ mode = "sw"
  /\ port' = Append(port, Close)
  /\ writer' = "closed"
  /\ UNCHANGED <<worker, prep, mode, acked, written, fallback, iframe, entry, stream, ended,
                 browserVars>>

\* close() in the mode 'blob', or before prepare() has set a mode: what was
\* written is saved at once.  prepare() is not told and goes on.
SaveBlob ==
  /\ writer = "open" /\ written = NumChunks /\ mode # "sw"
  /\ blob' = fallback
  /\ fallback' = <<>>
  /\ writer' = "saved"
  /\ UNCHANGED <<worker, prep, mode, acked, written, port, iframe, entry, stream, ended,
                 download, saved>>

\* 2 s after close() the iframe is removed; a fetch that has no answer is dropped.
RemoveIframe ==
  /\ writer = "closed"
  /\ writer' = "tidied"
  /\ iframe' = IF iframe = "fetching" THEN "removed" ELSE iframe
  /\ UNCHANGED <<worker, prep, mode, acked, written, fallback, port, entry, stream, ended,
                 browserVars>>

-----------------------------------------------------------------------------
(* The service worker. *)

\* install calls skipWaiting(), so activation follows at once.
Activate ==
  /\ worker = "installing"
  /\ worker' = "active"
  /\ UNCHANGED <<pageVars, port, iframe, entry, stream, ended, browserVars>>

InstallFails ==
  /\ worker = "installing"
  /\ worker' = "redundant"
  /\ UNCHANGED <<pageVars, port, iframe, entry, stream, ended, browserVars>>

OnRegister ==
  /\ port # <<>> /\ Head(port) = Register
  /\ port' = Tail(port)
  /\ entry' = [pending |-> <<>>, live |-> FALSE, closed |-> FALSE]
  /\ acked' = TRUE
  /\ UNCHANGED <<worker, prep, mode, writerVars, iframe, stream, ended, browserVars>>

\* A chunk for an id the worker does not know is ignored.
OnChunk ==
  /\ port # <<>> /\ Head(port).type = "chunk"
  /\ port' = Tail(port)
  /\ \/ entry = NoEntry /\ UNCHANGED <<entry, stream>>
     \/ /\ entry # NoEntry /\ entry.live
        /\ stream' = Append(stream, Head(port).data)
        /\ UNCHANGED entry
     \/ /\ entry # NoEntry /\ ~entry.live
        /\ entry' = [entry EXCEPT !.pending = Append(@, Head(port).data)]
        /\ UNCHANGED stream
  /\ UNCHANGED <<worker, pageVars, iframe, ended, browserVars>>

OnClose_KeepsEntry ==
  /\ port # <<>> /\ Head(port) = Close
  /\ port' = Tail(port)
  /\ \/ entry = NoEntry /\ UNCHANGED <<entry, ended>>
     \/ entry # NoEntry /\ entry.live /\ ended' = TRUE /\ UNCHANGED entry
     \/ entry # NoEntry /\ ~entry.live
        /\ entry' = [entry EXCEPT !.closed = TRUE] /\ UNCHANGED ended
  /\ UNCHANGED <<worker, pageVars, iframe, stream, browserVars>>

\* A stream that has started is closed; otherwise the fetch will close it.
OnClose ==
  /\ port # <<>> /\ Head(port) = Close
  /\ port' = Tail(port)
  /\ \/ entry = NoEntry /\ UNCHANGED <<entry, ended>>
     \/ entry # NoEntry /\ entry.live /\ ended' = TRUE /\ entry' = NoEntry
     \/ entry # NoEntry /\ ~entry.live
        /\ entry' = [entry EXCEPT !.closed = TRUE] /\ UNCHANGED ended
  /\ UNCHANGED <<worker, pageVars, iframe, stream, browserVars>>

OnFetch_NoFlush ==
  /\ iframe = "fetching"
  /\ iframe' = "answered"
  /\ \/ entry = NoEntry /\ download' = "missing" /\ UNCHANGED <<entry, stream, ended>>
     \/ /\ entry # NoEntry
        /\ stream' = <<>>
        /\ ended' = entry.closed
        /\ entry' = IF entry.closed THEN NoEntry ELSE [entry EXCEPT !.live = TRUE]
        /\ download' = "started"
  /\ UNCHANGED <<worker, pageVars, port, saved, blob>>

\* The fetch of the iframe: start() makes the stream live and flushes into it
\* what arrived before, and closes it if the page closed already.
OnFetch ==
  /\ iframe = "fetching"
  /\ iframe' = "answered"
  /\ \/ entry = NoEntry /\ download' = "missing" /\ UNCHANGED <<entry, stream, ended>>
     \/ /\ entry # NoEntry
        /\ stream' = entry.pending
        /\ ended' = entry.closed
        /\ entry' = IF entry.closed THEN NoEntry
                    ELSE [entry EXCEPT !.pending = <<>>, !.live = TRUE]
        /\ download' = "started"
  /\ UNCHANGED <<worker, pageVars, port, saved, blob>>

-----------------------------------------------------------------------------
(* The browser and its user. *)

\* The browser reads the stream into the file.
SaveChunk ==
  /\ download = "started" /\ stream # <<>>
  /\ saved' = Append(saved, Head(stream))
  /\ stream' = Tail(stream)
  /\ UNCHANGED <<worker, pageVars, port, iframe, entry, ended, download, blob>>

FinishDownload ==
  /\ download = "started" /\ stream = <<>> /\ ended
  /\ download' = "complete"
  /\ UNCHANGED <<worker, pageVars, port, iframe, entry, stream, ended, saved, blob>>

\* cancel() of the stream.
CancelDownload ==
  /\ download = "started"
  /\ download' = "cancelled"
  /\ stream' = <<>>
  /\ entry' = NoEntry
  /\ UNCHANGED <<worker, pageVars, port, iframe, ended, saved, blob>>

\* The worker is stopped between two events, or a newer sw.js takes its place:
\* its map and its stream are gone.  Messages and the fetch are not lost.
KillWorker ==
  /\ entry # NoEntry \/ download = "started"
  /\ entry' = NoEntry
  /\ stream' = <<>>
  /\ download' = IF download = "started" THEN "failed" ELSE download
  /\ UNCHANGED <<worker, pageVars, port, iframe, ended, saved, blob>>

PageStep ==
  \/ RegisterWorker \/ PostRegister \/ FallBack \/ OpenIframe
  \/ Write \/ CloseStream \/ SaveBlob \/ RemoveIframe
WorkerStep  == OnRegister \/ OnChunk \/ OnClose
BrowserStep == SaveChunk \/ FinishDownload

Next ==
  \/ PageStep \/ RegisterFails \/ Activate \/ InstallFails \/ WorkerStep \/ OnFetch
  \/ BrowserStep \/ CancelDownload \/ KillWorker

\* Scripts run, the timer fires, events are delivered, the sender's chunks come
\* and the browser reads what it is given.  Nobody has to cancel the download, to
\* stop the worker or to fail.
Fairness == WF_vars(PageStep) /\ WF_vars(WorkerStep) /\ WF_vars(OnFetch) /\ WF_vars(BrowserStep)

Spec     == Init /\ [][Next]_vars
FairSpec == Spec /\ Fairness
-----------------------------------------------------------------------------

(***************************************************************************)
(* The file the user gets is the Blob, if close() made one, and otherwise  *)
(* the stream's, which begins behind the chunks that were written before   *)
(* the stream opened: they stay in fallbackChunks.  Apart from that it has *)
(* no gap, no repetition and no swapped chunks at any moment, is complete  *)
(* only when the last chunk is there, and final then: the page, the worker *)
(* and the browser together keep what Download promises.                   *)
(***************************************************************************)
File   == IF writer = "saved" THEN blob ELSE saved
Status == IF writer = "saved" \/ download = "complete" THEN "complete"
          ELSE IF download \in {"failed", "missing", "cancelled"} \/ iframe = "removed"
          THEN "lost" ELSE "open"
Skipped == IF mode = "sw" THEN Len(fallback) ELSE 0

D == INSTANCE Download WITH saved <- File, status <- Status, skipped <- Skipped

IsADownload == D!Spec

\* The Blob was saved before prepare() opened the stream, which nobody feeds or
\* closes any more: a second download that stays empty and unfinished.
Stray == writer = "saved" /\ mode = "sw"

(***************************************************************************)
(* The worker's streams map does not grow: this download's entry goes away *)
(* and stays away, cancelled or killed or not.  Two cases leave one behind:*)
(* a fetch that has no answer when the iframe is removed, and a stream     *)
(* that opens after close().                                               *)
(***************************************************************************)
EntryIsReleased == <>[](entry = NoEntry) \/ <>(iframe = "removed" \/ Stray)

(***************************************************************************)
(* However the messages, the awaits of prepare() and the fetch interleave, *)
(* prepare() returns, the page gets to its end and one file is complete (up*)
(* to what Download says is missing at its front), unless the download is  *)
(* cancelled, the worker killed or the iframe removed too early.           *)
(***************************************************************************)
DownloadCompletes ==
  <>(Status = "lost" \/ (prep = "done" /\ writer \in {"tidied", "saved"} /\ Status = "complete"))
=============================================================================
