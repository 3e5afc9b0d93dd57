---------------------------- MODULE TransferSender ----------------------------
(***************************************************************************)
(* The sending half of the browser's TransferEngine                        *)
(* (web/static/js/transfer.js): one pool of chunk indices shared by many   *)
(* asynchronous pumps, one pump per relay WebSocket or P2P data channel.   *)
(*                                                                         *)
(* JavaScript runs each task to completion, so an action below is the code *)
(* from one await (a disk read, a yield, a bufferedamountlow callback) to  *)
(* the next.  Between two actions anything may happen to the connections   *)
(* and to the other pumps.  Buffer thresholds are counted in chunks.       *)
(***************************************************************************)
EXTENDS Integers, Sequences, FiniteSets, FiniteSetsExt, Functions

CONSTANTS
  Relays,        \* relay WebSockets opened by createOffer (NUM_RELAY)
  P2Ps,          \* P2P data channels opened by createOffer (NUM_P2P)
  TotalChunks,   \* Math.ceil(file.size / CHUNK_SIZE)
  BatchSize,     \* BATCH_SIZE, chunks claimed by one _readBatch
  RelayBufHigh,  \* RELAY_BUF_HIGH, a relay pump pauses above it
  P2PBufHigh,    \* P2P_BUF_HIGH, a P2P pump pauses above it
  P2PBufLow,     \* P2P_BUF_LOW, bufferedamountlow fires at or below it
  MayClose,      \* streams whose connection may fail
  MayThrow,      \* streams whose send() may throw
  MayFailRead    \* streams whose pump may see a rejected file read

Streams == Relays \cup P2Ps
Chunks  == 0 .. TotalChunks - 1

ASSUME SenderAssumption ==
  /\ Relays \cap P2Ps = {}
  /\ IsFiniteSet(Streams) /\ Streams # {}
  /\ TotalChunks \in Nat
  /\ BatchSize \in Nat \ {0}
  /\ RelayBufHigh \in Nat /\ P2PBufHigh \in Nat /\ P2PBufLow \in 0 .. P2PBufHigh
  /\ MayClose \subseteq Streams
  /\ MayThrow \subseteq Streams
  /\ MayFailRead \subseteq Streams

VARIABLES
  link,            \* readyState of each stream's connection
  pump,            \* where each stream's pump is suspended
  batch,           \* the chunks each pump has claimed and not sent, in order
  nextChunkIndex,  \* this._nextChunkIndex
  retryIndices,    \* this._retryIndices
  sentChunks,      \* this.sentChunks
  sendingStarted,  \* this._sendingStarted
  completeFired,   \* this._completeFired
  completed,       \* onComplete() has run: the page says "delivered"
  buffered,        \* what bufferedAmount counts: accepted by send(), not yet on the wire
  delivered        \* chunks that left a live connection's buffer

poolVars   == <<nextChunkIndex, retryIndices>>
pumpVars   == <<pump, batch>>
countVars  == <<sentChunks, sendingStarted, completeFired>>
streamVars == <<link, buffered, delivered>>
vars == <<poolVars, pumpVars, countVars, completed, streamVars>>

LinkStates == {"connecting", "open", "closed"}
\* "reading" awaits file.slice().arrayBuffer(), "paused" waits for buffer room,
\* "ended" has returned, "rejected" died of a rejected read with its batch.
PumpStates == {"idle", "reading", "paused", "ended", "rejected"}

(***************************************************************************)
(* Type invariant: indices stay chunk indices, and the cursor and counter  *)
(* never run past the end of the file.                                     *)
(***************************************************************************)
TypeOK ==
  /\ link \in [Streams -> LinkStates]
  /\ pump \in [Streams -> PumpStates]
  /\ batch \in [Streams -> Seq(Chunks)]
  /\ nextChunkIndex \in 0 .. TotalChunks
  /\ retryIndices \in Seq(Chunks)
  /\ sentChunks \in 0 .. TotalChunks
  /\ sendingStarted \in BOOLEAN
  /\ completeFired \in BOOLEAN
  /\ completed \in BOOLEAN
  /\ buffered \in [Streams -> Seq(Chunks)]
  /\ delivered \in SUBSET Chunks

\* createOffer has just opened every connection; nothing is ready yet.
Init ==
  /\ link = [s \in Streams |-> "connecting"]
  /\ pump = [s \in Streams |-> "idle"]
  /\ batch = [s \in Streams |-> <<>>]
  /\ nextChunkIndex = 0
  /\ retryIndices = <<>>
  /\ sentChunks = 0
  /\ sendingStarted = FALSE
  /\ completeFired = FALSE
  /\ completed = FALSE
  /\ buffered = [s \in Streams |-> <<>>]
  /\ delivered = {}

-----------------------------------------------------------------------------
(* The pool: _moreWork, _readBatch, _requeue *)

MoreWork_IgnoresRetries(next) == next < TotalChunks

MoreWork(next) == next < TotalChunks \/ retryIndices # <<>>

RetriesTaken == Min({BatchSize, Len(retryIndices)})

NewlyClaimed(next) == Max({0, Min({BatchSize - RetriesTaken, TotalChunks - next})})

ReadBatch_StaleCursor(s, next) ==
  /\ batch' = [batch EXCEPT ![s] =
       SubSeq(retryIndices, 1, RetriesTaken)
         \o [i \in 1 .. NewlyClaimed(next) |-> next + i - 1]]
  /\ nextChunkIndex' = Min({TotalChunks, next + 1})
  /\ retryIndices' = SubSeq(retryIndices, RetriesTaken + 1, Len(retryIndices))

\* The part of _readBatch before its first await: drain the retry queue first,
\* then claim the next contiguous chunks.  `next` is the cursor it starts from.
ReadBatch(s, next) ==
  /\ batch' = [batch EXCEPT ![s] =
       SubSeq(retryIndices, 1, RetriesTaken)
         \o [i \in 1 .. NewlyClaimed(next) |-> next + i - 1]]
  /\ nextChunkIndex' = next + NewlyClaimed(next)
  /\ retryIndices' = SubSeq(retryIndices, RetriesTaken + 1, Len(retryIndices))

\* The head of a pump's loop: `while (this._moreWork()) { await this._readBatch()`.
\* The check and the claim are one task, so the batch is never empty here.
LoopPump(s, next) ==
  \/ /\ MoreWork(next)
     /\ ReadBatch(s, next)
     /\ pump' = [pump EXCEPT ![s] = "reading"]
  \/ /\ ~ MoreWork(next)
     /\ batch' = [batch EXCEPT ![s] = <<>>]
     /\ nextChunkIndex' = next
     /\ pump' = [pump EXCEPT ![s] = "ended"]
     /\ UNCHANGED retryIndices

Unsent(s, k) == SubSeq(batch[s], k + 1, Len(batch[s]))

Requeue_Forgets(s, k) ==
  /\ pump' = [pump EXCEPT ![s] = "ended"]
  /\ batch' = [batch EXCEPT ![s] = <<>>]
  /\ UNCHANGED <<retryIndices, nextChunkIndex>>

Requeue_WholeBatch(s, k) ==
  /\ retryIndices' = retryIndices \o batch[s]
  /\ pump' = [pump EXCEPT ![s] = "ended"]
  /\ batch' = [batch EXCEPT ![s] = <<>>]
  /\ UNCHANGED nextChunkIndex

\* The pump gives up after k chunks of its batch: the rest goes back to the pool.
Requeue(s, k) ==
  /\ retryIndices' = retryIndices \o Unsent(s, k)
  /\ pump' = [pump EXCEPT ![s] = "ended"]
  /\ batch' = [batch EXCEPT ![s] = <<>>]
  /\ UNCHANGED nextChunkIndex

-----------------------------------------------------------------------------
(* Sending: ws.send / channel.send and _checkDone *)

BufHigh(s) == IF s \in Relays THEN RelayBufHigh ELSE P2PBufHigh

\* How many chunks of the batch go out before bufferedAmount exceeds the mark.
Sendable(s) == Min({Len(batch[s]), Max({0, BufHigh(s) + 1 - Len(buffered[s])})})

\* _checkDone after each of k sends: fires when the counter hits the total.
CheckDone(k) ==
  completeFired' = (completeFired \/ \E j \in 1 .. k : sentChunks + j = TotalChunks)

\* The first k chunks of the batch go to send(), in order.
Handover(s, k) ==
  /\ buffered' = [buffered EXCEPT ![s] = @ \o SubSeq(batch[s], 1, k)]
  /\ sentChunks' = sentChunks + k
  /\ CheckDone(k)
  /\ UNCHANGED <<link, delivered, sendingStarted>>

\* The pump runs on with an open connection: it sends the whole batch and goes
\* round its loop, or pauses when the buffer is full, or send() throws.
SendBatch(s) ==
  \/ /\ Sendable(s) = Len(batch[s])
     /\ Handover(s, Sendable(s))
     /\ LoopPump(s, nextChunkIndex)
  \/ /\ Sendable(s) < Len(batch[s])
     /\ Handover(s, Sendable(s))
     /\ pump' = [pump EXCEPT ![s] = "paused"]
     /\ batch' = [batch EXCEPT ![s] = Unsent(s, Sendable(s))]
     /\ UNCHANGED poolVars
  \/ /\ s \in MayThrow
     /\ \E k \in 0 .. Sendable(s) - 1 : Handover(s, k) /\ Requeue(s, k)

-----------------------------------------------------------------------------
(* The tasks *)

StartCursor_AlwaysReset == 0

\* _tryStart resets the cursor and counters the first time only.
StartCursor == IF sendingStarted THEN nextChunkIndex ELSE 0

\* ws.onopen / ch.onopen, then _tryStart: it launches the pump of every ready
\* stream that has none, which is s alone: the others started when they opened.
Open(s) ==
  /\ link[s] = "connecting"
  /\ link' = [link EXCEPT ![s] = "open"]
  /\ sendingStarted' = TRUE
  /\ sentChunks' = IF sendingStarted THEN sentChunks ELSE 0
  /\ LoopPump(s, StartCursor)
  /\ UNCHANGED <<completeFired, completed, buffered, delivered>>

\* The connection fails, before or after it opened.  onclose only logs; what is
\* in the socket's buffer is never sent, and bufferedAmount keeps counting it.
Close(s) ==
  /\ s \in MayClose
  /\ link[s] \in {"connecting", "open"}
  /\ link' = [link EXCEPT ![s] = "closed"]
  /\ UNCHANGED <<poolVars, pumpVars, countVars, completed, buffered, delivered>>

\* The disk read of a batch resolves.
ReadDone(s) ==
  /\ pump[s] = "reading"
  /\ \/ /\ link[s] = "open"
        /\ SendBatch(s)
     \/ /\ link[s] = "closed"
        /\ Requeue(s, 0)
        /\ UNCHANGED <<countVars, streamVars>>
  /\ UNCHANGED completed

\* The disk read rejects: the async pump rejects with it and nobody requeues.
ReadFails(s) ==
  /\ s \in MayFailRead
  /\ pump[s] = "reading"
  /\ pump' = [pump EXCEPT ![s] = "rejected"]
  /\ UNCHANGED <<poolVars, batch, countVars, completed, streamVars>>

\* A relay pump polls its buffer between yields.  Below the mark it calls
\* ws.send() without looking at readyState again: on a closed socket the chunk
\* is counted as sent and swallowed; the loop then notices and requeues the rest.
ResumeRelay(s) ==
  /\ s \in Relays
  /\ pump[s] = "paused"
  /\ \/ /\ link[s] = "open"
        /\ Len(buffered[s]) <= RelayBufHigh
        /\ SendBatch(s)
     \/ /\ link[s] = "closed"
        /\ Len(buffered[s]) > RelayBufHigh
        /\ Requeue(s, 0)
        /\ UNCHANGED <<countVars, streamVars>>
     \/ /\ link[s] = "closed"
        /\ Len(buffered[s]) <= RelayBufHigh
        /\ Handover(s, 1)
        /\ IF Len(batch[s]) = 1 THEN LoopPump(s, nextChunkIndex) ELSE Requeue(s, 1)
  /\ UNCHANGED completed

ResumeP2P_BelowLow(s) ==
  /\ s \in P2Ps
  /\ pump[s] = "paused"
  /\ Len(buffered[s]) < P2PBufLow
  /\ SendBatch(s)
  /\ UNCHANGED completed

\* A P2P pump resumes from the bufferedamountlow event and from nothing else.
ResumeP2P(s) ==
  /\ s \in P2Ps
  /\ pump[s] = "paused"
  /\ Len(buffered[s]) <= P2PBufLow
  /\ \/ /\ link[s] = "open"
        /\ SendBatch(s)
     \/ /\ link[s] = "closed"
        /\ Requeue(s, 0)
        /\ UNCHANGED <<countVars, streamVars>>
  /\ UNCHANGED completed

\* The browser's network stack drains the head of a live connection's buffer.
Transmit(s) ==
  /\ link[s] = "open"
  /\ buffered[s] # <<>>
  /\ delivered' = delivered \cup {Head(buffered[s])}
  /\ buffered' = [buffered EXCEPT ![s] = Tail(@)]
  /\ UNCHANGED <<poolVars, pumpVars, countVars, completed, link>>

DrainDone_NoWait ==
  /\ completeFired
  /\ ~ completed
  /\ completed' = TRUE
  /\ UNCHANGED <<poolVars, pumpVars, countVars, streamVars>>

\* _waitForDrain sees every open connection empty, so onComplete runs.
DrainDone ==
  /\ completeFired
  /\ ~ completed
  /\ \A s \in Streams : link[s] = "open" => buffered[s] = <<>>
  /\ completed' = TRUE
  /\ UNCHANGED <<poolVars, pumpVars, countVars, streamVars>>

Next ==
  \/ \E s \in Streams :
       \/ Open(s)
       \/ Close(s)
       \/ ReadDone(s)
       \/ ReadFails(s)
       \/ ResumeRelay(s)
       \/ ResumeP2P(s)
       \/ Transmit(s)
  \/ DrainDone

\* Every enabled task of the event loop is eventually run, a disk read settles,
\* a connection attempt opens or fails, and a live connection drains.
Fairness ==
  /\ \A s \in Streams :
       /\ WF_vars(link[s] = "connecting" /\ (Open(s) \/ Close(s)))
       /\ WF_vars(ReadDone(s) \/ ReadFails(s))
       /\ WF_vars(ResumeRelay(s))
       /\ WF_vars(ResumeP2P(s))
       /\ WF_vars(Transmit(s))
  /\ WF_vars(DrainDone)

Spec     == Init /\ [][Next]_vars
FairSpec == Spec /\ Fairness
-----------------------------------------------------------------------------
(* Where a chunk is *)

Pooled  == Range(retryIndices)
Held(s) == Range(batch[s])
InBuffer(s) == Range(buffered[s])
Handed  == delivered \cup UNION {InBuffer(s) : s \in Streams}

(***************************************************************************)
(* No chunk is claimed or sent twice.  However the pumps interleave and    *)
(* fail, the retry queue, the pumps' batches, the socket buffers and the   *)
(* delivered set never share a chunk and never repeat one ("concurrent     *)
(* async pumps never claim overlapping chunks", transfer.js:598).          *)
(***************************************************************************)
NoOverlap ==
  /\ IsInjective(retryIndices)
  /\ \A s \in Streams :
       /\ IsInjective(batch[s]) /\ IsInjective(buffered[s])
       /\ Pooled \cap Held(s) = {}
       /\ (Pooled \cup Held(s)) \cap Handed = {}
       /\ delivered \cap InBuffer(s) = {}
  /\ \A s, t \in Streams : s # t =>
       /\ Held(s) \cap Held(t) = {}
       /\ InBuffer(s) \cap InBuffer(t) = {}

(***************************************************************************)
(* No chunk is forgotten.  Every index below the shared cursor is still in *)
(* the retry queue, in some pump's batch, or was given to send(): a pump   *)
(* that stops half-way through its batch leaves nothing out.               *)
(***************************************************************************)
NoneForgotten ==
  0 .. nextChunkIndex - 1 =
    Pooled \cup Handed \cup UNION {Held(s) : s \in Streams}

(***************************************************************************)
(* this.sentChunks, the counter completion is decided on, is the number of *)
(* distinct chunks given to send(): no failed send and no requeued chunk   *)
(* is counted, and none is counted twice.                                  *)
(***************************************************************************)
SentCountIsExact == sentChunks = Cardinality(Handed)

(***************************************************************************)
(* When _checkDone fires, the whole file was given to send() and no pump   *)
(* or queue still holds a chunk; so a pump whose disk read rejected, which *)
(* takes its batch with it, rules completion out for ever.                 *)
(***************************************************************************)
CompleteFiredMeansAllHanded ==
  completeFired =>
    /\ Handed = Chunks
    /\ retryIndices = <<>>
    /\ \A s \in Streams : batch[s] = <<>> /\ pump[s] # "rejected"

(***************************************************************************)
(* When onComplete runs, every chunk has left its buffer, or is stuck in   *)
(* the buffer of a connection that died: _waitForDrain misses nothing that *)
(* a live connection still has to send.                                    *)
(***************************************************************************)
CompletedMeansDrainedOrDead ==
  completed =>
    \A c \in Chunks :
      \/ c \in delivered
      \/ \E s \in Streams : link[s] = "closed" /\ c \in InBuffer(s)

(***************************************************************************)
(* Backpressure: whatever the batch size, a pump never puts more than one  *)
(* chunk above its high-water mark into a socket's buffer.                 *)
(***************************************************************************)
BackpressureHolds == \A s \in Streams : Len(buffered[s]) <= BufHigh(s) + 1

(***************************************************************************)
(* The life of a pump.  It holds chunks exactly while it reads, waits or   *)
(* has died of a read; nothing is buffered on a connection that never      *)
(* opened; the counters are untouched before the first stream opens (so    *)
(* _tryStart's reset loses nothing); completion is decided only on a full  *)
(* count, and after onComplete a live connection stays empty.              *)
(***************************************************************************)
PumpLifecycle ==
  /\ \A s \in Streams :
       /\ link[s] = "connecting" => pump[s] = "idle" /\ buffered[s] = <<>>
       /\ (batch[s] = <<>>) <=> pump[s] \in {"idle", "ended"}
  /\ ~ sendingStarted =>
       /\ nextChunkIndex = 0 /\ sentChunks = 0
       /\ \A s \in Streams : pump[s] = "idle"
  /\ completeFired => sendingStarted /\ sentChunks = TotalChunks
  /\ completed =>
       /\ completeFired
       /\ \A s \in Streams : link[s] = "open" => buffered[s] = <<>>

Reliable == Streams \ (MayClose \cup MayThrow \cup MayFailRead)

\* Something went wrong: a stream died or threw (its pump returns what it had
\* claimed), or a read was rejected.
Failure ==
  \/ retryIndices # <<>>
  \/ \E s \in Streams : link[s] = "closed" \/ pump[s] = "rejected"

(***************************************************************************)
(* Unless something fails the transfer ends: every chunk reaches the wire  *)
(* and the page is told; no pump waits for ever on a full buffer, on the   *)
(* others or on an empty pool.                                             *)
(***************************************************************************)
TransferCompletes == <>(Failure \/ (completed /\ delivered = Chunks))

(***************************************************************************)
(* A requeued chunk is picked up whenever a pump that will not fail is     *)
(* still running: it finds the retry queue on its next turn.               *)
(***************************************************************************)
RetryServed ==
  \A s \in Reliable :
    (retryIndices # <<>> /\ pump[s] \in {"reading", "paused"})
      ~> retryIndices = <<>>

Pool == INSTANCE ChunkPool WITH
  taken <- [s \in Streams |-> Held(s)], handed <- Handed, done <- completed

(***************************************************************************)
(* The engine is a ChunkPool: whatever one task of a pump does, a chunk    *)
(* that was handed to a connection never returns to the pool or to a pump, *)
(* only a free chunk is taken, and only by one, and onComplete runs when   *)
(* all were handed over.                                                   *)
(***************************************************************************)
IsAChunkPool == Pool!Spec

-----------------------------------------------------------------------------
(* What a comment says; the code does otherwise (README). *)

(***************************************************************************)
(* "Chunk re-queue on pump failure - no stalls if P2P/relay dies mid-batch"*)
(* (transfer.js:16): while one stream never fails, the file gets sent.     *)
(***************************************************************************)
NoStallWhileOneStreamLives == Reliable # {} => <>completeFired
=============================================================================
