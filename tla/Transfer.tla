-------------------------------- MODULE Transfer -------------------------------
(***************************************************************************)
(* A transfer from engine to engine (web/static/js/transfer.js): the pumps *)
(* of TransferSender at one end, ChunkReceiver at the other, and between   *)
(* them one wire for each stream, a relay pair or a data channel.  A wire  *)
(* keeps the order of its messages and may be cut; different wires are not *)
(* ordered.  A relay pair that is cut in the middle of a message passes on *)
(* the part it has as a whole message (relay_ws.go:140-143).  The file-info*)
(* goes ahead of the chunks of relay 0, and once more over the control     *)
(* channel.                                                                *)
(***************************************************************************)
EXTENDS Integers, Sequences, FiniteSets, Functions

CONSTANTS
  Relays, P2Ps, TotalChunks, BatchSize, RelayBufHigh, P2PBufHigh, P2PBufLow,
  MayClose,   \* streams whose connection may fail, at either end
  MayThrow, MayFailRead, Modes,
  Relay0,     \* the relay with idx 0
  Channel0,   \* the data channel of the connection with index 0
  Control     \* the control channel, which that connection has besides

VARIABLES
  link, pump, batch, nextChunkIndex, retryIndices, sentChunks, sendingStarted,
  completeFired, completed, buffered, delivered,
  mode, receivedChunks, nextWriteIndex, pendingChunks, discarded,
  fallbackChunks, posted, saved, swClosed, finished,
  wire,          \* chunks that left the sender and did not reach the receiver
  truncated,     \* chunks of which a relay passed on only a beginning
  severed,       \* wires that have been cut: what is sent from now on is lost
  info,          \* the two copies of the file-info
  senderStats,   \* is the sender's this._statsInterval running?
  receiverStats  \* is the receiver's?

S == INSTANCE TransferSender
R == INSTANCE ChunkReceiver

Streams  == S!Streams
Chunks   == S!Chunks
Carriers == {Relay0, Control}

\* What the two engines assume, and the carriers of the file-info.
ASSUME TransferAssumption ==
  /\ Relays \cap P2Ps = {} /\ IsFiniteSet(Streams)
  /\ TotalChunks \in Nat \ {0} /\ BatchSize \in Nat \ {0}
  /\ RelayBufHigh \in Nat /\ P2PBufHigh \in Nat /\ P2PBufLow \in 0 .. P2PBufHigh
  /\ MayClose \subseteq Streams /\ MayThrow \subseteq Streams
  /\ MayFailRead \subseteq Streams /\ Modes \subseteq {"sw", "blob"}
  /\ Relay0 \in Relays /\ Channel0 \in P2Ps /\ Control \notin Streams

senderVars == <<link, pump, batch, nextChunkIndex, retryIndices, sentChunks,
                sendingStarted, completeFired, completed, buffered, delivered>>
receiverVars == <<mode, receivedChunks, nextWriteIndex, pendingChunks, discarded,
                  fallbackChunks, posted, saved, swClosed, finished>>
wireVars == <<wire, truncated, severed>>
netVars == <<wireVars, info>>
vars == <<senderVars, receiverVars, netVars, senderStats, receiverStats>>

Init ==
  /\ S!Init /\ R!Init
  /\ wire = [s \in Streams |-> <<>>] /\ truncated = {} /\ severed = {}
  /\ info = [x \in Carriers |-> "unsent"]
  /\ senderStats = FALSE /\ receiverStats = FALSE

\* _startStatsInterval and _stopStatsInterval: does the timer run after a step?
StatsRun(running, starts, stops) == ~stops /\ (running \/ starts)

-----------------------------------------------------------------------------
(* The sender. *)

\* onopen: relay 0 sends the file-info first; the pump starts, with it the
\* statistics if it is the first.
OpenStream(s) ==
  /\ S!Open(s)
  /\ info' = IF s = Relay0 THEN [info EXCEPT ![Relay0] = "under way"] ELSE info
  /\ senderStats' = StatsRun(senderStats, ~sendingStarted, FALSE)
  /\ UNCHANGED <<receiverVars, wireVars, receiverStats>>

\* The control channel opens some time after its connection was offered.
OpenControl ==
  /\ info[Control] = "unsent" /\ link[Channel0] # "closed"
  /\ info' = [info EXCEPT ![Control] = "under way"]
  /\ UNCHANGED <<senderVars, receiverVars, wireVars, senderStats, receiverStats>>

PumpStep(s) ==
  /\ S!ReadDone(s) \/ S!ReadFails(s) \/ S!ResumeRelay(s) \/ S!ResumeP2P(s)
  /\ UNCHANGED <<receiverVars, netVars, senderStats, receiverStats>>

\* onComplete; the statistics stop with it and with nothing else.
DrainDone ==
  /\ S!DrainDone
  /\ senderStats' = StatsRun(senderStats, FALSE, TRUE)
  /\ UNCHANGED <<receiverVars, netVars, receiverStats>>

-----------------------------------------------------------------------------
(* The network: relay pairs of the server, data channels. *)

CloseStream(s) ==
  /\ S!Close(s)
  /\ UNCHANGED <<receiverVars, netVars, senderStats, receiverStats>>

\* A connection is cut between the sender and the server, between the server and
\* the receiver, or from peer to peer.  Only the first n messages under way still
\* arrive.  If the sender's end of a relay goes in the middle of a message, then
\* the relay's copy fails and it closes the writer, which passes on what it has:
\* the last message arrives short.  (Such a message counts as transmitted from
\* its first byte.)  The sender's socket may stay open for a while.
Sever(s) ==
  /\ s \in MayClose \ severed /\ link[s] # "connecting"
  /\ \E n \in 0 .. Len(wire[s]) :
       /\ wire' = [wire EXCEPT ![s] = SubSeq(@, 1, n)]
       /\ \/ UNCHANGED truncated
          \/ s \in Relays /\ n > 0 /\ truncated' = truncated \cup {wire[s][n]}
       /\ \/ UNCHANGED info
          \/ \E x \in Carriers :
               /\ info[x] = "under way" /\ s = (IF x = Control THEN Channel0 ELSE x)
               /\ x = Relay0 => n = 0
               /\ info' = [info EXCEPT ![x] = "lost"]
  /\ severed' = severed \cup {s}
  /\ UNCHANGED <<senderVars, receiverVars, senderStats, receiverStats>>

Transmit(s) ==
  /\ S!Transmit(s)
  /\ wire' = IF s \in severed THEN wire
             ELSE [wire EXCEPT ![s] = Append(@, Head(buffered[s]))]
  /\ UNCHANGED <<receiverVars, truncated, severed, info, senderStats, receiverStats>>

-----------------------------------------------------------------------------
(* The receiver. *)

\* onmessage of either carrier; the later copy finds fileInfo set.
ArriveInfo(x) ==
  /\ info[x] = "under way"
  /\ info' = [info EXCEPT ![x] = "arrived"]
  /\ \/ R!FileInfoReceived
     \/ mode # "none" /\ UNCHANGED receiverVars
  /\ UNCHANGED <<senderVars, wireVars, senderStats, receiverStats>>

\* onmessage with a chunk, on relay 0 behind the file-info.  The first chunk
\* starts the statistics and the last one stops them.
ArriveChunk(s) ==
  /\ wire[s] # <<>>
  /\ s = Relay0 => info[Relay0] # "under way"
  /\ R!HandleChunk(Head(wire[s]))
  /\ wire' = [wire EXCEPT ![s] = Tail(@)]
  /\ receiverStats' = StatsRun(receiverStats, receivedChunks = 0, R!Completes)
  /\ UNCHANGED <<senderVars, truncated, severed, info, senderStats>>

PrepareDone(m) ==
  /\ R!PrepareDone(m)
  /\ UNCHANGED <<senderVars, netVars, senderStats, receiverStats>>

Next ==
  \/ \E s \in Streams :
       \/ OpenStream(s) \/ PumpStep(s) \/ CloseStream(s)
       \/ Sever(s) \/ Transmit(s) \/ ArriveChunk(s)
  \/ OpenControl \/ DrainDone
  \/ \E x \in Carriers : ArriveInfo(x)
  \/ \E m \in Modes : PrepareDone(m)

\* As for the two engines alone; and a wire delivers what is on it.
Fairness ==
  /\ \A s \in Streams :
       /\ WF_vars(link[s] = "connecting" /\ (OpenStream(s) \/ CloseStream(s)))
       /\ WF_vars(PumpStep(s)) /\ WF_vars(Transmit(s)) /\ WF_vars(ArriveChunk(s))
  /\ WF_vars(DrainDone)
  /\ \A x \in Carriers : WF_vars(ArriveInfo(x))

Spec     == Init /\ [][Next]_vars
FairSpec == Spec /\ Fairness
-----------------------------------------------------------------------------

OnWire(s) == Range(wire[s])

\* What the receiving engine has counted.
Arrived == {c \in Chunks : c < nextWriteIndex} \cup pendingChunks

(***************************************************************************)
(* A chunk arrives at most once: it is on one wire only, never on one when *)
(* it has arrived, and nothing arrives that was not sent.  So the          *)
(* receiver's counter, which ends the transfer, counts chunks of the file, *)
(* and its test for duplicates only matters to a second offer.             *)
(***************************************************************************)
EachChunkTravelsOnce ==
  /\ Arrived \subseteq delivered
  /\ \A s \in Streams :
       /\ IsInjective(wire[s])
       /\ OnWire(s) \subseteq delivered \ Arrived
       /\ \A t \in Streams : s # t => OnWire(s) \cap OnWire(t) = {}

(***************************************************************************)
(* The two engines and the wires carry out a FileTransfer: whatever fails, *)
(* each chunk leaves the file once, the receiver is done only when all     *)
(* have arrived, and the sender only when all have left.  A chunk that     *)
(* arrives short is counted like any other (transfer.js:702-713).          *)
(***************************************************************************)
UnderWay ==
  (UNION {OnWire(s) : s \in Streams})
    \cup (UNION {S!InBuffer(s) : s \in {t \in Streams : link[t] = "open"}})

Place == [c \in Chunks |-> IF c \in Arrived \ truncated THEN "arrived"
                           ELSE IF c \in Arrived THEN "damaged"
                           ELSE IF c \in UnderWay THEN "under way"
                           ELSE IF c \in S!Handed THEN "lost" ELSE "file"]

T == INSTANCE FileTransfer WITH
  place <- Place, senderDone <- completed, receiverDone <- finished

IsAFileTransfer == T!Spec

Fault == S!Failure \/ severed # {}

\* A chunk came before the file-info, or while prepare() was waiting.
Overtaken == discarded # <<>> \/ (swClosed /\ fallbackChunks # <<>>)

(***************************************************************************)
(* From end to end: unless something fails or chunks overtake the          *)
(* file-info, both pages say complete, the whole file is saved, and both   *)
(* statistics timers have stopped.                                         *)
(***************************************************************************)
BothComplete ==
  <>(\/ Fault \/ Overtaken
     \/ /\ completed /\ finished
        /\ (IF swClosed THEN posted ELSE saved) = R!ChunkRun(0, TotalChunks)
        /\ ~senderStats /\ ~receiverStats)
=============================================================================
