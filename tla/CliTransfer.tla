------------------------------ MODULE CliTransfer ------------------------------
(***************************************************************************)
(* The command line client: send_file (cli/src/sender.rs), receive_file    *)
(* (cli/src/receiver.rs) and the frames of cli/src/protocol.rs between     *)
(* them.  Each side is one task that opens NUM_STREAMS TCP streams and     *)
(* then spawns a task for each.  Signaling (the server forwards in order,  *)
(* see Signaling) is reduced to the three messages that matter here and to *)
(* the loss of a client's socket to the server.                            *)
(*                                                                         *)
(* Streams are numbered from 1, as the receiver connects them; the sender  *)
(* numbers them as it accepts them.  Chunks are numbered from 0.           *)
(***************************************************************************)
EXTENDS Integers, Sequences, FiniteSets

CONSTANTS
  NumStreams,   \* NUM_STREAMS
  TotalChunks   \* chunks in the file

ASSUME CliTransferAssumption ==
  NumStreams \in Nat \ {0} /\ TotalChunks \in Nat

Streams == 1 .. NumStreams
Chunks  == 0 .. TotalChunks - 1

VARIABLES
  snd,       \* where send_file is
  rcv,       \* where receive_file is
  signals,   \* signaling messages that were sent
  opened,    \* streams the receiver has connected
  handshake, \* those of which the sender's side is not established yet
  backlog,   \* established streams nobody has accepted
  accepted,  \* the sender's streams, in the order of accept()
  wire,      \* frames on their way, by stream
  broken,    \* broken or closed streams
  silent,    \* those of them whose reader is not told: no FIN and no RST comes
  nextChunk, \* chunk_idx of each sending task
  stask,     \* the sending tasks, in the order of accept()
  rtask,     \* the receiving tasks, by stream
  written    \* chunks the receiver wrote at their offset

tcpVars    == <<opened, handshake, backlog, accepted>>
taskVars   == <<nextChunk, stask, rtask>>
vars == <<snd, rcv, signals, tcpVars, wire, broken, silent, taskVars, written>>

Header   == [type |-> "header", index |-> 0]
Chunk(k) == [type |-> "chunk", index |-> k]
End      == [type |-> "end", index |-> 0]     \* the index u64::MAX

TypeOK ==
  /\ snd \in {"joining", "waiting", "spinning", "accepting", "streaming", "done", "failed"}
  /\ rcv \in {"joining", "spinning", "connecting", "header", "receiving",
              "ok", "mismatch", "failed"}
  /\ signals \subseteq {"peer-joined", "connect-info", "ready"}
  /\ opened \in 0 .. NumStreams
  /\ handshake \subseteq 1 .. opened
  /\ backlog \in Seq(Streams) /\ accepted \in Seq(Streams)
  /\ wire \in [Streams -> Seq({Header, End} \cup {Chunk(k) : k \in Chunks})]
  /\ broken \subseteq 1 .. opened /\ silent \subseteq broken
  /\ nextChunk \in [Streams -> 0 .. TotalChunks + NumStreams - 1]
  /\ stask \in [Streams -> {"idle", "running", "done", "panicked"}]
  /\ rtask \in [Streams -> {"idle", "running", "done", "panicked"}]
  /\ written \subseteq Chunks

\* The sender waits in its room and listens; the receiver has just joined it.
Init ==
  /\ snd = "joining" /\ rcv = "joining" /\ signals = {"peer-joined"}
  /\ opened = 0 /\ handshake = {} /\ backlog = <<>> /\ accepted = <<>>
  /\ wire = [i \in Streams |-> <<>>] /\ broken = {} /\ silent = {}
  /\ nextChunk = [j \in Streams |-> j - 1]
  /\ stask = [j \in Streams |-> "idle"] /\ rtask = [i \in Streams |-> "idle"]
  /\ written = {}

-----------------------------------------------------------------------------
(* The main tasks, up to the streams. *)

SendConnectInfo ==
  /\ snd = "joining" /\ "peer-joined" \in signals
  /\ signals' = signals \cup {"connect-info"}
  /\ snd' = "waiting"
  /\ UNCHANGED <<rcv, tcpVars, wire, broken, taskVars, written, silent>>

SendReady ==
  /\ rcv = "joining" /\ "connect-info" \in signals
  /\ signals' = signals \cup {"ready"}
  /\ rcv' = "connecting"
  /\ UNCHANGED <<snd, tcpVars, wire, broken, taskVars, written, silent>>

GetReady ==
  /\ snd = "waiting" /\ "ready" \in signals
  /\ snd' = "accepting"
  /\ UNCHANGED <<rcv, signals, tcpVars, wire, broken, taskVars, written, silent>>

\* The sender's socket to the server is lost while it waits for a message, and
\* maybe its own message with it.  An error of recv() or send() ends the program
\* and its listener; but after a close frame recv() returns Ok(None), now and at
\* every later call, and the loop never ends.
SenderLosesSignaling ==
  /\ snd \in {"joining", "waiting"}
  /\ signals' \in {signals, signals \ (IF rcv = "joining" THEN {"connect-info"} ELSE {})}
  /\ \/ snd' = "spinning" /\ UNCHANGED broken
     \/ snd' = "failed" /\ broken' = 1 .. opened
  /\ UNCHANGED <<rcv, tcpVars, wire, taskVars, written, silent>>

\* The same of the receiver; after "ready" it does not read its socket again.
ReceiverLosesSignaling ==
  /\ \/ rcv = "joining" /\ rcv' \in {"spinning", "failed"} /\ UNCHANGED signals
     \/ /\ rcv # "joining" /\ snd = "waiting" /\ "ready" \in signals
        /\ signals' = signals \ {"ready"}
        /\ UNCHANGED rcv
  /\ UNCHANGED <<snd, tcpVars, wire, broken, taskVars, written, silent>>

Connect_OneShort ==
  /\ rcv = "connecting" /\ snd # "failed"
  /\ opened' = opened + 1
  /\ handshake' = handshake \cup {opened'}
  /\ rcv' = IF opened' >= NumStreams - 1 THEN "header" ELSE rcv
  /\ UNCHANGED <<snd, signals, backlog, accepted, wire, broken, taskVars, written, silent>>

\* connect() returns when the receiver's side is established.
Connect ==
  /\ rcv = "connecting" /\ snd # "failed"
  /\ opened' = opened + 1
  /\ handshake' = handshake \cup {opened'}
  /\ rcv' = IF opened' = NumStreams THEN "header" ELSE rcv
  /\ UNCHANGED <<snd, signals, backlog, accepted, wire, broken, taskVars, written, silent>>

\* Nothing answers at the address, or the network fails: receive_file ends with
\* an error, and its streams with it.
ConnectFails ==
  /\ rcv = "connecting"
  /\ rcv' = "failed"
  /\ broken' = 1 .. opened
  /\ UNCHANGED <<snd, signals, tcpVars, wire, taskVars, written, silent>>

\* The last acknowledgement of a handshake arrives; they may overtake each other.
Establish(i) ==
  /\ i \in handshake
  /\ handshake' = handshake \ {i}
  /\ backlog' = Append(backlog, i)
  /\ UNCHANGED <<snd, rcv, signals, opened, accepted, wire, broken, taskVars, written, silent>>

\* A write on a stream; on a broken one the kernel may still take it, for nothing.
Put(i, frame) == IF i \in broken THEN wire ELSE [wire EXCEPT ![i] = Append(@, frame)]

\* accept(); after the last one the header goes out on the first stream and
\* the sending tasks are spawned.  A broken first stream ends send_file, unless
\* the kernel still takes the header.
Accept ==
  /\ snd = "accepting" /\ backlog # <<>>
  /\ accepted' = Append(accepted, Head(backlog))
  /\ backlog' = Tail(backlog)
  /\ \/ Len(accepted') < NumStreams /\ UNCHANGED <<snd, wire, broken, stask>>
     \/ /\ Len(accepted') = NumStreams
        /\ wire' = Put(accepted'[1], Header)
        /\ stask' = [j \in Streams |-> "running"]
        /\ snd' = "streaming"
        /\ UNCHANGED broken
     \/ /\ Len(accepted') = NumStreams /\ accepted'[1] \in broken
        /\ snd' = "failed"
        /\ broken' = Streams
        /\ UNCHANGED <<wire, stask>>
  /\ UNCHANGED <<rcv, signals, opened, handshake, nextChunk, rtask, written, silent>>

-----------------------------------------------------------------------------
(* The sending tasks: task j has the chunks j-1, j-1+NUM_STREAMS, ... *)

Stride_TooFar(k) == k + NumStreams + 1
Stride(k) == k + NumStreams

SendChunk(j) ==
  /\ stask[j] = "running" /\ nextChunk[j] < TotalChunks
  /\ wire' = Put(accepted[j], Chunk(nextChunk[j]))
  /\ nextChunk' = [nextChunk EXCEPT ![j] = Stride(@)]
  /\ UNCHANGED <<snd, rcv, signals, tcpVars, broken, stask, rtask, written, silent>>

SendEnd(j) ==
  /\ stask[j] = "running" /\ nextChunk[j] >= TotalChunks
  /\ wire' = Put(accepted[j], End)
  /\ stask' = [stask EXCEPT ![j] = "done"]
  /\ UNCHANGED <<snd, rcv, signals, tcpVars, broken, nextChunk, rtask, written, silent>>

\* unwrap() of a failed write, or of an error of the file: open, seek or read.
\* The task drops its stream.
SendPanics(j) ==
  /\ stask[j] = "running"
  /\ stask' = [stask EXCEPT ![j] = "panicked"]
  /\ broken' = broken \cup {accepted[j]}
  /\ UNCHANGED <<snd, rcv, signals, tcpVars, wire, nextChunk, rtask, written, silent>>

\* The handles are awaited in order; the first panic ends the process, and with
\* it the tasks that still run and all the streams.
SenderEnds ==
  /\ snd = "streaming"
  /\ \/ /\ \A j \in Streams : stask[j] = "done"
        /\ snd' = "done"
        /\ UNCHANGED <<broken, stask>>
     \/ \E j \in Streams :
          /\ stask[j] = "panicked" /\ \A i \in 1 .. j - 1 : stask[i] = "done"
          /\ snd' = "failed"
          /\ broken' = Streams
          /\ stask' = [i \in Streams |-> IF stask[i] = "running" THEN "panicked" ELSE stask[i]]
  /\ UNCHANGED <<rcv, signals, tcpVars, wire, nextChunk, rtask, written, silent>>

-----------------------------------------------------------------------------
(* The receiver from the header on. *)

\* recv_message on the stream that was connected first; anything but the
\* header does not parse, a broken stream has none, and the output file may not
\* be created.
ReadHeader ==
  /\ rcv = "header"
  /\ \/ /\ wire[1] # <<>> /\ Head(wire[1]) = Header
        /\ rcv' = "receiving"
        /\ rtask' = [i \in Streams |-> "running"]
        /\ wire' = [wire EXCEPT ![1] = Tail(@)]
        /\ UNCHANGED broken
     \/ /\ wire[1] # <<>> \/ 1 \in broken \ silent
        /\ rcv' = "failed"
        /\ broken' = 1 .. opened
        /\ UNCHANGED <<rtask, wire>>
  /\ UNCHANGED <<snd, signals, tcpVars, nextChunk, stask, written, silent>>

\* recv_chunk, and under the file's mutex the write at the chunk's offset.
WriteChunk(i) ==
  /\ rtask[i] = "running" /\ wire[i] # <<>> /\ Head(wire[i]).type = "chunk"
  /\ written' = written \cup {Head(wire[i]).index}
  /\ wire' = [wire EXCEPT ![i] = Tail(@)]
  /\ UNCHANGED <<snd, rcv, signals, tcpVars, broken, taskVars, silent>>

\* unwrap() of a failed seek or write: the task drops its stream.
WriteChunkFails(i) ==
  /\ rtask[i] = "running" /\ wire[i] # <<>> /\ Head(wire[i]).type = "chunk"
  /\ rtask' = [rtask EXCEPT ![i] = "panicked"]
  /\ broken' = broken \cup {i}
  /\ wire' = [wire EXCEPT ![i] = Tail(@)]
  /\ UNCHANGED <<snd, rcv, signals, tcpVars, nextChunk, stask, written, silent>>

ReceiveEnds_IgnoresErrors(i) ==
  /\ rtask[i] = "running"
  /\ wire[i] # <<>> /\ Head(wire[i]) = End
  /\ wire' = [wire EXCEPT ![i] = Tail(@)]
  /\ rtask' = [rtask EXCEPT ![i] = "done"]
  /\ UNCHANGED <<snd, rcv, signals, tcpVars, broken, nextChunk, stask, written, silent>>

\* The end marker, or an error, which is only printed; read_exact has no timeout
\* and learns nothing of a peer that is gone silently.
ReceiveEnds(i) ==
  /\ rtask[i] = "running"
  /\ \/ /\ wire[i] # <<>> /\ Head(wire[i]) = End
        /\ wire' = [wire EXCEPT ![i] = Tail(@)]
     \/ wire[i] = <<>> /\ i \in broken \ silent /\ UNCHANGED wire
  /\ rtask' = [rtask EXCEPT ![i] = "done"]
  /\ UNCHANGED <<snd, rcv, signals, tcpVars, broken, nextChunk, stask, written, silent>>

\* All handles are done: the checksum of the file against the header's.  Where
\* no chunk was written the file has zeros, which the sent file has not.
VerifyChecksum ==
  /\ rcv = "receiving" /\ \A i \in Streams : rtask[i] = "done"
  /\ rcv' = IF written = Chunks THEN "ok" ELSE "mismatch"
  /\ UNCHANGED <<snd, signals, tcpVars, wire, broken, taskVars, written, silent>>

\* The handles are awaited in order, and the first panic ends receive_file and
\* with it all streams; so do errors of the last flush and of reading the file.
ReceiverFails ==
  /\ rcv = "receiving"
  /\ \/ \A i \in Streams : rtask[i] = "done"
     \/ \E i \in Streams :
          rtask[i] = "panicked" /\ \A k \in 1 .. i - 1 : rtask[k] = "done"
  /\ rcv' = "failed"
  /\ broken' = Streams
  /\ UNCHANGED <<snd, signals, tcpVars, wire, taskVars, written, silent>>

-----------------------------------------------------------------------------

\* A stream breaks; of what is on its way only a beginning still arrives.  The
\* host of the peer or the network may be gone without a FIN or RST.
BreakStream(i) ==
  /\ i \in 1 .. opened \ broken
  /\ broken' = broken \cup {i}
  /\ silent' \in {silent, silent \cup {i}}
  /\ \E n \in 0 .. Len(wire[i]) : wire' = [wire EXCEPT ![i] = SubSeq(@, 1, n)]
  /\ UNCHANGED <<snd, rcv, signals, tcpVars, taskVars, written>>

\* The stream of task j has a reader, so that there will be room for a write, or
\* it is broken, and the write will fail or be taken for nothing.
WriteReturns(j) ==
  \/ accepted[j] \in broken \/ rtask[accepted[j]] = "running"
  \/ rcv = "header" /\ accepted[j] = 1

SenderStep ==
  \/ SendConnectInfo \/ GetReady \/ Accept \/ SenderEnds
  \/ \E j \in Streams : (SendChunk(j) \/ SendEnd(j)) /\ WriteReturns(j)

ReceiverStep ==
  \/ SendReady \/ Connect \/ ConnectFails \/ ReadHeader \/ VerifyChecksum \/ ReceiverFails
  \/ \E i \in Streams : WriteChunk(i) \/ WriteChunkFails(i) \/ ReceiveEnds(i)

\* A stream that breaks in its handshake may be established before, or never.
TcpStep == \E i \in Streams \ broken : Establish(i)

Next ==
  \/ SenderStep \/ ReceiverStep
  \/ \E i \in Streams : Establish(i)
  \/ \E j \in Streams : SendChunk(j) \/ SendEnd(j) \/ SendPanics(j)
  \/ SenderLosesSignaling \/ ReceiverLosesSignaling
  \/ \E i \in Streams : BreakStream(i)

\* Both programs run, a write returns when somebody reads, and handshakes on
\* streams that are not broken complete; nothing has to break.
Fairness == WF_vars(SenderStep) /\ WF_vars(ReceiverStep) /\ WF_vars(TcpStep)

Spec     == Init /\ [][Next]_vars
FairSpec == Spec /\ Fairness
-----------------------------------------------------------------------------

(***************************************************************************)
(* Every chunk travels once: it is still to be read by exactly one task,   *)
(* or in exactly one place of one stream, or in the file.  A chunk that is *)
(* in none of them was on a stream that broke.                             *)
(***************************************************************************)
ToBeSent(j) == {k \in Chunks : k >= nextChunk[j] /\ (k - nextChunk[j]) % NumStreams = 0}
OnWire(i)   == {wire[i][n].index : n \in {m \in DOMAIN wire[i] : wire[i][m].type = "chunk"}}

EachChunkOnce ==
  /\ \A i, j \in Streams : i # j =>
       ToBeSent(i) \cap ToBeSent(j) = {} /\ OnWire(i) \cap OnWire(j) = {}
  /\ \A i, j \in Streams : ToBeSent(i) \cap OnWire(j) = {}
  /\ \A i \in Streams : (ToBeSent(i) \cup OnWire(i)) \cap written = {}
  /\ broken = {} =>
       Chunks = written \cup UNION {ToBeSent(i) \cup OnWire(i) : i \in Streams}

\* The sender's loop will never see "ready".
Deaf == snd = "spinning" \/ (snd = "waiting" /\ rcv # "joining" /\ "ready" \notin signals)

(***************************************************************************)
(* Both sides finish and the receiver says OK, unless a stream broke, a    *)
(* signaling socket was lost, or the receiver gave up: it could not        *)
(* connect, or the header came on another stream because the handshakes    *)
(* completed in another order.                                             *)
(***************************************************************************)
TransferFinishes ==
  <>(\/ broken # {} \/ rcv \in {"failed", "spinning"} \/ snd = "failed" \/ Deaf
     \/ snd = "done" /\ rcv = "ok")

\* What a program waits for will not come: a reader of a stream that is gone
\* silently, or the header while a stream that broke in its handshake is missing.
WaitsOnDeadStream ==
  \/ rcv = "header" /\ (1 \in silent \/ (snd = "accepting" /\ handshake \cap broken # {}))
  \/ rcv = "receiving" /\ \E i \in silent : rtask[i] = "running"

(***************************************************************************)
(* Once the streams are up both programs come to an end, whatever breaks   *)
(* and whatever the disks do, but for the waits that nothing bounds: for a *)
(* sender that never heard "ready"; on a stream that is gone silently; and *)
(* for a stream that broke in its handshake, which accept() may never get. *)
(* The sender's writes wait with a receiver that waits for the header.     *)
(***************************************************************************)
NobodyHangs ==
  /\ rcv \in {"header", "receiving"}
       ~> rcv \in {"ok", "mismatch", "failed"} \/ [](Deaf \/ WaitsOnDeadStream)
  /\ snd = "accepting"
       ~> snd # "accepting" \/ rcv = "failed" \/ [](handshake \cap broken # {})
  /\ snd = "streaming"
       ~> snd \in {"done", "failed"} \/ [](rcv = "header" /\ 1 \in silent)
=============================================================================
