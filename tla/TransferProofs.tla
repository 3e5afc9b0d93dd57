----------------------------- MODULE TransferProofs ----------------------------
(***************************************************************************)
(* What a transfer from engine to engine guarantees, for every number of   *)
(* streams and chunks and however streams fail.                            *)
(*                                                                         *)
(* Nothing of the engines is proved again: every step of Transfer is a     *)
(* step of each engine or leaves it alone, so the theorems about the two   *)
(* engines hold here.  What is new concerns the wires between them.        *)
(***************************************************************************)
EXTENDS Transfer, TLAPS

SP == INSTANCE TransferSenderProofs
RP == INSTANCE ChunkReceiverProofs

-----------------------------------------------------------------------------
(* The engines seen from here *)

\* The assumptions on the constants are those of the two engines.
LEMMA SenderAssumed == SP!SenderAssumption
<1>1. \A X : IsFiniteSet(X) <=> SP!IsFiniteSet(X)  BY DEF IsFiniteSet, SP!IsFiniteSet
<1> QED
  BY <1>1, TransferAssumption
  DEF Streams, S!Streams, SP!SenderAssumption, SP!Streams

LEMMA ReceiverAssumed == RP!ReceiverAssumption
BY TransferAssumption DEF RP!ReceiverAssumption

\* Names that the modules share stand for the same sets.
LEMMA SameSets ==
  /\ Streams = SP!Streams /\ Chunks = SP!Chunks /\ Chunks = RP!Chunks
  /\ Arrived = RP!Counted
  /\ \A q : SP!Range(q) = Range(q) /\ (SP!IsInjective(q) <=> IsInjective(q))
  /\ \A s : S!InBuffer(s) = Range(buffered[s]) /\ SP!InBuffer(s) = Range(buffered[s])
  /\ S!Handed = delivered \cup UNION {Range(buffered[s]) : s \in Streams}
  /\ SP!Handed = S!Handed
<1>1. Streams = SP!Streams /\ Streams = S!Streams  BY DEF Streams, S!Streams, SP!Streams
<1>2. Chunks = SP!Chunks /\ Chunks = RP!Chunks
  BY DEF Chunks, S!Chunks, SP!Chunks, RP!Chunks
<1>3. /\ \A q : SP!Range(q) = Range(q) /\ (SP!IsInjective(q) <=> IsInjective(q))
      /\ \A q : S!Range(q) = Range(q)
  BY DEF Range, S!Range, SP!Range, IsInjective, SP!IsInjective
<1>4. \A s : S!InBuffer(s) = Range(buffered[s]) /\ SP!InBuffer(s) = Range(buffered[s])
  BY <1>3 DEF S!InBuffer, SP!InBuffer
<1>5. /\ S!Handed = delivered \cup UNION {Range(buffered[s]) : s \in Streams}
      /\ SP!Handed = delivered \cup UNION {Range(buffered[s]) : s \in Streams}
  BY <1>1, <1>4 DEF S!Handed, SP!Handed
<1>6. Arrived = RP!Counted  BY <1>2 DEF Arrived, RP!Counted
<1> QED  BY <1>1, <1>2, <1>3, <1>4, <1>5, <1>6

\* So do the names of the engines' operations.
LEMMA SameMoves ==
  /\ \A s, next : S!LoopPump(s, next) <=> SP!LoopPump(s, next)
  /\ \A s, k : S!Requeue(s, k) <=> SP!Requeue(s, k)
  /\ \A s, k : S!Handover(s, k) <=> SP!Handover(s, k)
  /\ \A s : S!SendBatch(s) <=> SP!SendBatch(s)
<1>1. \A Q : S!Min(Q) = SP!Min(Q) /\ S!Max(Q) = SP!Max(Q)
  BY DEF S!Min, SP!Min, S!Max, SP!Max
<1>2. S!RetriesTaken = SP!RetriesTaken  BY <1>1 DEF S!RetriesTaken, SP!RetriesTaken
<1>3. \A next : S!NewlyClaimed(next) = SP!NewlyClaimed(next)
  BY <1>1, <1>2 DEF S!NewlyClaimed, SP!NewlyClaimed
<1>4. \A s : S!Sendable(s) = SP!Sendable(s)
  BY <1>1 DEF S!Sendable, SP!Sendable, S!BufHigh, SP!BufHigh
<1>5. \A s, k : S!Unsent(s, k) = SP!Unsent(s, k)  BY DEF S!Unsent, SP!Unsent
<1>6. \A s, next : S!LoopPump(s, next) <=> SP!LoopPump(s, next)
  BY <1>2, <1>3, Zenon
  DEF S!LoopPump, SP!LoopPump, S!MoreWork, SP!MoreWork, S!ReadBatch, SP!ReadBatch
<1>7. \A s, k : S!Requeue(s, k) <=> SP!Requeue(s, k)
  BY <1>5, Zenon DEF S!Requeue, SP!Requeue
<1>8. \A s, k : S!Handover(s, k) <=> SP!Handover(s, k)
  BY Zenon DEF S!Handover, SP!Handover, S!CheckDone, SP!CheckDone
<1>9. \A s : S!SendBatch(s) <=> SP!SendBatch(s)
  BY <1>4, <1>5, <1>6, <1>7, <1>8, Zenon
  DEF S!SendBatch, SP!SendBatch, S!poolVars, SP!poolVars
<1> QED  BY <1>6, <1>7, <1>8, <1>9

LEMMA SameTasks ==
  /\ \A s : /\ S!Open(s) <=> SP!Open(s)
            /\ S!Close(s) <=> SP!Close(s)
            /\ S!ReadDone(s) <=> SP!ReadDone(s)
            /\ S!ReadFails(s) <=> SP!ReadFails(s)
            /\ S!ResumeRelay(s) <=> SP!ResumeRelay(s)
            /\ S!ResumeP2P(s) <=> SP!ResumeP2P(s)
            /\ S!Transmit(s) <=> SP!Transmit(s)
  /\ S!DrainDone <=> SP!DrainDone
  /\ S!Init <=> SP!Init
<1> USE DEF S!poolVars, SP!poolVars, S!pumpVars, SP!pumpVars, S!countVars, SP!countVars,
            S!streamVars, SP!streamVars, S!Streams, SP!Streams
<1>1. \A s : S!Open(s) <=> SP!Open(s)
  BY SameMoves, Zenon DEF S!Open, SP!Open, S!StartCursor, SP!StartCursor
<1>2. \A s : /\ S!Close(s) <=> SP!Close(s)
             /\ S!ReadFails(s) <=> SP!ReadFails(s)
             /\ S!Transmit(s) <=> SP!Transmit(s)
  BY Zenon DEF S!Close, SP!Close, S!ReadFails, SP!ReadFails, S!Transmit, SP!Transmit
<1>3. \A s : S!ReadDone(s) <=> SP!ReadDone(s)
  BY SameMoves, Zenon DEF S!ReadDone, SP!ReadDone
<1>4. \A s : S!ResumeRelay(s) <=> SP!ResumeRelay(s)
  BY SameMoves, Zenon DEF S!ResumeRelay, SP!ResumeRelay
<1>5. \A s : S!ResumeP2P(s) <=> SP!ResumeP2P(s)
  BY SameMoves, Zenon DEF S!ResumeP2P, SP!ResumeP2P
<1>6. S!DrainDone <=> SP!DrainDone  BY Zenon DEF S!DrainDone, SP!DrainDone
<1>7. S!Init <=> SP!Init  BY Zenon DEF S!Init, SP!Init
<1> QED  BY <1>1, <1>2, <1>3, <1>4, <1>5, <1>6, <1>7

LEMMA SameReceiver ==
  /\ \A c : R!HandleChunk(c) <=> RP!HandleChunk(c)
  /\ R!FileInfoReceived <=> RP!FileInfoReceived
  /\ \A m : R!PrepareDone(m) <=> RP!PrepareDone(m)
  /\ R!Init <=> RP!Init
<1> USE DEF R!orderVars, RP!orderVars, R!sinkVars, RP!sinkVars
<1>1. /\ R!FileInfoReceived <=> RP!FileInfoReceived
      /\ \A m : R!PrepareDone(m) <=> RP!PrepareDone(m)
      /\ R!Init <=> RP!Init
  BY Zenon DEF R!FileInfoReceived, RP!FileInfoReceived, R!PrepareDone, RP!PrepareDone,
               R!Init, RP!Init
<1>2. \A run : /\ R!Write(run) <=> RP!Write(run)
               /\ R!Fallback(run) = RP!Fallback(run)
  BY Zenon DEF R!Write, RP!Write, R!Fallback, RP!Fallback
<1>3. \A f : R!FinishDownload(f) <=> RP!FinishDownload(f)
  BY Zenon DEF R!FinishDownload, RP!FinishDownload
<1>4. \A c, n : /\ R!WritesUpTo(c, n) <=> RP!WritesUpTo(c, n)
                /\ R!StashAfter(c, n) = RP!StashAfter(c, n)
                /\ R!ChunkRun(c, n) = RP!ChunkRun(c, n)
  BY Zenon DEF R!WritesUpTo, RP!WritesUpTo, R!StashAfter, RP!StashAfter,
               R!ChunkRun, RP!ChunkRun
<1>5. /\ R!Completes <=> RP!Completes
      /\ \A c : R!Duplicate(c) <=> RP!Duplicate(c)
  BY Zenon DEF R!Completes, RP!Completes, R!Duplicate, RP!Duplicate
<1>6. \A c : R!HandleChunk(c) <=> RP!HandleChunk(c)
  BY <1>2, <1>3, <1>4, <1>5, Zenon DEF R!HandleChunk, RP!HandleChunk
<1> QED  BY <1>1, <1>6

-----------------------------------------------------------------------------
(* The steps of a transfer are steps of its engines *)

\* Every step is one of the sending engine, or leaves it alone.
LEMMA StepOfSender == ASSUME [Next]_vars PROVE [SP!Next]_(SP!vars)
<1> USE SameSets, SameTasks
<1>1. ASSUME UNCHANGED senderVars PROVE UNCHANGED SP!vars
  BY <1>1 DEF senderVars, SP!vars, SP!poolVars, SP!pumpVars, SP!countVars, SP!streamVars
<1>2. ASSUME NEW s \in Streams,
             OpenStream(s) \/ PumpStep(s) \/ CloseStream(s) \/ Transmit(s)
      PROVE  SP!Next
  BY <1>2 DEF OpenStream, PumpStep, CloseStream, Transmit, SP!Next
<1>3. DrainDone => SP!Next  BY DEF DrainDone, SP!Next
<1>4. ASSUME NEW s \in Streams, Sever(s) \/ ArriveChunk(s)  PROVE UNCHANGED SP!vars
  BY <1>1, <1>4 DEF Sever, ArriveChunk
<1>5. OpenControl => UNCHANGED SP!vars  BY <1>1 DEF OpenControl
<1>6. ASSUME NEW x, ArriveInfo(x) PROVE UNCHANGED SP!vars  BY <1>1, <1>6 DEF ArriveInfo
<1>7. ASSUME NEW m, PrepareDone(m) PROVE UNCHANGED SP!vars  BY <1>1, <1>7 DEF PrepareDone
<1>8. UNCHANGED vars => UNCHANGED SP!vars  BY <1>1 DEF vars
<1> QED  BY <1>2, <1>3, <1>4, <1>5, <1>6, <1>7, <1>8 DEF Next

\* What is on a wire was delivered by the sender, and is a chunk.
WiresHoldChunks == wire \in [Streams -> Seq(Chunks)]

\* Every step is one of the receiving engine, or leaves it alone.
LEMMA StepOfReceiver ==
  ASSUME WiresHoldChunks, [Next]_vars
  PROVE  [RP!Next]_(RP!vars)
<1> USE SameSets, SameReceiver
<1>1. ASSUME UNCHANGED receiverVars PROVE UNCHANGED RP!vars
  BY <1>1 DEF receiverVars, RP!vars, RP!orderVars, RP!sinkVars
<1>2. ASSUME NEW s \in Streams, ArriveChunk(s)  PROVE RP!Next
  <2>1. R!HandleChunk(Head(wire[s])) /\ wire[s] # <<>>  BY <1>2 DEF ArriveChunk
  <2>2. Head(wire[s]) \in RP!Chunks  BY <2>1 DEF WiresHoldChunks
  <2> QED  BY <2>1, <2>2 DEF RP!Next
<1>3. ASSUME NEW m \in Modes, PrepareDone(m) PROVE RP!Next
  BY <1>3 DEF PrepareDone, RP!Next
<1>4. ASSUME NEW x, ArriveInfo(x) PROVE [RP!Next]_(RP!vars)
  BY <1>1, <1>4 DEF ArriveInfo, RP!Next
<1>5. ASSUME NEW s \in Streams,
             OpenStream(s) \/ PumpStep(s) \/ CloseStream(s) \/ Transmit(s) \/ Sever(s)
      PROVE  UNCHANGED RP!vars
  BY <1>1, <1>5 DEF OpenStream, PumpStep, CloseStream, Transmit, Sever
<1>6. OpenControl \/ DrainDone => UNCHANGED RP!vars  BY <1>1 DEF OpenControl, DrainDone
<1>7. UNCHANGED vars => UNCHANGED RP!vars  BY <1>1 DEF vars
<1> QED  BY <1>2, <1>3, <1>4, <1>5, <1>6, <1>7 DEF Next

-----------------------------------------------------------------------------
(* The invariant *)

(***************************************************************************)
(* The engines' own invariants, and what is on the wires.  A chunk is put  *)
(* on a wire when it leaves a buffer: the sender's NoOverlap says that it  *)
(* is new there, hence on no other wire and not arrived.                   *)
(***************************************************************************)
TransferInv ==
  /\ SP!SenderInv /\ RP!ReceiverInv
  /\ WiresHoldChunks /\ EachChunkTravelsOnce

\* What becomes of the engines' part of the invariant.
LEMMA EnginesKeepInv ==
  ASSUME TransferInv, [Next]_vars
  PROVE  SP!SenderInv' /\ RP!ReceiverInv'
<1>1. SP!SenderInv'  BY StepOfSender, SenderAssumed, SP!NextKeepsInv DEF TransferInv
<1>2. RP!ReceiverInv'
  BY StepOfReceiver, ReceiverAssumed, RP!ReceiverStep DEF TransferInv
<1> QED  BY <1>1, <1>2

\* What the sender's invariant says of the buffers, in the names used here.
BuffersApart ==
  /\ buffered \in [Streams -> Seq(Chunks)] /\ delivered \in SUBSET Chunks
  /\ link \in [Streams -> SP!LinkStates]
  /\ \A s \in Streams :
       /\ IsInjective(buffered[s]) /\ delivered \cap Range(buffered[s]) = {}
       /\ link[s] = "connecting" => buffered[s] = <<>>
  /\ \A s, t \in Streams : s # t => Range(buffered[s]) \cap Range(buffered[t]) = {}

LEMMA SenderFacts ==
  (SP!SenderInv => BuffersApart) /\ (SP!SenderInv' => BuffersApart')
<1>1. SP!SenderInv => BuffersApart
  BY SameSets
  DEF BuffersApart, SP!SenderInv, SP!TypeOK, SP!NoOverlap, SP!PumpLifecycle
<1>2. /\ \A q : SP!Range(q) = Range(q) /\ (SP!IsInjective(q) <=> IsInjective(q))
      /\ \A s : SP!InBuffer(s)' = Range(buffered'[s])
  BY DEF SP!InBuffer, SP!Range, Range, SP!IsInjective, IsInjective
<1>3. SP!SenderInv' => BuffersApart'
  BY <1>2, SameSets
  DEF BuffersApart, SP!SenderInv, SP!TypeOK, SP!NoOverlap, SP!PumpLifecycle
<1> QED  BY <1>1, <1>3

\* Taking the head off a wire, cutting a tail off, and putting a chunk on one.
LEMMA WireFacts ==
  ASSUME NEW q \in Seq(Chunks)
  PROVE  /\ q # <<>> =>
              /\ Head(q) \in Chunks /\ Tail(q) \in Seq(Chunks)
              /\ Range(q) = {Head(q)} \cup Range(Tail(q))
              /\ IsInjective(q) => IsInjective(Tail(q)) /\ Head(q) \notin Range(Tail(q))
         /\ \A n \in 0 .. Len(q) :
              /\ SubSeq(q, 1, n) \in Seq(Chunks)
              /\ Range(SubSeq(q, 1, n)) \subseteq Range(q)
              /\ IsInjective(q) => IsInjective(SubSeq(q, 1, n))
         /\ \A c \in Chunks :
              /\ Append(q, c) \in Seq(Chunks)
              /\ Range(Append(q, c)) = Range(q) \cup {c}
              /\ IsInjective(q) /\ c \notin Range(q) => IsInjective(Append(q, c))
<1> USE SameSets, SenderAssumed
<1>1. ASSUME q # <<>>
      PROVE  /\ Head(q) \in Chunks /\ Tail(q) \in Seq(Chunks)
             /\ Range(q) = {Head(q)} \cup Range(Tail(q))
             /\ IsInjective(q) => IsInjective(Tail(q)) /\ Head(q) \notin Range(Tail(q))
  BY <1>1, SP!HeadOff
<1>2. ASSUME NEW n \in 0 .. Len(q)
      PROVE  /\ SubSeq(q, 1, n) \in Seq(Chunks)
             /\ Range(SubSeq(q, 1, n)) \subseteq Range(q)
             /\ IsInjective(q) => IsInjective(SubSeq(q, 1, n))
  BY SP!SplitSeq
<1>3. ASSUME NEW c \in Chunks
      PROVE  /\ Append(q, c) \in Seq(Chunks)
             /\ Range(Append(q, c)) = Range(q) \cup {c}
             /\ IsInjective(q) /\ c \notin Range(q) => IsInjective(Append(q, c))
  <2>1. /\ Append(q, c) \in Seq(Chunks) /\ Len(q) \in Nat /\ DOMAIN q = 1 .. Len(q)
        /\ DOMAIN Append(q, c) = 1 .. Len(q) + 1
        /\ Append(q, c)[Len(q) + 1] = c
        /\ \A i \in 1 .. Len(q) : Append(q, c)[i] = q[i]
    OBVIOUS
  <2>2. Range(Append(q, c)) = Range(q) \cup {c}
    <3>1. \A i \in 1 .. Len(q) + 1 : i \in 1 .. Len(q) \/ i = Len(q) + 1  BY <2>1
    <3>2. \A i \in 1 .. Len(q) : i \in 1 .. Len(q) + 1  BY <2>1
    <3>3. Len(q) + 1 \in 1 .. Len(q) + 1  BY <2>1
    <3> QED  BY <2>1, <3>1, <3>2, <3>3, Zenon DEF Range
  <2>3. IsInjective(q) /\ c \notin Range(q) => IsInjective(Append(q, c))
    BY <2>1 DEF IsInjective, Range
  <2> QED  BY <2>1, <2>2, <2>3
<1> QED  BY <1>1, <1>2, <1>3

\* Whatever leaves the wires and the counts alone keeps what they hold, if the
\* sender takes back nothing it delivered.
LEMMA QuietStepKeepsTravel ==
  ASSUME TransferInv, UNCHANGED <<wire, Arrived>>, delivered \subseteq delivered'
  PROVE  WiresHoldChunks' /\ EachChunkTravelsOnce'
BY DEF TransferInv, WiresHoldChunks, EachChunkTravelsOnce, OnWire

\* The network takes the head of a buffer; on a live wire it travels on.
LEMMA TransmitKeepsTravel ==
  ASSUME TransferInv, NEW s \in Streams, Transmit(s)
  PROVE  WiresHoldChunks' /\ EachChunkTravelsOnce'
<1> DEFINE c == Head(buffered[s])
<1>1. /\ buffered[s] # <<>> /\ delivered' = delivered \cup {c}
      /\ UNCHANGED receiverVars
      /\ wire' = IF s \in severed THEN wire ELSE [wire EXCEPT ![s] = Append(@, c)]
  BY DEF Transmit, S!Transmit
<1>2. Arrived' = Arrived  BY <1>1 DEF receiverVars, Arrived
<1>3. CASE s \in severed  BY <1>1, <1>2, <1>3, QuietStepKeepsTravel
<1>4. CASE s \notin severed
  <2>1. /\ buffered[s] \in Seq(Chunks) /\ delivered \cap Range(buffered[s]) = {}
        /\ WiresHoldChunks /\ EachChunkTravelsOnce
    BY SenderFacts DEF TransferInv, BuffersApart
  <2>2. c \in Chunks /\ c \in Range(buffered[s])  BY <1>1, <2>1, WireFacts
  <2> HIDE DEF c
  <2>3. c \notin delivered /\ \A t \in Streams : c \notin Range(wire[t])
    BY <2>1, <2>2 DEF EachChunkTravelsOnce, OnWire
  <2>4. /\ WiresHoldChunks'
        /\ wire'[s] = Append(wire[s], c) /\ \A t \in Streams : t # s => wire'[t] = wire[t]
    BY <1>1, <1>4, <2>1, <2>2 DEF WiresHoldChunks
  <2>5. OnWire(s)' = OnWire(s) \cup {c} /\ IsInjective(wire'[s])
    BY <2>1, <2>2, <2>3, <2>4, WireFacts DEF WiresHoldChunks, EachChunkTravelsOnce, OnWire
  <2>6. \A t \in Streams : t # s => OnWire(t)' = OnWire(t) /\ IsInjective(wire'[t])
    BY <2>1, <2>4 DEF OnWire, EachChunkTravelsOnce
  <2>7. EachChunkTravelsOnce'
    <3>1. Arrived' \subseteq delivered'  BY <1>1, <1>2, <2>1 DEF EachChunkTravelsOnce
    <3>2. ASSUME NEW t \in Streams
          PROVE  /\ IsInjective(wire[t])' /\ OnWire(t)' \subseteq (delivered \ Arrived)'
                 /\ c \in OnWire(t)' => t = s
                 /\ OnWire(t)' \subseteq OnWire(t) \cup {c}
      BY <1>1, <1>2, <2>1, <2>3, <2>5, <2>6 DEF EachChunkTravelsOnce, OnWire
    <3>3. ASSUME NEW t \in Streams, NEW u \in Streams, t # u
          PROVE  OnWire(t)' \cap OnWire(u)' = {}
      BY <2>1, <3>2, <3>3 DEF EachChunkTravelsOnce
    <3> QED  BY <3>1, <3>2, <3>3 DEF EachChunkTravelsOnce
  <2> QED  BY <2>4, <2>7
<1> QED  BY <1>3, <1>4

\* A wire that is cut only loses chunks.
LEMMA SeverKeepsTravel ==
  ASSUME TransferInv, NEW s \in Streams, Sever(s)
  PROVE  /\ WiresHoldChunks' /\ EachChunkTravelsOnce'
         /\ \A t \in Streams : t # s => OnWire(t)' = OnWire(t)
         /\ OnWire(s)' \subseteq OnWire(s)
         /\ \A c \in Arrived : c \in truncated' <=> c \in truncated
<1>1. PICK n \in 0 .. Len(wire[s]) :
        /\ wire' = [wire EXCEPT ![s] = SubSeq(@, 1, n)]
        /\ truncated' = truncated \/ (n > 0 /\ truncated' = truncated \cup {wire[s][n]})
  BY DEF Sever
<1>2. UNCHANGED <<senderVars, receiverVars>>  BY DEF Sever
<1>3. delivered' = delivered /\ Arrived' = Arrived
  BY <1>2 DEF senderVars, receiverVars, Arrived
<1>4. WiresHoldChunks /\ EachChunkTravelsOnce /\ wire[s] \in Seq(Chunks)
  BY DEF TransferInv, WiresHoldChunks
<1>5. /\ SubSeq(wire[s], 1, n) \in Seq(Chunks)
      /\ Range(SubSeq(wire[s], 1, n)) \subseteq Range(wire[s])
      /\ IsInjective(SubSeq(wire[s], 1, n))
  BY <1>1, <1>4, WireFacts DEF EachChunkTravelsOnce
<1>6. /\ WiresHoldChunks' /\ wire'[s] = SubSeq(wire[s], 1, n)
      /\ \A t \in Streams : t # s => wire'[t] = wire[t]
  BY <1>1, <1>4, <1>5 DEF WiresHoldChunks
<1>7. /\ \A t \in Streams : t # s => OnWire(t)' = OnWire(t)
      /\ OnWire(s)' \subseteq OnWire(s)
      /\ \A t \in Streams : IsInjective(wire'[t])
  BY <1>4, <1>5, <1>6 DEF OnWire, EachChunkTravelsOnce
<1>8. \A t \in Streams : OnWire(t)' \subseteq OnWire(t)  BY <1>7
<1>9. EachChunkTravelsOnce'  BY <1>3, <1>4, <1>7, <1>8 DEF EachChunkTravelsOnce
<1>10. \A c \in Arrived : c \in truncated' <=> c \in truncated
  <2>1. n > 0 => wire[s][n] \in OnWire(s)  BY <1>1, <1>4 DEF OnWire, Range
  <2>2. n > 0 => wire[s][n] \notin Arrived  BY <1>4, <2>1 DEF EachChunkTravelsOnce
  <2> QED  BY <1>1, <2>2
<1> QED  BY <1>6, <1>7, <1>9, <1>10

\* The head of a wire arrives: it was not counted, and now it is.
LEMMA ArriveChunkMoves ==
  ASSUME TransferInv, NEW s \in Streams, ArriveChunk(s)
  PROVE  LET c == Head(wire[s])
         IN  /\ c \in OnWire(s) /\ c \in Chunks
             /\ Arrived' = Arrived \cup {c} /\ ~ finished
             /\ OnWire(s)' = OnWire(s) \ {c}
             /\ \A t \in Streams : t # s => OnWire(t)' = OnWire(t)
             /\ WiresHoldChunks' /\ EachChunkTravelsOnce'
<1> DEFINE c == Head(wire[s])
<1>1. /\ wire[s] # <<>> /\ R!HandleChunk(c)
      /\ wire' = [wire EXCEPT ![s] = Tail(@)] /\ UNCHANGED senderVars
  BY DEF ArriveChunk
<1>2. WiresHoldChunks /\ EachChunkTravelsOnce /\ wire[s] \in Seq(Chunks)
  BY DEF TransferInv, WiresHoldChunks
<1>3. /\ c \in Chunks /\ Tail(wire[s]) \in Seq(Chunks)
      /\ Range(wire[s]) = {c} \cup Range(Tail(wire[s]))
      /\ IsInjective(Tail(wire[s])) /\ c \notin Range(Tail(wire[s]))
  BY <1>1, <1>2, WireFacts DEF EachChunkTravelsOnce
<1>4. Arrived' = Arrived \cup {c} /\ ~ finished
  <2>1. c \in RP!Chunks /\ RP!HandleChunk(c)  BY <1>1, <1>3, SameSets, SameReceiver
  <2>2. RP!Counted' = RP!Counted \cup {c} /\ ~ finished
    BY <2>1, RP!NewChunkIsCounted, ReceiverAssumed DEF TransferInv
  <2>3. Arrived = RP!Counted /\ Arrived' = RP!Counted'
    BY SameSets DEF Arrived, RP!Counted
  <2> QED  BY <2>2, <2>3
<1> HIDE DEF c
<1>5. /\ WiresHoldChunks' /\ wire'[s] = Tail(wire[s])
      /\ \A t \in Streams : t # s => wire'[t] = wire[t]
  BY <1>1, <1>2, <1>3 DEF WiresHoldChunks
<1>6. /\ c \in OnWire(s) /\ OnWire(s)' = OnWire(s) \ {c}
      /\ \A t \in Streams : t # s => OnWire(t)' = OnWire(t)
      /\ \A t \in Streams : IsInjective(wire'[t])
  BY <1>2, <1>3, <1>5 DEF OnWire, EachChunkTravelsOnce
<1>7. delivered' = delivered  BY <1>1 DEF senderVars
<1>8. EachChunkTravelsOnce'
  <2>1. Arrived' \subseteq delivered'
    BY <1>2, <1>4, <1>6, <1>7 DEF EachChunkTravelsOnce
  <2>2. ASSUME NEW t \in Streams
        PROVE  OnWire(t)' \subseteq OnWire(t) \ {c}
    BY <1>2, <1>6 DEF EachChunkTravelsOnce
  <2> QED  BY <1>2, <1>4, <1>6, <1>7, <2>1, <2>2 DEF EachChunkTravelsOnce
<1> QED  BY <1>3, <1>4, <1>5, <1>6, <1>8 DEF c

\* Nothing is on a wire at the start.
LEMMA InitEstablishesInv == ASSUME Init PROVE TransferInv
<1>1. SP!SenderInv
  BY SameTasks, SenderAssumed, SP!InitEstablishesInv DEF Init
<1>2. RP!ReceiverInv
  BY SameReceiver, ReceiverAssumed, RP!InitEstablishes DEF Init
<1>3. /\ \A s \in Streams : wire[s] = <<>>
      /\ WiresHoldChunks
  BY DEF Init, WiresHoldChunks
<1>4. Arrived = {}
  BY TransferAssumption DEF Init, R!Init, Arrived, Chunks, S!Chunks
<1>5. \A s \in Streams : OnWire(s) = {} /\ IsInjective(wire[s])
  BY <1>3 DEF OnWire, Range, IsInjective
<1> QED  BY <1>1, <1>2, <1>3, <1>4, <1>5 DEF TransferInv, EachChunkTravelsOnce

\* What the other steps leave alone.
LEMMA QuietSteps ==
  ASSUME TransferInv,
         \/ \E s \in Streams : OpenStream(s) \/ PumpStep(s) \/ CloseStream(s)
         \/ OpenControl \/ DrainDone
         \/ \E x \in Carriers : ArriveInfo(x)
         \/ \E m \in Modes : PrepareDone(m)
         \/ UNCHANGED vars
  PROVE  /\ wire' = wire /\ truncated' = truncated /\ Arrived' = Arrived
         /\ delivered' = delivered /\ finished' = finished
<1>0. truncated' = truncated
  BY DEF OpenStream, PumpStep, CloseStream, OpenControl, DrainDone, ArriveInfo, PrepareDone,
         vars, netVars, wireVars
<1>1. ASSUME UNCHANGED <<receiverVars, wire>>
      PROVE  wire' = wire /\ Arrived' = Arrived /\ finished' = finished
  BY <1>1 DEF receiverVars, Arrived
<1>2. ASSUME NEW s \in Streams, OpenStream(s) \/ PumpStep(s) \/ CloseStream(s)
      PROVE  UNCHANGED <<receiverVars, wire, delivered>>
  <2>1. UNCHANGED <<receiverVars, wire>>
    BY <1>2 DEF OpenStream, PumpStep, CloseStream, netVars, wireVars
  <2>2. CASE OpenStream(s)  BY <2>1, <2>2 DEF OpenStream, S!Open
  <2>3. CASE CloseStream(s)  BY <2>1, <2>3 DEF CloseStream, S!Close
  <2>4. CASE PumpStep(s)
    BY <2>1, <2>4, SameTasks, SameSets, SenderAssumed, SP!PumpFillsOwnBuffer
    DEF PumpStep, TransferInv
  <2> QED  BY <1>2, <2>2, <2>3, <2>4
<1>3. OpenControl \/ UNCHANGED vars => UNCHANGED <<receiverVars, wire, delivered>>
  BY DEF OpenControl, vars, senderVars, netVars, wireVars
<1>4. DrainDone => UNCHANGED <<receiverVars, wire, delivered>>
  BY DEF DrainDone, S!DrainDone, S!streamVars, netVars, wireVars
<1>5. ASSUME (\E x \in Carriers : ArriveInfo(x)) \/ (\E m \in Modes : PrepareDone(m))
      PROVE  wire' = wire /\ Arrived' = Arrived /\ delivered' = delivered
             /\ finished' = finished
  <2>1. wire' = wire /\ delivered' = delivered
    BY <1>5 DEF ArriveInfo, PrepareDone, netVars, wireVars, senderVars
  <2>2. UNCHANGED <<nextWriteIndex, pendingChunks, finished>>
    BY <1>5
    DEF ArriveInfo, PrepareDone, R!FileInfoReceived, R!PrepareDone, R!orderVars, receiverVars
  <2> QED  BY <2>1, <2>2 DEF Arrived
<1> QED  BY <1>0, <1>1, <1>2, <1>3, <1>4, <1>5

LEMMA NextKeepsInv == ASSUME TransferInv, [Next]_vars PROVE TransferInv'
<1>1. SP!SenderInv' /\ RP!ReceiverInv'  BY EnginesKeepInv
<1>2. ASSUME NEW s \in Streams, Transmit(s) \/ Sever(s) \/ ArriveChunk(s)
      PROVE  WiresHoldChunks' /\ EachChunkTravelsOnce'
  BY <1>2, TransmitKeepsTravel, SeverKeepsTravel, ArriveChunkMoves
<1>3. ASSUME wire' = wire /\ Arrived' = Arrived /\ delivered' = delivered
      PROVE  WiresHoldChunks' /\ EachChunkTravelsOnce'
  BY <1>3, QuietStepKeepsTravel
<1>4. WiresHoldChunks' /\ EachChunkTravelsOnce'
  BY <1>2, <1>3, QuietSteps DEF Next
<1> QED  BY <1>1, <1>4 DEF TransferInv

(***************************************************************************)
(* The invariant of a whole transfer, from sending to receiving engine.    *)
(***************************************************************************)
THEOREM TransferInvariant == Spec => []TransferInv
<1>1. Init => TransferInv  BY InitEstablishesInv
<1>2. TransferInv /\ [Next]_vars => TransferInv'  BY NextKeepsInv
<1> QED  BY <1>1, <1>2, PTL DEF Spec

(***************************************************************************)
(* Each chunk travels once: a pump puts it on one wire (transfer.js:511,   *)
(* :549), it is on none when it has arrived, and whatever _handleChunk     *)
(* counts (transfer.js:710) was sent.                                      *)
(***************************************************************************)
THEOREM ChunksTravelOnce == Spec => []EachChunkTravelsOnce
<1>1. TransferInv => EachChunkTravelsOnce  BY DEF TransferInv
<1> QED  BY <1>1, TransferInvariant, PTL

(***************************************************************************)
(* A transfer uses both engines as they are: it is a behaviour of each, so *)
(* whatever is proved of TransferSender or ChunkReceiver alone holds when  *)
(* their chunks and messages come from one another.                        *)
(***************************************************************************)
THEOREM EnginesRunAsTheyAre == Spec => S!Spec /\ R!Spec
<1>1. Init => S!Init /\ R!Init  BY DEF Init
<1>2. [Next]_vars => [S!Next]_(S!vars)
  <2>1. SP!Next => S!Next
    BY SameTasks, SameSets DEF S!Next, SP!Next, Streams
  <2>2. UNCHANGED SP!vars => UNCHANGED S!vars
    BY DEF SP!vars, S!vars, SP!poolVars, S!poolVars, SP!pumpVars, S!pumpVars,
           SP!countVars, S!countVars, SP!streamVars, S!streamVars
  <2> QED  BY <2>1, <2>2, StepOfSender
<1>3. TransferInv /\ [Next]_vars => [R!Next]_(R!vars)
  <2>1. RP!Next => R!Next
    BY SameReceiver DEF R!Next, RP!Next, R!Chunks, RP!Chunks
  <2>2. UNCHANGED RP!vars => UNCHANGED R!vars
    BY DEF RP!vars, R!vars, RP!orderVars, R!orderVars, RP!sinkVars, R!sinkVars
  <2> QED  BY <2>1, <2>2, StepOfReceiver DEF TransferInv
<1> QED  BY <1>1, <1>2, <1>3, TransferInvariant, PTL DEF Spec, S!Spec, R!Spec

-----------------------------------------------------------------------------
(* A transfer is a FileTransfer *)

\* Under way: on a wire, or in the buffer of a live connection.
LEMMA UnderWayIs ==
  /\ \A c : c \in UnderWay <=>
       \E s \in Streams :
         c \in OnWire(s) \/ (link[s] = "open" /\ c \in Range(buffered[s]))
  /\ \A c : c \in UnderWay' <=>
       \E s \in Streams :
         c \in OnWire(s)' \/ (link'[s] = "open" /\ c \in Range(buffered'[s]))
<1>1. \A s : S!InBuffer(s) = Range(buffered[s]) /\ S!InBuffer(s)' = Range(buffered'[s])
  BY DEF S!InBuffer, S!Range, Range
<1> DEFINE Live    == {t \in Streams : link[t] = "open"}
           Wired   == UNION {OnWire(s) : s \in Streams}
           Waiting == UNION {S!InBuffer(s) : s \in Live}
<1>2. /\ \A c : c \in Wired <=> \E s \in Streams : c \in OnWire(s)
      /\ \A c : c \in Waiting <=>
           \E s \in Streams : link[s] = "open" /\ c \in S!InBuffer(s)
  OBVIOUS
<1>3. /\ \A c : c \in Wired' <=> \E s \in Streams : c \in OnWire(s)'
      /\ \A c : c \in Waiting' <=>
           \E s \in Streams : link'[s] = "open" /\ c \in S!InBuffer(s)'
  OBVIOUS
<1>4. UnderWay = Wired \cup Waiting /\ UnderWay' = Wired' \cup Waiting'
  BY DEF UnderWay
<1> HIDE DEF Wired, Waiting
<1>5. \A c : c \in UnderWay <=> c \in Wired \/ c \in Waiting  BY <1>4
<1>6. \A c : c \in UnderWay' <=> c \in Wired' \/ c \in Waiting'  BY <1>4
<1> QED  BY <1>1, <1>2, <1>3, <1>5, <1>6

LEMMA HandedIs ==
  /\ \A c : c \in S!Handed <=>
       c \in delivered \/ \E s \in Streams : c \in Range(buffered[s])
  /\ \A c : c \in S!Handed' <=>
       c \in delivered' \/ \E s \in Streams : c \in Range(buffered'[s])
<1>1. \A s : S!InBuffer(s) = Range(buffered[s]) /\ S!InBuffer(s)' = Range(buffered'[s])
  BY DEF S!InBuffer, S!Range, Range
<1> QED  BY <1>1 DEF S!Handed, Streams

\* The places exclude one another: what arrived or is under way was handed over,
\* and nothing is under way that arrived.
LEMMA PlaceIs ==
  ASSUME TransferInv
  PROVE  /\ \A c \in Chunks :
              /\ Place[c] \in T!Ends    <=> c \in Arrived
              /\ Place[c] = "under way" <=> c \in UnderWay
              /\ Place[c] = "file"      <=> c \notin S!Handed
              /\ Place[c] = "lost"      <=> c \in S!Handed \ (Arrived \cup UnderWay)
         /\ Arrived \cap UnderWay = {}
         /\ Arrived \cup UnderWay \subseteq S!Handed
<1>1. /\ EachChunkTravelsOnce
      /\ \A s \in Streams : delivered \cap Range(buffered[s]) = {}
  BY SenderFacts DEF TransferInv, BuffersApart
<1>2. Arrived \cap UnderWay = {}
  BY <1>1, UnderWayIs DEF EachChunkTravelsOnce
<1>3. Arrived \cup UnderWay \subseteq S!Handed
  BY <1>1, UnderWayIs, HandedIs DEF EachChunkTravelsOnce
<1>4. ASSUME NEW c \in Chunks
      PROVE  Place[c] = IF c \in Arrived \ truncated THEN "arrived"
                        ELSE IF c \in Arrived THEN "damaged"
                        ELSE IF c \in UnderWay THEN "under way"
                        ELSE IF c \in S!Handed THEN "lost" ELSE "file"
  BY DEF Place
<1> QED  BY <1>2, <1>3, <1>4 DEF T!Ends

\* The chunks of C change from one place to another, and no other chunk moves.
LEMMA MoveOf ==
  ASSUME NEW C \in SUBSET Chunks, NEW from, NEW to,
         \A c \in C : Place[c] = from /\ Place'[c] = to,
         \A c \in Chunks \ C : Place'[c] = Place[c]
  PROVE  T!Move(C, from, to)
<1>1. Place' = [c \in Chunks |-> Place'[c]]  BY DEF Place, Chunks, S!Chunks
<1> QED  BY <1>1, Zenon DEF T!Move

\* If arrived, under way and handed over are what they were, so is every place.
LEMMA SamePlaces ==
  ASSUME truncated' = truncated, Arrived' = Arrived, UnderWay' = UnderWay,
         S!Handed' = S!Handed
  PROVE  Place' = Place
BY DEF Place, Chunks, S!Chunks

\* A stream opens: its buffer is still empty.
LEMMA OpenMovesNothing ==
  ASSUME TransferInv, TransferInv', NEW s \in Streams, OpenStream(s)
  PROVE  Place' = Place /\ completed' = completed
<1>1. /\ link' = [link EXCEPT ![s] = "open"] /\ link[s] = "connecting"
      /\ buffered' = buffered /\ completed' = completed
  BY DEF OpenStream, S!Open
<1>2. /\ wire' = wire /\ truncated' = truncated
      /\ Arrived' = Arrived /\ delivered' = delivered
  BY QuietSteps
<1>3. /\ buffered[s] = <<>> /\ buffered[s] \in Seq(Chunks)
      /\ link \in [Streams -> SP!LinkStates]
  BY <1>1, SenderFacts DEF TransferInv, BuffersApart
<1>4. Range(buffered[s]) = {}  BY <1>3 DEF Range
<1>5. UnderWay' = UnderWay
  <2>1. \A t \in Streams : OnWire(t)' = OnWire(t)  BY <1>2 DEF OnWire
  <2>2. \A c : c \in UnderWay' <=> c \in UnderWay
    BY <1>1, <1>3, <1>4, <2>1, UnderWayIs
  <2> QED  BY <2>2
<1>6. S!Handed' = S!Handed  BY <1>1, <1>2, HandedIs
<1> QED  BY <1>1, <1>2, <1>5, <1>6, SamePlaces

\* A pump hands over chunks of the file: to a live connection, where they are
\* under way, or to a dead one, where they are lost.
LEMMA PumpStepSends ==
  ASSUME TransferInv, TransferInv', NEW s \in Streams, PumpStep(s)
  PROVE  T!Send
<1> DEFINE C == Range(buffered'[s]) \ Range(buffered[s])
<1>1. /\ wire' = wire /\ truncated' = truncated /\ Arrived' = Arrived
      /\ delivered' = delivered /\ finished' = finished
  BY QuietSteps
<1>2. /\ link' = link /\ completed' = completed
      /\ \A t \in Streams : t # s => buffered'[t] = buffered[t]
      /\ Range(buffered[s]) \subseteq Range(buffered'[s])
  <2>1. SP!InBuffer(s) = Range(buffered[s]) /\ SP!InBuffer(s)' = Range(buffered'[s])
    BY DEF SP!InBuffer, SP!Range, Range
  <2> QED
    BY <2>1, SameTasks, SameSets, SenderAssumed, SP!PumpFillsOwnBuffer
    DEF PumpStep, TransferInv
<1>3. /\ \A t \in Streams : t # s => Range(buffered'[s]) \cap Range(buffered[t]) = {}
      /\ Range(buffered'[s]) \cap delivered = {}
      /\ link[s] = "connecting" => Range(buffered'[s]) = {}
      /\ Range(buffered'[s]) \subseteq Chunks
  <2>1. /\ buffered' \in [Streams -> Seq(Chunks)]
        /\ delivered' \cap Range(buffered'[s]) = {}
        /\ link'[s] = "connecting" => buffered'[s] = <<>>
        /\ \A t \in Streams : s # t => Range(buffered'[s]) \cap Range(buffered'[t]) = {}
    BY SenderFacts DEF TransferInv, BuffersApart
  <2>2. \A q \in Seq(Chunks) : Range(q) \subseteq Chunks /\ (q = <<>> => Range(q) = {})
    BY DEF Range
  <2>3. buffered'[s] \in Seq(Chunks)  BY <2>1
  <2> QED  BY <2>1, <2>2, <2>3, <1>1, <1>2
<1>4. /\ C \in SUBSET Chunks /\ C \cap S!Handed = {}
      /\ \A c : c \in S!Handed' <=> c \in S!Handed \/ c \in C
  BY <1>1, <1>2, <1>3, HandedIs
<1>5. \A t \in Streams : OnWire(t)' = OnWire(t)  BY <1>1 DEF OnWire
<1>6. CASE link[s] = "open"
  <2>1. \A c : c \in UnderWay' <=> c \in UnderWay \/ c \in C
    BY <1>2, <1>5, <1>6, UnderWayIs
  <2>2. T!Move(C, "file", "under way")
    <3> HIDE DEF C
    <3>1. \A c \in C : Place[c] = "file" /\ c \notin Arrived'  BY <1>1, <1>4, PlaceIs
    <3>2. \A c \in C : Place'[c] = "under way"
      BY <1>4, <2>1, <3>1 DEF Place, Chunks, S!Chunks
    <3>3. \A c \in Chunks \ C : Place'[c] = Place[c]
      BY <1>1, <1>4, <2>1 DEF Place, Chunks, S!Chunks
    <3> QED  BY <1>4, <3>1, <3>2, <3>3, MoveOf
  <2> QED  BY <1>1, <1>2, <1>4, <2>2 DEF T!Send
<1>7. CASE link[s] # "open"
  <2>1. \A c : c \in UnderWay' <=> c \in UnderWay
    BY <1>2, <1>5, <1>7, UnderWayIs
  <2>2. T!Move(C, "file", "lost")
    <3> HIDE DEF C
    <3>1. \A c \in C : Place[c] = "file" /\ c \notin Arrived' \cup UnderWay'
      BY <1>1, <1>4, <2>1, PlaceIs
    <3>2. \A c \in C : Place'[c] = "lost"
      BY <1>4, <3>1 DEF Place, Chunks, S!Chunks
    <3>3. \A c \in Chunks \ C : Place'[c] = Place[c]
      BY <1>1, <1>4, <2>1 DEF Place, Chunks, S!Chunks
    <3> QED  BY <1>4, <3>1, <3>2, <3>3, MoveOf
  <2> QED  BY <1>1, <1>2, <1>4, <2>2 DEF T!Send
<1> QED  BY <1>6, <1>7

\* onComplete runs when every chunk was handed over.
LEMMA DrainDoneFinishes ==
  ASSUME TransferInv, TransferInv', DrainDone
  PROVE  T!Finish
<1>1. /\ completeFired /\ completed' = TRUE
      /\ buffered' = buffered /\ link' = link
  BY DEF DrainDone, S!DrainDone, S!streamVars
<1>2. /\ wire' = wire /\ truncated' = truncated /\ Arrived' = Arrived
      /\ delivered' = delivered /\ finished' = finished
  BY QuietSteps
<1>3. S!Handed = Chunks
  BY <1>1, SenderAssumed, SP!FullCountEmptiesPool, SameSets
  DEF TransferInv, SP!SenderInv, SP!PumpLifecycle
<1>4. S!Handed' = S!Handed  BY <1>1, <1>2, HandedIs
<1>5. UnderWay' = UnderWay
  BY <1>1, <1>2, UnderWayIs DEF OnWire
<1>6. Place' = Place  BY <1>2, <1>4, <1>5, SamePlaces
<1>7. \A c \in Chunks : Place[c] # "file"  BY <1>3, PlaceIs
<1> QED  BY <1>1, <1>2, <1>6, <1>7 DEF T!Finish

\* A connection dies: what its buffer holds is lost.
LEMMA CloseLoses ==
  ASSUME TransferInv, TransferInv', NEW s \in Streams, CloseStream(s)
  PROVE  T!Lose
<1> DEFINE C == IF link[s] = "open" THEN Range(buffered[s]) ELSE {}
<1>1. /\ wire' = wire /\ truncated' = truncated /\ Arrived' = Arrived
      /\ delivered' = delivered /\ finished' = finished
  BY QuietSteps
<1>2. /\ link' = [link EXCEPT ![s] = "closed"]
      /\ buffered' = buffered /\ completed' = completed
  BY DEF CloseStream, S!Close
<1>3. /\ link \in [Streams -> SP!LinkStates] /\ Range(buffered[s]) \subseteq Chunks
      /\ \A t \in Streams : t # s => Range(buffered[s]) \cap Range(buffered[t]) = {}
      /\ delivered \cap Range(buffered[s]) = {}
      /\ EachChunkTravelsOnce
  <2>1. BuffersApart /\ EachChunkTravelsOnce  BY SenderFacts DEF TransferInv
  <2>2. \A q \in Seq(Chunks) : Range(q) \subseteq Chunks  BY DEF Range
  <2> QED  BY <2>1, <2>2 DEF BuffersApart
<1>4. \A t \in Streams : OnWire(t)' = OnWire(t) /\ OnWire(t) \subseteq delivered
  BY <1>1, <1>3 DEF OnWire, EachChunkTravelsOnce
<1>5. C \in SUBSET Chunks /\ (\A c \in C : c \in UnderWay /\ c \notin UnderWay')
  BY <1>2, <1>3, <1>4, UnderWayIs
<1>6. \A c : c \notin C => (c \in UnderWay' <=> c \in UnderWay)
  BY <1>2, <1>3, <1>4, UnderWayIs
<1>7. S!Handed' = S!Handed  BY <1>1, <1>2, HandedIs
<1> HIDE DEF C
<1>8. \A c \in C : Place[c] = "under way" /\ c \in S!Handed /\ c \notin Arrived
  BY <1>5, PlaceIs
<1>9. \A c \in C : Place'[c] = "lost"
  BY <1>1, <1>5, <1>7, <1>8 DEF Place, Chunks, S!Chunks
<1>10. \A c \in Chunks \ C : Place'[c] = Place[c]
  BY <1>1, <1>6, <1>7 DEF Place, Chunks, S!Chunks
<1>11. T!Move(C, "under way", "lost")  BY <1>5, <1>8, <1>9, <1>10, MoveOf
<1> QED  BY <1>1, <1>2, <1>5, <1>11 DEF T!Lose

\* A wire is cut: the tail that was on it is lost.  What the relay truncates
\* is still under way.
LEMMA SeverLoses ==
  ASSUME TransferInv, TransferInv', NEW s \in Streams, Sever(s)
  PROVE  T!Lose
<1> DEFINE C == OnWire(s) \ OnWire(s)'
<1>1. /\ \A t \in Streams : t # s => OnWire(t)' = OnWire(t)
      /\ OnWire(s)' \subseteq OnWire(s)
      /\ \A c \in Arrived : c \in truncated' <=> c \in truncated
  BY SeverKeepsTravel
<1>2. UNCHANGED <<senderVars, receiverVars>>  BY DEF Sever
<1>3. /\ buffered' = buffered /\ link' = link /\ delivered' = delivered
      /\ completed' = completed /\ finished' = finished /\ Arrived' = Arrived
  BY <1>2 DEF senderVars, receiverVars, Arrived
<1>4. /\ delivered \in SUBSET Chunks
      /\ \A t \in Streams : OnWire(t) \subseteq delivered
      /\ \A t \in Streams : t # s => OnWire(s) \cap OnWire(t) = {}
      /\ \A t \in Streams : delivered \cap Range(buffered[t]) = {}
  <2>1. BuffersApart /\ EachChunkTravelsOnce  BY SenderFacts DEF TransferInv
  <2> QED  BY <2>1 DEF BuffersApart, EachChunkTravelsOnce
<1> HIDE DEF OnWire
<1>5. C \in SUBSET Chunks /\ (\A c \in C : c \in UnderWay /\ c \notin UnderWay')
  BY <1>1, <1>3, <1>4, UnderWayIs
<1>6. \A c : c \notin C => (c \in UnderWay' <=> c \in UnderWay)
  BY <1>1, <1>3, UnderWayIs
<1>7. S!Handed' = S!Handed  BY <1>3, HandedIs
<1> HIDE DEF C
<1>8. \A c \in C : Place[c] = "under way" /\ c \in S!Handed /\ c \notin Arrived
  BY <1>5, PlaceIs
<1>9. \A c \in C : Place'[c] = "lost"
  BY <1>3, <1>5, <1>7, <1>8 DEF Place, Chunks, S!Chunks
<1>10. \A c \in Chunks \ C : Place'[c] = Place[c]
  BY <1>1, <1>3, <1>6, <1>7 DEF Place, Chunks, S!Chunks
<1>11. T!Move(C, "under way", "lost")  BY <1>5, <1>8, <1>9, <1>10, MoveOf
<1> QED  BY <1>3, <1>5, <1>11 DEF T!Lose

\* The head of a buffer stays under way on its wire, or is lost on a cut one.
LEMMA TransmitMoves ==
  ASSUME TransferInv, TransferInv', NEW s \in Streams, Transmit(s)
  PROVE  T!Lose \/ (Place' = Place /\ completed' = completed /\ finished' = finished)
<1> DEFINE c == Head(buffered[s])
<1>1. /\ link[s] = "open" /\ buffered[s] # <<>> /\ link' = link
      /\ delivered' = delivered \cup {c}
      /\ buffered' = [buffered EXCEPT ![s] = Tail(@)] /\ completed' = completed
      /\ wire' = IF s \in severed THEN wire ELSE [wire EXCEPT ![s] = Append(@, c)]
      /\ truncated' = truncated /\ UNCHANGED receiverVars
  BY DEF Transmit, S!Transmit
<1>2. BuffersApart /\ EachChunkTravelsOnce /\ WiresHoldChunks
  BY SenderFacts DEF TransferInv
<1>3. /\ c \in Chunks /\ Range(buffered[s]) = {c} \cup Range(Tail(buffered[s]))
      /\ c \notin Range(Tail(buffered[s]))
  <2>1. buffered[s] \in Seq(Chunks) /\ IsInjective(buffered[s])
    BY <1>2 DEF BuffersApart
  <2> QED  BY <1>1, <2>1, WireFacts
<1>4. finished' = finished /\ Arrived' = Arrived
  BY <1>1 DEF receiverVars, Arrived
<1>5. /\ c \notin delivered
      /\ \A t \in Streams : c \notin OnWire(t)
      /\ \A t \in Streams : t # s => c \notin Range(buffered[t])
  BY <1>2, <1>3 DEF BuffersApart, EachChunkTravelsOnce
<1>6. /\ Range(buffered'[s]) = Range(buffered[s]) \ {c}
      /\ \A t \in Streams : t # s => buffered'[t] = buffered[t]
  BY <1>1, <1>2, <1>3 DEF BuffersApart
<1> HIDE DEF c
<1>7. \A d : d \in S!Handed' <=> d \in S!Handed
  BY <1>1, <1>3, <1>6, HandedIs
<1>8. c \in UnderWay  BY <1>1, <1>3, UnderWayIs
<1>9. CASE s \in severed
  <2>1. \A t \in Streams : OnWire(t)' = OnWire(t)  BY <1>1, <1>9 DEF OnWire
  <2>2. \A d : d \in UnderWay' <=> d \in UnderWay /\ d # c
    BY <2>1, <1>1, <1>3, <1>5, <1>6, UnderWayIs
  <2>3. Place[c] = "under way" /\ c \in S!Handed /\ c \notin Arrived
    BY <1>3, <1>8, PlaceIs
  <2>4. Place'[c] = "lost"
    BY <1>3, <1>4, <1>7, <2>2, <2>3 DEF Place, Chunks, S!Chunks
  <2>5. \A d \in Chunks \ {c} : Place'[d] = Place[d]
    BY <1>1, <1>4, <1>7, <2>2 DEF Place, Chunks, S!Chunks
  <2>6. T!Move({c}, "under way", "lost")  BY <1>3, <2>3, <2>4, <2>5, MoveOf
  <2> QED  BY <1>1, <1>3, <1>4, <2>6 DEF T!Lose
<1>10. CASE s \notin severed
  <2>1. /\ OnWire(s)' = OnWire(s) \cup {c}
        /\ \A t \in Streams : t # s => OnWire(t)' = OnWire(t)
    <3>1. /\ wire'[s] = Append(wire[s], c) /\ wire[s] \in Seq(Chunks)
          /\ \A t \in Streams : t # s => wire'[t] = wire[t]
      BY <1>1, <1>2, <1>10 DEF WiresHoldChunks
    <3> QED  BY <3>1, <1>3, WireFacts DEF OnWire
  <2>2. \A d : d \in UnderWay' <=> d \in UnderWay
    BY <2>1, <1>1, <1>3, <1>6, UnderWayIs
  <2> QED  BY <1>1, <1>4, <1>7, <2>2, SamePlaces
<1> QED  BY <1>9, <1>10

\* The receiver's "complete" means that everything arrived.
LEMMA EndMeansAllArrived ==
  (TransferInv /\ finished => Arrived = Chunks) /\ (TransferInv /\ finished => Arrived = Chunks)'
<1>1. TransferInv /\ finished => Arrived = Chunks
  BY SameSets, ReceiverAssumed, RP!EndMeansAllCounted DEF TransferInv
<1> QED  BY <1>1, PTL

\* A chunk arrives; the receiver's "complete" comes with the last one.
LEMMA ArriveChunkArrives ==
  ASSUME TransferInv, TransferInv', NEW s \in Streams, ArriveChunk(s)
  PROVE  T!Arrive
<1> DEFINE c == Head(wire[s])
<1>1. /\ c \in OnWire(s) /\ c \in Chunks /\ Arrived' = Arrived \cup {c} /\ ~ finished
      /\ OnWire(s)' = OnWire(s) \ {c}
      /\ \A t \in Streams : t # s => OnWire(t)' = OnWire(t)
  BY ArriveChunkMoves
<1> HIDE DEF c
<1>2. /\ buffered' = buffered /\ link' = link /\ delivered' = delivered
      /\ completed' = completed /\ truncated' = truncated
  BY DEF ArriveChunk, senderVars
<1>3. BuffersApart /\ EachChunkTravelsOnce  BY SenderFacts DEF TransferInv
<1>4. /\ c \in delivered
      /\ \A t \in Streams : t # s => c \notin OnWire(t)
      /\ \A t \in Streams : c \notin Range(buffered[t])
  BY <1>1, <1>3 DEF BuffersApart, EachChunkTravelsOnce
<1>5. \A d : d \in UnderWay' <=> d \in UnderWay /\ d # c
  BY <1>1, <1>2, <1>4, UnderWayIs
<1>6. S!Handed' = S!Handed  BY <1>2, HandedIs
<1>7. Place[c] = "under way"
  <2>1. c \in UnderWay  BY <1>1, UnderWayIs
  <2> QED  BY <1>1, <2>1, PlaceIs
<1>8. Place'[c] \in T!Ends  BY <1>1 DEF T!Ends, Place, Chunks, S!Chunks
<1>9. \A d \in Chunks \ {c} : Place'[d] = Place[d]
  BY <1>1, <1>2, <1>5, <1>6 DEF Place, Chunks, S!Chunks
<1>10. PICK to \in T!Ends : Place'[c] = to  BY <1>8
<1>11. T!Move({c}, "under way", to)  BY <1>1, <1>7, <1>9, <1>10, MoveOf
<1>12. ASSUME finished' PROVE \A d \in Chunks : Place'[d] \in T!Ends
  <2>1. Arrived' = Chunks  BY <1>12, EndMeansAllArrived DEF Chunks, S!Chunks
  <2> QED  BY <2>1 DEF T!Ends, Place, Chunks, S!Chunks
<1> QED  BY <1>1, <1>2, <1>11, <1>12 DEF T!Arrive

\* The file-info and prepare() move no chunk.
LEMMA OtherStepsMoveNothing ==
  ASSUME TransferInv,
         \/ OpenControl \/ UNCHANGED vars
         \/ \E x \in Carriers : ArriveInfo(x)
         \/ \E m \in Modes : PrepareDone(m)
  PROVE  Place' = Place /\ completed' = completed /\ finished' = finished
<1>1. /\ wire' = wire /\ truncated' = truncated /\ Arrived' = Arrived
      /\ delivered' = delivered /\ finished' = finished
  BY QuietSteps
<1>2. buffered' = buffered /\ link' = link /\ completed' = completed
  BY DEF OpenControl, vars, ArriveInfo, PrepareDone, senderVars
<1>3. UnderWay' = UnderWay  BY <1>1, <1>2, UnderWayIs DEF OnWire
<1>4. S!Handed' = S!Handed  BY <1>1, <1>2, HandedIs
<1> QED  BY <1>1, <1>2, <1>3, <1>4, SamePlaces

(***************************************************************************)
(* A transfer is a FileTransfer, whatever fails and in whatever order the  *)
(* streams run: a chunk leaves the file once and arrives at most once, the *)
(* receiving page says "complete" (transfer.js:731-734) only when all have *)
(* arrived, whole or cut short by a relay (relay_ws.go:140-143), and the   *)
(* sending page (transfer.js:653-665) says so only when all have left.     *)
(***************************************************************************)
THEOREM TransferIsAFileTransfer == Spec => IsAFileTransfer
<1>1. Init /\ TransferInv => T!Init
  <2> SUFFICES ASSUME Init, TransferInv PROVE T!Init  OBVIOUS
  <2>1. completed = FALSE /\ finished = FALSE  BY DEF Init, S!Init, R!Init
  <2>2. \A c \in Chunks : Place[c] = "file"
    <3>1. /\ delivered = {} /\ \A s \in Streams : buffered[s] = <<>>
      BY DEF Init, S!Init, Streams
    <3>2. Range(<<>>) = {}  BY DEF Range
    <3>3. \A c : c \notin S!Handed  BY <3>1, <3>2, HandedIs
    <3> QED  BY <3>3, PlaceIs
  <2>3. Place = [c \in Chunks |-> Place[c]]  BY DEF Place, Chunks, S!Chunks
  <2> QED  BY <2>1, <2>2, <2>3 DEF T!Init
<1>2. TransferInv /\ TransferInv' /\ [Next]_vars
        => [T!Next]_<<Place, completed, finished>>
  <2> SUFFICES ASSUME TransferInv, TransferInv', [Next]_vars
               PROVE  [T!Next]_<<Place, completed, finished>>
    OBVIOUS
  <2>1. ASSUME NEW s \in Streams, OpenStream(s)
        PROVE  UNCHANGED <<Place, completed, finished>>
    BY <2>1, OpenMovesNothing, QuietSteps
  <2>2. ASSUME NEW s \in Streams, PumpStep(s)  PROVE T!Next
    BY <2>2, PumpStepSends DEF T!Next
  <2>3. ASSUME NEW s \in Streams, CloseStream(s) \/ Sever(s)  PROVE T!Next
    BY <2>3, CloseLoses, SeverLoses DEF T!Next
  <2>4. ASSUME NEW s \in Streams, Transmit(s)
        PROVE  [T!Next]_<<Place, completed, finished>>
    BY <2>4, TransmitMoves DEF T!Next
  <2>5. ASSUME NEW s \in Streams, ArriveChunk(s)  PROVE T!Next
    BY <2>5, ArriveChunkArrives DEF T!Next
  <2>6. DrainDone => T!Next  BY DrainDoneFinishes DEF T!Next
  <2>7. ASSUME \/ OpenControl \/ UNCHANGED vars
               \/ \E x \in Carriers : ArriveInfo(x)
               \/ \E m \in Modes : PrepareDone(m)
        PROVE  UNCHANGED <<Place, completed, finished>>
    BY <2>7, OtherStepsMoveNothing
  <2> QED  BY <2>1, <2>2, <2>3, <2>4, <2>5, <2>6, <2>7 DEF Next
<1> QED
  BY <1>1, <1>2, TransferInvariant, PTL DEF Spec, IsAFileTransfer, T!Spec
=============================================================================
