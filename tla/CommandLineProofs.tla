--------------------------- MODULE CommandLineProofs ---------------------------
(***************************************************************************)
(* Proofs about the command line client, for every number of streams and   *)
(* of chunks (CliTransfer), and about the relay for TCP clients, for every *)
(* set of connections and rooms (TcpRelay).                                *)
(***************************************************************************)
EXTENDS CliTransfer, TcpRelay, FiniteSetTheorems, TLAPS

-----------------------------------------------------------------------------
(* Strides: the chunks of a sending task are those of one residue. *)

LEMMA Division ==
  ASSUME NEW x \in Int
  PROVE  /\ x % NumStreams \in 0 .. NumStreams - 1
         /\ x \div NumStreams \in Int
         /\ x = NumStreams * (x \div NumStreams) + (x % NumStreams)
BY CliTransferAssumption

\* A number has one quotient and one remainder.
LEMMA DivisionIsUnique ==
  ASSUME NEW q \in Int, NEW r \in 0 .. NumStreams - 1,
         NEW p \in Int, NEW t \in 0 .. NumStreams - 1,
         q * NumStreams + r = p * NumStreams + t
  PROVE  q = p /\ r = t
BY CliTransferAssumption

LEMMA Multiple ==
  ASSUME NEW x \in Int
  PROVE  x % NumStreams = 0 <=> \E q \in Int : x = q * NumStreams
<1>1. ASSUME x % NumStreams = 0 PROVE \E q \in Int : x = q * NumStreams
  <2>1. x = (x \div NumStreams) * NumStreams  BY <1>1, Division, CliTransferAssumption
  <2> QED  BY <2>1, Division
<1>2. ASSUME NEW q \in Int, x = q * NumStreams PROVE x % NumStreams = 0
  BY <1>2, CliTransferAssumption
<1> QED  BY <1>1, <1>2

\* What is left after chunk k of the stride k, k + N, ... is the stride from
\* k + N on.
LEMMA StrideGoesOn ==
  ASSUME NEW k \in Nat, NEW x \in Nat
  PROVE  (x >= k + NumStreams /\ (x - (k + NumStreams)) % NumStreams = 0)
           <=> (x >= k /\ (x - k) % NumStreams = 0 /\ x # k)
<1> DEFINE N == NumStreams
<1>0. N \in Nat \ {0}  BY CliTransferAssumption
<1>1. ASSUME x >= k + N, (x - (k + N)) % N = 0
      PROVE  x >= k /\ (x - k) % N = 0 /\ x # k
  <2>1. PICK q \in Int : x - (k + N) = q * N  BY <1>1, <1>0, Multiple
  <2>2. x - k = (q + 1) * N /\ q + 1 \in Int  BY <2>1, <1>0
  <2>3. (x - k) % N = 0  BY <2>2, <1>0, Multiple
  <2> QED  BY <2>3, <1>0, <1>1
<1>2. ASSUME x >= k, (x - k) % N = 0, x # k
      PROVE  x >= k + N /\ (x - (k + N)) % N = 0
  <2>0. x - k \in Int  BY <1>0
  <2>1. PICK q \in Int : x - k = q * N  BY <2>0, <1>2, Multiple
  <2>2. q >= 1
    <3>1. ASSUME q <= 0 PROVE q * N <= 0  BY <3>1, <1>0
    <3> QED  BY <3>1, <2>1, <1>2
  <2>3. q * N >= N  BY <2>2, <1>0
  <2>4. x - (k + N) = (q - 1) * N /\ q - 1 \in Int  BY <2>1, <1>0
  <2>5. (x - (k + N)) % N = 0  BY <2>4, <1>0, Multiple
  <2> QED  BY <2>1, <2>3, <2>5, <1>0
<1> QED  BY <1>1, <1>2

\* The strides of the tasks, from their first chunks on, divide the chunks.
LEMMA OneResidueEach ==
  ASSUME NEW x \in Nat, NEW j \in Streams
  PROVE  x >= j - 1 /\ (x - (j - 1)) % NumStreams = 0 <=> j = (x % NumStreams) + 1
<1> DEFINE N == NumStreams
           r == x % N
<1>0. N \in Nat \ {0} /\ j - 1 \in 0 .. N - 1  BY CliTransferAssumption DEF Streams
<1>1. r \in 0 .. N - 1 /\ x \div N \in Int /\ x = N * (x \div N) + r  BY Division
<1> HIDE DEF r
<1>2. ASSUME (x - (j - 1)) % N = 0 PROVE j = r + 1
  <2>0. x - (j - 1) \in Int  BY <1>0
  <2>1. PICK q \in Int : x - (j - 1) = q * N  BY <2>0, <1>2, Multiple
  <2>2. q * N + (j - 1) = (x \div N) * N + r  BY <2>1, <1>1, <1>0
  <2>3. j - 1 = r
    <3>1. q \in Int /\ j - 1 \in 0 .. NumStreams - 1
          /\ x \div N \in Int /\ r \in 0 .. NumStreams - 1
      BY <1>0, <1>1
    <3> HIDE DEF N
    <3> QED  BY <2>2, <3>1, DivisionIsUnique DEF N
  <2> QED  BY <2>3, <1>0, <1>1 DEF Streams
<1>3. ASSUME j = r + 1 PROVE x >= j - 1 /\ (x - (j - 1)) % N = 0
  <2>1. x - (j - 1) = (x \div N) * N  BY <1>3, <1>0, <1>1
  <2>2. (x - (j - 1)) % N = 0  BY <2>1, <1>0, <1>1, Multiple
  <2>3. x \div N >= 0
    <3>1. ASSUME x \div N <= -1 PROVE (x \div N) * N <= -N  BY <3>1, <1>0, <1>1
    <3> QED  BY <3>1, <1>0, <1>1
  <2>4. (x \div N) * N >= 0  BY <2>3, <1>0, <1>1
  <2> QED  BY <2>1, <2>2, <2>4, <1>0
<1> QED  BY <1>2, <1>3 DEF r

-----------------------------------------------------------------------------
(* Frames in order on a stream. *)

Frames     == {Header, End} \cup {Chunk(k) : k \in Chunks}
IsChunk(f) == f.type = "chunk"
Indices(q) == {q[n].index : n \in {m \in DOMAIN q : IsChunk(q[m])}}

\* No chunk is twice on the stream.
Once(q) == \A m, n \in DOMAIN q :
             IsChunk(q[m]) /\ IsChunk(q[n]) /\ q[m].index = q[n].index => m = n

\* The end marker is the last frame.
EndIsLast(q) == \A n \in DOMAIN q : q[n] = End => n = Len(q)

LEMMA FrameTypes ==
  /\ ~IsChunk(Header) /\ ~IsChunk(End) /\ Header # End
  /\ \A k \in Chunks : IsChunk(Chunk(k)) /\ Chunk(k).index = k
                       /\ Chunk(k) # Header /\ Chunk(k) # End
  /\ \A f \in Frames : f = Header \/ f = End \/ (IsChunk(f) /\ f.index \in Chunks)
BY DEF Frames, IsChunk, Header, End, Chunk

LEMMA EmptyHasNoLength ==
  ASSUME NEW q \in Seq(Frames)  PROVE q = <<>> <=> Len(q) = 0
OBVIOUS

LEMMA FrameSent ==
  ASSUME NEW q \in Seq(Frames), NEW f \in Frames
  PROVE  LET p == Append(q, f)
         IN  /\ p \in Seq(Frames) /\ p # <<>>
             /\ Indices(p) = Indices(q) \cup (IF IsChunk(f) THEN {f.index} ELSE {})
             /\ Once(q) /\ (IsChunk(f) => f.index \notin Indices(q)) => Once(p)
             /\ (\A n \in DOMAIN q : q[n] # End) => EndIsLast(p)
             /\ \A n \in DOMAIN p : p[n] = f \/ (n \in DOMAIN q /\ p[n] = q[n])
<1> DEFINE p == Append(q, f)
<1>1. /\ p \in Seq(Frames) /\ p # <<>> /\ Len(p) = Len(q) + 1 /\ p[Len(q) + 1] = f
      /\ DOMAIN q = 1 .. Len(q) /\ DOMAIN p = 1 .. Len(q) + 1 /\ Len(q) \in Nat
      /\ \A n \in 1 .. Len(q) : p[n] = q[n]
  OBVIOUS
<1> HIDE DEF p
<1>2. Indices(p) = Indices(q) \cup (IF IsChunk(f) THEN {f.index} ELSE {})
  <2>1. ASSUME NEW x \in Indices(p) PROVE x \in Indices(q) \/ (IsChunk(f) /\ x = f.index)
    <3>1. PICK n \in DOMAIN p : IsChunk(p[n]) /\ x = p[n].index  BY <2>1 DEF Indices
    <3>2. CASE n \in DOMAIN q
      <4>1. IsChunk(q[n]) /\ x = q[n].index  BY <3>1, <3>2, <1>1
      <4> QED  BY <3>2, <4>1 DEF Indices
    <3>3. CASE n \notin DOMAIN q  BY <3>1, <3>3, <1>1
    <3> QED  BY <3>2, <3>3
  <2>2. ASSUME NEW x \in Indices(q) PROVE x \in Indices(p)
    <3>1. PICK n \in DOMAIN q : IsChunk(q[n]) /\ x = q[n].index  BY <2>2 DEF Indices
    <3>2. n \in DOMAIN p /\ p[n] = q[n]  BY <1>1
    <3> QED  BY <3>1, <3>2 DEF Indices
  <2>3. IsChunk(f) => f.index \in Indices(p)
    <3>1. Len(q) + 1 \in DOMAIN p  BY <1>1
    <3> QED  BY <3>1, <1>1 DEF Indices
  <2> QED  BY <2>1, <2>2, <2>3
<1>3. ASSUME Once(q), IsChunk(f) => f.index \notin Indices(q) PROVE Once(p)
  <2>1. ASSUME NEW m \in DOMAIN p, NEW n \in DOMAIN p,
               IsChunk(p[m]), IsChunk(p[n]), p[m].index = p[n].index
        PROVE  m = n
    <3>1. CASE m \in DOMAIN q /\ n \in DOMAIN q  BY <3>1, <2>1, <1>1, <1>3 DEF Once
    <3>2. CASE m \in DOMAIN q /\ n \notin DOMAIN q
      BY <3>2, <2>1, <1>1, <1>3 DEF Indices
    <3>3. CASE n \in DOMAIN q /\ m \notin DOMAIN q
      BY <3>3, <2>1, <1>1, <1>3 DEF Indices
    <3>4. CASE n \notin DOMAIN q /\ m \notin DOMAIN q  BY <3>4, <1>1
    <3> QED  BY <3>1, <3>2, <3>3, <3>4
  <2> QED  BY <2>1 DEF Once
<1>4. ASSUME \A n \in DOMAIN q : q[n] # End PROVE EndIsLast(p)
  BY <1>1, <1>4 DEF EndIsLast
<1>5. \A n \in DOMAIN p : p[n] = f \/ (n \in DOMAIN q /\ p[n] = q[n])
  BY <1>1
<1> QED  BY <1>1, <1>2, <1>3, <1>4, <1>5 DEF p

LEMMA FrameRead ==
  ASSUME NEW q \in Seq(Frames), q # <<>>
  PROVE  LET p == Tail(q)
             f == Head(q)
         IN  /\ p \in Seq(Frames) /\ f \in Frames
             /\ Indices(q) = Indices(p) \cup (IF IsChunk(f) THEN {f.index} ELSE {})
             /\ Once(q) => Once(p) /\ (IsChunk(f) => f.index \notin Indices(p))
             /\ EndIsLast(q) => EndIsLast(p) /\ (f = End => p = <<>>)
             /\ \A n \in DOMAIN p : \E m \in DOMAIN q : p[n] = q[m]
<1> DEFINE p == Tail(q)
           f == Head(q)
<1>1. /\ p \in Seq(Frames) /\ f \in Frames /\ f = q[1] /\ Len(p) = Len(q) - 1
      /\ DOMAIN q = 1 .. Len(q) /\ DOMAIN p = 1 .. Len(q) - 1 /\ Len(q) \in Nat \ {0}
      /\ \A n \in 1 .. Len(q) - 1 : p[n] = q[n + 1]
  OBVIOUS
<1>2. p = <<>> <=> Len(p) = 0
  <2>1. p \in Seq(Frames)  BY <1>1
  <2> HIDE DEF p
  <2> QED  BY <2>1, EmptyHasNoLength
<1> HIDE DEF p, f
<1>3. Indices(q) = Indices(p) \cup (IF IsChunk(f) THEN {f.index} ELSE {})
  <2>1. ASSUME NEW x \in Indices(q) PROVE x \in Indices(p) \/ (IsChunk(f) /\ x = f.index)
    <3>1. PICK n \in DOMAIN q : IsChunk(q[n]) /\ x = q[n].index  BY <2>1 DEF Indices
    <3>2. CASE n = 1  BY <3>1, <3>2, <1>1
    <3>3. CASE n # 1
      <4>1. n - 1 \in DOMAIN p /\ p[n - 1] = q[n]  BY <3>3, <1>1
      <4>2. IsChunk(p[n - 1]) /\ x = p[n - 1].index  BY <4>1, <3>1
      <4> QED  BY <4>1, <4>2 DEF Indices
    <3> QED  BY <3>2, <3>3
  <2>2. ASSUME NEW x \in Indices(p) PROVE x \in Indices(q)
    <3>1. PICK n \in DOMAIN p : IsChunk(p[n]) /\ x = p[n].index  BY <2>2 DEF Indices
    <3>2. n + 1 \in DOMAIN q /\ p[n] = q[n + 1]  BY <1>1
    <3> QED  BY <3>1, <3>2 DEF Indices
  <2>3. IsChunk(f) => f.index \in Indices(q)
    <3>1. 1 \in DOMAIN q  BY <1>1
    <3> QED  BY <3>1, <1>1 DEF Indices
  <2> QED  BY <2>1, <2>2, <2>3
<1>4. ASSUME Once(q) PROVE Once(p) /\ (IsChunk(f) => f.index \notin Indices(p))
  <2>1. \A n \in DOMAIN p : n + 1 \in DOMAIN q /\ p[n] = q[n + 1] /\ n \in Nat \ {0}  BY <1>1
  <2>2. Once(p)
    <3>1. ASSUME NEW m \in DOMAIN p, NEW n \in DOMAIN p,
                 IsChunk(p[m]), IsChunk(p[n]), p[m].index = p[n].index
          PROVE  m = n
      <4>1. m + 1 = n + 1  BY <3>1, <2>1, <1>4 DEF Once
      <4> QED  BY <4>1, <2>1
    <3> QED  BY <3>1 DEF Once
  <2>3. ASSUME IsChunk(f), f.index \in Indices(p) PROVE FALSE
    <3>1. PICK n \in DOMAIN p : IsChunk(p[n]) /\ f.index = p[n].index  BY <2>3 DEF Indices
    <3>2. 1 \in DOMAIN q  BY <1>1
    <3>3. n + 1 = 1  BY <3>1, <3>2, <2>1, <2>3, <1>1, <1>4 DEF Once
    <3> QED  BY <3>3, <2>1
  <2> QED  BY <2>2, <2>3
<1>5. ASSUME EndIsLast(q) PROVE EndIsLast(p) /\ (f = End => p = <<>>)
  <2>1. EndIsLast(p)
    <3>1. ASSUME NEW n \in DOMAIN p, p[n] = End PROVE n = Len(p)
      <4>1. n + 1 \in DOMAIN q /\ q[n + 1] = End  BY <3>1, <1>1
      <4>2. n + 1 = Len(q)  BY <4>1, <1>5 DEF EndIsLast
      <4> QED  BY <4>2, <1>1
    <3> QED  BY <3>1 DEF EndIsLast
  <2>2. ASSUME f = End PROVE p = <<>>
    <3>1. 1 \in DOMAIN q  BY <1>1
    <3>2. 1 = Len(q)  BY <3>1, <2>2, <1>1, <1>5 DEF EndIsLast
    <3> QED  BY <3>2, <1>1, <1>2
  <2> QED  BY <2>1, <2>2
<1>6. ASSUME NEW n \in DOMAIN p PROVE \E m \in DOMAIN q : p[n] = q[m]
  <2>1. n + 1 \in DOMAIN q /\ p[n] = q[n + 1]  BY <1>1
  <2> QED  BY <2>1
<1> QED  BY <1>1, <1>3, <1>4, <1>5, <1>6 DEF p, f

\* Of what was on its way on a broken stream only a beginning arrives.
LEMMA FramesLost ==
  ASSUME NEW q \in Seq(Frames), NEW k \in 0 .. Len(q)
  PROVE  LET p == SubSeq(q, 1, k)
         IN  /\ p \in Seq(Frames)
             /\ Indices(p) \subseteq Indices(q)
             /\ Once(q) => Once(p)
             /\ EndIsLast(q) => EndIsLast(p)
             /\ \A n \in DOMAIN p : n \in DOMAIN q /\ p[n] = q[n]
<1> DEFINE p == SubSeq(q, 1, k)
<1>1. /\ p \in Seq(Frames) /\ Len(p) = k /\ DOMAIN q = 1 .. Len(q) /\ DOMAIN p = 1 .. k
      /\ Len(q) \in Nat /\ \A n \in 1 .. k : p[n] = q[n]
  OBVIOUS
<1> HIDE DEF p
<1>2. \A n \in DOMAIN p : n \in DOMAIN q /\ p[n] = q[n]  BY <1>1
<1>3. Indices(p) \subseteq Indices(q)  BY <1>2 DEF Indices
<1>4. Once(q) => Once(p)  BY <1>2 DEF Once
<1>5. EndIsLast(q) => EndIsLast(p)
  <2>1. ASSUME EndIsLast(q), NEW n \in DOMAIN p, p[n] = End PROVE n = Len(p)
    <3>1. n = Len(q)  BY <2>1, <1>2 DEF EndIsLast
    <3> QED  BY <3>1, <1>1
  <2> QED  BY <2>1 DEF EndIsLast
<1> QED  BY <1>1, <1>2, <1>3, <1>4, <1>5 DEF p

-----------------------------------------------------------------------------
(* The invariant of the command line client. *)

\* A connected stream is in one place on the sender's side; so when the last
\* one is accepted the receiver has connected them all.
StreamsAreCounted ==
  /\ Len(accepted) + Len(backlog) + Cardinality(handshake) = opened
  /\ \A m, n \in DOMAIN accepted : accepted[m] = accepted[n] => m = n
  /\ \A m, n \in DOMAIN backlog : backlog[m] = backlog[n] => m = n
  /\ \A m \in DOMAIN accepted : accepted[m] <= opened /\ accepted[m] \notin handshake
  /\ \A n \in DOMAIN backlog : backlog[n] <= opened /\ backlog[n] \notin handshake
  /\ \A m \in DOMAIN accepted, n \in DOMAIN backlog : accepted[m] # backlog[n]

\* The receiver connects before it reads; the sender accepts before it sends.
Phases ==
  /\ rcv = "joining" => opened = 0
  /\ rcv \in {"joining", "connecting"} => opened < NumStreams
  /\ rcv \in {"header", "receiving"} => opened = NumStreams
  /\ \A i \in Streams : rtask[i] # "idle" => opened = NumStreams
  /\ \A i \in Streams : rtask[i] # "idle" => rcv \notin {"joining", "connecting", "header"}
  /\ \A j \in Streams : stask[j] # "idle" => snd \in {"streaming", "done", "failed"}
  /\ (snd = "streaming" \/ \E j \in Streams : stask[j] # "idle") => Len(accepted) = NumStreams

\* The sending task of stream i has sent its end marker.
EndSent(i) == \E j \in Streams : accepted[j] = i /\ stask[j] = "done"

\* The end marker is the last frame of a stream, and its task has sent all its
\* chunks before; a receiving task ends after the marker or on a broken stream.
EndsAreLast ==
  /\ \A j \in Streams : stask[j] = "done" => nextChunk[j] >= TotalChunks
  /\ \A i \in Streams : EndIsLast(wire[i])
  /\ \A i \in Streams : \A n \in DOMAIN wire[i] : wire[i][n] = End => EndSent(i)
  /\ \A i \in Streams : rtask[i] = "done" => broken # {} \/ (wire[i] = <<>> /\ EndSent(i))

\* The checksum differs only if a stream broke.
MismatchMeansBroken == rcv = "mismatch" => broken # {}

CliInv ==
  /\ TypeOK /\ StreamsAreCounted /\ Phases
  /\ EachChunkOnce /\ \A i \in Streams : Once(wire[i])
  /\ EndsAreLast /\ MismatchMeansBroken

LEMMA Wires ==
  ASSUME TypeOK
  PROVE  /\ wire \in [Streams -> Seq(Frames)]
         /\ \A i \in Streams : OnWire(i) = Indices(wire[i])
BY DEF TypeOK, Frames, OnWire, Indices, IsChunk

LEMMA StreamNumbers ==
  /\ NumStreams \in Nat \ {0} /\ TotalChunks \in Nat
  /\ IsFiniteSet(Streams) /\ 1 \in Streams
  /\ \A i \in Streams : i \in Nat
BY CliTransferAssumption, FS_Interval DEF Streams

\* Each task starts with its own residue of the chunks.
LEMMA EverythingToBeSent ==
  ASSUME nextChunk = [j \in Streams |-> j - 1]
  PROVE  /\ \A i, j \in Streams : i # j => ToBeSent(i) \cap ToBeSent(j) = {}
         /\ Chunks = UNION {ToBeSent(j) : j \in Streams}
<1>1. \A x \in Chunks, j \in Streams : x \in ToBeSent(j) <=> j = (x % NumStreams) + 1
  <2>1. Chunks \subseteq Nat  BY StreamNumbers DEF Chunks
  <2> QED  BY <2>1, OneResidueEach DEF ToBeSent
<1>2. \A x \in Chunks : (x % NumStreams) + 1 \in Streams
  <2>1. Chunks \subseteq Int  BY StreamNumbers DEF Chunks
  <2> QED  BY <2>1, Division, StreamNumbers DEF Streams
<1>3. \A j \in Streams : ToBeSent(j) \subseteq Chunks  BY DEF ToBeSent
<1> QED  BY <1>1, <1>2, <1>3

LEMMA CliStarts == Init => CliInv
<1> SUFFICES ASSUME Init PROVE CliInv  OBVIOUS
<1> USE DEF Init
<1>1. TypeOK
  <2>1. nextChunk \in [Streams -> 0 .. TotalChunks + NumStreams - 1]
    BY StreamNumbers DEF Streams
  <2> QED  BY <2>1, StreamNumbers DEF TypeOK
<1>2. StreamsAreCounted  BY FS_EmptySet DEF StreamsAreCounted
<1>3. Phases  BY StreamNumbers DEF Phases
<1>4. EachChunkOnce
  <2>1. \A i \in Streams : OnWire(i) = {}  BY DEF OnWire
  <2> HIDE DEF Init
  <2> QED  BY <2>1, EverythingToBeSent DEF EachChunkOnce, Init
<1>5. \A i \in Streams : Once(wire[i])  BY DEF Once
<1>6. EndsAreLast  BY DEF EndsAreLast, EndIsLast
<1>7. MismatchMeansBroken  BY DEF MismatchMeansBroken
<1> QED  BY <1>1, <1>2, <1>3, <1>4, <1>5, <1>6, <1>7 DEF CliInv

-----------------------------------------------------------------------------
(* A step keeps the invariant, up to the streams. *)

\* What is where, when no frame moves and nothing is sent or written.
LEMMA ChunksUntouched ==
  ASSUME EachChunkOnce, UNCHANGED <<wire, nextChunk, written>>, broken' = {} => broken = {}
  PROVE  EachChunkOnce'
<1>1. /\ \A i \in Streams : OnWire(i)' = OnWire(i)
      /\ \A j \in Streams : ToBeSent(j)' = ToBeSent(j)
  BY DEF OnWire, ToBeSent
<1>2. UNION {ToBeSent(i)' \cup OnWire(i)' : i \in Streams}
        = UNION {ToBeSent(i) \cup OnWire(i) : i \in Streams}
  BY <1>1
<1> QED  BY <1>1, <1>2 DEF EachChunkOnce

LEMMA EndsUntouched ==
  ASSUME EndsAreLast, UNCHANGED <<wire, nextChunk, rtask>>, broken' = {} => broken = {},
         \A j \in Streams : stask'[j] = "done" => stask[j] = "done",
         \A i \in Streams : EndSent(i) => EndSent(i)'
  PROVE  EndsAreLast'
<1>1. \A j \in Streams : stask'[j] = "done" => nextChunk'[j] >= TotalChunks
  BY DEF EndsAreLast
<1>2. \A i \in Streams : EndIsLast(wire'[i])  BY DEF EndsAreLast
<1>3. \A i \in Streams : \A n \in DOMAIN wire'[i] : wire'[i][n] = End => EndSent(i)'
  BY DEF EndsAreLast
<1>4. \A i \in Streams :
        rtask'[i] = "done" => broken' # {} \/ (wire'[i] = <<>> /\ EndSent(i)')
  BY DEF EndsAreLast
<1> QED  BY <1>1, <1>2, <1>3, <1>4 DEF EndsAreLast

\* The main tasks before and between the streams, and the loss of signaling.
MainTask == \/ SendConnectInfo \/ SendReady \/ GetReady \/ ConnectFails
            \/ SenderLosesSignaling \/ ReceiverLosesSignaling

LEMMA MainTaskKeeps ==
  ASSUME CliInv, MainTask  PROVE CliInv'
<1> USE DEF CliInv
<1>1. /\ UNCHANGED <<tcpVars, wire, taskVars, written, silent>>
      /\ broken' = broken \/ broken' = 1 .. opened
      /\ snd \in {"joining", "waiting"} \/ snd' = snd
      /\ snd' # "streaming" \/ snd' = snd
      /\ rcv \in {"joining", "connecting"} \/ rcv' = rcv
      /\ rcv' \in {"joining", "connecting"} => rcv \in {"joining", "connecting"}
      /\ rcv' = "joining" => rcv = "joining"
      /\ rcv' = "mismatch" => rcv = "mismatch"
      /\ rcv' \in {"header", "receiving"} => rcv \in {"header", "receiving"}
  BY DEF MainTask, SendConnectInfo, SendReady, GetReady, ConnectFails,
         SenderLosesSignaling, ReceiverLosesSignaling
<1>2. TypeOK'
  <2>1. /\ snd' \in {"joining", "waiting", "spinning", "accepting", "streaming", "done", "failed"}
        /\ rcv' \in {"joining", "spinning", "connecting", "header", "receiving",
                     "ok", "mismatch", "failed"}
        /\ signals' \subseteq {"peer-joined", "connect-info", "ready"}
    BY DEF TypeOK, MainTask, SendConnectInfo, SendReady, GetReady, ConnectFails,
           SenderLosesSignaling, ReceiverLosesSignaling
  <2>2. broken' \subseteq 1 .. opened /\ silent' \subseteq broken'  BY <1>1 DEF TypeOK
  <2> QED  BY <1>1, <2>1, <2>2 DEF TypeOK, tcpVars, taskVars
<1>3. broken' = {} => broken = {}  BY <1>1 DEF TypeOK
<1>4. StreamsAreCounted'  BY <1>1 DEF StreamsAreCounted, tcpVars
<1>5. Phases'
  BY <1>1 DEF Phases, tcpVars, taskVars
<1>6. EachChunkOnce'  BY <1>1, <1>3, ChunksUntouched DEF taskVars
<1>7. \A i \in Streams : Once(wire'[i])  BY <1>1
<1>8. EndsAreLast'
  <2>1. \A i \in Streams : EndSent(i)' = EndSent(i)  BY <1>1 DEF EndSent, tcpVars, taskVars
  <2> QED  BY <1>1, <1>3, <2>1, EndsUntouched DEF taskVars
<1>9. MismatchMeansBroken'  BY <1>1, <1>3 DEF MismatchMeansBroken
<1> QED  BY <1>2, <1>4, <1>5, <1>6, <1>7, <1>8, <1>9

LEMMA ConnectKeeps ==
  ASSUME CliInv, Connect  PROVE CliInv'
<1> USE DEF CliInv, Connect, tcpVars, taskVars
<1>0. /\ opened \in Nat /\ opened < NumStreams /\ rcv = "connecting"
      /\ opened' = opened + 1 /\ handshake' = handshake \cup {opened + 1}
      /\ handshake \subseteq 1 .. opened /\ IsFiniteSet(handshake)
  <2>1. opened \in Nat /\ opened < NumStreams /\ handshake \subseteq 1 .. opened
    BY DEF TypeOK, Phases
  <2>2. IsFiniteSet(1 .. opened)  BY <2>1, FS_Interval
  <2> QED  BY <2>1, <2>2, FS_Subset
<1>1. TypeOK'
  <2>1. 1 .. opened \subseteq 1 .. opened'  BY <1>0
  <2>2. opened' \in 0 .. NumStreams /\ handshake' \subseteq 1 .. opened'
    BY <1>0, <2>1, StreamNumbers
  <2>3. broken' \subseteq 1 .. opened'  BY <2>1 DEF TypeOK
  <2>4. rcv' \in {"connecting", "header"}  OBVIOUS
  <2> QED  BY <2>2, <2>3, <2>4 DEF TypeOK
<1>2. StreamsAreCounted'
  <2>1. Cardinality(handshake') = Cardinality(handshake) + 1  BY <1>0, FS_AddElement
  <2>2. Cardinality(handshake) \in Nat  BY <1>0, FS_CardinalityType
  <2>3. Len(accepted) \in Nat /\ Len(backlog) \in Nat  BY DEF TypeOK
  <2>4. /\ \A m \in DOMAIN accepted : accepted[m] \in Nat
        /\ \A n \in DOMAIN backlog : backlog[n] \in Nat
    BY StreamNumbers DEF TypeOK
  <2> QED  BY <1>0, <2>1, <2>2, <2>3, <2>4 DEF StreamsAreCounted
<1>3. Phases'  BY <1>0, StreamNumbers DEF Phases
<1>4. EachChunkOnce'  BY ChunksUntouched
<1>5. EndsAreLast'
  <2>1. \A i \in Streams : EndSent(i)' = EndSent(i)  BY DEF EndSent
  <2> QED  BY <2>1, EndsUntouched
<1>6. MismatchMeansBroken'  BY DEF MismatchMeansBroken
<1> QED  BY <1>1, <1>2, <1>3, <1>4, <1>5, <1>6

LEMMA EstablishKeeps ==
  ASSUME CliInv, NEW i \in Streams, Establish(i)  PROVE CliInv'
<1> USE DEF CliInv, Establish, tcpVars, taskVars
<1>0. /\ opened \in Nat /\ i \in handshake /\ handshake' = handshake \ {i}
      /\ handshake \subseteq 1 .. opened /\ IsFiniteSet(handshake)
      /\ backlog \in Seq(Streams)
  <2>1. opened \in Nat /\ handshake \subseteq 1 .. opened /\ backlog \in Seq(Streams)
    BY DEF TypeOK
  <2>2. IsFiniteSet(1 .. opened)  BY <2>1, FS_Interval
  <2> QED  BY <2>1, <2>2, FS_Subset
<1>1. TypeOK'
  <2>1. backlog' \in Seq(Streams) /\ handshake' \subseteq 1 .. opened  BY <1>0
  <2> QED  BY <2>1 DEF TypeOK
<1>2. StreamsAreCounted'
  <2>1. Cardinality(handshake') = Cardinality(handshake) - 1  BY <1>0, FS_RemoveElement
  <2>2. Cardinality(handshake) \in Nat  BY <1>0, FS_CardinalityType
  <2>3. Len(accepted) \in Nat  BY DEF TypeOK
  <2>4. /\ Len(backlog') = Len(backlog) + 1 /\ Len(backlog) \in Nat
        /\ DOMAIN backlog' = 1 .. Len(backlog) + 1 /\ DOMAIN backlog = 1 .. Len(backlog)
        /\ backlog'[Len(backlog) + 1] = i
        /\ \A n \in DOMAIN backlog : backlog'[n] = backlog[n]
    BY <1>0
  <2>5. i <= opened /\ i \in Nat  BY <1>0, StreamNumbers
  <2>6. \A n \in DOMAIN backlog' :
          n \in DOMAIN backlog \/ n = Len(backlog) + 1
    BY <2>4
  <2>7. \A m, n \in DOMAIN backlog' : backlog'[m] = backlog'[n] => m = n
    BY <1>0, <2>4, <2>6 DEF StreamsAreCounted
  <2>8. \A n \in DOMAIN backlog' : backlog'[n] <= opened /\ backlog'[n] \notin handshake'
    BY <1>0, <2>4, <2>5, <2>6 DEF StreamsAreCounted
  <2>9. \A m \in DOMAIN accepted, n \in DOMAIN backlog' : accepted[m] # backlog'[n]
    BY <1>0, <2>4, <2>6 DEF StreamsAreCounted
  <2>10. Len(accepted) + Len(backlog') + Cardinality(handshake') = opened
    BY <2>1, <2>2, <2>3, <2>4 DEF StreamsAreCounted
  <2> QED  BY <1>0, <2>7, <2>8, <2>9, <2>10 DEF StreamsAreCounted
<1>3. Phases'  BY DEF Phases
<1>4. EachChunkOnce'  BY ChunksUntouched
<1>5. EndsAreLast'
  <2>1. \A k \in Streams : EndSent(k)' = EndSent(k)  BY DEF EndSent
  <2> QED  BY <2>1, EndsUntouched
<1>6. MismatchMeansBroken'  BY DEF MismatchMeansBroken
<1> QED  BY <1>1, <1>2, <1>3, <1>4, <1>5, <1>6

-----------------------------------------------------------------------------
(* A step keeps the invariant, from the streams on. *)

LEMMA HandshakesAreFinite ==
  ASSUME TypeOK
  PROVE  IsFiniteSet(handshake) /\ Cardinality(handshake) \in Nat
<1>1. opened \in Nat /\ handshake \in SUBSET (1 .. opened)  BY StreamNumbers DEF TypeOK
<1>2. IsFiniteSet(1 .. opened)  BY <1>1, FS_Interval
<1>3. IsFiniteSet(handshake)  BY <1>1, <1>2, FS_Subset
<1> QED  BY <1>3, FS_CardinalityType

LEMMA AllAccepted ==
  ASSUME TypeOK, StreamsAreCounted, Len(accepted) = NumStreams
  PROVE  /\ opened = NumStreams /\ DOMAIN accepted = Streams
         /\ \A j \in Streams : accepted[j] \in Streams
         /\ \A i, j \in Streams : accepted[i] = accepted[j] => i = j
<1>1. /\ opened \in Nat /\ opened <= NumStreams /\ handshake \subseteq 1 .. opened
      /\ accepted \in Seq(Streams) /\ Len(backlog) \in Nat
  BY StreamNumbers DEF TypeOK
<1>2. opened = NumStreams  BY <1>1, HandshakesAreFinite, StreamNumbers DEF StreamsAreCounted
<1>3. DOMAIN accepted = Streams  BY <1>1 DEF Streams
<1> QED  BY <1>1, <1>2, <1>3 DEF StreamsAreCounted

\* One stream's frames change.
LEMMA OneWireChanges ==
  ASSUME TypeOK, NEW s \in Streams, NEW q \in Seq(Frames), wire' = [wire EXCEPT ![s] = q]
  PROVE  /\ wire' \in [Streams -> Seq(Frames)] /\ wire'[s] = q
         /\ \A i \in Streams \ {s} : wire'[i] = wire[i] /\ OnWire(i)' = OnWire(i)
         /\ OnWire(s)' = Indices(q) /\ OnWire(s) = Indices(wire[s])
<1>1. /\ wire' \in [Streams -> Seq(Frames)] /\ wire'[s] = q
      /\ \A i \in Streams \ {s} : wire'[i] = wire[i]
  BY Wires
<1>2. \A i \in Streams \ {s} : OnWire(i)' = OnWire(i)  BY <1>1 DEF OnWire
<1>3. OnWire(s)' = Indices(q)  BY <1>1 DEF OnWire, Indices, IsChunk
<1> QED  BY <1>1, <1>2, <1>3, Wires

\* accept(): the front of the backlog becomes the sender's next stream.
LEMMA AcceptedIsCounted ==
  ASSUME TypeOK, StreamsAreCounted, Accept
  PROVE  /\ StreamsAreCounted'
         /\ accepted' \in Seq(Streams) /\ backlog' \in Seq(Streams)
         /\ Len(accepted') = Len(accepted) + 1
<1>1. /\ accepted \in Seq(Streams) /\ backlog \in Seq(Streams) /\ backlog # <<>>
      /\ accepted' = Append(accepted, Head(backlog)) /\ backlog' = Tail(backlog)
      /\ UNCHANGED <<opened, handshake>>
      /\ opened \in Nat /\ handshake \subseteq 1 .. opened
  BY DEF TypeOK, Accept
<1>2. /\ Len(backlog') = Len(backlog) - 1 /\ Len(backlog) \in Nat \ {0}
      /\ DOMAIN backlog = 1 .. Len(backlog) /\ DOMAIN backlog' = 1 .. Len(backlog) - 1
      /\ Head(backlog) = backlog[1] /\ backlog' \in Seq(Streams) /\ 1 \in DOMAIN backlog
      /\ \A n \in DOMAIN backlog' : n + 1 \in DOMAIN backlog /\ backlog'[n] = backlog[n + 1]
                                    /\ n \in Nat \ {0}
  BY <1>1
<1>3. /\ Len(accepted') = Len(accepted) + 1 /\ Len(accepted) \in Nat
      /\ accepted' \in Seq(Streams)
      /\ DOMAIN accepted' = 1 .. Len(accepted) + 1 /\ DOMAIN accepted = 1 .. Len(accepted)
      /\ accepted'[Len(accepted) + 1] = backlog[1]
      /\ \A n \in DOMAIN accepted : accepted'[n] = accepted[n]
  BY <1>1, <1>2
<1>4. \A n \in DOMAIN accepted' : n \in DOMAIN accepted \/ n = Len(accepted) + 1  BY <1>3
<1>5. \A m, n \in DOMAIN accepted' : accepted'[m] = accepted'[n] => m = n
  BY <1>2, <1>3, <1>4 DEF StreamsAreCounted
<1>6. \A m, n \in DOMAIN backlog' : backlog'[m] = backlog'[n] => m = n
  <2>1. ASSUME NEW m \in DOMAIN backlog', NEW n \in DOMAIN backlog',
               backlog'[m] = backlog'[n]
        PROVE  m = n
    <3>1. m + 1 = n + 1  BY <2>1, <1>2 DEF StreamsAreCounted
    <3> QED  BY <3>1, <1>2
  <2> QED  BY <2>1
<1>7. \A m \in DOMAIN accepted' : accepted'[m] <= opened /\ accepted'[m] \notin handshake
  BY <1>2, <1>3, <1>4 DEF StreamsAreCounted
<1>8. \A n \in DOMAIN backlog' : backlog'[n] <= opened /\ backlog'[n] \notin handshake
  BY <1>2 DEF StreamsAreCounted
<1>9. \A m \in DOMAIN accepted', n \in DOMAIN backlog' : accepted'[m] # backlog'[n]
  <2>1. ASSUME NEW n \in DOMAIN backlog' PROVE backlog'[n] # backlog[1]
    <3>1. n + 1 # 1  BY <1>2
    <3> QED  BY <3>1, <1>2 DEF StreamsAreCounted
  <2> QED  BY <2>1, <1>2, <1>3, <1>4 DEF StreamsAreCounted
<1>10. Len(accepted') + Len(backlog') + Cardinality(handshake') = opened
  <2>1. Cardinality(handshake) \in Nat  BY HandshakesAreFinite
  <2> QED  BY <2>1, <1>1, <1>2, <1>3 DEF StreamsAreCounted
<1>11. StreamsAreCounted'  BY <1>1, <1>5, <1>6, <1>7, <1>8, <1>9, <1>10 DEF StreamsAreCounted
<1> QED  BY <1>11, <1>2, <1>3

LEMMA AcceptKeeps ==
  ASSUME CliInv, Accept  PROVE CliInv'
<1> USE DEF CliInv
<1>1. /\ StreamsAreCounted' /\ accepted' \in Seq(Streams) /\ backlog' \in Seq(Streams)
      /\ Len(accepted') = Len(accepted) + 1
  BY AcceptedIsCounted
<1>2. /\ snd = "accepting" /\ UNCHANGED <<rcv, signals, opened, handshake, nextChunk, rtask, written, silent>>
      /\ \A j \in Streams : stask[j] = "idle"
  BY DEF Accept, Phases, TypeOK
<1>3. \A i \in Streams : ~EndSent(i)  BY <1>2 DEF EndSent
<1>4. CASE Len(accepted') < NumStreams /\ UNCHANGED <<snd, wire, broken, stask>>
  <2>1. TypeOK'  BY <1>1, <1>2, <1>4 DEF TypeOK
  <2>2. Phases'  BY <1>2, <1>4 DEF Phases
  <2>3. EachChunkOnce'  BY <1>2, <1>4, ChunksUntouched
  <2>4. EndsAreLast'  BY <1>2, <1>3, <1>4, EndsUntouched
  <2>5. MismatchMeansBroken'  BY <1>2, <1>4 DEF MismatchMeansBroken
  <2>6. \A i \in Streams : Once(wire'[i])  BY <1>4
  <2> QED  BY <1>1, <2>1, <2>2, <2>3, <2>4, <2>5, <2>6
<1>5. CASE /\ Len(accepted') = NumStreams /\ accepted'[1] \notin broken
           /\ wire' = [wire EXCEPT ![accepted'[1]] = Append(@, Header)]
           /\ stask' = [j \in Streams |-> "running"]
           /\ snd' = "streaming" /\ broken' = broken
  <2>1. PICK s \in Streams : s = accepted'[1]  BY <1>1, <1>5, StreamNumbers
  <2>2. wire[s] \in Seq(Frames) /\ Header \in Frames  BY <2>1, Wires DEF Frames
  <2> DEFINE q == Append(wire[s], Header)
  <2>3. wire' = [wire EXCEPT ![s] = q] /\ q = Append(wire[s], Header)  BY <1>5, <2>1
  <2> HIDE DEF q
  <2>4. /\ q \in Seq(Frames) /\ Indices(q) = Indices(wire[s]) /\ Once(q)
        /\ EndIsLast(q)
        /\ \A n \in DOMAIN q : q[n] # End
    <3>1. \A n \in DOMAIN wire[s] : wire[s][n] # End  BY <2>1, <1>3 DEF EndsAreLast
    <3>2. Once(wire[s]) /\ ~IsChunk(Header) /\ Header # End  BY <2>1, FrameTypes
    <3>3. /\ q \in Seq(Frames)
          /\ Indices(q) = Indices(wire[s]) \cup (IF IsChunk(Header) THEN {Header.index} ELSE {})
          /\ Once(wire[s]) /\ (IsChunk(Header) => Header.index \notin Indices(wire[s])) => Once(q)
          /\ (\A n \in DOMAIN wire[s] : wire[s][n] # End) => EndIsLast(q)
          /\ \A n \in DOMAIN q : q[n] = Header \/ (n \in DOMAIN wire[s] /\ q[n] = wire[s][n])
      BY <2>2, <2>3, FrameSent
    <3> QED  BY <3>1, <3>2, <3>3
  <2>5. /\ wire' \in [Streams -> Seq(Frames)] /\ wire'[s] = q
        /\ \A i \in Streams \ {s} : wire'[i] = wire[i]
        /\ \A i \in Streams : OnWire(i)' = OnWire(i)
    <3>1. /\ wire' \in [Streams -> Seq(Frames)] /\ wire'[s] = q
          /\ \A i \in Streams \ {s} : wire'[i] = wire[i] /\ OnWire(i)' = OnWire(i)
          /\ OnWire(s)' = Indices(q) /\ OnWire(s) = Indices(wire[s])
      BY <2>1, <2>3, <2>4, OneWireChanges
    <3> QED  BY <3>1, <2>4
  <2>6. TypeOK'  BY <1>1, <1>2, <1>5, <2>5 DEF TypeOK, Frames
  <2>7. Phases'  BY <1>2, <1>5 DEF Phases
  <2>8. EachChunkOnce'
    <3>1. \A j \in Streams : ToBeSent(j)' = ToBeSent(j)  BY <1>2 DEF ToBeSent
    <3>2. UNION {ToBeSent(i)' \cup OnWire(i)' : i \in Streams}
            = UNION {ToBeSent(i) \cup OnWire(i) : i \in Streams}
      BY <3>1, <2>5
    <3> QED  BY <1>2, <1>5, <2>5, <3>1, <3>2 DEF EachChunkOnce
  <2>9. \A i \in Streams : Once(wire'[i])  BY <2>4, <2>5
  <2>10. EndsAreLast'
    <3>1. \A i \in Streams : EndIsLast(wire'[i])  BY <2>4, <2>5 DEF EndsAreLast
    <3>2. \A i \in Streams : \A n \in DOMAIN wire'[i] : wire'[i][n] # End
      BY <2>4, <2>5, <1>3 DEF EndsAreLast
    <3>3. \A i \in Streams : rtask'[i] = "done" => broken' # {}
      BY <1>2, <1>3, <1>5 DEF EndsAreLast
    <3> QED  BY <1>5, <3>1, <3>2, <3>3 DEF EndsAreLast
  <2>11. MismatchMeansBroken'  BY <1>2, <1>5 DEF MismatchMeansBroken
  <2> QED  BY <1>1, <2>6, <2>7, <2>8, <2>9, <2>10, <2>11
<1>6. CASE /\ Len(accepted') = NumStreams
           /\ snd' = "failed" /\ broken' = Streams /\ UNCHANGED <<wire, stask>>
  <2>0. silent' \subseteq broken'
    <3>1. silent \subseteq 1 .. opened /\ opened \in 0 .. NumStreams  BY DEF TypeOK
    <3> QED  BY <3>1, <1>2, <1>6, StreamNumbers DEF Streams
  <2>1. opened = NumStreams
    <3>1. StreamsAreCounted'  BY <1>1
    <3>2. Cardinality(handshake) \in Nat  BY HandshakesAreFinite
    <3>3. Len(backlog') \in Nat /\ opened \in 0 .. NumStreams /\ NumStreams \in Nat
      BY <1>1, StreamNumbers DEF TypeOK
    <3> QED  BY <3>1, <3>2, <3>3, <1>2, <1>6 DEF StreamsAreCounted
  <2>2. broken' # {}  BY <1>6, StreamNumbers
  <2>3. TypeOK'  BY <1>1, <1>2, <1>6, <2>0, <2>1 DEF TypeOK, Streams
  <2>4. Phases'  BY <1>2, <1>6 DEF Phases
  <2>5. EachChunkOnce'  BY <1>2, <1>6, <2>2, ChunksUntouched
  <2>6. EndsAreLast'  BY <1>2, <1>3, <1>6, <2>2, EndsUntouched
  <2>7. MismatchMeansBroken'  BY <2>2 DEF MismatchMeansBroken
  <2>8. \A i \in Streams : Once(wire'[i])  BY <1>6
  <2> QED  BY <1>1, <2>3, <2>4, <2>5, <2>6, <2>7, <2>8
\* The kernel takes the header for a first stream that is broken.
<1>7. CASE /\ Len(accepted') = NumStreams /\ accepted'[1] \in broken
           /\ stask' = [j \in Streams |-> "running"]
           /\ snd' = "streaming" /\ UNCHANGED <<wire, broken>>
  <2>1. TypeOK'  BY <1>1, <1>2, <1>7 DEF TypeOK
  <2>2. Phases'  BY <1>2, <1>7 DEF Phases
  <2>3. EachChunkOnce'  BY <1>2, <1>7, ChunksUntouched
  <2>4. EndsAreLast'
    <3>1. \A j \in Streams : stask'[j] # "done"  BY <1>7
    <3> QED  BY <1>2, <1>3, <1>7, <3>1, EndsUntouched
  <2>5. MismatchMeansBroken'  BY <1>2, <1>7 DEF MismatchMeansBroken
  <2>6. \A i \in Streams : Once(wire'[i])  BY <1>7
  <2> QED  BY <1>1, <2>1, <2>2, <2>3, <2>4, <2>5, <2>6
<1> QED
  <2>1. CASE /\ Len(accepted') = NumStreams
             /\ wire' = Put(accepted'[1], Header)
             /\ stask' = [j \in Streams |-> "running"]
             /\ snd' = "streaming" /\ broken' = broken
    <3>1. PICK s : s = accepted'[1]  OBVIOUS
    <3>2. wire' = Put(s, Header)  BY <2>1, <3>1
    <3>3. CASE s \in broken
      <4>1. wire' = wire  BY <3>2, <3>3 DEF Put
      <4> QED  BY <4>1, <3>1, <3>3, <2>1, <1>7
    <3>4. CASE s \notin broken
      <4>1. wire' = [wire EXCEPT ![s] = Append(@, Header)]  BY <3>2, <3>4 DEF Put
      <4> QED  BY <4>1, <3>1, <3>4, <2>1, <1>5
    <3> QED  BY <3>3, <3>4
  <2> QED  BY <2>1, <1>4, <1>6 DEF Accept

\* A running task has its own stream.
LEMMA RunningTask ==
  ASSUME CliInv, NEW j \in Streams, stask[j] # "idle"
  PROVE  /\ accepted[j] \in Streams /\ Len(accepted) = NumStreams
         /\ \A i \in Streams : accepted[i] = accepted[j] => i = j
         /\ stask[j] = "running" => ~EndSent(accepted[j])
<1>1. Len(accepted) = NumStreams  BY DEF CliInv, Phases
<1> QED  BY <1>1, AllAccepted DEF CliInv, EndSent

\* A chunk on a stream that is not broken.
LEMMA SendChunkArrives ==
  ASSUME CliInv, NEW j \in Streams, SendChunk(j), accepted[j] \notin broken  PROVE CliInv'
<1> USE DEF CliInv
<1> DEFINE k == nextChunk[j]
<1>1. /\ stask[j] = "running" /\ k < TotalChunks /\ k \in Nat /\ k \in Chunks
      /\ nextChunk' = [nextChunk EXCEPT ![j] = k + NumStreams]
      /\ UNCHANGED <<snd, rcv, signals, tcpVars, broken, stask, rtask, written, silent>>
  BY StreamNumbers DEF SendChunk, Stride, TypeOK, Chunks
<1>2. PICK s \in Streams : s = accepted[j]  BY <1>1, RunningTask
<1> DEFINE q == Append(wire[s], Chunk(k))
<1>3. /\ wire[s] \in Seq(Frames) /\ Chunk(k) \in Frames /\ IsChunk(Chunk(k))
      /\ Chunk(k).index = k /\ Chunk(k) # End
  BY <1>1, <1>2, Wires, FrameTypes DEF Frames
<1>4. wire' = [wire EXCEPT ![s] = q]  BY <1>2 DEF SendChunk, Put
<1>5. k \in ToBeSent(j)  BY <1>1, StreamNumbers DEF ToBeSent
<1>6. k \notin Indices(wire[s])
  <2>1. OnWire(s) = Indices(wire[s])  BY <1>2, Wires
  <2> QED  BY <1>5, <1>2, <2>1 DEF EachChunkOnce
<1> HIDE DEF k
<1>7. /\ q \in Seq(Frames)
      /\ Indices(q) = Indices(wire[s]) \cup {k}
      /\ Once(q)
      /\ (\A n \in DOMAIN wire[s] : wire[s][n] # End) => EndIsLast(q)
      /\ \A n \in DOMAIN q : q[n] = Chunk(k) \/ (n \in DOMAIN wire[s] /\ q[n] = wire[s][n])
  <2>1. Once(wire[s])  BY <1>2
  <2> QED  BY <2>1, <1>3, <1>6, FrameSent
<1> HIDE DEF q
<1>8. /\ wire' \in [Streams -> Seq(Frames)] /\ wire'[s] = q
      /\ \A i \in Streams \ {s} : wire'[i] = wire[i] /\ OnWire(i)' = OnWire(i)
      /\ OnWire(s)' = OnWire(s) \cup {k}
  BY <1>2, <1>4, <1>7, OneWireChanges
<1>9. /\ \A i \in Streams \ {j} : ToBeSent(i)' = ToBeSent(i)
      /\ ToBeSent(j)' = ToBeSent(j) \ {k}
  <2>1. nextChunk'[j] = k + NumStreams /\ \A i \in Streams \ {j} : nextChunk'[i] = nextChunk[i]
    BY <1>1 DEF TypeOK
  <2>2. Chunks \subseteq Nat  BY StreamNumbers DEF Chunks
  <2>3. \A x \in Chunks : x \in ToBeSent(j)' <=> x \in ToBeSent(j) /\ x # k
    BY <1>1, <2>1, <2>2, StrideGoesOn DEF ToBeSent, k
  <2>4. ToBeSent(j)' \subseteq Chunks /\ ToBeSent(j) \subseteq Chunks  BY DEF ToBeSent
  <2> QED  BY <2>1, <2>3, <2>4 DEF ToBeSent
<1>10. TypeOK'
  <2>1. nextChunk' \in [Streams -> 0 .. TotalChunks + NumStreams - 1]
    <3>1. k + NumStreams \in 0 .. TotalChunks + NumStreams - 1  BY <1>1, StreamNumbers
    <3> QED  BY <3>1, <1>1 DEF TypeOK
  <2>2. UNCHANGED <<opened, handshake, backlog, accepted>>  BY <1>1 DEF tcpVars
  <2> QED  BY <1>1, <1>8, <2>1, <2>2 DEF TypeOK, Frames
<1>11. StreamsAreCounted' /\ Phases'  BY <1>1 DEF StreamsAreCounted, Phases, tcpVars
<1>12. EachChunkOnce'
  <2>1. /\ \A i, m \in Streams : i # m => ToBeSent(i)' \cap ToBeSent(m)' = {}
    BY <1>9 DEF EachChunkOnce
  <2>2. \A i, m \in Streams : i # m => OnWire(i)' \cap OnWire(m)' = {}
    <3>1. \A i \in Streams : k \notin OnWire(i)  BY <1>5 DEF EachChunkOnce
    <3>2. \A i, m \in Streams : i # m => OnWire(i) \cap OnWire(m) = {}  BY DEF EachChunkOnce
    <3>3. ASSUME NEW i \in Streams, NEW m \in Streams, i # m
          PROVE  OnWire(i)' \cap OnWire(m)' = {}
      <4>1. CASE i # s /\ m # s  BY <4>1, <3>2, <3>3, <1>8
      <4>2. CASE i = s  BY <4>2, <3>1, <3>2, <3>3, <1>8
      <4>3. CASE m = s  BY <4>3, <3>1, <3>2, <3>3, <1>8
      <4> QED  BY <4>1, <4>2, <4>3
    <3> QED  BY <3>3
  <2>3. \A i, m \in Streams : ToBeSent(i)' \cap OnWire(m)' = {}
    BY <1>5, <1>8, <1>9 DEF EachChunkOnce
  <2>4. \A i \in Streams : (ToBeSent(i)' \cup OnWire(i)') \cap written' = {}
    BY <1>1, <1>5, <1>8, <1>9 DEF EachChunkOnce
  <2>5. ASSUME NEW i \in Streams, NEW x \in ToBeSent(i) \cup OnWire(i)
        PROVE  \E m \in Streams : x \in ToBeSent(m)' \cup OnWire(m)'
    <3>1. CASE x = k  BY <3>1, <1>8
    <3>2. CASE x # k  BY <3>2, <2>5, <1>8, <1>9
    <3> QED  BY <3>1, <3>2
  <2>6. broken' = {} =>
          Chunks = written' \cup UNION {ToBeSent(i)' \cup OnWire(i)' : i \in Streams}
    <3>1. \A i \in Streams : ToBeSent(i)' \cup OnWire(i)' \subseteq Chunks
      <4>1. \A i \in Streams : ToBeSent(i) \subseteq Chunks  BY DEF ToBeSent
      <4>2. \A i \in Streams : OnWire(i) \subseteq Chunks  BY Wires, FrameTypes DEF Indices
      <4> QED  BY <4>1, <4>2, <1>1, <1>8, <1>9
    <3>2. broken' = {} => broken = {}  BY <1>1
    <3>3. written' = written /\ written \subseteq Chunks  BY <1>1 DEF TypeOK
    <3>4. ASSUME broken' = {}, NEW x \in Chunks
          PROVE  x \in written' \/ \E m \in Streams : x \in ToBeSent(m)' \cup OnWire(m)'
      <4>1. x \in written \/ \E i \in Streams : x \in ToBeSent(i) \cup OnWire(i)
        BY <3>2, <3>4 DEF EachChunkOnce
      <4> QED  BY <4>1, <3>3, <2>5
    <3> QED  BY <3>1, <3>3, <3>4
  <2> QED  BY <1>1, <2>1, <2>2, <2>3, <2>4, <2>5, <2>6 DEF EachChunkOnce
<1>13. \A i \in Streams : Once(wire'[i])  BY <1>7, <1>8
<1>14. EndsAreLast'
  <2>1. \A i \in Streams : EndSent(i)' = EndSent(i)  BY <1>1 DEF EndSent, tcpVars
  <2>2. ~EndSent(s)  BY <1>1, <1>2, RunningTask
  <2>3. \A n \in DOMAIN wire[s] : wire[s][n] # End  BY <2>2 DEF EndsAreLast
  <2>4. \A i \in Streams : EndIsLast(wire'[i])  BY <2>3, <1>7, <1>8 DEF EndsAreLast
  <2>5. \A i \in Streams : \A n \in DOMAIN wire'[i] : wire'[i][n] = End => EndSent(i)'
    BY <2>1, <2>3, <1>3, <1>7, <1>8 DEF EndsAreLast
  <2>6. \A i \in Streams : stask'[i] = "done" => nextChunk'[i] >= TotalChunks
    BY <1>1 DEF EndsAreLast, TypeOK
  <2>7. \A i \in Streams :
          rtask'[i] = "done" => broken' # {} \/ (wire'[i] = <<>> /\ EndSent(i)')
    BY <2>1, <2>2, <1>1, <1>8 DEF EndsAreLast
  <2> QED  BY <2>4, <2>5, <2>6, <2>7 DEF EndsAreLast
<1>15. MismatchMeansBroken'  BY <1>1 DEF MismatchMeansBroken
<1> QED  BY <1>10, <1>11, <1>12, <1>13, <1>14, <1>15

\* A write that is taken for nothing, of a chunk or of the end marker.
LEMMA WriteToBrokenKeeps ==
  ASSUME CliInv, NEW j \in Streams, SendChunk(j) \/ SendEnd(j), accepted[j] \in broken
  PROVE  CliInv'
<1> USE DEF CliInv
<1>1. /\ UNCHANGED <<snd, rcv, signals, tcpVars, wire, broken, rtask, written, silent>>
      /\ broken # {} /\ stask[j] = "running"
  BY DEF SendChunk, SendEnd, Put
<1>2. UNCHANGED <<opened, handshake, backlog, accepted>>  BY <1>1 DEF tcpVars
<1>3. /\ nextChunk' \in [Streams -> 0 .. TotalChunks + NumStreams - 1]
      /\ \A i \in Streams : ToBeSent(i)' \subseteq ToBeSent(i)
      /\ stask' \in [Streams -> {"idle", "running", "done", "panicked"}]
      /\ \A i \in Streams : stask'[i] # "idle" => stask[i] # "idle"
      /\ \A i \in Streams : stask'[i] = "done" => nextChunk'[i] >= TotalChunks
      /\ \A i \in Streams : stask[i] = "done" => stask'[i] = "done"
  <2>1. CASE SendEnd(j)
    <3>1. /\ nextChunk' = nextChunk /\ stask' = [stask EXCEPT ![j] = "done"]
          /\ nextChunk[j] >= TotalChunks
      BY <2>1 DEF SendEnd
    <3>2. \A i \in Streams : ToBeSent(i)' = ToBeSent(i)  BY <3>1 DEF ToBeSent
    <3>3. /\ stask' \in [Streams -> {"idle", "running", "done", "panicked"}]
          /\ stask'[j] = "done" /\ \A i \in Streams \ {j} : stask'[i] = stask[i]
      BY <3>1 DEF TypeOK
    <3>4. nextChunk \in [Streams -> 0 .. TotalChunks + NumStreams - 1]  BY DEF TypeOK
    <3>5. \A i \in Streams : stask'[i] = "done" => nextChunk[i] >= TotalChunks
      BY <3>1, <3>3 DEF EndsAreLast
    <3> QED  BY <3>1, <3>2, <3>3, <3>4, <3>5, <1>1
  <2>2. CASE SendChunk(j)
    <3> DEFINE k == nextChunk[j]
    <3>1. /\ stask' = stask /\ k < TotalChunks /\ k \in Nat
          /\ nextChunk' = [nextChunk EXCEPT ![j] = k + NumStreams]
          /\ nextChunk \in [Streams -> 0 .. TotalChunks + NumStreams - 1]
      BY <2>2, StreamNumbers DEF SendChunk, Stride, TypeOK
    <3>2. nextChunk'[j] = k + NumStreams /\ \A i \in Streams \ {j} : nextChunk'[i] = nextChunk[i]
      BY <3>1
    <3>3. k + NumStreams \in 0 .. TotalChunks + NumStreams - 1  BY <3>1, StreamNumbers
    <3>4. ToBeSent(j)' \subseteq ToBeSent(j)
      <4>1. Chunks \subseteq Nat  BY StreamNumbers DEF Chunks
      <4>2. \A x \in Chunks : x \in ToBeSent(j)' => x \in ToBeSent(j)
        BY <4>1, <3>1, <3>2, StrideGoesOn DEF ToBeSent
      <4>3. ToBeSent(j)' \subseteq Chunks  BY DEF ToBeSent
      <4> QED  BY <4>2, <4>3
    <3>5. \A i \in Streams \ {j} : ToBeSent(i)' = ToBeSent(i)  BY <3>2 DEF ToBeSent
    <3>6. nextChunk' \in [Streams -> 0 .. TotalChunks + NumStreams - 1]  BY <3>1, <3>3
    <3>7. \A i \in Streams : stask[i] = "done" => nextChunk'[i] >= TotalChunks
      <4>1. \A i \in Streams \ {j} : stask[i] = "done" => nextChunk'[i] >= TotalChunks
        BY <3>2 DEF EndsAreLast
      <4> QED  BY <4>1, <1>1
    <3>8. stask \in [Streams -> {"idle", "running", "done", "panicked"}]  BY DEF TypeOK
    <3> QED  BY <3>1, <3>4, <3>5, <3>6, <3>7, <3>8
  <2> QED  BY <2>1, <2>2
<1>4. TypeOK'  BY <1>1, <1>2, <1>3 DEF TypeOK
<1>5. StreamsAreCounted'  BY <1>1, <1>2 DEF StreamsAreCounted
<1>6. Phases'  BY <1>1, <1>2, <1>3 DEF Phases
<1>7. EachChunkOnce'
  <2>1. \A i \in Streams : OnWire(i)' = OnWire(i)  BY <1>1 DEF OnWire
  <2> QED  BY <1>1, <1>3, <2>1 DEF EachChunkOnce
<1>8. \A i \in Streams : Once(wire'[i])  BY <1>1
<1>9. EndsAreLast'
  <2>1. \A i \in Streams : EndSent(i) => EndSent(i)'  BY <1>2, <1>3 DEF EndSent
  <2>2. \A i \in Streams : EndIsLast(wire'[i])  BY <1>1 DEF EndsAreLast
  <2>3. \A i \in Streams : \A n \in DOMAIN wire'[i] : wire'[i][n] = End => EndSent(i)'
    BY <1>1, <2>1 DEF EndsAreLast
  <2> QED  BY <1>1, <1>3, <2>2, <2>3 DEF EndsAreLast
<1>10. MismatchMeansBroken'  BY <1>1 DEF MismatchMeansBroken
<1> QED  BY <1>4, <1>5, <1>6, <1>7, <1>8, <1>9, <1>10

LEMMA SendChunkKeeps ==
  ASSUME CliInv, NEW j \in Streams, SendChunk(j)  PROVE CliInv'
BY SendChunkArrives, WriteToBrokenKeeps

\* The end marker on a stream that is not broken.
LEMMA SendEndArrives ==
  ASSUME CliInv, NEW j \in Streams, SendEnd(j), accepted[j] \notin broken  PROVE CliInv'
<1> USE DEF CliInv
<1>1. /\ stask[j] = "running" /\ nextChunk[j] >= TotalChunks
      /\ stask' = [stask EXCEPT ![j] = "done"]
      /\ UNCHANGED <<snd, rcv, signals, tcpVars, broken, nextChunk, rtask, written, silent>>
  BY DEF SendEnd
<1>2. PICK s \in Streams : s = accepted[j]  BY <1>1, RunningTask
<1> DEFINE q == Append(wire[s], End)
<1>3. wire[s] \in Seq(Frames) /\ End \in Frames /\ ~IsChunk(End)
  BY <1>2, Wires, FrameTypes DEF Frames
<1>4. wire' = [wire EXCEPT ![s] = q]  BY <1>2 DEF SendEnd, Put
<1>5. /\ q \in Seq(Frames)
      /\ Indices(q) = Indices(wire[s])
      /\ Once(q)
      /\ (\A n \in DOMAIN wire[s] : wire[s][n] # End) => EndIsLast(q)
  <2>1. Once(wire[s])  BY <1>2
  <2> QED  BY <2>1, <1>3, FrameSent
<1> HIDE DEF q
<1>6. /\ wire' \in [Streams -> Seq(Frames)] /\ wire'[s] = q
      /\ \A i \in Streams \ {s} : wire'[i] = wire[i]
      /\ \A i \in Streams : OnWire(i)' = OnWire(i)
  <2>1. /\ wire' \in [Streams -> Seq(Frames)] /\ wire'[s] = q
        /\ \A i \in Streams \ {s} : wire'[i] = wire[i] /\ OnWire(i)' = OnWire(i)
        /\ OnWire(s)' = Indices(q) /\ OnWire(s) = Indices(wire[s])
    BY <1>2, <1>4, <1>5, OneWireChanges
  <2> QED  BY <2>1, <1>5
<1>7. TypeOK'  BY <1>1, <1>6 DEF TypeOK, Frames, tcpVars
<1>8. StreamsAreCounted'  BY <1>1 DEF StreamsAreCounted, tcpVars
<1>9. Phases'
  <2>1. \A i \in Streams : stask'[i] # "idle" => i = j \/ stask[i] # "idle"
    BY <1>1 DEF TypeOK
  <2> QED  BY <1>1, <2>1 DEF Phases, tcpVars
<1>10. EachChunkOnce'
  <2>1. \A i \in Streams : ToBeSent(i)' = ToBeSent(i)  BY <1>1 DEF ToBeSent
  <2>2. UNION {ToBeSent(i)' \cup OnWire(i)' : i \in Streams}
          = UNION {ToBeSent(i) \cup OnWire(i) : i \in Streams}
    BY <2>1, <1>6
  <2> QED  BY <1>1, <1>6, <2>1, <2>2 DEF EachChunkOnce
<1>11. \A i \in Streams : Once(wire'[i])  BY <1>5, <1>6
<1>12. EndsAreLast'
  <2>1. ~EndSent(s)  BY <1>1, <1>2, RunningTask
  <2>2. \A n \in DOMAIN wire[s] : wire[s][n] # End  BY <2>1 DEF EndsAreLast
  <2>3. stask'[j] = "done" /\ \A i \in Streams \ {j} : stask'[i] = stask[i]
    BY <1>1 DEF TypeOK
  <2>4. EndSent(s)' /\ \A i \in Streams : EndSent(i) => EndSent(i)'
    BY <1>1, <1>2, <2>3 DEF EndSent, tcpVars
  <2>5. \A i \in Streams : EndIsLast(wire'[i])  BY <2>2, <1>5, <1>6 DEF EndsAreLast
  <2>6. \A i \in Streams : \A n \in DOMAIN wire'[i] : wire'[i][n] = End => EndSent(i)'
    BY <2>4, <1>6 DEF EndsAreLast
  <2>7. \A i \in Streams : stask'[i] = "done" => nextChunk'[i] >= TotalChunks
    BY <1>1, <2>3 DEF EndsAreLast
  <2>8. \A i \in Streams :
          rtask'[i] = "done" => broken' # {} \/ (wire'[i] = <<>> /\ EndSent(i)')
    BY <2>1, <2>4, <1>1, <1>6 DEF EndsAreLast
  <2> QED  BY <2>5, <2>6, <2>7, <2>8 DEF EndsAreLast
<1>13. MismatchMeansBroken'  BY <1>1 DEF MismatchMeansBroken
<1> QED  BY <1>7, <1>8, <1>9, <1>10, <1>11, <1>12, <1>13

LEMMA SendEndKeeps ==
  ASSUME CliInv, NEW j \in Streams, SendEnd(j)  PROVE CliInv'
BY SendEndArrives, WriteToBrokenKeeps

\* A task that panics, and the end of the process.
LEMMA SenderEndsKeeps ==
  ASSUME CliInv, SenderEnds \/ \E j \in Streams : SendPanics(j)  PROVE CliInv'
<1> USE DEF CliInv
<1>1. /\ UNCHANGED <<rcv, signals, tcpVars, wire, nextChunk, rtask, written, silent>>
      /\ snd' = snd \/ (snd = "streaming" /\ snd' \in {"done", "failed"})
      /\ \/ broken' = broken \/ (snd = "streaming" /\ broken' = Streams)
         \/ \E j \in Streams : stask[j] # "idle" /\ broken' = broken \cup {accepted[j]}
      /\ stask' \in [Streams -> {"idle", "running", "done", "panicked"}]
      /\ \A j \in Streams : /\ stask'[j] = "done" <=> stask[j] = "done"
                            /\ stask'[j] = "idle" <=> stask[j] = "idle"
  BY DEF SenderEnds, SendPanics, TypeOK
<1>2. broken' = {} => broken = {}  BY <1>1, StreamNumbers
<1>3. TypeOK'
  <2>1. snd = "streaming" => opened = NumStreams  BY AllAccepted DEF Phases
  <2>2. \A j \in Streams : stask[j] # "idle" => opened = NumStreams /\ accepted[j] \in Streams
    BY AllAccepted DEF Phases
  <2>3. broken \subseteq 1 .. opened /\ silent \subseteq broken  BY DEF TypeOK
  <2>4. broken' \subseteq 1 .. opened /\ broken \subseteq broken'
    <3>1. opened \in 0 .. NumStreams  BY DEF TypeOK
    <3> QED  BY <1>1, <2>1, <2>2, <2>3, <3>1, StreamNumbers DEF Streams
  <2>5. broken' \subseteq 1 .. opened /\ silent' \subseteq broken'  BY <1>1, <2>3, <2>4
  <2> QED  BY <1>1, <2>5 DEF TypeOK, tcpVars
<1>4. StreamsAreCounted'  BY <1>1 DEF StreamsAreCounted, tcpVars
<1>5. Phases'  BY <1>1 DEF Phases, tcpVars
<1>6. EachChunkOnce'  BY <1>1, <1>2, ChunksUntouched
<1>7. \A i \in Streams : Once(wire'[i])  BY <1>1
<1>8. EndsAreLast'
  <2>1. \A i \in Streams : EndSent(i) => EndSent(i)'  BY <1>1 DEF EndSent, tcpVars
  <2> QED  BY <1>1, <1>2, <2>1, EndsUntouched
<1>9. MismatchMeansBroken'  BY <1>1, <1>2 DEF MismatchMeansBroken
<1> QED  BY <1>3, <1>4, <1>5, <1>6, <1>7, <1>8, <1>9

\* The first frame of stream s is read.
LEMMA FirstFrameRead ==
  ASSUME CliInv, NEW s \in Streams, wire[s] # <<>>, wire' = [wire EXCEPT ![s] = Tail(@)]
  PROVE  /\ wire' \in [Streams -> Seq(Frames)] /\ Head(wire[s]) \in Frames
         /\ \A i \in Streams \ {s} : wire'[i] = wire[i] /\ OnWire(i)' = OnWire(i)
         /\ OnWire(s) = OnWire(s)' \cup
                          (IF IsChunk(Head(wire[s])) THEN {Head(wire[s]).index} ELSE {})
         /\ IsChunk(Head(wire[s])) => Head(wire[s]).index \notin OnWire(s)'
         /\ \A i \in Streams : Once(wire'[i]) /\ EndIsLast(wire'[i])
         /\ \A i \in Streams : \A n \in DOMAIN wire'[i] : wire'[i][n] = End => EndSent(i)
         /\ \A i \in Streams : wire[i] = <<>> => wire'[i] = <<>>
         /\ Head(wire[s]) = End => wire'[s] = <<>> /\ EndSent(s)
<1> USE DEF CliInv
<1> DEFINE q == Tail(wire[s])
<1>1. wire[s] \in Seq(Frames) /\ Once(wire[s]) /\ EndIsLast(wire[s])
      /\ \A n \in DOMAIN wire[s] : wire[s][n] = End => EndSent(s)
  BY Wires DEF EndsAreLast
<1>2. /\ q \in Seq(Frames) /\ Head(wire[s]) \in Frames
      /\ Indices(wire[s]) = Indices(q) \cup
                              (IF IsChunk(Head(wire[s])) THEN {Head(wire[s]).index} ELSE {})
      /\ Once(q) /\ (IsChunk(Head(wire[s])) => Head(wire[s]).index \notin Indices(q))
      /\ EndIsLast(q) /\ (Head(wire[s]) = End => q = <<>>)
      /\ \A n \in DOMAIN q : \E m \in DOMAIN wire[s] : q[n] = wire[s][m]
  BY <1>1, FrameRead
<1>3. Head(wire[s]) = wire[s][1] /\ 1 \in DOMAIN wire[s]  BY <1>1
<1>4. wire' = [wire EXCEPT ![s] = q]  OBVIOUS
<1> HIDE DEF q
<1>5. /\ wire' \in [Streams -> Seq(Frames)] /\ wire'[s] = q
      /\ \A i \in Streams \ {s} : wire'[i] = wire[i] /\ OnWire(i)' = OnWire(i)
      /\ OnWire(s)' = Indices(q) /\ OnWire(s) = Indices(wire[s])
  BY <1>2, <1>4, OneWireChanges
<1>6. \A i \in Streams : Once(wire'[i]) /\ EndIsLast(wire'[i])
  BY <1>2, <1>5 DEF EndsAreLast
<1>7. \A i \in Streams : \A n \in DOMAIN wire'[i] : wire'[i][n] = End => EndSent(i)
  BY <1>1, <1>2, <1>5 DEF EndsAreLast
<1> QED  BY <1>1, <1>2, <1>3, <1>5, <1>6, <1>7

LEMMA WriteChunkKeeps ==
  ASSUME CliInv, NEW s \in Streams, WriteChunk(s)  PROVE CliInv'
<1> USE DEF CliInv
<1> DEFINE x == Head(wire[s]).index
<1>1. /\ IsChunk(Head(wire[s])) /\ written' = written \cup {x} /\ wire[s] # <<>>
      /\ wire' = [wire EXCEPT ![s] = Tail(@)] /\ rtask[s] = "running"
      /\ UNCHANGED <<snd, rcv, signals, tcpVars, broken, taskVars, silent>>
  BY DEF WriteChunk, IsChunk
<1>2. /\ wire' \in [Streams -> Seq(Frames)] /\ x \in Chunks
      /\ \A i \in Streams \ {s} : wire'[i] = wire[i] /\ OnWire(i)' = OnWire(i)
      /\ OnWire(s) = OnWire(s)' \cup {x} /\ x \notin OnWire(s)'
      /\ \A i \in Streams : Once(wire'[i]) /\ EndIsLast(wire'[i])
      /\ \A i \in Streams : \A n \in DOMAIN wire'[i] : wire'[i][n] = End => EndSent(i)
      /\ \A i \in Streams : wire[i] = <<>> => wire'[i] = <<>>
  BY <1>1, FirstFrameRead, FrameTypes
<1> HIDE DEF x
<1>3. TypeOK'  BY <1>1, <1>2 DEF TypeOK, Frames, tcpVars, taskVars
<1>4. StreamsAreCounted' /\ Phases'  BY <1>1 DEF StreamsAreCounted, Phases, tcpVars, taskVars
<1>5. EachChunkOnce'
  <2>1. \A i \in Streams : ToBeSent(i)' = ToBeSent(i)  BY <1>1 DEF ToBeSent, taskVars
  <2>2. \A i \in Streams : OnWire(i)' \subseteq OnWire(i) /\ x \notin OnWire(i)'
    BY <1>2 DEF EachChunkOnce
  <2>3. \A i \in Streams : x \notin ToBeSent(i)  BY <1>2 DEF EachChunkOnce
  <2>4. /\ \A i, j \in Streams : i # j =>
             ToBeSent(i)' \cap ToBeSent(j)' = {} /\ OnWire(i)' \cap OnWire(j)' = {}
        /\ \A i, j \in Streams : ToBeSent(i)' \cap OnWire(j)' = {}
    BY <2>1, <2>2 DEF EachChunkOnce
  <2>5. \A i \in Streams : (ToBeSent(i)' \cup OnWire(i)') \cap written' = {}
    BY <1>1, <2>1, <2>2, <2>3 DEF EachChunkOnce
  <2>6. broken' = {} =>
          Chunks = written' \cup UNION {ToBeSent(i)' \cup OnWire(i)' : i \in Streams}
    <3>1. \A i \in Streams : ToBeSent(i) \cup OnWire(i) \subseteq
                               {x} \cup ToBeSent(i)' \cup OnWire(i)'
      BY <1>2, <2>1
    <3>2. \A i \in Streams : ToBeSent(i)' \cup OnWire(i)' \subseteq ToBeSent(i) \cup OnWire(i)
      BY <2>1, <2>2
    <3>3. UNION {ToBeSent(i) \cup OnWire(i) : i \in Streams}
            \subseteq {x} \cup UNION {ToBeSent(i)' \cup OnWire(i)' : i \in Streams}
      BY <3>1
    <3>4. UNION {ToBeSent(i)' \cup OnWire(i)' : i \in Streams}
            \subseteq UNION {ToBeSent(i) \cup OnWire(i) : i \in Streams}
      BY <3>2
    <3> QED  BY <1>1, <1>2, <3>3, <3>4 DEF EachChunkOnce
  <2> QED  BY <2>4, <2>5, <2>6 DEF EachChunkOnce
<1>6. EndsAreLast'
  <2>1. \A i \in Streams : EndSent(i)' = EndSent(i)  BY <1>1 DEF EndSent, tcpVars, taskVars
  <2> QED  BY <2>1, <1>1, <1>2 DEF EndsAreLast, taskVars
<1>7. MismatchMeansBroken'  BY <1>1 DEF MismatchMeansBroken
<1> QED  BY <1>2, <1>3, <1>4, <1>5, <1>6, <1>7

LEMMA WriteChunkFailsKeeps ==
  ASSUME CliInv, NEW s \in Streams, WriteChunkFails(s)  PROVE CliInv'
<1> USE DEF CliInv, tcpVars
<1>1. /\ wire[s] # <<>> /\ wire' = [wire EXCEPT ![s] = Tail(@)]
      /\ rtask[s] = "running" /\ rtask' = [rtask EXCEPT ![s] = "panicked"]
      /\ broken' = broken \cup {s} /\ broken' # {}
      /\ UNCHANGED <<snd, rcv, signals, tcpVars, nextChunk, stask, written, silent>>
      /\ \A i \in Streams : EndSent(i)' = EndSent(i)
  BY DEF WriteChunkFails, EndSent
<1>2. /\ rtask' \in [Streams -> {"idle", "running", "done", "panicked"}]
      /\ \A i \in Streams : rtask'[i] # "idle" => rtask[i] # "idle"
  BY <1>1 DEF TypeOK
<1>3. /\ wire' \in [Streams -> Seq(Frames)]
      /\ \A i \in Streams : OnWire(i)' \subseteq OnWire(i)
      /\ \A i \in Streams : Once(wire'[i]) /\ EndIsLast(wire'[i])
      /\ \A i \in Streams : \A n \in DOMAIN wire'[i] : wire'[i][n] = End => EndSent(i)
  BY <1>1, FirstFrameRead
<1>4. TypeOK'
  <2>1. opened = NumStreams
    BY <1>1 DEF Phases
  <2>2. broken' \subseteq 1 .. opened /\ silent' \subseteq broken'
    BY <1>1, <2>1 DEF TypeOK, Streams
  <2> QED  BY <1>1, <1>2, <1>3, <2>2 DEF TypeOK, Frames
<1>5. StreamsAreCounted'  BY <1>1 DEF StreamsAreCounted
<1>6. Phases'  BY <1>1, <1>2 DEF Phases
<1>7. EachChunkOnce'
  <2>1. \A i \in Streams : ToBeSent(i)' = ToBeSent(i)  BY <1>1 DEF ToBeSent
  <2> QED  BY <1>1, <1>3, <2>1 DEF EachChunkOnce
<1>8. EndsAreLast'  BY <1>1, <1>3 DEF EndsAreLast
<1>9. MismatchMeansBroken'  BY <1>1 DEF MismatchMeansBroken
<1> QED  BY <1>3, <1>4, <1>5, <1>6, <1>7, <1>8, <1>9

\* A frame that is no chunk is read: the header, or an end marker.
LEMMA ChunksStay ==
  ASSUME CliInv, NEW s \in Streams, wire[s] # <<>>, wire' = [wire EXCEPT ![s] = Tail(@)],
         ~IsChunk(Head(wire[s])), UNCHANGED <<nextChunk, written, broken>>
  PROVE  EachChunkOnce'
<1>1. \A i \in Streams : OnWire(i)' = OnWire(i)  BY FirstFrameRead
<1>2. \A i \in Streams : ToBeSent(i)' = ToBeSent(i)  BY DEF ToBeSent
<1>3. UNION {ToBeSent(i)' \cup OnWire(i)' : i \in Streams}
        = UNION {ToBeSent(i) \cup OnWire(i) : i \in Streams}
  BY <1>1, <1>2
<1> QED  BY <1>1, <1>2, <1>3 DEF EachChunkOnce, CliInv

LEMMA ReadHeaderKeeps ==
  ASSUME CliInv, ReadHeader  PROVE CliInv'
<1> USE DEF CliInv, tcpVars
<1>1. /\ rcv = "header" /\ 1 \in Streams
      /\ \A i \in Streams : rtask[i] = "idle"
      /\ UNCHANGED <<snd, signals, tcpVars, nextChunk, stask, written, silent>>
      /\ \A i \in Streams : EndSent(i)' = EndSent(i)
  BY StreamNumbers DEF ReadHeader, Phases, TypeOK, EndSent
<1>2. CASE /\ wire[1] # <<>> /\ Head(wire[1]) = Header /\ rcv' = "receiving"
           /\ rtask' = [i \in Streams |-> "running"]
           /\ wire' = [wire EXCEPT ![1] = Tail(@)] /\ broken' = broken
  <2>1. /\ wire' \in [Streams -> Seq(Frames)]
        /\ \A i \in Streams : Once(wire'[i]) /\ EndIsLast(wire'[i])
        /\ \A i \in Streams : \A n \in DOMAIN wire'[i] : wire'[i][n] = End => EndSent(i)
    BY <1>1, <1>2, FirstFrameRead
  <2>2. TypeOK'  BY <1>1, <1>2, <2>1 DEF TypeOK, Frames
  <2>3. StreamsAreCounted'  BY <1>1 DEF StreamsAreCounted
  <2>4. Phases'  BY <1>1, <1>2 DEF Phases
  <2>5. EachChunkOnce'
    <3>1. ~IsChunk(Head(wire[1]))  BY <1>2, FrameTypes
    <3> QED  BY <3>1, <1>1, <1>2, ChunksStay
  <2>6. EndsAreLast'  BY <1>1, <1>2, <2>1 DEF EndsAreLast
  <2>7. MismatchMeansBroken'  BY <1>2 DEF MismatchMeansBroken
  <2> QED  BY <2>1, <2>2, <2>3, <2>4, <2>5, <2>6, <2>7
<1>3. CASE rcv' = "failed" /\ broken' = 1 .. opened /\ UNCHANGED <<rtask, wire>>
  <2>1. broken' = {} => broken = {}  BY <1>3 DEF TypeOK
  <2>2. TypeOK'  BY <1>1, <1>3 DEF TypeOK
  <2>3. StreamsAreCounted'  BY <1>1 DEF StreamsAreCounted
  <2>4. Phases'  BY <1>1, <1>3 DEF Phases
  <2>5. EachChunkOnce'  BY <1>1, <1>3, <2>1, ChunksUntouched
  <2>6. EndsAreLast'  BY <1>1, <1>3, <2>1, EndsUntouched
  <2>7. MismatchMeansBroken'  BY <1>3 DEF MismatchMeansBroken
  <2>8. \A i \in Streams : Once(wire'[i])  BY <1>3
  <2> QED  BY <2>2, <2>3, <2>4, <2>5, <2>6, <2>7, <2>8
<1> QED  BY <1>2, <1>3 DEF ReadHeader

LEMMA ReceiveEndsKeeps ==
  ASSUME CliInv, NEW s \in Streams, ReceiveEnds(s)  PROVE CliInv'
<1> USE DEF CliInv, tcpVars
<1>1. /\ rtask[s] = "running" /\ rtask' = [rtask EXCEPT ![s] = "done"]
      /\ UNCHANGED <<snd, rcv, signals, tcpVars, broken, nextChunk, stask, written, silent>>
      /\ \A i \in Streams : EndSent(i)' = EndSent(i)
  BY DEF ReceiveEnds, EndSent
<1>2. /\ rtask'[s] = "done" /\ \A i \in Streams \ {s} : rtask'[i] = rtask[i]
      /\ rtask' \in [Streams -> {"idle", "running", "done", "panicked"}]
  BY <1>1 DEF TypeOK
<1>3. StreamsAreCounted'  BY <1>1 DEF StreamsAreCounted
<1>4. Phases'  BY <1>1, <1>2 DEF Phases
<1>5. MismatchMeansBroken'  BY <1>1 DEF MismatchMeansBroken
<1>6. CASE wire[s] # <<>> /\ Head(wire[s]) = End /\ wire' = [wire EXCEPT ![s] = Tail(@)]
  <2>1. /\ wire' \in [Streams -> Seq(Frames)]
        /\ \A i \in Streams : Once(wire'[i]) /\ EndIsLast(wire'[i])
        /\ \A i \in Streams : \A n \in DOMAIN wire'[i] : wire'[i][n] = End => EndSent(i)
        /\ \A i \in Streams : wire[i] = <<>> => wire'[i] = <<>>
        /\ wire'[s] = <<>> /\ EndSent(s)
    BY <1>6, FirstFrameRead
  <2>2. TypeOK'  BY <1>1, <1>2, <2>1 DEF TypeOK, Frames
  <2>3. EachChunkOnce'
    <3>1. ~IsChunk(Head(wire[s]))  BY <1>6, FrameTypes
    <3> QED  BY <3>1, <1>1, <1>6, ChunksStay
  <2>4. EndsAreLast'  BY <1>1, <1>2, <2>1 DEF EndsAreLast
  <2> QED  BY <1>3, <1>4, <1>5, <2>1, <2>2, <2>3, <2>4
<1>7. CASE s \in broken /\ wire' = wire
  <2>1. TypeOK'  BY <1>1, <1>2, <1>7 DEF TypeOK
  <2>2. EachChunkOnce'  BY <1>1, <1>7, ChunksUntouched
  <2>3. EndsAreLast'  BY <1>1, <1>2, <1>7 DEF EndsAreLast
  <2>4. \A i \in Streams : Once(wire'[i])  BY <1>7
  <2> QED  BY <1>3, <1>4, <1>5, <2>1, <2>2, <2>3, <2>4
<1> QED  BY <1>6, <1>7 DEF ReceiveEnds

\* When all receiving tasks are done and no stream broke, each of them read its
\* end marker, so every sending task is done and nothing is on its way.
LEMMA VerifyChecksumKeeps ==
  ASSUME CliInv, VerifyChecksum  PROVE CliInv'
<1> USE DEF CliInv
<1>1. /\ rcv = "receiving" /\ \A i \in Streams : rtask[i] = "done"
      /\ rcv' = IF written = Chunks THEN "ok" ELSE "mismatch"
      /\ UNCHANGED <<snd, signals, tcpVars, wire, broken, taskVars, written, silent>>
  BY DEF VerifyChecksum
<1>2. ASSUME broken = {} PROVE written = Chunks
  <2>1. \A i \in Streams : wire[i] = <<>> /\ EndSent(i)  BY <1>1, <1>2 DEF EndsAreLast
  <2>2. 1 \in Streams /\ Len(accepted) = NumStreams
    BY <2>1, StreamNumbers DEF EndSent, Phases
  <2>3. \A j \in Streams : stask[j] = "done"
    <3>1. ASSUME NEW j \in Streams PROVE stask[j] = "done"
      <4>1. accepted[j] \in Streams /\ \A i \in Streams : accepted[i] = accepted[j] => i = j
        BY <2>2, AllAccepted
      <4> QED  BY <4>1, <2>1 DEF EndSent
    <3> QED  BY <3>1
  <2>4. \A j \in Streams : ToBeSent(j) = {}
    <3>1. \A j \in Streams : nextChunk[j] >= TotalChunks /\ nextChunk[j] \in Int
      BY <2>3, StreamNumbers DEF EndsAreLast, TypeOK
    <3> QED  BY <3>1, StreamNumbers DEF ToBeSent, Chunks
  <2>5. \A i \in Streams : OnWire(i) = {}  BY <2>1 DEF OnWire
  <2> QED  BY <1>2, <2>4, <2>5 DEF EachChunkOnce
<1>3. TypeOK'  BY <1>1 DEF TypeOK, tcpVars, taskVars
<1>4. StreamsAreCounted'  BY <1>1 DEF StreamsAreCounted, tcpVars
<1>5. Phases'  BY <1>1 DEF Phases, tcpVars, taskVars
<1>6. EachChunkOnce'  BY <1>1, ChunksUntouched DEF taskVars
<1>7. \A i \in Streams : Once(wire'[i])  BY <1>1
<1>8. EndsAreLast'
  <2>1. \A i \in Streams : EndSent(i)' = EndSent(i)  BY <1>1 DEF EndSent, tcpVars, taskVars
  <2> QED  BY <2>1, <1>1, EndsUntouched DEF taskVars
<1>9. MismatchMeansBroken'  BY <1>1, <1>2 DEF MismatchMeansBroken
<1> QED  BY <1>3, <1>4, <1>5, <1>6, <1>7, <1>8, <1>9

\* The receiver gives up after all, or the process ends with a panic.
LEMMA ReceiverFailsKeeps ==
  ASSUME CliInv, ReceiverFails  PROVE CliInv'
<1> USE DEF CliInv, tcpVars, taskVars
<1>1. /\ rcv = "receiving" /\ rcv' = "failed" /\ broken' = Streams /\ broken' # {}
      /\ UNCHANGED <<snd, signals, tcpVars, wire, taskVars, written, silent>>
      /\ \A i \in Streams : EndSent(i)' = EndSent(i)
  BY StreamNumbers DEF ReceiverFails, EndSent
<1>2. TypeOK'
  <2>1. opened \in 0 .. NumStreams /\ broken \subseteq 1 .. opened /\ silent \subseteq broken
    BY DEF TypeOK
  <2>2. opened = NumStreams  BY <1>1 DEF Phases
  <2>3. broken' \subseteq 1 .. opened /\ silent' \subseteq broken'
    BY <1>1, <2>1, <2>2, StreamNumbers DEF Streams
  <2> QED  BY <1>1, <2>3 DEF TypeOK
<1>3. StreamsAreCounted' /\ Phases'  BY <1>1 DEF StreamsAreCounted, Phases
<1>4. EachChunkOnce'  BY <1>1, ChunksUntouched
<1>5. EndsAreLast'  BY <1>1, EndsUntouched
<1>6. MismatchMeansBroken' /\ \A i \in Streams : Once(wire'[i])
  BY <1>1 DEF MismatchMeansBroken
<1> QED  BY <1>2, <1>3, <1>4, <1>5, <1>6

LEMMA BreakStreamKeeps ==
  ASSUME CliInv, NEW s \in Streams, BreakStream(s)  PROVE CliInv'
<1> USE DEF CliInv, tcpVars, taskVars
<1>1. /\ s \in 1 .. opened /\ broken' = broken \cup {s}
      /\ silent' \in {silent, silent \cup {s}}
      /\ UNCHANGED <<snd, rcv, signals, tcpVars, taskVars, written>>
      /\ \A i \in Streams : EndSent(i)' = EndSent(i)
  BY DEF BreakStream, EndSent
<1>2. wire[s] \in Seq(Frames)  BY Wires
<1>3. PICK n \in 0 .. Len(wire[s]) : wire' = [wire EXCEPT ![s] = SubSeq(wire[s], 1, n)]
  BY DEF BreakStream
<1> DEFINE q == SubSeq(wire[s], 1, n)
<1>4. /\ q \in Seq(Frames) /\ Indices(q) \subseteq Indices(wire[s]) /\ Once(q) /\ EndIsLast(q)
      /\ \A m \in DOMAIN q : m \in DOMAIN wire[s] /\ q[m] = wire[s][m]
  <2>1. Once(wire[s]) /\ EndIsLast(wire[s])  BY DEF EndsAreLast
  <2> QED  BY <1>2, <2>1, FramesLost
<1> HIDE DEF q
<1>5. /\ wire' \in [Streams -> Seq(Frames)] /\ wire'[s] = q
      /\ \A i \in Streams \ {s} : wire'[i] = wire[i] /\ OnWire(i)' = OnWire(i)
      /\ OnWire(s)' = Indices(q) /\ OnWire(s) = Indices(wire[s])
  <2>1. wire' = [wire EXCEPT ![s] = q]  BY <1>3 DEF q
  <2> QED  BY <2>1, <1>4, OneWireChanges
<1>6. TypeOK'  BY <1>1, <1>5 DEF TypeOK, Frames
<1>7. StreamsAreCounted' /\ Phases'  BY <1>1 DEF StreamsAreCounted, Phases
<1>8. EachChunkOnce'
  <2>1. \A i \in Streams : ToBeSent(i)' = ToBeSent(i)  BY <1>1 DEF ToBeSent
  <2>2. \A i \in Streams : OnWire(i)' \subseteq OnWire(i)  BY <1>4, <1>5
  <2>3. broken' # {}  BY <1>1
  <2> QED  BY <1>1, <2>1, <2>2, <2>3 DEF EachChunkOnce
<1>9. \A i \in Streams : Once(wire'[i])  BY <1>4, <1>5
<1>10. EndsAreLast'
  <2>1. \A i \in Streams : EndIsLast(wire'[i])  BY <1>4, <1>5 DEF EndsAreLast
  <2>2. \A i \in Streams : \A m \in DOMAIN wire'[i] : wire'[i][m] = End => EndSent(i)'
    BY <1>1, <1>4, <1>5 DEF EndsAreLast
  <2>3. broken' # {}  BY <1>1
  <2> QED  BY <1>1, <2>1, <2>2, <2>3 DEF EndsAreLast
<1>11. MismatchMeansBroken'  BY <1>1 DEF MismatchMeansBroken
<1> QED  BY <1>6, <1>7, <1>8, <1>9, <1>10, <1>11

\* One step per action.
LEMMA CliStep == CliInv /\ [Next]_vars => CliInv'
<1> SUFFICES ASSUME CliInv, [Next]_vars PROVE CliInv'  OBVIOUS
<1>1. ASSUME MainTask PROVE CliInv'  BY <1>1, MainTaskKeeps
<1>2. ASSUME Connect PROVE CliInv'  BY <1>2, ConnectKeeps
<1>3. ASSUME NEW i \in Streams, Establish(i) PROVE CliInv'  BY <1>3, EstablishKeeps
<1>4. ASSUME Accept PROVE CliInv'  BY <1>4, AcceptKeeps
<1>5. ASSUME NEW j \in Streams, SendChunk(j) PROVE CliInv'  BY <1>5, SendChunkKeeps
<1>6. ASSUME NEW j \in Streams, SendEnd(j) PROVE CliInv'  BY <1>6, SendEndKeeps
<1>14. ASSUME ReceiverFails PROVE CliInv'  BY <1>14, ReceiverFailsKeeps
<1>15. ASSUME NEW i \in Streams, WriteChunkFails(i) PROVE CliInv'  BY <1>15, WriteChunkFailsKeeps
<1>7. ASSUME SenderEnds \/ \E j \in Streams : SendPanics(j) PROVE CliInv'
  BY <1>7, SenderEndsKeeps
<1>8. ASSUME ReadHeader PROVE CliInv'  BY <1>8, ReadHeaderKeeps
<1>9. ASSUME NEW i \in Streams, WriteChunk(i) PROVE CliInv'  BY <1>9, WriteChunkKeeps
<1>10. ASSUME NEW i \in Streams, ReceiveEnds(i) PROVE CliInv'  BY <1>10, ReceiveEndsKeeps
<1>11. ASSUME VerifyChecksum PROVE CliInv'  BY <1>11, VerifyChecksumKeeps
<1>12. ASSUME NEW i \in Streams, BreakStream(i) PROVE CliInv'  BY <1>12, BreakStreamKeeps
<1>13. CASE UNCHANGED vars
  <2>1. UNCHANGED <<snd, rcv, signals, tcpVars, wire, broken, taskVars, written, silent>>
    BY <1>13 DEF vars
  <2>2. UNCHANGED <<opened, handshake, backlog, accepted, nextChunk, stask, rtask>>
    BY <2>1 DEF tcpVars, taskVars
  <2>3. \A i \in Streams : EndSent(i)' = EndSent(i)  BY <2>2 DEF EndSent
  <2>4. TypeOK'  BY <2>1, <2>2 DEF CliInv, TypeOK
  <2>5. EachChunkOnce' /\ EndsAreLast'
    BY <2>1, <2>2, <2>3, ChunksUntouched, EndsUntouched DEF CliInv
  <2>6. StreamsAreCounted' /\ Phases' /\ MismatchMeansBroken' /\ \A i \in Streams : Once(wire'[i])
    BY <2>1, <2>2 DEF CliInv, StreamsAreCounted, Phases, MismatchMeansBroken
  <2> QED  BY <2>4, <2>5, <2>6 DEF CliInv
<1> QED
  BY <1>1, <1>2, <1>3, <1>4, <1>5, <1>6, <1>7, <1>8, <1>9, <1>10, <1>11, <1>12, <1>13,
     <1>14, <1>15
  DEF Next, SenderStep, ReceiverStep, TcpStep, MainTask

\* The invariant of the command line client.
THEOREM CliInvariant == Spec => []CliInv
<1>1. Init => CliInv  BY CliStarts
<1>2. CliInv /\ [Next]_vars => CliInv'  BY CliStep
<1> QED  BY <1>1, <1>2, PTL DEF Spec

(***************************************************************************)
(* Type correctness: only streams that were connected break, and a task's  *)
(* chunk_idx passes the end of the file by less than a stride              *)
(* (sender.rs:150-165).                                                    *)
(***************************************************************************)
THEOREM CliTypeCorrect == Spec => []TypeOK
<1>1. CliInv => TypeOK  BY DEF CliInv
<1> QED  BY <1>1, CliInvariant, PTL

(***************************************************************************)
(* The strides of the sending tasks divide the file among any number of    *)
(* streams: a chunk is read by one task, travels on one stream, once, and  *)
(* is written once; without a broken stream none is lost.                  *)
(***************************************************************************)
THEOREM ChunksGoOnce == Spec => []EachChunkOnce
<1>1. CliInv => EachChunkOnce  BY DEF CliInv
<1> QED  BY <1>1, CliInvariant, PTL

(***************************************************************************)
(* The receiver reports a wrong checksum only if a stream broke: the end   *)
(* marker on every stream means that the whole file has been written.      *)
(***************************************************************************)
THEOREM NoFalseMismatch == Spec => []MismatchMeansBroken
<1>1. CliInv => MismatchMeansBroken  BY DEF CliInv
<1> QED  BY <1>1, CliInvariant, PTL

-----------------------------------------------------------------------------
(***************************************************************************)
(* The relay.  The table of pending connections and the pairs stay         *)
(* consistent, and no timer ever closes a connection that was paired; the  *)
(* three invariants are inductive together.                                *)
(***************************************************************************)

RelayInv == RelayTypeOK /\ PairingIsConsistent /\ PairClosedByPipesOnly

\* Accepted connections are neither pending nor paired.
LEMMA RelayStarts == RelayInit => RelayInv
BY RelayAssumption DEF RelayInit, RelayInv, RelayTypeOK, PairingIsConsistent, PairClosedByPipesOnly

\* A header that cannot be read touches neither the table nor a pair.
LEMMA HeaderFailsKeeps ==
  ASSUME RelayInv, NEW c \in Conns, HeaderFails(c)  PROVE RelayInv'
<1> USE DEF RelayInv, HeaderFails
<1>1. RelayTypeOK'  BY DEF RelayTypeOK
<1>2. PairingIsConsistent'  BY RelayAssumption DEF RelayTypeOK, PairingIsConsistent
<1>3. PairClosedByPipesOnly'
  BY RelayAssumption DEF RelayTypeOK, PairingIsConsistent, PairClosedByPipesOnly
<1> QED  BY <1>1, <1>2, <1>3

\* Pairing: the pending connection leaves the table for a pair of its own.
LEMMA PairKeeps ==
  ASSUME RelayInv, NEW c \in Conns, phase[c] = "header",
         pending[Room[c]] # None, Pair(c, pending[Room[c]])
  PROVE  RelayInv'
<1> DEFINE p == pending[Room[c]]
<1>1. /\ p \in Conns /\ p # c /\ phase[p] = "pending"
      /\ Room[p] = Room[c] /\ Room[c] \in Rooms
      /\ sock[c] = "open" /\ sock[p] = "open"
      /\ peer[c] = None /\ peer[p] = None
  BY RelayAssumption DEF RelayInv, RelayTypeOK, PairingIsConsistent
<1>2. ASSUME NEW d \in Conns, peer[d] # None
      PROVE  peer[d] \in Conns \ {c, p}
  <2>1. peer[d] \in Conns /\ peer[peer[d]] = d  BY <1>2 DEF RelayInv, RelayTypeOK, PairingIsConsistent
  <2>2. d # None  BY RelayAssumption
  <2>3. peer[d] # c /\ peer[d] # p  BY <1>1, <2>1, <2>2
  <2> QED  BY <2>1, <2>3
<1>3. RelayTypeOK'  BY <1>1, RelayAssumption DEF RelayInv, RelayTypeOK, Pair
<1>4. \A d \in Conns : phase'[d] = "pending" <=> pending'[Room[d]] = d
  BY <1>1, RelayAssumption DEF RelayInv, RelayTypeOK, PairingIsConsistent, Pair
<1>5. \A r \in Rooms : pending'[r] # None => Room[pending'[r]] = r
  BY <1>1 DEF RelayInv, RelayTypeOK, PairingIsConsistent, Pair
<1>6. ASSUME NEW d \in Conns
      PROVE  /\ phase'[d] = "pending" => timer'[d] = "armed"
             /\ phase'[d] \in {"header", "pending"} => sock'[d] = "open"
             /\ phase'[d] = "paired" <=> peer'[d] # None
  BY <1>1, RelayAssumption DEF RelayInv, RelayTypeOK, PairingIsConsistent, Pair
<1>7. ASSUME NEW d \in Conns, peer'[d] # None
      PROVE  peer'[d] # d /\ peer'[peer'[d]] = d /\ Room[peer'[d]] = Room[d]
  <2>1. CASE d \in {c, p}  BY <2>1, <1>1 DEF RelayInv, RelayTypeOK, Pair
  <2>2. CASE d \notin {c, p}
    BY <2>2, <1>1, <1>2, <1>7 DEF RelayInv, RelayTypeOK, PairingIsConsistent, Pair
  <2> QED  BY <2>1, <2>2
<1>8. PairingIsConsistent'
  <2>1. \A d \in Conns :
          /\ phase'[d] = "pending" => timer'[d] = "armed"
          /\ phase'[d] \in {"header", "pending"} => sock'[d] = "open"
          /\ phase'[d] = "paired" <=> peer'[d] # None  BY <1>6
  <2>2. \A d \in Conns : peer'[d] # None =>
          peer'[d] # d /\ peer'[peer'[d]] = d /\ Room[peer'[d]] = Room[d]  BY <1>7
  <2> QED  BY <1>4, <1>5, <2>1, <2>2, Zenon DEF PairingIsConsistent
<1>9. ASSUME NEW d \in Conns, peer'[d] # None, sock'[d] = "closed"
      PROVE  pipe'[peer'[d]] = "ended"
  BY <1>1, <1>2, <1>9 DEF RelayInv, RelayTypeOK, PairClosedByPipesOnly, Pair
<1> QED  BY <1>3, <1>8, <1>9 DEF RelayInv, PairClosedByPipesOnly

\* Becoming pending: the room had no pending connection.
LEMMA BecomePendingKeeps ==
  ASSUME RelayInv, NEW c \in Conns, phase[c] = "header",
         pending[Room[c]] = None, BecomePending(c)
  PROVE  RelayInv'
<1> USE DEF RelayInv, BecomePending
<1>1. Room[c] \in Rooms /\ c # None  BY RelayAssumption
<1>2. RelayTypeOK'  BY <1>1 DEF RelayTypeOK
<1>3. PairingIsConsistent'  BY <1>1, RelayAssumption DEF RelayTypeOK, PairingIsConsistent
<1>4. PairClosedByPipesOnly'  BY DEF RelayTypeOK, PairClosedByPipesOnly
<1> QED  BY <1>2, <1>3, <1>4

\* The timer closes a connection only while the table still names it, and then
\* it is not paired.
LEMMA TimerFiresKeeps ==
  ASSUME RelayInv, NEW c \in Conns, TimerFires(c)  PROVE RelayInv'
<1>1. Room[c] \in Rooms /\ c # None  BY RelayAssumption
<1>2. RelayTypeOK'  BY <1>1 DEF RelayInv, RelayTypeOK, TimerFires
<1>3. CASE StillPending(c)
  <2>1. phase[c] = "pending" /\ peer[c] = None
    BY <1>3 DEF RelayInv, RelayTypeOK, PairingIsConsistent, StillPending
  <2>2. PairingIsConsistent'
    <3>1. /\ pending' = [pending EXCEPT ![Room[c]] = None]
          /\ phase' = [phase EXCEPT ![c] = "expired"]
          /\ sock' = [sock EXCEPT ![c] = "closed"]
          /\ timer' = [timer EXCEPT ![c] = "fired"]
          /\ peer' = peer
      BY <1>3 DEF TimerFires
    <3>2. \A d \in Conns : phase'[d] = "pending" <=> pending'[Room[d]] = d
      BY <3>1, <1>1, <1>3, RelayAssumption
      DEF RelayInv, RelayTypeOK, PairingIsConsistent, StillPending
    <3>3. \A r \in Rooms : pending'[r] # None => Room[pending'[r]] = r
      BY <3>1, <1>1 DEF RelayInv, RelayTypeOK, PairingIsConsistent
    <3>4. \A d \in Conns :
            /\ phase'[d] = "pending" => timer'[d] = "armed"
            /\ phase'[d] \in {"header", "pending"} => sock'[d] = "open"
            /\ phase'[d] = "paired" <=> peer'[d] # None
      BY <3>1, <2>1 DEF RelayInv, RelayTypeOK, PairingIsConsistent
    <3> QED  BY <3>1, <3>2, <3>3, <3>4 DEF RelayInv, PairingIsConsistent
  <2>3. PairClosedByPipesOnly'
    BY <1>3, <2>1 DEF RelayInv, RelayTypeOK, PairClosedByPipesOnly, TimerFires
  <2> QED  BY <1>2, <2>2, <2>3 DEF RelayInv
<1>4. CASE ~ StillPending(c)
  <2>1. phase[c] # "pending"
    BY <1>4 DEF RelayInv, PairingIsConsistent, StillPending
  <2>2. PairingIsConsistent'
    BY <1>4, <2>1 DEF RelayInv, RelayTypeOK, PairingIsConsistent, TimerFires
  <2>3. PairClosedByPipesOnly'
    BY <1>4 DEF RelayInv, RelayTypeOK, PairClosedByPipesOnly, TimerFires
  <2> QED  BY <1>2, <2>2, <2>3 DEF RelayInv
<1> QED  BY <1>3, <1>4

\* A pipe that ends closes the other connection of its own pair.
LEMMA PipeEndsKeeps ==
  ASSUME RelayInv, NEW c \in Conns, PipeEnds(c)  PROVE RelayInv'
<1>0. pipe[c] # "none"  BY DEF PipeEnds, SourceEnded, WriteFails
<1>1. /\ peer[c] \in Conns /\ peer[peer[c]] = c
      /\ phase[peer[c]] = "paired"
  BY <1>0, RelayAssumption DEF RelayInv, RelayTypeOK, PairingIsConsistent
<1>2. RelayTypeOK'  BY <1>0, <1>1 DEF RelayInv, RelayTypeOK, PipeEnds
<1>3. PairingIsConsistent'
  BY <1>1 DEF RelayInv, RelayTypeOK, PairingIsConsistent, PipeEnds
<1>4. ASSUME NEW d \in Conns, peer[d] # None, sock'[d] = "closed"
      PROVE  pipe'[peer[d]] = "ended"
  <2>1. CASE d = peer[c]  BY <2>1, <1>1 DEF RelayInv, RelayTypeOK, PipeEnds
  <2>2. CASE d # peer[c]
    <3>1. sock[d] = "closed"  BY <2>2, <1>1, <1>4 DEF RelayInv, RelayTypeOK, PipeEnds
    <3>2. pipe[peer[d]] = "ended" /\ peer[d] \in Conns
      BY <3>1, <1>4 DEF RelayInv, RelayTypeOK, PairClosedByPipesOnly
    <3> QED  BY <3>2 DEF RelayInv, RelayTypeOK, PipeEnds
  <2> QED  BY <2>1, <2>2
<1>5. PairClosedByPipesOnly'  BY <1>4 DEF PairClosedByPipesOnly, PipeEnds
<1> QED  BY <1>2, <1>3, <1>5 DEF RelayInv

\* A write that blocks or goes on closes nothing and ends no pipe.
LEMMA WriteWaitsKeeps ==
  ASSUME RelayInv, NEW c \in Conns, WriteBlocks(c) \/ WriteResumes(c)  PROVE RelayInv'
<1>1. /\ UNCHANGED <<phase, pending, peer, timer, sock, client>>
      /\ pipe[c] \in {"copying", "blocked"}
      /\ \/ pipe' = [pipe EXCEPT ![c] = "copying"]
         \/ pipe' = [pipe EXCEPT ![c] = "blocked"]
  BY DEF WriteBlocks, WriteResumes
<1>2. RelayTypeOK'  BY <1>1 DEF RelayInv, RelayTypeOK
<1>3. PairingIsConsistent'  BY <1>1 DEF RelayInv, PairingIsConsistent
<1>4. ASSUME NEW d \in Conns, peer[d] # None, sock[d] = "closed"
      PROVE  pipe'[peer[d]] = "ended"
  <2>1. pipe[peer[d]] = "ended" /\ peer[d] \in Conns
    BY <1>4 DEF RelayInv, RelayTypeOK, PairClosedByPipesOnly
  <2> QED  BY <1>1, <2>1 DEF RelayInv, RelayTypeOK
<1> QED  BY <1>1, <1>2, <1>3, <1>4 DEF RelayInv, PairClosedByPipesOnly

\* What a client does changes nothing on the server.
LEMMA ClientKeeps ==
  ASSUME RelayInv, NEW c \in Conns, ClientStopsOrReads(c) \/ ClientLeaves(c)  PROVE RelayInv'
<1>1. RelayTypeOK'  BY DEF RelayInv, RelayTypeOK, ClientStopsOrReads, ClientLeaves
<1>2. PairingIsConsistent' /\ PairClosedByPipesOnly'
  BY DEF RelayInv, PairingIsConsistent, PairClosedByPipesOnly, ClientStopsOrReads, ClientLeaves
<1> QED  BY <1>1, <1>2 DEF RelayInv

\* One step per action.
LEMMA RelayStep == RelayInv /\ [RelayNext]_relayVars => RelayInv'
<1> SUFFICES ASSUME RelayInv, [RelayNext]_relayVars PROVE RelayInv'  OBVIOUS
<1>1. ASSUME NEW c \in Conns, HeaderFails(c) PROVE RelayInv'
  BY <1>1, HeaderFailsKeeps
<1>2. ASSUME NEW c \in Conns, HeaderRead(c) PROVE RelayInv'
  BY <1>2, PairKeeps, BecomePendingKeeps DEF HeaderRead
<1>3. ASSUME NEW c \in Conns, TimerFires(c) PROVE RelayInv'
  BY <1>3, TimerFiresKeeps
<1>4. ASSUME NEW c \in Conns, PipeEnds(c) PROVE RelayInv'
  BY <1>4, PipeEndsKeeps
<1>5. ASSUME NEW c \in Conns, WriteBlocks(c) \/ WriteResumes(c) PROVE RelayInv'
  BY <1>5, WriteWaitsKeeps
<1>6. ASSUME NEW c \in Conns, ClientStopsOrReads(c) \/ ClientLeaves(c) PROVE RelayInv'
  BY <1>6, ClientKeeps
<1>7. CASE UNCHANGED relayVars
  BY <1>7 DEF relayVars, RelayInv, RelayTypeOK, PairingIsConsistent, PairClosedByPipesOnly
<1> QED  BY <1>1, <1>2, <1>3, <1>4, <1>5, <1>6, <1>7 DEF RelayNext

\* The invariant of the relay.
THEOREM RelayInvariant == RelaySpec => []RelayInv
<1>1. RelayInit => RelayInv  BY RelayStarts
<1>2. RelayInv /\ [RelayNext]_relayVars => RelayInv'  BY RelayStep
<1> QED  BY <1>1, <1>2, PTL DEF RelaySpec

(***************************************************************************)
(* Type correctness; both directions of every pair have their pipe.        *)
(***************************************************************************)
THEOREM RelayTypeCorrect == RelaySpec => []RelayTypeOK
<1>1. RelayInv => RelayTypeOK  BY DEF RelayInv
<1> QED  BY <1>1, RelayInvariant, PTL

(***************************************************************************)
(* rh.pending and the pairs agree: a connection is relayed to at most one  *)
(* other, of its own room, and never to itself (relay.go:59-71).           *)
(***************************************************************************)
THEOREM PairsAreConsistent == RelaySpec => []PairingIsConsistent
<1>1. RelayInv => PairingIsConsistent  BY DEF RelayInv
<1> QED  BY <1>1, RelayInvariant, PTL

(***************************************************************************)
(* The test `ok && c == conn` in the timer (relay.go:76) is enough: a      *)
(* paired connection is closed by its pipe and never by a timer.           *)
(***************************************************************************)
THEOREM TimerNeverHitsAPair == RelaySpec => []PairClosedByPipesOnly
<1>1. RelayInv => PairClosedByPipesOnly  BY DEF RelayInv
<1> QED  BY <1>1, RelayInvariant, PTL
=============================================================================
