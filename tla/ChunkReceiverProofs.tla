-------------------------- MODULE ChunkReceiverProofs --------------------------
(***************************************************************************)
(* Proofs about ChunkReceiver, for every file size and every browser.      *)
(*                                                                         *)
(* The inductive invariant is TypeOK, Accounting, InOrder and Phases       *)
(* together: InOrder needs Phases to know which sink the run is appended   *)
(* to is the last one in use, TypeOK needs Accounting to bound the counter,*)
(* and Phases needs Accounting to know that a full count means a full file.*)
(***************************************************************************)
EXTENDS ChunkReceiver, FiniteSetTheorems, SequenceTheorems, TLAPS

ReceiverInv == TypeOK /\ Accounting /\ InOrder /\ Phases

-----------------------------------------------------------------------------
(* Runs of consecutive chunks *)

\* A run below the end of the file is a sequence of chunks.
LEMMA RunIsSeq ==
  ASSUME NEW a \in Nat, NEW b \in Nat, a <= b, b <= TotalChunks, TotalChunks \in Nat
  PROVE  ChunkRun(a, b) \in Seq(Chunks) /\ Len(ChunkRun(a, b)) = b - a
<1>1. b - a \in Nat  OBVIOUS
<1>2. \A i \in 1 .. b - a : a + i - 1 \in Chunks  BY DEF Chunks
<1> QED  BY <1>1, <1>2 DEF ChunkRun

\* The empty run, and two adjacent runs joined.
LEMMA RunsJoin ==
  ASSUME NEW a \in Nat, NEW b \in Nat, NEW c \in Nat, a <= b, b <= c
  PROVE  /\ ChunkRun(a, b) \o ChunkRun(b, c) = ChunkRun(a, c)
         /\ ChunkRun(a, a) = <<>>
<1>1. /\ ChunkRun(a, b) \in Seq(Nat) /\ Len(ChunkRun(a, b)) = b - a
      /\ ChunkRun(b, c) \in Seq(Nat) /\ Len(ChunkRun(b, c)) = c - b
      /\ ChunkRun(a, c) \in Seq(Nat) /\ Len(ChunkRun(a, c)) = c - a
      /\ ChunkRun(a, a) \in Seq(Nat) /\ Len(ChunkRun(a, a)) = 0
  <2>1. \A i \in 1 .. b - a : a + i - 1 \in Nat  OBVIOUS
  <2>2. \A i \in 1 .. c - b : b + i - 1 \in Nat  OBVIOUS
  <2>3. \A i \in 1 .. c - a : a + i - 1 \in Nat  OBVIOUS
  <2>4. b - a \in Nat /\ c - b \in Nat /\ c - a \in Nat /\ a - a = 0  OBVIOUS
  <2> QED  BY <2>1, <2>2, <2>3, <2>4 DEF ChunkRun
<1>2. /\ \A i \in 1 .. b - a : ChunkRun(a, b)[i] = a + i - 1
      /\ \A i \in 1 .. c - b : ChunkRun(b, c)[i] = b + i - 1
      /\ \A i \in 1 .. c - a : ChunkRun(a, c)[i] = a + i - 1
  BY DEF ChunkRun
<1>3. ChunkRun(a, b) \o ChunkRun(b, c) = ChunkRun(a, c)
  <2> DEFINE p == ChunkRun(a, b)  q == ChunkRun(b, c)  r == ChunkRun(a, c)
  <2>1. /\ p \in Seq(Nat) /\ Len(p) = b - a
        /\ q \in Seq(Nat) /\ Len(q) = c - b
        /\ r \in Seq(Nat) /\ Len(r) = c - a
        /\ \A i \in 1 .. b - a : p[i] = a + i - 1
        /\ \A i \in 1 .. c - b : q[i] = b + i - 1
        /\ \A i \in 1 .. c - a : r[i] = a + i - 1
    BY <1>1, <1>2
  <2> HIDE DEF p, q, r
  <2>2. /\ p \o q \in Seq(Nat) /\ Len(p \o q) = Len(p) + Len(q)
        /\ \A i \in 1 .. Len(p) + Len(q) :
             (p \o q)[i] = IF i <= Len(p) THEN p[i] ELSE q[i - Len(p)]
    BY <2>1, ConcatProperties, Zenon
  <2>3. ASSUME NEW i \in 1 .. c - a  PROVE (p \o q)[i] = r[i]
    <3>1. CASE i <= b - a
      <4>1. i \in 1 .. b - a /\ i <= Len(p) /\ i \in 1 .. Len(p) + Len(q)
        BY <3>1, <2>1
      <4>2. (p \o q)[i] = p[i]  BY <4>1, <2>2
      <4> QED  BY <4>1, <4>2, <2>1
    <3>2. CASE ~ (i <= b - a)
      <4>1. i - (b - a) \in 1 .. c - b  BY <3>2
      <4>2. q[i - (b - a)] = b + (i - (b - a)) - 1  BY <4>1, <2>1
      <4>3. i \in 1 .. Len(p) + Len(q) /\ ~ (i <= Len(p))  BY <3>2, <2>1
      <4>4. (p \o q)[i] = q[i - Len(p)]  BY <4>3, <2>2
      <4> QED  BY <4>2, <4>4, <2>1
    <3> QED  BY <3>1, <3>2, Zenon
  <2>4. p \o q = r
    <3>1. Len(p \o q) = Len(r)  BY <2>1, <2>2
    <3>2. \A i \in 1 .. Len(p \o q) : (p \o q)[i] = r[i]
      <4>1. Len(p \o q) = c - a  BY <2>1, <2>2
      <4> QED  BY <4>1, <2>3
    <3> QED  BY <3>1, <3>2, <2>1, <2>2, SeqEqual, Zenon
  <2> QED  BY <2>4 DEF p, q, r
<1>4. ChunkRun(a, a) = <<>>  BY <1>1
<1> QED  BY <1>3, <1>4

\* Concatenation under a name of its own, which keeps the provers from taking
\* the sequences apart where only its algebra matters.
Cat(p, q) == p \o q

Lists == Seq(Chunks)

\* The algebra of concatenation.
LEMMA CatAlgebra ==
  /\ \A x, y \in Lists : Cat(x, y) \in Lists
  /\ \A x, y, z \in Lists : Cat(Cat(x, y), z) = Cat(x, Cat(y, z))
  /\ \A x \in Lists : Cat(x, <<>>) = x /\ Cat(<<>>, x) = x
<1>1. \A x, y \in Lists : Cat(x, y) \in Lists  BY DEF Cat, Lists
<1>2. \A x, y, z \in Lists : Cat(Cat(x, y), z) = Cat(x, Cat(y, z))
  BY ConcatAssociative DEF Cat, Lists
<1>3. \A x \in Lists : Cat(x, <<>>) = x /\ Cat(<<>>, x) = x
  BY ConcatEmptySeq DEF Cat, Lists
<1> QED  BY <1>1, <1>2, <1>3

\* Where a run lands in the four sinks' concatenation: at its end, when the
\* sinks behind the one it is appended to are empty.
LEMMA AppendToSink ==
  ASSUME NEW d, d \in Lists, NEW s, s \in Lists, NEW f, f \in Lists,
         NEW p, p \in Lists, NEW r, r \in Lists
  PROVE  /\ Cat(d, Cat(s, Cat(f, Cat(p, r)))) = Cat(Cat(d, Cat(s, Cat(f, p))), r)
         /\ p = <<>> =>
              Cat(d, Cat(s, Cat(Cat(f, r), p))) = Cat(Cat(d, Cat(s, Cat(f, p))), r)
         /\ s = <<>> /\ f = <<>> /\ p = <<>> =>
              Cat(Cat(d, r), Cat(s, Cat(f, p))) = Cat(Cat(d, Cat(s, Cat(f, p))), r)
         /\ s = <<>> /\ p = <<>> =>
              Cat(d, Cat(f, Cat(s, p))) = Cat(d, Cat(s, Cat(f, p)))
<1>1. Cat(d, Cat(s, Cat(f, Cat(p, r)))) = Cat(Cat(d, Cat(s, Cat(f, p))), r)
  <2>1. Cat(f, p) \in Lists /\ Cat(s, Cat(f, p)) \in Lists  BY CatAlgebra, Zenon
  <2>2. Cat(Cat(f, p), r) = Cat(f, Cat(p, r))  BY CatAlgebra, Zenon
  <2>3. ASSUME NEW x \in Lists, NEW y \in Lists
        PROVE  Cat(Cat(x, y), r) = Cat(x, Cat(y, r))
    BY CatAlgebra, ZenonT(30)
  <2>4. /\ Cat(Cat(s, Cat(f, p)), r) = Cat(s, Cat(Cat(f, p), r))
        /\ Cat(Cat(d, Cat(s, Cat(f, p))), r) = Cat(d, Cat(Cat(s, Cat(f, p)), r))
    BY <2>1, <2>3, ZenonT(30)
  <2> QED  BY <2>2, <2>4, Zenon
<1>2. ASSUME p = <<>>
      PROVE  Cat(d, Cat(s, Cat(Cat(f, r), p))) = Cat(Cat(d, Cat(s, Cat(f, p))), r)
  <2>1. Cat(f, r) \in Lists  BY CatAlgebra, Zenon
  <2>2. Cat(p, r) = r  BY <1>2, CatAlgebra, Zenon
  <2>3. Cat(Cat(f, r), p) = Cat(f, r)  BY <1>2, <2>1, CatAlgebra, Zenon
  <2> QED  BY <2>2, <2>3, <1>1, Zenon
<1>3. ASSUME s = <<>>, f = <<>>, p = <<>>
      PROVE  Cat(Cat(d, r), Cat(s, Cat(f, p))) = Cat(Cat(d, Cat(s, Cat(f, p))), r)
  <2>1. Cat(s, Cat(f, p)) = <<>>
    <3>1. Cat(f, p) = <<>>  BY <1>3, CatAlgebra, Zenon
    <3> QED  BY <3>1, <1>3, CatAlgebra, Zenon
  <2>2. Cat(d, r) \in Lists  BY CatAlgebra, Zenon
  <2>3. Cat(Cat(d, r), <<>>) = Cat(d, r) /\ Cat(d, <<>>) = d  BY <2>2, CatAlgebra, Zenon
  <2> QED  BY <2>1, <2>3, Zenon
<1>4. ASSUME s = <<>>, p = <<>>
      PROVE  Cat(d, Cat(f, Cat(s, p))) = Cat(d, Cat(s, Cat(f, p)))
  <2>1. Cat(s, p) = <<>>  BY <1>4, CatAlgebra, Zenon
  <2>2. Cat(f, <<>>) = f /\ Cat(f, p) = f /\ Cat(s, f) = f  BY <1>4, CatAlgebra, Zenon
  <2> QED  BY <2>1, <2>2, Zenon
<1> QED  BY <1>1, <1>2, <1>3, <1>4, Zenon

-----------------------------------------------------------------------------
(* Counting *)

\* What a new chunk does to the stash and the count: they stay in step, and a
\* full count leaves no gap and no stash.
LEMMA NewChunkCounts ==
  ASSUME TypeOK, Accounting,
         NEW c \in Chunks, ~ Duplicate(c),
         NEW n \in 0 .. TotalChunks, WritesUpTo(c, n)
  PROVE  /\ nextWriteIndex <= n
         /\ StashAfter(c, n) \subseteq n + 1 .. TotalChunks - 1
         /\ receivedChunks + 1 = n + Cardinality(StashAfter(c, n))
         /\ receivedChunks + 1 <= TotalChunks
         /\ receivedChunks + 1 = TotalChunks => n = TotalChunks /\ StashAfter(c, n) = {}
<1>1. /\ TotalChunks \in Nat \ {0}
      /\ nextWriteIndex \in 0 .. TotalChunks
      /\ receivedChunks \in 0 .. TotalChunks
      /\ receivedChunks = nextWriteIndex + Cardinality(pendingChunks)
      /\ pendingChunks \subseteq nextWriteIndex + 1 .. TotalChunks - 1
      /\ c \in 0 .. TotalChunks - 1
      /\ c >= nextWriteIndex /\ c \notin pendingChunks
  BY ReceiverAssumption DEF TypeOK, Accounting, Chunks, Duplicate
<1>2. IsFiniteSet(pendingChunks) /\ Cardinality(pendingChunks) \in Nat
  <2>1. IsFiniteSet(nextWriteIndex + 1 .. TotalChunks - 1)  BY <1>1, FS_Interval
  <2>2. IsFiniteSet(pendingChunks)  BY <1>1, <2>1, FS_Subset
  <2> QED  BY <2>2, FS_CardinalityType
<1>3. /\ nextWriteIndex <= n
      /\ StashAfter(c, n) \subseteq n + 1 .. TotalChunks - 1
      /\ receivedChunks + 1 = n + Cardinality(StashAfter(c, n))
  <2>1. CASE c # nextWriteIndex
    <3>1. n = nextWriteIndex  BY <2>1 DEF WritesUpTo
    <3>2. StashAfter(c, n) = pendingChunks \cup {c}
      BY <3>1, <1>1 DEF StashAfter
    <3>3. Cardinality(pendingChunks \cup {c}) = Cardinality(pendingChunks) + 1
      BY <1>1, <1>2, FS_AddElement
    <3> QED  BY <3>1, <3>2, <3>3, <1>1, <1>2, <2>1
  <2>2. CASE c = nextWriteIndex
    <3> DEFINE run == nextWriteIndex + 1 .. n - 1
    <3>1. /\ n \in nextWriteIndex + 1 .. TotalChunks
          /\ run \subseteq pendingChunks
          /\ n \notin pendingChunks
      BY <2>2 DEF WritesUpTo
    <3>2. StashAfter(c, n) = pendingChunks \ run
      BY <2>2, <3>1, <1>1 DEF StashAfter
    <3>3. pendingChunks \cap run = run /\ Cardinality(run) = n - 1 - nextWriteIndex
      <4>1. pendingChunks \cap run = run  BY <3>1
      <4>2. Cardinality(run) = IF nextWriteIndex + 1 > n - 1 THEN 0
                               ELSE (n - 1) - (nextWriteIndex + 1) + 1
        BY <1>1, <3>1, FS_Interval
      <4> QED  BY <4>1, <4>2, <1>1, <3>1
    <3>4. Cardinality(pendingChunks \ run) =
            Cardinality(pendingChunks) - Cardinality(pendingChunks \cap run)
      BY <1>2, FS_Difference
    <3>5. StashAfter(c, n) \subseteq n + 1 .. TotalChunks - 1
      BY <3>1, <3>2, <1>1
    <3>6. Cardinality(StashAfter(c, n)) =
            Cardinality(pendingChunks) - (n - 1 - nextWriteIndex)
      BY <3>2, <3>3, <3>4
    <3> HIDE DEF run
    <3> QED  BY <3>1, <3>5, <3>6, <1>1, <1>2
  <2> QED  BY <2>1, <2>2
<1>4. /\ Cardinality(StashAfter(c, n)) \in Nat
      /\ Cardinality(StashAfter(c, n)) <= IF n + 1 > TotalChunks - 1 THEN 0
                                          ELSE TotalChunks - 1 - n
      /\ Cardinality(StashAfter(c, n)) = 0 => StashAfter(c, n) = {}
  <2>1. /\ IsFiniteSet(n + 1 .. TotalChunks - 1)
        /\ Cardinality(n + 1 .. TotalChunks - 1) =
             IF n + 1 > TotalChunks - 1 THEN 0 ELSE (TotalChunks - 1) - (n + 1) + 1
    <3>1. n + 1 \in Int /\ TotalChunks - 1 \in Int  BY <1>1
    <3> QED  BY <3>1, FS_Interval, Zenon
  <2>2. /\ IsFiniteSet(StashAfter(c, n))
        /\ Cardinality(StashAfter(c, n)) <= Cardinality(n + 1 .. TotalChunks - 1)
    BY <1>3, <2>1, FS_Subset
  <2>3. /\ Cardinality(StashAfter(c, n)) \in Nat
        /\ Cardinality(StashAfter(c, n)) = 0 => StashAfter(c, n) = {}
    BY <2>2, FS_CardinalityType, FS_EmptySet
  <2> QED  BY <2>1, <2>2, <2>3, <1>1
<1>5. receivedChunks + 1 <= TotalChunks  BY <1>1, <1>3, <1>4
<1>6. receivedChunks + 1 = TotalChunks => n = TotalChunks /\ StashAfter(c, n) = {}
  BY <1>1, <1>3, <1>4
<1> QED  BY <1>3, <1>5, <1>6

\* A full count means a full file and an empty stash.
LEMMA FullCount ==
  ASSUME TypeOK, Accounting, receivedChunks = TotalChunks
  PROVE  nextWriteIndex = TotalChunks /\ pendingChunks = {}
<1>1. /\ TotalChunks \in Nat \ {0}
      /\ nextWriteIndex \in 0 .. TotalChunks
      /\ receivedChunks = nextWriteIndex + Cardinality(pendingChunks)
      /\ pendingChunks \subseteq nextWriteIndex + 1 .. TotalChunks - 1
  BY ReceiverAssumption DEF TypeOK, Accounting
<1>2. /\ IsFiniteSet(nextWriteIndex + 1 .. TotalChunks - 1)
      /\ Cardinality(nextWriteIndex + 1 .. TotalChunks - 1) =
           IF nextWriteIndex + 1 > TotalChunks - 1 THEN 0
           ELSE (TotalChunks - 1) - (nextWriteIndex + 1) + 1
  <2>1. nextWriteIndex + 1 \in Int /\ TotalChunks - 1 \in Int  BY <1>1
  <2> QED  BY <2>1, FS_Interval, Zenon
<1>3. Cardinality(pendingChunks) <= Cardinality(nextWriteIndex + 1 .. TotalChunks - 1)
  BY <1>1, <1>2, FS_Subset
<1>4. nextWriteIndex = TotalChunks
  <2> DEFINE size == Cardinality(nextWriteIndex + 1 .. TotalChunks - 1)
             held == Cardinality(pendingChunks)
  <2>1. size = IF nextWriteIndex + 1 > TotalChunks - 1 THEN 0
               ELSE (TotalChunks - 1) - (nextWriteIndex + 1) + 1
    BY <1>2
  <2>2. held <= size /\ TotalChunks = nextWriteIndex + held  BY <1>1, <1>3
  <2>3. held \in Nat  BY <1>1, <1>2, FS_Subset, FS_CardinalityType
  <2>4. TotalChunks \in Nat /\ nextWriteIndex \in 0 .. TotalChunks  BY <1>1
  <2> HIDE DEF size, held
  <2>5. CASE nextWriteIndex + 1 > TotalChunks - 1
    <3>1. held <= 0  BY <2>1, <2>2, <2>5
    <3> QED  BY ONLY <3>1, <2>2, <2>3, <2>4
  <2>6. CASE ~ (nextWriteIndex + 1 > TotalChunks - 1)
    <3>1. held <= (TotalChunks - 1) - (nextWriteIndex + 1) + 1  BY <2>1, <2>2, <2>6
    <3> QED  BY ONLY <3>1, <2>2, <2>3, <2>4
  <2> QED  BY <2>5, <2>6, Zenon
<1> QED  BY <1>1, <1>4

-----------------------------------------------------------------------------
(* The invariant is inductive *)

\* The four sinks in the order InOrder reads them, as one list.
LEMMA InOrderIsCat ==
  /\ InOrder <=> Cat(discarded, Cat(saved, Cat(fallbackChunks, posted)))
                   = ChunkRun(0, nextWriteIndex)
  /\ InOrder' <=> Cat(discarded', Cat(saved', Cat(fallbackChunks', posted')))
                    = ChunkRun(0, nextWriteIndex')
BY DEF InOrder, Cat, ChunkRun

\* Nothing was received and nothing was written.
LEMMA InitEstablishes == Init => ReceiverInv
<1> SUFFICES ASSUME Init PROVE ReceiverInv  OBVIOUS
<1>1. TypeOK
  <2>1. <<>> \in Seq(Chunks) /\ {} \in SUBSET Chunks /\ 0 \in 0 .. TotalChunks
    BY ReceiverAssumption
  <2> QED  BY <2>1, Zenon DEF Init, TypeOK
<1>2. Accounting
  <2>1. Cardinality({}) = 0  BY FS_EmptySet
  <2> QED  BY <2>1 DEF Init, Accounting
<1>3. InOrder
  <2>1. ChunkRun(0, 0) = <<>>  BY RunsJoin
  <2>2. Cat(<<>>, Cat(<<>>, Cat(<<>>, <<>>))) = <<>>  BY DEF Cat
  <2> QED  BY <2>1, <2>2, InOrderIsCat DEF Init
<1>4. Phases  BY ReceiverAssumption DEF Init, Phases
<1> QED  BY <1>1, <1>2, <1>3, <1>4 DEF ReceiverInv

\* Facts a step of HandleChunk starts from.
LEMMA HandleChunkStart ==
  ASSUME ReceiverInv, NEW c \in Chunks, HandleChunk(c),
         NEW n \in 0 .. TotalChunks, WritesUpTo(c, n)
  PROVE  /\ TotalChunks \in Nat \ {0} /\ nextWriteIndex \in 0 .. TotalChunks
         /\ nextWriteIndex <= n
         /\ ChunkRun(nextWriteIndex, n) \in Lists
         /\ ~ finished /\ saved = <<>> /\ ~ swClosed
         /\ receivedChunks + 1 \in 0 .. TotalChunks
<1>1. TypeOK /\ Accounting /\ Phases  BY DEF ReceiverInv
<1>2. /\ TotalChunks \in Nat \ {0} /\ nextWriteIndex \in 0 .. TotalChunks
      /\ receivedChunks \in 0 .. TotalChunks
  BY <1>1, ReceiverAssumption DEF TypeOK
<1>3. nextWriteIndex <= n /\ receivedChunks + 1 <= TotalChunks
  BY <1>1, NewChunkCounts DEF HandleChunk
<1>4. ChunkRun(nextWriteIndex, n) \in Lists  BY <1>2, <1>3, RunIsSeq DEF Lists
<1>5. ~ finished
  <2>1. receivedChunks # TotalChunks  BY <1>2, <1>3
  <2> QED  BY <2>1, <1>1 DEF Phases
<1>6. saved = <<>> /\ ~ swClosed  BY <1>1, <1>5 DEF Phases
<1> QED  BY <1>2, <1>3, <1>4, <1>5, <1>6

\* A new chunk keeps the order: the run it unblocks goes to the end.
LEMMA HandleChunkKeepsOrder ==
  ASSUME ReceiverInv, NEW c \in Chunks, HandleChunk(c)
  PROVE  InOrder' /\ discarded' \in Lists /\ saved' \in Lists
         /\ fallbackChunks' \in Lists /\ posted' \in Lists
<1>1. PICK n \in 0 .. TotalChunks :
        /\ WritesUpTo(c, n)
        /\ nextWriteIndex' = n
        /\ Write(ChunkRun(nextWriteIndex, n))
        /\ IF Completes
           THEN /\ pendingChunks' = {}
                /\ FinishDownload(Fallback(ChunkRun(nextWriteIndex, n)))
           ELSE /\ pendingChunks' = StashAfter(c, n)
                /\ fallbackChunks' = Fallback(ChunkRun(nextWriteIndex, n))
                /\ UNCHANGED <<saved, swClosed, finished>>
  BY Zenon DEF HandleChunk
<1>2. /\ TotalChunks \in Nat \ {0} /\ nextWriteIndex \in 0 .. TotalChunks
      /\ nextWriteIndex <= n
      /\ ChunkRun(nextWriteIndex, n) \in Lists
      /\ saved = <<>>
  BY <1>1, HandleChunkStart
<1> DEFINE run == ChunkRun(nextWriteIndex, n)
<1>3. /\ discarded \in Lists /\ saved \in Lists
      /\ fallbackChunks \in Lists /\ posted \in Lists
      /\ <<>> \in Lists
  BY DEF ReceiverInv, TypeOK, Lists
<1>4. /\ mode = "none" => fallbackChunks = <<>>
      /\ mode # "sw" => posted = <<>>
      /\ mode \in {"none", "preparing", "sw", "blob"}
  BY DEF ReceiverInv, Phases, TypeOK
<1>5. Cat(Cat(discarded, Cat(saved, Cat(fallbackChunks, posted))), run)
        = ChunkRun(0, n)
  <2>1. Cat(discarded, Cat(saved, Cat(fallbackChunks, posted)))
          = ChunkRun(0, nextWriteIndex)
    BY InOrderIsCat DEF ReceiverInv
  <2>2. ChunkRun(0, nextWriteIndex) \o ChunkRun(nextWriteIndex, n) = ChunkRun(0, n)
    <3>1. 0 \in Nat /\ nextWriteIndex \in Nat /\ n \in Nat /\ 0 <= nextWriteIndex
      BY <1>2
    <3> QED  BY ONLY <3>1, <1>2, RunsJoin, Zenon
  <2> QED  BY <2>1, <2>2 DEF Cat
<1>6. Cat(fallbackChunks, run) \in Lists /\ Cat(discarded, run) \in Lists
      /\ Cat(posted, run) \in Lists
  BY <1>2, <1>3, CatAlgebra, Zenon
<1>7. CASE mode = "none"
  <2>1. /\ discarded' = Cat(discarded, run) /\ posted' = posted
        /\ fallbackChunks' = fallbackChunks /\ saved' = saved
    BY <1>1, <1>7 DEF Write, Fallback, Completes, Cat
  <2>2. Cat(Cat(discarded, run), Cat(saved, Cat(fallbackChunks, posted)))
          = Cat(Cat(discarded, Cat(saved, Cat(fallbackChunks, posted))), run)
    BY <1>2, <1>3, <1>4, <1>7, AppendToSink
  <2> QED  BY <2>1, <2>2, <1>1, <1>3, <1>5, <1>6, InOrderIsCat
<1>8. CASE mode \in {"preparing", "blob"} /\ ~ Completes
  <2>1. /\ fallbackChunks' = Cat(fallbackChunks, run) /\ posted' = posted
        /\ discarded' = discarded /\ saved' = saved
    BY <1>1, <1>8 DEF Write, Fallback, Cat
  <2>2. Cat(discarded, Cat(saved, Cat(Cat(fallbackChunks, run), posted)))
          = Cat(Cat(discarded, Cat(saved, Cat(fallbackChunks, posted))), run)
    <3>1. posted = <<>>  BY <1>4, <1>8
    <3> QED  BY <3>1, <1>2, <1>3, AppendToSink
  <2> QED  BY <2>1, <2>2, <1>1, <1>3, <1>5, <1>6, InOrderIsCat
<1>9. CASE mode \in {"preparing", "blob"} /\ Completes
  <2>1. /\ saved' = Cat(fallbackChunks, run) /\ fallbackChunks' = saved
        /\ discarded' = discarded /\ posted' = posted
    BY <1>1, <1>2, <1>9 DEF Write, Fallback, FinishDownload, Cat
  <2>2. posted = <<>>  BY <1>4, <1>9
  <2>3. Cat(discarded, Cat(saved, Cat(Cat(fallbackChunks, run), posted)))
          = Cat(Cat(discarded, Cat(saved, Cat(fallbackChunks, posted))), run)
    BY <1>2, <1>3, <2>2, AppendToSink
  <2>4. Cat(discarded, Cat(Cat(fallbackChunks, run), Cat(saved, posted)))
          = Cat(discarded, Cat(saved, Cat(Cat(fallbackChunks, run), posted)))
    BY <1>2, <1>3, <1>6, <2>2, AppendToSink
  <2> QED  BY <2>1, <2>3, <2>4, <1>1, <1>3, <1>5, <1>6, InOrderIsCat
<1>10. CASE mode = "sw"
  <2>1. /\ posted' = Cat(posted, run) /\ fallbackChunks' = fallbackChunks
        /\ discarded' = discarded /\ saved' = saved
    BY <1>1, <1>10 DEF Write, Fallback, FinishDownload, Cat
  <2>2. Cat(discarded, Cat(saved, Cat(fallbackChunks, Cat(posted, run))))
          = Cat(Cat(discarded, Cat(saved, Cat(fallbackChunks, posted))), run)
    BY <1>2, <1>3, AppendToSink
  <2> QED  BY <2>1, <2>2, <1>1, <1>3, <1>5, <1>6, InOrderIsCat
<1> QED  BY <1>4, <1>7, <1>8, <1>9, <1>10

\* A new chunk keeps the whole invariant.
LEMMA HandleChunkKeepsInv ==
  ASSUME ReceiverInv, NEW c \in Chunks, HandleChunk(c)
  PROVE  ReceiverInv'
<1>1. PICK n \in 0 .. TotalChunks :
        /\ WritesUpTo(c, n)
        /\ nextWriteIndex' = n
        /\ Write(ChunkRun(nextWriteIndex, n))
        /\ IF Completes
           THEN /\ pendingChunks' = {}
                /\ FinishDownload(Fallback(ChunkRun(nextWriteIndex, n)))
           ELSE /\ pendingChunks' = StashAfter(c, n)
                /\ fallbackChunks' = Fallback(ChunkRun(nextWriteIndex, n))
                /\ UNCHANGED <<saved, swClosed, finished>>
  BY Zenon DEF HandleChunk
<1>2. receivedChunks' = receivedChunks + 1 /\ mode' = mode /\ ~ Duplicate(c)
  BY DEF HandleChunk
<1>3. TypeOK /\ Accounting /\ Phases  BY DEF ReceiverInv
<1>4. /\ TotalChunks \in Nat \ {0}
      /\ ~ finished /\ saved = <<>> /\ ~ swClosed
      /\ receivedChunks + 1 \in 0 .. TotalChunks
  BY <1>1, HandleChunkStart
<1>5. /\ StashAfter(c, n) \subseteq n + 1 .. TotalChunks - 1
      /\ receivedChunks + 1 = n + Cardinality(StashAfter(c, n))
      /\ receivedChunks + 1 = TotalChunks => n = TotalChunks /\ StashAfter(c, n) = {}
  BY <1>1, <1>2, <1>3, NewChunkCounts
<1>6. pendingChunks' = StashAfter(c, n)
  BY <1>1, <1>5 DEF Completes
<1>7. Accounting'  BY <1>1, <1>2, <1>5, <1>6 DEF Accounting
<1>8. /\ InOrder'
      /\ discarded' \in Lists /\ saved' \in Lists
      /\ fallbackChunks' \in Lists /\ posted' \in Lists
  BY HandleChunkKeepsOrder
<1>9. TypeOK'
  <2>1. pendingChunks' \in SUBSET Chunks  BY <1>5, <1>6 DEF Chunks
  <2>2. swClosed' \in BOOLEAN /\ finished' \in BOOLEAN
    BY <1>1, <1>3 DEF TypeOK, FinishDownload
  <2>3. mode' \in {"none", "preparing", "sw", "blob"}  BY <1>2, <1>3 DEF TypeOK
  <2>4. receivedChunks' \in 0 .. TotalChunks  BY <1>2, <1>4
  <2>5. nextWriteIndex' \in 0 .. TotalChunks  BY <1>1
  <2> QED  BY <2>1, <2>2, <2>3, <2>4, <2>5, <1>8, Zenon DEF TypeOK, Lists
<1>10. Phases'
  <2>1. /\ mode = "none" => fallbackChunks = <<>>
        /\ mode # "sw" => posted = <<>>
    BY <1>3 DEF Phases
  <2>2. CASE Completes
    <3>1. /\ IF mode = "sw"
             THEN saved' = saved /\ fallbackChunks' = Fallback(ChunkRun(nextWriteIndex, n))
             ELSE saved' = Fallback(ChunkRun(nextWriteIndex, n)) /\ fallbackChunks' = <<>>
          /\ swClosed' = (mode = "sw")
          /\ finished' = TRUE
          /\ mode # "none" /\ receivedChunks + 1 = TotalChunks
      BY <1>1, <2>2 DEF FinishDownload, Completes
    <3>2. mode # "sw" => posted' = <<>>  BY <1>1, <2>1 DEF Write
    <3> QED  BY <3>1, <3>2, <1>2, <1>4 DEF Phases
  <2>3. CASE ~ Completes
    <3>1. UNCHANGED <<saved, swClosed, finished>>
          /\ fallbackChunks' = Fallback(ChunkRun(nextWriteIndex, n))
      BY <1>1, <2>3
    <3>2. /\ mode = "none" => fallbackChunks' = <<>>
          /\ mode # "sw" => posted' = <<>>
      BY <3>1, <1>1, <2>1 DEF Write, Fallback
    <3>3. receivedChunks' = TotalChunks => discarded' # <<>>
      <4>1. SUFFICES ASSUME receivedChunks + 1 = TotalChunks, discarded' = <<>>
                     PROVE  FALSE
        BY <1>2
      <4>2. mode = "none"  BY <4>1, <2>3 DEF Completes
      <4>3. fallbackChunks' = <<>> /\ posted' = <<>> /\ saved' = <<>>
        BY <4>2, <3>1, <3>2, <1>4
      <4>4. ChunkRun(0, TotalChunks) = <<>>
        <5>1. Cat(discarded', Cat(saved', Cat(fallbackChunks', posted')))
                = ChunkRun(0, nextWriteIndex')
          BY <1>8, InOrderIsCat
        <5>2. Cat(<<>>, Cat(<<>>, Cat(<<>>, <<>>))) = <<>>  BY DEF Cat
        <5>3. nextWriteIndex' = TotalChunks  BY <4>1, <1>1, <1>5
        <5> QED  BY <4>1, <4>3, <5>1, <5>2, <5>3
      <4>5. Len(ChunkRun(0, TotalChunks)) = TotalChunks  BY <1>4, RunIsSeq
      <4> QED  BY <4>4, <4>5, <1>4
    <3> QED  BY <3>1, <3>2, <3>3, <1>2, <1>4 DEF Phases
  <2> QED  BY <2>2, <2>3
<1> QED  BY <1>7, <1>8, <1>9, <1>10 DEF ReceiverInv

\* The file-info, the end of prepare() and stuttering write nothing.
LEMMA ModeChangesKeepInv ==
  ASSUME ReceiverInv, UNCHANGED <<orderVars, sinkVars, finished>>,
         \/ mode = "none" /\ mode' = "preparing"
         \/ mode = "preparing" /\ mode' \in {"sw", "blob"}
         \/ mode' = mode
  PROVE  ReceiverInv'
<1>1. UNCHANGED <<receivedChunks, nextWriteIndex, pendingChunks, discarded,
                  fallbackChunks, posted, saved, swClosed, finished>>
  BY DEF orderVars, sinkVars
<1>2. TypeOK'  BY <1>1 DEF ReceiverInv, TypeOK
<1>3. Accounting'  BY <1>1 DEF ReceiverInv, Accounting
<1>4. InOrder'  BY <1>1 DEF ReceiverInv, InOrder, ChunkRun
<1>5. Phases'  BY <1>1 DEF ReceiverInv, Phases
<1> QED  BY <1>2, <1>3, <1>4, <1>5 DEF ReceiverInv

\* One step per action.
LEMMA ReceiverStep == ReceiverInv /\ [Next]_vars => ReceiverInv'
<1> SUFFICES ASSUME ReceiverInv, [Next]_vars PROVE ReceiverInv'  OBVIOUS
<1>1. CASE \E c \in Chunks : HandleChunk(c)  BY <1>1, HandleChunkKeepsInv
<1>2. CASE FileInfoReceived  BY <1>2, ModeChangesKeepInv DEF FileInfoReceived
<1>3. CASE \E m \in Modes : PrepareDone(m)
  <2>1. PICK m \in Modes : PrepareDone(m)  BY <1>3
  <2>2. m \in {"sw", "blob"}  BY ReceiverAssumption
  <2> QED  BY <2>1, <2>2, ModeChangesKeepInv DEF PrepareDone
<1>4. CASE UNCHANGED vars  BY <1>4, ModeChangesKeepInv DEF vars
<1> QED  BY <1>1, <1>2, <1>3, <1>4 DEF Next

(***************************************************************************)
(* The inductive invariant of the receiver.                                *)
(***************************************************************************)
THEOREM ReceiverInvariant == Spec => []ReceiverInv
<1>1. Init => ReceiverInv  BY InitEstablishes
<1>2. ReceiverInv /\ [Next]_vars => ReceiverInv'  BY ReceiverStep
<1> QED  BY <1>1, <1>2, PTL DEF Spec

(***************************************************************************)
(* Type correctness: neither the count of received chunks nor the write    *)
(* index of _handleChunk passes totalChunks, whatever is delivered.        *)
(***************************************************************************)
THEOREM ReceiverTypeCorrect == Spec => []TypeOK
<1>1. ReceiverInv => TypeOK  BY DEF ReceiverInv
<1> QED  BY <1>1, ReceiverInvariant, PTL

(***************************************************************************)
(* For every arrival order, with duplicates, and whenever prepare()        *)
(* settles, the chunks are written once each and in strict index order     *)
(* (transfer.js:692-720).                                                  *)
(***************************************************************************)
THEOREM ChunksWrittenInOrder == Spec => []InOrder
<1>1. ReceiverInv => InOrder  BY DEF ReceiverInv
<1> QED  BY <1>1, ReceiverInvariant, PTL

(***************************************************************************)
(* receivedChunks counts every distinct chunk once, and the stash never    *)
(* holds a chunk that could be written (transfer.js:707-727).              *)
(***************************************************************************)
THEOREM CountIsExact == Spec => []Accounting
<1>1. ReceiverInv => Accounting  BY DEF ReceiverInv
<1> QED  BY <1>1, ReceiverInvariant, PTL

(***************************************************************************)
(* A download moves through its phases: each sink is fed in its own mode   *)
(* only, and the end comes with the last chunk (transfer.js:731-758).      *)
(***************************************************************************)
THEOREM DownloadPhases == Spec => []Phases
<1>1. ReceiverInv => Phases  BY DEF ReceiverInv
<1> QED  BY <1>1, ReceiverInvariant, PTL

(***************************************************************************)
(* `receivedChunks === totalChunks` (transfer.js:731) is the right test:   *)
(* it holds only when every chunk was written, and it is reached unless a  *)
(* chunk came before the file-info.                                        *)
(***************************************************************************)
THEOREM EndIsJustified == Spec => []FinishedMeansAllWritten
<1>1. ReceiverInv => FinishedMeansAllWritten
  <2>1. SUFFICES ASSUME ReceiverInv PROVE FinishedMeansAllWritten  OBVIOUS
  <2>2. finished => nextWriteIndex = TotalChunks /\ mode # "none"
    BY <2>1, FullCount DEF ReceiverInv, Phases
  <2>3. (receivedChunks = TotalChunks /\ discarded = <<>>) => finished
    BY <2>1 DEF ReceiverInv, Phases
  <2> QED  BY <2>2, <2>3 DEF FinishedMeansAllWritten
<1> QED  BY <1>1, ReceiverInvariant, PTL

(***************************************************************************)
(* If no chunk came before the file-info and none is stranded in           *)
(* fallbackChunks, the file that close() saves or ends is the whole file   *)
(* in order (transfer.js:118-140).                                         *)
(***************************************************************************)
THEOREM SavedFileIsCorrect == Spec => []SavedFileIsWhole
<1>1. ReceiverInv => SavedFileIsWhole
  <2>1. SUFFICES ASSUME ReceiverInv, finished, discarded = <<>>, fallbackChunks = <<>>
                 PROVE  (IF swClosed THEN posted ELSE saved) = ChunkRun(0, TotalChunks)
    BY DEF SavedFileIsWhole
  <2>2. nextWriteIndex = TotalChunks  BY <2>1, FullCount DEF ReceiverInv, Phases
  <2>3. Cat(<<>>, Cat(saved, Cat(<<>>, posted))) = ChunkRun(0, TotalChunks)
    BY <2>1, <2>2, InOrderIsCat DEF ReceiverInv
  <2>4. saved \in Lists /\ posted \in Lists /\ <<>> \in Lists
    BY <2>1 DEF ReceiverInv, TypeOK, Lists
  <2>5. Cat(saved, posted) \in Lists /\ Cat(<<>>, posted) = posted
    BY <2>4, CatAlgebra, Zenon
  <2>6. Cat(saved, posted) = ChunkRun(0, TotalChunks)
    BY <2>3, <2>5, CatAlgebra, Zenon
  <2>7. CASE swClosed
    <3>1. saved = <<>>  BY <2>1, <2>7 DEF ReceiverInv, Phases
    <3> QED  BY <3>1, <2>5, <2>6, <2>7
  <2>8. CASE ~ swClosed
    <3>1. posted = <<>>  BY <2>1, <2>8 DEF ReceiverInv, Phases
    <3>2. Cat(saved, <<>>) = saved  BY <2>4, CatAlgebra, Zenon
    <3> QED  BY <3>1, <3>2, <2>6, <2>8
  <2> QED  BY <2>7, <2>8
<1> QED  BY <1>1, ReceiverInvariant, PTL

(***************************************************************************)
(* After "complete" nothing is written any more: every late chunk is a     *)
(* duplicate (transfer.js:707).                                            *)
(***************************************************************************)
THEOREM SavedFileIsLeftAlone == Spec => NothingWrittenAfterTheEnd
<1>1. ReceiverInv /\ [Next]_vars =>
        [finished => UNCHANGED <<orderVars, sinkVars, finished>>]_vars
  <2>1. SUFFICES ASSUME ReceiverInv, Next, finished
                 PROVE  UNCHANGED <<orderVars, sinkVars, finished>>
    BY DEF NothingWrittenAfterTheEnd
  <2>2. ASSUME NEW c \in Chunks, HandleChunk(c) PROVE FALSE
    <3>1. nextWriteIndex = TotalChunks  BY <2>1, FullCount DEF ReceiverInv, Phases
    <3>2. c < TotalChunks  BY ReceiverAssumption DEF Chunks
    <3> QED  BY <2>2, <3>1, <3>2 DEF HandleChunk, Duplicate
  <2> QED  BY <2>1, <2>2 DEF Next, FileInfoReceived, PrepareDone
<1> QED  BY <1>1, ReceiverInvariant, PTL DEF Spec, NothingWrittenAfterTheEnd

-----------------------------------------------------------------------------
(* What the counter counts *)

\* The chunks that were written or stashed.
Counted == {c \in Chunks : c < nextWriteIndex} \cup pendingChunks

\* A chunk that is handled was not counted before, it is the only new one, and
\* it comes before the end.
LEMMA NewChunkIsCounted ==
  ASSUME ReceiverInv, NEW c \in Chunks, HandleChunk(c)
  PROVE  c \notin Counted /\ Counted' = Counted \cup {c} /\ ~ finished
<1>1. PICK n \in 0 .. TotalChunks :
        /\ WritesUpTo(c, n) /\ nextWriteIndex' = n
        /\ IF Completes THEN pendingChunks' = {} ELSE pendingChunks' = StashAfter(c, n)
  BY Zenon DEF HandleChunk
<1>2. ~ Duplicate(c)  BY DEF HandleChunk
<1>3. /\ TypeOK /\ Accounting
      /\ TotalChunks \in Nat /\ nextWriteIndex \in 0 .. TotalChunks /\ ~ finished
  BY <1>1, HandleChunkStart DEF ReceiverInv
<1>4. /\ nextWriteIndex <= n
      /\ receivedChunks + 1 = TotalChunks => StashAfter(c, n) = {}
  BY <1>1, <1>2, <1>3, NewChunkCounts
<1>5. pendingChunks' = StashAfter(c, n)  BY <1>1, <1>4 DEF Completes
<1>6. c \notin Counted /\ c \in Nat /\ c < TotalChunks /\ ~ (c < nextWriteIndex)
  BY <1>2, <1>3 DEF Counted, Duplicate, Chunks
<1>7. CASE c # nextWriteIndex
  <2>1. n = nextWriteIndex  BY <1>1, <1>7 DEF WritesUpTo
  <2>2. StashAfter(c, n) = pendingChunks \cup {c}
    BY <2>1, <1>3 DEF StashAfter
  <2> QED  BY <2>1, <2>2, <1>1, <1>3, <1>5, <1>6 DEF Counted
<1>8. CASE c = nextWriteIndex
  <2>1. /\ n \in nextWriteIndex + 1 .. TotalChunks
        /\ nextWriteIndex + 1 .. n - 1 \subseteq pendingChunks
    BY <1>1, <1>8 DEF WritesUpTo
  <2>2. pendingChunks' = (pendingChunks \cup {c}) \ (nextWriteIndex .. n - 1)
    BY <1>5 DEF StashAfter
  <2>3. /\ pendingChunks \subseteq Chunks /\ nextWriteIndex' = n
        /\ \A k \in Chunks : k < n <=>
             k < nextWriteIndex \/ k = c \/ k \in nextWriteIndex + 1 .. n - 1
        /\ \A k \in Chunks : k \in nextWriteIndex .. n - 1 => k < n
    BY <2>1, <1>1, <1>3, <1>8 DEF Chunks, TypeOK
  <2>4. Counted' = {k \in Chunks : k < n} \cup pendingChunks'
    BY <2>3 DEF Counted, Chunks
  <2>5. ASSUME NEW k \in Chunks
        PROVE  k \in Counted' <=> k \in Counted \cup {c}
    <3>1. k \in Counted' <=> k < n \/ k \in pendingChunks'  BY <2>4
    <3>2. k \in Counted <=> k < nextWriteIndex \/ k \in pendingChunks  BY DEF Counted
    <3>3. k \in nextWriteIndex + 1 .. n - 1 => k \in pendingChunks  BY <2>1
    <3> QED  BY <3>1, <3>2, <3>3, <2>2, <2>3
  <2>6. Counted \cup {c} \subseteq Chunks /\ Counted' \subseteq Chunks
    BY <2>2, <2>3, <2>4 DEF Counted
  <2> QED  BY <2>5, <2>6, <1>3, <1>6
<1> QED  BY <1>3, <1>6, <1>7, <1>8

\* "Complete" means that every chunk was counted.
LEMMA EndMeansAllCounted ==
  ASSUME ReceiverInv, finished
  PROVE  Counted = Chunks
<1>1. TypeOK /\ Accounting /\ receivedChunks = TotalChunks
  BY DEF ReceiverInv, Phases
<1>2. nextWriteIndex = TotalChunks /\ pendingChunks = {}  BY <1>1, FullCount
<1>3. TotalChunks \in Nat  BY ReceiverAssumption
<1> QED  BY <1>2, <1>3 DEF Counted, Chunks
=============================================================================
