------------------------- MODULE TransferSenderProofs -------------------------
(***************************************************************************)
(* What TransferSender guarantees for every number of streams, chunks and  *)
(* every batch size and threshold, however connections, sends and disk     *)
(* reads fail.                                                             *)
(*                                                                         *)
(* The heart of the argument is a predicate on plain values, Shared: the   *)
(* chunks below the cursor are shared out, without repetition, between the *)
(* retry queue, the batches, the buffers and the delivered set.  A step of *)
(* the engine composes four moves (hand over, requeue, claim, transmit),   *)
(* and one lemma per move shows that it preserves Shared.                  *)
(***************************************************************************)
EXTENDS TransferSender, FiniteSetTheorems, SequenceTheorems, TLAPS

-----------------------------------------------------------------------------
(* Sequences read as ordered sets of distinct elements: what splitting,    *)
(* joining and taking the head of one does to its range.                   *)

\* The smaller of two integers is one of them and at most both.
LEMMA MinOfTwo ==
  ASSUME NEW a \in Int, NEW b \in Int
  PROVE  Min({a, b}) = IF a <= b THEN a ELSE b
<1>1. Min({a, b}) = CHOOSE x \in {a, b} : \A y \in {a, b} : x <= y  BY DEF Min
<1>2. \E x \in {a, b} : \A y \in {a, b} : x <= y  OBVIOUS
<1>3. Min({a, b}) \in {a, b} /\ \A y \in {a, b} : Min({a, b}) <= y  BY <1>1, <1>2
<1> QED  BY <1>3

\* The larger of two integers is one of them and at least both.
LEMMA MaxOfTwo ==
  ASSUME NEW a \in Int, NEW b \in Int
  PROVE  Max({a, b}) = IF a <= b THEN b ELSE a
<1>1. Max({a, b}) = CHOOSE x \in {a, b} : \A y \in {a, b} : x >= y  BY DEF Max
<1>2. \E x \in {a, b} : \A y \in {a, b} : x >= y  OBVIOUS
<1>3. Max({a, b}) \in {a, b} /\ \A y \in {a, b} : Max({a, b}) >= y  BY <1>1, <1>2
<1> QED  BY <1>3

\* The empty sequence holds nothing, and no other does.
LEMMA NothingInEmptySeq ==
  ASSUME NEW S, NEW q \in Seq(S)
  PROVE  /\ q = <<>> <=> Len(q) = 0
         /\ q = <<>> <=> Range(q) = {}
         /\ q = <<>> => IsInjective(q)
<1>1. DOMAIN q = 1 .. Len(q) /\ Len(q) \in Nat  OBVIOUS
<1>2. q = <<>> <=> Len(q) = 0  OBVIOUS
<1>3. ASSUME Len(q) = 0  PROVE Range(q) = {} /\ IsInjective(q)
  <2>1. DOMAIN q = {}  BY <1>1, <1>3
  <2> QED  BY <2>1, Zenon DEF Range, IsInjective
<1>4. ASSUME Len(q) # 0  PROVE Range(q) # {}
  <2>1. 1 \in DOMAIN q  BY <1>1, <1>4
  <2> QED  BY <2>1, Zenon DEF Range
<1>5. CASE Len(q) = 0  BY <1>5, <1>2, <1>3, Zenon
<1>6. CASE Len(q) # 0  BY <1>6, <1>2, <1>4, Zenon
<1> QED  BY <1>5, <1>6, Zenon

\* Cutting a sequence in two shares its elements out between the pieces.
LEMMA SplitSeq ==
  ASSUME NEW S, NEW q \in Seq(S), NEW k \in 0 .. Len(q)
  PROVE  LET a == SubSeq(q, 1, k)
             b == SubSeq(q, k + 1, Len(q))
         IN  /\ a \in Seq(S) /\ b \in Seq(S)
             /\ Len(a) = k /\ Len(b) = Len(q) - k
             /\ Range(q) = Range(a) \cup Range(b)
             /\ IsInjective(q) =>
                  IsInjective(a) /\ IsInjective(b) /\ Range(a) \cap Range(b) = {}
<1> DEFINE a == SubSeq(q, 1, k)
           b == SubSeq(q, k + 1, Len(q))
<1>1. a \in Seq(S) /\ Len(a) = k /\ \A i \in 1 .. k : a[i] = q[i]
  OBVIOUS
<1>2. /\ b \in Seq(S) /\ Len(b) = Len(q) - k
      /\ \A i \in 1 .. Len(q) - k : b[i] = q[k + i]
  OBVIOUS
<1>3. /\ DOMAIN a = 1 .. k
      /\ DOMAIN b = 1 .. Len(q) - k
      /\ DOMAIN q = 1 .. Len(q)
  BY <1>1, <1>2
<1> HIDE DEF a, b
<1>4. Range(q) = Range(a) \cup Range(b)
  <2>1. Range(a) \subseteq Range(q)  BY <1>1, <1>3 DEF Range
  <2>2. Range(b) \subseteq Range(q)
    <3>1. \A i \in 1 .. Len(q) - k : k + i \in 1 .. Len(q)  OBVIOUS
    <3> QED  BY <3>1, <1>2, <1>3 DEF Range
  <2>3. ASSUME NEW i \in 1 .. Len(q) PROVE q[i] \in Range(a) \cup Range(b)
    <3>1. CASE i <= k  BY <3>1, <1>1, <1>3 DEF Range
    <3>2. CASE i > k
      <4>1. i - k \in 1 .. Len(q) - k /\ b[i - k] = q[i]  BY <3>2, <1>2
      <4> QED  BY <4>1, <1>3 DEF Range
    <3> QED  BY <3>1, <3>2
  <2> QED  BY <2>1, <2>2, <2>3, <1>3 DEF Range
<1>5. ASSUME IsInjective(q)
      PROVE  IsInjective(a) /\ IsInjective(b) /\ Range(a) \cap Range(b) = {}
  <2>1. IsInjective(a)  BY <1>1, <1>3, <1>5 DEF IsInjective
  <2>2. IsInjective(b)
    <3>1. SUFFICES ASSUME NEW i \in 1 .. Len(q) - k, NEW j \in 1 .. Len(q) - k, b[i] = b[j]
                   PROVE  i = j
      BY <1>3 DEF IsInjective
    <3>2. k + i \in 1 .. Len(q) /\ k + j \in 1 .. Len(q) /\ q[k + i] = q[k + j]
      BY <3>1, <1>2
    <3>3. k + i = k + j  BY <3>2, <1>5, <1>3 DEF IsInjective
    <3> QED  BY <3>3
  <2>3. Range(a) \cap Range(b) = {}
    <3>1. SUFFICES ASSUME NEW i \in 1 .. k, NEW j \in 1 .. Len(q) - k, a[i] = b[j]
                   PROVE  FALSE
      BY <1>3 DEF Range
    <3>2. i \in 1 .. Len(q) /\ k + j \in 1 .. Len(q) /\ q[i] = q[k + j]
      BY <3>1, <1>1, <1>2
    <3>3. i = k + j  BY <3>2, <1>5, <1>3 DEF IsInjective
    <3> QED  BY <3>3
  <2> QED  BY <2>1, <2>2, <2>3
<1> QED  BY <1>1, <1>2, <1>4, <1>5 DEF a, b

\* Joining two sequences of distinct elements that share none.
LEMMA JoinSeq ==
  ASSUME NEW S, NEW p \in Seq(S), NEW q \in Seq(S)
  PROVE  /\ p \o q \in Seq(S)
         /\ Len(p \o q) = Len(p) + Len(q)
         /\ Range(p \o q) = Range(p) \cup Range(q)
         /\ IsInjective(p) /\ IsInjective(q) /\ Range(p) \cap Range(q) = {}
              => IsInjective(p \o q)
<1> DEFINE r == p \o q
<1>1. /\ r \in Seq(S) /\ Len(r) = Len(p) + Len(q)
      /\ \A i \in 1 .. Len(r) :
           r[i] = IF i <= Len(p) THEN p[i] ELSE q[i - Len(p)]
  OBVIOUS
<1>2. Range(r) = Range(p) \cup Range(q)  BY RangeConcatenation
<1>3. /\ DOMAIN r = 1 .. Len(p) + Len(q)
      /\ DOMAIN p = 1 .. Len(p)
      /\ DOMAIN q = 1 .. Len(q)
  BY <1>1
<1> HIDE DEF r
<1>4. ASSUME IsInjective(p), IsInjective(q), Range(p) \cap Range(q) = {}
      PROVE  IsInjective(r)
  <2>1. SUFFICES ASSUME NEW i \in 1 .. Len(p) + Len(q), NEW j \in 1 .. Len(p) + Len(q),
                        r[i] = r[j]
                 PROVE  i = j
    BY <1>3 DEF IsInjective
  <2>2. \A m \in 1 .. Len(p), n \in 1 .. Len(q) : p[m] # q[n]
    BY <1>3, <1>4 DEF Range
  <2>3. CASE i <= Len(p) /\ j <= Len(p)
    <3>1. p[i] = p[j] /\ i \in 1 .. Len(p) /\ j \in 1 .. Len(p)  BY <2>1, <2>3, <1>1
    <3> QED  BY <3>1, <1>3, <1>4 DEF IsInjective
  <2>4. CASE i > Len(p) /\ j > Len(p)
    <3>1. /\ q[i - Len(p)] = q[j - Len(p)]
          /\ i - Len(p) \in 1 .. Len(q) /\ j - Len(p) \in 1 .. Len(q)
      BY <2>1, <2>4, <1>1
    <3>2. i - Len(p) = j - Len(p)  BY <3>1, <1>3, <1>4 DEF IsInjective
    <3> QED  BY <3>2
  <2>5. CASE i <= Len(p) /\ j > Len(p)
    <3>1. p[i] = q[j - Len(p)] /\ i \in 1 .. Len(p) /\ j - Len(p) \in 1 .. Len(q)
      BY <2>1, <2>5, <1>1
    <3> QED  BY <3>1, <2>2
  <2>6. CASE i > Len(p) /\ j <= Len(p)
    <3>1. p[j] = q[i - Len(p)] /\ j \in 1 .. Len(p) /\ i - Len(p) \in 1 .. Len(q)
      BY <2>1, <2>6, <1>1
    <3> QED  BY <3>1, <2>2
  <2> QED  BY <2>3, <2>4, <2>5, <2>6
<1> QED  BY <1>1, <1>2, <1>4 DEF r

\* Taking the head off a sequence of distinct elements.
LEMMA HeadOff ==
  ASSUME NEW S, NEW q \in Seq(S), q # <<>>
  PROVE  /\ Head(q) \in S /\ Tail(q) \in Seq(S)
         /\ Len(Tail(q)) = Len(q) - 1
         /\ Range(q) = {Head(q)} \cup Range(Tail(q))
         /\ IsInjective(q) => IsInjective(Tail(q)) /\ Head(q) \notin Range(Tail(q))
<1>1. /\ Len(q) \in Nat \ {0} /\ Head(q) = q[1] /\ Head(q) \in S
      /\ Tail(q) \in Seq(S) /\ Len(Tail(q)) = Len(q) - 1
      /\ \A i \in 1 .. Len(q) - 1 : Tail(q)[i] = q[i + 1]
  OBVIOUS
<1>2. DOMAIN q = 1 .. Len(q) /\ DOMAIN Tail(q) = 1 .. Len(q) - 1  BY <1>1
<1>3. Range(q) = {Head(q)} \cup Range(Tail(q))
  <2>1. Head(q) \in Range(q)  BY <1>1, <1>2 DEF Range
  <2>2. Range(Tail(q)) \subseteq Range(q)
    <3>1. \A i \in 1 .. Len(q) - 1 : i + 1 \in 1 .. Len(q)  BY <1>1
    <3> QED  BY <3>1, <1>1, <1>2 DEF Range
  <2>3. ASSUME NEW i \in 1 .. Len(q) PROVE q[i] \in {Head(q)} \cup Range(Tail(q))
    <3>1. CASE i = 1  BY <3>1, <1>1
    <3>2. CASE i # 1
      <4>1. i - 1 \in 1 .. Len(q) - 1 /\ Tail(q)[i - 1] = q[i]  BY <3>2, <1>1
      <4> QED  BY <4>1, <1>2 DEF Range
    <3> QED  BY <3>1, <3>2
  <2> QED  BY <2>1, <2>2, <2>3, <1>2 DEF Range
<1>4. ASSUME IsInjective(q)
      PROVE  IsInjective(Tail(q)) /\ Head(q) \notin Range(Tail(q))
  <2>1. \A i \in 1 .. Len(q) - 1 : i + 1 \in 1 .. Len(q)  BY <1>1
  <2>2. IsInjective(Tail(q))
    <3>1. SUFFICES ASSUME NEW i \in 1 .. Len(q) - 1, NEW j \in 1 .. Len(q) - 1,
                          Tail(q)[i] = Tail(q)[j]
                   PROVE  i = j
      BY <1>2 DEF IsInjective
    <3>2. q[i + 1] = q[j + 1]  BY <3>1, <1>1
    <3>3. i + 1 = j + 1  BY <3>2, <2>1, <1>2, <1>4 DEF IsInjective
    <3> QED  BY <3>3
  <2>3. Head(q) \notin Range(Tail(q))
    <3>1. SUFFICES ASSUME NEW i \in 1 .. Len(q) - 1, q[1] = Tail(q)[i]  PROVE FALSE
      BY <1>1, <1>2 DEF Range
    <3>2. q[1] = q[i + 1] /\ 1 \in 1 .. Len(q)  BY <3>1, <1>1
    <3>3. 1 = i + 1  BY <3>2, <2>1, <1>2, <1>4 DEF IsInjective
    <3> QED  BY <3>3
  <2> QED  BY <2>2, <2>3
<1> QED  BY <1>1, <1>3, <1>4

\* A sequence of distinct elements has as many elements as places.
LEMMA InjectiveSeqCardinality ==
  ASSUME NEW S, NEW q \in Seq(S), IsInjective(q)
  PROVE  IsFiniteSet(Range(q)) /\ Cardinality(Range(q)) = Len(q)
<1>1. DOMAIN q = 1 .. Len(q) /\ Len(q) \in Nat  OBVIOUS
<1>2. q \in [1 .. Len(q) -> Range(q)]  BY <1>1 DEF Range
<1>3. q \in Bijection(1 .. Len(q), Range(q))
  <2>1. q \in Injection(1 .. Len(q), Range(q))  BY <1>1, <1>2 DEF Injection, IsInjective
  <2>2. q \in Surjection(1 .. Len(q), Range(q))  BY <1>1, <1>2 DEF Surjection, Range
  <2> QED  BY <2>1, <2>2 DEF Bijection
<1>4. ExistsBijection(1 .. Len(q), Range(q))  BY <1>3 DEF ExistsBijection
<1> QED  BY <1>1, <1>4, FS_Bijection, FS_CountingElements, FS_Interval

\* The run of n consecutive integers that starts at a.
LEMMA RunOfIntegers ==
  ASSUME NEW a \in Int, NEW n \in Nat
  PROVE  LET q == [i \in 1 .. n |-> a + i - 1]
         IN  /\ q \in Seq(a .. a + n - 1)
             /\ Len(q) = n
             /\ Range(q) = a .. a + n - 1
             /\ IsInjective(q)
<1> DEFINE q == [i \in 1 .. n |-> a + i - 1]
<1>1. /\ q \in Seq(a .. a + n - 1) /\ Len(q) = n
      /\ DOMAIN q = 1 .. n /\ \A i \in 1 .. n : q[i] = a + i - 1
  OBVIOUS
<1> HIDE DEF q
<1>2. IsInjective(q)  BY <1>1 DEF IsInjective
<1>3. Range(q) \subseteq a .. a + n - 1  BY <1>1 DEF Range
<1>4. ASSUME NEW c \in a .. a + n - 1 PROVE c \in Range(q)
  <2>1. c - a + 1 \in 1 .. n /\ q[c - a + 1] = c  BY <1>1
  <2> QED  BY <2>1, <1>1 DEF Range
<1> QED  BY <1>1, <1>2, <1>3, <1>4 DEF q

-----------------------------------------------------------------------------
(* Chunks shared out *)

HandedBy(buf, del) == del \cup UNION {Range(buf[s]) : s \in Streams}

\* The types of the four places a chunk can be in, and of the cursor.
SharedType(pool, bat, next, buf, del) ==
  /\ pool \in Seq(Chunks)
  /\ bat \in [Streams -> Seq(Chunks)]
  /\ next \in 0 .. TotalChunks
  /\ buf \in [Streams -> Seq(Chunks)]
  /\ del \in SUBSET Chunks

\* No place repeats a chunk, and no two places share one.
Apart(pool, bat, buf, del) ==
  /\ IsInjective(pool)
  /\ \A s \in Streams :
       /\ IsInjective(bat[s]) /\ IsInjective(buf[s])
       /\ Range(pool) \cap Range(bat[s]) = {}
       /\ (Range(pool) \cup Range(bat[s])) \cap HandedBy(buf, del) = {}
       /\ del \cap Range(buf[s]) = {}
  /\ \A s, t \in Streams : s # t =>
       /\ Range(bat[s]) \cap Range(bat[t]) = {}
       /\ Range(buf[s]) \cap Range(buf[t]) = {}

\* Together they hold exactly the chunks below the cursor.
Covers(pool, bat, next, buf, del) ==
  0 .. next - 1 =
    Range(pool) \cup HandedBy(buf, del) \cup UNION {Range(bat[s]) : s \in Streams}

Shared(pool, bat, next, buf, del) ==
  /\ SharedType(pool, bat, next, buf, del)
  /\ Apart(pool, bat, buf, del)
  /\ Covers(pool, bat, next, buf, del)

\* Replacing one stream's sequence changes one member of the union of ranges.
LEMMA UnionOfRanges ==
  ASSUME NEW f \in [Streams -> Seq(Chunks)], NEW s \in Streams, NEW q \in Seq(Chunks)
  PROVE  LET g == [f EXCEPT ![s] = q]
         IN  /\ g \in [Streams -> Seq(Chunks)]
             /\ g[s] = q
             /\ \A t \in Streams : t # s => g[t] = f[t]
             /\ UNION {Range(g[t]) : t \in Streams}
                  = Range(q) \cup UNION {Range(f[t]) : t \in Streams \ {s}}
             /\ UNION {Range(f[t]) : t \in Streams}
                  = Range(f[s]) \cup UNION {Range(f[t]) : t \in Streams \ {s}}
<1> DEFINE g == [f EXCEPT ![s] = q]
<1>1. /\ g \in [Streams -> Seq(Chunks)] /\ g[s] = q
      /\ \A t \in Streams : t # s => g[t] = f[t]
  OBVIOUS
<1> HIDE DEF g
<1>2. UNION {Range(g[t]) : t \in Streams}
        = Range(q) \cup UNION {Range(f[t]) : t \in Streams \ {s}}
  BY <1>1, Zenon
<1>3. UNION {Range(f[t]) : t \in Streams}
        = Range(f[s]) \cup UNION {Range(f[t]) : t \in Streams \ {s}}
  BY Zenon
<1> QED  BY <1>1, <1>2, <1>3 DEF g

\* Move 1: the first k chunks of a batch go to send().
LEMMA HandoverKeepsShared ==
  ASSUME NEW pool, NEW bat, NEW next, NEW buf, NEW del,
         Shared(pool, bat, next, buf, del),
         NEW s \in Streams, NEW k \in 0 .. Len(bat[s])
  PROVE  LET sent == SubSeq(bat[s], 1, k)
             rest == SubSeq(bat[s], k + 1, Len(bat[s]))
             buf1 == [buf EXCEPT ![s] = @ \o sent]
         IN  /\ Shared(pool, [bat EXCEPT ![s] = rest], next, buf1, del)
             /\ HandedBy(buf1, del) = HandedBy(buf, del) \cup Range(sent)
             /\ HandedBy(buf, del) \cap Range(sent) = {}
<1> DEFINE sent == SubSeq(bat[s], 1, k)
           rest == SubSeq(bat[s], k + 1, Len(bat[s]))
           bat1 == [bat EXCEPT ![s] = rest]
           buf1 == [buf EXCEPT ![s] = buf[s] \o sent]
           B(f) == UNION {Range(f[t]) : t \in Streams}
           Others(f) == UNION {Range(f[t]) : t \in Streams \ {s}}
<1>1. /\ pool \in Seq(Chunks) /\ bat \in [Streams -> Seq(Chunks)]
      /\ buf \in [Streams -> Seq(Chunks)] /\ del \in SUBSET Chunks
      /\ bat[s] \in Seq(Chunks) /\ buf[s] \in Seq(Chunks)
  BY DEF Shared, SharedType
<1>2. /\ sent \in Seq(Chunks) /\ rest \in Seq(Chunks)
      /\ Range(bat[s]) = Range(sent) \cup Range(rest)
      /\ IsInjective(sent) /\ IsInjective(rest) /\ Range(sent) \cap Range(rest) = {}
  <2>1. IsInjective(bat[s])  BY DEF Shared, Apart
  <2> QED  BY <1>1, <2>1, SplitSeq
<1> HIDE DEF sent, rest
<1>3. Range(buf[s]) \cap Range(sent) = {} /\ HandedBy(buf, del) \cap Range(sent) = {}
  <2>1. Range(bat[s]) \cap HandedBy(buf, del) = {}  BY Zenon DEF Shared, Apart
  <2>2. Range(buf[s]) \subseteq HandedBy(buf, del)  BY Zenon DEF HandedBy
  <2> QED  BY <2>1, <2>2, <1>2
<1>4. /\ buf[s] \o sent \in Seq(Chunks)
      /\ Range(buf[s] \o sent) = Range(buf[s]) \cup Range(sent)
      /\ IsInjective(buf[s] \o sent)
  <2>1. IsInjective(buf[s])  BY DEF Shared, Apart
  <2> QED  BY <1>1, <1>2, <1>3, <2>1, JoinSeq
<1>5. /\ bat1 \in [Streams -> Seq(Chunks)] /\ bat1[s] = rest
      /\ \A t \in Streams : t # s => bat1[t] = bat[t]
      /\ B(bat1) = Range(rest) \cup Others(bat)
      /\ B(bat) = Range(bat[s]) \cup Others(bat)
  BY <1>1, <1>2, UnionOfRanges
<1>6. /\ buf1 \in [Streams -> Seq(Chunks)] /\ buf1[s] = buf[s] \o sent
      /\ \A t \in Streams : t # s => buf1[t] = buf[t]
      /\ B(buf1) = Range(buf[s] \o sent) \cup Others(buf)
      /\ B(buf) = Range(buf[s]) \cup Others(buf)
  BY <1>1, <1>4, UnionOfRanges
<1> HIDE DEF bat1, buf1
<1>7. HandedBy(buf1, del) = HandedBy(buf, del) \cup Range(sent)
  BY <1>4, <1>6 DEF HandedBy
<1> HIDE DEF B, Others
<1>8. SharedType(pool, bat1, next, buf1, del)
  BY <1>5, <1>6 DEF Shared, SharedType
<1>9. Apart(pool, bat1, buf1, del)
  <2>1. /\ IsInjective(pool)
        /\ \A t \in Streams :
             /\ IsInjective(bat[t]) /\ IsInjective(buf[t])
             /\ Range(pool) \cap Range(bat[t]) = {}
             /\ (Range(pool) \cup Range(bat[t])) \cap HandedBy(buf, del) = {}
             /\ del \cap Range(buf[t]) = {}
             /\ Range(buf[t]) \subseteq HandedBy(buf, del)
        /\ \A t, u \in Streams : t # u =>
             /\ Range(bat[t]) \cap Range(bat[u]) = {}
             /\ Range(buf[t]) \cap Range(buf[u]) = {}
        /\ del \subseteq HandedBy(buf, del)
    BY DEF Shared, Apart, HandedBy
  <2>2. ASSUME NEW t \in Streams
        PROVE  /\ IsInjective(bat1[t]) /\ IsInjective(buf1[t])
               /\ Range(pool) \cap Range(bat1[t]) = {}
               /\ (Range(pool) \cup Range(bat1[t])) \cap HandedBy(buf1, del) = {}
               /\ del \cap Range(buf1[t]) = {}
    <3>1. CASE t = s
      <4>1. IsInjective(bat1[t]) /\ IsInjective(buf1[t])
        BY <3>1, <1>2, <1>4, <1>5, <1>6
      <4>2. Range(bat1[t]) = Range(rest) /\ Range(buf1[t]) = Range(buf[s]) \cup Range(sent)
        BY <3>1, <1>4, <1>5, <1>6
      <4>3. /\ Range(pool) \cap Range(bat[s]) = {}
            /\ (Range(pool) \cup Range(bat[s])) \cap HandedBy(buf, del) = {}
            /\ del \cap Range(buf[s]) = {}
        BY <2>1
      <4> QED  BY <4>1, <4>2, <4>3, <1>2, <1>7, <2>1
    <3>2. CASE t # s
      <4>1. bat1[t] = bat[t] /\ buf1[t] = buf[t]  BY <3>2, <1>5, <1>6
      <4>2. Range(bat[t]) \cap Range(sent) = {}  BY <3>2, <2>1, <1>2
      <4>3. Range(pool) \cap Range(sent) = {}  BY <2>1, <1>2
      <4> QED  BY <4>1, <4>2, <4>3, <1>7, <2>1
    <3> QED  BY <3>1, <3>2
  <2>3. ASSUME NEW t \in Streams, NEW u \in Streams, t # u
        PROVE  /\ Range(bat1[t]) \cap Range(bat1[u]) = {}
               /\ Range(buf1[t]) \cap Range(buf1[u]) = {}
    <3>1. \A v \in Streams : /\ Range(bat1[v]) \subseteq Range(bat[v])
                             /\ v # s => buf1[v] = buf[v]
      BY <1>2, <1>5, <1>6
    <3>2. Range(bat1[t]) \cap Range(bat1[u]) = {}  BY <2>1, <2>3, <3>1
    <3>3. \A v \in Streams : v # s => Range(buf1[s]) \cap Range(buf[v]) = {}
      <4>1. TAKE v \in Streams
      <4>2. HAVE v # s
      <4>3. Range(buf[v]) \cap Range(sent) = {}  BY <2>1, <1>3
      <4>4. Range(buf[v]) \cap Range(buf[s]) = {}  BY <2>1, <4>2
      <4> QED  BY <4>3, <4>4, <1>4, <1>6
    <3>4. Range(buf1[t]) \cap Range(buf1[u]) = {}
      <4>1. CASE t = s  BY <4>1, <2>3, <3>1, <3>3
      <4>2. CASE u = s
        <5>1. Range(buf1[u]) \cap Range(buf1[t]) = {}  BY <4>2, <2>3, <3>1, <3>3
        <5> QED  BY <5>1
      <4>3. CASE t # s /\ u # s  BY <4>3, <2>1, <2>3, <3>1
      <4> QED  BY <4>1, <4>2, <4>3
    <3> QED  BY <3>2, <3>4
  <2> QED  BY <2>1, <2>2, <2>3 DEF Apart
<1>10. Covers(pool, bat1, next, buf1, del)
  <2>1. 0 .. next - 1 = Range(pool) \cup HandedBy(buf, del) \cup B(bat)
    BY DEF Shared, Covers, B
  <2>2. 0 .. next - 1 = Range(pool) \cup HandedBy(buf1, del) \cup B(bat1)
    BY <2>1, <1>2, <1>5, <1>7
  <2> QED  BY <2>2 DEF Covers, B
<1>11. Shared(pool, bat1, next, buf1, del)  BY <1>8, <1>9, <1>10 DEF Shared
<1> QED  BY <1>3, <1>7, <1>11 DEF bat1, buf1, sent, rest

\* What Apart and Covers say, spelled out once for the lemmas below.
LEMMA SharedFacts ==
  ASSUME NEW pool, NEW bat, NEW next, NEW buf, NEW del,
         Shared(pool, bat, next, buf, del)
  PROVE  /\ pool \in Seq(Chunks) /\ bat \in [Streams -> Seq(Chunks)]
         /\ next \in 0 .. TotalChunks
         /\ buf \in [Streams -> Seq(Chunks)] /\ del \in SUBSET Chunks
         /\ IsInjective(pool)
         /\ \A t \in Streams :
              /\ IsInjective(bat[t]) /\ IsInjective(buf[t])
              /\ Range(pool) \cap Range(bat[t]) = {}
              /\ Range(pool) \cap HandedBy(buf, del) = {}
              /\ Range(bat[t]) \cap HandedBy(buf, del) = {}
              /\ Range(bat[t]) \subseteq 0 .. next - 1
              /\ del \cap Range(buf[t]) = {}
              /\ Range(buf[t]) \subseteq HandedBy(buf, del)
         /\ \A t, u \in Streams : t # u =>
              /\ Range(bat[t]) \cap Range(bat[u]) = {}
              /\ Range(buf[t]) \cap Range(buf[u]) = {}
         /\ Range(pool) \subseteq 0 .. next - 1
         /\ HandedBy(buf, del) \subseteq 0 .. next - 1
         /\ del \subseteq HandedBy(buf, del)
<1>1. /\ pool \in Seq(Chunks) /\ bat \in [Streams -> Seq(Chunks)]
      /\ next \in 0 .. TotalChunks
      /\ buf \in [Streams -> Seq(Chunks)] /\ del \in SUBSET Chunks
  BY DEF Shared, SharedType
<1>2. 0 .. next - 1 =
        Range(pool) \cup HandedBy(buf, del) \cup UNION {Range(bat[t]) : t \in Streams}
  BY DEF Shared, Covers
<1>3. \A t \in Streams : Range(bat[t]) \subseteq 0 .. next - 1  BY <1>2, Zenon
<1>4. Range(pool) \subseteq 0 .. next - 1 /\ HandedBy(buf, del) \subseteq 0 .. next - 1
  BY <1>2, Zenon
<1>5. /\ del \subseteq HandedBy(buf, del)
      /\ \A t \in Streams : Range(buf[t]) \subseteq HandedBy(buf, del)
  BY Zenon DEF HandedBy
<1>6. /\ IsInjective(pool)
      /\ \A t \in Streams :
           /\ IsInjective(bat[t]) /\ IsInjective(buf[t])
           /\ Range(pool) \cap Range(bat[t]) = {}
           /\ (Range(pool) \cup Range(bat[t])) \cap HandedBy(buf, del) = {}
           /\ del \cap Range(buf[t]) = {}
      /\ \A t, u \in Streams : t # u =>
           /\ Range(bat[t]) \cap Range(bat[u]) = {}
           /\ Range(buf[t]) \cap Range(buf[u]) = {}
  BY DEF Shared, Apart
<1>7. \A t \in Streams :
        /\ Range(pool) \cap HandedBy(buf, del) = {}
        /\ Range(bat[t]) \cap HandedBy(buf, del) = {}
  <2>1. TAKE t \in Streams
  <2>2. (Range(pool) \cup Range(bat[t])) \cap HandedBy(buf, del) = {}  BY <1>6
  <2> QED  BY <2>2
<1> QED  BY <1>1, <1>3, <1>4, <1>5, <1>6, <1>7

\* Move 2: a pump that gives up returns its whole batch to the retry queue.
LEMMA RequeueKeepsShared ==
  ASSUME NEW pool, NEW bat, NEW next, NEW buf, NEW del,
         Shared(pool, bat, next, buf, del),
         NEW s \in Streams
  PROVE  Shared(pool \o bat[s], [bat EXCEPT ![s] = <<>>], next, buf, del)
<1> DEFINE pool1 == pool \o bat[s]
           bat1 == [bat EXCEPT ![s] = <<>>]
           B(f) == UNION {Range(f[t]) : t \in Streams}
           Others(f) == UNION {Range(f[t]) : t \in Streams \ {s}}
<1>1. /\ pool \in Seq(Chunks) /\ bat \in [Streams -> Seq(Chunks)]
      /\ bat[s] \in Seq(Chunks) /\ IsInjective(pool) /\ IsInjective(bat[s])
      /\ Range(pool) \cap Range(bat[s]) = {}
  BY SharedFacts
<1>2. /\ <<>> \in Seq(Chunks) /\ Range(<<>>) = {} /\ IsInjective(<<>>)
  <2>1. <<>> \in Seq(Chunks)  OBVIOUS
  <2> QED  BY <2>1, NothingInEmptySeq
<1>3. /\ pool1 \in Seq(Chunks) /\ IsInjective(pool1)
      /\ Range(pool1) = Range(pool) \cup Range(bat[s])
  BY <1>1, JoinSeq
<1>4. /\ bat1 \in [Streams -> Seq(Chunks)] /\ bat1[s] = <<>>
      /\ \A t \in Streams : t # s => bat1[t] = bat[t]
      /\ B(bat1) = Range(<<>>) \cup Others(bat)
      /\ B(bat) = Range(bat[s]) \cup Others(bat)
  BY <1>1, <1>2, UnionOfRanges
<1> HIDE DEF pool1, bat1, B, Others
<1>5. SharedType(pool1, bat1, next, buf, del)
  BY <1>3, <1>4 DEF Shared, SharedType
<1>6. Apart(pool1, bat1, buf, del)
  <2>1. ASSUME NEW t \in Streams
        PROVE  /\ IsInjective(bat1[t]) /\ IsInjective(buf[t])
               /\ Range(pool1) \cap Range(bat1[t]) = {}
               /\ (Range(pool1) \cup Range(bat1[t])) \cap HandedBy(buf, del) = {}
               /\ del \cap Range(buf[t]) = {}
    <3>1. /\ IsInjective(bat[t]) /\ IsInjective(buf[t])
          /\ Range(pool) \cap Range(bat[t]) = {}
          /\ Range(pool) \cap HandedBy(buf, del) = {}
          /\ Range(bat[t]) \cap HandedBy(buf, del) = {}
          /\ Range(bat[s]) \cap HandedBy(buf, del) = {}
          /\ del \cap Range(buf[t]) = {}
      BY SharedFacts
    <3>2. CASE t = s  BY <3>1, <3>2, <1>2, <1>3, <1>4
    <3>3. CASE t # s
      <4>1. Range(bat[s]) \cap Range(bat[t]) = {}  BY <3>3, SharedFacts
      <4> QED  BY <3>1, <3>3, <4>1, <1>3, <1>4
    <3> QED  BY <3>2, <3>3
  <2>2. ASSUME NEW t \in Streams, NEW u \in Streams, t # u
        PROVE  /\ Range(bat1[t]) \cap Range(bat1[u]) = {}
               /\ Range(buf[t]) \cap Range(buf[u]) = {}
    <3>1. /\ Range(bat[t]) \cap Range(bat[u]) = {}
          /\ Range(buf[t]) \cap Range(buf[u]) = {}
      BY <2>2, SharedFacts
    <3>2. \A v \in Streams : Range(bat1[v]) \subseteq Range(bat[v])  BY <1>2, <1>4
    <3> QED  BY <3>1, <3>2
  <2> QED  BY <2>1, <2>2, <1>3 DEF Apart
<1>7. Covers(pool1, bat1, next, buf, del)
  <2>1. 0 .. next - 1 = Range(pool) \cup HandedBy(buf, del) \cup B(bat)
    BY DEF Shared, Covers, B
  <2>2. 0 .. next - 1 = Range(pool1) \cup HandedBy(buf, del) \cup B(bat1)
    BY <2>1, <1>2, <1>3, <1>4
  <2> QED  BY <2>2 DEF Covers, B
<1> QED  BY <1>5, <1>6, <1>7 DEF Shared, pool1, bat1

\* r chunks off the retry queue, then n fresh ones.
Claimed(pool, r, next, n) == SubSeq(pool, 1, r) \o [i \in 1 .. n |-> next + i - 1]

\* The run of fresh chunks a claim appends is a sequence of chunks.
LEMMA ClaimedIsSeq ==
  ASSUME NEW pool \in Seq(Chunks), NEW next \in 0 .. TotalChunks,
         NEW r \in 0 .. Len(pool), NEW n \in Nat, next + n <= TotalChunks
  PROVE  /\ Claimed(pool, r, next, n) \in Seq(Chunks)
         /\ Len(Claimed(pool, r, next, n)) = r + n
<1> DEFINE taken == SubSeq(pool, 1, r)
           fresh == [i \in 1 .. n |-> next + i - 1]
<1>1. taken \in Seq(Chunks) /\ Len(taken) = r  BY SplitSeq
<1>2. fresh \in Seq(Chunks) /\ Len(fresh) = n
  <2>1. \A i \in 1 .. n : next + i - 1 \in Chunks  BY SenderAssumption DEF Chunks
  <2> QED  BY <2>1
<1>3. Claimed(pool, r, next, n) = taken \o fresh  BY DEF Claimed
<1> HIDE DEF taken, fresh
<1>4. /\ taken \o fresh \in Seq(Chunks)
      /\ Len(taken \o fresh) = Len(taken) + Len(fresh)
  <2>1. ASSUME NEW p \in Seq(Chunks), NEW q \in Seq(Chunks)
        PROVE  p \o q \in Seq(Chunks) /\ Len(p \o q) = Len(p) + Len(q)
    OBVIOUS
  <2> QED  BY <1>1, <1>2, <2>1, Zenon
<1> QED  BY <1>1, <1>2, <1>3, <1>4

\* Move 3: a pump with an empty batch claims r retries and n fresh chunks.
LEMMA ClaimKeepsShared ==
  ASSUME NEW pool, NEW bat, NEW next, NEW buf, NEW del,
         Shared(pool, bat, next, buf, del),
         NEW s \in Streams, bat[s] = <<>>,
         NEW r \in 0 .. Len(pool),
         NEW n \in Nat, next + n <= TotalChunks
  PROVE  Shared(SubSeq(pool, r + 1, Len(pool)),
                [bat EXCEPT ![s] = Claimed(pool, r, next, n)], next + n, buf, del)
<1> DEFINE taken == SubSeq(pool, 1, r)
           pool1 == SubSeq(pool, r + 1, Len(pool))
           fresh == [i \in 1 .. n |-> next + i - 1]
           claim == taken \o fresh
           bat1 == [bat EXCEPT ![s] = claim]
           B(f) == UNION {Range(f[t]) : t \in Streams}
           Others(f) == UNION {Range(f[t]) : t \in Streams \ {s}}
<1>1. /\ pool \in Seq(Chunks) /\ bat \in [Streams -> Seq(Chunks)]
      /\ next \in 0 .. TotalChunks /\ TotalChunks \in Nat /\ IsInjective(pool)
      /\ Range(pool) \subseteq 0 .. next - 1
      /\ HandedBy(buf, del) \subseteq 0 .. next - 1
      /\ \A t \in Streams : Range(bat[t]) \subseteq 0 .. next - 1
  BY SharedFacts, SenderAssumption
<1>2. /\ taken \in Seq(Chunks) /\ pool1 \in Seq(Chunks) /\ Len(taken) = r
      /\ Range(pool) = Range(taken) \cup Range(pool1)
      /\ IsInjective(taken) /\ IsInjective(pool1) /\ Range(taken) \cap Range(pool1) = {}
  BY <1>1, SplitSeq
<1>3. /\ fresh \in Seq(next .. next + n - 1) /\ Len(fresh) = n
      /\ Range(fresh) = next .. next + n - 1 /\ IsInjective(fresh)
  BY <1>1, RunOfIntegers
<1>4. next .. next + n - 1 \subseteq Chunks  BY <1>1 DEF Chunks
<1>5. fresh \in Seq(Chunks)
  <2>1. \A i \in 1 .. n : next + i - 1 \in Chunks  BY <1>1 DEF Chunks
  <2> QED  BY <2>1
<1> HIDE DEF taken, pool1, fresh
<1>6. Range(fresh) \cap (0 .. next - 1) = {}  BY <1>1, <1>3
<1>7. /\ claim \in Seq(Chunks) /\ IsInjective(claim) /\ Len(claim) = r + n
      /\ Range(claim) = Range(taken) \cup Range(fresh)
  <2>1. Range(taken) \cap Range(fresh) = {}  BY <1>1, <1>2, <1>6
  <2>2. /\ claim \in Seq(Chunks) /\ Len(claim) = Len(taken) + Len(fresh)
        /\ Range(claim) = Range(taken) \cup Range(fresh)
    BY <1>2, <1>5, JoinSeq
  <2>3. IsInjective(claim)  BY <1>2, <1>3, <1>5, <2>1, JoinSeq
  <2> QED  BY <1>2, <1>3, <2>2, <2>3
<1> HIDE DEF claim
<1>8. /\ bat1 \in [Streams -> Seq(Chunks)] /\ bat1[s] = claim
      /\ \A t \in Streams : t # s => bat1[t] = bat[t]
      /\ B(bat1) = Range(claim) \cup Others(bat)
      /\ B(bat) = Range(bat[s]) \cup Others(bat)
  BY <1>1, <1>7, UnionOfRanges
<1>9. Range(bat[s]) = {}
  BY <1>1, NothingInEmptySeq
<1> HIDE DEF bat1, B, Others
<1>10. SharedType(pool1, bat1, next + n, buf, del)
  <2>1. next + n \in 0 .. TotalChunks  BY <1>1
  <2> QED  BY <2>1, <1>2, <1>8 DEF Shared, SharedType
<1>11. Apart(pool1, bat1, buf, del)
  <2>1. ASSUME NEW t \in Streams
        PROVE  /\ IsInjective(bat1[t]) /\ IsInjective(buf[t])
               /\ Range(pool1) \cap Range(bat1[t]) = {}
               /\ (Range(pool1) \cup Range(bat1[t])) \cap HandedBy(buf, del) = {}
               /\ del \cap Range(buf[t]) = {}
    <3>1. /\ IsInjective(bat[t]) /\ IsInjective(buf[t])
          /\ Range(pool) \cap Range(bat[t]) = {}
          /\ Range(pool) \cap HandedBy(buf, del) = {}
          /\ Range(bat[t]) \cap HandedBy(buf, del) = {}
          /\ del \cap Range(buf[t]) = {}
      BY SharedFacts
    <3>2. CASE t = s
      <4>1. Range(bat1[t]) = Range(taken) \cup Range(fresh) /\ IsInjective(bat1[t])
        BY <3>2, <1>7, <1>8
      <4>2. Range(pool1) \cap Range(fresh) = {} /\ HandedBy(buf, del) \cap Range(fresh) = {}
        BY <1>1, <1>2, <1>6
      <4> QED  BY <3>1, <4>1, <4>2, <1>2
    <3>3. CASE t # s
      <4>1. bat1[t] = bat[t]  BY <3>3, <1>8
      <4>2. Range(pool1) \subseteq Range(pool)  BY <1>2
      <4> QED  BY <3>1, <4>1, <4>2
    <3> QED  BY <3>2, <3>3
  <2>2. ASSUME NEW t \in Streams, NEW u \in Streams, t # u
        PROVE  /\ Range(bat1[t]) \cap Range(bat1[u]) = {}
               /\ Range(buf[t]) \cap Range(buf[u]) = {}
    <3>1. /\ Range(bat[t]) \cap Range(bat[u]) = {}
          /\ Range(buf[t]) \cap Range(buf[u]) = {}
      BY <2>2, SharedFacts
    <3>2. ASSUME NEW v \in Streams, v # s  PROVE Range(claim) \cap Range(bat[v]) = {}
      <4>1. Range(pool) \cap Range(bat[v]) = {}  BY SharedFacts
      <4>2. Range(bat[v]) \cap Range(fresh) = {}  BY <1>1, <1>6
      <4> QED  BY <4>1, <4>2, <1>2, <1>7
    <3>3. CASE t = s  BY <3>1, <3>2, <3>3, <2>2, <1>8
    <3>4. CASE u = s
      <4>1. Range(claim) \cap Range(bat[t]) = {}  BY <3>2, <3>4, <2>2
      <4> QED  BY <3>1, <4>1, <3>4, <2>2, <1>8
    <3>5. CASE t # s /\ u # s  BY <3>1, <3>5, <1>8
    <3> QED  BY <3>3, <3>4, <3>5
  <2> QED  BY <2>1, <2>2, <1>2 DEF Apart
<1>12. Covers(pool1, bat1, next + n, buf, del)
  <2>1. 0 .. next - 1 = Range(pool) \cup HandedBy(buf, del) \cup B(bat)
    BY DEF Shared, Covers, B
  <2>2. 0 .. next + n - 1 = (0 .. next - 1) \cup (next .. next + n - 1)  BY <1>1
  <2>3. 0 .. next + n - 1 = Range(pool1) \cup HandedBy(buf, del) \cup B(bat1)
    BY <2>1, <2>2, <1>2, <1>3, <1>7, <1>8, <1>9
  <2>4. ASSUME NEW m, m = next + n  PROVE Covers(pool1, bat1, m, buf, del)
    BY <2>3, <2>4, <1>1 DEF Covers, B
  <2> QED  BY <2>4, Zenon
<1>13. Shared(pool1, bat1, next + n, buf, del)  BY <1>10, <1>11, <1>12 DEF Shared
<1>14. Claimed(pool, r, next, n) = claim  BY DEF claim, taken, fresh, Claimed
<1> QED  BY <1>13, <1>14 DEF pool1, bat1

\* Move 4: the head of a buffer reaches the wire.
LEMMA TransmitKeepsShared ==
  ASSUME NEW pool, NEW bat, NEW next, NEW buf, NEW del,
         Shared(pool, bat, next, buf, del),
         NEW s \in Streams, buf[s] # <<>>
  PROVE  LET buf1 == [buf EXCEPT ![s] = Tail(@)]
             del1 == del \cup {Head(buf[s])}
         IN  /\ Shared(pool, bat, next, buf1, del1)
             /\ HandedBy(buf1, del1) = HandedBy(buf, del)
<1> DEFINE h == Head(buf[s])
           tail == Tail(buf[s])
           buf1 == [buf EXCEPT ![s] = tail]
           del1 == del \cup {h}
           B(f) == UNION {Range(f[t]) : t \in Streams}
           Others(f) == UNION {Range(f[t]) : t \in Streams \ {s}}
<1>1. /\ buf \in [Streams -> Seq(Chunks)] /\ buf[s] \in Seq(Chunks)
      /\ IsInjective(buf[s]) /\ del \in SUBSET Chunks
  BY SharedFacts
<1>2. /\ h \in Chunks /\ tail \in Seq(Chunks)
      /\ Range(buf[s]) = {h} \cup Range(tail)
      /\ IsInjective(tail) /\ h \notin Range(tail)
  BY <1>1, HeadOff
<1> HIDE DEF h, tail
<1>3. /\ buf1 \in [Streams -> Seq(Chunks)] /\ buf1[s] = tail
      /\ \A t \in Streams : t # s => buf1[t] = buf[t]
      /\ B(buf1) = Range(tail) \cup Others(buf)
      /\ B(buf) = Range(buf[s]) \cup Others(buf)
  BY <1>1, <1>2, UnionOfRanges
<1> HIDE DEF buf1
<1>4. HandedBy(buf1, del1) = HandedBy(buf, del)  BY <1>2, <1>3 DEF HandedBy
<1> HIDE DEF B, Others
<1>5. SharedType(pool, bat, next, buf1, del1)
  BY <1>1, <1>2, <1>3 DEF Shared, SharedType
<1>6. Apart(pool, bat, buf1, del1)
  <2>1. ASSUME NEW t \in Streams
        PROVE  /\ IsInjective(bat[t]) /\ IsInjective(buf1[t])
               /\ Range(pool) \cap Range(bat[t]) = {}
               /\ (Range(pool) \cup Range(bat[t])) \cap HandedBy(buf1, del1) = {}
               /\ del1 \cap Range(buf1[t]) = {}
    <3>1. /\ IsInjective(bat[t]) /\ IsInjective(buf[t])
          /\ Range(pool) \cap Range(bat[t]) = {}
          /\ Range(pool) \cap HandedBy(buf, del) = {}
          /\ Range(bat[t]) \cap HandedBy(buf, del) = {}
          /\ del \cap Range(buf[t]) = {}
      BY SharedFacts
    <3>2. (Range(pool) \cup Range(bat[t])) \cap HandedBy(buf1, del1) = {}  BY <3>1, <1>4
    <3>3. IsInjective(buf1[t])  BY <3>1, <1>2, <1>3
    <3>4. del1 \cap Range(buf1[t]) = {}
      <4>1. CASE t = s  BY <3>1, <4>1, <1>2, <1>3
      <4>2. CASE t # s
        <5>1. Range(buf[s]) \cap Range(buf[t]) = {}  BY <4>2, SharedFacts
        <5> QED  BY <3>1, <4>2, <5>1, <1>2, <1>3
      <4> QED  BY <4>1, <4>2
    <3> QED  BY <3>1, <3>2, <3>3, <3>4
  <2>2. ASSUME NEW t \in Streams, NEW u \in Streams, t # u
        PROVE  /\ Range(bat[t]) \cap Range(bat[u]) = {}
               /\ Range(buf1[t]) \cap Range(buf1[u]) = {}
    <3>1. /\ Range(bat[t]) \cap Range(bat[u]) = {}
          /\ Range(buf[t]) \cap Range(buf[u]) = {}
      BY <2>2, SharedFacts
    <3>2. \A v \in Streams : Range(buf1[v]) \subseteq Range(buf[v])  BY <1>2, <1>3
    <3> QED  BY <3>1, <3>2
  <2>3. IsInjective(pool)  BY SharedFacts
  <2> QED  BY <2>1, <2>2, <2>3 DEF Apart
<1>7. Covers(pool, bat, next, buf1, del1)  BY <1>4 DEF Shared, Covers
<1> QED  BY <1>4, <1>5, <1>6, <1>7 DEF Shared, buf1, del1, h, tail

-----------------------------------------------------------------------------
(* The inductive invariant *)

SenderInv ==
  /\ TypeOK
  /\ NoOverlap
  /\ NoneForgotten
  /\ SentCountIsExact
  /\ PumpLifecycle
  /\ BackpressureHolds

\* NoOverlap and NoneForgotten are Shared of the current state, and of the next.
LEMMA InvIsShared ==
  /\ SenderInv => /\ Shared(retryIndices, batch, nextChunkIndex, buffered, delivered)
                  /\ Handed = HandedBy(buffered, delivered)
  /\ Shared(retryIndices', batch', nextChunkIndex', buffered', delivered')
       => /\ NoOverlap' /\ NoneForgotten'
          /\ Handed' = HandedBy(buffered', delivered')
<1>1. /\ Handed = HandedBy(buffered, delivered)
      /\ Handed' = HandedBy(buffered', delivered')
  BY Zenon DEF Handed, HandedBy, InBuffer
<1>2. ASSUME SenderInv
      PROVE  Shared(retryIndices, batch, nextChunkIndex, buffered, delivered)
  <2>1. SharedType(retryIndices, batch, nextChunkIndex, buffered, delivered)
    BY <1>2 DEF SenderInv, TypeOK, SharedType
  <2>2. Apart(retryIndices, batch, buffered, delivered)
    BY <1>1, <1>2, Zenon DEF SenderInv, NoOverlap, Apart, Pooled, Held, InBuffer
  <2>3. Covers(retryIndices, batch, nextChunkIndex, buffered, delivered)
    BY <1>1, <1>2, Zenon DEF SenderInv, NoneForgotten, Covers, Pooled, Held
  <2> QED  BY <2>1, <2>2, <2>3 DEF Shared
<1>3. ASSUME Shared(retryIndices', batch', nextChunkIndex', buffered', delivered')
      PROVE  NoOverlap' /\ NoneForgotten'
  <2>1. NoOverlap'
    BY <1>1, <1>3, Zenon DEF Shared, NoOverlap, Apart, Pooled, Held, InBuffer
  <2>2. NoneForgotten'
    BY <1>1, <1>3, Zenon DEF Shared, NoneForgotten, Covers, Pooled, Held
  <2> QED  BY <2>1, <2>2
<1> QED  BY <1>1, <1>2, <1>3

\* Everything handed over is a chunk, so the count never passes the total.
LEMMA HandedIsBounded ==
  ASSUME NEW pool, NEW bat, NEW next, NEW buf, NEW del,
         Shared(pool, bat, next, buf, del)
  PROVE  /\ HandedBy(buf, del) \subseteq Chunks
         /\ IsFiniteSet(Chunks) /\ Cardinality(Chunks) = TotalChunks
         /\ IsFiniteSet(HandedBy(buf, del))
         /\ Cardinality(HandedBy(buf, del)) \in 0 .. TotalChunks
         /\ Cardinality(HandedBy(buf, del)) = TotalChunks => HandedBy(buf, del) = Chunks
<1>1. next \in 0 .. TotalChunks /\ HandedBy(buf, del) \subseteq 0 .. next - 1
  BY SharedFacts
<1>2. HandedBy(buf, del) \subseteq Chunks  BY <1>1, SenderAssumption DEF Chunks
<1>3. IsFiniteSet(Chunks) /\ Cardinality(Chunks) = TotalChunks
  BY SenderAssumption, FS_Interval DEF Chunks
<1>4. /\ IsFiniteSet(HandedBy(buf, del))
      /\ Cardinality(HandedBy(buf, del)) <= TotalChunks
      /\ Cardinality(HandedBy(buf, del)) = TotalChunks => HandedBy(buf, del) = Chunks
  BY <1>2, <1>3, FS_Subset
<1>5. Cardinality(HandedBy(buf, del)) \in Nat  BY <1>4, FS_CardinalityType
<1> QED  BY <1>2, <1>3, <1>4, <1>5, SenderAssumption

\* Once the count is full, no chunk is left in a queue or in a batch.
LEMMA FullCountEmptiesPool ==
  ASSUME SenderInv, sentChunks = TotalChunks
  PROVE  /\ Handed = Chunks
         /\ retryIndices = <<>>
         /\ \A s \in Streams : batch[s] = <<>>
<1>1. /\ Shared(retryIndices, batch, nextChunkIndex, buffered, delivered)
      /\ Handed = HandedBy(buffered, delivered)
  BY InvIsShared
<1>2. Handed = Chunks
  BY <1>1, HandedIsBounded DEF SenderInv, SentCountIsExact
<1>3. nextChunkIndex \in 0 .. TotalChunks /\ 0 .. nextChunkIndex - 1 \subseteq Chunks
  BY <1>1, SharedFacts, SenderAssumption DEF Chunks
<1>4. Range(retryIndices) = {}
  <2>1. /\ Range(retryIndices) \subseteq 0 .. nextChunkIndex - 1
        /\ Range(retryIndices) \cap HandedBy(buffered, delivered) = {}
    BY <1>1, SharedFacts, SenderAssumption, ZenonT(30)
  <2> QED  BY <2>1, <1>1, <1>2, <1>3
<1>5. retryIndices = <<>>
  BY <1>4, NothingInEmptySeq DEF SenderInv, TypeOK
<1>6. ASSUME NEW s \in Streams  PROVE batch[s] = <<>>
  <2>1. /\ Range(batch[s]) \subseteq 0 .. nextChunkIndex - 1
        /\ Range(batch[s]) \cap HandedBy(buffered, delivered) = {}
    BY <1>1, SharedFacts, ZenonT(30)
  <2>3. Range(batch[s]) = {}  BY <2>1, <1>1, <1>2, <1>3
  <2>2. batch[s] \in Seq(Chunks)  BY DEF SenderInv, TypeOK
  <2> QED  BY <2>2, <2>3, NothingInEmptySeq
<1> QED  BY <1>2, <1>5, <1>6

\* A pump with chunks in hand means that completion has not been decided.
LEMMA WorkMeansNotFired ==
  ASSUME SenderInv, NEW s \in Streams, pump[s] \in {"reading", "paused"}
  PROVE  /\ batch[s] # <<>> /\ batch[s] \in Seq(Chunks) /\ Len(batch[s]) \in Nat \ {0}
         /\ sendingStarted = TRUE /\ completeFired = FALSE /\ completed = FALSE
         /\ link[s] \in {"open", "closed"}
<1>1. batch[s] # <<>>  BY DEF SenderInv, PumpLifecycle
<1>2. batch[s] \in Seq(Chunks)  BY DEF SenderInv, TypeOK
<1>3. Len(batch[s]) \in Nat \ {0}  BY <1>1, <1>2
<1>4. sentChunks # TotalChunks  BY <1>1, FullCountEmptiesPool
<1>5. ~ completeFired /\ ~ completed  BY <1>4 DEF SenderInv, PumpLifecycle
<1>6. sendingStarted  BY DEF SenderInv, PumpLifecycle
<1>7. link[s] \in {"open", "closed"}
  BY DEF SenderInv, TypeOK, PumpLifecycle, LinkStates
<1>8. sendingStarted \in BOOLEAN /\ completeFired \in BOOLEAN /\ completed \in BOOLEAN
  BY DEF SenderInv, TypeOK
<1> QED  BY <1>1, <1>2, <1>3, <1>5, <1>6, <1>7, <1>8

\* What handing k chunks over does to the shares and to the counters.
LEMMA HandoverFacts ==
  ASSUME SenderInv, NEW s \in Streams, pump[s] \in {"reading", "paused"},
         NEW k \in 0 .. Len(batch[s]), Handover(s, k)
  PROVE  /\ Shared(retryIndices, [batch EXCEPT ![s] = Unsent(s, k)], nextChunkIndex,
                   buffered', delivered')
         /\ buffered' \in [Streams -> Seq(Chunks)]
         /\ Len(buffered'[s]) = Len(buffered[s]) + k
         /\ \A t \in Streams : t # s => buffered'[t] = buffered[t]
         /\ sentChunks' = Cardinality(HandedBy(buffered', delivered'))
         /\ sentChunks' \in 0 .. TotalChunks
         /\ completeFired' \in BOOLEAN
         /\ completeFired' => sentChunks' = TotalChunks
<1> DEFINE sent == SubSeq(batch[s], 1, k)
<1>1. /\ Shared(retryIndices, batch, nextChunkIndex, buffered, delivered)
      /\ Handed = HandedBy(buffered, delivered)
  BY InvIsShared
<1>2. /\ buffered' = [buffered EXCEPT ![s] = @ \o sent]
      /\ delivered' = delivered
      /\ sentChunks' = sentChunks + k
      /\ completeFired' = (completeFired \/ \E j \in 1 .. k : sentChunks + j = TotalChunks)
  BY DEF Handover, CheckDone
<1>3. /\ Shared(retryIndices, [batch EXCEPT ![s] = Unsent(s, k)], nextChunkIndex,
                buffered', delivered')
      /\ HandedBy(buffered', delivered') = HandedBy(buffered, delivered) \cup Range(sent)
      /\ HandedBy(buffered, delivered) \cap Range(sent) = {}
  <2>1. /\ Shared(retryIndices, [batch EXCEPT ![s] = Unsent(s, k)], nextChunkIndex,
                  [buffered EXCEPT ![s] = @ \o sent], delivered)
        /\ HandedBy([buffered EXCEPT ![s] = @ \o sent], delivered)
             = HandedBy(buffered, delivered) \cup Range(sent)
        /\ HandedBy(buffered, delivered) \cap Range(sent) = {}
    BY <1>1, HandoverKeepsShared, Zenon DEF Unsent
  <2> HIDE DEF sent
  <2> QED  BY <2>1, <1>2, Zenon
<1>4. batch[s] \in Seq(Chunks) /\ IsInjective(batch[s])
  BY <1>1, SharedFacts
<1>5. sent \in Seq(Chunks) /\ Len(sent) = k /\ IsInjective(sent)
  BY <1>4, SplitSeq
<1>6. IsFiniteSet(Range(sent)) /\ Cardinality(Range(sent)) = k
  BY <1>5, InjectiveSeqCardinality
<1>7. IsFiniteSet(HandedBy(buffered, delivered))
      /\ Cardinality(HandedBy(buffered, delivered)) = sentChunks
  BY <1>1, HandedIsBounded DEF SenderInv, SentCountIsExact
<1>8. Cardinality(HandedBy(buffered', delivered')) = sentChunks + k
  <2>1. HandedBy(buffered, delivered) \cap Range(sent) = {}  BY <1>3
  <2>2. Cardinality(HandedBy(buffered, delivered) \cup Range(sent))
          = Cardinality(HandedBy(buffered, delivered)) + Cardinality(Range(sent))
            - Cardinality(HandedBy(buffered, delivered) \cap Range(sent))
    BY <1>6, <1>7, FS_Union
  <2>3. Cardinality(HandedBy(buffered, delivered) \cap Range(sent)) = 0
    BY <2>1, FS_EmptySet
  <2>4. sentChunks \in Nat  BY <1>7, FS_CardinalityType
  <2> HIDE DEF sent
  <2> QED  BY <2>2, <2>3, <2>4, <1>3, <1>6, <1>7
<1>9. sentChunks' = Cardinality(HandedBy(buffered', delivered'))
      /\ sentChunks' \in 0 .. TotalChunks
  BY <1>2, <1>3, <1>8, HandedIsBounded
<1>10. completeFired' \in BOOLEAN /\ (completeFired' => sentChunks' = TotalChunks)
  <2>1. completeFired = FALSE  BY WorkMeansNotFired
  <2>2. sentChunks \in Nat  BY <1>7, FS_CardinalityType
  <2>3. ASSUME NEW j \in 1 .. k, sentChunks + j = TotalChunks
        PROVE  sentChunks' = TotalChunks
    BY <2>2, <2>3, <1>2, <1>9, SenderAssumption
  <2> QED  BY <2>1, <2>3, <1>2
<1>11. /\ buffered' \in [Streams -> Seq(Chunks)]
       /\ Len(buffered'[s]) = Len(buffered[s]) + k
       /\ \A t \in Streams : t # s => buffered'[t] = buffered[t]
  <2>1. buffered \in [Streams -> Seq(Chunks)]  BY DEF SenderInv, TypeOK
  <2>2. /\ buffered[s] \o sent \in Seq(Chunks)
        /\ Len(buffered[s] \o sent) = Len(buffered[s]) + k
    BY <2>1, <1>5, JoinSeq
  <2>3. buffered' = [buffered EXCEPT ![s] = buffered[s] \o sent]  BY <1>2
  <2> HIDE DEF sent
  <2> QED  BY <2>1, <2>2, <2>3
<1> QED  BY <1>3, <1>9, <1>10, <1>11

\* How many retries, and how many fresh chunks, one claim takes.
LEMMA ClaimSizes ==
  ASSUME NEW next \in 0 .. TotalChunks, Len(retryIndices) \in Nat
  PROVE  /\ RetriesTaken \in 0 .. Len(retryIndices)
         /\ NewlyClaimed(next) \in Nat
         /\ next + NewlyClaimed(next) <= TotalChunks
         /\ (Len(retryIndices) # 0 \/ next < TotalChunks)
              => RetriesTaken + NewlyClaimed(next) # 0
<1>1. BatchSize \in Nat \ {0} /\ TotalChunks \in Nat /\ next \in Nat
  BY SenderAssumption
<1>2. ASSUME NEW a \in Int, NEW b \in Int
      PROVE  /\ Min({a, b}) \in Int /\ Min({a, b}) = IF a <= b THEN a ELSE b
             /\ Max({a, b}) = IF a <= b THEN b ELSE a
  <2>1. Min({a, b}) = IF a <= b THEN a ELSE b  BY MinOfTwo, Zenon
  <2>2. Max({a, b}) = IF a <= b THEN b ELSE a  BY MaxOfTwo, Zenon
  <2> QED  BY <2>1, <2>2
<1>3. RetriesTaken = IF BatchSize <= Len(retryIndices)
                     THEN BatchSize ELSE Len(retryIndices)
  <2>1. BatchSize \in Int /\ Len(retryIndices) \in Int  BY <1>1
  <2> QED  BY <2>1, <1>2, Zenon DEF RetriesTaken
<1> DEFINE r == RetriesTaken
           m == Min({BatchSize - r, TotalChunks - next})
<1>4. r \in 0 .. Len(retryIndices) /\ r <= BatchSize /\ (Len(retryIndices) # 0 => r # 0)
  BY <1>1, <1>3
<1> HIDE DEF r
<1>5. BatchSize - r \in Int /\ TotalChunks - next \in Int  BY <1>1, <1>4
<1>6. m \in Int /\ m = IF BatchSize - r <= TotalChunks - next
                       THEN BatchSize - r ELSE TotalChunks - next
  BY <1>5, <1>2, Zenon
<1>7. NewlyClaimed(next) = Max({0, m})  BY Zenon DEF NewlyClaimed, r
<1> HIDE DEF m
<1>8. Max({0, m}) = IF 0 <= m THEN m ELSE 0
  <2>1. 0 \in Int  OBVIOUS
  <2> QED  BY <2>1, <1>2, <1>6, Zenon
<1>9. /\ NewlyClaimed(next) \in Nat /\ next + NewlyClaimed(next) <= TotalChunks
      /\ (r = 0 /\ next < TotalChunks) => NewlyClaimed(next) # 0
  BY <1>1, <1>4, <1>6, <1>7, <1>8
<1> QED  BY <1>1, <1>4, <1>9 DEF r

\* What the head of the loop does once the batch is spent.
LEMMA LoopPumpFacts ==
  ASSUME NEW s \in Streams, NEW next, NEW buf, NEW del,
         batch \in [Streams -> Seq(Chunks)], pump \in [Streams -> PumpStates],
         Shared(retryIndices, [batch EXCEPT ![s] = <<>>], next, buf, del),
         LoopPump(s, next)
  PROVE  /\ Shared(retryIndices', batch', nextChunkIndex', buf, del)
         /\ pump' \in [Streams -> PumpStates]
         /\ pump'[s] \in {"reading", "ended"}
         /\ (batch'[s] = <<>>) <=> pump'[s] \in {"idle", "ended"}
         /\ \A t \in Streams : t # s => batch'[t] = batch[t] /\ pump'[t] = pump[t]
<1> DEFINE bat == [batch EXCEPT ![s] = <<>>]
<1>1. /\ retryIndices \in Seq(Chunks) /\ bat \in [Streams -> Seq(Chunks)]
      /\ next \in 0 .. TotalChunks /\ bat[s] = <<>>
  BY SharedFacts
<1>2. CASE /\ MoreWork(next)
           /\ ReadBatch(s, next)
           /\ pump' = [pump EXCEPT ![s] = "reading"]
  <2> DEFINE r == RetriesTaken
             n == NewlyClaimed(next)
             claim == Claimed(retryIndices, r, next, n)
  <2>1. Len(retryIndices) \in Nat /\ (retryIndices # <<>> => Len(retryIndices) # 0)
    BY <1>1
  <2>2. /\ r \in 0 .. Len(retryIndices) /\ n \in Nat /\ next + n <= TotalChunks
        /\ r + n # 0
    BY <1>1, <1>2, <2>1, ClaimSizes DEF MoreWork
  <2> HIDE DEF r, n, bat
  <2>4. Shared(retryIndices, bat, next, buf, del)  BY DEF bat
  <2>5. /\ Shared(SubSeq(retryIndices, r + 1, Len(retryIndices)),
                  [bat EXCEPT ![s] = claim], next + n, buf, del)
        /\ claim \in Seq(Chunks) /\ Len(claim) = r + n
    <3>1. next + n <= TotalChunks /\ r \in 0 .. Len(retryIndices) /\ n \in Nat
          /\ bat[s] = <<>>
      BY <1>1, <2>2
    <3> HIDE DEF claim
    <3>2. claim = Claimed(retryIndices, r, next, n)  BY DEF claim
    <3>3. Shared(SubSeq(retryIndices, r + 1, Len(retryIndices)),
                 [bat EXCEPT ![s] = Claimed(retryIndices, r, next, n)],
                 next + n, buf, del)
      BY <3>1, <2>4, ClaimKeepsShared
    <3>4. /\ Claimed(retryIndices, r, next, n) \in Seq(Chunks)
          /\ Len(Claimed(retryIndices, r, next, n)) = r + n
      BY <3>1, <1>1, ClaimedIsSeq
    <3> QED  BY <3>2, <3>3, <3>4, Zenon
  <2>6. /\ batch' = [batch EXCEPT ![s] = claim]
        /\ nextChunkIndex' = next + n
        /\ retryIndices' = SubSeq(retryIndices, r + 1, Len(retryIndices))
    BY <1>2 DEF ReadBatch, Claimed, r, n
  <2>7. claim # <<>>
    <3> HIDE DEF claim
    <3> QED  BY <2>2, <2>5
  <2> HIDE DEF claim
  <2>8. [bat EXCEPT ![s] = claim] = [batch EXCEPT ![s] = claim]  BY DEF bat
  <2>9. batch'[s] # <<>> /\ \A t \in Streams : t # s => batch'[t] = batch[t]
    BY <2>6, <2>7
  <2>10. /\ pump' \in [Streams -> PumpStates] /\ pump'[s] = "reading"
         /\ \A t \in Streams : t # s => pump'[t] = pump[t]
    BY <1>2 DEF PumpStates
  <2> QED  BY <2>5, <2>6, <2>8, <2>9, <2>10
<1>3. CASE /\ ~ MoreWork(next)
           /\ batch' = [batch EXCEPT ![s] = <<>>]
           /\ nextChunkIndex' = next
           /\ pump' = [pump EXCEPT ![s] = "ended"]
           /\ UNCHANGED retryIndices
  <2>1. Shared(retryIndices', batch', nextChunkIndex', buf, del)  BY <1>3
  <2>2. batch'[s] = <<>> /\ \A t \in Streams : t # s => batch'[t] = batch[t]
    BY <1>3
  <2>3. /\ pump' \in [Streams -> PumpStates] /\ pump'[s] = "ended"
        /\ \A t \in Streams : t # s => pump'[t] = pump[t]
    BY <1>3 DEF PumpStates
  <2> QED  BY <2>1, <2>2, <2>3
<1> QED  BY <1>2, <1>3 DEF LoopPump

\* The invariant holds again after a step that keeps these of its parts.
LEMMA StepCloses ==
  ASSUME Shared(retryIndices', batch', nextChunkIndex', buffered', delivered'),
         link' \in [Streams -> LinkStates], pump' \in [Streams -> PumpStates],
         sentChunks' = Cardinality(HandedBy(buffered', delivered')),
         sendingStarted' \in BOOLEAN, completeFired' \in BOOLEAN, completed' \in BOOLEAN,
         PumpLifecycle', BackpressureHolds'
  PROVE  SenderInv'
<1>1. NoOverlap' /\ NoneForgotten' /\ Handed' = HandedBy(buffered', delivered')
  BY InvIsShared
<1>2. SentCountIsExact'  BY <1>1 DEF SentCountIsExact
<1>3. sentChunks' \in 0 .. TotalChunks  BY HandedIsBounded
<1>4. TypeOK'  BY <1>3 DEF TypeOK, Shared, SharedType
<1> QED  BY <1>1, <1>2, <1>4 DEF SenderInv

\* A task of a pump that holds chunks, whatever it does with them.
LEMMA PumpTaskKeepsInv ==
  ASSUME SenderInv, NEW s \in Streams, pump[s] \in {"reading", "paused"},
         UNCHANGED <<link, completed, sendingStarted>>,
         Shared(retryIndices', batch', nextChunkIndex', buffered', delivered'),
         pump' \in [Streams -> PumpStates],
         (batch'[s] = <<>>) <=> pump'[s] \in {"idle", "ended"},
         \A t \in Streams : t # s =>
           batch'[t] = batch[t] /\ pump'[t] = pump[t] /\ buffered'[t] = buffered[t],
         Len(buffered'[s]) <= BufHigh(s) + 1,
         sentChunks' = Cardinality(HandedBy(buffered', delivered')),
         completeFired' \in BOOLEAN, completeFired' => sentChunks' = TotalChunks
  PROVE  SenderInv'
<1>1. /\ sendingStarted = TRUE /\ completed = FALSE
      /\ link[s] \in {"open", "closed"}
  BY WorkMeansNotFired
<1>2. link \in [Streams -> LinkStates]  BY DEF SenderInv, TypeOK
<1>3. PumpLifecycle'
  <2>1. ASSUME NEW t \in Streams
        PROVE  /\ link'[t] = "connecting" => pump'[t] = "idle" /\ buffered'[t] = <<>>
               /\ (batch'[t] = <<>>) <=> pump'[t] \in {"idle", "ended"}
    <3>1. CASE t = s  BY <3>1, <1>1
    <3>2. CASE t # s  BY <3>2 DEF SenderInv, PumpLifecycle
    <3> QED  BY <3>1, <3>2
  <2> QED  BY <2>1, <1>1 DEF PumpLifecycle
<1>4. BackpressureHolds'
  <2>1. ASSUME NEW t \in Streams  PROVE Len(buffered'[t]) <= BufHigh(t) + 1
    <3>1. CASE t = s  BY <3>1
    <3>2. CASE t # s  BY <3>2 DEF SenderInv, BackpressureHolds
    <3> QED  BY <3>1, <3>2
  <2> QED  BY <2>1 DEF BackpressureHolds, BufHigh
<1> QED  BY <1>1, <1>2, <1>3, <1>4, StepCloses

\* How far a pump may fill a buffer.
LEMMA SendableBounds ==
  ASSUME SenderInv, NEW s \in Streams
  PROVE  /\ Sendable(s) \in 0 .. Len(batch[s])
         /\ Len(buffered[s]) + Sendable(s) <= BufHigh(s) + 1
         /\ BufHigh(s) \in Nat
<1>1. /\ Len(batch[s]) \in Nat /\ Len(buffered[s]) \in Nat
      /\ Len(buffered[s]) <= BufHigh(s) + 1
  <2>1. batch[s] \in Seq(Chunks) /\ buffered[s] \in Seq(Chunks)
    BY DEF SenderInv, TypeOK
  <2> QED  BY <2>1 DEF SenderInv, BackpressureHolds
<1>2. BufHigh(s) \in Nat  BY SenderAssumption DEF BufHigh
<1> DEFINE room == Max({0, BufHigh(s) + 1 - Len(buffered[s])})
<1>3. room = BufHigh(s) + 1 - Len(buffered[s]) /\ room \in Nat
  <2>1. 0 \in Int /\ BufHigh(s) + 1 - Len(buffered[s]) \in Int  BY <1>1, <1>2
  <2>2. room = IF 0 <= BufHigh(s) + 1 - Len(buffered[s])
               THEN BufHigh(s) + 1 - Len(buffered[s]) ELSE 0
    BY <2>1, MaxOfTwo, Zenon
  <2> HIDE DEF room
  <2> QED  BY <2>2, <1>1, <1>2
<1>4. Sendable(s) = IF Len(batch[s]) <= room THEN Len(batch[s]) ELSE room
  <2>1. Len(batch[s]) \in Int /\ room \in Int  BY <1>1, <1>3
  <2> QED  BY <2>1, MinOfTwo, Zenon DEF Sendable
<1> HIDE DEF room
<1> QED  BY <1>1, <1>2, <1>3, <1>4

\* Giving the rest of the batch back, after k chunks of it were handed over.
LEMMA RequeueFacts ==
  ASSUME NEW s \in Streams, NEW k, NEW buf, NEW del,
         batch \in [Streams -> Seq(Chunks)], pump \in [Streams -> PumpStates],
         Shared(retryIndices, [batch EXCEPT ![s] = Unsent(s, k)], nextChunkIndex, buf, del),
         Requeue(s, k)
  PROVE  /\ Shared(retryIndices', batch', nextChunkIndex', buf, del)
         /\ pump' \in [Streams -> PumpStates]
         /\ (batch'[s] = <<>>) <=> pump'[s] \in {"idle", "ended"}
         /\ \A t \in Streams : t # s => batch'[t] = batch[t] /\ pump'[t] = pump[t]
<1> DEFINE bat == [batch EXCEPT ![s] = Unsent(s, k)]
<1>1. bat[s] = Unsent(s, k) /\ [bat EXCEPT ![s] = <<>>] = [batch EXCEPT ![s] = <<>>]
  OBVIOUS
<1>2. Shared(retryIndices, bat, nextChunkIndex, buf, del)  OBVIOUS
<1> HIDE DEF bat
<1>3. Shared(retryIndices \o bat[s], [bat EXCEPT ![s] = <<>>], nextChunkIndex, buf, del)
  BY <1>2, RequeueKeepsShared
<1>4. /\ retryIndices' = retryIndices \o Unsent(s, k)
      /\ pump' = [pump EXCEPT ![s] = "ended"]
      /\ batch' = [batch EXCEPT ![s] = <<>>]
      /\ nextChunkIndex' = nextChunkIndex
  BY DEF Requeue
<1>5. Shared(retryIndices', batch', nextChunkIndex', buf, del)  BY <1>1, <1>3, <1>4
<1>6. /\ pump' \in [Streams -> PumpStates] /\ pump'[s] = "ended" /\ batch'[s] = <<>>
      /\ \A t \in Streams : t # s => batch'[t] = batch[t] /\ pump'[t] = pump[t]
  BY <1>4 DEF PumpStates
<1> QED  BY <1>5, <1>6

\* A pump that hands k chunks over and then loops, waits or gives up.
LEMMA HandoverTaskKeepsInv ==
  ASSUME SenderInv, NEW s \in Streams, pump[s] \in {"reading", "paused"},
         UNCHANGED completed,
         NEW k \in 0 .. Len(batch[s]), Handover(s, k),
         Len(buffered[s]) + k <= BufHigh(s) + 1,
         \/ k = Len(batch[s]) /\ LoopPump(s, nextChunkIndex)
         \/ /\ k < Len(batch[s])
            /\ pump' = [pump EXCEPT ![s] = "paused"]
            /\ batch' = [batch EXCEPT ![s] = Unsent(s, k)]
            /\ UNCHANGED poolVars
         \/ Requeue(s, k)
  PROVE  SenderInv'
<1>1. /\ Shared(retryIndices, [batch EXCEPT ![s] = Unsent(s, k)], nextChunkIndex,
                buffered', delivered')
      /\ Len(buffered'[s]) <= BufHigh(s) + 1
      /\ \A t \in Streams : t # s => buffered'[t] = buffered[t]
      /\ sentChunks' = Cardinality(HandedBy(buffered', delivered'))
      /\ completeFired' \in BOOLEAN
      /\ completeFired' => sentChunks' = TotalChunks
  BY HandoverFacts
<1>2. UNCHANGED <<link, completed, sendingStarted>>  BY DEF Handover
<1>3. /\ batch \in [Streams -> Seq(Chunks)] /\ pump \in [Streams -> PumpStates]
      /\ batch[s] \in Seq(Chunks)
  BY DEF SenderInv, TypeOK
<1>4. /\ Shared(retryIndices', batch', nextChunkIndex', buffered', delivered')
      /\ pump' \in [Streams -> PumpStates]
      /\ (batch'[s] = <<>>) <=> pump'[s] \in {"idle", "ended"}
      /\ \A t \in Streams : t # s => batch'[t] = batch[t] /\ pump'[t] = pump[t]
  <2>1. CASE k = Len(batch[s]) /\ LoopPump(s, nextChunkIndex)
    <3>1. Unsent(s, k) = <<>>  BY <2>1, <1>3 DEF Unsent
    <3>2. Shared(retryIndices, [batch EXCEPT ![s] = <<>>], nextChunkIndex,
                 buffered', delivered')
      BY <3>1, <1>1
    <3> QED  BY <2>1, <3>2, <1>3, LoopPumpFacts
  <2>2. CASE /\ k < Len(batch[s])
             /\ pump' = [pump EXCEPT ![s] = "paused"]
             /\ batch' = [batch EXCEPT ![s] = Unsent(s, k)]
             /\ UNCHANGED poolVars
    <3>1. Shared(retryIndices', batch', nextChunkIndex', buffered', delivered')
      BY <2>2, <1>1 DEF poolVars
    <3>2. Len(Unsent(s, k)) = Len(batch[s]) - k /\ Unsent(s, k) \in Seq(Chunks)
      BY <1>3, SplitSeq DEF Unsent
    <3>3. Unsent(s, k) # <<>>  BY <2>2, <3>2, <1>3
    <3>4. batch'[s] # <<>> /\ \A t \in Streams : t # s => batch'[t] = batch[t]
      BY <2>2, <3>3, <1>3
    <3>5. /\ pump' \in [Streams -> PumpStates] /\ pump'[s] = "paused"
          /\ \A t \in Streams : t # s => pump'[t] = pump[t]
      BY <2>2, <1>3 DEF PumpStates
    <3> QED  BY <3>1, <3>4, <3>5
  <2>3. CASE Requeue(s, k)  BY <2>3, <1>1, <1>3, RequeueFacts
  <2> QED  BY <2>1, <2>2, <2>3
<1> QED  BY <1>1, <1>2, <1>4, PumpTaskKeepsInv

\* sendBatch hands chunks over, or gives the rest back when send() throws.
LEMMA SendBatchKeepsInv ==
  ASSUME SenderInv, NEW s \in Streams, pump[s] \in {"reading", "paused"},
         SendBatch(s), UNCHANGED completed
  PROVE  SenderInv'
<1>1. /\ Sendable(s) \in 0 .. Len(batch[s])
      /\ Len(buffered[s]) + Sendable(s) <= BufHigh(s) + 1
      /\ Len(buffered[s]) \in Nat /\ BufHigh(s) \in Nat /\ Len(batch[s]) \in Nat
  <2>1. buffered[s] \in Seq(Chunks) /\ batch[s] \in Seq(Chunks)
    BY DEF SenderInv, TypeOK
  <2> QED  BY <2>1, SendableBounds
<1>2. CASE /\ Sendable(s) = Len(batch[s])
           /\ Handover(s, Sendable(s))
           /\ LoopPump(s, nextChunkIndex)
  BY <1>1, <1>2, HandoverTaskKeepsInv
<1>3. CASE /\ Sendable(s) < Len(batch[s])
           /\ Handover(s, Sendable(s))
           /\ pump' = [pump EXCEPT ![s] = "paused"]
           /\ batch' = [batch EXCEPT ![s] = Unsent(s, Sendable(s))]
           /\ UNCHANGED poolVars
  BY <1>1, <1>3, HandoverTaskKeepsInv
<1>4. ASSUME NEW k \in 0 .. Sendable(s) - 1, Handover(s, k), Requeue(s, k)
      PROVE  SenderInv'
  <2>1. k \in 0 .. Len(batch[s]) /\ Len(buffered[s]) + k <= BufHigh(s) + 1
    BY <1>1
  <2> QED  BY <1>4, <2>1, HandoverTaskKeepsInv
<1> QED  BY <1>2, <1>3, <1>4 DEF SendBatch

\* The pump of a dead connection gives its whole batch back.
LEMMA GivingUpKeepsInv ==
  ASSUME SenderInv, NEW s \in Streams, pump[s] \in {"reading", "paused"},
         Requeue(s, 0), UNCHANGED <<countVars, streamVars, completed>>
  PROVE  SenderInv'
<1>1. /\ Shared(retryIndices, batch, nextChunkIndex, buffered, delivered)
      /\ sentChunks = Cardinality(HandedBy(buffered, delivered))
  BY InvIsShared DEF SenderInv, SentCountIsExact
<1>2. /\ batch \in [Streams -> Seq(Chunks)] /\ pump \in [Streams -> PumpStates]
      /\ batch[s] \in Seq(Chunks) /\ completeFired \in BOOLEAN
      /\ Len(buffered[s]) <= BufHigh(s) + 1
      /\ completeFired => sentChunks = TotalChunks
  BY DEF SenderInv, TypeOK, BackpressureHolds, PumpLifecycle
<1>3. Unsent(s, 0) = batch[s]  BY <1>2 DEF Unsent
<1>4. [batch EXCEPT ![s] = Unsent(s, 0)] = batch  BY <1>2, <1>3
<1>5. /\ Shared(retryIndices', batch', nextChunkIndex', buffered, delivered)
      /\ pump' \in [Streams -> PumpStates]
      /\ (batch'[s] = <<>>) <=> pump'[s] \in {"idle", "ended"}
      /\ \A t \in Streams : t # s => batch'[t] = batch[t] /\ pump'[t] = pump[t]
  BY <1>1, <1>2, <1>4, RequeueFacts
<1>6. /\ buffered' = buffered /\ delivered' = delivered /\ link' = link
      /\ sentChunks' = sentChunks /\ completeFired' = completeFired
      /\ sendingStarted' = sendingStarted /\ completed' = completed
  BY DEF countVars, streamVars
<1> QED  BY <1>1, <1>2, <1>5, <1>6, PumpTaskKeepsInv

-----------------------------------------------------------------------------
(* One lemma per task of the event loop *)

\* No chunk is claimed, handed over or buffered before the first stream opens.
LEMMA InitEstablishesInv == ASSUME Init PROVE SenderInv
<1>1. /\ <<>> \in Seq(Chunks)
      /\ Range(<<>>) = {} /\ IsInjective(<<>>) /\ Len(<<>>) = 0
  <2>1. <<>> \in Seq(Chunks)  OBVIOUS
  <2> QED  BY <2>1, NothingInEmptySeq
<1>2. TotalChunks \in Nat  BY SenderAssumption
<1>3. TypeOK
  <2>1. /\ batch \in [Streams -> Seq(Chunks)] /\ buffered \in [Streams -> Seq(Chunks)]
        /\ retryIndices \in Seq(Chunks)
    BY <1>1 DEF Init
  <2>2. link \in [Streams -> LinkStates] /\ pump \in [Streams -> PumpStates]
    BY DEF Init, LinkStates, PumpStates
  <2>3. /\ nextChunkIndex \in 0 .. TotalChunks /\ sentChunks \in 0 .. TotalChunks
        /\ delivered \in SUBSET Chunks
    BY <1>2 DEF Init
  <2>4. /\ sendingStarted \in BOOLEAN /\ completeFired \in BOOLEAN
        /\ completed \in BOOLEAN
    BY Zenon DEF Init
  <2> QED  BY <2>1, <2>2, <2>3, <2>4 DEF TypeOK
<1>4. Handed = {}  BY <1>1, Zenon DEF Init, Handed, InBuffer
<1>5. NoOverlap
  BY <1>1, <1>4 DEF Init, NoOverlap, Pooled, Held, InBuffer
<1>6. NoneForgotten
  <2>1. UNION {Held(s) : s \in Streams} = {}  BY <1>1, Zenon DEF Init, Held
  <2>2. Pooled = {} /\ nextChunkIndex = 0  BY <1>1 DEF Init, Pooled
  <2> QED  BY <2>1, <2>2, <1>4 DEF NoneForgotten
<1>7. SentCountIsExact  BY <1>4, FS_EmptySet DEF Init, SentCountIsExact
<1>8. PumpLifecycle  BY DEF Init, PumpLifecycle
<1>9. BackpressureHolds
  BY <1>1, SenderAssumption DEF Init, BackpressureHolds, BufHigh
<1> QED  BY <1>3, <1>5, <1>6, <1>7, <1>8, <1>9 DEF SenderInv

\* What the invariant says that every task needs.
LEMMA InvFacts ==
  ASSUME SenderInv
  PROVE  /\ Shared(retryIndices, batch, nextChunkIndex, buffered, delivered)
         /\ sentChunks = Cardinality(HandedBy(buffered, delivered))
         /\ link \in [Streams -> LinkStates] /\ pump \in [Streams -> PumpStates]
         /\ batch \in [Streams -> Seq(Chunks)] /\ buffered \in [Streams -> Seq(Chunks)]
         /\ sendingStarted \in BOOLEAN /\ completeFired \in BOOLEAN
         /\ completed \in BOOLEAN
         /\ PumpLifecycle /\ BackpressureHolds
BY InvIsShared DEF SenderInv, TypeOK, SentCountIsExact

\* _tryStart: the first stream starts the cursor, every stream its pump.
LEMMA OpenKeepsInv ==
  ASSUME SenderInv, NEW s \in Streams, Open(s)
  PROVE  SenderInv'
<1>1. /\ link[s] = "connecting" /\ pump[s] = "idle"
      /\ buffered[s] = <<>> /\ batch[s] = <<>>
  BY DEF SenderInv, PumpLifecycle, Open
<1>2. StartCursor = nextChunkIndex
  BY DEF StartCursor, SenderInv, PumpLifecycle
<1>3. [batch EXCEPT ![s] = <<>>] = batch  BY <1>1, InvFacts
<1>4. /\ link' = [link EXCEPT ![s] = "open"]
      /\ sendingStarted' = TRUE
      /\ LoopPump(s, nextChunkIndex)
      /\ UNCHANGED <<completeFired, completed, buffered, delivered>>
  BY <1>2 DEF Open
<1>5. sentChunks' = sentChunks  BY DEF Open, SenderInv, PumpLifecycle
<1>6. Shared(retryIndices, [batch EXCEPT ![s] = <<>>], nextChunkIndex,
             buffered', delivered')
  BY <1>3, <1>4, InvFacts
<1>7. batch \in [Streams -> Seq(Chunks)] /\ pump \in [Streams -> PumpStates]
  BY InvFacts
<1>8. LoopPump(s, nextChunkIndex)  BY <1>4
<1>9. /\ Shared(retryIndices', batch', nextChunkIndex', buffered', delivered')
      /\ pump' \in [Streams -> PumpStates]
      /\ (batch'[s] = <<>>) <=> pump'[s] \in {"idle", "ended"}
      /\ \A t \in Streams : t # s => batch'[t] = batch[t] /\ pump'[t] = pump[t]
  BY <1>6, <1>7, <1>8, LoopPumpFacts
<1>10. /\ link' \in [Streams -> LinkStates] /\ link'[s] = "open"
       /\ \A t \in Streams : t # s => link'[t] = link[t]
  BY <1>4, InvFacts DEF LinkStates
<1>11. PumpLifecycle'
  <2>1. ASSUME NEW t \in Streams
        PROVE  /\ link'[t] = "connecting" => pump'[t] = "idle" /\ buffered'[t] = <<>>
               /\ (batch'[t] = <<>>) <=> pump'[t] \in {"idle", "ended"}
               /\ completed' => (link'[t] = "open" => buffered'[t] = <<>>)
    <3>1. CASE t = s  BY <3>1, <1>1, <1>4, <1>9, <1>10
    <3>2. CASE t # s
      BY <3>2, <1>4, <1>9, <1>10 DEF SenderInv, PumpLifecycle
    <3> QED  BY <3>1, <3>2
  <2>2. completeFired' => sentChunks' = TotalChunks
    BY <1>4, <1>5 DEF SenderInv, PumpLifecycle
  <2>3. completed' => completeFired'  BY <1>4 DEF SenderInv, PumpLifecycle
  <2> QED  BY <2>1, <2>2, <2>3, <1>4 DEF PumpLifecycle
<1>12. BackpressureHolds'
  BY <1>4 DEF SenderInv, BackpressureHolds, BufHigh
<1>13. /\ sentChunks' = Cardinality(HandedBy(buffered', delivered'))
       /\ sendingStarted' \in BOOLEAN /\ completeFired' \in BOOLEAN
       /\ completed' \in BOOLEAN
  BY <1>4, <1>5, InvFacts
<1> QED  BY <1>9, <1>10, <1>11, <1>12, <1>13, StepCloses

\* A connection that closes leaves queue, batches and counters alone.
LEMMA CloseKeepsInv ==
  ASSUME SenderInv, NEW s \in Streams, Close(s)
  PROVE  SenderInv'
<1>1. /\ link' = [link EXCEPT ![s] = "closed"]
      /\ retryIndices' = retryIndices /\ batch' = batch /\ pump' = pump
      /\ nextChunkIndex' = nextChunkIndex /\ buffered' = buffered
      /\ delivered' = delivered /\ sentChunks' = sentChunks
      /\ sendingStarted' = sendingStarted /\ completeFired' = completeFired
      /\ completed' = completed
  BY DEF Close, poolVars, pumpVars, countVars
<1>2. /\ link' \in [Streams -> LinkStates] /\ link'[s] = "closed"
      /\ \A t \in Streams : t # s => link'[t] = link[t]
  BY <1>1, InvFacts DEF LinkStates
<1>3. PumpLifecycle'
  <2>1. \A t \in Streams : link'[t] \in {"connecting", "open"} => link'[t] = link[t]
    BY <1>2
  <2> QED  BY <2>1, <1>1 DEF SenderInv, PumpLifecycle
<1>4. BackpressureHolds'
  BY <1>1 DEF SenderInv, BackpressureHolds, BufHigh
<1>5. /\ Shared(retryIndices', batch', nextChunkIndex', buffered', delivered')
      /\ pump' \in [Streams -> PumpStates]
      /\ sentChunks' = Cardinality(HandedBy(buffered', delivered'))
      /\ sendingStarted' \in BOOLEAN /\ completeFired' \in BOOLEAN
      /\ completed' \in BOOLEAN
  BY <1>1, InvFacts
<1> QED  BY <1>2, <1>3, <1>4, <1>5, StepCloses

\* The slice was read: the batch goes to the connection, or back.
LEMMA ReadDoneKeepsInv ==
  ASSUME SenderInv, NEW s \in Streams, ReadDone(s)
  PROVE  SenderInv'
<1>1. pump[s] \in {"reading", "paused"} /\ UNCHANGED completed  BY DEF ReadDone
<1>2. CASE SendBatch(s)  BY <1>1, <1>2, SendBatchKeepsInv
<1>3. CASE Requeue(s, 0) /\ UNCHANGED <<countVars, streamVars>>
  BY <1>1, <1>3, GivingUpKeepsInv
<1> QED  BY <1>2, <1>3 DEF ReadDone

\* A rejected read ends the pump with its batch in hand.
LEMMA ReadFailsKeepsInv ==
  ASSUME SenderInv, NEW s \in Streams, ReadFails(s)
  PROVE  SenderInv'
<1>1. /\ pump[s] = "reading" /\ pump' = [pump EXCEPT ![s] = "rejected"]
      /\ retryIndices' = retryIndices /\ batch' = batch /\ link' = link
      /\ nextChunkIndex' = nextChunkIndex /\ buffered' = buffered
      /\ delivered' = delivered /\ sentChunks' = sentChunks
      /\ sendingStarted' = sendingStarted /\ completeFired' = completeFired
      /\ completed' = completed
  BY DEF ReadFails, poolVars, countVars, streamVars
<1>2. /\ pump' \in [Streams -> PumpStates] /\ pump'[s] = "rejected"
      /\ \A t \in Streams : t # s => batch'[t] = batch[t] /\ pump'[t] = pump[t]
  BY <1>1, InvFacts DEF PumpStates
<1>3. batch[s] # <<>>  BY <1>1, WorkMeansNotFired
<1>4. Len(buffered'[s]) <= BufHigh(s) + 1
  BY <1>1 DEF SenderInv, BackpressureHolds
<1>5. /\ Shared(retryIndices', batch', nextChunkIndex', buffered', delivered')
      /\ sentChunks' = Cardinality(HandedBy(buffered', delivered'))
      /\ completeFired' \in BOOLEAN
  BY <1>1, InvFacts
<1>6. completeFired' => sentChunks' = TotalChunks
  BY <1>1 DEF SenderInv, PumpLifecycle
<1> QED  BY <1>1, <1>2, <1>3, <1>4, <1>5, <1>6, PumpTaskKeepsInv

\* A relay pump polls its buffer and goes on, or gives its batch back.
LEMMA ResumeRelayKeepsInv ==
  ASSUME SenderInv, NEW s \in Streams, ResumeRelay(s)
  PROVE  SenderInv'
<1>1. pump[s] \in {"reading", "paused"} /\ UNCHANGED completed /\ s \in Relays
  BY DEF ResumeRelay
<1>2. CASE SendBatch(s)  BY <1>1, <1>2, SendBatchKeepsInv
<1>3. CASE Requeue(s, 0) /\ UNCHANGED <<countVars, streamVars>>
  BY <1>1, <1>3, GivingUpKeepsInv
<1>4. CASE /\ Len(buffered[s]) <= RelayBufHigh
           /\ Handover(s, 1)
           /\ IF Len(batch[s]) = 1 THEN LoopPump(s, nextChunkIndex) ELSE Requeue(s, 1)
  <2>1. Len(batch[s]) \in Nat \ {0} /\ 1 \in 0 .. Len(batch[s])
    <3>1. Len(batch[s]) \in Nat \ {0}  BY <1>1, WorkMeansNotFired, Zenon
    <3> QED  BY <3>1
  <2>2. Len(buffered[s]) + 1 <= BufHigh(s) + 1
    <3>1. buffered[s] \in Seq(Chunks)  BY InvFacts
    <3>2. Len(buffered[s]) \in Nat  BY <3>1
    <3> QED  BY <3>2, <1>1, <1>4, SenderAssumption DEF BufHigh
  <2>3. CASE Len(batch[s]) = 1 /\ LoopPump(s, nextChunkIndex)
    BY <2>1, <2>2, <2>3, <1>1, <1>4, HandoverTaskKeepsInv
  <2>4. CASE Requeue(s, 1)
    BY <2>1, <2>2, <2>4, <1>1, <1>4, HandoverTaskKeepsInv
  <2> QED  BY <2>3, <2>4, <1>4
<1> QED  BY <1>2, <1>3, <1>4 DEF ResumeRelay

\* A P2P pump goes on when its buffer has run low.
LEMMA ResumeP2PKeepsInv ==
  ASSUME SenderInv, NEW s \in Streams, ResumeP2P(s)
  PROVE  SenderInv'
<1>1. pump[s] \in {"reading", "paused"} /\ UNCHANGED completed  BY DEF ResumeP2P
<1>2. CASE SendBatch(s)  BY <1>1, <1>2, SendBatchKeepsInv
<1>3. CASE Requeue(s, 0) /\ UNCHANGED <<countVars, streamVars>>
  BY <1>1, <1>3, GivingUpKeepsInv
<1> QED  BY <1>2, <1>3 DEF ResumeP2P

\* A chunk that leaves a buffer reaches the other end.
LEMMA TransmitKeepsInv ==
  ASSUME SenderInv, NEW s \in Streams, Transmit(s)
  PROVE  SenderInv'
<1>1. /\ link[s] = "open" /\ buffered[s] # <<>>
      /\ delivered' = delivered \cup {Head(buffered[s])}
      /\ buffered' = [buffered EXCEPT ![s] = Tail(@)]
      /\ retryIndices' = retryIndices /\ batch' = batch /\ pump' = pump
      /\ nextChunkIndex' = nextChunkIndex /\ link' = link
      /\ sentChunks' = sentChunks /\ sendingStarted' = sendingStarted
      /\ completeFired' = completeFired /\ completed' = completed
  BY DEF Transmit, poolVars, pumpVars, countVars
<1>2. /\ Shared(retryIndices, batch, nextChunkIndex, buffered', delivered')
      /\ HandedBy(buffered', delivered') = HandedBy(buffered, delivered)
  <2>1. /\ Shared(retryIndices, batch, nextChunkIndex,
                  [buffered EXCEPT ![s] = Tail(@)], delivered \cup {Head(buffered[s])})
        /\ HandedBy([buffered EXCEPT ![s] = Tail(@)], delivered \cup {Head(buffered[s])})
             = HandedBy(buffered, delivered)
    <3>1. Shared(retryIndices, batch, nextChunkIndex, buffered, delivered)  BY InvFacts
    <3>2. buffered[s] # <<>>  BY <1>1
    <3>3. Shared(retryIndices, batch, nextChunkIndex,
                 [buffered EXCEPT ![s] = Tail(@)], delivered \cup {Head(buffered[s])})
      BY <3>1, <3>2, TransmitKeepsShared
    <3>4. HandedBy([buffered EXCEPT ![s] = Tail(@)], delivered \cup {Head(buffered[s])})
            = HandedBy(buffered, delivered)
      BY <3>1, <3>2, TransmitKeepsShared
    <3> QED  BY <3>3, <3>4
  <2> QED  BY <2>1, <1>1, Zenon
<1>3. /\ Len(buffered'[s]) = Len(buffered[s]) - 1 /\ Len(buffered[s]) \in Nat
      /\ \A t \in Streams : t # s => buffered'[t] = buffered[t]
  <2>1. buffered[s] \in Seq(Chunks) /\ buffered \in [Streams -> Seq(Chunks)]
    BY InvFacts
  <2>2. Len(Tail(buffered[s])) = Len(buffered[s]) - 1 /\ Len(buffered[s]) \in Nat
    BY <2>1, <1>1
  <2> QED  BY <2>1, <2>2, <1>1
<1>4. completed = FALSE  BY <1>1, InvFacts DEF PumpLifecycle
<1>5. PumpLifecycle'
  <2>1. \A t \in Streams : link[t] = "connecting" => buffered'[t] = buffered[t]
    BY <1>1, <1>3
  <2> QED  BY <2>1, <1>1, <1>4 DEF SenderInv, PumpLifecycle
<1>6. BackpressureHolds'
  <2>1. ASSUME NEW t \in Streams  PROVE Len(buffered'[t]) <= BufHigh(t) + 1
    <3>1. Len(buffered[t]) <= BufHigh(t) + 1 /\ BufHigh(t) \in Nat
      BY SenderAssumption DEF SenderInv, BackpressureHolds, BufHigh
    <3>2. CASE t = s  BY <3>1, <3>2, <1>3
    <3>3. CASE t # s  BY <3>1, <3>3, <1>3
    <3> QED  BY <3>2, <3>3
  <2> QED  BY <2>1 DEF BackpressureHolds, BufHigh
<1>7. /\ Shared(retryIndices', batch', nextChunkIndex', buffered', delivered')
      /\ link' \in [Streams -> LinkStates] /\ pump' \in [Streams -> PumpStates]
      /\ sentChunks' = Cardinality(HandedBy(buffered', delivered'))
      /\ sendingStarted' \in BOOLEAN /\ completeFired' \in BOOLEAN
      /\ completed' \in BOOLEAN
  BY <1>1, <1>2, InvFacts
<1> QED  BY <1>5, <1>6, <1>7, StepCloses

\* Completion is reported once the buffers of live connections are empty.
LEMMA DrainDoneKeepsInv ==
  ASSUME SenderInv, DrainDone
  PROVE  SenderInv'
<1>1. /\ completeFired /\ completed' = TRUE
      /\ \A s \in Streams : link[s] = "open" => buffered[s] = <<>>
      /\ retryIndices' = retryIndices /\ batch' = batch /\ pump' = pump
      /\ nextChunkIndex' = nextChunkIndex /\ link' = link
      /\ sentChunks' = sentChunks /\ sendingStarted' = sendingStarted
      /\ completeFired' = completeFired /\ buffered' = buffered
      /\ delivered' = delivered
  BY DEF DrainDone, poolVars, pumpVars, countVars, streamVars
<1>2. PumpLifecycle'  BY <1>1 DEF SenderInv, PumpLifecycle
<1>3. BackpressureHolds'
  BY <1>1 DEF SenderInv, BackpressureHolds, BufHigh
<1>4. /\ Shared(retryIndices', batch', nextChunkIndex', buffered', delivered')
      /\ link' \in [Streams -> LinkStates] /\ pump' \in [Streams -> PumpStates]
      /\ sentChunks' = Cardinality(HandedBy(buffered', delivered'))
      /\ sendingStarted' \in BOOLEAN /\ completeFired' \in BOOLEAN
      /\ completed' \in BOOLEAN
  BY <1>1, InvFacts
<1> QED  BY <1>2, <1>3, <1>4, StepCloses

\* A stuttering step changes nothing.
LEMMA StutterKeepsInv ==
  ASSUME SenderInv, UNCHANGED vars
  PROVE  SenderInv'
<1>1. /\ retryIndices' = retryIndices /\ batch' = batch /\ pump' = pump
      /\ nextChunkIndex' = nextChunkIndex /\ link' = link
      /\ sentChunks' = sentChunks /\ sendingStarted' = sendingStarted
      /\ completeFired' = completeFired /\ buffered' = buffered
      /\ delivered' = delivered /\ completed' = completed
  BY DEF vars, poolVars, pumpVars, countVars, streamVars
<1>2. PumpLifecycle'  BY <1>1 DEF SenderInv, PumpLifecycle
<1>3. BackpressureHolds'
  BY <1>1 DEF SenderInv, BackpressureHolds, BufHigh
<1>4. /\ Shared(retryIndices', batch', nextChunkIndex', buffered', delivered')
      /\ link' \in [Streams -> LinkStates] /\ pump' \in [Streams -> PumpStates]
      /\ sentChunks' = Cardinality(HandedBy(buffered', delivered'))
      /\ sendingStarted' \in BOOLEAN /\ completeFired' \in BOOLEAN
      /\ completed' \in BOOLEAN
  BY <1>1, InvFacts
<1> QED  BY <1>2, <1>3, <1>4, StepCloses

\* The invariant is inductive.
LEMMA NextKeepsInv ==
  ASSUME SenderInv, [Next]_vars
  PROVE  SenderInv'
<1>1. ASSUME NEW s \in Streams, Open(s)  PROVE SenderInv'  BY <1>1, OpenKeepsInv
<1>2. ASSUME NEW s \in Streams, Close(s)  PROVE SenderInv'  BY <1>2, CloseKeepsInv
<1>3. ASSUME NEW s \in Streams, ReadDone(s)  PROVE SenderInv'
  BY <1>3, ReadDoneKeepsInv
<1>4. ASSUME NEW s \in Streams, ReadFails(s)  PROVE SenderInv'
  BY <1>4, ReadFailsKeepsInv
<1>5. ASSUME NEW s \in Streams, ResumeRelay(s)  PROVE SenderInv'
  BY <1>5, ResumeRelayKeepsInv
<1>6. ASSUME NEW s \in Streams, ResumeP2P(s)  PROVE SenderInv'
  BY <1>6, ResumeP2PKeepsInv
<1>7. ASSUME NEW s \in Streams, Transmit(s)  PROVE SenderInv'
  BY <1>7, TransmitKeepsInv
<1>8. CASE DrainDone  BY <1>8, DrainDoneKeepsInv
<1>9. CASE UNCHANGED vars  BY <1>9, StutterKeepsInv
<1> QED  BY <1>1, <1>2, <1>3, <1>4, <1>5, <1>6, <1>7, <1>8, <1>9 DEF Next

(***************************************************************************)
(* The strengthened invariant holds in every reachable state of the        *)
(* sending engine (transfer.js:440-687).                                   *)
(***************************************************************************)
THEOREM SenderInvariant == Spec => []SenderInv
<1>1. Init => SenderInv  BY InitEstablishesInv
<1>2. SenderInv /\ [Next]_vars => SenderInv'  BY NextKeepsInv
<1> QED  BY <1>1, <1>2, PTL DEF Spec

(***************************************************************************)
(* Type correctness: indices stay chunk indices and neither the cursor nor *)
(* the counter of _readBatch and the pumps passes totalChunks.             *)
(***************************************************************************)
THEOREM TypeCorrect == Spec => []TypeOK
<1>1. SenderInv => TypeOK  BY DEF SenderInv
<1> QED  BY <1>1, SenderInvariant, PTL

(***************************************************************************)
(* However many pumps run and fail, no chunk is in two places, and none is *)
(* sent twice (transfer.js:597-598).                                       *)
(***************************************************************************)
THEOREM NoChunkClaimedTwice == Spec => []NoOverlap
<1>1. SenderInv => NoOverlap  BY DEF SenderInv
<1> QED  BY <1>1, SenderInvariant, PTL

(***************************************************************************)
(* No chunk below the cursor is ever forgotten (transfer.js:583-616).      *)
(***************************************************************************)
THEOREM NoChunkForgotten == Spec => []NoneForgotten
<1>1. SenderInv => NoneForgotten  BY DEF SenderInv
<1> QED  BY <1>1, SenderInvariant, PTL

(***************************************************************************)
(* this.sentChunks is exactly the number of distinct chunks given to       *)
(* send(), so `sentChunks === totalChunks` (transfer.js:654) is the right  *)
(* test for "everything was queued".                                       *)
(***************************************************************************)
THEOREM CounterIsExact == Spec => []SentCountIsExact
<1>1. SenderInv => SentCountIsExact  BY DEF SenderInv
<1> QED  BY <1>1, SenderInvariant, PTL

(***************************************************************************)
(* The buffers stay within one chunk of their marks (transfer.js:502,544). *)
(***************************************************************************)
THEOREM BuffersStayBounded == Spec => []BackpressureHolds
<1>1. SenderInv => BackpressureHolds  BY DEF SenderInv
<1> QED  BY <1>1, SenderInvariant, PTL

(***************************************************************************)
(* When _checkDone fires, the whole file was handed over, nothing is left  *)
(* in the retry queue or in a batch, and no pump died with chunks in hand. *)
(***************************************************************************)
THEOREM FiringIsJustified == Spec => []CompleteFiredMeansAllHanded
<1>1. SenderInv => CompleteFiredMeansAllHanded
  <2>1. SUFFICES ASSUME SenderInv, completeFired
                 PROVE  /\ Handed = Chunks
                        /\ retryIndices = <<>>
                        /\ \A s \in Streams : batch[s] = <<>> /\ pump[s] # "rejected"
    BY DEF CompleteFiredMeansAllHanded
  <2>2. sentChunks = TotalChunks  BY <2>1 DEF SenderInv, PumpLifecycle
  <2>3. /\ Handed = Chunks /\ retryIndices = <<>>
        /\ \A s \in Streams : batch[s] = <<>>
    BY <2>1, <2>2, FullCountEmptiesPool
  <2>4. \A s \in Streams : pump[s] # "rejected"
    BY <2>1, <2>3 DEF SenderInv, PumpLifecycle
  <2> QED  BY <2>3, <2>4
<1> QED  BY <1>1, SenderInvariant, PTL

(***************************************************************************)
(* When onComplete runs, every chunk is on the wire or stuck in a dead     *)
(* connection's buffer (transfer.js:667-686).                              *)
(***************************************************************************)
THEOREM CompletionIsJustified == Spec => []CompletedMeansDrainedOrDead
<1>1. SenderInv => CompletedMeansDrainedOrDead
  <2>1. SUFFICES ASSUME SenderInv, completed, NEW c \in Chunks, c \notin delivered
                 PROVE  \E s \in Streams : link[s] = "closed" /\ c \in InBuffer(s)
    BY DEF CompletedMeansDrainedOrDead
  <2>2. sentChunks = TotalChunks /\ \A s \in Streams : link[s] = "open" => buffered[s] = <<>>
    BY <2>1 DEF SenderInv, PumpLifecycle
  <2>3. c \in Handed  BY <2>1, <2>2, FullCountEmptiesPool
  <2>4. PICK s \in Streams : c \in InBuffer(s)  BY <2>1, <2>3 DEF Handed
  <2>5. buffered[s] # <<>>
    BY <2>4, InvFacts, <2>1, NothingInEmptySeq DEF InBuffer
  <2>6. link[s] \notin {"open", "connecting"}
    BY <2>1, <2>2, <2>5 DEF SenderInv, PumpLifecycle
  <2>7. link[s] = "closed"  BY <2>6, <2>1, InvFacts DEF LinkStates
  <2> QED  BY <2>4, <2>7
<1> QED  BY <1>1, SenderInvariant, PTL

-----------------------------------------------------------------------------
(* The engine implements ChunkPool. *)

\* If a task touches the batch of one stream only, and hands over only chunks of
\* that batch, then the invariant makes it a turn of the pool.
LEMMA TaskIsATurn ==
  ASSUME SenderInv, SenderInv', NEW s \in Streams,
         \A t \in Streams : t # s => batch'[t] = batch[t],
         Handed \subseteq Handed', Handed' \subseteq Handed \cup Held(s),
         completed' = completed
  PROVE  Pool!Turn(s)
<1> DEFINE taken == [t \in Streams |-> Held(t)]
           taken1 == [t \in Streams |-> Held(t)']
<1>1. \A t \in Streams : Held(t) \subseteq Chunks /\ Held(t)' \subseteq Chunks
  <2>1. Shared(retryIndices, batch, nextChunkIndex, buffered, delivered)  BY InvIsShared
  <2>2. /\ batch \in [Streams -> Seq(Chunks)] /\ batch' \in [Streams -> Seq(Chunks)]
    BY DEF SenderInv, TypeOK
  <2>3. \A q \in Seq(Chunks) : Range(q) \subseteq Chunks  BY DEF Range
  <2> QED  BY <2>2, <2>3 DEF Held
<1>2. \A t \in Streams : t # s => Held(t)' = Held(t)  BY DEF Held
<1>3. /\ Held(s)' \cap Handed' = {}
      /\ \A t \in Streams : t # s => Held(s)' \cap Held(t)' = {}
  BY DEF SenderInv, NoOverlap
<1>4. Held(s)' \subseteq (Held(s) \cup Pool!Free) \ Handed'
  <2>1. SUFFICES ASSUME NEW c \in Held(s)', c \notin Held(s)
                 PROVE  c \in Pool!Free
    BY <1>3
  <2>2. c \in Chunks /\ c \notin Handed  BY <1>1, <1>3
  <2>3. \A t \in Streams : c \notin taken[t]  BY <1>2, <1>3, <2>1
  <2> QED  BY <2>2, <2>3 DEF Pool!Free
<1>5. /\ taken1 \in [Streams -> SUBSET Chunks]
      /\ \A t \in Streams \ {s} : taken1[t] = taken[t]
      /\ taken1[s] = Held(s)' /\ taken[s] = Held(s)
  BY <1>1, <1>2
<1> QED  BY <1>4, <1>5 DEF Pool!Turn

\* Handing over the first chunks of a batch hands over nothing else.
LEMMA HandoverIsOwn ==
  ASSUME SenderInv, NEW s \in Streams, NEW k \in 0 .. Len(batch[s]), Handover(s, k)
  PROVE  Handed \subseteq Handed' /\ Handed' \subseteq Handed \cup Held(s)
<1> DEFINE sent == SubSeq(batch[s], 1, k)
<1>1. /\ Shared(retryIndices, batch, nextChunkIndex, buffered, delivered)
      /\ batch[s] \in Seq(Chunks)
  BY InvIsShared DEF SenderInv, TypeOK
<1>2. buffered' = [buffered EXCEPT ![s] = @ \o sent] /\ delivered' = delivered
  BY DEF Handover
<1>3. /\ Shared(retryIndices, [batch EXCEPT ![s] = Unsent(s, k)], nextChunkIndex,
                [buffered EXCEPT ![s] = @ \o sent], delivered)
      /\ HandedBy([buffered EXCEPT ![s] = @ \o sent], delivered)
           = HandedBy(buffered, delivered) \cup Range(sent)
      /\ HandedBy(buffered, delivered) \cap Range(sent) = {}
  BY <1>1, HandoverKeepsShared, Zenon DEF Unsent
<1>4. Range(sent) \subseteq Held(s)  BY <1>1, SplitSeq DEF Held
<1> HIDE DEF sent
<1>5. /\ Handed = HandedBy(buffered, delivered)
      /\ Handed' = HandedBy(buffered', delivered')
  BY Zenon DEF Handed, HandedBy, InBuffer
<1>6. HandedBy(buffered', delivered') = HandedBy(buffered, delivered) \cup Range(sent)
  BY <1>2, <1>3, Zenon
<1> QED  BY <1>4, <1>5, <1>6

\* The moves that end a task change the batch of one stream only.
LEMMA OneBatchChanges ==
  ASSUME SenderInv, NEW s \in Streams, NEW k, NEW next,
         \/ LoopPump(s, next)
         \/ batch' = [batch EXCEPT ![s] = Unsent(s, k)]
         \/ Requeue(s, k)
  PROVE  \A t \in Streams : t # s => batch'[t] = batch[t]
BY DEF SenderInv, TypeOK, LoopPump, ReadBatch, Requeue

LEMMA SendBatchIsATurn ==
  ASSUME SenderInv, SenderInv', NEW s \in Streams, SendBatch(s), UNCHANGED completed
  PROVE  Pool!Turn(s)
<1>1. Sendable(s) \in 0 .. Len(batch[s]) /\ Len(batch[s]) \in Nat
  BY SendableBounds DEF SenderInv, TypeOK
<1>2. PICK k \in 0 .. Len(batch[s]) :
        /\ Handover(s, k)
        /\ \/ LoopPump(s, nextChunkIndex)
           \/ batch' = [batch EXCEPT ![s] = Unsent(s, k)]
           \/ Requeue(s, k)
  <2>1. \A k \in 0 .. Sendable(s) - 1 : k \in 0 .. Len(batch[s])  BY <1>1
  <2> QED  BY <1>1, <2>1 DEF SendBatch
<1>3. \A t \in Streams : t # s => batch'[t] = batch[t]  BY <1>2, OneBatchChanges
<1>4. Handed \subseteq Handed' /\ Handed' \subseteq Handed \cup Held(s)
  BY <1>2, HandoverIsOwn
<1> QED  BY <1>3, <1>4, TaskIsATurn

\* A task that hands nothing over: a claim, or a batch given back.
LEMMA QuietTaskIsATurn ==
  ASSUME SenderInv, SenderInv', NEW s \in Streams, NEW next,
         LoopPump(s, next) \/ Requeue(s, 0),
         UNCHANGED <<buffered, delivered, completed>>
  PROVE  Pool!Turn(s)
<1>1. \A t \in Streams : t # s => batch'[t] = batch[t]  BY OneBatchChanges
<1>2. Handed' = Handed  BY Zenon DEF Handed, InBuffer
<1> QED  BY <1>1, <1>2, TaskIsATurn

LEMMA PumpStepIsATurn ==
  ASSUME SenderInv, SenderInv', NEW s \in Streams,
         Open(s) \/ ReadDone(s) \/ ResumeRelay(s) \/ ResumeP2P(s)
  PROVE  Pool!Turn(s)
<1>1. CASE Open(s)
  <2>1. LoopPump(s, StartCursor) /\ UNCHANGED <<buffered, delivered, completed>>
    BY <1>1 DEF Open
  <2> QED  BY <2>1, QuietTaskIsATurn
<1>2. CASE SendBatch(s) /\ UNCHANGED completed  BY <1>2, SendBatchIsATurn
<1>3. CASE Requeue(s, 0) /\ UNCHANGED <<countVars, streamVars, completed>>
  <2>1. UNCHANGED <<buffered, delivered, completed>>  BY <1>3 DEF streamVars
  <2> QED  BY <1>3, <2>1, QuietTaskIsATurn
<1>4. CASE /\ pump[s] = "paused"
           /\ Handover(s, 1) /\ UNCHANGED completed
           /\ IF Len(batch[s]) = 1 THEN LoopPump(s, nextChunkIndex) ELSE Requeue(s, 1)
  <2>1. Len(batch[s]) \in Nat \ {0}  BY <1>4, WorkMeansNotFired, Zenon
  <2>2. 1 \in 0 .. Len(batch[s])  BY <2>1
  <2>3. Handed \subseteq Handed' /\ Handed' \subseteq Handed \cup Held(s)
    BY <1>4, <2>2, HandoverIsOwn
  <2>4. \A t \in Streams : t # s => batch'[t] = batch[t]  BY <1>4, OneBatchChanges
  <2> QED  BY <1>4, <2>3, <2>4, TaskIsATurn
<1> QED  BY <1>1, <1>2, <1>3, <1>4 DEF ReadDone, ResumeRelay, ResumeP2P

\* A chunk that leaves a buffer was handed over before and stays so.
LEMMA TransmitHandsNothing ==
  ASSUME SenderInv, NEW s \in Streams, Transmit(s)
  PROVE  Handed' = Handed
<1>1. Shared(retryIndices, batch, nextChunkIndex, buffered, delivered)  BY InvFacts
<1>2. buffered[s] # <<>>  BY DEF Transmit
<1>3. HandedBy([buffered EXCEPT ![s] = Tail(@)], delivered \cup {Head(buffered[s])})
        = HandedBy(buffered, delivered)
  BY <1>1, <1>2, TransmitKeepsShared
<1>4. /\ delivered' = delivered \cup {Head(buffered[s])}
      /\ buffered' = [buffered EXCEPT ![s] = Tail(@)]
  BY DEF Transmit
<1>5. HandedBy(buffered', delivered') = HandedBy(buffered, delivered)
  BY <1>3, <1>4, Zenon
<1>6. /\ Handed = HandedBy(buffered, delivered)
      /\ Handed' = HandedBy(buffered', delivered')
  BY Zenon DEF Handed, HandedBy, InBuffer
<1> QED  BY <1>5, <1>6

\* A pump's task adds to the buffer of its own stream and to nothing else that
\* holds what was handed over.
LEMMA PumpFillsOwnBuffer ==
  ASSUME SenderInv, NEW s \in Streams,
         ReadDone(s) \/ ReadFails(s) \/ ResumeRelay(s) \/ ResumeP2P(s)
  PROVE  /\ link' = link /\ delivered' = delivered /\ completed' = completed
         /\ \A t \in Streams : t # s => buffered'[t] = buffered[t]
         /\ InBuffer(s) \subseteq InBuffer(s)'
<1>1. /\ buffered \in [Streams -> Seq(Chunks)] /\ batch[s] \in Seq(Chunks)
      /\ buffered[s] \in Seq(Chunks)
  BY DEF SenderInv, TypeOK
<1>2. completed' = completed
  BY DEF ReadDone, ReadFails, ResumeRelay, ResumeP2P
<1>3. CASE UNCHANGED streamVars  BY <1>2, <1>3 DEF streamVars, InBuffer
<1>4. ASSUME NEW k \in 0 .. Len(batch[s]), Handover(s, k)
      PROVE  /\ link' = link /\ delivered' = delivered
             /\ \A t \in Streams : t # s => buffered'[t] = buffered[t]
             /\ InBuffer(s) \subseteq InBuffer(s)'
  <2> DEFINE sent == SubSeq(batch[s], 1, k)
  <2>1. /\ link' = link /\ delivered' = delivered
        /\ buffered' = [buffered EXCEPT ![s] = @ \o sent]
    BY <1>4 DEF Handover
  <2>2. sent \in Seq(Chunks)  BY <1>1, <1>4, SplitSeq
  <2> HIDE DEF sent
  <2>3. buffered'[s] = buffered[s] \o sent  BY <2>1, <1>1
  <2>4. Range(buffered[s] \o sent) = Range(buffered[s]) \cup Range(sent)
    BY <1>1, <2>2, JoinSeq
  <2> QED  BY <2>1, <2>3, <2>4, <1>1 DEF InBuffer
<1>5. CASE SendBatch(s)
  <2>1. Sendable(s) \in 0 .. Len(batch[s]) /\ Len(batch[s]) \in Nat
    BY SendableBounds DEF SenderInv, TypeOK
  <2>2. \A k \in 0 .. Sendable(s) - 1 : k \in 0 .. Len(batch[s])  BY <2>1
  <2>3. PICK k \in 0 .. Len(batch[s]) : Handover(s, k)
    BY <1>5, <2>1, <2>2 DEF SendBatch
  <2> QED  BY <2>3, <1>4, <1>2
<1>6. CASE pump[s] = "paused" /\ Handover(s, 1)
  <2>1. Len(batch[s]) \in Nat \ {0}  BY <1>6, WorkMeansNotFired, Zenon
  <2>2. 1 \in 0 .. Len(batch[s])  BY <2>1
  <2> QED  BY <2>2, <1>6, <1>4, <1>2
<1>7. ReadFails(s) => UNCHANGED streamVars  BY DEF ReadFails
<1> QED
  BY <1>3, <1>5, <1>6, <1>7 DEF ReadDone, ResumeRelay, ResumeP2P

\* What moves no chunk in or out of a batch, or to a buffer, is a stutter.
LEMMA OtherStepStutters ==
  ASSUME SenderInv, SenderInv', NEW s \in Streams,
         Close(s) \/ ReadFails(s) \/ Transmit(s)
  PROVE  UNCHANGED Pool!vars
<1>1. batch' = batch /\ completed' = completed
  BY DEF Close, ReadFails, Transmit, pumpVars
<1>2. Handed' = Handed
  <2>1. CASE Transmit(s)  BY <2>1, TransmitHandsNothing
  <2>2. CASE UNCHANGED <<buffered, delivered>>  BY <2>2, Zenon DEF Handed, InBuffer
  <2> QED  BY <2>1, <2>2 DEF Close, ReadFails, streamVars
<1>3. \A t \in Streams : Held(t)' = Held(t)  BY <1>1 DEF Held
<1> QED  BY <1>1, <1>2, <1>3 DEF Pool!vars

(***************************************************************************)
(* The sending engine implements ChunkPool for every number of streams and *)
(* chunks and under every fault: a chunk handed to a connection is never   *)
(* claimed again, a claim takes free chunks only, a task changes the batch *)
(* of its own stream only, and onComplete (transfer.js:659-686) runs when  *)
(* all chunks were handed over.                                            *)
(***************************************************************************)
THEOREM EngineIsAChunkPool == Spec => IsAChunkPool
<1>1. Init => Pool!Init
  <2>1. SUFFICES ASSUME Init  PROVE Pool!Init  OBVIOUS
  <2>2. Range(<<>>) = {}
    <3>1. <<>> \in Seq(Chunks)  OBVIOUS
    <3> QED  BY <3>1, NothingInEmptySeq
  <2>3. \A s \in Streams : Held(s) = {} /\ InBuffer(s) = {}
    BY <2>1, <2>2 DEF Init, Held, InBuffer
  <2>4. delivered = {} /\ completed = FALSE  BY <2>1 DEF Init
  <2>5. Handed = {}  BY <2>3, <2>4 DEF Handed
  <2> QED  BY <2>3, <2>4, <2>5 DEF Pool!Init
<1>2. SenderInv /\ SenderInv' /\ [Next]_vars => [Pool!Next]_(Pool!vars)
  <2> SUFFICES ASSUME SenderInv, SenderInv', [Next]_vars
               PROVE  [Pool!Next]_(Pool!vars)
    OBVIOUS
  <2>1. ASSUME NEW s \in Streams,
               Open(s) \/ ReadDone(s) \/ ResumeRelay(s) \/ ResumeP2P(s)
        PROVE  Pool!Next
    BY <2>1, PumpStepIsATurn DEF Pool!Next
  <2>2. ASSUME NEW s \in Streams, Close(s) \/ ReadFails(s) \/ Transmit(s)
        PROVE  UNCHANGED Pool!vars
    BY <2>2, OtherStepStutters
  <2>3. ASSUME DrainDone  PROVE Pool!Next
    <3>1. /\ completeFired /\ completed' = TRUE
          /\ batch' = batch /\ buffered' = buffered /\ delivered' = delivered
      BY <2>3 DEF DrainDone, pumpVars, streamVars
    <3>2. Handed = Chunks
      BY <3>1, FullCountEmptiesPool DEF SenderInv, PumpLifecycle
    <3>3. Handed' = Handed /\ \A t \in Streams : Held(t)' = Held(t)
      BY <3>1 DEF Handed, InBuffer, Held
    <3> QED  BY <3>1, <3>2, <3>3 DEF Pool!Next, Pool!Finish
  <2>4. CASE UNCHANGED vars
    <3>1. batch' = batch /\ buffered' = buffered /\ delivered' = delivered
          /\ completed' = completed
      BY <2>4 DEF vars, pumpVars, streamVars
    <3> QED  BY <3>1 DEF Pool!vars, Handed, InBuffer, Held
  <2> QED  BY <2>1, <2>2, <2>3, <2>4 DEF Next
<1> QED  BY <1>1, <1>2, SenderInvariant, PTL DEF Spec, IsAChunkPool, Pool!Spec
=============================================================================
