------------------------- MODULE StreamDownloadProofs -------------------------
(***************************************************************************)
(* The streaming download implements Download for a file of any length,    *)
(* although the page may write and close before prepare() has returned.    *)
(* The argument counts: once the stream is open, the chunks that went past *)
(* it into fallbackChunks, those on disk, in the stream, pending in the    *)
(* worker and on the port are 1 .. written, in this order; and the close   *)
(* comes behind the last of them.                                          *)
(***************************************************************************)
EXTENDS StreamDownload, SequenceTheorems, TLAPS

Pending == IF entry = NoEntry THEN <<>> ELSE entry.pending
Closing == port # <<>> /\ port[Len(port)] = Close

\* The chunks on the port: all messages but a close.
InPort  == Len(port) - (IF Closing THEN 1 ELSE 0)

\* The worker still knows the download, or the browser is being fed.
Alive == entry # NoEntry \/ download = "started"

\* The chunks that never reach the stream: the last of them, and the last on disk.
Passed == IF writer = "saved" THEN written ELSE Len(fallback)
OnDisk == Passed + Len(saved)

\* q holds the chunks k + 1, k + 2, ...
RunFrom(k, q) == \A i \in 1 .. Len(q) : q[i] = k + i

\* Until prepare() returns there is no download, and the only message is the
\* registration, whatever the page has written.
Preparing ==
  /\ mode = "null" /\ iframe = "none"
  /\ prep = "posted" => (IF acked THEN port = <<>> ELSE port = <<Register>>)
  /\ prep # "posted" => port = <<>> /\ acked = FALSE
  /\ acked = FALSE => entry = NoEntry
  /\ entry # NoEntry => entry.closed = FALSE /\ entry.pending = <<>>

\* With a Blob there is no worker.
Blob == mode = "blob" /\ port = <<>> /\ entry = NoEntry /\ iframe = "none"

\* With the worker the port holds the chunks written last, and then the close,
\* which a page that has saved a Blob never sends.
Streaming ==
  /\ mode = "sw" /\ iframe # "none"
  /\ InPort \in 0 .. written
  /\ \A i \in 1 .. InPort : port[i] = Chunk(written - InPort + i)
  /\ writer \in {"open", "saved"} =>
       ~Closing /\ ended = FALSE /\ (entry # NoEntry => entry.closed = FALSE)

\* Before the fetch is answered the browser has nothing; after it a known
\* download is live.
Fetched ==
  /\ iframe # "answered" => /\ stream = <<>> /\ ended = FALSE
                            /\ download = "none" /\ saved = <<>>
  /\ iframe = "answered" => download # "none"
  /\ entry # NoEntry => (entry.live = (iframe = "answered"))
  /\ entry # NoEntry /\ entry.live => download = "started"

\* Nothing is missing in the stream as long as the download is alive.
NothingMissing ==
  mode = "sw" /\ Alive =>
    /\ OnDisk + Len(stream) + Len(Pending) = written - InPort
    /\ RunFrom(OnDisk, stream)
    /\ RunFrom(OnDisk + Len(stream), Pending)
    /\ writer \in {"closed", "tidied"} =>
         Closing \/ ended = TRUE \/ (entry # NoEntry /\ entry.closed = TRUE)
    /\ ended = TRUE \/ (entry # NoEntry /\ entry.closed = TRUE) => port = <<>>
    /\ ended = TRUE <=> entry = NoEntry

\* What is on disk is a run, and reaches the last chunk when the download is
\* complete; a stream that opens after close() brings nothing to the disk.
Saved ==
  /\ RunFrom(Passed, saved)
  /\ download = "none" => saved = <<>>
  /\ download = "complete" => OnDisk = NumChunks /\ writer # "saved"
  /\ writer = "saved" => saved = <<>>

\* The page's own copy: everything until the stream opens, and the whole file
\* when it becomes a Blob.
Kept ==
  /\ RunFrom(0, fallback) /\ Len(fallback) <= written
  /\ mode # "sw" /\ writer = "open" => Len(fallback) = written
  /\ writer # "open" => written = NumChunks
  /\ writer \in {"closed", "tidied"} => mode = "sw"
  /\ writer = "saved" => fallback = <<>> /\ RunFrom(0, blob) /\ Len(blob) = NumChunks

DownloadInv ==
  /\ TypeOK
  /\ prep # "done" => Preparing
  /\ prep = "done" => Blob \/ Streaming
  /\ Fetched /\ NothingMissing /\ Saved /\ Kept

-----------------------------------------------------------------------------
(* Sequences of chunks. *)

\* The parts of a sequence that is not empty.
LEMMA HeadAndTail ==
  ASSUME NEW S, NEW q \in Seq(S), q # <<>>
  PROVE  /\ Len(q) \in Nat \ {0} /\ Head(q) = q[1] /\ Head(q) \in S
         /\ Tail(q) \in Seq(S) /\ Len(Tail(q)) = Len(q) - 1
         /\ \A i \in 1 .. Len(q) - 1 : Tail(q)[i] = q[i + 1]
         /\ Tail(q) = <<>> <=> Len(q) = 1
<1>1. /\ Len(q) \in Nat \ {0} /\ Head(q) = q[1] /\ Head(q) \in S
      /\ Tail(q) \in Seq(S) /\ Len(Tail(q)) = Len(q) - 1
      /\ \A i \in 1 .. Len(q) - 1 : Tail(q)[i] = q[i + 1]
  OBVIOUS
<1>2. \A t \in Seq(S) : t = <<>> <=> Len(t) = 0  OBVIOUS
<1>3. Tail(q) = <<>> <=> Len(Tail(q)) = 0  BY <1>1, <1>2, Zenon
<1>4. Len(Tail(q)) = 0 <=> Len(q) = 1  BY <1>1
<1> QED  BY <1>1, <1>3, <1>4, Zenon

\* The sequences of no message and of one.
LEMMA ShortSequences ==
  ASSUME NEW S, NEW x \in S
  PROVE  /\ <<>> \in Seq(S) /\ Len(<<>>) = 0
         /\ <<x>> \in Seq(S) /\ Len(<<x>>) = 1 /\ <<x>> # <<>>
         /\ Append(<<>>, x) = <<x>> /\ Tail(<<x>>) = <<>> /\ Head(<<x>>) = x
OBVIOUS

LEMMA NoChunks == <<>> \in Seq(1 .. NumChunks) /\ <<>> \in Seq(Messages) /\ Len(<<>>) = 0
OBVIOUS

\* Taking the head off a run, and adding the next chunk at its end.
LEMMA RunTail ==
  ASSUME NEW k \in Int, NEW q \in Seq(1 .. NumChunks), q # <<>>, RunFrom(k, q)
  PROVE  /\ Head(q) = k + 1 /\ RunFrom(k + 1, Tail(q))
         /\ Len(Tail(q)) = Len(q) - 1 /\ Len(q) \in Nat \ {0}
         /\ Tail(q) \in Seq(1 .. NumChunks) /\ Head(q) \in 1 .. NumChunks
<1>1. /\ Len(q) \in Nat \ {0} /\ Head(q) = q[1] /\ Head(q) \in 1 .. NumChunks
      /\ Tail(q) \in Seq(1 .. NumChunks) /\ Len(Tail(q)) = Len(q) - 1
      /\ \A i \in 1 .. Len(q) - 1 : Tail(q)[i] = q[i + 1]
  BY HeadAndTail
<1> QED  BY <1>1 DEF RunFrom

LEMMA RunAppend ==
  ASSUME NEW k \in Int, NEW q \in Seq(1 .. NumChunks), RunFrom(k, q),
         NEW c \in 1 .. NumChunks, c = k + Len(q) + 1
  PROVE  /\ RunFrom(k, Append(q, c)) /\ Len(Append(q, c)) = Len(q) + 1
         /\ Append(q, c) \in Seq(1 .. NumChunks)
BY DEF RunFrom

\* A run is known by its first chunk and its length.
LEMMA RunIsRun ==
  ASSUME NEW k \in Int, NEW q \in Seq(1 .. NumChunks), RunFrom(k, q)
  PROVE  q = D!Run(k, Len(q))
BY DEF RunFrom, D!Run

LEMMA EmptyRun == ASSUME NEW k \in Int  PROVE RunFrom(k, <<>>)
BY DEF RunFrom

\* What OnChunk takes off the port is the next chunk, and the rest is as before.
LEMMA NextOnPort ==
  ASSUME TypeOK, Streaming, port # <<>>, Head(port).type = "chunk"
  PROVE  LET rest == Tail(port)
             closing == rest # <<>> /\ rest[Len(rest)] = Close
             left == Len(rest) - (IF closing THEN 1 ELSE 0)
         IN  /\ closing = Closing /\ left = InPort - 1 /\ InPort \in 1 .. written
             /\ Head(port) = Chunk(written - InPort + 1)
             /\ written - InPort + 1 \in 1 .. NumChunks
             /\ \A i \in 1 .. left : rest[i] = Chunk(written - left + i)
<1> DEFINE rest == Tail(port)
           closing == rest # <<>> /\ rest[Len(rest)] = Close
           left == Len(rest) - (IF closing THEN 1 ELSE 0)
<1>1. /\ Len(port) \in Nat \ {0} /\ Head(port) = port[1] /\ Len(rest) = Len(port) - 1
      /\ \A i \in 1 .. Len(port) - 1 : rest[i] = port[i + 1]
      /\ rest = <<>> <=> Len(port) = 1
  BY HeadAndTail DEF TypeOK
<1>2. written \in 0 .. NumChunks /\ NumChunks \in Nat
  BY StreamDownloadAssumption DEF TypeOK
<1>3. \A c : Chunk(c) # Close /\ Chunk(c).type = "chunk"  BY DEF Chunk, Close
<1>4. port[1] # Close  BY <1>1 DEF Close
<1>5. closing = Closing
  <2>1. CASE Len(port) = 1
    <3>1. rest = <<>> /\ port[Len(port)] # Close  BY <2>1, <1>1, <1>4
    <3> QED  BY <3>1 DEF Closing
  <2>2. CASE Len(port) > 1
    <3>1. rest # <<>> /\ rest[Len(rest)] = port[Len(port)]
      <4>1. Len(port) - 1 \in 1 .. Len(port) - 1 /\ (Len(port) - 1) + 1 = Len(port)
        BY <2>2, <1>1
      <4> QED  BY <4>1, <2>2, <1>1
    <3> QED  BY <3>1, <2>2 DEF Closing
  <2> QED  BY <2>1, <2>2, <1>1
<1>6. left = InPort - 1
  <2> HIDE DEF closing
  <2>1. InPort = Len(port) - (IF closing THEN 1 ELSE 0)  BY <1>5 DEF InPort
  <2> HIDE DEF rest
  <2> QED  BY <2>1, <1>1
<1>7. InPort \in 1 .. written
  <2>1. InPort # 0  BY <1>1, <1>4 DEF InPort, Closing
  <2> QED  BY <2>1 DEF Streaming
<1>8. Head(port) = Chunk(written - InPort + 1)  BY <1>1, <1>7 DEF Streaming
<1>9. \A i \in 1 .. left : rest[i] = Chunk(written - left + i)
  <2>1. SUFFICES ASSUME NEW i \in 1 .. left  PROVE rest[i] = Chunk(written - left + i)
    OBVIOUS
  <2>2. i + 1 \in 1 .. InPort /\ i \in 1 .. Len(port) - 1
    BY <1>1, <1>6, <1>7 DEF InPort
  <2>3. rest[i] = Chunk(written - InPort + (i + 1))  BY <2>2, <1>1 DEF Streaming
  <2>4. written - InPort + (i + 1) = written - left + i  BY <1>6, <1>7, <1>2, <2>2
  <2> QED  BY <2>3, <2>4
<1>10. written - InPort + 1 \in 1 .. NumChunks  BY <1>2, <1>7
<1> QED  BY <1>5, <1>6, <1>7, <1>8, <1>9, <1>10, Zenon

\* A message says what it is.
LEMMA MessageFacts ==
  /\ Register \in Messages /\ Close \in Messages
  /\ \A c \in 1 .. NumChunks : Chunk(c) \in Messages
  /\ \A c : Chunk(c) # Close /\ Chunk(c) # Register /\ Chunk(c).type = "chunk" /\ Chunk(c).data = c
  /\ Close # Register /\ Close.type # "chunk" /\ Register.type # "chunk"
BY DEF Messages, Register, Close, Chunk

\* The fields of an entry, and of what the worker makes of it.
LEMMA EntryFields ==
  ASSUME NEW e \in Entries
  PROVE  /\ e # NoEntry /\ e.pending \in Seq(1 .. NumChunks)
         /\ e.live \in BOOLEAN /\ e.closed \in BOOLEAN
BY StreamDownloadAssumption DEF Entries

LEMMA EntryClosed ==
  ASSUME NEW e \in Entries, NEW f, f = [e EXCEPT !.closed = TRUE]
  PROVE  /\ f \in Entries /\ f # NoEntry
         /\ f.pending = e.pending /\ f.live = e.live /\ f.closed = TRUE
<1>1. f \in Entries /\ f.pending = e.pending /\ f.live = e.live /\ f.closed = TRUE
  BY DEF Entries
<1> QED  BY <1>1, StreamDownloadAssumption

LEMMA EntryGrown ==
  ASSUME NEW e \in Entries, NEW q \in Seq(1 .. NumChunks), NEW f, f = [e EXCEPT !.pending = q]
  PROVE  /\ f \in Entries /\ f # NoEntry
         /\ f.pending = q /\ f.live = e.live /\ f.closed = e.closed
<1>1. f \in Entries /\ f.pending = q /\ f.live = e.live /\ f.closed = e.closed
  BY DEF Entries
<1> QED  BY <1>1, StreamDownloadAssumption

LEMMA EntryLive ==
  ASSUME NEW e \in Entries, NEW f, f = [e EXCEPT !.pending = <<>>, !.live = TRUE]
  PROVE  /\ f \in Entries /\ f # NoEntry
         /\ f.pending = <<>> /\ f.live = TRUE /\ f.closed = e.closed
<1>1. f \in Entries /\ f.pending = <<>> /\ f.live = TRUE /\ f.closed = e.closed
  BY NoChunks DEF Entries
<1> QED  BY <1>1, StreamDownloadAssumption

\* The port after a message is appended.
LEMMA AppendToPort ==
  ASSUME TypeOK, NEW x \in Messages
  PROVE  LET q == Append(port, x)
         IN  /\ q \in Seq(Messages) /\ q # <<>>
             /\ Len(q) = Len(port) + 1 /\ Len(port) \in Nat
             /\ q[Len(q)] = x
             /\ \A i \in 1 .. Len(port) : q[i] = port[i]
<1>1. port \in Seq(Messages)  BY DEF TypeOK
<1>2. /\ Append(port, x) \in Seq(Messages) /\ Append(port, x) # <<>>
      /\ Len(Append(port, x)) = Len(port) + 1
      /\ \A i \in 1 .. Len(port) : Append(port, x)[i] = port[i]
      /\ Append(port, x)[Len(port) + 1] = x
  BY <1>1, AppendProperties
<1>3. Len(port) \in Nat  BY <1>1, LenProperties
<1> QED  BY <1>2, <1>3, Zenon

\* The counts are natural numbers; before the stream opens all chunks went past it.
LEMMA Counts ==
  ASSUME DownloadInv
  PROVE  /\ NumChunks \in Nat /\ written \in Nat /\ written <= NumChunks
         /\ Passed \in Nat /\ Passed <= written /\ OnDisk \in Nat /\ Len(saved) \in Nat
         /\ mode # "sw" => Passed = written
         /\ saved = <<>> => OnDisk = Passed
<1>1. /\ NumChunks \in Nat /\ written \in Nat /\ written <= NumChunks
      /\ saved \in Seq(1 .. NumChunks) /\ fallback \in Seq(1 .. NumChunks)
      /\ writer \in {"open", "closed", "tidied", "saved"}
  BY StreamDownloadAssumption DEF DownloadInv, TypeOK
<1>2. Len(saved) \in Nat /\ Len(fallback) \in Nat  BY <1>1, LenProperties
<1>3. Passed \in Nat /\ Passed <= written  BY <1>1, <1>2 DEF Passed, DownloadInv, Kept
<1>4. mode # "sw" => Passed = written  BY <1>1 DEF Passed, DownloadInv, Kept
<1>5. OnDisk \in Nat  BY <1>2, <1>3 DEF OnDisk
<1>6. saved = <<>> => OnDisk = Passed  BY <1>3, NoChunks DEF OnDisk
<1> QED  BY <1>1, <1>2, <1>3, <1>4, <1>5, <1>6

-----------------------------------------------------------------------------
(* The invariant: preparing, with and without a worker. *)

LEMMA InitEstablishesInv == ASSUME Init  PROVE DownloadInv
<1>1. TypeOK
  <2>1. written \in 0 .. NumChunks  BY StreamDownloadAssumption DEF Init
  <2>2. /\ port \in Seq(Messages) /\ stream \in Seq(1 .. NumChunks) /\ saved \in Seq(1 .. NumChunks)
        /\ fallback \in Seq(1 .. NumChunks) /\ blob \in Seq(1 .. NumChunks)
    BY NoChunks DEF Init
  <2> QED  BY <2>1, <2>2 DEF Init, TypeOK
<1>2. Preparing /\ Fetched /\ NothingMissing  BY DEF Init, Preparing, Fetched, NothingMissing
<1>3. Saved  BY DEF Init, Saved, RunFrom
<1>4. Kept
  <2>1. RunFrom(0, fallback) /\ Len(fallback) = 0  BY EmptyRun, NoChunks DEF Init
  <2> QED  BY <2>1 DEF Init, Kept
<1> QED  BY <1>1, <1>2, <1>3, <1>4 DEF DownloadInv, Init

\* The steps that come before a download, and change nothing of it.
LEMMA PrepareKeepsInv ==
  ASSUME DownloadInv,
         RegisterFails \/ RegisterWorker \/ FallBack \/ Activate \/ InstallFails
  PROVE  DownloadInv'
<1>1. UNCHANGED <<acked, writer, written, fallback, port, iframe, entry, stream, ended,
                  download, saved, blob>>
  BY DEF RegisterFails, RegisterWorker, FallBack, Activate, InstallFails, pageVars, writerVars,
    browserVars
<1>2. \/ UNCHANGED <<prep, mode>>
      \/ /\ prep \in {"registering", "waiting"} /\ prep' = "waiting" /\ mode' = mode
      \/ /\ prep \in {"registering", "waiting"} /\ prep' = "done" /\ mode' = "blob"
  BY DEF RegisterFails, RegisterWorker, FallBack, Activate, InstallFails, pageVars
<1>3. worker' \in {"absent", "installing", "active", "redundant"}
  BY DEF DownloadInv, TypeOK, RegisterFails, RegisterWorker, FallBack, Activate, InstallFails
<1>4. TypeOK'  BY <1>1, <1>2, <1>3 DEF DownloadInv, TypeOK
<1>5. prep' # "done" => Preparing'  BY <1>1, <1>2 DEF DownloadInv, Preparing
<1>6. prep' = "done" => Blob' \/ Streaming'
  <2>1. CASE UNCHANGED <<prep, mode>>
    BY <1>1, <2>1 DEF DownloadInv, Blob, Streaming, InPort, Closing
  <2>2. CASE prep \in {"registering", "waiting"} /\ prep' = "done" /\ mode' = "blob"
    BY <1>1, <2>2 DEF DownloadInv, Preparing, Blob
  <2> QED  BY <1>2, <2>1, <2>2
<1>7. Fetched'  BY <1>1 DEF DownloadInv, Fetched
<1>8. mode' = mode \/ (mode = "null" /\ mode' = "blob")
  BY <1>2 DEF DownloadInv, Preparing
<1>9. NothingMissing'
  BY <1>1, <1>8 DEF DownloadInv, NothingMissing, Alive, Pending, OnDisk, Passed, InPort, Closing
<1>10. Saved'  BY <1>1 DEF DownloadInv, Saved, OnDisk, Passed
<1>11. Kept'  BY <1>1, <1>8 DEF DownloadInv, Kept
<1> QED  BY <1>4, <1>5, <1>6, <1>7, <1>9, <1>10, <1>11 DEF DownloadInv

LEMMA PostRegisterKeepsInv == ASSUME DownloadInv, PostRegister  PROVE DownloadInv'
<1>1. /\ UNCHANGED <<worker, mode, acked, writer, written, fallback, iframe, entry, stream, ended,
                     download, saved, blob>>
      /\ prep = "waiting" /\ prep' = "posted" /\ port' = Append(port, Register)
  BY DEF PostRegister, writerVars, browserVars
<1>2. Preparing /\ port = <<>> /\ acked = FALSE /\ mode = "null"
  BY <1>1 DEF DownloadInv, Preparing
<1>3. port' = <<Register>> /\ port' \in Seq(Messages)
  BY <1>1, <1>2, MessageFacts, ShortSequences
<1>4. TypeOK'  BY <1>1, <1>3 DEF DownloadInv, TypeOK
<1>5. Preparing'  BY <1>1, <1>2, <1>3 DEF Preparing
<1>6. Fetched' /\ NothingMissing'  BY <1>1, <1>2 DEF DownloadInv, Fetched, NothingMissing
<1>7. Saved' /\ Kept'  BY <1>1 DEF DownloadInv, Saved, Kept, OnDisk, Passed
<1> QED  BY <1>1, <1>4, <1>5, <1>6, <1>7 DEF DownloadInv

LEMMA OnRegisterKeepsInv == ASSUME DownloadInv, OnRegister  PROVE DownloadInv'
<1> DEFINE e == [pending |-> <<>>, live |-> FALSE, closed |-> FALSE]
<1>1. /\ UNCHANGED <<worker, prep, mode, writer, written, fallback, iframe, stream, ended,
                     download, saved, blob>>
      /\ port # <<>> /\ Head(port) = Register /\ port' = Tail(port)
      /\ entry' = e /\ acked' = TRUE
  BY DEF OnRegister, writerVars, browserVars
<1>2. e \in Entries /\ e # NoEntry /\ e.pending = <<>> /\ e.live = FALSE /\ e.closed = FALSE
  <2>1. e \in Entries  BY NoChunks DEF Entries
  <2> QED  BY <2>1, StreamDownloadAssumption
<1> HIDE DEF e
<1>3. ~Streaming
  <2>1. ASSUME Streaming  PROVE FALSE
    <3>1. Len(port) \in Nat \ {0} /\ Head(port) = port[1]
      BY <1>1, HeadAndTail DEF DownloadInv, TypeOK
    <3>2. CASE InPort = 0
      <4>1. Len(port) = 1 /\ port[1] = Close  BY <3>1, <3>2 DEF InPort, Closing
      <4> QED  BY <4>1, <3>1, <1>1, MessageFacts
    <3>3. CASE InPort # 0
      <4>1. 1 \in 1 .. InPort  BY <2>1, <3>3 DEF Streaming
      <4> QED  BY <2>1, <4>1, <3>1, <1>1, MessageFacts DEF Streaming
    <3> QED  BY <3>2, <3>3
  <2> QED  BY <2>1
<1>4. Preparing /\ prep = "posted" /\ port = <<Register>>
  BY <1>1, <1>3 DEF DownloadInv, TypeOK, Blob, Preparing
<1>5. port' = <<>> /\ port' \in Seq(Messages)
  BY <1>1, <1>4, NoChunks, ShortSequences, MessageFacts
<1>6. TypeOK'  BY <1>1, <1>2, <1>5 DEF DownloadInv, TypeOK
<1>7. Preparing'  BY <1>1, <1>2, <1>4, <1>5 DEF Preparing
<1>8. mode = "null" /\ iframe = "none"  BY <1>4 DEF Preparing
<1>9. Fetched' /\ NothingMissing'
  BY <1>1, <1>2, <1>8 DEF DownloadInv, Fetched, NothingMissing
<1>10. Saved' /\ Kept'  BY <1>1 DEF DownloadInv, Saved, Kept, OnDisk, Passed
<1> QED  BY <1>1, <1>4, <1>6, <1>7, <1>9, <1>10 DEF DownloadInv

LEMMA OpenIframeKeepsInv == ASSUME DownloadInv, OpenIframe  PROVE DownloadInv'
<1>1. /\ UNCHANGED <<worker, acked, writer, written, fallback, port, entry, stream, ended,
                     download, saved, blob>>
      /\ prep = "posted" /\ acked
      /\ prep' = "done" /\ mode' = "sw" /\ iframe' = "fetching"
  BY DEF OpenIframe, writerVars, browserVars
<1>2. /\ Preparing /\ port = <<>> /\ iframe = "none" /\ mode = "null"
      /\ entry # NoEntry => entry.pending = <<>> /\ entry.closed = FALSE
      /\ stream = <<>> /\ saved = <<>> /\ download = "none" /\ ended = FALSE
      /\ writer \in {"open", "saved"}
  BY <1>1 DEF DownloadInv, Preparing, Fetched, Kept, TypeOK
<1>3. TypeOK'  BY <1>1 DEF DownloadInv, TypeOK
<1>4. ~Closing' /\ InPort' = 0
  <2>1. port' = <<>> /\ Len(port') = 0  BY <1>1, <1>2, NoChunks
  <2>2. ~Closing'  BY <2>1 DEF Closing
  <2> QED  BY <2>1, <2>2 DEF InPort
<1>5. Streaming'
  <2>1. entry' # NoEntry => entry'.closed = FALSE  BY <1>1, <1>2
  <2>2. InPort' \in 0 .. written' /\ \A i \in 1 .. InPort' : port'[i] = Chunk(written' - InPort' + i)
    <3>1. written' \in Nat  BY <1>1, Counts
    <3> QED  BY <1>4, <3>1
  <2>3. iframe' # "none" /\ mode' = "sw" /\ ended' = FALSE  BY <1>1, <1>2
  <2> QED  BY <1>4, <2>1, <2>2, <2>3 DEF Streaming
<1>6. Passed' = Passed /\ OnDisk' = OnDisk  BY <1>1 DEF Passed, OnDisk
<1>7. Fetched' /\ Saved' /\ Kept'
  BY <1>1, <1>2, <1>6 DEF DownloadInv, Fetched, Saved, Kept
<1>8. NothingMissing'
  <2>1. Pending' = <<>>  BY <1>1, <1>2 DEF Pending
  <2>2. OnDisk' = written' /\ OnDisk' \in Nat  BY <1>1, <1>2, <1>6, Counts
  <2>3. /\ stream' = <<>> /\ Len(stream') = 0 /\ Len(Pending') = 0 /\ writer' \in {"open", "saved"}
        /\ ended' = FALSE /\ download' = "none" /\ (entry' # NoEntry => entry'.closed = FALSE)
    BY <1>1, <1>2, <2>1, NoChunks
  <2>4. RunFrom(OnDisk, stream)' /\ RunFrom(OnDisk + Len(stream), Pending)'
    <3>1. \A k \in Int : RunFrom(k, <<>>)  BY EmptyRun
    <3>2. OnDisk' \in Int /\ OnDisk' + Len(stream') \in Int  BY <2>2, <2>3
    <3> QED  BY <2>1, <2>3, <3>1, <3>2
  <2>5. (OnDisk + Len(stream) + Len(Pending))' = (written - InPort)'
    BY <1>4, <2>2, <2>3
  <2> QED  BY <2>3, <2>4, <2>5 DEF NothingMissing, Alive
<1> QED  BY <1>1, <1>3, <1>5, <1>7, <1>8 DEF DownloadInv

LEMMA SaveBlobKeepsInv == ASSUME DownloadInv, SaveBlob  PROVE DownloadInv'
<1>1. /\ UNCHANGED <<worker, prep, mode, acked, written, port, iframe, entry, stream, ended,
                     download, saved>>
      /\ mode # "sw" /\ written = NumChunks /\ writer = "open"
      /\ blob' = fallback /\ fallback' = <<>> /\ writer' = "saved"
  BY DEF SaveBlob
<1>2. iframe = "none" /\ saved = <<>> /\ download = "none" /\ (Preparing \/ Blob)
  BY <1>1 DEF DownloadInv, Preparing, Streaming, Blob, Fetched
<1>3. TypeOK'  BY <1>1, NoChunks DEF DownloadInv, TypeOK
<1>4. (Preparing => Preparing') /\ (Blob => Blob')  BY <1>1 DEF Preparing, Blob
<1>5. Fetched' /\ NothingMissing'  BY <1>1 DEF DownloadInv, Fetched, NothingMissing
<1>6. Passed' = written /\ Passed' \in Int  BY <1>1, Counts DEF Passed
<1>7. Saved'
  <2>1. RunFrom(Passed', <<>>)  BY <1>6, EmptyRun
  <2> QED  BY <1>1, <1>2, <2>1 DEF Saved
<1>8. Kept'
  <2>1. RunFrom(0, fallback') /\ Len(fallback') = 0  BY <1>1, EmptyRun, NoChunks
  <2>2. RunFrom(0, blob') /\ Len(blob') = NumChunks  BY <1>1 DEF DownloadInv, Kept
  <2>3. written' = NumChunks /\ 0 <= written' /\ fallback' = <<>> /\ writer' = "saved"
    BY <1>1, Counts
  <2> QED  BY <2>1, <2>2, <2>3 DEF Kept
<1> QED  BY <1>1, <1>3, <1>4, <1>5, <1>7, <1>8 DEF DownloadInv, Preparing, Streaming, Blob

-----------------------------------------------------------------------------
(* The invariant: the page writes and closes. *)

LEMMA WriteKeepsInv == ASSUME DownloadInv, Write  PROVE DownloadInv'
<1>1. /\ UNCHANGED <<worker, prep, mode, acked, writer, iframe, entry, stream, ended,
                     download, saved, blob>>
      /\ writer = "open" /\ written < NumChunks /\ written' = written + 1
  BY DEF Write, browserVars
<1>2. /\ written \in Nat /\ NumChunks \in Nat
      /\ written + 1 \in 1 .. NumChunks /\ written + 1 \in 0 .. NumChunks
      /\ Chunk(written + 1) \in Messages
      /\ port \in Seq(Messages) /\ fallback \in Seq(1 .. NumChunks)
  <2>1. /\ written \in Nat /\ NumChunks \in Nat
        /\ written + 1 \in 1 .. NumChunks /\ written + 1 \in 0 .. NumChunks
    BY <1>1, Counts
  <2> QED  BY <2>1, MessageFacts DEF DownloadInv, TypeOK
<1>3. CASE mode # "sw" /\ fallback' = Append(fallback, written + 1) /\ UNCHANGED port
  <2>1. RunFrom(0, fallback) /\ Len(fallback) = written
    BY <1>1, <1>3 DEF DownloadInv, Kept
  <2>2. /\ RunFrom(0, fallback') /\ Len(fallback') = written'
        /\ fallback' \in Seq(1 .. NumChunks)
    <3>1. written + 1 = 0 + Len(fallback) + 1  BY <2>1, <1>2
    <3> QED  BY <1>1, <1>2, <1>3, <2>1, <3>1, RunAppend
  <2>3. TypeOK'  BY <1>1, <1>2, <1>3, <2>2 DEF DownloadInv, TypeOK
  <2>4. (Preparing => Preparing') /\ (Blob => Blob')  BY <1>1, <1>3 DEF Preparing, Blob
  <2>5. ~Streaming  BY <1>3 DEF Streaming
  <2>6. Fetched' /\ NothingMissing'  BY <1>1, <1>3 DEF DownloadInv, Fetched, NothingMissing
  <2>7. saved = <<>> /\ download = "none"
    BY <1>3, <2>5 DEF DownloadInv, Preparing, Blob, Fetched
  <2>8. Saved'
    <3>1. Passed' = written' /\ Passed' \in Int  BY <1>1, <1>2, <2>2 DEF Passed
    <3>2. RunFrom(Passed', <<>>)  BY <3>1, EmptyRun
    <3> QED  BY <1>1, <2>7, <3>2 DEF Saved
  <2>9. Kept'  BY <1>1, <1>2, <2>2 DEF Kept
  <2> QED  BY <1>1, <2>3, <2>4, <2>5, <2>6, <2>8, <2>9 DEF DownloadInv
<1>4. CASE mode = "sw" /\ port' = Append(port, Chunk(written + 1)) /\ UNCHANGED fallback
  <2>0. Streaming  BY <1>4 DEF DownloadInv, Preparing, Blob
  <2>1. /\ port' = Append(port, Chunk(written + 1)) /\ port' \in Seq(Messages) /\ port' # <<>>
        /\ Len(port') = Len(port) + 1 /\ Len(port) \in Nat
        /\ port'[Len(port')] = Chunk(written + 1)
        /\ \A i \in 1 .. Len(port) : port'[i] = port[i]
    BY <1>2, <1>4, AppendToPort DEF DownloadInv
  <2>2. InPort = Len(port)  BY <1>1, <2>0, <2>1 DEF Streaming, InPort
  <2>3. ~Closing'  BY <2>1, MessageFacts DEF Closing
  <2>4. InPort' = InPort + 1  BY <2>1, <2>2, <2>3 DEF InPort
  <2>5. TypeOK'  BY <1>1, <1>2, <1>4, <2>1 DEF DownloadInv, TypeOK
  <2>6. Streaming'
    <3>1. InPort' \in 0 .. written'  BY <1>1, <1>2, <2>0, <2>4 DEF Streaming
    <3>2. ASSUME NEW i \in 1 .. InPort'
          PROVE  port'[i] = Chunk(written' - InPort' + i)
      <4>1. written' - InPort' = written - InPort  BY <1>1, <1>2, <2>0, <2>4 DEF Streaming
      <4>2. CASE i = Len(port')  BY <1>1, <1>2, <2>1, <2>2, <4>1, <4>2
      <4>3. CASE i \in 1 .. InPort  BY <4>1, <4>3, <2>1, <2>2, <2>0 DEF Streaming
      <4> QED  BY <4>2, <4>3, <2>1, <2>2, <2>4
    <3>3. entry' # NoEntry => entry'.closed = FALSE  BY <1>1, <2>0 DEF Streaming
    <3>4. mode' = "sw" /\ iframe' # "none" /\ ended' = FALSE
      BY <1>1, <2>0 DEF Streaming
    <3> QED  BY <3>1, <3>2, <3>3, <3>4, <2>3 DEF Streaming
  <2>7. Passed' = Passed /\ OnDisk' = OnDisk  BY <1>1, <1>4 DEF Passed, OnDisk
  <2>8. Fetched' /\ Saved'  BY <1>1, <2>7 DEF DownloadInv, Fetched, Saved
  <2>9. NothingMissing'
    <3>1. Pending' = Pending /\ Alive' = Alive  BY <1>1 DEF Pending, Alive
    <3>2. written' - InPort' = written - InPort  BY <1>1, <1>2, <2>0, <2>4 DEF Streaming
    <3>3. ended = FALSE /\ (entry # NoEntry => entry.closed = FALSE)  BY <1>1, <2>0 DEF Streaming
    <3> QED  BY <1>1, <2>7, <3>1, <3>2, <3>3 DEF DownloadInv, NothingMissing
  <2>10. Kept'
    <3>1. Len(fallback) <= written'
      <4>1. Len(fallback) <= written /\ Len(fallback) \in Nat
        BY <1>2, LenProperties DEF DownloadInv, Kept
      <4> QED  BY <1>1, <1>2, <4>1
    <3> QED  BY <1>1, <1>4, <3>1 DEF DownloadInv, Kept
  <2> QED  BY <2>5, <2>6, <2>8, <2>9, <2>10, <1>1, <2>0 DEF DownloadInv, Preparing, Streaming
<1> QED  BY <1>3, <1>4 DEF Write

LEMMA CloseStreamKeepsInv == ASSUME DownloadInv, CloseStream  PROVE DownloadInv'
<1>1. /\ UNCHANGED <<worker, prep, mode, acked, written, fallback, iframe, entry, stream, ended,
                     download, saved, blob>>
      /\ writer = "open" /\ writer' = "closed" /\ written = NumChunks /\ mode = "sw"
      /\ port' = Append(port, Close)
  BY DEF CloseStream, browserVars
<1>2. Streaming  BY <1>1 DEF DownloadInv, Blob, Preparing
<1>3. /\ port' \in Seq(Messages) /\ port' # <<>> /\ Len(port') = Len(port) + 1 /\ Len(port) \in Nat
      /\ port'[Len(port')] = Close /\ \A i \in 1 .. Len(port) : port'[i] = port[i]
  BY <1>1, MessageFacts, AppendToPort DEF DownloadInv
<1>4. InPort = Len(port)  BY <1>1, <1>2, <1>3 DEF Streaming, InPort
<1>5. Closing'  BY <1>3 DEF Closing
<1>6. InPort' = InPort  BY <1>3, <1>4, <1>5 DEF InPort
<1>7. TypeOK'  BY <1>1, <1>3 DEF DownloadInv, TypeOK
<1>8. Streaming'
  <2>1. InPort' \in 0 .. written'  BY <1>1, <1>2, <1>6 DEF Streaming
  <2>2. ASSUME NEW i \in 1 .. InPort'  PROVE port'[i] = Chunk(written' - InPort' + i)
    BY <1>1, <1>2, <1>3, <1>4, <1>6 DEF Streaming
  <2>3. mode' = "sw" /\ writer' = "closed" /\ iframe' # "none"  BY <1>1, <1>2 DEF Streaming
  <2> QED  BY <2>1, <2>2, <2>3 DEF Streaming
<1>9. Passed' = Passed /\ OnDisk' = OnDisk  BY <1>1 DEF Passed, OnDisk
<1>10. Fetched' /\ Saved' /\ Kept'  BY <1>1, <1>9 DEF DownloadInv, Fetched, Saved, Kept
<1>11. NothingMissing'
  <2>1. Pending' = Pending /\ Alive' = Alive  BY <1>1 DEF Pending, Alive
  <2>2. ended = FALSE /\ (entry # NoEntry => entry.closed = FALSE)  BY <1>1, <1>2 DEF Streaming
  <2> QED  BY <1>1, <1>5, <1>6, <1>9, <2>1, <2>2 DEF DownloadInv, NothingMissing
<1> QED  BY <1>1, <1>2, <1>7, <1>8, <1>10, <1>11 DEF DownloadInv, Preparing, Streaming

LEMMA RemoveIframeKeepsInv == ASSUME DownloadInv, RemoveIframe  PROVE DownloadInv'
<1>1. /\ UNCHANGED <<worker, prep, mode, acked, written, fallback, port, entry, stream, ended,
                     download, saved, blob>>
      /\ writer = "closed" /\ writer' = "tidied"
      /\ iframe' = IF iframe = "fetching" THEN "removed" ELSE iframe
  BY DEF RemoveIframe, browserVars
<1>2. Streaming  BY <1>1 DEF DownloadInv, Blob, Preparing, Kept
<1>3. Closing' = Closing /\ InPort' = InPort /\ Pending' = Pending /\ Alive' = Alive
  BY <1>1 DEF Closing, InPort, Pending, Alive
<1>4. Passed' = Passed /\ OnDisk' = OnDisk  BY <1>1 DEF Passed, OnDisk
<1>5. TypeOK'  BY <1>1 DEF DownloadInv, TypeOK
<1>6. Streaming'  BY <1>1, <1>2, <1>3 DEF Streaming
<1>7. Fetched' /\ Saved' /\ Kept'  BY <1>1, <1>4 DEF DownloadInv, Fetched, Saved, Kept
<1>8. NothingMissing'  BY <1>1, <1>3, <1>4 DEF DownloadInv, NothingMissing
<1> QED  BY <1>1, <1>2, <1>5, <1>6, <1>7, <1>8 DEF DownloadInv, Preparing, Streaming

-----------------------------------------------------------------------------
(* The invariant: the worker gets the chunks, the close and the fetch. *)

\* With a message on the port the download is not over, and an entry is not closed.
LEMMA OpenWhileMessages ==
  ASSUME DownloadInv, Streaming, port # <<>>
  PROVE  /\ Alive => ended = FALSE /\ entry # NoEntry
         /\ entry # NoEntry => /\ entry \in Entries /\ entry.closed = FALSE
                               /\ entry.live => Pending = <<>>
                               /\ Pending = entry.pending /\ entry.pending \in Seq(1 .. NumChunks)
<1>1. mode = "sw" /\ ended \in BOOLEAN  BY DEF Streaming, DownloadInv, TypeOK
<1>2. Alive => ended = FALSE /\ entry # NoEntry
  BY <1>1 DEF DownloadInv, NothingMissing
<1>3. ASSUME entry # NoEntry
      PROVE  /\ entry \in Entries /\ entry.closed = FALSE
             /\ entry.live => Pending = <<>>
             /\ Pending = entry.pending /\ entry.pending \in Seq(1 .. NumChunks)
  <2>1. entry \in Entries /\ (entry.live => entry.pending = <<>>)
    BY <1>3 DEF DownloadInv, TypeOK
  <2>2. entry.pending \in Seq(1 .. NumChunks) /\ entry.closed \in BOOLEAN
    BY <2>1, EntryFields
  <2>3. entry.closed = FALSE  BY <1>1, <1>3, <2>2 DEF DownloadInv, NothingMissing, Alive
  <2> QED  BY <1>3, <2>1, <2>2, <2>3 DEF Pending
<1> QED  BY <1>2, <1>3

\* What an event outside the page has to keep of the types.
LEMMA EventKeepsType ==
  ASSUME TypeOK, UNCHANGED <<worker, prep, mode, acked, writer, written, fallback, blob>>,
         port' \in Seq(Messages), ended' \in BOOLEAN,
         iframe' \in {"none", "fetching", "answered", "removed"},
         \/ entry' = NoEntry
         \/ /\ entry' \in Entries
            /\ entry'.live => entry'.pending = <<>> /\ ~entry'.closed,
         stream' \in Seq(1 .. NumChunks), saved' \in Seq(1 .. NumChunks),
         download' \in {"none", "started", "complete", "failed", "missing", "cancelled"}
  PROVE  TypeOK'
BY DEF TypeOK

LEMMA OnChunkKeepsInv == ASSUME DownloadInv, OnChunk  PROVE DownloadInv'
<1> DEFINE c == written - InPort + 1
<1>1. /\ UNCHANGED <<worker, prep, mode, acked, writer, written, fallback, blob, iframe, ended, download, saved>>
      /\ port # <<>> /\ Head(port).type = "chunk" /\ port' = Tail(port)
  BY DEF OnChunk, pageVars, writerVars, browserVars
<1>2. TypeOK  BY DEF DownloadInv
<1>0. ASSUME \/ entry' = NoEntry
             \/ /\ entry' \in Entries
                /\ entry'.live => entry'.pending = <<>> /\ ~entry'.closed,
             port' \in Seq(Messages), stream' \in Seq(1 .. NumChunks)
      PROVE  TypeOK'
  <2>1. /\ UNCHANGED <<worker, prep, mode, acked, writer, written, fallback, blob>> /\ ended' \in BOOLEAN
        /\ iframe' \in {"none", "fetching", "answered", "removed"}
        /\ saved' \in Seq(1 .. NumChunks)
        /\ download' \in {"none", "started", "complete", "failed", "missing", "cancelled"}
    BY <1>1, <1>2 DEF TypeOK
  <2> QED  BY <1>0, <1>2, <2>1, EventKeepsType
<1>3. Streaming /\ prep = "done"
  <2>1. port # <<Register>>  BY <1>1, MessageFacts, ShortSequences
  <2>2. ~Preparing /\ ~Blob  BY <1>1, <2>1 DEF Preparing, Blob
  <2> QED  BY <2>2 DEF DownloadInv
<1>4. /\ Closing' = Closing /\ InPort' = InPort - 1 /\ InPort \in 1 .. written
      /\ Head(port) = Chunk(c) /\ c \in 1 .. NumChunks
      /\ \A i \in 1 .. InPort' : port'[i] = Chunk(written - InPort' + i)
  BY <1>1, <1>2, <1>3, NextOnPort DEF Closing, InPort
<1>5. Head(port).data = c  BY <1>4, MessageFacts
<1>6. port' \in Seq(Messages)
  <2>1. port \in Seq(Messages)  BY <1>2 DEF TypeOK
  <2> QED  BY <1>1, <2>1, HeadAndTail
<1>7. /\ written \in Nat /\ saved \in Seq(1 .. NumChunks) /\ stream \in Seq(1 .. NumChunks)
      /\ OnDisk \in Nat /\ Len(stream) \in Nat /\ OnDisk' = OnDisk
  <2>1. saved \in Seq(1 .. NumChunks) /\ stream \in Seq(1 .. NumChunks)  BY <1>2 DEF TypeOK
  <2>2. Len(stream) \in Nat  BY <2>1, LenProperties
  <2>3. OnDisk' = OnDisk  BY <1>1 DEF OnDisk, Passed
  <2> QED  BY <2>1, <2>2, <2>3, Counts
<1>8. mode = "sw"  BY <1>3 DEF Streaming
<1> HIDE DEF c
<1>9. ASSUME entry' # NoEntry => entry # NoEntry /\ entry'.closed = entry.closed
      PROVE  Streaming'
  <2>1. InPort' \in 0 .. written'  BY <1>1, <1>4, <1>7
  <2>2. mode' = "sw" /\ iframe' # "none"  BY <1>1, <1>3 DEF Streaming
  <2>3. writer' \in {"open", "saved"} =>
          ~Closing' /\ ended' = FALSE /\ (entry' # NoEntry => entry'.closed = FALSE)
    BY <1>1, <1>3, <1>4, <1>9 DEF Streaming
  <2> QED  BY <1>1, <1>4, <2>1, <2>2, <2>3 DEF Streaming
<1>10. Saved' /\ Kept'  BY <1>1 DEF DownloadInv, Saved, Kept, OnDisk, Passed
<1>11. CASE entry = NoEntry /\ UNCHANGED <<entry, stream>>
  <2>1. ~Alive'  BY <1>1, <1>3, <1>11, OpenWhileMessages DEF Alive
  <2>2. NothingMissing'  BY <2>1 DEF NothingMissing
  <2>3. TypeOK'  BY <1>0, <1>6, <1>7, <1>11
  <2>4. Fetched'  BY <1>1, <1>11 DEF DownloadInv, Fetched
  <2>5. Streaming'  BY <1>9, <1>11
  <2> QED  BY <1>1, <1>3, <1>10, <2>2, <2>3, <2>4, <2>5 DEF DownloadInv, Streaming
<1>12. CASE entry # NoEntry /\ entry.live /\ stream' = Append(stream, c) /\ UNCHANGED entry
  <2>1. /\ entry.closed = FALSE /\ ended = FALSE /\ Pending = <<>> /\ Pending' = <<>>
        /\ Alive /\ Alive' /\ download = "started"
    BY <1>1, <1>3, <1>12, OpenWhileMessages DEF DownloadInv, Fetched, Alive, Pending
  <2>2. /\ OnDisk \in Nat /\ Len(stream) \in Nat /\ stream \in Seq(1 .. NumChunks)
        /\ RunFrom(OnDisk, stream)
        /\ OnDisk + Len(stream) + Len(Pending) = written - InPort
    BY <1>7, <1>8, <2>1 DEF DownloadInv, NothingMissing
  <2>3. c = OnDisk + Len(stream) + 1  BY <2>1, <2>2, NoChunks DEF c
  <2>4. /\ RunFrom(OnDisk, stream') /\ Len(stream') = Len(stream) + 1
        /\ stream' \in Seq(1 .. NumChunks)
    BY <1>4, <1>12, <2>2, <2>3, RunAppend
  <2>5. TypeOK'
    <3>1. entry' \in Entries /\ (entry'.live => entry'.pending = <<>> /\ ~entry'.closed)
      BY <1>2, <1>12 DEF TypeOK
    <3> QED  BY <1>0, <1>6, <2>4, <3>1
  <2>6. Fetched'  BY <1>1, <1>12 DEF DownloadInv, Fetched
  <2>7. NothingMissing'
    <3>1. (OnDisk + Len(stream) + Len(Pending))' = (written - InPort)'
      <4>1. Len(Pending) = 0 /\ Len(Pending') = 0 /\ InPort \in Nat
        BY <1>4, <1>7, <2>1, NoChunks
      <4>2. OnDisk + Len(stream) = written - InPort  BY <1>7, <2>1, <2>2, NoChunks
      <4>3. OnDisk' = OnDisk /\ written' = written /\ InPort' = InPort - 1  BY <1>1, <1>4, <1>7
      <4> QED  BY <1>7, <2>4, <4>1, <4>2, <4>3
    <3>2. RunFrom(OnDisk, stream)' /\ RunFrom(OnDisk + Len(stream), Pending)'
      <4>1. RunFrom(OnDisk + Len(stream'), <<>>)  BY <2>2, <2>4, EmptyRun
      <4> QED  BY <1>1, <1>7, <2>1, <2>4, <4>1
    <3>3. writer' \in {"closed", "tidied"} => Closing'
      BY <1>1, <1>4, <1>8, <2>1 DEF DownloadInv, NothingMissing
    <3> QED  BY <1>1, <1>12, <2>1, <3>1, <3>2, <3>3 DEF NothingMissing
  <2>8. Streaming'  BY <1>9, <1>12
  <2> QED  BY <1>1, <1>3, <1>10, <2>5, <2>6, <2>7, <2>8 DEF DownloadInv, Streaming
<1>13. CASE /\ entry # NoEntry /\ ~entry.live
            /\ entry' = [entry EXCEPT !.pending = Append(@, c)] /\ UNCHANGED stream
  <2>1. /\ entry.closed = FALSE /\ ended = FALSE /\ Pending = entry.pending
        /\ Alive /\ entry \in Entries /\ entry.pending \in Seq(1 .. NumChunks)
    BY <1>1, <1>3, <1>13, OpenWhileMessages DEF Alive
  <2>2. /\ OnDisk \in Nat /\ Len(stream) \in Nat /\ Len(entry.pending) \in Nat
        /\ RunFrom(OnDisk, stream) /\ RunFrom(OnDisk + Len(stream), entry.pending)
        /\ OnDisk + Len(stream) + Len(entry.pending) = written - InPort
    <3>1. Len(entry.pending) \in Nat  BY <2>1, LenProperties
    <3> QED  BY <1>7, <1>8, <2>1, <3>1 DEF DownloadInv, NothingMissing
  <2> DEFINE q == Append(entry.pending, c)
  <2>3. c = (OnDisk + Len(stream)) + Len(entry.pending) + 1  BY <2>2 DEF c
  <2>4. /\ RunFrom(OnDisk + Len(stream), q) /\ Len(q) = Len(entry.pending) + 1
        /\ q \in Seq(1 .. NumChunks)
    <3>1. OnDisk + Len(stream) \in Int  BY <1>7
    <3> HIDE DEF q
    <3> QED  BY <1>4, <2>1, <2>2, <2>3, <3>1, RunAppend DEF q
  <2>5. /\ entry' \in Entries /\ entry' # NoEntry
        /\ entry'.pending = q /\ entry'.live = entry.live /\ entry'.closed = entry.closed
    <3>1. entry' = [entry EXCEPT !.pending = q]  BY <1>13
    <3> HIDE DEF q
    <3> QED  BY <2>1, <2>4, <3>1, EntryGrown
  <2> HIDE DEF q
  <2>6. Pending' = q  BY <2>5 DEF Pending
  <2>7. TypeOK'  BY <1>0, <1>6, <1>7, <1>13, <2>5
  <2>8. Fetched'  BY <1>1, <1>13, <2>5 DEF DownloadInv, Fetched
  <2>9. NothingMissing'
    <3>1. (OnDisk + Len(stream) + Len(Pending))' = (written - InPort)'
      <4>1. Len(Pending') = Len(entry.pending) + 1 /\ InPort \in Nat
        BY <1>4, <1>7, <2>4, <2>6
      <4>2. OnDisk' = OnDisk /\ stream' = stream /\ written' = written /\ InPort' = InPort - 1
        BY <1>1, <1>4, <1>7, <1>13
      <4>3. OnDisk + Len(stream) + Len(entry.pending) = written - InPort
            /\ Len(entry.pending) \in Nat
        BY <2>2
      <4>4. OnDisk' = OnDisk /\ Len(stream') = Len(stream)  BY <4>2
      <4>5. OnDisk \in Nat /\ Len(stream) \in Nat /\ written \in Nat  BY <1>7
      <4>6. OnDisk' + Len(stream') + Len(Pending')
              = OnDisk + Len(stream) + Len(entry.pending) + 1
        <5>1. OnDisk' + Len(stream') + Len(Pending')
                = OnDisk + Len(stream) + (Len(entry.pending) + 1)
          BY <4>1, <4>4, Zenon
        <5>2. \A a, b, d \in Nat : a + b + (d + 1) = a + b + d + 1  OBVIOUS
        <5> QED  BY <5>1, <5>2, <4>3, <4>5, Zenon
      <4>7. written' - InPort' = written - InPort + 1  BY <4>1, <4>2, <4>5
      <4> QED  BY <4>3, <4>6, <4>7
    <3>2. RunFrom(OnDisk, stream)' /\ RunFrom(OnDisk + Len(stream), Pending)'
      BY <1>1, <1>7, <1>13, <2>2, <2>4, <2>6
    <3>3. writer' \in {"closed", "tidied"} => Closing'
      BY <1>1, <1>4, <1>8, <2>1 DEF DownloadInv, NothingMissing
    <3> QED  BY <1>1, <2>1, <2>5, <3>1, <3>2, <3>3 DEF NothingMissing
  <2>10. Streaming'  BY <1>9, <1>13, <2>5
  <2> QED  BY <1>1, <1>3, <1>10, <2>7, <2>8, <2>9, <2>10 DEF DownloadInv, Streaming
<1> QED  BY <1>5, <1>11, <1>12, <1>13 DEF OnChunk

LEMMA OnCloseKeepsInv == ASSUME DownloadInv, OnClose  PROVE DownloadInv'
<1>1. /\ UNCHANGED <<worker, prep, mode, acked, writer, written, fallback, blob, iframe, stream, download, saved>>
      /\ port # <<>> /\ Head(port) = Close /\ port' = Tail(port)
  BY DEF OnClose, pageVars, writerVars, browserVars
<1>2. TypeOK  BY DEF DownloadInv
<1>3. Len(port) \in Nat \ {0} /\ port[1] = Close /\ (Tail(port) = <<>> <=> Len(port) = 1)
  <2>1. port \in Seq(Messages)  BY <1>2 DEF TypeOK
  <2> QED  BY <1>1, <2>1, HeadAndTail
<1>4. Streaming /\ prep = "done"
  <2>1. port # <<Register>>  BY <1>3, MessageFacts, ShortSequences
  <2>2. ~Preparing /\ ~Blob  BY <1>1, <2>1 DEF Preparing, Blob
  <2> QED  BY <2>2 DEF DownloadInv
<1>5. InPort = 0
  <2>1. InPort \in 0 .. written  BY <1>4 DEF Streaming
  <2>2. 1 \notin 1 .. InPort  BY <1>3, <1>4, MessageFacts DEF Streaming
  <2>3. written \in 0 .. NumChunks /\ NumChunks \in Nat
    BY <1>2, StreamDownloadAssumption DEF TypeOK
  <2> QED  BY <2>1, <2>2, <2>3
<1>6. Len(port) = 1 /\ Closing  BY <1>3, <1>5 DEF InPort
<1>7. port' = <<>> /\ port' \in Seq(Messages) /\ Len(port') = 0 /\ ~Closing' /\ InPort' = 0
  <2>1. port' = <<>> /\ port' \in Seq(Messages) /\ Len(port') = 0  BY <1>1, <1>3, <1>6, NoChunks
  <2>2. ~Closing'  BY <2>1 DEF Closing
  <2> QED  BY <2>1, <2>2 DEF InPort
<1>8. /\ writer \in {"closed", "tidied"} /\ mode = "sw" /\ iframe # "none"
      /\ written \in Nat /\ OnDisk' = OnDisk
  <2>1. writer \in {"closed", "tidied"}  BY <1>2, <1>4, <1>6 DEF Streaming, TypeOK
  <2> QED  BY <1>1, <1>4, <2>1, Counts DEF Streaming, OnDisk, Passed
<1>9. Streaming'
  <2>1. InPort' \in 0 .. written' /\ \A i \in 1 .. InPort' : port'[i] = Chunk(written' - InPort' + i)
    BY <1>1, <1>7, <1>8, StreamDownloadAssumption
  <2> QED  BY <1>1, <1>4, <1>8, <2>1 DEF Streaming
<1>10. Saved' /\ Kept'  BY <1>1 DEF DownloadInv, Saved, Kept, OnDisk, Passed
<1>11. ASSUME ended' \in BOOLEAN, entry' = NoEntry \/ (entry' \in Entries /\ ~entry'.live)
       PROVE  TypeOK'
  <2>1. /\ iframe' \in {"none", "fetching", "answered", "removed"}
        /\ stream' \in Seq(1 .. NumChunks) /\ saved' \in Seq(1 .. NumChunks)
        /\ download' \in {"none", "started", "complete", "failed", "missing", "cancelled"}
    BY <1>1, <1>2 DEF TypeOK
  <2> QED  BY <1>1, <1>2, <1>7, <1>11, <2>1, EventKeepsType
<1>12. CASE entry = NoEntry /\ UNCHANGED <<entry, ended>>
  <2>1. ~Alive'  BY <1>1, <1>4, <1>12, OpenWhileMessages DEF Alive
  <2>2. NothingMissing'  BY <2>1 DEF NothingMissing
  <2>3. TypeOK'  BY <1>2, <1>11, <1>12 DEF TypeOK
  <2>4. Fetched'  BY <1>1, <1>12 DEF DownloadInv, Fetched
  <2> QED  BY <1>1, <1>4, <1>9, <1>10, <2>2, <2>3, <2>4 DEF DownloadInv, Streaming
<1>13. CASE entry # NoEntry /\ entry.live /\ ended' = TRUE /\ entry' = NoEntry
  <2>1. Pending = <<>> /\ Pending' = <<>> /\ Alive
    BY <1>1, <1>4, <1>13, OpenWhileMessages DEF Alive, Pending
  <2>2. iframe = "answered" /\ download = "started"  BY <1>13 DEF DownloadInv, Fetched
  <2>3. TypeOK'  BY <1>11, <1>13
  <2>4. Fetched'  BY <1>1, <1>13, <2>2 DEF Fetched
  <2>5. NothingMissing'
    BY <1>1, <1>5, <1>7, <1>8, <1>13, <2>1 DEF DownloadInv, NothingMissing
  <2> QED  BY <1>1, <1>4, <1>9, <1>10, <2>3, <2>4, <2>5 DEF DownloadInv, Streaming
<1>14. CASE /\ entry # NoEntry /\ ~entry.live
            /\ entry' = [entry EXCEPT !.closed = TRUE] /\ UNCHANGED ended
  <2>1. ended = FALSE /\ Pending = entry.pending /\ Alive /\ entry \in Entries
    BY <1>1, <1>4, <1>14, OpenWhileMessages DEF Alive
  <2>2. /\ entry' \in Entries /\ entry' # NoEntry
        /\ entry'.pending = entry.pending /\ entry'.live = entry.live /\ entry'.closed = TRUE
    BY <1>14, <2>1, EntryClosed
  <2>3. TypeOK'  BY <1>11, <1>14, <2>1, <2>2
  <2>4. Fetched'  BY <1>1, <1>14, <2>2 DEF DownloadInv, Fetched
  <2>5. Pending' = Pending  BY <2>1, <2>2 DEF Pending
  <2>6. NothingMissing'
    BY <1>1, <1>5, <1>7, <1>8, <1>14, <2>1, <2>2, <2>5 DEF DownloadInv, NothingMissing
  <2> QED  BY <1>1, <1>4, <1>9, <1>10, <2>3, <2>4, <2>6 DEF DownloadInv, Streaming
<1> QED  BY <1>12, <1>13, <1>14 DEF OnClose

LEMMA OnFetchKeepsInv == ASSUME DownloadInv, OnFetch  PROVE DownloadInv'
<1>1. /\ UNCHANGED <<worker, prep, mode, acked, writer, written, fallback, blob, port, saved>>
      /\ iframe = "fetching" /\ iframe' = "answered"
  BY DEF OnFetch, pageVars, writerVars
<1>2. TypeOK  BY DEF DownloadInv
<1>3. Streaming /\ prep = "done"  BY <1>1 DEF DownloadInv, Preparing, Blob
<1>4. Closing' = Closing /\ InPort' = InPort  BY <1>1 DEF Closing, InPort
<1>5. mode = "sw" /\ stream = <<>> /\ saved = <<>> /\ ended = FALSE /\ download = "none"
  BY <1>1, <1>3 DEF DownloadInv, Fetched, Streaming
<1>6. /\ Saved' /\ Kept' /\ OnDisk' = OnDisk /\ OnDisk \in Nat
  <2>1. Passed' = Passed /\ OnDisk' = OnDisk  BY <1>1 DEF Passed, OnDisk
  <2>2. saved' = <<>> /\ download' # "complete"  BY <1>1, <1>5 DEF OnFetch
  <2>3. RunFrom(Passed, <<>>)  BY Counts, EmptyRun
  <2>4. Saved'  BY <2>1, <2>2, <2>3 DEF Saved
  <2>5. Kept'  BY <1>1 DEF DownloadInv, Kept
  <2> QED  BY <2>1, <2>4, <2>5, Counts
<1>7. CASE entry = NoEntry /\ download' = "missing" /\ UNCHANGED <<entry, stream, ended>>
  <2>1. NothingMissing'  BY <1>7 DEF NothingMissing, Alive
  <2>2. TypeOK'  BY <1>1, <1>2, <1>7 DEF TypeOK
  <2>3. Fetched'  BY <1>1, <1>7 DEF Fetched
  <2>4. Streaming'  BY <1>1, <1>3, <1>4, <1>7 DEF Streaming
  <2> QED  BY <1>1, <1>3, <1>6, <2>1, <2>2, <2>3, <2>4 DEF DownloadInv, Streaming
<1>8. CASE /\ entry # NoEntry
           /\ stream' = entry.pending
           /\ ended' = entry.closed
           /\ entry' = IF entry.closed THEN NoEntry
                       ELSE [entry EXCEPT !.pending = <<>>, !.live = TRUE]
           /\ download' = "started"
  <2>1. entry \in Entries  BY <1>2, <1>8 DEF TypeOK
  <2>2. /\ entry.pending \in Seq(1 .. NumChunks) /\ entry.closed \in BOOLEAN
        /\ Pending = entry.pending /\ Alive /\ Alive'
    BY <1>8, <2>1, EntryFields DEF Pending, Alive
  <2>3. /\ Len(entry.pending) \in Nat /\ OnDisk + Len(entry.pending) = written - InPort
        /\ RunFrom(OnDisk, entry.pending)
    <3>1. Len(entry.pending) \in Nat  BY <2>2, LenProperties
    <3>2. /\ OnDisk + Len(stream) + Len(entry.pending) = written - InPort
          /\ RunFrom(OnDisk + Len(stream), entry.pending)
      BY <1>5, <2>2 DEF DownloadInv, NothingMissing
    <3>3. OnDisk \in Nat /\ Len(stream) = 0  BY <1>5, <1>6, NoChunks
    <3>4. OnDisk + Len(stream) = OnDisk  BY <3>3
    <3> QED  BY <3>1, <3>2, <3>4
  <2>4. entry.closed = FALSE =>
          /\ entry' \in Entries /\ entry' # NoEntry
          /\ entry'.pending = <<>> /\ entry'.live = TRUE /\ entry'.closed = FALSE
    <3>1. SUFFICES ASSUME entry.closed = FALSE
                   PROVE  /\ entry' \in Entries /\ entry' # NoEntry
                          /\ entry'.pending = <<>> /\ entry'.live = TRUE
                          /\ entry'.closed = entry.closed
      OBVIOUS
    <3>2. entry' = [entry EXCEPT !.pending = <<>>, !.live = TRUE]  BY <1>8, <3>1
    <3> QED  BY <2>1, <3>2, EntryLive
  <2>5. entry.closed = TRUE => entry' = NoEntry  BY <1>8
  <2>6. TypeOK'
    <3>1. saved' \in Seq(1 .. NumChunks) /\ port' \in Seq(Messages)  BY <1>1, <1>2 DEF TypeOK
    <3>2. UNCHANGED <<worker, prep, mode, acked, writer, written, fallback, blob>> /\ iframe' = "answered"  BY <1>1
    <3>3. \/ entry' = NoEntry
          \/ /\ entry' \in Entries
             /\ entry'.live => entry'.pending = <<>> /\ ~entry'.closed
      BY <2>2, <2>4, <2>5
    <3>4. stream' \in Seq(1 .. NumChunks) /\ ended' \in BOOLEAN /\ download' = "started"
      BY <1>8, <2>2
    <3> QED  BY <1>2, <3>1, <3>2, <3>3, <3>4, EventKeepsType
  <2>7. Pending' = <<>>  BY <2>2, <2>4, <2>5 DEF Pending
  <2>8. Fetched'  BY <1>1, <1>8, <2>2, <2>4, <2>5 DEF Fetched
  <2>9. Streaming'
    <3>1. writer \in {"open", "saved"} => entry.closed = FALSE  BY <1>3, <1>8 DEF Streaming
    <3>2. writer' \in {"open", "saved"} =>
            ~Closing' /\ ended' = FALSE /\ (entry' # NoEntry => entry'.closed = FALSE)
      BY <1>1, <1>3, <1>4, <1>8, <2>4, <3>1 DEF Streaming
    <3> QED  BY <1>1, <1>3, <1>4, <3>2 DEF Streaming
  <2>10. NothingMissing'
    <3>1. (OnDisk + Len(stream) + Len(Pending))' = (written - InPort)'
      <4>1. OnDisk' = OnDisk /\ OnDisk \in Nat /\ Len(Pending') = 0  BY <1>6, <2>7, NoChunks
      <4>2. Len(stream') = Len(entry.pending)  BY <1>8
      <4>3. written' - InPort' = OnDisk + Len(entry.pending)  BY <1>1, <1>4, <2>3
      <4> QED  BY <2>3, <4>1, <4>2, <4>3
    <3>2. RunFrom(OnDisk, stream)'
      <4>1. OnDisk' = OnDisk  BY <1>6
      <4> QED  BY <1>8, <2>3, <4>1
    <3>3. RunFrom(OnDisk + Len(stream), Pending)'
      <4>1. OnDisk' + Len(stream') \in Int
        <5>1. OnDisk' \in Nat /\ Len(stream') = Len(entry.pending)  BY <1>6, <1>8
        <5> QED  BY <2>3, <5>1
      <4> QED  BY <2>7, <4>1, EmptyRun
    <3>4. writer' \in {"closed", "tidied"} => Closing' \/ ended' = TRUE
      <4>1. writer \in {"closed", "tidied"} => Closing \/ entry.closed = TRUE
        BY <1>5, <2>2 DEF DownloadInv, NothingMissing
      <4> QED  BY <1>1, <1>4, <1>8, <4>1
    <3>5. ended' = TRUE \/ (entry' # NoEntry /\ entry'.closed = TRUE) => port' = <<>>
      <4>1. entry.closed = TRUE => port = <<>>  BY <1>5, <1>8, <2>2 DEF DownloadInv, NothingMissing
      <4> QED  BY <1>1, <1>8, <2>2, <2>4, <2>5, <4>1
    <3>6. ended' = TRUE <=> entry' = NoEntry  BY <1>8, <2>2, <2>4, <2>5
    <3> QED  BY <3>1, <3>2, <3>3, <3>4, <3>5, <3>6 DEF NothingMissing
  <2> QED  BY <1>1, <1>3, <1>6, <2>6, <2>8, <2>9, <2>10 DEF DownloadInv, Streaming
<1> QED  BY <1>7, <1>8 DEF OnFetch

-----------------------------------------------------------------------------
(* The invariant: the browser, its user, and a worker that is stopped. *)

\* The browser is fed only by a worker.
LEMMA StartedIsStreaming ==
  ASSUME DownloadInv, download = "started"
  PROVE  Streaming /\ iframe = "answered" /\ Alive /\ mode = "sw" /\ prep = "done"
<1>1. iframe = "answered"  BY DEF DownloadInv, Fetched
<1> QED  BY <1>1 DEF DownloadInv, Preparing, Blob, Streaming, Alive

\* What the browser reads is the next chunk; a stream that opened late has none.
LEMMA NextOnDisk ==
  ASSUME DownloadInv, SaveChunk
  PROVE  /\ Head(stream) = OnDisk + 1 /\ Head(stream) \in 1 .. NumChunks
         /\ RunFrom(OnDisk + 1, Tail(stream)) /\ Tail(stream) \in Seq(1 .. NumChunks)
         /\ Len(Tail(stream)) = Len(stream) - 1 /\ Len(stream) \in Nat \ {0}
         /\ RunFrom(Passed, Append(saved, Head(stream)))
         /\ Append(saved, Head(stream)) \in Seq(1 .. NumChunks)
         /\ Len(Append(saved, Head(stream))) = Len(saved) + 1
         /\ OnDisk + Len(stream) + Len(Pending) = written - InPort
         /\ writer # "saved"
<1>1. download = "started" /\ stream # <<>>  BY DEF SaveChunk
<1>2. Streaming /\ Alive /\ mode = "sw"  BY <1>1, StartedIsStreaming
<1>3. /\ OnDisk + Len(stream) + Len(Pending) = written - InPort
      /\ RunFrom(OnDisk, stream) /\ RunFrom(Passed, saved)
  BY <1>2 DEF DownloadInv, NothingMissing, Saved
<1>4. /\ saved \in Seq(1 .. NumChunks) /\ stream \in Seq(1 .. NumChunks)
      /\ Pending \in Seq(1 .. NumChunks) /\ port \in Seq(Messages)
  BY NoChunks, EntryFields DEF DownloadInv, TypeOK, Pending
<1>5. /\ OnDisk \in Nat /\ Passed \in Nat /\ Passed <= written /\ written \in Nat
      /\ Len(saved) \in Nat
  BY Counts
<1>6. /\ Head(stream) = OnDisk + 1 /\ RunFrom(OnDisk + 1, Tail(stream))
      /\ Len(Tail(stream)) = Len(stream) - 1 /\ Len(stream) \in Nat \ {0}
      /\ Tail(stream) \in Seq(1 .. NumChunks) /\ Head(stream) \in 1 .. NumChunks
  BY <1>1, <1>3, <1>4, <1>5, RunTail
<1>7. /\ RunFrom(Passed, Append(saved, Head(stream)))
      /\ Len(Append(saved, Head(stream))) = Len(saved) + 1
      /\ Append(saved, Head(stream)) \in Seq(1 .. NumChunks)
  <2>1. Head(stream) = Passed + Len(saved) + 1  BY <1>6 DEF OnDisk
  <2> QED  BY <1>3, <1>4, <1>5, <1>6, <2>1, RunAppend
<1>8. writer # "saved"
  <2>1. SUFFICES ASSUME writer = "saved"  PROVE FALSE
    OBVIOUS
  <2>2. OnDisk = written  BY <2>1, <1>5, Counts DEF DownloadInv, Saved, Passed
  <2>3. Len(Pending) \in Nat  BY <1>4, LenProperties
  <2>4. InPort \in Nat  BY <1>2, <1>5 DEF Streaming
  <2> QED  BY <1>3, <1>5, <1>6, <2>2, <2>3, <2>4
<1> QED  BY <1>3, <1>6, <1>7, <1>8

LEMMA SaveChunkKeepsInv == ASSUME DownloadInv, SaveChunk  PROVE DownloadInv'
<1>1. /\ UNCHANGED <<worker, prep, mode, acked, writer, written, fallback, blob, port, iframe,
                     entry, ended, download>>
      /\ download = "started" /\ stream # <<>>
      /\ saved' = Append(saved, Head(stream)) /\ stream' = Tail(stream)
  BY DEF SaveChunk, pageVars, writerVars
<1>2. Streaming /\ iframe = "answered" /\ Alive /\ mode = "sw" /\ prep = "done"
  BY <1>1, StartedIsStreaming
<1>3. TypeOK  BY DEF DownloadInv
<1>4. /\ Closing' = Closing /\ InPort' = InPort /\ Pending' = Pending /\ Alive' = Alive
      /\ Passed' = Passed
  BY <1>1 DEF Closing, InPort, Pending, Alive, Passed
<1>5. /\ RunFrom(OnDisk + 1, stream') /\ Len(stream') = Len(stream) - 1
      /\ Len(stream) \in Nat \ {0} /\ stream' \in Seq(1 .. NumChunks)
      /\ RunFrom(Passed, saved') /\ Len(saved') = Len(saved) + 1
      /\ saved' \in Seq(1 .. NumChunks)
      /\ OnDisk + Len(stream) + Len(Pending) = written - InPort /\ writer # "saved"
  BY <1>1, NextOnDisk
<1>6. RunFrom(OnDisk + Len(stream), Pending)
  BY <1>2 DEF DownloadInv, NothingMissing
<1>7. OnDisk \in Nat /\ OnDisk' = OnDisk + 1
  <2>1. Passed \in Nat /\ Len(saved) \in Nat /\ OnDisk \in Nat  BY Counts
  <2>2. OnDisk' = Passed + (Len(saved) + 1)  BY <1>4, <1>5 DEF OnDisk
  <2> QED  BY <2>1, <2>2 DEF OnDisk
<1>8. TypeOK'
  <2>1. /\ port' \in Seq(Messages) /\ ended' \in BOOLEAN
        /\ iframe' \in {"none", "fetching", "answered", "removed"}
        /\ \/ entry' = NoEntry
           \/ /\ entry' \in Entries
              /\ entry'.live => entry'.pending = <<>> /\ ~entry'.closed
        /\ download' \in {"none", "started", "complete", "failed", "missing", "cancelled"}
    BY <1>1, <1>3 DEF TypeOK
  <2> QED  BY <1>1, <1>3, <1>5, <2>1, EventKeepsType
<1>9. Streaming'
  <2>1. UNCHANGED <<mode, writer, written, port, iframe, entry, ended>>  BY <1>1
  <2> QED  BY <1>2, <1>4, <2>1 DEF Streaming
<1>10. Fetched'
  <2>1. UNCHANGED <<iframe, entry, download>> /\ download = "started"  BY <1>1
  <2> QED  BY <1>2, <2>1 DEF DownloadInv, Fetched
<1>11. Saved'
  <2>1. download' = "started" /\ writer' # "saved"  BY <1>1, <1>5
  <2> QED  BY <1>4, <1>5, <2>1 DEF Saved
<1>12. NothingMissing'
  <2>1. OnDisk' + Len(stream') = OnDisk + Len(stream)  BY <1>5, <1>7
  <2>2. UNCHANGED <<mode, writer, written, port, iframe, entry, ended>>  BY <1>1
  <2>3. /\ (OnDisk + Len(stream) + Len(Pending))' = (written - InPort)'
        /\ RunFrom(OnDisk, stream)' /\ RunFrom(OnDisk + Len(stream), Pending)'
    BY <1>4, <1>5, <1>6, <1>7, <2>1, <2>2
  <2> QED  BY <1>2, <1>4, <2>2, <2>3 DEF DownloadInv, NothingMissing
<1>13. Kept'  BY <1>1 DEF DownloadInv, Kept
<1> QED  BY <1>1, <1>2, <1>8, <1>9, <1>10, <1>11, <1>12, <1>13 DEF DownloadInv

\* At the end of the stream every chunk that did not go past it is on disk.
LEMMA EndOfStream ==
  ASSUME DownloadInv, FinishDownload
  PROVE  OnDisk = NumChunks /\ entry = NoEntry /\ Streaming /\ writer # "saved" /\ prep = "done"
<1>1. download = "started" /\ stream = <<>> /\ ended = TRUE
  BY DEF FinishDownload, DownloadInv, TypeOK
<1>2. Streaming /\ Alive /\ mode = "sw" /\ prep = "done"  BY <1>1, StartedIsStreaming
<1>3. OnDisk + Len(stream) + Len(Pending) = written - InPort /\ port = <<>> /\ entry = NoEntry
  BY <1>1, <1>2 DEF DownloadInv, NothingMissing
<1>4. Len(stream) = 0 /\ Len(Pending) = 0 /\ Len(port) = 0
  BY <1>1, <1>3, NoChunks DEF Pending
<1>5. InPort = 0  BY <1>3, <1>4 DEF InPort, Closing
<1>6. writer \notin {"open", "saved"}  BY <1>1, <1>2 DEF Streaming
<1>7. written = NumChunks  BY <1>6 DEF DownloadInv, Kept
<1> QED  BY <1>2, <1>3, <1>4, <1>5, <1>6, <1>7, Counts

LEMMA FinishDownloadKeepsInv == ASSUME DownloadInv, FinishDownload  PROVE DownloadInv'
<1>1. /\ UNCHANGED <<worker, prep, mode, acked, writer, written, fallback, blob, port, iframe,
                     entry, stream, ended, saved>>
      /\ download = "started" /\ download' = "complete"
  BY DEF FinishDownload, pageVars, writerVars
<1>2. /\ OnDisk = NumChunks /\ entry = NoEntry /\ Streaming /\ writer # "saved"
      /\ prep = "done" /\ iframe = "answered"
  BY <1>1, EndOfStream, StartedIsStreaming
<1>3. Closing' = Closing /\ InPort' = InPort /\ Passed' = Passed /\ OnDisk' = OnDisk
  BY <1>1 DEF Closing, InPort, Passed, OnDisk
<1>4. TypeOK'  BY <1>1 DEF DownloadInv, TypeOK
<1>5. Streaming'  BY <1>1, <1>2, <1>3 DEF Streaming
<1>6. Fetched'  BY <1>1, <1>2 DEF DownloadInv, Fetched
<1>7. NothingMissing'  BY <1>1, <1>2 DEF NothingMissing, Alive
<1>8. Saved' /\ Kept'  BY <1>1, <1>2, <1>3 DEF DownloadInv, Saved, Kept
<1> QED  BY <1>1, <1>2, <1>4, <1>5, <1>6, <1>7, <1>8 DEF DownloadInv

\* A cancelled download, and a worker that was stopped.
LEMMA LossKeepsInv == ASSUME DownloadInv, CancelDownload \/ KillWorker  PROVE DownloadInv'
<1>1. /\ UNCHANGED <<worker, prep, mode, acked, writer, written, fallback, blob, port, iframe,
                     ended, saved>>
      /\ entry' = NoEntry /\ stream' = <<>>
      /\ download' \in {"failed", "cancelled"} \/ (download' = download /\ download # "started")
      /\ entry # NoEntry \/ download = "started"
      /\ download' # download => download = "started"
  BY DEF CancelDownload, KillWorker, pageVars, writerVars
<1>2. Closing' = Closing /\ InPort' = InPort /\ Passed' = Passed /\ OnDisk' = OnDisk
  BY <1>1 DEF Closing, InPort, Passed, OnDisk
<1>3. TypeOK'
  <2>1. stream' \in Seq(1 .. NumChunks)  BY <1>1, NoChunks
  <2>2. /\ port' \in Seq(Messages) /\ saved' \in Seq(1 .. NumChunks) /\ ended' \in BOOLEAN
        /\ iframe' \in {"none", "fetching", "answered", "removed"}
        /\ download' \in {"none", "started", "complete", "failed", "missing", "cancelled"}
    BY <1>1 DEF DownloadInv, TypeOK
  <2>3. TypeOK  BY DEF DownloadInv
  <2> QED  BY <1>1, <2>1, <2>2, <2>3, EventKeepsType
<1>4. Blob => Blob'  BY <1>1 DEF Blob
<1>5. Preparing => Preparing'  BY <1>1 DEF Preparing
<1>6. Streaming => Streaming'  BY <1>1, <1>2 DEF Streaming
<1>7. Fetched'  BY <1>1, StartedIsStreaming DEF DownloadInv, Fetched
<1>8. NothingMissing'  BY <1>1 DEF NothingMissing, Alive
<1>9. Saved' /\ Kept'  BY <1>1, <1>2 DEF DownloadInv, Saved, Kept
<1> QED  BY <1>1, <1>3, <1>4, <1>5, <1>6, <1>7, <1>8, <1>9 DEF DownloadInv

\* Every step keeps the invariant.
LEMMA NextKeepsInv == ASSUME DownloadInv, [Next]_vars  PROVE DownloadInv'
<1>1. CASE RegisterFails \/ RegisterWorker \/ FallBack \/ Activate \/ InstallFails
  BY <1>1, PrepareKeepsInv
<1>2. CASE PostRegister  BY <1>2, PostRegisterKeepsInv
<1>3. CASE OpenIframe  BY <1>3, OpenIframeKeepsInv
<1>4. CASE Write  BY <1>4, WriteKeepsInv
<1>5. CASE CloseStream  BY <1>5, CloseStreamKeepsInv
<1>6. CASE SaveBlob  BY <1>6, SaveBlobKeepsInv
<1>7. CASE RemoveIframe  BY <1>7, RemoveIframeKeepsInv
<1>8. CASE OnRegister  BY <1>8, OnRegisterKeepsInv
<1>9. CASE OnChunk  BY <1>9, OnChunkKeepsInv
<1>10. CASE OnClose  BY <1>10, OnCloseKeepsInv
<1>11. CASE OnFetch  BY <1>11, OnFetchKeepsInv
<1>12. CASE SaveChunk  BY <1>12, SaveChunkKeepsInv
<1>13. CASE FinishDownload  BY <1>13, FinishDownloadKeepsInv
<1>14. CASE CancelDownload \/ KillWorker  BY <1>14, LossKeepsInv
<1>15. CASE UNCHANGED vars
  <2>1. UNCHANGED <<worker, prep, mode, acked, writer, written, fallback, blob, port, iframe,
                    entry, stream, ended, download, saved>>
    BY <1>15 DEF vars, pageVars, writerVars, browserVars
  <2>2. TypeOK'
    <3>1. TypeOK  BY DEF DownloadInv
    <3>2. UNCHANGED <<worker, prep, mode, acked, writer, written, fallback, blob>>  BY <2>1
    <3>3. /\ port' \in Seq(Messages) /\ ended' \in BOOLEAN
          /\ iframe' \in {"none", "fetching", "answered", "removed"}
          /\ stream' \in Seq(1 .. NumChunks) /\ saved' \in Seq(1 .. NumChunks)
          /\ download' \in {"none", "started", "complete", "failed", "missing", "cancelled"}
      BY <2>1, <3>1 DEF TypeOK
    <3>4. \/ entry' = NoEntry
          \/ /\ entry' \in Entries
             /\ entry'.live => entry'.pending = <<>> /\ ~entry'.closed
      BY <2>1, <3>1 DEF TypeOK
    <3> QED  BY <3>1, <3>2, <3>3, <3>4, EventKeepsType
  <2>3. /\ Closing' = Closing /\ InPort' = InPort /\ Pending' = Pending /\ Alive' = Alive
        /\ Passed' = Passed /\ OnDisk' = OnDisk
    BY <2>1 DEF Closing, InPort, Pending, Alive, Passed, OnDisk
  <2>4. Preparing' = Preparing /\ Blob' = Blob  BY <2>1 DEF Preparing, Blob
  <2>5. Streaming => Streaming'  BY <2>1, <2>3 DEF Streaming
  <2>6. Fetched' /\ Saved' /\ Kept'  BY <2>1, <2>3 DEF DownloadInv, Fetched, Saved, Kept
  <2>7. NothingMissing'  BY <2>1, <2>3 DEF DownloadInv, NothingMissing
  <2> QED  BY <2>1, <2>2, <2>4, <2>5, <2>6, <2>7 DEF DownloadInv
<1> QED
  BY <1>1, <1>2, <1>3, <1>4, <1>5, <1>6, <1>7, <1>8, <1>9, <1>10, <1>11, <1>12, <1>13,
     <1>14, <1>15 DEF Next, PageStep, WorkerStep, BrowserStep

(***************************************************************************)
(* While a download is alive no chunk that write() gave the stream is      *)
(* missing or out of order anywhere between write() and the file, and the  *)
(* close comes behind the last one; all others are in fallbackChunks, or,  *)
(* as a whole file, in the Blob, and a stream that opens after it is empty.*)
(***************************************************************************)
THEOREM DownloadInvariant == Spec => []DownloadInv
<1>1. Init => DownloadInv  BY InitEstablishesInv
<1>2. DownloadInv /\ [Next]_vars => DownloadInv'  BY NextKeepsInv
<1> QED  BY <1>1, <1>2, PTL DEF Spec

\* The variables keep their types, whatever the number of chunks.
THEOREM DownloadTypeCorrect == Spec => []TypeOK
<1>1. DownloadInv => TypeOK  BY DEF DownloadInv
<1> QED  BY <1>1, DownloadInvariant, PTL

-----------------------------------------------------------------------------
(* The refinement: each step is one of Download's, or none. *)

LEMMA StatusFacts ==
  ASSUME DownloadInv
  PROVE  /\ Status \in {"open", "complete", "lost"}
         /\ download = "started" /\ writer # "saved" => Status = "open"
         /\ mode # "sw" /\ writer # "saved" => Status = "open" /\ File = <<>>
         /\ Status = "open" <=>
              download \in {"none", "started"} /\ iframe # "removed" /\ writer # "saved"
<1>1. mode # "sw" => iframe = "none"
  BY DEF DownloadInv, Preparing, Blob, Streaming
<1> QED  BY <1>1 DEF DownloadInv, TypeOK, Status, File, Fetched

\* What the browser reads is the next chunk of the file.
LEMMA SaveChunkGrows ==
  ASSUME DownloadInv, DownloadInv', SaveChunk
  PROVE  D!Grow
<1>1. /\ UNCHANGED <<download, iframe, mode, writer, fallback>> /\ download = "started"
      /\ saved' = Append(saved, Head(stream))
  BY DEF SaveChunk, pageVars, writerVars
<1>2. writer # "saved" /\ mode = "sw"  BY <1>1, NextOnDisk, StartedIsStreaming
<1>3. /\ saved' \in Seq(1 .. NumChunks) /\ RunFrom(Passed, saved')
      /\ Len(saved') = Len(saved) + 1 /\ OnDisk + 1 \in 1 .. NumChunks
  BY <1>1, NextOnDisk
<1>4. Passed \in Nat /\ Len(saved) \in Nat /\ NumChunks \in Nat  BY Counts
<1>5. saved' = D!Run(Passed, Len(saved'))  BY <1>3, <1>4, RunIsRun
<1>6. Len(saved') \in Len(saved) + 1 .. NumChunks - Passed  BY <1>3, <1>4 DEF OnDisk
<1>7. Status = "open" /\ Status' = Status
  BY <1>1, <1>2, StatusFacts DEF Status
<1>8. /\ Skipped = Passed /\ File = saved
      /\ Skipped' = Skipped /\ File' = saved'
  BY <1>1, <1>2 DEF Skipped, Passed, File
<1> QED  BY <1>5, <1>6, <1>7, <1>8 DEF D!Grow

\* A file that is marked complete ends with the last chunk.
LEMMA StreamIsComplete ==
  ASSUME DownloadInv, FinishDownload
  PROVE  D!Complete
<1>1. /\ download = "started" /\ download' = "complete"
      /\ UNCHANGED <<iframe, mode, writer, fallback, saved>>
  BY DEF FinishDownload, pageVars, writerVars
<1>2. OnDisk = NumChunks /\ writer # "saved" /\ mode = "sw"
  BY <1>1, EndOfStream, StartedIsStreaming
<1>3. Status = "open" /\ Status' = "complete"  BY <1>1, <1>2, StatusFacts DEF Status
<1>4. Skipped = Passed /\ File = saved /\ Skipped' = Skipped /\ File' = saved
  BY <1>1, <1>2 DEF Skipped, Passed, File
<1>5. saved = D!Run(Passed, NumChunks - Passed)
  <2>1. saved \in Seq(1 .. NumChunks) /\ RunFrom(Passed, saved)
    BY DEF DownloadInv, TypeOK, Saved
  <2>2. Passed \in Nat /\ Len(saved) \in Nat /\ NumChunks \in Nat  BY Counts
  <2>3. Len(saved) = NumChunks - Passed  BY <1>2, <2>2 DEF OnDisk
  <2>4. saved = D!Run(Passed, Len(saved))  BY <2>1, <2>2, RunIsRun
  <2> QED  BY <2>3, <2>4
<1> QED  BY <1>3, <1>4, <1>5 DEF D!Complete

\* The Blob is the whole file.
LEMMA BlobIsWhole ==
  ASSUME DownloadInv, SaveBlob
  PROVE  D!Complete
<1>1. /\ mode # "sw" /\ mode' = mode /\ writer = "open" /\ written = NumChunks
      /\ blob' = fallback /\ writer' = "saved"
  BY DEF SaveBlob
<1>2. Status = "open" /\ Status' = "complete"  BY <1>1, StatusFacts DEF Status
<1>3. Skipped = 0 /\ Skipped' = 0 /\ File' = fallback  BY <1>1 DEF Skipped, File
<1>4. fallback \in Seq(1 .. NumChunks) /\ RunFrom(0, fallback) /\ Len(fallback) = NumChunks
  BY <1>1 DEF DownloadInv, TypeOK, Kept
<1>5. fallback = D!Run(0, NumChunks)  BY <1>4, RunIsRun
<1>6. NumChunks - 0 = NumChunks  BY Counts
<1> QED  BY <1>2, <1>3, <1>5, <1>6 DEF D!Complete

\* What ends a download early leaves the file as it is.
LEMMA LossIsFinal ==
  ASSUME DownloadInv, OnFetch \/ RemoveIframe \/ CancelDownload \/ KillWorker
  PROVE  D!Lose \/ UNCHANGED <<File, Skipped, Status>>
<1>1. /\ UNCHANGED <<saved, blob, mode, fallback>>
      /\ (writer' = writer \/ (writer = "closed" /\ writer' = "tidied"))
  BY DEF OnFetch, RemoveIframe, CancelDownload, KillWorker, browserVars, pageVars, writerVars
<1>2. UNCHANGED <<File, Skipped>>  BY <1>1 DEF File, Skipped
<1>3. Status' = Status \/ (Status = "open" /\ Status' = "lost")
  <2>0. CASE writer = "saved"
    <3>1. writer' = "saved"  BY <1>1, <2>0
    <3> QED  BY <2>0, <3>1 DEF Status
  <2>1. CASE OnFetch /\ writer # "saved"
    <3>1. /\ iframe = "fetching" /\ iframe' = "answered" /\ writer' = writer
          /\ download' \in {"missing", "started"}
      BY <2>1 DEF OnFetch, pageVars, writerVars
    <3>2. download = "none"  BY <3>1 DEF DownloadInv, Fetched
    <3> QED  BY <2>1, <3>1, <3>2 DEF Status
  <2>2. CASE RemoveIframe
    <3>1. /\ download' = download /\ writer = "closed" /\ writer' = "tidied"
          /\ iframe' = IF iframe = "fetching" THEN "removed" ELSE iframe
      BY <2>2 DEF RemoveIframe, browserVars
    <3>2. iframe = "fetching" => download = "none"  BY DEF DownloadInv, Fetched
    <3> QED  BY <3>1, <3>2 DEF Status
  <2>3. CASE (CancelDownload \/ KillWorker) /\ writer # "saved"
    <3>1. /\ iframe' = iframe /\ writer' = writer
          /\ \/ download' = download
             \/ download = "started" /\ download' \in {"failed", "cancelled"}
      BY <2>3 DEF CancelDownload, KillWorker, pageVars, writerVars
    <3> QED  BY <2>3, <3>1, StatusFacts DEF Status
  <2> QED  BY <2>0, <2>1, <2>2, <2>3
<1> QED  BY <1>2, <1>3 DEF D!Lose

\* The stream opens behind what was written by then, or after a Blob.
LEMMA OpenIsLate ==
  ASSUME DownloadInv, OpenIframe
  PROVE  D!OpenLate \/ UNCHANGED <<File, Skipped, Status>>
<1>1. /\ prep = "posted" /\ mode' = "sw" /\ iframe' = "fetching"
      /\ UNCHANGED <<writer, fallback, download, saved, blob>>
  BY DEF OpenIframe, writerVars, browserVars
<1>2. mode = "null" /\ iframe = "none" /\ download = "none" /\ saved = <<>>
  BY <1>1 DEF DownloadInv, Preparing, Fetched
<1>3. Skipped = 0 /\ Skipped' = Len(fallback) /\ File' = File  BY <1>1, <1>2 DEF Skipped, File
<1>4. Status' = Status  BY <1>1, <1>2 DEF Status
<1>5. CASE writer = "saved"
  <2>1. Len(fallback) = 0  BY <1>5, NoChunks DEF DownloadInv, Kept
  <2> QED  BY <1>3, <1>4, <2>1
<1>6. CASE writer # "saved"
  <2>1. Status = "open" /\ File = <<>>  BY <1>2, <1>6, StatusFacts
  <2>2. Len(fallback) \in 0 .. NumChunks
    <3>1. Passed = Len(fallback)  BY <1>6 DEF Passed
    <3> QED  BY <3>1, Counts
  <2> QED  BY <1>3, <1>4, <2>1, <2>2 DEF D!OpenLate
<1> QED  BY <1>5, <1>6

LEMMA StepIsDownloadStep ==
  ASSUME DownloadInv, DownloadInv', [Next]_vars
  PROVE  [D!Next]_<<File, Skipped, Status>>
<1>1. CASE SaveChunk  BY <1>1, SaveChunkGrows DEF D!Next
<1>2. CASE FinishDownload  BY <1>2, StreamIsComplete DEF D!Next
<1>3. CASE SaveBlob  BY <1>3, BlobIsWhole DEF D!Next
<1>4. CASE OnFetch \/ RemoveIframe \/ CancelDownload \/ KillWorker
  BY <1>4, LossIsFinal DEF D!Next
<1>5. CASE OpenIframe  BY <1>5, OpenIsLate DEF D!Next
<1>6. CASE Write
  <2>1. /\ UNCHANGED <<mode, writer, download, saved, iframe, blob>>
        /\ mode # "sw" \/ UNCHANGED fallback
    BY <1>6 DEF Write, browserVars
  <2> QED  BY <2>1 DEF File, Skipped, Status
<1>7. CASE CloseStream
  <2>1. /\ UNCHANGED <<mode, fallback, download, saved, iframe, blob>>
        /\ writer # "saved" /\ writer' # "saved"
    BY <1>7 DEF CloseStream, browserVars
  <2> QED  BY <2>1 DEF File, Skipped, Status
<1>8. CASE \/ RegisterFails \/ RegisterWorker \/ PostRegister \/ FallBack
           \/ Activate \/ InstallFails \/ OnRegister \/ OnChunk \/ OnClose \/ UNCHANGED vars
  <2>1. /\ UNCHANGED <<writer, fallback, download, saved, iframe, blob>>
        /\ mode' = mode \/ mode' = "blob"
    BY <1>8 DEF RegisterFails, RegisterWorker, PostRegister, FallBack,
      Activate, InstallFails, OnRegister, OnChunk, OnClose, vars, pageVars, writerVars, browserVars
  <2>2. mode' = "sw" <=> mode = "sw"
    <3>1. CASE RegisterFails \/ FallBack
      <4>1. prep # "done" /\ mode' = "blob"  BY <3>1 DEF RegisterFails, FallBack
      <4> QED  BY <4>1 DEF DownloadInv, Preparing
    <3>2. CASE ~(RegisterFails \/ FallBack)
      BY <1>8, <3>2 DEF RegisterWorker, PostRegister,
        Activate, InstallFails, OnRegister, OnChunk, OnClose, vars, pageVars, writerVars
    <3> QED  BY <3>1, <3>2
  <2> QED  BY <2>1, <2>2 DEF File, Skipped, Status
<1> QED
  BY <1>1, <1>2, <1>3, <1>4, <1>5, <1>6, <1>7, <1>8 DEF Next, PageStep, WorkerStep, BrowserStep

(***************************************************************************)
(* The page, the worker and the browser implement Download, although the   *)
(* page may write and close at any await of prepare(): but for the chunks  *)
(* written before the stream opened, the file on disk is always a beginning*)
(* of what was sent, it is marked complete only with the last chunk, and   *)
(* what was lost is never marked complete.  A Blob is always whole.        *)
(***************************************************************************)
THEOREM StreamingIsADownload == Spec => IsADownload
<1>1. Init => D!Init  BY DEF Init, D!Init, Status, File, Skipped
<1>2. DownloadInv /\ DownloadInv' /\ [Next]_vars => [D!Next]_<<File, Skipped, Status>>
  BY StepIsDownloadStep
<1> QED  BY <1>1, <1>2, DownloadInvariant, PTL DEF Spec, IsADownload, D!Spec
=============================================================================
