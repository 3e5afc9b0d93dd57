----------------------------- MODULE PeeringProofs -----------------------------
(***************************************************************************)
(* Proofs about how two browsers come together: the pages, for any number  *)
(* of visits and choices of a file (Pages), and the negotiation of the     *)
(* peer connections, for any number of connections, candidates and calls   *)
(* of createOffer (Negotiation).                                           *)
(***************************************************************************)
EXTENDS Pages, Negotiation, FiniteSetTheorems, TLAPS

-----------------------------------------------------------------------------
(***************************************************************************)
(* The pages.                                                              *)
(*                                                                         *)
(* OneStepShown is not inductive: it takes the number of offers to know    *)
(* which step the send page shows, and the facts that no timer, event or   *)
(* connection of the sender exists while the first step is shown, for the  *)
(* timer of "peer-joined" adds a step to whatever is there.                *)
(***************************************************************************)

\* The step the send page shows follows from the offers made.
SendStepInv ==
  /\ offers = 0 => sSteps \in {{"select"}, {"share"}}
  /\ offers = 1 => sSteps \in {{"transfer"}, {"complete"}}
  /\ offers > 1 => sSteps \in {{"transfer"}, {"complete"}, {"transfer", "complete"}}

\* Nothing of the sender's signaling exists in the first step.
SelectInv ==
  /\ click = "fetching" => sSteps = {"select"}
  /\ sSteps = {"select"} =>
       /\ click \notin {"connecting", "ready"} /\ senderIn = "no"
       /\ timers = 0 /\ sEvents = <<>>

\* The step that a visit shows until it is complete.
Waiting(v) == IF offered[v] THEN "transfer" ELSE "connecting"

VisitStep(v) ==
  /\ visit[v] \in {"none", "counting"} => ~offered[v]
  /\ visit[v] = "counting" => rSteps[v] = {"interstitial"}
  /\ visit[v] \in {"connecting", "open", "failed"}
       => \/ rSteps[v] = {Waiting(v)}
          \/ offered[v] /\ rSteps[v] = {"complete"}
          \/ outrun[v] /\ rSteps[v] = {Waiting(v), "complete"}

VisitStepInv == \A v \in Visits : VisitStep(v)

\* Before the first offer nothing is announced or sent; a page takes what was
\* announced; and as long as no other file is offered there is only one.
FileInv ==
  /\ offers = 0 => announced = {} /\ sent = {}
  /\ \A v \in Visits : fileInfo[v] \in announced \cup {None}
  /\ otherFile \/ (announced \subseteq {engineFile} /\ sent \subseteq {engineFile})

PagesInv == PagesTypeOK /\ SendStepInv /\ SelectInv /\ VisitStepInv /\ FileInv

-----------------------------------------------------------------------------

LEMMA SendSideKeepsType ==
  ASSUME PagesTypeOK,
         HandleFile \/ ClickSend \/ FetchFails \/ SocketFails \/ CopyLink
           \/ SenderComplete \/ RoomCreated \/ SenderOpened \/ PeerJoined
           \/ Announcement \/ SendChunk
  PROVE  PagesTypeOK'
<1> USE PagesAssumption DEF PagesTypeOK, SendSteps, None, engineVars, visitVars, serverVars
<1>1. CASE HandleFile
  BY <1>1 DEF HandleFile
<1>2. CASE ClickSend
  BY <1>2 DEF ClickSend
<1>3. CASE FetchFails
  BY <1>3 DEF FetchFails
<1>4. CASE SocketFails
  BY <1>4 DEF SocketFails
<1>5. CASE CopyLink
  BY <1>5 DEF CopyLink
<1>6. CASE SenderComplete
  BY <1>6 DEF SenderComplete
<1>7. CASE RoomCreated
  BY <1>7 DEF RoomCreated
<1>8. CASE SenderOpened
  BY <1>8 DEF SenderOpened, SenderGets
<1>9. CASE PeerJoined
  BY <1>9 DEF PeerJoined, SenderGets
<1>10. CASE Announcement \/ SendChunk
  <2>1. engineFile \in 0 .. MaxChoices
    BY DEF PagesTypeOK
  <2>2. announced' \in SUBSET (0 .. MaxChoices) /\ sent' \in SUBSET (0 .. MaxChoices)
    BY <1>10, <2>1 DEF Announcement, SendChunk
  <2> QED BY <1>10, <2>2 DEF Announcement, SendChunk
<1> QED BY <1>1, <1>2, <1>3, <1>4, <1>5, <1>6, <1>7, <1>8, <1>9, <1>10

LEMMA VisitSideKeepsType ==
  ASSUME PagesTypeOK, NEW v \in Visits,
         LoadPage(v) \/ StartReceive(v) \/ VisitFails(v) \/ VisitOpened(v)
           \/ GetOffer(v) \/ FileInfo(v) \/ VisitComplete(v) \/ Leave(v)
  PROVE  PagesTypeOK'
<1> USE PagesAssumption DEF PagesTypeOK, ReceiveSteps, None, sendVars, engineVars, serverVars
<1>1. CASE LoadPage(v)
  BY <1>1 DEF LoadPage
<1>2. CASE StartReceive(v)
  BY <1>2 DEF StartReceive
<1>3. CASE VisitFails(v)
  BY <1>3 DEF VisitFails
<1>4. CASE VisitOpened(v)
  BY <1>4 DEF VisitOpened, ReceiverGets
<1>5. CASE GetOffer(v)
  BY <1>5 DEF GetOffer, ReceiverGets
<1>6. CASE FileInfo(v)
  BY <1>6 DEF FileInfo
<1>7. CASE VisitComplete(v)
  BY <1>7 DEF VisitComplete
<1>8. CASE Leave(v)
  BY <1>8 DEF Leave
<1> QED BY <1>1, <1>2, <1>3, <1>4, <1>5, <1>6, <1>7, <1>8

LEMMA ServerKeepsType ==
  ASSUME PagesTypeOK,
         StartTransfer \/ SenderJoins \/ LoseSender
           \/ (\E h \in Visits \cup {Sender} : Announce(h))
           \/ (\E v \in Visits : VisitJoins(v))
  PROVE  PagesTypeOK'
<1> USE PagesAssumption DEF PagesTypeOK, SendSteps, None, sendVars, engineVars, visitVars
<1>1. CASE StartTransfer
  <2>1. timers' \in Nat /\ offers' \in Nat /\ engineFile' \in 0 .. selectedFile'
        /\ otherFile' \in BOOLEAN /\ UNCHANGED <<announced, sent>>
    BY <1>1 DEF StartTransfer, OfferFile
  <2>2. sSteps' \in SUBSET SendSteps
    BY <1>1 DEF StartTransfer
  <2>3. rEvents' \in [Visits -> Seq({"open", "offer"})]
    <3>1. CASE rEvents' = rEvents
      BY <3>1
    <3>2. CASE rEvents' = [rEvents EXCEPT ![receiver] = Append(@, "offer")]
      <4>1. \A q \in Seq({"open", "offer"}) : Append(q, "offer") \in Seq({"open", "offer"})
        OBVIOUS
      <4> QED BY <3>2, <4>1
    <3> QED BY <1>1, <3>1, <3>2 DEF StartTransfer
  <2>4. UNCHANGED <<click, selectedFile, shared, sEvents, visitVars, room, receiver,
                    senderIn, announcing>>
    BY <1>1 DEF StartTransfer, serverVars
  <2> QED BY <2>1, <2>2, <2>3, <2>4
<1>2. CASE SenderJoins
  BY <1>2 DEF SenderJoins, Sender
<1>3. CASE LoseSender
  BY <1>3 DEF LoseSender
<1>4. CASE \E h \in Visits \cup {Sender} : Announce(h)
  BY <1>4 DEF Announce
<1>5. CASE \E v \in Visits : VisitJoins(v)
  BY <1>5 DEF VisitJoins
<1> QED BY <1>1, <1>2, <1>3, <1>4, <1>5
LEMMA NextKeepsType == PagesTypeOK /\ [PagesNext]_pagesVars => PagesTypeOK'
<1> SUFFICES ASSUME PagesTypeOK, [PagesNext]_pagesVars PROVE PagesTypeOK'
  OBVIOUS
<1>1. CASE UNCHANGED pagesVars
  BY <1>1 DEF PagesTypeOK, pagesVars, sendVars, engineVars, visitVars, serverVars
<1> QED
  BY <1>1, SendSideKeepsType, VisitSideKeepsType, ServerKeepsType
  DEF PagesNext, SendPage, Server, ReceivePage

-----------------------------------------------------------------------------

LEMMA NextKeepsSendSteps ==
  PagesTypeOK /\ SendStepInv /\ SelectInv /\ FileInv /\ [PagesNext]_pagesVars
    => SendStepInv' /\ SelectInv'
<1> SUFFICES ASSUME PagesTypeOK, SendStepInv, SelectInv, FileInv, [PagesNext]_pagesVars
             PROVE  SendStepInv' /\ SelectInv'
  OBVIOUS
<1> USE DEF SendStepInv, SelectInv
<1>0. timers \in Nat /\ offers \in Nat /\ sEvents \in Seq({"open", "peer-joined"})
  BY DEF PagesTypeOK
<1>1. CASE HandleFile \/ FetchFails \/ SocketFails \/ CopyLink
  <2>1. UNCHANGED <<sSteps, timers, offers, sEvents, senderIn>> /\ click' \in {click, "idle"}
    BY <1>1 DEF HandleFile, FetchFails, SocketFails, CopyLink, engineVars, serverVars
  <2> QED BY <2>1
<1>2. CASE ClickSend
  BY <1>0, <1>2 DEF ClickSend, engineVars, serverVars
<1>3. CASE Announcement \/ SendChunk \/ (SenderComplete /\ offers > 0)
  <2>1. CASE Announcement \/ SendChunk
    BY <1>0, <2>1 DEF Announcement, SendChunk, serverVars
  <2>2. CASE SenderComplete /\ offers > 0
    BY <1>0, <2>2 DEF SenderComplete, engineVars, serverVars
  <2> QED BY <1>3, <2>1, <2>2
<1>4. CASE RoomCreated
  BY <1>0, <1>4 DEF RoomCreated, engineVars
<1>5. CASE SenderOpened \/ PeerJoined
  BY <1>0, <1>5 DEF SenderOpened, PeerJoined, SenderGets, engineVars, serverVars
<1>6. CASE StartTransfer
  <2>0. timers > 0 /\ offers' = offers + 1
    BY <1>6 DEF StartTransfer, OfferFile
  <2>1. sSteps # {"select"}
    BY <2>0 DEF SelectInv
  <2>2. sSteps' = (sSteps \ {"share"}) \cup {"transfer"} /\ click' = click
    BY <1>6 DEF StartTransfer
  <2>3. CASE offers = 0
    <3>1. sSteps' = {"transfer"}
      BY <2>1, <2>2, <2>3
    <3>2. offers' = 1
      BY <2>0, <2>3
    <3> QED BY <2>2, <3>1, <3>2
  <2>4. CASE offers # 0
    BY <1>0, <2>0, <2>1, <2>2, <2>4
  <2> QED BY <2>3, <2>4
<1>7. CASE SenderJoins \/ LoseSender
  BY <1>7 DEF SenderJoins, LoseSender, sendVars, engineVars
<1>8. CASE \E h \in Visits \cup {Sender} : Announce(h)
  BY <1>8 DEF Announce, sendVars, engineVars
<1>9. CASE \E v \in Visits : LoadPage(v) \/ StartReceive(v) \/ VisitOpened(v)
             \/ GetOffer(v) \/ FileInfo(v) \/ VisitFails(v) \/ VisitComplete(v)
             \/ Leave(v) \/ VisitJoins(v)
  BY <1>9 DEF LoadPage, StartReceive, VisitOpened, GetOffer, FileInfo, VisitFails,
              VisitComplete, Leave, VisitJoins, sendVars, engineVars, serverVars
<1>10. CASE UNCHANGED pagesVars
  BY <1>10 DEF pagesVars, sendVars, engineVars, serverVars
<1>11. SenderComplete => offers > 0
  BY <1>0 DEF SenderComplete, FileInv
<1> QED
  BY <1>1, <1>2, <1>3, <1>4, <1>5, <1>6, <1>7, <1>8, <1>9, <1>10, <1>11
  DEF PagesNext, SendPage, Server, ReceivePage

LEMMA VisitKeepsVisitStep ==
  ASSUME PagesTypeOK, NEW w \in Visits, VisitStep(w), NEW v \in Visits,
         LoadPage(v) \/ StartReceive(v) \/ VisitFails(v) \/ VisitOpened(v)
           \/ GetOffer(v) \/ FileInfo(v) \/ VisitComplete(v) \/ Leave(v)
  PROVE  VisitStep(w)'
<1>0. /\ visit \in [Visits -> {"none", "counting", "connecting", "open", "failed", "gone"}]
      /\ offered \in [Visits -> BOOLEAN] /\ outrun \in [Visits -> BOOLEAN]
      /\ rSteps \in [Visits -> SUBSET ReceiveSteps]
  BY DEF PagesTypeOK
<1> USE DEF VisitStep, Waiting
<1>1. CASE LoadPage(v)
  BY <1>0, <1>1 DEF LoadPage
<1>2. CASE StartReceive(v)
  BY <1>0, <1>2 DEF StartReceive
<1>3. CASE VisitFails(v)
  BY <1>0, <1>3 DEF VisitFails
<1>4. CASE VisitOpened(v)
  BY <1>0, <1>4 DEF VisitOpened, ReceiverGets
<1>5. CASE GetOffer(v)
  BY <1>0, <1>5 DEF GetOffer, ReceiverGets
<1>6. CASE FileInfo(v)
  BY <1>6 DEF FileInfo
<1>7. CASE VisitComplete(v)
  BY <1>0, <1>7 DEF VisitComplete
<1>8. CASE Leave(v)
  BY <1>0, <1>8 DEF Leave
<1> QED BY <1>1, <1>2, <1>3, <1>4, <1>5, <1>6, <1>7, <1>8

LEMMA NextKeepsVisitSteps == PagesTypeOK /\ VisitStepInv /\ [PagesNext]_pagesVars => VisitStepInv'
<1> SUFFICES ASSUME PagesTypeOK, VisitStepInv, [PagesNext]_pagesVars, NEW w \in Visits
             PROVE  VisitStep(w)'
  BY DEF VisitStepInv
<1>1. VisitStep(w)
  BY DEF VisitStepInv
<1>2. CASE UNCHANGED visitVars
  BY <1>1, <1>2 DEF visitVars, VisitStep, Waiting
<1>3. CASE HandleFile \/ ClickSend \/ FetchFails \/ SocketFails \/ CopyLink
             \/ Announcement \/ SendChunk \/ SenderComplete \/ SendPage \/ Server
             \/ LoseSender \/ \E v \in Visits : VisitJoins(v)
  BY <1>2, <1>3
  DEF Announcement, SendChunk, HandleFile, ClickSend, FetchFails, SocketFails, CopyLink, SenderComplete,
      SendPage, RoomCreated, SenderOpened, PeerJoined, StartTransfer, Server,
      SenderJoins, Announce, LoseSender, VisitJoins
<1> QED
  BY <1>1, <1>2, <1>3, VisitKeepsVisitStep DEF PagesNext, ReceivePage, pagesVars

LEMMA NextKeepsFiles == PagesTypeOK /\ FileInv /\ [PagesNext]_pagesVars => FileInv'
<1> SUFFICES ASSUME PagesTypeOK, FileInv, [PagesNext]_pagesVars PROVE FileInv'
  OBVIOUS
<1> USE DEF FileInv
<1>0. offers \in Nat /\ fileInfo \in [Visits -> 0 .. MaxChoices]
  BY DEF PagesTypeOK
<1>1. CASE UNCHANGED <<fileInfo, engineVars>>
  BY <1>1 DEF engineVars
<1>2. CASE StartTransfer
  <2>1. /\ offers' = offers + 1 /\ engineFile' = selectedFile /\ fileInfo' = fileInfo
        /\ otherFile' = (otherFile \/ (offers > 0 /\ selectedFile # engineFile))
        /\ announced' = announced /\ sent' = sent
    BY <1>2 DEF StartTransfer, OfferFile, visitVars
  <2>2. CASE offers = 0
    BY <1>0, <2>1, <2>2
  <2>3. CASE offers > 0
    <3>1. otherFile' \/ (~ otherFile /\ engineFile' = engineFile)
      BY <2>1, <2>3
    <3>2. offers' # 0
      BY <1>0, <2>1, <2>3
    <3>3. \A v \in Visits : fileInfo'[v] \in announced' \cup {None}
      BY <2>1
    <3>4. otherFile' \/ (announced' \subseteq {engineFile'} /\ sent' \subseteq {engineFile'})
      BY <2>1, <3>1
    <3> QED BY <3>2, <3>3, <3>4
  <2> QED BY <1>0, <2>2, <2>3
<1>3. CASE Announcement
  BY <1>0, <1>3 DEF Announcement, visitVars
<1>4. CASE SendChunk
  BY <1>0, <1>4 DEF SendChunk, visitVars
<1>5. ASSUME NEW v \in Visits, FileInfo(v) PROVE FileInv'
  <2>1. PICK f \in announced : fileInfo' = [fileInfo EXCEPT ![v] = f]
    BY <1>5 DEF FileInfo
  <2>2. UNCHANGED engineVars
    BY <1>5 DEF FileInfo, sendVars
  <2> QED BY <1>0, <2>1, <2>2 DEF engineVars
<1>6. ASSUME NEW v \in Visits, Leave(v) PROVE FileInv'
  BY <1>0, <1>6 DEF Leave, sendVars, engineVars
<1>7. CASE \/ HandleFile \/ ClickSend \/ FetchFails \/ SocketFails \/ CopyLink
           \/ SenderComplete \/ RoomCreated \/ SenderOpened \/ PeerJoined
           \/ Server \/ LoseSender \/ UNCHANGED pagesVars
  BY <1>1, <1>7
  DEF HandleFile, ClickSend, FetchFails, SocketFails, CopyLink, SenderComplete,
      RoomCreated, SenderOpened, PeerJoined, Server, SenderJoins, Announce,
      LoseSender, pagesVars, sendVars, visitVars
<1>8. CASE \E v \in Visits : LoadPage(v) \/ StartReceive(v) \/ VisitOpened(v)
             \/ GetOffer(v) \/ VisitFails(v) \/ VisitComplete(v) \/ VisitJoins(v)
  BY <1>1, <1>8
  DEF LoadPage, StartReceive, VisitOpened, GetOffer, VisitFails, VisitComplete,
      VisitJoins, sendVars, visitVars
<1> QED
  BY <1>2, <1>3, <1>4, <1>5, <1>6, <1>7, <1>8 DEF PagesNext, SendPage, ReceivePage

-----------------------------------------------------------------------------

(***************************************************************************)
(* The inductive invariant of the two pages and the server between them,   *)
(* for any number of visits and of choices of a file.                      *)
(***************************************************************************)
THEOREM PagesInvariant == PagesSpec => []PagesInv
<1>1. PagesInit => PagesInv
  <2> SUFFICES ASSUME PagesInit PROVE PagesInv
    OBVIOUS
  <2>1. PagesTypeOK
    <3>1. MaxChoices \in Nat
      BY PagesAssumption
    <3>2. selectedFile \in 0 .. MaxChoices /\ engineFile \in 0 .. selectedFile
      BY <3>1 DEF PagesInit, None
    <3>3. fileInfo \in [Visits -> 0 .. MaxChoices]
      BY <3>1 DEF PagesInit, None
    <3>4. sEvents \in Seq({"open", "peer-joined"})
          /\ rEvents \in [Visits -> Seq({"open", "offer"})]
      BY DEF PagesInit
    <3> QED BY <3>2, <3>3, <3>4 DEF PagesInit, PagesTypeOK, SendSteps, ReceiveSteps
  <2>2. SendStepInv /\ SelectInv
    BY DEF PagesInit, SendStepInv, SelectInv
  <2>3. VisitStepInv
    BY DEF PagesInit, VisitStepInv, VisitStep
  <2>4. FileInv
    BY DEF PagesInit, FileInv
  <2> QED BY <2>1, <2>2, <2>3, <2>4 DEF PagesInv
<1>2. PagesInv /\ [PagesNext]_pagesVars => PagesInv'
  BY NextKeepsType, NextKeepsSendSteps, NextKeepsVisitSteps, NextKeepsFiles DEF PagesInv
<1> QED BY <1>1, <1>2, PTL DEF PagesSpec

(***************************************************************************)
(* Type correctness of the pages: no timer fires that was not set, and no  *)
(* engine has a file that the user had not chosen.                         *)
(***************************************************************************)
THEOREM PagesTypeCorrect == PagesSpec => []PagesTypeOK
<1>1. PagesInv => PagesTypeOK
  BY DEF PagesInv
<1> QED BY <1>1, PagesInvariant, PTL

(***************************************************************************)
(* A page shows one step at a time but for the two exceptions that         *)
(* OneStepShown names, however often the receive page is loaded.           *)
(***************************************************************************)
THEOREM StepsAreExclusive == PagesSpec => []OneStepShown
<1>1. PagesInv => OneStepShown
  <2> SUFFICES ASSUME PagesInv PROVE OneStepShown
    OBVIOUS
  <2>1. \/ \E s \in SendSteps : sSteps = {s}
        \/ sSteps = {"transfer", "complete"} /\ offers > 1
    <3>1. offers = 0 \/ offers = 1 \/ offers > 1
      BY DEF PagesInv, PagesTypeOK
    <3> QED BY <3>1 DEF PagesInv, SendStepInv, SendSteps
  <2>2. ASSUME NEW v \in Visits
        PROVE  \/ visit[v] \in {"none", "gone"}
               \/ \E s \in ReceiveSteps : rSteps[v] = {s}
               \/ /\ outrun[v]
                  /\ rSteps[v] = {IF offered[v] THEN "transfer" ELSE "connecting",
                                  "complete"}
    BY DEF PagesInv, PagesTypeOK, VisitStepInv, VisitStep, Waiting, ReceiveSteps
  <2> QED BY <2>1, <2>2 DEF OneStepShown
<1> QED BY <1>1, PagesInvariant, PTL

(***************************************************************************)
(* Unless createOffer runs again with another file, what a receive page    *)
(* announces is the file that the pumps read (transfer.js:269, :319, :622),*)
(* whenever its copy of the file-info was taken and whatever the user      *)
(* chooses meanwhile.                                                      *)
(***************************************************************************)
THEOREM AnnouncementIsTrue == PagesSpec => []AnnouncedFileIsSent
<1>1. PagesInv => AnnouncedFileIsSent
  BY DEF PagesInv, FileInv, AnnouncedFileIsSent
<1> QED BY <1>1, PagesInvariant, PTL

-----------------------------------------------------------------------------
(***************************************************************************)
(* The negotiation: numbers, and messages in order.                        *)
(***************************************************************************)

LEMMA Numbers ==
  /\ NumP2P \in Nat \ {0} /\ OfferCalls \in Nat \ {0} /\ CandCount \in Nat
  /\ NumP2P * OfferCalls \in Nat /\ NumP2P <= NumP2P * OfferCalls
  /\ NumP2P * OfferCalls * OfferCalls \in Nat
  /\ Indices \subseteq Nat /\ SenderPCs \subseteq Nat \ {0} /\ ReceiverPCs \subseteq Nat \ {0}
  /\ \A i \in Indices : i + 1 \in SenderPCs /\ i + 1 <= NumP2P
<1>1. NumP2P \in Nat \ {0} /\ OfferCalls \in Nat \ {0} /\ CandCount \in Nat
  BY NegotiationAssumption
<1>2. NumP2P * OfferCalls \in Nat /\ NumP2P <= NumP2P * OfferCalls  BY <1>1
<1>3. NumP2P * OfferCalls * OfferCalls \in Nat  BY <1>1, <1>2
<1> QED  BY <1>1, <1>2, <1>3 DEF Indices, SenderPCs, ReceiverPCs

\* The connections can be counted.
LEMMA Counts ==
  /\ Cardinality(SenderPCs) = NumP2P * OfferCalls
  /\ Cardinality(ReceiverPCs) = NumP2P * OfferCalls * OfferCalls
  /\ IsFiniteSet(Calls) /\ Cardinality(Calls) = OfferCalls
  /\ IsFiniteSet(Calls \X SenderPCs)
  /\ Cardinality(Calls \X SenderPCs) = NumP2P * OfferCalls * OfferCalls
<1>0. \A n \in Nat : IsFiniteSet(1 .. n) /\ Cardinality(1 .. n) = n
  BY FS_Interval
<1>1. IsFiniteSet(SenderPCs) /\ Cardinality(SenderPCs) = NumP2P * OfferCalls
  <2>1. NumP2P * OfferCalls \in Nat  BY Numbers
  <2> QED  BY ONLY <1>0, <2>1 DEF SenderPCs
<1>2. Cardinality(ReceiverPCs) = NumP2P * OfferCalls * OfferCalls
  <2>1. NumP2P * OfferCalls * OfferCalls \in Nat  BY Numbers
  <2> QED  BY ONLY <1>0, <2>1 DEF ReceiverPCs
<1>3. IsFiniteSet(Calls) /\ Cardinality(Calls) = OfferCalls
  BY <1>0, Numbers DEF Calls
<1>4. /\ IsFiniteSet(Calls \X SenderPCs)
      /\ Cardinality(Calls \X SenderPCs) = OfferCalls * (NumP2P * OfferCalls)
  BY <1>1, <1>3, FS_Product
<1>5. OfferCalls * (NumP2P * OfferCalls) = NumP2P * OfferCalls * OfferCalls  BY Numbers
<1> QED  BY <1>1, <1>2, <1>3, <1>4, <1>5

\* An index is a residue; the first NUM_P2P connections have each its own.
LEMMA IndexIsResidue ==
  /\ \A k \in Int : Index(k) \in Indices
  /\ \A k \in 1 .. NumP2P : Index(k) = k - 1
<1>1. ASSUME NEW k \in Int PROVE Index(k) \in Indices
  <2>1. \A x \in Int : x % NumP2P \in 0 .. NumP2P - 1  BY Numbers
  <2> QED  BY <2>1 DEF Index, Indices
<1>2. ASSUME NEW k \in 1 .. NumP2P PROVE Index(k) = k - 1
  <2>1. \A x \in 0 .. NumP2P - 1 : x % NumP2P = x  BY Numbers
  <2> QED  BY <2>1, Numbers DEF Index
<1> QED  BY <1>1, <1>2

Messages == [type : {"offer", "answer", "ice-candidate"}, index : Indices, pc : Nat, n : Nat]

\* A sequence has an offer at these places.
OffersIn(q) == {i \in DOMAIN q : q[i].type = "offer"}

Carries(m, cand) == m.type = "ice-candidate" /\ <<m.pc, m.n>> = cand

LEMMA MessageSent ==
  ASSUME NEW q \in Seq(Messages), NEW m \in Messages
  PROVE  LET p == Append(q, m)
         IN  /\ p \in Seq(Messages) /\ p # <<>>
             /\ DOMAIN q \subseteq DOMAIN p /\ Len(q) + 1 \in DOMAIN p /\ p[Len(q) + 1] = m
             /\ Len(q) + 1 \notin DOMAIN q
             /\ \A i \in DOMAIN q : p[i] = q[i]
             /\ \A i \in DOMAIN p : i \in DOMAIN q \/ i = Len(q) + 1
             /\ IsFiniteSet(OffersIn(q)) => IsFiniteSet(OffersIn(p))
             /\ IsFiniteSet(OffersIn(q)) =>
                  Cardinality(OffersIn(p)) =
                    Cardinality(OffersIn(q)) + (IF m.type = "offer" THEN 1 ELSE 0)
             /\ \A cand : UnderWay(q, cand) \/ Carries(m, cand) => UnderWay(p, cand)
<1> DEFINE p == Append(q, m)
           l == Len(q) + 1
<1>1. /\ p \in Seq(Messages) /\ p # <<>> /\ l \in DOMAIN p /\ p[l] = m /\ l \notin DOMAIN q
      /\ DOMAIN q \subseteq DOMAIN p
      /\ \A i \in DOMAIN q : p[i] = q[i]
      /\ \A i \in DOMAIN p : i \in DOMAIN q \/ i = l
  OBVIOUS
<1> HIDE DEF p, l
<1>2. OffersIn(p) = OffersIn(q) \cup (IF m.type = "offer" THEN {l} ELSE {})
  BY <1>1 DEF OffersIn
<1>3. l \notin OffersIn(q)  BY <1>1 DEF OffersIn
<1>4. ASSUME IsFiniteSet(OffersIn(q))
      PROVE  /\ IsFiniteSet(OffersIn(p))
             /\ Cardinality(OffersIn(p)) =
                  Cardinality(OffersIn(q)) + (IF m.type = "offer" THEN 1 ELSE 0)
  <2>1. Cardinality(OffersIn(q)) \in Nat  BY <1>4, FS_CardinalityType
  <2>2. CASE m.type = "offer"
    <3>1. OffersIn(p) = OffersIn(q) \cup {l}  BY <2>2, <1>2
    <3> QED  BY <2>2, <3>1, <1>3, <1>4, FS_AddElement
  <2>3. CASE m.type # "offer"
    <3>1. OffersIn(p) = OffersIn(q)  BY <2>3, <1>2
    <3> QED  BY <2>3, <3>1, <2>1, <1>4
  <2> QED  BY <2>2, <2>3
<1>5. ASSUME NEW cand, UnderWay(q, cand) \/ Carries(m, cand) PROVE UnderWay(p, cand)
  <2>1. CASE UnderWay(q, cand)
    <3>1. PICK i \in DOMAIN q : q[i].type = "ice-candidate" /\ <<q[i].pc, q[i].n>> = cand
      BY <2>1 DEF UnderWay
    <3>2. i \in DOMAIN p /\ p[i] = q[i]  BY <1>1
    <3> QED  BY <3>1, <3>2 DEF UnderWay
  <2>2. CASE Carries(m, cand)  BY <2>2, <1>1 DEF UnderWay, Carries
  <2> QED  BY <1>5, <2>1, <2>2
<1> QED  BY <1>1, <1>4, <1>5 DEF p, l

LEMMA MessageRead ==
  ASSUME NEW q \in Seq(Messages), q # <<>>
  PROVE  LET p == Tail(q)
             m == Head(q)
         IN  /\ p \in Seq(Messages) /\ m \in Messages /\ 1 \in DOMAIN q /\ m = q[1]
             /\ \A i \in DOMAIN p : i \in Nat \ {0} /\ i + 1 \in DOMAIN q /\ p[i] = q[i + 1]
             /\ IsFiniteSet(OffersIn(q)) =>
                  /\ IsFiniteSet(OffersIn(p))
                  /\ Cardinality(OffersIn(p)) \in Nat
                  /\ Cardinality(OffersIn(q)) =
                       Cardinality(OffersIn(p)) + (IF m.type = "offer" THEN 1 ELSE 0)
             /\ \A cand : UnderWay(q, cand) => UnderWay(p, cand) \/ Carries(m, cand)
<1> DEFINE p == Tail(q)
           m == Head(q)
<1>1. /\ p \in Seq(Messages) /\ m \in Messages /\ 1 \in DOMAIN q /\ m = q[1]
      /\ \A i \in DOMAIN p : i \in Nat \ {0} /\ i + 1 \in DOMAIN q /\ p[i] = q[i + 1]
      /\ \A i \in DOMAIN q : i = 1 \/ (i - 1 \in DOMAIN p /\ i \in Nat)
  OBVIOUS
<1> HIDE DEF p, m
<1>2. ASSUME IsFiniteSet(OffersIn(q))
      PROVE  /\ IsFiniteSet(OffersIn(p))
             /\ Cardinality(OffersIn(p)) \in Nat
             /\ Cardinality(OffersIn(q)) =
                  Cardinality(OffersIn(p)) + (IF m.type = "offer" THEN 1 ELSE 0)
  <2> DEFINE R == OffersIn(q) \ {1}
             f == [i \in R |-> i - 1]
  <2>1. /\ IsFiniteSet(R)
        /\ Cardinality(R) = IF 1 \in OffersIn(q) THEN Cardinality(OffersIn(q)) - 1
                            ELSE Cardinality(OffersIn(q))
    BY <1>2, FS_RemoveElement
  <2>2. 1 \in OffersIn(q) <=> m.type = "offer"  BY <1>1 DEF OffersIn
  <2>3. \A i \in R : i \in Nat /\ i - 1 \in OffersIn(p)
    <3>1. ASSUME NEW i \in R PROVE i \in Nat /\ i - 1 \in OffersIn(p)
      <4>1. i \in DOMAIN q /\ q[i].type = "offer" /\ i # 1  BY DEF OffersIn
      <4>2. i - 1 \in DOMAIN p /\ i \in Nat  BY <4>1, <1>1
      <4>3. p[i - 1] = q[(i - 1) + 1]  BY <4>2, <1>1
      <4>4. p[i - 1] = q[i]  BY <4>2, <4>3
      <4> QED  BY <4>1, <4>2, <4>4 DEF OffersIn
    <3> QED  BY <3>1
  <2>4. \A i \in OffersIn(p) : i \in Nat /\ i + 1 \in R
    BY <1>1 DEF OffersIn
  <2> HIDE DEF R
  <2>5. f \in Bijection(R, OffersIn(p))
    <3>1. f \in [R -> OffersIn(p)]  BY <2>3
    <3>2. \A i, j \in R : f[i] = f[j] => i = j  BY <2>3
    <3>3. \A i \in OffersIn(p) : \E j \in R : f[j] = i
      <4>1. ASSUME NEW i \in OffersIn(p) PROVE \E j \in R : f[j] = i
        <5>1. i \in Nat /\ i + 1 \in R  BY <2>4
        <5>2. f[i + 1] = i  BY <5>1
        <5> QED  BY <5>1, <5>2
      <4> QED  BY <4>1
    <3> HIDE DEF f
    <3> QED  BY <3>1, <3>2, <3>3 DEF Bijection, Injection, Surjection, IsInjective
  <2>6. ExistsBijection(R, OffersIn(p))  BY <2>5 DEF ExistsBijection
  <2>7. IsFiniteSet(OffersIn(p)) /\ Cardinality(OffersIn(p)) = Cardinality(R)
    BY <2>1, <2>6, FS_Bijection
  <2>8. Cardinality(OffersIn(p)) \in Nat /\ Cardinality(OffersIn(q)) \in Nat
    BY <1>2, <2>7, FS_CardinalityType
  <2> QED  BY <2>1, <2>2, <2>7, <2>8
<1>3. ASSUME NEW cand, UnderWay(q, cand) PROVE UnderWay(p, cand) \/ Carries(m, cand)
  <2>1. PICK i \in DOMAIN q : q[i].type = "ice-candidate" /\ <<q[i].pc, q[i].n>> = cand
    BY <1>3 DEF UnderWay
  <2>2. CASE i = 1  BY <2>1, <2>2, <1>1 DEF Carries
  <2>3. CASE i # 1
    <3>1. i - 1 \in DOMAIN p /\ i \in Nat  BY <2>3, <1>1
    <3>2. p[i - 1] = q[(i - 1) + 1]  BY <3>1, <1>1
    <3>3. p[i - 1] = q[i]  BY <3>1, <3>2
    <3> QED  BY <2>1, <3>1, <3>3 DEF UnderWay
  <2> QED  BY <2>2, <2>3
<1> QED  BY <1>1, <1>2, <1>3 DEF p, m

-----------------------------------------------------------------------------
(***************************************************************************)
(* The negotiation: the invariant.                                         *)
(*                                                                         *)
(* TypeOK and NoCandidateLost hold however often createOffer is called.    *)
(* To keep them it takes that a message names a connection that exists and *)
(* carries its index, that the offers a call can send bound the receiver's *)
(* connections, and when a connection has its remote description.          *)
(***************************************************************************)

Started    == {c \in Calls : call[c].at # "idle"}
SentOffers == {x \in Calls \X SenderPCs : x[2] < call[x[1]].pos}

FromSenderOK(m) ==
  /\ m.type \in {"offer", "ice-candidate"} /\ m.pc \in 1 .. created /\ m.index = Index(m.pc)
  /\ m.type = "ice-candidate" => m.n \in 1 .. CandCount

FromReceiverOK(m) ==
  /\ m.type \in {"answer", "ice-candidate"} /\ m.pc \in 1 .. rmade /\ m.index = IndexOf(m.pc)
  /\ m.type = "ice-candidate" => m.n \in 1 .. CandCount

MessagesOK ==
  /\ toReceiver \in Seq(Messages) /\ \A i \in DOMAIN toReceiver : FromSenderOK(toReceiver[i])
  /\ toSender \in Seq(Messages) /\ \A i \in DOMAIN toSender : FromReceiverOK(toSender[i])

OffersCounted ==
  /\ IsFiniteSet(OffersIn(toReceiver))
  /\ rmade + Cardinality(OffersIn(toReceiver)) = Cardinality(SentOffers)

SenderOK ==
  /\ created = NumP2P * Cardinality(Started)
  /\ \A c \in Calls : call[c].at = "local" => call[c].pos <= created
  /\ \A k \in SenderPCs : k > created => sconn[k].state = "stable" /\ sconn[k].remote = 0
  /\ \A k \in SenderPCs : sconn[k].remoteDescriptionSet => sconn[k].remote # 0
  /\ \A t \in answering : t.at # "remote" => sconn[t.conn].remoteDescriptionSet

ReceiverOK ==
  /\ \A r \in ReceiverPCs :
       IF r <= rmade THEN /\ rconn[r].remote \in 1 .. created /\ rconn[r].at # "idle"
                          /\ rconn[r].remoteDescriptionSet <=> rconn[r].at # "remote"
       ELSE rconn[r].at = "idle"
  /\ \A i \in Indices : rindex[i] # 0 => IndexOf(rindex[i]) = i
  /\ \A i \in Indices : \A cand \in globalIce[i] : Index(cand[1]) = i

\* The two halves of NoCandidateLost.
HeldBy(r) ==
  rconn[r].got \cup (IF rconn[r].at \in {"remote", "flush"} THEN rconn[r].pendingCandidates ELSE {})

SenderCandsKept ==
  \A k \in SenderPCs : \A n \in 1 .. semitted[k] :
    \/ UnderWay(toReceiver, <<k, n>>)
    \/ <<k, n>> \in globalIce[Index(k)]
    \/ \E r \in 1 .. rmade : <<k, n>> \in HeldBy(r)

Clearing(k) == \E t \in answering : t.conn = k /\ t.at = "clear"

ReceiverCandsKept ==
  \A r \in ReceiverPCs : \A n \in 1 .. remitted[r] :
    \/ UnderWay(toSender, <<r, n>>)
    \/ \E k \in 1 .. created :
         \/ <<r, n>> \in sconn[k].got
         \/ (<<r, n>> \in sconn[k].pendingCandidates /\ ~Clearing(k))

NegotiationInv ==
  /\ TypeOK /\ MessagesOK /\ OffersCounted /\ SenderOK /\ ReceiverOK
  /\ SenderCandsKept /\ ReceiverCandsKept

LEMMA CandidatesKept == SenderCandsKept /\ ReceiverCandsKept => NoCandidateLost
BY DEF SenderCandsKept, ReceiverCandsKept, NoCandidateLost, HeldBy, Clearing

\* What a state of the invariant says about bounds.
LEMMA Bounds ==
  ASSUME NegotiationInv
  PROVE  /\ created \in Nat /\ created <= NumP2P * OfferCalls
         /\ 1 .. created \subseteq SenderPCs /\ 1 .. rmade \subseteq ReceiverPCs
         /\ rmade \in Nat /\ rmade <= NumP2P * OfferCalls * OfferCalls
         /\ \A k \in SenderPCs : k <= created <=> k \in 1 .. created
         /\ \A r \in ReceiverPCs : r <= rmade <=> r \in 1 .. rmade
         /\ created > 0 => NumP2P <= created
         /\ rmade > 0 => created > 0
<1>1. /\ created \in Nat /\ created <= NumP2P * OfferCalls
      /\ rmade \in Nat /\ rmade <= NumP2P * OfferCalls * OfferCalls
  BY Numbers, Counts DEF NegotiationInv, TypeOK
<1>2. 1 .. created \subseteq SenderPCs /\ 1 .. rmade \subseteq ReceiverPCs
  BY <1>1, Numbers DEF SenderPCs, ReceiverPCs
<1>3. /\ \A k \in SenderPCs : k <= created <=> k \in 1 .. created
      /\ \A r \in ReceiverPCs : r <= rmade <=> r \in 1 .. rmade
  BY <1>1, Numbers
<1>4. created > 0 => NumP2P <= created
  <2>1. IsFiniteSet(Started)  BY Counts, FS_Subset DEF Started
  <2>2. Cardinality(Started) \in Nat  BY <2>1, FS_CardinalityType
  <2>3. created = NumP2P * Cardinality(Started)  BY DEF NegotiationInv, SenderOK
  <2> QED  BY <2>2, <2>3, Numbers
<1>5. rmade > 0 => created > 0
  <2>1. ASSUME rmade > 0 PROVE created > 0
    <3>1. 1 \in ReceiverPCs /\ 1 <= rmade  BY <2>1, <1>1, <1>2
    <3>2. rconn[1].remote \in 1 .. created  BY <3>1 DEF NegotiationInv, ReceiverOK
    <3> QED  BY <3>2, <1>1
  <2> QED  BY <2>1
<1> QED  BY <1>1, <1>2, <1>3, <1>4, <1>5

LEMMA NegotiationStarts == Init => NegotiationInv
<1> SUFFICES ASSUME Init PROVE NegotiationInv  OBVIOUS
<1> USE DEF Init
<1>1. TypeOK
  <2>1. NewConn \in ConnType(ReceiverPCs) /\ NewConn \in ConnType(SenderPCs)
    BY DEF NewConn, ConnType
  <2>2. 1 \in SenderPCs
    <3>1. 0 \in Indices  BY Numbers DEF Indices
    <3> QED  BY <3>1, Numbers
  <2>3. created \in 0 .. NumP2P * OfferCalls /\ rmade \in 0 .. Cardinality(ReceiverPCs)
    BY Numbers, Counts
  <2>4. call \in [Calls -> [at : {"idle", "next", "local", "done"},
                            pos : SenderPCs \cup {Cardinality(SenderPCs) + 1}]]
    BY <2>2
  <2>5. semitted \in [SenderPCs -> 0 .. CandCount] /\ remitted \in [ReceiverPCs -> 0 .. CandCount]
    BY Numbers
  <2> QED  BY <2>1, <2>3, <2>4, <2>5 DEF TypeOK
<1>2. MessagesOK  BY DEF MessagesOK
<1>3. OffersCounted
  <2>1. OffersIn(toReceiver) = {}  BY DEF OffersIn
  <2>2. SentOffers = {}
    <3>1. ASSUME NEW x \in Calls \X SenderPCs PROVE ~(x[2] < call[x[1]].pos)
      <4>1. x[1] \in Calls /\ x[2] \in Nat \ {0}  BY Numbers
      <4>2. call[x[1]].pos = 1  BY <4>1
      <4> QED  BY <4>1, <4>2
    <3> QED  BY <3>1 DEF SentOffers
  <2>3. rmade = 0 /\ IsFiniteSet({}) /\ Cardinality({}) = 0  BY FS_EmptySet
  <2> HIDE DEF Init
  <2> QED  BY <2>1, <2>2, <2>3 DEF OffersCounted
<1>4. SenderOK
  <2>1. Started = {}  BY DEF Started
  <2> QED  BY <2>1, FS_EmptySet, Numbers DEF SenderOK, NewConn
<1>5. ReceiverOK  BY Numbers DEF ReceiverOK, NewConn
<1>6. SenderCandsKept /\ ReceiverCandsKept  BY DEF SenderCandsKept, ReceiverCandsKept
<1> QED  BY <1>1, <1>2, <1>3, <1>4, <1>5, <1>6 DEF NegotiationInv

-----------------------------------------------------------------------------
(* createOffer keeps the invariant. *)

\* A call keeps its place in the loop: the offers sent are the same.
LEMMA SameOffers ==
  ASSUME OffersCounted, UNCHANGED <<rmade, toReceiver>>,
         \A c \in Calls : call'[c].pos = call[c].pos
  PROVE  OffersCounted'
<1>1. SentOffers' = SentOffers
  <2>1. \A x \in Calls \X SenderPCs : x[2] < call'[x[1]].pos <=> x[2] < call[x[1]].pos  OBVIOUS
  <2> QED  BY <2>1 DEF SentOffers
<1> QED  BY <1>1 DEF OffersCounted

\* A candidate that is under way or with the sender's end stays so.
LEMMA ReceiverCandsStay ==
  ASSUME ReceiverCandsKept, remitted' = remitted,
         1 .. created \subseteq 1 .. created',
         \A r \in ReceiverPCs : \A n \in 1 .. remitted[r] :
           UnderWay(toSender, <<r, n>>) =>
             \/ UnderWay(toSender', <<r, n>>)
             \/ \E k \in 1 .. created' :
                  \/ <<r, n>> \in sconn'[k].got
                  \/ (<<r, n>> \in sconn'[k].pendingCandidates /\ ~Clearing(k)'),
         \A k \in 1 .. created :
           /\ sconn[k].got \subseteq sconn'[k].got
           /\ ~Clearing(k) => \A cand \in sconn[k].pendingCandidates :
                \/ cand \in sconn'[k].got
                \/ (cand \in sconn'[k].pendingCandidates /\ ~Clearing(k)')
  PROVE  ReceiverCandsKept'
<1> SUFFICES ASSUME NEW r \in ReceiverPCs, NEW n \in 1 .. remitted[r]
             PROVE  \/ UnderWay(toSender', <<r, n>>)
                    \/ \E k \in 1 .. created' :
                         \/ <<r, n>> \in sconn'[k].got
                         \/ (<<r, n>> \in sconn'[k].pendingCandidates /\ ~Clearing(k)')
  BY DEF ReceiverCandsKept
<1>1. CASE UnderWay(toSender, <<r, n>>)  BY <1>1
<1>2. CASE \E k \in 1 .. created :
             \/ <<r, n>> \in sconn[k].got
             \/ (<<r, n>> \in sconn[k].pendingCandidates /\ ~Clearing(k))
  <2>1. PICK k \in 1 .. created :
          \/ <<r, n>> \in sconn[k].got
          \/ (<<r, n>> \in sconn[k].pendingCandidates /\ ~Clearing(k))
    BY <1>2
  <2>2. k \in 1 .. created'  OBVIOUS
  <2> QED  BY <2>1, <2>2
<1> QED  BY <1>1, <1>2 DEF ReceiverCandsKept

LEMMA CreateOfferKeeps ==
  ASSUME NegotiationInv, NEW c \in Calls, CreateOffer(c)  PROVE NegotiationInv'
<1> USE DEF NegotiationInv
<1>1. /\ call[c].at = "idle" /\ created' = created + NumP2P
      /\ call' = [call EXCEPT ![c].at = "next"]
      /\ UNCHANGED <<sconn, answering, rmade, rconn, rindex, globalIce, toReceiver, toSender,
                     semitted, remitted>>
  BY DEF CreateOffer, receiverVars, wireVars
<1>2. /\ call' \in [Calls -> [at : {"idle", "next", "local", "done"},
                              pos : SenderPCs \cup {Cardinality(SenderPCs) + 1}]]
      /\ call'[c].at = "next"
      /\ \A b \in Calls : call'[b].pos = call[b].pos /\ (b # c => call'[b] = call[b])
  BY <1>1 DEF TypeOK
<1>3. /\ created \in Nat /\ created' \in Nat /\ created < created'
      /\ 1 .. created \subseteq 1 .. created' /\ 1 .. created' \subseteq SenderPCs
      /\ created' = NumP2P * Cardinality(Started') /\ created' <= NumP2P * OfferCalls
  <2>1. Started' = Started \cup {c} /\ c \notin Started  BY <1>1, <1>2 DEF Started
  <2>2. Started \in SUBSET Calls /\ Started' \in SUBSET Calls  BY DEF Started
  <2>3. IsFiniteSet(Started) /\ Cardinality(Started') <= OfferCalls
    BY <2>2, Counts, FS_Subset
  <2>4. Cardinality(Started') = Cardinality(Started) + 1 /\ Cardinality(Started) \in Nat
    BY <2>1, <2>3, FS_AddElement, FS_CardinalityType
  <2>5. created \in Nat /\ created = NumP2P * Cardinality(Started)  BY Bounds DEF SenderOK
  <2>6. created' = NumP2P * Cardinality(Started')  BY <1>1, <2>4, <2>5, Numbers
  <2>7. NumP2P * Cardinality(Started') <= NumP2P * OfferCalls  BY <2>3, <2>4, Numbers
  <2> QED  BY <1>1, <2>5, <2>6, <2>7, Numbers DEF SenderPCs
<1>4. TypeOK'
  <2>1. created' \in 0 .. NumP2P * OfferCalls  BY <1>3, Numbers
  <2>2. answering' \subseteq [conn : 1 .. created', from : 1 .. rmade', at : {"remote", "flush", "clear"}]
    BY <1>1, <1>3 DEF TypeOK
  <2>3. globalIce' \in [Indices -> SUBSET Candidates(1 .. created')]
    BY <1>1, <1>3 DEF TypeOK, Candidates
  <2>4. \A k \in SenderPCs : k > created' => semitted'[k] = 0
    BY <1>1, <1>3, Numbers DEF TypeOK
  <2> QED  BY <1>1, <1>2, <2>1, <2>2, <2>3, <2>4 DEF TypeOK
<1>5. MessagesOK'
  BY <1>1, <1>3 DEF MessagesOK, FromSenderOK, FromReceiverOK, IndexOf
<1>6. OffersCounted'  BY <1>1, <1>2, SameOffers
<1>7. SenderOK'
  <2>1. \A b \in Calls : call'[b].at = "local" => call'[b].pos <= created'
    <3>1. \A b \in Calls : call[b].pos \in Nat  BY Numbers, Counts DEF TypeOK
    <3> QED  BY <1>2, <1>3, <3>1 DEF SenderOK
  <2>2. \A k \in SenderPCs : k > created' => k > created  BY <1>3, Numbers
  <2> QED  BY <1>1, <1>3, <2>1, <2>2 DEF SenderOK
<1>8. ReceiverOK'  BY <1>1, <1>3 DEF ReceiverOK, IndexOf
<1>9. SenderCandsKept'  BY <1>1 DEF SenderCandsKept, HeldBy
<1>10. ReceiverCandsKept'
  <2>1. \A k \in 1 .. created : Clearing(k)' = Clearing(k)  BY <1>1 DEF Clearing
  <2> QED  BY <1>1, <1>3, <2>1, ReceiverCandsStay
<1> QED  BY <1>4, <1>5, <1>6, <1>7, <1>8, <1>9, <1>10

LEMMA SetLocalOfferKeeps ==
  ASSUME NegotiationInv, NEW c \in Calls, SetLocalOffer(c)  PROVE NegotiationInv'
<1> USE DEF NegotiationInv
<1>1. /\ call[c].at = "next"
      /\ UNCHANGED <<created, answering, rmade, rconn, rindex, globalIce, toReceiver, toSender,
                     semitted, remitted>>
  BY DEF SetLocalOffer, receiverVars, wireVars
<1>2. /\ call' \in [Calls -> [at : {"idle", "next", "local", "done"},
                              pos : SenderPCs \cup {Cardinality(SenderPCs) + 1}]]
      /\ \A b \in Calls : /\ call'[b].pos = call[b].pos
                          /\ call'[b].at = "idle" <=> call[b].at = "idle"
                          /\ call'[b].at = "local" => call[b].at = "local" \/ call[b].pos <= created
  <2>1. /\ call \in [Calls -> [at : {"idle", "next", "local", "done"},
                               pos : SenderPCs \cup {Cardinality(SenderPCs) + 1}]]
        /\ \/ call[c].pos <= created /\ call' = [call EXCEPT ![c].at = "local"]
           \/ call' = [call EXCEPT ![c].at = "done"]
    BY DEF TypeOK, SetLocalOffer
  <2> QED  BY <1>1, <2>1
<1>3. /\ sconn' \in [SenderPCs -> ConnType(ReceiverPCs)]
      /\ \A k \in SenderPCs :
           /\ sconn'[k] = sconn[k]
                \/ (k <= created /\ sconn'[k] = [sconn[k] EXCEPT !.state = "have-local-offer"])
           /\ sconn'[k].remote = sconn[k].remote
           /\ sconn'[k].remoteDescriptionSet = sconn[k].remoteDescriptionSet
           /\ sconn'[k].got = sconn[k].got
           /\ sconn'[k].pendingCandidates = sconn[k].pendingCandidates
  <2>1. CASE sconn' = sconn  BY <2>1 DEF TypeOK, ConnType
  <2>2. CASE /\ call[c].pos <= created
             /\ sconn' = [sconn EXCEPT ![call[c].pos].state = "have-local-offer"]
    <3>1. PICK k \in SenderPCs : k = call[c].pos
      <4>1. call[c].pos \in Nat \ {0}  BY Numbers, Counts DEF TypeOK
      <4> QED  BY <4>1, <2>2, Bounds
    <3>2. \A j \in SenderPCs : sconn[j] \in ConnType(ReceiverPCs)  BY DEF TypeOK
    <3>3. [sconn[k] EXCEPT !.state = "have-local-offer"] \in ConnType(ReceiverPCs)
      BY <3>2 DEF ConnType
    <3>4. sconn' = [sconn EXCEPT ![k] = [sconn[k] EXCEPT !.state = "have-local-offer"]]
      BY <3>1, <2>2
    <3>5. sconn \in [SenderPCs -> ConnType(ReceiverPCs)]  BY DEF TypeOK
    <3> QED  BY <3>1, <3>2, <3>3, <3>4, <3>5, <2>2 DEF ConnType
  <2> QED  BY <2>1, <2>2 DEF SetLocalOffer
<1>4. TypeOK'  BY <1>1, <1>2, <1>3 DEF TypeOK
<1>5. MessagesOK'  BY <1>1 DEF MessagesOK, FromSenderOK, FromReceiverOK, IndexOf
<1>6. OffersCounted'  BY <1>1, <1>2, SameOffers
<1>7. SenderOK'
  <2>1. Started' = Started  BY <1>2 DEF Started
  <2>2. \A k \in SenderPCs : k > created => sconn'[k] = sconn[k]
    BY <1>3, Bounds, Numbers
  <2>3. \A t \in answering : t.conn \in SenderPCs  BY Bounds DEF TypeOK
  <2> QED  BY <1>1, <1>2, <1>3, <2>1, <2>2, <2>3 DEF SenderOK
<1>8. ReceiverOK'  BY <1>1 DEF ReceiverOK, IndexOf
<1>9. SenderCandsKept'  BY <1>1 DEF SenderCandsKept, HeldBy
<1>10. ReceiverCandsKept'
  <2>1. \A k \in 1 .. created : Clearing(k)' = Clearing(k)  BY <1>1 DEF Clearing
  <2> QED  BY <1>1, <1>3, <2>1, Bounds, ReceiverCandsStay
<1> QED  BY <1>4, <1>5, <1>6, <1>7, <1>8, <1>9, <1>10

LEMMA SendOfferKeeps ==
  ASSUME NegotiationInv, NEW c \in Calls, SendOffer(c)  PROVE NegotiationInv'
<1> USE DEF NegotiationInv
<1> DEFINE k == call[c].pos
           m == Message("offer", Index(k), k, 0)
<1>1. /\ call[c].at = "local" /\ toReceiver' = Append(toReceiver, m)
      /\ call' = [call EXCEPT ![c] = [at |-> "next", pos |-> @.pos + 1]]
      /\ UNCHANGED <<created, sconn, answering, rmade, rconn, rindex, globalIce, toSender,
                     semitted, remitted>>
  BY DEF SendOffer, receiverVars
<1>2. k \in 1 .. created /\ k \in SenderPCs /\ k \in Nat
  <2>1. k <= created  BY <1>1 DEF SenderOK
  <2>2. k \in Nat \ {0}  BY Numbers, Counts DEF TypeOK
  <2> QED  BY <2>1, <2>2, Bounds
<1>3. m \in Messages /\ FromSenderOK(m) /\ m.type = "offer"
  <2>1. Index(k) \in Indices  BY <1>2, IndexIsResidue
  <2> QED  BY <1>2, <2>1 DEF Messages, Message, FromSenderOK
<1>4. /\ call' \in [Calls -> [at : {"idle", "next", "local", "done"},
                              pos : SenderPCs \cup {Cardinality(SenderPCs) + 1}]]
      /\ call'[c].at = "next" /\ call'[c].pos = k + 1
      /\ \A b \in Calls : b # c => call'[b] = call[b]
  <2>1. k + 1 \in SenderPCs \cup {Cardinality(SenderPCs) + 1}
    <3>1. \A n \in Nat : k \in 1 .. n => k + 1 \in (1 .. n) \cup {n + 1}  BY ONLY <1>2
    <3>2. NumP2P * OfferCalls \in Nat  BY Numbers
    <3>3. Cardinality(SenderPCs) = NumP2P * OfferCalls  BY Counts
    <3> HIDE DEF k
    <3> QED  BY ONLY <1>2, <3>1, <3>2, <3>3 DEF SenderPCs
  <2> QED  BY <1>1, <2>1 DEF TypeOK
<1> HIDE DEF m
<1>5. toReceiver \in Seq(Messages)  BY DEF MessagesOK
<1>6. /\ toReceiver' \in Seq(Messages)
      /\ toReceiver'[Len(toReceiver) + 1] = m
      /\ \A i \in DOMAIN toReceiver : toReceiver'[i] = toReceiver[i]
      /\ \A i \in DOMAIN toReceiver' : i \in DOMAIN toReceiver \/ i = Len(toReceiver) + 1
      /\ IsFiniteSet(OffersIn(toReceiver)) =>
           /\ IsFiniteSet(OffersIn(toReceiver'))
           /\ Cardinality(OffersIn(toReceiver')) = Cardinality(OffersIn(toReceiver)) + 1
      /\ \A cand : UnderWay(toReceiver, cand) => UnderWay(toReceiver', cand)
  BY <1>1, <1>3, <1>5, MessageSent
<1>7. TypeOK'  BY <1>1, <1>4 DEF TypeOK
<1>8. MessagesOK'
  BY <1>1, <1>3, <1>6 DEF MessagesOK, FromSenderOK, FromReceiverOK, IndexOf
<1>9. OffersCounted'
  <2>1. SentOffers \in SUBSET (Calls \X SenderPCs)  BY DEF SentOffers
  <2>2. IsFiniteSet(SentOffers)  BY <2>1, Counts, FS_Subset
  <2>3. SentOffers' = SentOffers \cup {<<c, k>>}
    <3>1. \A x \in Calls \X SenderPCs : x[1] \in Calls /\ x[2] \in Nat  BY Numbers
    <3>2. \A x \in Calls \X SenderPCs :
            x[2] < call'[x[1]].pos <=> x[2] < call[x[1]].pos \/ x = <<c, k>>
      BY <3>1, <1>2, <1>4
    <3>3. <<c, k>> \in Calls \X SenderPCs  BY <1>2
    <3> QED  BY <3>2, <3>3 DEF SentOffers
  <2>4. <<c, k>> \notin SentOffers  BY <1>2 DEF SentOffers
  <2>5. Cardinality(SentOffers') = Cardinality(SentOffers) + 1  BY <2>2, <2>3, <2>4, FS_AddElement
  <2>6. Cardinality(OffersIn(toReceiver)) \in Nat  BY FS_CardinalityType DEF OffersCounted
  <2> QED  BY <1>1, <1>6, <2>5, <2>6, Bounds DEF OffersCounted
<1>10. SenderOK'
  <2>1. Started' = Started  BY <1>1, <1>4 DEF Started
  <2> QED  BY <1>1, <1>4, <2>1 DEF SenderOK
<1>11. ReceiverOK'  BY <1>1 DEF ReceiverOK, IndexOf
<1>12. SenderCandsKept'  BY <1>1, <1>6 DEF SenderCandsKept, HeldBy
<1>13. ReceiverCandsKept'
  <2>1. \A j \in 1 .. created : Clearing(j)' = Clearing(j)  BY <1>1 DEF Clearing
  <2> QED  BY <1>1, <2>1, ReceiverCandsStay
<1> QED  BY <1>7, <1>8, <1>9, <1>10, <1>11, <1>12, <1>13

-----------------------------------------------------------------------------
(* The receiver's handlers keep the invariant. *)

\* A candidate that is under way, in the global list or with the receiver's end
\* stays so.
LEMMA SenderCandsStay ==
  ASSUME SenderCandsKept, semitted' = semitted,
         1 .. rmade \subseteq 1 .. rmade',
         \A r \in 1 .. rmade : HeldBy(r) \subseteq HeldBy(r)',
         \A k \in SenderPCs : \A n \in 1 .. semitted[k] :
           UnderWay(toReceiver, <<k, n>>) \/ <<k, n>> \in globalIce[Index(k)] =>
             \/ UnderWay(toReceiver', <<k, n>>)
             \/ <<k, n>> \in globalIce'[Index(k)]
             \/ \E r \in 1 .. rmade' : <<k, n>> \in HeldBy(r)'
  PROVE  SenderCandsKept'
<1> SUFFICES ASSUME NEW k \in SenderPCs, NEW n \in 1 .. semitted[k]
             PROVE  \/ UnderWay(toReceiver', <<k, n>>)
                    \/ <<k, n>> \in globalIce'[Index(k)]
                    \/ \E r \in 1 .. rmade' : <<k, n>> \in HeldBy(r)'
  BY DEF SenderCandsKept
<1>1. CASE UnderWay(toReceiver, <<k, n>>) \/ <<k, n>> \in globalIce[Index(k)]  BY <1>1
<1>2. CASE \E r \in 1 .. rmade : <<k, n>> \in HeldBy(r)
  <2>1. PICK r \in 1 .. rmade : <<k, n>> \in HeldBy(r)  BY <1>2
  <2>2. r \in 1 .. rmade' /\ <<k, n>> \in HeldBy(r)'  BY <2>1
  <2> QED  BY <2>2
<1> QED  BY <1>1, <1>2 DEF SenderCandsKept

\* The next message from the sender.
LEMMA NextFromSender ==
  ASSUME NegotiationInv, toReceiver # <<>>, toReceiver' = Tail(toReceiver)
  PROVE  /\ Head(toReceiver) \in Messages /\ FromSenderOK(Head(toReceiver))
         /\ toReceiver' \in Seq(Messages)
         /\ \A i \in DOMAIN toReceiver' : FromSenderOK(toReceiver'[i])
         /\ IsFiniteSet(OffersIn(toReceiver'))
         /\ Cardinality(OffersIn(toReceiver')) \in Nat
         /\ Cardinality(OffersIn(toReceiver)) = Cardinality(OffersIn(toReceiver'))
                                    + (IF Head(toReceiver).type = "offer" THEN 1 ELSE 0)
         /\ \A cand : UnderWay(toReceiver, cand) =>
                        UnderWay(toReceiver', cand) \/ Carries(Head(toReceiver), cand)
<1>1. toReceiver \in Seq(Messages) /\ \A i \in DOMAIN toReceiver : FromSenderOK(toReceiver[i])
  BY DEF NegotiationInv, MessagesOK
<1>2. IsFiniteSet(OffersIn(toReceiver))  BY DEF NegotiationInv, OffersCounted
<1>3. \A i \in DOMAIN toReceiver' : i + 1 \in DOMAIN toReceiver /\ toReceiver'[i] = toReceiver[i + 1]
  BY <1>1, MessageRead
<1>4. \A i \in DOMAIN toReceiver' : FromSenderOK(toReceiver'[i])  BY <1>1, <1>3
<1>5. FromSenderOK(Head(toReceiver))
  <2>1. 1 \in DOMAIN toReceiver /\ Head(toReceiver) = toReceiver[1]  BY <1>1, MessageRead
  <2> QED  BY <1>1, <2>1
<1> QED  BY <1>1, <1>2, <1>4, <1>5, MessageRead

LEMMA HandleOfferKeeps ==
  ASSUME NegotiationInv, HandleOffer  PROVE NegotiationInv'
<1> USE DEF NegotiationInv
<1> DEFINE m == Head(toReceiver)
           new == [NewConn EXCEPT !.at = "remote", !.remote = m.pc]
<1>1. /\ toReceiver # <<>> /\ m.type = "offer" /\ toReceiver' = Tail(toReceiver)
      /\ rmade' = rmade + 1
      /\ rindex' = [rindex EXCEPT ![m.index] = rmade + 1]
      /\ rconn' = [rconn EXCEPT ![rmade + 1] = new]
      /\ UNCHANGED <<created, call, sconn, answering, globalIce, toSender, semitted, remitted>>
  BY DEF HandleOffer, FromSender, senderVars
<1>2. /\ m \in Messages /\ m.pc \in 1 .. created /\ m.index = Index(m.pc) /\ m.index \in Indices
      /\ toReceiver' \in Seq(Messages)
      /\ \A i \in DOMAIN toReceiver' : FromSenderOK(toReceiver'[i])
      /\ IsFiniteSet(OffersIn(toReceiver')) /\ Cardinality(OffersIn(toReceiver')) \in Nat
      /\ Cardinality(OffersIn(toReceiver)) = Cardinality(OffersIn(toReceiver')) + 1
      /\ \A cand : UnderWay(toReceiver, cand) => UnderWay(toReceiver', cand)
  BY <1>1, NextFromSender DEF FromSenderOK, Carries, Messages
<1>3. rmade + 1 \in ReceiverPCs /\ rmade \in Nat /\ 1 .. rmade \subseteq 1 .. rmade + 1
  <2>1. SentOffers \in SUBSET (Calls \X SenderPCs)  BY DEF SentOffers
  <2>2. Cardinality(SentOffers) <= NumP2P * OfferCalls * OfferCalls  BY <2>1, Counts, FS_Subset
  <2>3. rmade + Cardinality(OffersIn(toReceiver')) + 1 = Cardinality(SentOffers) /\ rmade \in Nat
    BY <1>2, Bounds DEF OffersCounted
  <2>4. rmade + 1 <= NumP2P * OfferCalls * OfferCalls  BY <1>2, <2>2, <2>3, Numbers
  <2> QED  BY <2>3, <2>4, Numbers DEF ReceiverPCs
<1>4. /\ new \in ConnType(SenderPCs) /\ new.remote = m.pc /\ new.at = "remote"
      /\ new.remoteDescriptionSet = FALSE
  <2>1. m.pc \in SenderPCs  BY <1>2, Bounds
  <2> QED  BY <2>1 DEF NewConn, ConnType
<1> HIDE DEF new
<1>5. /\ rconn' \in [ReceiverPCs -> ConnType(SenderPCs)] /\ rconn'[rmade + 1] = new
      /\ \A r \in ReceiverPCs : r # rmade + 1 => rconn'[r] = rconn[r]
  BY <1>1, <1>3, <1>4 DEF TypeOK
<1>6. /\ rindex' \in [Indices -> 0 .. rmade'] /\ rindex'[m.index] = rmade + 1
      /\ \A i \in Indices : i # m.index => rindex'[i] = rindex[i] /\ rindex[i] # rmade + 1
      /\ \A i \in Indices : rindex'[i] # 0 => rindex'[i] \in ReceiverPCs
  <2>1. \A i \in Indices : rindex[i] \in 0 .. rmade  BY DEF TypeOK
  <2>2. rindex' \in [Indices -> 0 .. rmade']  BY <1>1, <1>2, <1>3, <2>1 DEF TypeOK
  <2>3. rindex'[m.index] = rmade + 1 /\ \A i \in Indices : i # m.index => rindex'[i] = rindex[i]
    BY <1>1, <1>2 DEF TypeOK
  <2>4. \A i \in Indices : rindex[i] # rmade + 1  BY <1>3, <2>1
  <2>5. \A i \in Indices : rindex'[i] # 0 => rindex'[i] \in ReceiverPCs
    <3> SUFFICES ASSUME NEW i \in Indices, rindex'[i] # 0  PROVE rindex'[i] \in ReceiverPCs
      OBVIOUS
    <3>1. CASE i = m.index  BY <3>1, <1>3, <2>3
    <3>2. CASE i # m.index
      <4>1. rindex'[i] \in 1 .. rmade  BY <3>2, <1>3, <2>1, <2>3
      <4> QED  BY <4>1, Bounds
    <3> QED  BY <3>1, <3>2
  <2> QED  BY <2>2, <2>3, <2>4, <2>5
<1>7. TypeOK'
  <2>1. rmade' \in 0 .. Cardinality(ReceiverPCs)  BY <1>1, <1>3, Counts, Numbers DEF ReceiverPCs
  <2>2. answering' \subseteq [conn : 1 .. created', from : 1 .. rmade', at : {"remote", "flush", "clear"}]
    BY <1>1, <1>3 DEF TypeOK
  <2>3. \A r \in ReceiverPCs : r > rmade' => remitted'[r] = 0
    BY <1>1, <1>3, Numbers DEF TypeOK
  <2>4. \A i \in Indices :
          rindex'[i] # 0 /\ globalIce'[i] # {} => rconn'[rindex'[i]].at \in {"remote", "flush"}
    BY <1>1, <1>4, <1>5, <1>6 DEF TypeOK
  <2> QED  BY <1>1, <1>5, <1>6, <2>1, <2>2, <2>3, <2>4 DEF TypeOK
<1>8. MessagesOK'
  <2>1. \A r \in 1 .. rmade : IndexOf(r)' = IndexOf(r) /\ r \in 1 .. rmade'
    <3>1. \A r \in 1 .. rmade : r \in ReceiverPCs /\ r # rmade + 1  BY <1>3, Bounds
    <3> QED  BY <1>1, <1>3, <1>5, <3>1 DEF IndexOf
  <2>2. \A i \in DOMAIN toSender' : FromReceiverOK(toSender[i])'
    BY <1>1, <2>1 DEF MessagesOK, FromReceiverOK
  <2>3. \A i \in DOMAIN toReceiver' : FromSenderOK(toReceiver[i])'
    BY <1>1, <1>2 DEF FromSenderOK
  <2> QED  BY <1>1, <1>2, <2>2, <2>3 DEF MessagesOK
<1>9. OffersCounted'
  <2>1. SentOffers' = SentOffers  BY <1>1 DEF SentOffers
  <2> QED  BY <1>1, <1>2, <1>3, <2>1 DEF OffersCounted
<1>10. SenderOK'
  <2>1. Started' = Started  BY <1>1 DEF Started
  <2> QED  BY <1>1, <2>1 DEF SenderOK
<1>11. ReceiverOK'
  <2>1. \A r \in ReceiverPCs :
          IF r <= rmade' THEN /\ rconn'[r].remote \in 1 .. created' /\ rconn'[r].at # "idle"
                              /\ rconn'[r].remoteDescriptionSet <=> rconn'[r].at # "remote"
          ELSE rconn'[r].at = "idle"
    <3>1. ASSUME NEW r \in ReceiverPCs, r # rmade + 1
          PROVE  rconn'[r] = rconn[r] /\ (r <= rmade' <=> r <= rmade)
      BY <3>1, <1>1, <1>3, <1>5, Numbers
    <3>2. rmade + 1 <= rmade'  BY <1>1, <1>3
    <3> QED  BY <1>1, <1>2, <1>4, <1>5, <3>1, <3>2 DEF ReceiverOK
  <2>2. \A i \in Indices : rindex'[i] # 0 => Index(rconn'[rindex'[i]].remote) = i
    BY <1>1, <1>2, <1>4, <1>5, <1>6 DEF ReceiverOK, IndexOf
  <2> QED  BY <1>1, <2>1, <2>2 DEF ReceiverOK, IndexOf
<1>12. SenderCandsKept'
  <2>1. \A r \in 1 .. rmade : HeldBy(r)' = HeldBy(r)
    <3>1. \A r \in 1 .. rmade : r \in ReceiverPCs /\ r # rmade + 1  BY <1>3, Bounds
    <3> QED  BY <1>5, <3>1 DEF HeldBy
  <2> QED  BY <1>1, <1>2, <1>3, <2>1, SenderCandsStay
<1>13. ReceiverCandsKept'
  <2>1. \A k \in 1 .. created : Clearing(k)' = Clearing(k)  BY <1>1 DEF Clearing
  <2> QED  BY <1>1, <2>1, ReceiverCandsStay
<1> QED  BY <1>7, <1>8, <1>9, <1>10, <1>11, <1>12, <1>13

\* A connection of the receiver changes, but not the one it talks to.
LEMMA OneEndChanges ==
  ASSUME NegotiationInv, NEW r \in ReceiverPCs, rconn[r].at # "idle",
         NEW x \in ConnType(SenderPCs), x.remote = rconn[r].remote, x.at # "idle",
         x.remoteDescriptionSet <=> x.at # "remote",
         rconn' = [rconn EXCEPT ![r] = x], UNCHANGED <<created, rmade, rindex>>
  PROVE  /\ r \in 1 .. rmade
         /\ rconn' \in [ReceiverPCs -> ConnType(SenderPCs)] /\ rconn'[r] = x
         /\ \A q \in ReceiverPCs \ {r} : rconn'[q] = rconn[q] /\ HeldBy(q)' = HeldBy(q)
         /\ \A q \in ReceiverPCs : IndexOf(q)' = IndexOf(q)
         /\ \A q \in ReceiverPCs :
              IF q <= rmade' THEN /\ rconn'[q].remote \in 1 .. created' /\ rconn'[q].at # "idle"
                                  /\ rconn'[q].remoteDescriptionSet <=> rconn'[q].at # "remote"
              ELSE rconn'[q].at = "idle"
         /\ \A i \in Indices : rindex[i] # 0 =>
              rindex[i] \in ReceiverPCs /\ IndexOf(rindex[i])' = i
<1> USE DEF NegotiationInv
<1>1. r <= rmade /\ r \in 1 .. rmade  BY Bounds DEF ReceiverOK
<1>2. /\ rconn' \in [ReceiverPCs -> ConnType(SenderPCs)] /\ rconn'[r] = x
      /\ \A q \in ReceiverPCs \ {r} : rconn'[q] = rconn[q]
  BY DEF TypeOK
<1>3. \A q \in ReceiverPCs \ {r} : HeldBy(q)' = HeldBy(q)  BY <1>2 DEF HeldBy
<1>4. \A q \in ReceiverPCs : IndexOf(q)' = IndexOf(q)  BY <1>2 DEF IndexOf
<1>5. \A q \in ReceiverPCs :
        IF q <= rmade' THEN /\ rconn'[q].remote \in 1 .. created' /\ rconn'[q].at # "idle"
                            /\ rconn'[q].remoteDescriptionSet <=> rconn'[q].at # "remote"
        ELSE rconn'[q].at = "idle"
  BY <1>1, <1>2 DEF ReceiverOK
<1>6. \A i \in Indices : rindex[i] # 0 => rindex[i] \in ReceiverPCs
  BY Bounds DEF TypeOK
<1>7. \A i \in Indices : rindex[i] # 0 => IndexOf(rindex[i])' = i
  BY <1>4, <1>6 DEF ReceiverOK
<1> QED  BY <1>1, <1>2, <1>3, <1>4, <1>5, <1>6, <1>7

\* What a handler that changes neither the sender nor the messages leaves.
LEMMA SenderUntouched ==
  ASSUME NegotiationInv,
         UNCHANGED <<created, call, sconn, answering, rmade, toReceiver, remitted, semitted>>,
         \A r \in ReceiverPCs : IndexOf(r)' = IndexOf(r)
  PROVE  /\ OffersCounted' /\ SenderOK'
         /\ toSender' = toSender => MessagesOK' /\ ReceiverCandsKept'
<1> USE DEF NegotiationInv
<1>1. OffersCounted'  BY SameOffers
<1>2. SenderOK'
  <2>1. Started' = Started  BY DEF Started
  <2> QED  BY <2>1 DEF SenderOK
<1>3. ASSUME toSender' = toSender PROVE MessagesOK'
  <2>1. \A i \in DOMAIN toSender : FromReceiverOK(toSender[i])'
    BY <1>3, Bounds DEF MessagesOK, FromReceiverOK
  <2>2. \A i \in DOMAIN toReceiver : FromSenderOK(toReceiver[i])'
    BY DEF MessagesOK, FromSenderOK
  <2> QED  BY <1>3, <2>1, <2>2 DEF MessagesOK
<1>4. ASSUME toSender' = toSender PROVE ReceiverCandsKept'
  <2>1. \A k \in 1 .. created : Clearing(k)' = Clearing(k)  BY DEF Clearing
  <2> QED  BY <1>4, <2>1, ReceiverCandsStay
<1> QED  BY <1>1, <1>2, <1>3, <1>4

LEMMA RemoteOfferSetKeeps ==
  ASSUME NegotiationInv, NEW r \in ReceiverPCs, RemoteOfferSet(r)  PROVE NegotiationInv'
<1> USE DEF NegotiationInv
<1> DEFINE x == [rconn[r] EXCEPT !.remoteDescriptionSet = TRUE, !.at = "flush"]
<1>1. /\ rconn[r].at = "remote" /\ rconn' = [rconn EXCEPT ![r] = x]
      /\ UNCHANGED <<created, call, sconn, answering, rmade, rindex, globalIce, toReceiver,
                     toSender, semitted, remitted>>
  BY DEF RemoteOfferSet, senderVars, wireVars
<1>2. /\ x \in ConnType(SenderPCs) /\ x.remote = rconn[r].remote /\ x.at = "flush"
      /\ x.remoteDescriptionSet = TRUE /\ x.got = rconn[r].got
      /\ x.pendingCandidates = rconn[r].pendingCandidates
  <2>1. rconn[r] \in ConnType(SenderPCs)  BY DEF TypeOK
  <2> QED  BY <2>1 DEF ConnType
<1> HIDE DEF x
<1>3. /\ r \in 1 .. rmade
      /\ rconn' \in [ReceiverPCs -> ConnType(SenderPCs)] /\ rconn'[r] = x
      /\ \A q \in ReceiverPCs \ {r} : rconn'[q] = rconn[q] /\ HeldBy(q)' = HeldBy(q)
      /\ \A q \in ReceiverPCs : IndexOf(q)' = IndexOf(q)
      /\ \A q \in ReceiverPCs :
           IF q <= rmade' THEN /\ rconn'[q].remote \in 1 .. created' /\ rconn'[q].at # "idle"
                               /\ rconn'[q].remoteDescriptionSet <=> rconn'[q].at # "remote"
           ELSE rconn'[q].at = "idle"
      /\ \A i \in Indices : rindex[i] # 0 =>
           rindex[i] \in ReceiverPCs /\ IndexOf(rindex[i])' = i
  BY <1>1, <1>2, OneEndChanges
<1>4. TypeOK'
  <2>1. \A i \in Indices :
          rindex'[i] # 0 /\ globalIce'[i] # {} => rconn'[rindex'[i]].at \in {"remote", "flush"}
    BY <1>1, <1>2, <1>3 DEF TypeOK
  <2> QED  BY <1>1, <1>3, <2>1 DEF TypeOK
<1>5. MessagesOK' /\ OffersCounted' /\ SenderOK' /\ ReceiverCandsKept'
  BY <1>1, <1>3, SenderUntouched
<1>6. ReceiverOK'  BY <1>1, <1>3 DEF ReceiverOK
<1>7. SenderCandsKept'
  <2>1. HeldBy(r)' = HeldBy(r)  BY <1>1, <1>2, <1>3 DEF HeldBy
  <2>2. \A q \in 1 .. rmade : HeldBy(q)' = HeldBy(q)  BY <2>1, <1>3, Bounds
  <2> QED  BY <1>1, <2>2, SenderCandsStay
<1> QED  BY <1>4, <1>5, <1>6, <1>7

LEMMA FlushOfferedKeeps ==
  ASSUME NegotiationInv, NEW r \in ReceiverPCs, FlushOffered(r)  PROVE NegotiationInv'
<1> USE DEF NegotiationInv
<1> DEFINE x == [rconn[r] EXCEPT !.got = @ \cup globalIce[IndexOf(r)] \cup rconn[r].pendingCandidates,
                                 !.at = "clear"]
<1>1. /\ rconn[r].at = "flush" /\ rconn' = [rconn EXCEPT ![r] = x]
      /\ globalIce' = [globalIce EXCEPT ![IndexOf(r)] = {}]
      /\ UNCHANGED <<created, call, sconn, answering, rmade, rindex, toReceiver, toSender,
                     semitted, remitted>>
  BY DEF FlushOffered, senderVars, wireVars
<1>2. rconn[r] \in ConnType(SenderPCs) /\ r <= rmade /\ rconn[r].remote \in 1 .. created
      /\ rconn[r].remoteDescriptionSet = TRUE
  <2>1. rconn[r] \in ConnType(SenderPCs)  BY DEF TypeOK
  <2>2. r <= rmade /\ rconn[r].remote \in 1 .. created
        /\ (rconn[r].remoteDescriptionSet <=> rconn[r].at # "remote")
    BY <1>1 DEF ReceiverOK
  <2>3. rconn[r].remoteDescriptionSet \in BOOLEAN  BY <2>1 DEF ConnType
  <2> QED  BY <1>1, <2>1, <2>2, <2>3
<1>3. IndexOf(r) \in Indices  BY <1>2, IndexIsResidue DEF IndexOf
<1>4. /\ x \in ConnType(SenderPCs) /\ x.remote = rconn[r].remote /\ x.at = "clear"
      /\ x.remoteDescriptionSet = TRUE
      /\ x.got = rconn[r].got \cup globalIce[IndexOf(r)] \cup rconn[r].pendingCandidates
  <2>1. globalIce[IndexOf(r)] \subseteq Candidates(SenderPCs)
    BY <1>3, Bounds DEF TypeOK, Candidates
  <2> QED  BY <1>2, <2>1 DEF ConnType
<1> HIDE DEF x
<1>5. /\ r \in 1 .. rmade
      /\ rconn' \in [ReceiverPCs -> ConnType(SenderPCs)] /\ rconn'[r] = x
      /\ \A q \in ReceiverPCs \ {r} : rconn'[q] = rconn[q] /\ HeldBy(q)' = HeldBy(q)
      /\ \A q \in ReceiverPCs : IndexOf(q)' = IndexOf(q)
      /\ \A q \in ReceiverPCs :
           IF q <= rmade' THEN /\ rconn'[q].remote \in 1 .. created' /\ rconn'[q].at # "idle"
                               /\ rconn'[q].remoteDescriptionSet <=> rconn'[q].at # "remote"
           ELSE rconn'[q].at = "idle"
      /\ \A i \in Indices : rindex[i] # 0 =>
           rindex[i] \in ReceiverPCs /\ IndexOf(rindex[i])' = i
  BY <1>1, <1>4, OneEndChanges
<1>6. /\ globalIce' \in [Indices -> SUBSET Candidates(1 .. created)]
      /\ globalIce'[IndexOf(r)] = {}
      /\ \A i \in Indices \ {IndexOf(r)} : globalIce'[i] = globalIce[i]
  BY <1>1, <1>3 DEF TypeOK
<1>7. TypeOK'
  <2>1. ASSUME NEW i \in Indices, rindex'[i] # 0, globalIce'[i] # {}
        PROVE  rconn'[rindex'[i]].at \in {"remote", "flush"}
    <3>1. i # IndexOf(r)  BY <2>1, <1>6
    <3>2. rindex[i] # r
      <4>1. rindex[i] # 0 /\ IndexOf(rindex[i]) = i  BY <2>1, <1>1 DEF ReceiverOK
      <4> QED  BY <4>1, <3>1
    <3> QED  BY <2>1, <3>1, <3>2, <1>1, <1>5, <1>6 DEF TypeOK
  <2> QED  BY <1>1, <1>5, <1>6, <2>1 DEF TypeOK
<1>8. MessagesOK' /\ OffersCounted' /\ SenderOK' /\ ReceiverCandsKept'
  BY <1>1, <1>5, SenderUntouched
<1>9. ReceiverOK'
  <2>1. \A i \in Indices : \A cand \in globalIce'[i] : Index(cand[1]) = i
    BY <1>6 DEF ReceiverOK
  <2> QED  BY <1>1, <1>5, <2>1 DEF ReceiverOK
<1>10. SenderCandsKept'
  <2>1. HeldBy(r)' = HeldBy(r) \cup globalIce[IndexOf(r)]
    BY <1>1, <1>4, <1>5 DEF HeldBy
  <2>2. \A q \in 1 .. rmade : HeldBy(q) \subseteq HeldBy(q)'  BY <2>1, <1>5, Bounds
  <2>3. ASSUME NEW k \in SenderPCs, NEW n \in 1 .. semitted[k], <<k, n>> \in globalIce[Index(k)]
        PROVE  <<k, n>> \in globalIce'[Index(k)] \/ \E q \in 1 .. rmade' : <<k, n>> \in HeldBy(q)'
    <3>1. Index(k) \in Indices  BY Numbers, IndexIsResidue
    <3>2. CASE Index(k) = IndexOf(r)  BY <2>1, <2>3, <3>2, <1>1, <1>5
    <3>3. CASE Index(k) # IndexOf(r)  BY <2>3, <3>1, <3>3, <1>6
    <3> QED  BY <3>2, <3>3
  <2> QED  BY <1>1, <2>2, <2>3, SenderCandsStay
<1> QED  BY <1>7, <1>8, <1>9, <1>10

LEMMA SetLocalAnswerKeeps ==
  ASSUME NegotiationInv, NEW r \in ReceiverPCs, SetLocalAnswer(r)  PROVE NegotiationInv'
<1> USE DEF NegotiationInv
<1> DEFINE x == [rconn[r] EXCEPT !.pendingCandidates = {}, !.at = "local"]
<1>1. /\ rconn[r].at = "clear" /\ rconn' = [rconn EXCEPT ![r] = x]
      /\ UNCHANGED <<created, call, sconn, answering, rmade, rindex, globalIce, toReceiver,
                     toSender, semitted, remitted>>
  BY DEF SetLocalAnswer, senderVars, wireVars
<1>2. /\ x \in ConnType(SenderPCs) /\ x.remote = rconn[r].remote /\ x.at = "local"
      /\ x.remoteDescriptionSet = rconn[r].remoteDescriptionSet /\ x.got = rconn[r].got
      /\ rconn[r].remoteDescriptionSet
  <2>1. rconn[r] \in ConnType(SenderPCs)  BY DEF TypeOK
  <2>2. rconn[r].remoteDescriptionSet  BY <1>1 DEF ReceiverOK
  <2> QED  BY <2>1, <2>2 DEF ConnType
<1> HIDE DEF x
<1>3. /\ r \in 1 .. rmade
      /\ rconn' \in [ReceiverPCs -> ConnType(SenderPCs)] /\ rconn'[r] = x
      /\ \A q \in ReceiverPCs \ {r} : rconn'[q] = rconn[q] /\ HeldBy(q)' = HeldBy(q)
      /\ \A q \in ReceiverPCs : IndexOf(q)' = IndexOf(q)
      /\ \A q \in ReceiverPCs :
           IF q <= rmade' THEN /\ rconn'[q].remote \in 1 .. created' /\ rconn'[q].at # "idle"
                               /\ rconn'[q].remoteDescriptionSet <=> rconn'[q].at # "remote"
           ELSE rconn'[q].at = "idle"
      /\ \A i \in Indices : rindex[i] # 0 =>
           rindex[i] \in ReceiverPCs /\ IndexOf(rindex[i])' = i
  BY <1>1, <1>2, OneEndChanges
<1>4. TypeOK'
  <2>1. \A i \in Indices :
          rindex'[i] # 0 /\ globalIce'[i] # {} => rconn'[rindex'[i]].at \in {"remote", "flush"}
    BY <1>1, <1>2, <1>3 DEF TypeOK
  <2> QED  BY <1>1, <1>3, <2>1 DEF TypeOK
<1>5. MessagesOK' /\ OffersCounted' /\ SenderOK' /\ ReceiverCandsKept'
  BY <1>1, <1>3, SenderUntouched
<1>6. ReceiverOK'  BY <1>1, <1>3 DEF ReceiverOK
<1>7. SenderCandsKept'
  <2>1. HeldBy(r)' = HeldBy(r)  BY <1>1, <1>2, <1>3 DEF HeldBy
  <2>2. \A q \in 1 .. rmade : HeldBy(q)' = HeldBy(q)  BY <2>1, <1>3, Bounds
  <2> QED  BY <1>1, <2>2, SenderCandsStay
<1> QED  BY <1>4, <1>5, <1>6, <1>7

\* A message from the receiver is sent.
LEMMA ReceiverSends ==
  ASSUME NegotiationInv, NEW m \in Messages, toSender' = Append(toSender, m),
         FromReceiverOK(m), UNCHANGED <<rmade, created, toReceiver>>,
         \A r \in ReceiverPCs : IndexOf(r)' = IndexOf(r)
  PROVE  /\ MessagesOK'
         /\ \A cand : UnderWay(toSender, cand) \/ Carries(m, cand) => UnderWay(toSender', cand)
<1> USE DEF NegotiationInv
<1>1. toSender \in Seq(Messages) /\ \A i \in DOMAIN toSender : FromReceiverOK(toSender[i])
  BY DEF MessagesOK
<1>2. /\ toSender' \in Seq(Messages) /\ toSender'[Len(toSender) + 1] = m
      /\ \A i \in DOMAIN toSender : toSender'[i] = toSender[i]
      /\ \A i \in DOMAIN toSender' : i \in DOMAIN toSender \/ i = Len(toSender) + 1
      /\ \A cand : UnderWay(toSender, cand) \/ Carries(m, cand) => UnderWay(toSender', cand)
  BY <1>1, MessageSent
<1>3. \A i \in DOMAIN toSender' : FromReceiverOK(toSender'[i])  BY <1>1, <1>2
<1>4. \A i \in DOMAIN toSender' : FromReceiverOK(toSender[i])'
  BY <1>3, Bounds DEF FromReceiverOK
<1>5. \A i \in DOMAIN toReceiver' : FromSenderOK(toReceiver[i])'
  BY DEF MessagesOK, FromSenderOK
<1> QED  BY <1>2, <1>4, <1>5 DEF MessagesOK

LEMMA SendAnswerKeeps ==
  ASSUME NegotiationInv, NEW r \in ReceiverPCs, SendAnswer(r)  PROVE NegotiationInv'
<1> USE DEF NegotiationInv
<1> DEFINE x == [rconn[r] EXCEPT !.at = "done"]
           m == Message("answer", IndexOf(r), r, 0)
<1>1. /\ rconn[r].at = "local" /\ rconn' = [rconn EXCEPT ![r] = x]
      /\ toSender' = Append(toSender, m)
      /\ UNCHANGED <<created, call, sconn, answering, rmade, rindex, globalIce, toReceiver,
                     semitted, remitted>>
  BY DEF SendAnswer, senderVars
<1>2. /\ x \in ConnType(SenderPCs) /\ x.remote = rconn[r].remote /\ x.at = "done"
      /\ x.remoteDescriptionSet = rconn[r].remoteDescriptionSet /\ x.got = rconn[r].got
      /\ rconn[r].remoteDescriptionSet /\ rconn[r].remote \in 1 .. created
  <2>1. rconn[r] \in ConnType(SenderPCs)  BY DEF TypeOK
  <2>2. rconn[r].remoteDescriptionSet /\ rconn[r].remote \in 1 .. created
    BY <1>1 DEF ReceiverOK
  <2> QED  BY <2>1, <2>2 DEF ConnType
<1> HIDE DEF x
<1>3. /\ r \in 1 .. rmade
      /\ rconn' \in [ReceiverPCs -> ConnType(SenderPCs)] /\ rconn'[r] = x
      /\ \A q \in ReceiverPCs \ {r} : rconn'[q] = rconn[q] /\ HeldBy(q)' = HeldBy(q)
      /\ \A q \in ReceiverPCs : IndexOf(q)' = IndexOf(q)
      /\ \A q \in ReceiverPCs :
           IF q <= rmade' THEN /\ rconn'[q].remote \in 1 .. created' /\ rconn'[q].at # "idle"
                               /\ rconn'[q].remoteDescriptionSet <=> rconn'[q].at # "remote"
           ELSE rconn'[q].at = "idle"
      /\ \A i \in Indices : rindex[i] # 0 =>
           rindex[i] \in ReceiverPCs /\ IndexOf(rindex[i])' = i
  BY <1>1, <1>2, OneEndChanges
<1>4. m \in Messages /\ FromReceiverOK(m) /\ m.type = "answer"
  <2>1. IndexOf(r) \in Indices  BY <1>2, IndexIsResidue DEF IndexOf
  <2>2. m = [type |-> "answer", index |-> IndexOf(r), pc |-> r, n |-> 0]  BY DEF Message
  <2> QED  BY <1>3, <2>1, <2>2, Numbers DEF Messages, FromReceiverOK
<1> HIDE DEF m
<1>5. /\ MessagesOK'
      /\ \A cand : UnderWay(toSender, cand) => UnderWay(toSender', cand)
  BY <1>1, <1>3, <1>4, ReceiverSends
<1>6. TypeOK'
  <2>1. \A i \in Indices :
          rindex'[i] # 0 /\ globalIce'[i] # {} => rconn'[rindex'[i]].at \in {"remote", "flush"}
    BY <1>1, <1>2, <1>3 DEF TypeOK
  <2> QED  BY <1>1, <1>3, <2>1 DEF TypeOK
<1>7. OffersCounted' /\ SenderOK'
  BY <1>1, <1>3, SenderUntouched
<1>8. ReceiverOK'  BY <1>1, <1>3 DEF ReceiverOK
<1>9. SenderCandsKept'
  <2>1. HeldBy(r)' = HeldBy(r)  BY <1>1, <1>2, <1>3 DEF HeldBy
  <2>2. \A q \in 1 .. rmade : HeldBy(q)' = HeldBy(q)  BY <2>1, <1>3, Bounds
  <2> QED  BY <1>1, <2>2, SenderCandsStay
<1>10. ReceiverCandsKept'
  <2>1. \A k \in 1 .. created : Clearing(k)' = Clearing(k)  BY <1>1 DEF Clearing
  <2> QED  BY <1>1, <1>5, <2>1, ReceiverCandsStay
<1> QED  BY <1>5, <1>6, <1>7, <1>8, <1>9, <1>10

\* A message that is no offer is read: the offers stay counted.
LEMMA ReceiverIceKeeps ==
  ASSUME NegotiationInv, ReceiverIce  PROVE NegotiationInv'
<1> USE DEF NegotiationInv
<1> DEFINE m == Head(toReceiver)
           cand == <<m.pc, m.n>>
<1>1. /\ toReceiver # <<>> /\ m.type = "ice-candidate" /\ toReceiver' = Tail(toReceiver)
      /\ \/ /\ rindex[m.index] = 0
            /\ globalIce' = [globalIce EXCEPT ![m.index] = @ \cup {cand}]
            /\ UNCHANGED rconn
         \/ /\ rindex[m.index] # 0
            /\ rconn' = [rconn EXCEPT ![rindex[m.index]] = AddCandidate(@, cand)]
            /\ UNCHANGED globalIce
      /\ UNCHANGED <<created, call, sconn, answering, rmade, rindex, toSender, semitted, remitted>>
  BY DEF ReceiverIce, FromSender, senderVars
<1>2. /\ m \in Messages /\ m.pc \in 1 .. created /\ m.index = Index(m.pc) /\ m.index \in Indices
      /\ m.n \in 1 .. CandCount
      /\ toReceiver' \in Seq(Messages)
      /\ \A i \in DOMAIN toReceiver' : FromSenderOK(toReceiver'[i])
      /\ IsFiniteSet(OffersIn(toReceiver')) /\ Cardinality(OffersIn(toReceiver')) \in Nat
      /\ Cardinality(OffersIn(toReceiver)) = Cardinality(OffersIn(toReceiver'))
      /\ \A cd : UnderWay(toReceiver, cd) => UnderWay(toReceiver', cd) \/ cd = cand
  BY <1>1, NextFromSender DEF FromSenderOK, Carries, Messages
<1> HIDE DEF m
<1>3. cand \in Candidates(1 .. created) /\ cand \in Candidates(SenderPCs) /\ cand[1] = m.pc
  BY <1>2, Bounds DEF Candidates
<1>4. OffersCounted'
  <2>1. SentOffers' = SentOffers  BY <1>1 DEF SentOffers
  <2> QED  BY <1>1, <1>2, <2>1 DEF OffersCounted
<1>5. SenderOK'
  <2>1. Started' = Started  BY <1>1 DEF Started
  <2> QED  BY <1>1, <2>1 DEF SenderOK
<1>6. ReceiverCandsKept'
  <2>1. \A k \in 1 .. created : Clearing(k)' = Clearing(k)  BY <1>1 DEF Clearing
  <2> QED  BY <1>1, <2>1, ReceiverCandsStay
<1>7. ASSUME \A r \in ReceiverPCs : IndexOf(r)' = IndexOf(r)  PROVE MessagesOK'
  <2>1. \A i \in DOMAIN toSender' : FromReceiverOK(toSender[i])'
    BY <1>1, <1>7, Bounds DEF MessagesOK, FromReceiverOK
  <2>2. \A i \in DOMAIN toReceiver' : FromSenderOK(toReceiver[i])'
    BY <1>1, <1>2 DEF FromSenderOK
  <2> QED  BY <1>1, <1>2, <2>1, <2>2 DEF MessagesOK
<1> HIDE DEF cand
<1>8. CASE /\ rindex[m.index] = 0 /\ UNCHANGED rconn
           /\ globalIce' = [globalIce EXCEPT ![m.index] = @ \cup {cand}]
  <2>1. /\ globalIce' \in [Indices -> SUBSET Candidates(1 .. created)]
        /\ globalIce'[m.index] = globalIce[m.index] \cup {cand}
        /\ \A i \in Indices \ {m.index} : globalIce'[i] = globalIce[i]
    BY <1>2, <1>3, <1>8 DEF TypeOK
  <2>2. TypeOK'
    <3>1. \A i \in Indices :
            rindex'[i] # 0 /\ globalIce'[i] # {} => rconn'[rindex'[i]].at \in {"remote", "flush"}
      BY <1>1, <1>8, <2>1 DEF TypeOK
    <3> QED  BY <1>1, <1>8, <2>1, <3>1 DEF TypeOK
  <2>3. MessagesOK'  BY <1>7, <1>8 DEF IndexOf
  <2>4. ReceiverOK'
    <3>1. \A i \in Indices : \A cd \in globalIce'[i] : Index(cd[1]) = i
      BY <1>2, <1>3, <2>1 DEF ReceiverOK
    <3> QED  BY <1>1, <1>8, <3>1 DEF ReceiverOK, IndexOf
  <2>5. SenderCandsKept'
    <3>1. \A r \in 1 .. rmade : HeldBy(r)' = HeldBy(r)  BY <1>8 DEF HeldBy
    <3>2. ASSUME NEW k \in SenderPCs, NEW n \in 1 .. semitted[k],
                 UnderWay(toReceiver, <<k, n>>) \/ <<k, n>> \in globalIce[Index(k)]
          PROVE  UnderWay(toReceiver', <<k, n>>) \/ <<k, n>> \in globalIce'[Index(k)]
      <4>1. Index(k) \in Indices  BY Numbers, IndexIsResidue
      <4>2. CASE <<k, n>> = cand
        <5>1. k = m.pc  BY <4>2 DEF cand
        <5> QED  BY <4>2, <5>1, <1>2, <2>1
      <4>3. CASE <<k, n>> # cand  BY <3>2, <4>1, <4>3, <1>2, <2>1
      <4> QED  BY <4>2, <4>3
    <3> QED  BY <1>1, <3>1, <3>2, SenderCandsStay
  <2> QED  BY <1>4, <1>5, <1>6, <2>2, <2>3, <2>4, <2>5
<1>9. CASE /\ rindex[m.index] # 0 /\ globalIce' = globalIce
           /\ rconn' = [rconn EXCEPT ![rindex[m.index]] = AddCandidate(@, cand)]
  <2>1. PICK r \in ReceiverPCs : r = rindex[m.index] /\ r <= rmade
    <3>1. rindex[m.index] \in 1 .. rmade  BY <1>2, <1>9, Bounds DEF TypeOK
    <3> QED  BY <3>1, Bounds
  <2> DEFINE x == AddCandidate(rconn[r], cand)
  <2>2. rconn' = [rconn EXCEPT ![r] = x]  BY <2>1, <1>9
  <2>3. /\ rconn[r] \in ConnType(SenderPCs) /\ rconn[r].at # "idle"
        /\ rconn[r].remoteDescriptionSet <=> rconn[r].at # "remote"
    BY <2>1 DEF TypeOK, ReceiverOK
  <2>4. /\ x \in ConnType(SenderPCs) /\ x.remote = rconn[r].remote /\ x.at = rconn[r].at
        /\ x.remoteDescriptionSet = rconn[r].remoteDescriptionSet
        /\ rconn[r].got \subseteq x.got /\ rconn[r].pendingCandidates \subseteq x.pendingCandidates
        /\ cand \in x.got \/ (cand \in x.pendingCandidates /\ x.at = "remote")
    BY <1>3, <2>3 DEF ConnType, AddCandidate
  <2> HIDE DEF x
  <2>5. /\ r \in 1 .. rmade
        /\ rconn' \in [ReceiverPCs -> ConnType(SenderPCs)] /\ rconn'[r] = x
        /\ \A q \in ReceiverPCs \ {r} : rconn'[q] = rconn[q] /\ HeldBy(q)' = HeldBy(q)
        /\ \A q \in ReceiverPCs : IndexOf(q)' = IndexOf(q)
        /\ \A q \in ReceiverPCs :
             IF q <= rmade' THEN /\ rconn'[q].remote \in 1 .. created' /\ rconn'[q].at # "idle"
                                 /\ rconn'[q].remoteDescriptionSet <=> rconn'[q].at # "remote"
             ELSE rconn'[q].at = "idle"
        /\ \A i \in Indices : rindex[i] # 0 =>
             rindex[i] \in ReceiverPCs /\ IndexOf(rindex[i])' = i
    BY <1>1, <2>2, <2>3, <2>4, OneEndChanges
  <2>6. TypeOK'
    <3>1. \A i \in Indices :
            rindex'[i] # 0 /\ globalIce'[i] # {} => rconn'[rindex'[i]].at \in {"remote", "flush"}
      BY <1>1, <1>9, <2>4, <2>5 DEF TypeOK
    <3> QED  BY <1>1, <1>9, <2>5, <3>1 DEF TypeOK
  <2>7. MessagesOK'  BY <1>7, <2>5
  <2>8. ReceiverOK'  BY <1>1, <1>9, <2>5 DEF ReceiverOK
  <2>9. SenderCandsKept'
    <3>1. HeldBy(r) \subseteq HeldBy(r)' /\ cand \in HeldBy(r)'  BY <2>4, <2>5 DEF HeldBy
    <3>2. \A q \in 1 .. rmade : HeldBy(q) \subseteq HeldBy(q)'  BY <3>1, <2>5, Bounds
    <3>3. ASSUME NEW k \in SenderPCs, NEW n \in 1 .. semitted[k],
                 UnderWay(toReceiver, <<k, n>>) \/ <<k, n>> \in globalIce[Index(k)]
          PROVE  \/ UnderWay(toReceiver', <<k, n>>) \/ <<k, n>> \in globalIce'[Index(k)]
                 \/ \E q \in 1 .. rmade' : <<k, n>> \in HeldBy(q)'
      <4>1. CASE <<k, n>> = cand
        <5>1. r \in 1 .. rmade' /\ <<k, n>> \in HeldBy(r)'  BY <3>1, <4>1, <1>1, <2>5
        <5> QED  BY <5>1
      <4>2. CASE <<k, n>> # cand /\ UnderWay(toReceiver, <<k, n>>)  BY <4>2, <1>2
      <4>3. CASE <<k, n>> \in globalIce[Index(k)]  BY <4>3, <1>9
      <4> QED  BY <3>3, <4>1, <4>2, <4>3
    <3> QED  BY <1>1, <3>2, <3>3, SenderCandsStay
  <2> QED  BY <1>4, <1>5, <1>6, <2>6, <2>7, <2>8, <2>9
<1> QED  BY <1>1, <1>8, <1>9 DEF cand

-----------------------------------------------------------------------------
(* The sender's handlers keep the invariant. *)

\* The next message from the receiver: its index has a connection.
LEMMA NextFromReceiver ==
  ASSUME NegotiationInv, toSender # <<>>, toSender' = Tail(toSender),
         UNCHANGED <<created, rmade, rconn, toReceiver>>
  PROVE  /\ Head(toSender) \in Messages /\ FromReceiverOK(Head(toSender))
         /\ Head(toSender).index + 1 \in 1 .. created
         /\ Head(toSender).index + 1 \in SenderPCs
         /\ MessagesOK'
         /\ \A cand : UnderWay(toSender, cand) =>
                        UnderWay(toSender', cand) \/ Carries(Head(toSender), cand)
<1> USE DEF NegotiationInv
<1>1. toSender \in Seq(Messages) /\ \A i \in DOMAIN toSender : FromReceiverOK(toSender[i])
  BY DEF MessagesOK
<1>2. /\ toSender' \in Seq(Messages)
      /\ \A i \in DOMAIN toSender' : i + 1 \in DOMAIN toSender /\ toSender'[i] = toSender[i + 1]
  BY <1>1, MessageRead
<1>3. \A i \in DOMAIN toSender' : FromReceiverOK(toSender'[i])  BY <1>1, <1>2
<1>4. MessagesOK'
  <2>1. \A i \in DOMAIN toSender' : FromReceiverOK(toSender[i])'
    BY <1>3 DEF FromReceiverOK, IndexOf
  <2>2. \A i \in DOMAIN toReceiver' : FromSenderOK(toReceiver[i])'
    BY DEF MessagesOK, FromSenderOK
  <2> QED  BY <1>2, <2>1, <2>2 DEF MessagesOK
<1>5. Head(toSender) \in Messages /\ FromReceiverOK(Head(toSender))
  <2>1. 1 \in DOMAIN toSender /\ Head(toSender) = toSender[1] /\ Head(toSender) \in Messages
    BY <1>1, MessageRead
  <2> QED  BY <1>1, <2>1
<1>6. Head(toSender).index + 1 \in 1 .. created /\ Head(toSender).index + 1 \in SenderPCs
  <2>1. Head(toSender).index \in Indices  BY <1>5 DEF Messages
  <2>2. rmade > 0  BY <1>5, Bounds DEF FromReceiverOK
  <2>3. NumP2P <= created  BY <2>2, Bounds
  <2>4. /\ Head(toSender).index + 1 \in SenderPCs /\ Head(toSender).index + 1 <= NumP2P
        /\ Head(toSender).index \in Nat
    BY <2>1, Numbers
  <2> QED  BY <2>3, <2>4, Bounds, Numbers
<1> QED  BY <1>1, <1>4, <1>5, <1>6, MessageRead

\* What the sender's handlers leave.
LEMMA ReceiverUntouched ==
  ASSUME NegotiationInv,
         UNCHANGED <<created, call, rmade, rconn, rindex, globalIce, toReceiver, semitted>>
  PROVE  /\ OffersCounted' /\ ReceiverOK' /\ SenderCandsKept'
         /\ toSender' = toSender => MessagesOK'
<1> USE DEF NegotiationInv
<1>1. OffersCounted'  BY SameOffers
<1>2. ReceiverOK'  BY DEF ReceiverOK, IndexOf
<1>3. SenderCandsKept'  BY DEF SenderCandsKept, HeldBy
<1>4. ASSUME toSender' = toSender PROVE MessagesOK'
  BY <1>4 DEF MessagesOK, FromSenderOK, FromReceiverOK, IndexOf
<1> QED  BY <1>1, <1>2, <1>3, <1>4

\* A connection of the sender changes, and with it the handlers of answers.
LEMMA OtherEndChanges ==
  ASSUME NegotiationInv, NEW k \in 1 .. created,
         NEW y \in ConnType(ReceiverPCs), y.remoteDescriptionSet => y.remote # 0,
         sconn[k].remoteDescriptionSet => y.remoteDescriptionSet,
         sconn' = [sconn EXCEPT ![k] = y], UNCHANGED <<created, call>>,
         \A t \in answering' : t.at # "remote" =>
           t \in answering \/ (t.conn = k /\ y.remoteDescriptionSet),
         \A t \in answering' : t.conn \in 1 .. created
  PROVE  /\ sconn' \in [SenderPCs -> ConnType(ReceiverPCs)] /\ sconn'[k] = y
         /\ \A j \in SenderPCs \ {k} : sconn'[j] = sconn[j]
         /\ SenderOK'
<1> USE DEF NegotiationInv
<1>1. k \in SenderPCs /\ k <= created  BY Bounds
<1>2. /\ sconn' \in [SenderPCs -> ConnType(ReceiverPCs)] /\ sconn'[k] = y
      /\ \A j \in SenderPCs \ {k} : sconn'[j] = sconn[j]
  BY <1>1 DEF TypeOK
<1>3. \A j \in SenderPCs : j > created => sconn'[j] = sconn[j]  BY <1>1, <1>2, Bounds, Numbers
<1>4. Started' = Started  BY DEF Started
<1>5. \A t \in answering' : t.at # "remote" => sconn'[t.conn].remoteDescriptionSet
  <2>1. ASSUME NEW t \in answering', t.at # "remote"
        PROVE  sconn'[t.conn].remoteDescriptionSet
    <3>1. t.conn \in SenderPCs  BY Bounds
    <3>2. CASE t.conn = k /\ y.remoteDescriptionSet  BY <3>2, <1>2
    <3>3. CASE t \in answering
      <4>1. sconn[t.conn].remoteDescriptionSet  BY <2>1, <3>3 DEF SenderOK
      <4> QED  BY <4>1, <3>1, <1>2
    <3> QED  BY <2>1, <3>2, <3>3
  <2> QED  BY <2>1
<1>6. /\ \A j \in SenderPCs : j > created => sconn'[j].state = "stable" /\ sconn'[j].remote = 0
      /\ \A j \in SenderPCs : sconn'[j].remoteDescriptionSet => sconn'[j].remote # 0
  BY <1>2, <1>3 DEF SenderOK
<1> QED  BY <1>2, <1>4, <1>5, <1>6 DEF SenderOK

LEMMA HandleAnswerKeeps ==
  ASSUME NegotiationInv, HandleAnswer  PROVE NegotiationInv'
<1> USE DEF NegotiationInv
<1> DEFINE m == Head(toSender)
           new == [conn |-> m.index + 1, from |-> m.pc, at |-> "remote"]
<1>1. /\ toSender # <<>> /\ m.type = "answer" /\ toSender' = Tail(toSender)
      /\ answering' = answering \/ answering' = answering \cup {new}
      /\ UNCHANGED <<created, call, sconn, rmade, rconn, rindex, globalIce, toReceiver,
                     semitted, remitted>>
  BY DEF HandleAnswer, FromReceiver, receiverVars
<1>2. /\ m \in Messages /\ m.pc \in 1 .. rmade /\ m.index + 1 \in 1 .. created
      /\ MessagesOK'
      /\ \A cand : UnderWay(toSender, cand) => UnderWay(toSender', cand)
  BY <1>1, NextFromReceiver DEF FromReceiverOK, Carries
<1>3. new \in [conn : 1 .. created, from : 1 .. rmade, at : {"remote", "flush", "clear"}]
      /\ new.at = "remote"
  BY <1>2
<1> HIDE DEF new
<1>4. TypeOK'
  <2>1. answering' \subseteq [conn : 1 .. created', from : 1 .. rmade', at : {"remote", "flush", "clear"}]
    BY <1>1, <1>3 DEF TypeOK
  <2> QED  BY <1>1, <2>1 DEF TypeOK
<1>5. OffersCounted' /\ ReceiverOK' /\ SenderCandsKept'  BY <1>1, ReceiverUntouched
<1>6. SenderOK'
  <2>1. Started' = Started  BY <1>1 DEF Started
  <2>2. \A t \in answering' : t.at # "remote" => t \in answering  BY <1>1, <1>3
  <2> QED  BY <1>1, <2>1, <2>2 DEF SenderOK
<1>7. ReceiverCandsKept'
  <2>1. \A k \in 1 .. created : Clearing(k)' = Clearing(k)  BY <1>1, <1>3 DEF Clearing
  <2> QED  BY <1>1, <1>2, <2>1, ReceiverCandsStay
<1> QED  BY <1>2, <1>4, <1>5, <1>6, <1>7

LEMMA RemoteAnswerSetKeeps ==
  ASSUME NegotiationInv, NEW t \in answering, RemoteAnswerSet(t)  PROVE NegotiationInv'
<1> USE DEF NegotiationInv
<1> DEFINE k == t.conn
           y == [sconn[k] EXCEPT !.remote = t.from, !.state = "stable", !.remoteDescriptionSet = TRUE]
           u == [t EXCEPT !.at = "flush"]
<1>1. /\ t.at = "remote" /\ sconn' = [sconn EXCEPT ![k] = y]
      /\ answering' = (answering \ {t}) \cup {u}
      /\ UNCHANGED <<created, call, rmade, rconn, rindex, globalIce, toReceiver, toSender,
                     semitted, remitted>>
  BY DEF RemoteAnswerSet, Advance, receiverVars, wireVars
<1>2. /\ k \in 1 .. created /\ t.from \in 1 .. rmade /\ k \in SenderPCs /\ t.from \in ReceiverPCs
      /\ u \in [conn : 1 .. created, from : 1 .. rmade, at : {"remote", "flush", "clear"}]
      /\ u.conn = k /\ u.at = "flush"
  BY Bounds DEF TypeOK
<1>3. /\ y \in ConnType(ReceiverPCs) /\ y.remote # 0 /\ y.remoteDescriptionSet = TRUE
      /\ y.got = sconn[k].got /\ y.pendingCandidates = sconn[k].pendingCandidates
  <2>1. sconn[k] \in ConnType(ReceiverPCs)  BY <1>2 DEF TypeOK
  <2>2. t.from # 0  BY <1>2
  <2> QED  BY <1>2, <2>1, <2>2 DEF ConnType
<1> HIDE DEF y, u
<1>4. answering' \subseteq [conn : 1 .. created, from : 1 .. rmade, at : {"remote", "flush", "clear"}]
  BY <1>1, <1>2 DEF TypeOK
<1>5. /\ sconn' \in [SenderPCs -> ConnType(ReceiverPCs)] /\ sconn'[k] = y
      /\ \A j \in SenderPCs \ {k} : sconn'[j] = sconn[j]
      /\ SenderOK'
  <2>1. \A v \in answering' : v.conn \in 1 .. created  BY <1>4
  <2>2. \A v \in answering' : v.at # "remote" =>
          v \in answering \/ (v.conn = k /\ y.remoteDescriptionSet)
    BY <1>1, <1>2, <1>3
  <2> HIDE DEF k
  <2> QED  BY <1>1, <1>2, <1>3, <2>1, <2>2, OtherEndChanges
<1>6. TypeOK'  BY <1>1, <1>4, <1>5 DEF TypeOK
<1>7. MessagesOK' /\ OffersCounted' /\ ReceiverOK' /\ SenderCandsKept'
  BY <1>1, ReceiverUntouched
<1>8. ReceiverCandsKept'
  <2>1. \A j \in 1 .. created : Clearing(j)' = Clearing(j)  BY <1>1, <1>2 DEF Clearing
  <2>2. \A j \in 1 .. created : sconn'[j].got = sconn[j].got
          /\ sconn'[j].pendingCandidates = sconn[j].pendingCandidates
    BY <1>3, <1>5, Bounds
  <2> QED  BY <1>1, <2>1, <2>2, ReceiverCandsStay
<1> QED  BY <1>5, <1>6, <1>7, <1>8

LEMMA FlushAnsweredKeeps ==
  ASSUME NegotiationInv, NEW t \in answering, FlushAnswered(t)  PROVE NegotiationInv'
<1> USE DEF NegotiationInv
<1> DEFINE k == t.conn
           y == [sconn[k] EXCEPT !.got = @ \cup sconn[k].pendingCandidates]
           u == [t EXCEPT !.at = "clear"]
<1>1. /\ t.at = "flush" /\ sconn' = [sconn EXCEPT ![k] = y]
      /\ answering' = (answering \ {t}) \cup {u}
      /\ UNCHANGED <<created, call, rmade, rconn, rindex, globalIce, toReceiver, toSender,
                     semitted, remitted>>
  BY DEF FlushAnswered, Advance, receiverVars, wireVars
<1>2. /\ k \in 1 .. created /\ k \in SenderPCs /\ sconn[k].remoteDescriptionSet
      /\ u \in [conn : 1 .. created, from : 1 .. rmade, at : {"remote", "flush", "clear"}]
      /\ u.conn = k /\ u.at = "clear"
  <2>1. sconn[k].remoteDescriptionSet  BY <1>1 DEF SenderOK
  <2> QED  BY <2>1, Bounds DEF TypeOK
<1>3. /\ y \in ConnType(ReceiverPCs) /\ y.remote # 0 /\ y.remoteDescriptionSet
      /\ y.got = sconn[k].got \cup sconn[k].pendingCandidates
      /\ y.pendingCandidates = sconn[k].pendingCandidates
  <2>1. sconn[k] \in ConnType(ReceiverPCs)  BY <1>2 DEF TypeOK
  <2>2. sconn[k].remote # 0  BY <1>2 DEF SenderOK
  <2> QED  BY <1>2, <2>1, <2>2 DEF ConnType
<1> HIDE DEF y, u
<1>4. answering' \subseteq [conn : 1 .. created, from : 1 .. rmade, at : {"remote", "flush", "clear"}]
  BY <1>1, <1>2 DEF TypeOK
<1>5. /\ sconn' \in [SenderPCs -> ConnType(ReceiverPCs)] /\ sconn'[k] = y
      /\ \A j \in SenderPCs \ {k} : sconn'[j] = sconn[j]
      /\ SenderOK'
  <2>1. \A v \in answering' : v.conn \in 1 .. created  BY <1>4
  <2>2. \A v \in answering' : v.at # "remote" =>
          v \in answering \/ (v.conn = k /\ y.remoteDescriptionSet)
    BY <1>1, <1>2, <1>3
  <2> HIDE DEF k
  <2> QED  BY <1>1, <1>2, <1>3, <2>1, <2>2, OtherEndChanges
<1>6. TypeOK'  BY <1>1, <1>4, <1>5 DEF TypeOK
<1>7. MessagesOK' /\ OffersCounted' /\ ReceiverOK' /\ SenderCandsKept'
  BY <1>1, ReceiverUntouched
<1>8. ReceiverCandsKept'
  <2>1. \A j \in 1 .. created : j # k => (Clearing(j)' <=> Clearing(j))
    BY <1>1, <1>2 DEF Clearing
  <2>2. \A j \in 1 .. created : j # k => sconn'[j] = sconn[j]  BY <1>5, Bounds
  <2>3. /\ sconn[k].got \subseteq sconn'[k].got
        /\ sconn[k].pendingCandidates \subseteq sconn'[k].got
    BY <1>3, <1>5
  <2> HIDE DEF k
  <2> QED  BY <1>1, <2>1, <2>2, <2>3, ReceiverCandsStay
<1> QED  BY <1>5, <1>6, <1>7, <1>8

\* What is cleared is what was flushed: nothing is put in the list meanwhile.
LEMMA ClearAnsweredKeeps ==
  ASSUME NegotiationInv, NEW t \in answering, ClearAnswered(t)  PROVE NegotiationInv'
<1> USE DEF NegotiationInv
<1> DEFINE k == t.conn
           y == [sconn[k] EXCEPT !.pendingCandidates = {}]
<1>1. /\ t.at = "clear" /\ sconn' = [sconn EXCEPT ![k] = y]
      /\ answering' = answering \ {t}
      /\ UNCHANGED <<created, call, rmade, rconn, rindex, globalIce, toReceiver, toSender,
                     semitted, remitted>>
  BY DEF ClearAnswered, receiverVars, wireVars
<1>2. k \in 1 .. created /\ k \in SenderPCs /\ sconn[k].remoteDescriptionSet /\ Clearing(k)
  <2>1. sconn[k].remoteDescriptionSet  BY <1>1 DEF SenderOK
  <2>2. Clearing(k)  BY <1>1 DEF Clearing
  <2> QED  BY <2>1, <2>2, Bounds DEF TypeOK
<1>3. /\ y \in ConnType(ReceiverPCs) /\ y.remote # 0 /\ y.remoteDescriptionSet
      /\ y.got = sconn[k].got
  <2>1. sconn[k] \in ConnType(ReceiverPCs)  BY <1>2 DEF TypeOK
  <2>2. sconn[k].remote # 0  BY <1>2 DEF SenderOK
  <2> QED  BY <1>2, <2>1, <2>2 DEF ConnType
<1> HIDE DEF y
<1>4. /\ sconn' \in [SenderPCs -> ConnType(ReceiverPCs)] /\ sconn'[k] = y
      /\ \A j \in SenderPCs \ {k} : sconn'[j] = sconn[j]
      /\ SenderOK'
  <2>1. \A v \in answering' : v.conn \in 1 .. created /\ v \in answering
    BY <1>1 DEF TypeOK
  <2> HIDE DEF k
  <2> QED  BY <1>1, <1>2, <1>3, <2>1, OtherEndChanges
<1>5. TypeOK'  BY <1>1, <1>4 DEF TypeOK
<1>6. MessagesOK' /\ OffersCounted' /\ ReceiverOK' /\ SenderCandsKept'
  BY <1>1, ReceiverUntouched
<1>7. ReceiverCandsKept'
  <2>1. \A j \in 1 .. created : j # k => (Clearing(j)' <=> Clearing(j))
    BY <1>1, <1>2 DEF Clearing
  <2>2. \A j \in 1 .. created : j # k => sconn'[j] = sconn[j]  BY <1>4, Bounds
  <2>3. sconn[k].got = sconn'[k].got  BY <1>3, <1>4
  <2> HIDE DEF k
  <2> QED  BY <1>1, <1>2, <2>1, <2>2, <2>3, ReceiverCandsStay
<1> QED  BY <1>4, <1>5, <1>6, <1>7

LEMMA SenderIceKeeps ==
  ASSUME NegotiationInv, SenderIce  PROVE NegotiationInv'
<1> USE DEF NegotiationInv
<1> DEFINE m == Head(toSender)
           cand == <<m.pc, m.n>>
<1>1. /\ toSender # <<>> /\ m.type = "ice-candidate" /\ toSender' = Tail(toSender)
      /\ sconn' = [sconn EXCEPT ![m.index + 1] = AddCandidate(@, cand)]
      /\ UNCHANGED <<created, call, answering, rmade, rconn, rindex, globalIce, toReceiver,
                     semitted, remitted>>
  BY DEF SenderIce, FromReceiver, receiverVars
<1>2. PICK k \in SenderPCs : k = m.index + 1 /\ k \in 1 .. created
  BY <1>1, NextFromReceiver
<1> DEFINE y == AddCandidate(sconn[k], cand)
<1>3. sconn' = [sconn EXCEPT ![k] = y]  BY <1>1, <1>2
<1>4. /\ m.pc \in 1 .. rmade /\ m.n \in 1 .. CandCount /\ MessagesOK'
      /\ \A cd : UnderWay(toSender, cd) => UnderWay(toSender', cd) \/ cd = cand
  BY <1>1, NextFromReceiver DEF FromReceiverOK, Carries
<1>5. cand \in Candidates(ReceiverPCs)  BY <1>4, Bounds DEF Candidates
<1> HIDE DEF m, cand
<1>6. /\ y \in ConnType(ReceiverPCs) /\ y.remote = sconn[k].remote
      /\ y.remoteDescriptionSet = sconn[k].remoteDescriptionSet
      /\ sconn[k].got \subseteq y.got /\ sconn[k].pendingCandidates \subseteq y.pendingCandidates
      /\ cand \in y.got \/ (cand \in y.pendingCandidates /\ ~sconn[k].remoteDescriptionSet)
  <2>1. sconn[k] \in ConnType(ReceiverPCs)  BY DEF TypeOK
  <2> QED  BY <1>5, <2>1 DEF ConnType, AddCandidate
<1> HIDE DEF y
<1>7. /\ sconn' \in [SenderPCs -> ConnType(ReceiverPCs)] /\ sconn'[k] = y
      /\ \A j \in SenderPCs \ {k} : sconn'[j] = sconn[j]
      /\ SenderOK'
  <2>1. \A v \in answering : v.conn \in 1 .. created  BY DEF TypeOK
  <2>2. y.remoteDescriptionSet => y.remote # 0  BY <1>6 DEF SenderOK
  <2> QED  BY <1>1, <1>2, <1>3, <1>6, <2>1, <2>2, OtherEndChanges
<1>8. TypeOK'  BY <1>1, <1>7 DEF TypeOK
<1>9. OffersCounted' /\ ReceiverOK' /\ SenderCandsKept'  BY <1>1, ReceiverUntouched
<1>10. ReceiverCandsKept'
  <2>1. \A j \in 1 .. created : Clearing(j)' = Clearing(j)  BY <1>1 DEF Clearing
  <2>2. \A j \in 1 .. created : j # k => sconn'[j] = sconn[j]  BY <1>7, Bounds
  <2>3. /\ sconn[k].got \subseteq sconn'[k].got
        /\ sconn[k].pendingCandidates \subseteq sconn'[k].pendingCandidates
    BY <1>6, <1>7
  <2>4. cand \in sconn'[k].got \/ (cand \in sconn'[k].pendingCandidates /\ ~Clearing(k)')
    <3>1. ~sconn[k].remoteDescriptionSet => ~Clearing(k)  BY DEF SenderOK, Clearing
    <3>2. Clearing(k)' = Clearing(k)  BY <1>2, <2>1
    <3>3. CASE cand \in y.got  BY <3>3, <1>7
    <3>4. CASE cand \in y.pendingCandidates /\ ~sconn[k].remoteDescriptionSet
      <4>1. ~Clearing(k)'  BY <3>1, <3>2, <3>4
      <4>2. cand \in sconn'[k].pendingCandidates  BY <3>4, <1>7
      <4> QED  BY <4>1, <4>2
    <3> QED  BY <1>6, <3>3, <3>4
  <2>5. ASSUME NEW r \in ReceiverPCs, NEW n \in 1 .. remitted[r], UnderWay(toSender, <<r, n>>)
        PROVE  \/ UnderWay(toSender', <<r, n>>)
               \/ \E j \in 1 .. created' :
                    \/ <<r, n>> \in sconn'[j].got
                    \/ (<<r, n>> \in sconn'[j].pendingCandidates /\ ~Clearing(j)')
    <3>1. CASE <<r, n>> = cand
      <4>1. k \in 1 .. created'  BY <1>1, <1>2
      <4>2. \/ <<r, n>> \in sconn'[k].got
            \/ (<<r, n>> \in sconn'[k].pendingCandidates /\ ~Clearing(k)')
        BY <3>1, <2>4
      <4> QED  BY <4>1, <4>2
    <3>2. CASE <<r, n>> # cand  BY <2>5, <3>2, <1>4
    <3> QED  BY <3>1, <3>2
  <2> QED  BY <1>1, <2>1, <2>2, <2>3, <2>5, ReceiverCandsStay
<1> QED  BY <1>4, <1>7, <1>8, <1>9, <1>10

-----------------------------------------------------------------------------
(* The browsers' candidates keep the invariant. *)

LEMMA SenderGathersKeeps ==
  ASSUME NegotiationInv, NEW k \in SenderPCs, SenderGathers(k)  PROVE NegotiationInv'
<1> USE DEF NegotiationInv
<1> DEFINE n == semitted[k] + 1
           m == Message("ice-candidate", Index(k), k, n)
<1>1. /\ sconn[k].state = "have-local-offer" \/ sconn[k].remote # 0
      /\ semitted[k] < CandCount /\ semitted' = [semitted EXCEPT ![k] = n]
      /\ toReceiver' = Append(toReceiver, Message("ice-candidate", Index(k), k, semitted'[k]))
      /\ UNCHANGED <<created, call, sconn, answering, rmade, rconn, rindex, globalIce, toSender,
                     remitted>>
  BY DEF SenderGathers, senderVars, receiverVars
<1>2. k \in 1 .. created
  <2>1. ~(k > created)  BY <1>1 DEF SenderOK
  <2> QED  BY <2>1, Bounds, Numbers
<1>3. /\ n \in 1 .. CandCount /\ semitted[k] \in Nat
      /\ semitted' \in [SenderPCs -> 0 .. CandCount]
      /\ semitted'[k] = n /\ \A j \in SenderPCs \ {k} : semitted'[j] = semitted[j]
  <2>1. semitted \in [SenderPCs -> 0 .. CandCount]  BY DEF TypeOK
  <2>2. n \in 1 .. CandCount /\ n \in 0 .. CandCount /\ semitted[k] \in Nat
    BY <1>1, <2>1, Numbers
  <2> QED  BY <1>1, <2>1, <2>2
<1>4. toReceiver' = Append(toReceiver, m)  BY <1>1, <1>3
<1> HIDE DEF n
<1>5. m \in Messages /\ FromSenderOK(m) /\ Carries(m, <<k, n>>) /\ m.type # "offer"
  <2>1. Index(k) \in Indices  BY Numbers, IndexIsResidue
  <2> QED  BY <1>2, <1>3, <2>1, Numbers DEF Messages, Message, FromSenderOK, Carries
<1> HIDE DEF m
<1>6. /\ toReceiver' \in Seq(Messages)
      /\ \A i \in DOMAIN toReceiver' :
           \/ i \in DOMAIN toReceiver /\ toReceiver'[i] = toReceiver[i]
           \/ toReceiver'[i] = m
      /\ IsFiniteSet(OffersIn(toReceiver)) =>
           /\ IsFiniteSet(OffersIn(toReceiver'))
           /\ Cardinality(OffersIn(toReceiver')) = Cardinality(OffersIn(toReceiver)) + 0
      /\ \A cand : UnderWay(toReceiver, cand) \/ Carries(m, cand) => UnderWay(toReceiver', cand)
  <2>1. toReceiver \in Seq(Messages)  BY DEF MessagesOK
  <2> QED  BY <1>4, <1>5, <2>1, MessageSent
<1>7. TypeOK'
  <2>1. \A j \in SenderPCs : j > created' => semitted'[j] = 0
    <3>1. ~(k > created)  BY <1>2, Bounds
    <3> QED  BY <1>1, <1>3, <3>1 DEF TypeOK
  <2> QED  BY <1>1, <1>3, <2>1 DEF TypeOK
<1>8. MessagesOK'
  <2>1. \A i \in DOMAIN toReceiver' : FromSenderOK(toReceiver'[i])
    BY <1>5, <1>6 DEF MessagesOK
  <2>2. \A i \in DOMAIN toReceiver' : FromSenderOK(toReceiver[i])'
    BY <1>1, <2>1 DEF FromSenderOK
  <2>3. \A i \in DOMAIN toSender' : FromReceiverOK(toSender[i])'
    BY <1>1 DEF MessagesOK, FromReceiverOK, IndexOf
  <2> QED  BY <1>1, <1>6, <2>2, <2>3 DEF MessagesOK
<1>9. OffersCounted'
  <2>1. SentOffers' = SentOffers  BY <1>1 DEF SentOffers
  <2>2. Cardinality(OffersIn(toReceiver)) \in Nat  BY FS_CardinalityType DEF OffersCounted
  <2> QED  BY <1>1, <1>6, <2>1, <2>2 DEF OffersCounted
<1>10. SenderOK'
  <2>1. Started' = Started  BY <1>1 DEF Started
  <2> QED  BY <1>1, <2>1 DEF SenderOK
<1>11. ReceiverOK'  BY <1>1 DEF ReceiverOK, IndexOf
<1>12. SenderCandsKept'
  <2> SUFFICES ASSUME NEW j \in SenderPCs, NEW i \in 1 .. semitted'[j]
               PROVE  \/ UnderWay(toReceiver', <<j, i>>)
                      \/ <<j, i>> \in globalIce'[Index(j)]
                      \/ \E r \in 1 .. rmade' : <<j, i>> \in HeldBy(r)'
    BY DEF SenderCandsKept
  <2>1. CASE j = k /\ i = n  BY <2>1, <1>5, <1>6
  <2>2. CASE ~(j = k /\ i = n)
    <3>1. i \in 1 .. semitted[j]
      <4>1. CASE j = k
        <5>1. i \in 1 .. n /\ i # n  BY <4>1, <2>2, <1>3
        <5> QED  BY <4>1, <5>1, <1>3 DEF n
      <4>2. CASE j # k  BY <4>2, <1>3
      <4> QED  BY <4>1, <4>2
    <3>2. CASE UnderWay(toReceiver, <<j, i>>)  BY <3>2, <1>6
    <3>3. CASE <<j, i>> \in globalIce[Index(j)]  BY <3>3, <1>1
    <3>4. CASE \E r \in 1 .. rmade : <<j, i>> \in HeldBy(r)  BY <3>4, <1>1 DEF HeldBy
    <3> QED  BY <3>1, <3>2, <3>3, <3>4 DEF SenderCandsKept
  <2> QED  BY <2>1, <2>2
<1>13. ReceiverCandsKept'
  <2>1. \A j \in 1 .. created : Clearing(j)' = Clearing(j)  BY <1>1 DEF Clearing
  <2> QED  BY <1>1, <2>1, ReceiverCandsStay
<1> QED  BY <1>7, <1>8, <1>9, <1>10, <1>11, <1>12, <1>13

LEMMA ReceiverGathersKeeps ==
  ASSUME NegotiationInv, NEW r \in ReceiverPCs, ReceiverGathers(r)  PROVE NegotiationInv'
<1> USE DEF NegotiationInv
<1> DEFINE n == remitted[r] + 1
           m == Message("ice-candidate", IndexOf(r), r, n)
<1>1. /\ rconn[r].at # "idle"
      /\ remitted[r] < CandCount /\ remitted' = [remitted EXCEPT ![r] = n]
      /\ toSender' = Append(toSender, Message("ice-candidate", IndexOf(r), r, remitted'[r]))
      /\ UNCHANGED <<created, call, sconn, answering, rmade, rconn, rindex, globalIce, toReceiver,
                     semitted>>
  BY DEF ReceiverGathers, senderVars, receiverVars
<1>2. r <= rmade /\ r \in 1 .. rmade /\ rconn[r].remote \in 1 .. created
  <2>1. r <= rmade /\ rconn[r].remote \in 1 .. created  BY <1>1 DEF ReceiverOK
  <2> QED  BY <2>1, Bounds
<1>3. /\ n \in 1 .. CandCount /\ remitted[r] \in Nat
      /\ remitted' \in [ReceiverPCs -> 0 .. CandCount]
      /\ remitted'[r] = n /\ \A q \in ReceiverPCs \ {r} : remitted'[q] = remitted[q]
  <2>1. remitted \in [ReceiverPCs -> 0 .. CandCount]  BY DEF TypeOK
  <2>2. n \in 1 .. CandCount /\ n \in 0 .. CandCount /\ remitted[r] \in Nat
    BY <1>1, <2>1, Numbers
  <2> QED  BY <1>1, <2>1, <2>2
<1>4. toSender' = Append(toSender, m)  BY <1>1, <1>3
<1> HIDE DEF n
<1>5. m \in Messages /\ FromReceiverOK(m) /\ Carries(m, <<r, n>>)
  <2>1. IndexOf(r) \in Indices  BY <1>2, IndexIsResidue DEF IndexOf
  <2> QED  BY <1>2, <1>3, <2>1, Numbers DEF Messages, Message, FromReceiverOK, Carries
<1> HIDE DEF m
<1>6. /\ MessagesOK'
      /\ \A cand : UnderWay(toSender, cand) \/ Carries(m, cand) => UnderWay(toSender', cand)
  <2>1. \A q \in ReceiverPCs : IndexOf(q)' = IndexOf(q)  BY <1>1 DEF IndexOf
  <2> QED  BY <1>1, <1>4, <1>5, <2>1, ReceiverSends
<1>7. TypeOK'
  <2>1. \A q \in ReceiverPCs : q > rmade' => remitted'[q] = 0
    <3>1. ~(r > rmade)  BY <1>2, Bounds
    <3> QED  BY <1>1, <1>3, <3>1 DEF TypeOK
  <2> QED  BY <1>1, <1>3, <2>1 DEF TypeOK
<1>8. OffersCounted' /\ ReceiverOK' /\ SenderCandsKept'  BY <1>1, ReceiverUntouched
<1>9. SenderOK'
  <2>1. Started' = Started  BY <1>1 DEF Started
  <2> QED  BY <1>1, <2>1 DEF SenderOK
<1>10. ReceiverCandsKept'
  <2> SUFFICES ASSUME NEW q \in ReceiverPCs, NEW i \in 1 .. remitted'[q]
               PROVE  \/ UnderWay(toSender', <<q, i>>)
                      \/ \E k \in 1 .. created' :
                           \/ <<q, i>> \in sconn'[k].got
                           \/ (<<q, i>> \in sconn'[k].pendingCandidates /\ ~Clearing(k)')
    BY DEF ReceiverCandsKept
  <2>1. CASE q = r /\ i = n  BY <2>1, <1>5, <1>6
  <2>2. CASE ~(q = r /\ i = n)
    <3>1. i \in 1 .. remitted[q]
      <4>1. CASE q = r
        <5>1. i \in 1 .. n /\ i # n  BY <4>1, <2>2, <1>3
        <5> QED  BY <4>1, <5>1, <1>3 DEF n
      <4>2. CASE q # r  BY <4>2, <1>3
      <4> QED  BY <4>1, <4>2
    <3>2. CASE UnderWay(toSender, <<q, i>>)  BY <3>2, <1>6
    <3>3. CASE \E k \in 1 .. created :
                 \/ <<q, i>> \in sconn[k].got
                 \/ (<<q, i>> \in sconn[k].pendingCandidates /\ ~Clearing(k))
      BY <3>3, <1>1 DEF Clearing
    <3> QED  BY <3>1, <3>2, <3>3 DEF ReceiverCandsKept
  <2> QED  BY <2>1, <2>2
<1> QED  BY <1>6, <1>7, <1>8, <1>9, <1>10

-----------------------------------------------------------------------------
(***************************************************************************)
(* The invariant of the negotiation, from which the theorems follow: it    *)
(* holds for any number of connections, offers and candidates.             *)
(***************************************************************************)
LEMMA NegotiationStep == NegotiationInv /\ [Next]_vars => NegotiationInv'
<1> SUFFICES ASSUME NegotiationInv, [Next]_vars PROVE NegotiationInv'  OBVIOUS
<1>1. ASSUME NEW c \in Calls, CreateOffer(c) \/ SetLocalOffer(c) \/ SendOffer(c)
      PROVE  NegotiationInv'
  BY <1>1, CreateOfferKeeps, SetLocalOfferKeeps, SendOfferKeeps
<1>2. CASE HandleOffer  BY <1>2, HandleOfferKeeps
<1>3. CASE ReceiverIce  BY <1>3, ReceiverIceKeeps
<1>4. CASE HandleAnswer  BY <1>4, HandleAnswerKeeps
<1>5. CASE SenderIce  BY <1>5, SenderIceKeeps
<1>6. ASSUME NEW r \in ReceiverPCs, RemoteOfferSet(r) \/ FlushOffered(r)
      PROVE  NegotiationInv'
  BY <1>6, RemoteOfferSetKeeps, FlushOfferedKeeps
<1>7. ASSUME NEW r \in ReceiverPCs, SetLocalAnswer(r) \/ SendAnswer(r)
      PROVE  NegotiationInv'
  BY <1>7, SetLocalAnswerKeeps, SendAnswerKeeps
<1>8. ASSUME NEW r \in ReceiverPCs, ReceiverGathers(r)  PROVE NegotiationInv'
  BY <1>8, ReceiverGathersKeeps
<1>9. ASSUME NEW t \in answering, RemoteAnswerSet(t) \/ FlushAnswered(t) \/ ClearAnswered(t)
      PROVE  NegotiationInv'
  BY <1>9, RemoteAnswerSetKeeps, FlushAnsweredKeeps, ClearAnsweredKeeps
<1>10. ASSUME NEW k \in SenderPCs, SenderGathers(k)  PROVE NegotiationInv'
  BY <1>10, SenderGathersKeeps
<1>11. CASE UNCHANGED vars
  <2> USE <1>11 DEF vars, senderVars, receiverVars, wireVars
  <2>1. TypeOK'  BY DEF NegotiationInv, TypeOK
  <2>2. SenderOK'
    <3>1. Started' = Started  BY DEF Started
    <3> QED  BY <3>1 DEF NegotiationInv, SenderOK
  <2>3. OffersCounted' /\ ReceiverOK' /\ SenderCandsKept' /\ MessagesOK'
    BY ReceiverUntouched
  <2>4. ReceiverCandsKept'
    <3>1. \A k \in 1 .. created : Clearing(k)' = Clearing(k)  BY DEF Clearing
    <3> QED  BY <3>1, ReceiverCandsStay DEF NegotiationInv
  <2> QED  BY <2>1, <2>2, <2>3, <2>4 DEF NegotiationInv
<1> QED  BY <1>1, <1>2, <1>3, <1>4, <1>5, <1>6, <1>7, <1>8, <1>9, <1>10, <1>11 DEF Next

THEOREM NegotiationInvariant == Spec => []NegotiationInv
BY NegotiationStarts, NegotiationStep, PTL DEF Spec

(***************************************************************************)
(* The variables keep their types; in particular an index that has a       *)
(* connection has no candidates left in the receiver's global list, except *)
(* while its handleOffer is about to flush them.                           *)
(***************************************************************************)
THEOREM NegotiationTypeCorrect == Spec => []TypeOK
<1>1. NegotiationInv => TypeOK  BY DEF NegotiationInv
<1> QED  BY <1>1, NegotiationInvariant, PTL

(***************************************************************************)
(* No ICE candidate is lost, wherever an await of handleOffer or           *)
(* handleAnswer lets it in, for every number of calls of createOffer.      *)
(***************************************************************************)
THEOREM NoCandidateIsLost == Spec => []NoCandidateLost
<1>1. NegotiationInv => NoCandidateLost  BY CandidatesKept DEF NegotiationInv
<1> QED  BY <1>1, NegotiationInvariant, PTL

-----------------------------------------------------------------------------
(***************************************************************************)
(* One call of createOffer: the ends belong together.                      *)
(*                                                                         *)
(* The index that answers and candidates carry then names one connection.  *)
(* The second connection of an index, which a second call makes, is sent   *)
(* an offer too, its answer is taken for the first one's, and the ends no  *)
(* longer match: the theorem needs its assumption.                         *)
(***************************************************************************)

\* The receiver's connection r is for the sender's connection k.
Pair(r, k) == r \in 1 .. rmade /\ rconn[r].remote = k

\* No connection is offered twice.
OffersOnce ==
  /\ \A i \in OffersIn(toReceiver) :
       toReceiver[i].pc < call[1].pos /\ \A r \in 1 .. rmade : rconn[r].remote # toReceiver[i].pc
  /\ \A i, j \in OffersIn(toReceiver) : toReceiver[i].pc = toReceiver[j].pc => i = j
  /\ \A r \in 1 .. rmade : rconn[r].remote < call[1].pos
  /\ \A q, r \in 1 .. rmade : rconn[q].remote = rconn[r].remote => q = r

SenderEnds ==
  /\ \A t \in answering : Pair(t.from, t.conn)
  /\ \A k \in SenderPCs :
       /\ sconn[k].remote # 0 => Pair(sconn[k].remote, k)
       /\ \A cand \in sconn[k].pendingCandidates \cup sconn[k].got : Pair(cand[1], k)
       /\ sconn[k].got # {} => sconn[k].remote # 0

ReceiverEnds ==
  \A r \in ReceiverPCs : \A cand \in rconn[r].pendingCandidates \cup rconn[r].got :
    cand[1] = rconn[r].remote

OneCallInv == OffersOnce /\ SenderEnds /\ ReceiverEnds

LEMMA EndsMatch == OneCallInv => EndsBelongTogether
<1> SUFFICES ASSUME OneCallInv PROVE EndsBelongTogether  OBVIOUS
<1>1. ASSUME NEW k \in SenderPCs
      PROVE  /\ sconn[k].remote # 0 => rconn[sconn[k].remote].remote = k
             /\ \A cand \in sconn[k].got : cand[1] = sconn[k].remote
  <2>1. sconn[k].remote # 0 => Pair(sconn[k].remote, k)  BY DEF OneCallInv, SenderEnds
  <2>2. ASSUME NEW cand \in sconn[k].got PROVE cand[1] = sconn[k].remote
    <3>1. Pair(cand[1], k) /\ sconn[k].remote # 0  BY DEF OneCallInv, SenderEnds
    <3> QED  BY <2>1, <3>1 DEF Pair, OneCallInv, OffersOnce
  <2> QED  BY <2>1, <2>2 DEF Pair
<1> QED  BY <1>1 DEF EndsBelongTogether, OneCallInv, ReceiverEnds

\* Every connection has an index of its own.
LEMMA OwnIndex ==
  ASSUME OfferCalls = 1, NegotiationInv
  PROVE  /\ \A k \in 1 .. created : Index(k) + 1 = k
         /\ \A j, k \in 1 .. created : Index(j) = Index(k) => j = k
         /\ Calls = {1}
<1>1. created <= NumP2P /\ created \in Nat  BY Bounds, Numbers
<1>2. \A k \in 1 .. created : k \in 1 .. NumP2P  BY <1>1, Numbers
<1>3. \A k \in 1 .. created : Index(k) = k - 1  BY <1>2, IndexIsResidue
<1> QED  BY <1>1, <1>3 DEF Calls

LEMMA OneCallStarts == Init => OneCallInv
<1> SUFFICES ASSUME Init PROVE OneCallInv  OBVIOUS
<1>1. OffersIn(toReceiver) = {} /\ 1 .. rmade = {}  BY DEF Init, OffersIn
<1>2. OffersOnce  BY <1>1 DEF OffersOnce
<1>3. SenderEnds  BY DEF Init, SenderEnds, NewConn
<1>4. ReceiverEnds  BY DEF Init, ReceiverEnds, NewConn
<1> QED  BY <1>2, <1>3, <1>4 DEF OneCallInv

\* The offers under way are the same, or one message less.
LEMMA OffersStay ==
  ASSUME OffersOnce, call'[1].pos = call[1].pos, rmade' = rmade,
         \A r \in 1 .. rmade : rconn'[r].remote = rconn[r].remote,
         NEW d \in {0, 1},
         \A i \in OffersIn(toReceiver') :
           i \in Nat /\ i + d \in OffersIn(toReceiver) /\ toReceiver'[i] = toReceiver[i + d]
  PROVE  OffersOnce'
<1>1. ASSUME NEW i \in OffersIn(toReceiver')
      PROVE  /\ toReceiver'[i].pc < call'[1].pos
             /\ \A r \in 1 .. rmade' : rconn'[r].remote # toReceiver'[i].pc
  BY DEF OffersOnce
<1>2. ASSUME NEW i \in OffersIn(toReceiver'), NEW j \in OffersIn(toReceiver'),
             toReceiver'[i].pc = toReceiver'[j].pc
      PROVE  i = j
  <2>1. i + d = j + d /\ i \in Nat /\ j \in Nat  BY <1>2 DEF OffersOnce
  <2> QED  BY <2>1
<1> HIDE DEF OffersIn
<1> QED  BY <1>1, <1>2 DEF OffersOnce, OffersIn

\* The receiver's connections keep the other end they have.
LEMMA PairsStay ==
  ASSUME SenderEnds, answering' = answering,
         \A r, k : Pair(r, k) => Pair(r, k)',
         \A k \in SenderPCs : /\ sconn'[k].remote = sconn[k].remote /\ sconn'[k].got = sconn[k].got
                              /\ sconn'[k].pendingCandidates = sconn[k].pendingCandidates
  PROVE  SenderEnds'
BY DEF SenderEnds

\* A connection of the receiver gets candidates of its own other end.
LEMMA ReceiverEndChanges ==
  ASSUME NegotiationInv, OneCallInv, NEW r \in ReceiverPCs, NEW x, x.remote = rconn[r].remote,
         \A cand \in x.pendingCandidates \cup x.got :
           \/ cand \in rconn[r].pendingCandidates \cup rconn[r].got
           \/ cand[1] = rconn[r].remote,
         rconn' = [rconn EXCEPT ![r] = x], UNCHANGED <<call, sconn, answering, rmade>>,
         NEW d \in {0, 1},
         \A i \in OffersIn(toReceiver') :
           i \in Nat /\ i + d \in OffersIn(toReceiver) /\ toReceiver'[i] = toReceiver[i + d]
  PROVE  OneCallInv'
<1> USE DEF OneCallInv
<1>1. rconn'[r] = x /\ \A q \in ReceiverPCs \ {r} : rconn'[q] = rconn[q]
  BY DEF NegotiationInv, TypeOK
<1>2. \A q \in 1 .. rmade : rconn'[q].remote = rconn[q].remote  BY <1>1, Bounds
<1>3. OffersOnce'  BY <1>2, OffersStay
<1>4. SenderEnds'
  <2>1. \A q, k : Pair(q, k) => Pair(q, k)'  BY <1>2 DEF Pair
  <2> QED  BY <2>1, PairsStay
<1>5. ReceiverEnds'  BY <1>1 DEF ReceiverEnds
<1> QED  BY <1>3, <1>4, <1>5

\* The offers in a port that stays as it is.
LEMMA SameMessages ==
  ASSUME NegotiationInv, toReceiver' = toReceiver
  PROVE  \A i \in OffersIn(toReceiver') :
           i \in Nat /\ i + 0 \in OffersIn(toReceiver) /\ toReceiver'[i] = toReceiver[i + 0]
<1>1. toReceiver \in Seq(Messages)  BY DEF NegotiationInv, MessagesOK
<1>2. \A i \in DOMAIN toReceiver : i \in Nat  BY <1>1
<1>3. \A i \in Nat : i + 0 = i  OBVIOUS
<1> QED  BY <1>2, <1>3 DEF OffersIn

LEMMA NextMessage ==
  ASSUME NegotiationInv, toReceiver # <<>>, toReceiver' = Tail(toReceiver)
  PROVE  \A i \in OffersIn(toReceiver') :
           i \in Nat \ {0} /\ i + 1 \in OffersIn(toReceiver) /\ toReceiver'[i] = toReceiver[i + 1]
<1>1. toReceiver \in Seq(Messages)  BY DEF NegotiationInv, MessagesOK
<1>2. \A i \in DOMAIN toReceiver' :
        i \in Nat \ {0} /\ i + 1 \in DOMAIN toReceiver /\ toReceiver'[i] = toReceiver[i + 1]
  BY <1>1, MessageRead
<1> QED  BY <1>2 DEF OffersIn

LEMMA OneOffer ==
  ASSUME OfferCalls = 1, NegotiationInv, OneCallInv, NEW c \in Calls,
         CreateOffer(c) \/ SetLocalOffer(c) \/ SendOffer(c)
  PROVE  OneCallInv'
<1> USE DEF OneCallInv
<1>1. c = 1 /\ 1 \in Calls  BY OwnIndex
<1>2. UNCHANGED <<answering, rmade, rconn>>
  BY DEF CreateOffer, SetLocalOffer, SendOffer, receiverVars
<1>3. ReceiverEnds'  BY <1>2 DEF ReceiverEnds
<1>4. SenderEnds'
  <2>1. \A r, k : Pair(r, k) => Pair(r, k)'  BY <1>2 DEF Pair
  <2>2. sconn \in [SenderPCs -> ConnType(ReceiverPCs)]  BY DEF NegotiationInv, TypeOK
  <2>3. \A k \in SenderPCs :
          /\ sconn'[k].remote = sconn[k].remote /\ sconn'[k].got = sconn[k].got
          /\ sconn'[k].pendingCandidates = sconn[k].pendingCandidates
    BY <2>2 DEF CreateOffer, SetLocalOffer, SendOffer, ConnType
  <2> QED  BY <1>2, <2>1, <2>3, PairsStay
<1>5. /\ call[1] \in [at : {"idle", "next", "local", "done"},
                      pos : SenderPCs \cup {Cardinality(SenderPCs) + 1}]
      /\ call[1].pos \in Nat /\ 1 \in DOMAIN call
  <2>1. /\ call[1] \in [at : {"idle", "next", "local", "done"},
                        pos : SenderPCs \cup {Cardinality(SenderPCs) + 1}]
        /\ 1 \in DOMAIN call
    BY <1>1 DEF NegotiationInv, TypeOK
  <2>2. call[1].pos \in SenderPCs \cup {Cardinality(SenderPCs) + 1}  BY <2>1
  <2>3. SenderPCs \subseteq Nat /\ Cardinality(SenderPCs) + 1 \in Nat  BY Numbers, Counts
  <2> QED  BY <2>1, <2>2, <2>3
<1>6. CASE CreateOffer(c) \/ SetLocalOffer(c)
  <2>1. call'[1].pos = call[1].pos /\ toReceiver' = toReceiver
    BY <1>1, <1>5, <1>6 DEF CreateOffer, SetLocalOffer, wireVars
  <2>2. OffersOnce'  BY <1>2, <2>1, SameMessages, OffersStay
  <2> QED  BY <1>3, <1>4, <2>2
<1>7. CASE SendOffer(c)
  <2> DEFINE k == call[1].pos
             m == Message("offer", Index(k), k, 0)
  <2>1. toReceiver' = Append(toReceiver, m) /\ call'[1].pos = k + 1 /\ m.pc = k
    BY <1>1, <1>5, <1>7 DEF SendOffer, Message
  <2>2. toReceiver \in Seq(Messages) /\ m \in Messages
    <3>1. Index(k) \in Indices  BY <1>5, IndexIsResidue
    <3> QED  BY <1>5, <3>1 DEF NegotiationInv, MessagesOK, Messages, Message
  <2> HIDE DEF m
  <2>3. /\ \A i \in DOMAIN toReceiver : toReceiver'[i] = toReceiver[i]
        /\ \A i \in DOMAIN toReceiver' : i \in DOMAIN toReceiver \/ i = Len(toReceiver) + 1
        /\ toReceiver'[Len(toReceiver) + 1] = m
    BY <2>1, <2>2, MessageSent
  <2>4. \A i \in OffersIn(toReceiver') :
          \/ i \in OffersIn(toReceiver) /\ toReceiver'[i] = toReceiver[i]
          \/ i = Len(toReceiver) + 1 /\ toReceiver'[i].pc = k
    BY <2>1, <2>3 DEF OffersIn
  <2>5. /\ \A i \in OffersIn(toReceiver) : toReceiver[i].pc \in Nat /\ toReceiver[i].pc < k
        /\ \A r \in 1 .. rmade : rconn[r].remote \in Nat /\ rconn[r].remote < k
    <3>1. \A i \in OffersIn(toReceiver) : toReceiver[i].pc \in Nat
      <4>1. \A i \in DOMAIN toReceiver : toReceiver[i] \in Messages  BY <2>2
      <4> QED  BY <4>1 DEF OffersIn, Messages
    <3>2. \A r \in 1 .. rmade : rconn[r].remote \in Nat
      BY Bounds DEF NegotiationInv, ReceiverOK
    <3> QED  BY <3>1, <3>2 DEF OffersOnce
  <2> HIDE DEF k
  <2>6. \A i \in OffersIn(toReceiver') :
          /\ toReceiver'[i].pc < k + 1
          /\ \A r \in 1 .. rmade : rconn[r].remote # toReceiver'[i].pc
    BY <1>5, <2>4, <2>5 DEF OffersOnce, k
  <2>7. \A i, j \in OffersIn(toReceiver') : toReceiver'[i].pc = toReceiver'[j].pc => i = j
    BY <2>4, <2>5 DEF OffersOnce
  <2>8. \A r \in 1 .. rmade : rconn[r].remote < k + 1  BY <1>5, <2>5 DEF k
  <2>9. OffersOnce'  BY <1>2, <2>1, <2>6, <2>7, <2>8 DEF OffersOnce
  <2> QED  BY <1>3, <1>4, <2>9
<1> QED  BY <1>6, <1>7

LEMMA OneOfferHandled ==
  ASSUME OfferCalls = 1, NegotiationInv, OneCallInv, HandleOffer  PROVE OneCallInv'
<1> USE DEF OneCallInv
<1> DEFINE k == Head(toReceiver).pc
<1>1. /\ toReceiver # <<>> /\ Head(toReceiver).type = "offer" /\ toReceiver' = Tail(toReceiver)
      /\ rmade' = rmade + 1
      /\ rconn' = [rconn EXCEPT ![rmade + 1] = [NewConn EXCEPT !.at = "remote", !.remote = k]]
      /\ UNCHANGED <<call, sconn, answering>>
  BY DEF HandleOffer, FromSender, senderVars
<1>2. /\ 1 \in OffersIn(toReceiver) /\ toReceiver[1].pc = k
      /\ \A i \in OffersIn(toReceiver') :
           i \in Nat \ {0} /\ i + 1 \in OffersIn(toReceiver) /\ toReceiver'[i] = toReceiver[i + 1]
  <2>1. 1 \in DOMAIN toReceiver /\ Head(toReceiver) = toReceiver[1]
    BY <1>1, MessageRead DEF NegotiationInv, MessagesOK
  <2> QED  BY <1>1, <2>1, NextMessage DEF OffersIn
<1>3. rmade \in Nat /\ k < call[1].pos /\ \A r \in 1 .. rmade : rconn[r].remote # k
  BY <1>2, Bounds DEF OffersOnce
<1>4. /\ rmade + 1 \in ReceiverPCs => rconn'[rmade + 1].remote = k
      /\ \A r \in ReceiverPCs : r # rmade + 1 => rconn'[r] = rconn[r]
      /\ rmade + 1 \in ReceiverPCs =>
           rconn'[rmade + 1].got = {} /\ rconn'[rmade + 1].pendingCandidates = {}
  BY <1>1 DEF NegotiationInv, TypeOK, NewConn
<1>5. rmade + 1 \in ReceiverPCs
  <2>1. NegotiationInv'  BY HandleOfferKeeps
  <2>2. rmade' \in 0 .. Cardinality(ReceiverPCs)  BY <2>1 DEF NegotiationInv, TypeOK
  <2> QED  BY <1>1, <1>3, <2>2, Counts, Numbers DEF ReceiverPCs
<1>6. \A r \in 1 .. rmade : rconn'[r].remote = rconn[r].remote
  <2>1. \A r \in 1 .. rmade : r \in ReceiverPCs /\ r # rmade + 1  BY <1>3, Bounds
  <2> QED  BY <1>4, <2>1
<1>7. \A r \in 1 .. rmade' : r \in 1 .. rmade \/ r = rmade + 1  BY <1>1, <1>3
<1> HIDE DEF k
<1>8. OffersOnce'
  <2>1. \A i \in OffersIn(toReceiver') : toReceiver'[i].pc # k
    BY <1>2 DEF OffersOnce
  <2>2. \A i \in OffersIn(toReceiver') :
          /\ toReceiver'[i].pc < call'[1].pos
          /\ \A r \in 1 .. rmade' : rconn'[r].remote # toReceiver'[i].pc
    <3>1. ASSUME NEW i \in OffersIn(toReceiver')
          PROVE  /\ toReceiver'[i].pc < call'[1].pos
                 /\ \A r \in 1 .. rmade : rconn[r].remote # toReceiver'[i].pc
      <4>1. i + 1 \in OffersIn(toReceiver) /\ toReceiver'[i] = toReceiver[i + 1]  BY <1>2
      <4>2. call'[1].pos = call[1].pos  BY <1>1
      <4> HIDE DEF OffersIn
      <4> QED  BY <4>1, <4>2 DEF OffersOnce
    <3>2. ASSUME NEW i \in OffersIn(toReceiver'), NEW r \in 1 .. rmade'
          PROVE  rconn'[r].remote # toReceiver'[i].pc
      <4>1. CASE r \in 1 .. rmade  BY <4>1, <1>6, <3>1
      <4>2. CASE r = rmade + 1  BY <4>2, <1>4, <1>5, <2>1
      <4> QED  BY <4>1, <4>2, <1>7
    <3> QED  BY <3>1, <3>2
  <2>3. \A i, j \in OffersIn(toReceiver') : toReceiver'[i].pc = toReceiver'[j].pc => i = j
    <3>1. ASSUME NEW i \in OffersIn(toReceiver'), NEW j \in OffersIn(toReceiver'),
                 toReceiver'[i].pc = toReceiver'[j].pc
          PROVE  i = j
      <4>1. i + 1 = j + 1 /\ i \in Nat /\ j \in Nat  BY <1>2, <3>1 DEF OffersOnce
      <4> QED  BY <4>1
    <3> QED  BY <3>1
  <2>4. \A r \in 1 .. rmade' : rconn'[r].remote < call'[1].pos
    BY <1>1, <1>3, <1>4, <1>5, <1>6, <1>7 DEF OffersOnce
  <2>5. \A q, r \in 1 .. rmade' : rconn'[q].remote = rconn'[r].remote => q = r
    BY <1>3, <1>4, <1>5, <1>6, <1>7 DEF OffersOnce
  <2> HIDE DEF OffersIn
  <2> QED  BY <2>2, <2>3, <2>4, <2>5 DEF OffersOnce
<1>9. SenderEnds'
  <2>1. \A r, j : Pair(r, j) => Pair(r, j)'  BY <1>1, <1>3, <1>6 DEF Pair
  <2> QED  BY <1>1, <2>1, PairsStay
<1>10. ReceiverEnds'  BY <1>4, <1>5 DEF ReceiverEnds
<1> QED  BY <1>8, <1>9, <1>10

LEMMA OneOfferAnswered ==
  ASSUME OfferCalls = 1, NegotiationInv, OneCallInv, NEW r \in ReceiverPCs,
         RemoteOfferSet(r) \/ FlushOffered(r) \/ SetLocalAnswer(r) \/ SendAnswer(r)
  PROVE  OneCallInv'
<1> DEFINE x == rconn'[r]
<1>1. /\ rconn[r] \in ConnType(SenderPCs) /\ rconn[r].at # "idle"
      /\ rconn \in [ReceiverPCs -> ConnType(SenderPCs)]
  BY DEF NegotiationInv, TypeOK, RemoteOfferSet, FlushOffered, SetLocalAnswer, SendAnswer
<1>2. r \in 1 .. rmade /\ rconn[r].remote \in 1 .. created  BY <1>1, Bounds DEF NegotiationInv, ReceiverOK
<1>3. \A cand \in globalIce[IndexOf(r)] : cand[1] = rconn[r].remote
  <2>1. IndexOf(r) \in Indices  BY <1>2, IndexIsResidue DEF IndexOf
  <2>2. \A cand \in globalIce[IndexOf(r)] : cand[1] \in 1 .. created /\ Index(cand[1]) = IndexOf(r)
    BY <2>1 DEF NegotiationInv, TypeOK, ReceiverOK, Candidates
  <2> QED  BY <1>2, <2>2, OwnIndex DEF IndexOf
<1>4. /\ rconn' = [rconn EXCEPT ![r] = x] /\ x.remote = rconn[r].remote
      /\ \A cand \in x.pendingCandidates \cup x.got :
           \/ cand \in rconn[r].pendingCandidates \cup rconn[r].got
           \/ cand[1] = rconn[r].remote
  <2>1. CASE RemoteOfferSet(r)  BY <1>1, <2>1 DEF RemoteOfferSet, ConnType
  <2>2. CASE FlushOffered(r)  BY <1>1, <1>3, <2>2 DEF FlushOffered, ConnType
  <2>3. CASE SetLocalAnswer(r)  BY <1>1, <2>3 DEF SetLocalAnswer, ConnType
  <2>4. CASE SendAnswer(r)  BY <1>1, <2>4 DEF SendAnswer, ConnType
  <2> QED  BY <2>1, <2>2, <2>3, <2>4
<1>5. UNCHANGED <<call, sconn, answering, rmade, toReceiver>>
  BY DEF RemoteOfferSet, FlushOffered, SetLocalAnswer, SendAnswer, senderVars, wireVars
<1> HIDE DEF x
<1> QED  BY <1>4, <1>5, SameMessages, ReceiverEndChanges

LEMMA OneReceiverIce ==
  ASSUME OfferCalls = 1, NegotiationInv, OneCallInv, ReceiverIce  PROVE OneCallInv'
<1> DEFINE m == Head(toReceiver)
<1>1. /\ toReceiver # <<>> /\ toReceiver' = Tail(toReceiver)
      /\ \/ UNCHANGED rconn
         \/ /\ rindex[m.index] # 0
            /\ rconn' = [rconn EXCEPT ![rindex[m.index]] = AddCandidate(@, <<m.pc, m.n>>)]
      /\ UNCHANGED <<call, sconn, answering, rmade, rindex>>
  BY DEF ReceiverIce, FromSender, senderVars
<1>2. m.pc \in 1 .. created /\ m.index = Index(m.pc) /\ m.index \in Indices
  BY <1>1, NextFromSender DEF FromSenderOK, Messages
<1>3. \A i \in OffersIn(toReceiver') :
        i \in Nat /\ i + 1 \in OffersIn(toReceiver) /\ toReceiver'[i] = toReceiver[i + 1]
  BY <1>1, NextMessage
<1> HIDE DEF m
<1>4. CASE UNCHANGED rconn
  <2>1. 1 \in {0, 1}  OBVIOUS
  <2>2. OffersOnce'  BY <1>1, <1>3, <1>4, <2>1, OffersStay DEF OneCallInv
  <2>3. SenderEnds' /\ ReceiverEnds'
    BY <1>1, <1>4, PairsStay DEF OneCallInv, ReceiverEnds, Pair
  <2> QED  BY <2>2, <2>3 DEF OneCallInv
<1>5. CASE /\ rindex[m.index] # 0
           /\ rconn' = [rconn EXCEPT ![rindex[m.index]] = AddCandidate(@, <<m.pc, m.n>>)]
  <2>1. PICK r \in ReceiverPCs : r = rindex[m.index] /\ r \in 1 .. rmade
    <3>1. rindex[m.index] \in 1 .. rmade  BY <1>2, <1>5, Bounds DEF NegotiationInv, TypeOK
    <3> QED  BY <3>1, Bounds
  <2> DEFINE x == AddCandidate(rconn[r], <<m.pc, m.n>>)
  <2>2. rconn' = [rconn EXCEPT ![r] = x]  BY <1>5, <2>1
  <2>3. rconn[r].remote = m.pc
    <3>1. rconn[r].remote \in 1 .. created  BY <2>1, Bounds DEF NegotiationInv, ReceiverOK
    <3>2. IndexOf(r) = m.index  BY <1>2, <1>5, <2>1 DEF NegotiationInv, ReceiverOK
    <3> QED  BY <1>2, <3>1, <3>2, OwnIndex DEF IndexOf
  <2>4. /\ x.remote = rconn[r].remote
        /\ \A cand \in x.pendingCandidates \cup x.got :
             \/ cand \in rconn[r].pendingCandidates \cup rconn[r].got
             \/ cand[1] = rconn[r].remote
    <3>1. rconn[r] \in ConnType(SenderPCs)  BY DEF NegotiationInv, TypeOK
    <3> QED  BY <2>3, <3>1 DEF AddCandidate, ConnType
  <2> HIDE DEF x
  <2>5. 1 \in {0, 1}  OBVIOUS
  <2> QED  BY <1>1, <1>3, <2>2, <2>4, <2>5, ReceiverEndChanges
<1> QED  BY <1>1, <1>4, <1>5

\* The sender's handlers leave the receiver's connections and offers alone.
LEMMA SenderEndChanges ==
  ASSUME NegotiationInv, OneCallInv,
         UNCHANGED <<call, rmade, rconn, toReceiver>>,
         \A t \in answering' : Pair(t.from, t.conn),
         \A k \in SenderPCs :
           /\ sconn'[k].remote # 0 => Pair(sconn'[k].remote, k)
           /\ \A cand \in sconn'[k].pendingCandidates \cup sconn'[k].got : Pair(cand[1], k)
           /\ sconn'[k].got # {} => sconn'[k].remote # 0
  PROVE  OneCallInv'
<1> USE DEF OneCallInv
<1>1. OffersOnce'  BY SameMessages, OffersStay
<1>2. ReceiverEnds'  BY DEF ReceiverEnds
<1>3. SenderEnds'
  <2>1. \A r, k : Pair(r, k) => Pair(r, k)'  BY DEF Pair
  <2> QED  BY <2>1 DEF SenderEnds
<1> QED  BY <1>1, <1>2, <1>3

\* What the receiver says of its connection, the sender finds by its index.
LEMMA RightConnection ==
  ASSUME OfferCalls = 1, NegotiationInv, toSender # <<>>, toSender' = Tail(toSender),
         UNCHANGED <<created, rmade, rconn, toReceiver>>
  PROVE  /\ Pair(Head(toSender).pc, Head(toSender).index + 1)
         /\ Head(toSender).index + 1 \in SenderPCs
<1> DEFINE m == Head(toSender)
<1>1. m.pc \in 1 .. rmade /\ m.index = IndexOf(m.pc) /\ m.index + 1 \in SenderPCs
  BY NextFromReceiver DEF FromReceiverOK
<1>2. rconn[m.pc].remote \in 1 .. created  BY <1>1, Bounds DEF NegotiationInv, ReceiverOK
<1>3. m.index + 1 = rconn[m.pc].remote  BY <1>1, <1>2, OwnIndex DEF IndexOf
<1> QED  BY <1>1, <1>3 DEF Pair

LEMMA OneAnswer ==
  ASSUME OfferCalls = 1, NegotiationInv, OneCallInv, HandleAnswer  PROVE OneCallInv'
<1> DEFINE m == Head(toSender)
           new == [conn |-> m.index + 1, from |-> m.pc, at |-> "remote"]
<1>1. /\ toSender # <<>> /\ toSender' = Tail(toSender)
      /\ answering' = answering \/ answering' = answering \cup {new}
      /\ UNCHANGED <<created, call, sconn, rmade, rconn, toReceiver>>
  BY DEF HandleAnswer, FromReceiver, receiverVars
<1>2. Pair(new.from, new.conn)  BY <1>1, RightConnection
<1> HIDE DEF new
<1>3. \A t \in answering' : Pair(t.from, t.conn)
  BY <1>1, <1>2 DEF OneCallInv, SenderEnds
<1> QED  BY <1>1, <1>3, SenderEndChanges DEF OneCallInv, SenderEnds

LEMMA OneAnswerTaken ==
  ASSUME OfferCalls = 1, NegotiationInv, OneCallInv, NEW t \in answering,
         RemoteAnswerSet(t) \/ FlushAnswered(t) \/ ClearAnswered(t)
  PROVE  OneCallInv'
<1> DEFINE k == t.conn
<1>1. UNCHANGED <<call, rmade, rconn, toReceiver>>
  BY DEF RemoteAnswerSet, FlushAnswered, ClearAnswered, receiverVars, wireVars
<1>2. /\ sconn \in [SenderPCs -> ConnType(ReceiverPCs)] /\ k \in SenderPCs
      /\ Pair(t.from, k) /\ t.from # 0
  <2>1. sconn \in [SenderPCs -> ConnType(ReceiverPCs)] /\ k \in SenderPCs
    BY Bounds DEF NegotiationInv, TypeOK
  <2>2. Pair(t.from, k)  BY DEF OneCallInv, SenderEnds
  <2> QED  BY <2>1, <2>2 DEF Pair
<1>3. \A u \in answering' : Pair(u.from, u.conn)
  <2>1. \A u \in answering' :
          u \in answering \/ (u.from = t.from /\ u.conn = t.conn)
    <3>1. t \in [conn : 1 .. created, from : 1 .. rmade, at : {"remote", "flush", "clear"}]
      BY DEF NegotiationInv, TypeOK
    <3> QED  BY <3>1 DEF RemoteAnswerSet, FlushAnswered, ClearAnswered, Advance
  <2> QED  BY <1>2, <2>1 DEF OneCallInv, SenderEnds
<1>4. /\ \A j \in SenderPCs \ {k} : sconn'[j] = sconn[j]
      /\ sconn'[k].remote = sconn[k].remote \/ sconn'[k].remote = t.from
      /\ sconn'[k].pendingCandidates \cup sconn'[k].got \subseteq
           sconn[k].pendingCandidates \cup sconn[k].got
      /\ sconn'[k].got # {} => sconn'[k].remote # 0
  <2>1. sconn[k].got # {} => sconn[k].remote # 0  BY <1>2 DEF OneCallInv, SenderEnds
  <2>2. t.at # "remote" => sconn[k].remote # 0
    BY <1>2 DEF NegotiationInv, SenderOK
  <2>3. CASE RemoteAnswerSet(t)  BY <1>2, <2>1, <2>3 DEF RemoteAnswerSet, ConnType
  <2>4. CASE FlushAnswered(t)  BY <1>2, <2>2, <2>4 DEF FlushAnswered, ConnType
  <2>5. CASE ClearAnswered(t)  BY <1>2, <2>2, <2>5 DEF ClearAnswered, ConnType
  <2> QED  BY <2>3, <2>4, <2>5
<1> HIDE DEF k
<1>5. \A j \in SenderPCs :
        /\ sconn'[j].remote # 0 => Pair(sconn'[j].remote, j)
        /\ \A cand \in sconn'[j].pendingCandidates \cup sconn'[j].got : Pair(cand[1], j)
        /\ sconn'[j].got # {} => sconn'[j].remote # 0
  <2>1. ASSUME NEW j \in SenderPCs, j # k
        PROVE  /\ sconn'[j].remote # 0 => Pair(sconn'[j].remote, j)
               /\ \A cand \in sconn'[j].pendingCandidates \cup sconn'[j].got : Pair(cand[1], j)
               /\ sconn'[j].got # {} => sconn'[j].remote # 0
    BY <1>4, <2>1 DEF OneCallInv, SenderEnds
  <2>2. /\ sconn'[k].remote # 0 => Pair(sconn'[k].remote, k)
        /\ \A cand \in sconn'[k].pendingCandidates \cup sconn'[k].got : Pair(cand[1], k)
    BY <1>2, <1>4 DEF OneCallInv, SenderEnds
  <2> QED  BY <1>4, <2>1, <2>2
<1> QED  BY <1>1, <1>3, <1>5, SenderEndChanges

LEMMA OneSenderIce ==
  ASSUME OfferCalls = 1, NegotiationInv, OneCallInv, SenderIce  PROVE OneCallInv'
<1> DEFINE m == Head(toSender)
           cand == <<m.pc, m.n>>
<1>1. /\ toSender # <<>> /\ toSender' = Tail(toSender)
      /\ sconn' = [sconn EXCEPT ![m.index + 1] = AddCandidate(@, cand)]
      /\ UNCHANGED <<created, call, answering, rmade, rconn, toReceiver>>
  BY DEF SenderIce, FromReceiver, receiverVars
<1>2. PICK k \in SenderPCs : k = m.index + 1 /\ Pair(cand[1], k)
  BY <1>1, RightConnection
<1> HIDE DEF m, cand
<1>3. sconn \in [SenderPCs -> ConnType(ReceiverPCs)]  BY DEF NegotiationInv, TypeOK
<1>4. /\ \A j \in SenderPCs \ {k} : sconn'[j] = sconn[j]
      /\ sconn'[k].remote = sconn[k].remote
      /\ sconn'[k].pendingCandidates \cup sconn'[k].got \subseteq
           sconn[k].pendingCandidates \cup sconn[k].got \cup {cand}
      /\ sconn'[k].got # {} => sconn[k].got # {} \/ sconn[k].remoteDescriptionSet
  BY <1>1, <1>2, <1>3 DEF AddCandidate, ConnType
<1>5. \A j \in SenderPCs :
        /\ sconn'[j].remote # 0 => Pair(sconn'[j].remote, j)
        /\ \A cd \in sconn'[j].pendingCandidates \cup sconn'[j].got : Pair(cd[1], j)
        /\ sconn'[j].got # {} => sconn'[j].remote # 0
  <2>1. ASSUME NEW j \in SenderPCs, j # k
        PROVE  /\ sconn'[j].remote # 0 => Pair(sconn'[j].remote, j)
               /\ \A cd \in sconn'[j].pendingCandidates \cup sconn'[j].got : Pair(cd[1], j)
               /\ sconn'[j].got # {} => sconn'[j].remote # 0
    BY <1>4, <2>1 DEF OneCallInv, SenderEnds
  <2>2. /\ sconn'[k].remote # 0 => Pair(sconn'[k].remote, k)
        /\ \A cd \in sconn'[k].pendingCandidates \cup sconn'[k].got : Pair(cd[1], k)
    BY <1>2, <1>4 DEF OneCallInv, SenderEnds
  <2>3. sconn'[k].got # {} => sconn'[k].remote # 0
    BY <1>4 DEF OneCallInv, SenderEnds, NegotiationInv, SenderOK
  <2> QED  BY <2>1, <2>2, <2>3
<1> QED  BY <1>1, <1>5, SenderEndChanges DEF OneCallInv, SenderEnds

LEMMA OneGathered ==
  ASSUME OfferCalls = 1, NegotiationInv, OneCallInv,
         \/ \E k \in SenderPCs : SenderGathers(k)
         \/ \E r \in ReceiverPCs : ReceiverGathers(r)
  PROVE  OneCallInv'
<1> USE DEF OneCallInv
<1>1. UNCHANGED <<call, sconn, answering, rmade, rconn>>
  BY DEF SenderGathers, ReceiverGathers, senderVars, receiverVars
<1>2. \A i \in OffersIn(toReceiver') :
        i \in Nat /\ i + 0 \in OffersIn(toReceiver) /\ toReceiver'[i] = toReceiver[i + 0]
  <2>1. CASE \E r \in ReceiverPCs : ReceiverGathers(r)
    BY <2>1, SameMessages DEF ReceiverGathers
  <2>2. ASSUME NEW k \in SenderPCs, SenderGathers(k)
        PROVE  \A i \in OffersIn(toReceiver') :
                 i \in Nat /\ i + 0 \in OffersIn(toReceiver) /\ toReceiver'[i] = toReceiver[i + 0]
    <3> DEFINE m == Message("ice-candidate", Index(k), k, semitted'[k])
    <3>1. toReceiver' = Append(toReceiver, m)  BY <2>2 DEF SenderGathers
    <3>2. toReceiver \in Seq(Messages) /\ m \in Messages /\ m.type # "offer"
      <4>1. NegotiationInv'  BY <2>2, SenderGathersKeeps
      <4>2. Index(k) \in Indices  BY Numbers, IndexIsResidue
      <4>3. semitted'[k] \in Nat  BY <4>1, Numbers DEF NegotiationInv, TypeOK
      <4> QED  BY <4>2, <4>3, Numbers DEF NegotiationInv, MessagesOK, Messages, Message
    <3> HIDE DEF m
    <3>3. /\ \A i \in DOMAIN toReceiver : toReceiver'[i] = toReceiver[i] /\ i \in Nat
          /\ \A i \in DOMAIN toReceiver' : i \in DOMAIN toReceiver \/ i = Len(toReceiver) + 1
          /\ toReceiver'[Len(toReceiver) + 1] = m
      BY <3>1, <3>2, MessageSent
    <3>4. \A i \in OffersIn(toReceiver') :
            i \in Nat /\ i \in OffersIn(toReceiver) /\ toReceiver'[i] = toReceiver[i]
      BY <3>2, <3>3 DEF OffersIn
    <3>5. \A i \in Nat : i + 0 = i  OBVIOUS
    <3> QED  BY <3>4, <3>5
  <2> QED  BY <2>1, <2>2
<1>3. OffersOnce'  BY <1>1, <1>2, OffersStay
<1>4. SenderEnds'
  <2>1. \A r, k : Pair(r, k) => Pair(r, k)'  BY <1>1 DEF Pair
  <2> QED  BY <1>1, <2>1, PairsStay
<1>5. ReceiverEnds'  BY <1>1 DEF ReceiverEnds
<1> QED  BY <1>3, <1>4, <1>5

LEMMA OneCallStep ==
  ASSUME OfferCalls = 1
  PROVE  NegotiationInv /\ OneCallInv /\ [Next]_vars => OneCallInv'
<1> SUFFICES ASSUME NegotiationInv, OneCallInv, [Next]_vars PROVE OneCallInv'  OBVIOUS
<1>1. ASSUME NEW c \in Calls, CreateOffer(c) \/ SetLocalOffer(c) \/ SendOffer(c)
      PROVE  OneCallInv'
  BY <1>1, OneOffer
<1>2. CASE HandleOffer  BY <1>2, OneOfferHandled
<1>3. CASE ReceiverIce  BY <1>3, OneReceiverIce
<1>4. CASE HandleAnswer  BY <1>4, OneAnswer
<1>5. CASE SenderIce  BY <1>5, OneSenderIce
<1>6. ASSUME NEW r \in ReceiverPCs,
             RemoteOfferSet(r) \/ FlushOffered(r) \/ SetLocalAnswer(r) \/ SendAnswer(r)
      PROVE  OneCallInv'
  BY <1>6, OneOfferAnswered
<1>7. ASSUME NEW t \in answering, RemoteAnswerSet(t) \/ FlushAnswered(t) \/ ClearAnswered(t)
      PROVE  OneCallInv'
  BY <1>7, OneAnswerTaken
<1>8. CASE \/ \E k \in SenderPCs : SenderGathers(k)
           \/ \E r \in ReceiverPCs : ReceiverGathers(r)
  BY <1>8, OneGathered
<1>9. CASE UNCHANGED vars
  <2> USE <1>9 DEF vars, senderVars, receiverVars, wireVars
  <2> QED  BY SenderEndChanges DEF OneCallInv, SenderEnds
<1> QED  BY <1>1, <1>2, <1>3, <1>4, <1>5, <1>6, <1>7, <1>8, <1>9 DEF Next

(***************************************************************************)
(* When the page calls createOffer once, the two ends of every connection  *)
(* are each other's and a peer connection is only given candidates of the  *)
(* one it talks to, although messages name a connection by index alone.    *)
(***************************************************************************)
THEOREM EndsMatchAfterOneCall ==
  ASSUME OfferCalls = 1
  PROVE  Spec => []EndsBelongTogether
<1>1. Init => OneCallInv  BY OneCallStarts
<1>2. NegotiationInv /\ OneCallInv /\ [Next]_vars => OneCallInv'  BY OneCallStep
<1>3. OneCallInv => EndsBelongTogether  BY EndsMatch
<1> QED  BY <1>1, <1>2, <1>3, NegotiationInvariant, PTL DEF Spec
=============================================================================
