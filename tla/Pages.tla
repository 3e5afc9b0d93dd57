--------------------------------- MODULE Pages ---------------------------------
(***************************************************************************)
(* The two pages of a transfer: send.js and receive.js, each with a        *)
(* SignalingClient (transfer.js), and between them the server, of which    *)
(* Signaling is the detailed model.  The engines appear by the calls the   *)
(* pages make and by the callbacks they get.                               *)
(*                                                                         *)
(* An action is one task of a page: an event handler, a timer, or what     *)
(* follows an await.  The receive page may be loaded several times, by one *)
(* user who reloads it or by several who have the link.  The events of a   *)
(* WebSocket, "open" and then the messages, come in order.  Only those     *)
(* that change what a page shows are modelled: on the send page "open" and *)
(* "peer-joined", on the receive page "open" and "offer".  Answers and ICE *)
(* candidates go to the engine (Negotiation).                              *)
(***************************************************************************)
EXTENDS Integers, Sequences

CONSTANTS
  MaxChoices,  \* bound: how often the sending user chooses a file
  MaxVisits    \* bound: how often the receive page is loaded

ASSUME PagesAssumption == MaxChoices \in Nat /\ MaxVisits \in Nat

Visits == 1 .. MaxVisits
None   == 0   \* no file, no visit
Sender == 0   \* among the server's handlers

VARIABLES
  \* the send page
  click,        \* where the click handler of btnSend is
  selectedFile, \* which of the user's choices it is
  sSteps,       \* the steps that are not hidden
  timers,       \* setTimeout(..., 800) that have not fired
  engineFile,   \* engine.file and engine.fileInfo, set together by createOffer
  offers,       \* calls of engine.createOffer
  otherFile,    \* has createOffer run again with another file?
  announced,    \* files whose file-info a relay or channel took when it opened
  sent,         \* files of which the pumps have read and sent a chunk
  shared,       \* has the link been copied to somebody?
  sEvents,      \* events of its WebSocket that wait to be handled
  \* the receive page, for each visit
  visit,        \* where it is
  rSteps,
  offered,      \* firstOfferReceived
  fileInfo,     \* engine.fileInfo, the file that the page announces
  outrun,       \* has the last chunk come before the first offer?
  rEvents,
  \* the server
  room,         \* "none" before POST /api/room, "open", "removed"
  receiver,     \* room.Receiver
  senderIn,     \* is room.Sender set, and its connection up?
  announcing    \* handlers that joined and are about to test room.IsReady

engineVars == <<engineFile, offers, otherFile, announced, sent>>
sendVars   == <<click, selectedFile, sSteps, timers, engineVars, shared>>
visitVars  == <<visit, rSteps, offered, fileInfo, outrun>>
serverVars == <<room, receiver, senderIn, announcing>>
pagesVars == <<sendVars, sEvents, visitVars, rEvents, serverVars>>

SendSteps    == {"select", "share", "transfer", "complete"}
ReceiveSteps == {"interstitial", "connecting", "transfer", "complete"}

PagesTypeOK ==
  /\ click \in {"idle", "fetching", "connecting", "ready"}
  /\ selectedFile \in 0 .. MaxChoices /\ engineFile \in 0 .. selectedFile
  /\ sSteps \in SUBSET SendSteps /\ rSteps \in [Visits -> SUBSET ReceiveSteps]
  /\ timers \in Nat /\ offers \in Nat /\ shared \in BOOLEAN /\ otherFile \in BOOLEAN
  /\ announced \in SUBSET (0 .. MaxChoices) /\ sent \in SUBSET (0 .. MaxChoices)
  /\ visit \in [Visits -> {"none", "counting", "connecting", "open", "failed", "gone"}]
  /\ offered \in [Visits -> BOOLEAN] /\ outrun \in [Visits -> BOOLEAN]
  /\ fileInfo \in [Visits -> 0 .. MaxChoices]
  /\ room \in {"none", "open", "removed"} /\ senderIn \in {"no", "in", "lost"}
  /\ receiver \in Visits \cup {None} /\ announcing \in SUBSET (Visits \cup {Sender})
  /\ sEvents \in Seq({"open", "peer-joined"}) /\ rEvents \in [Visits -> Seq({"open", "offer"})]

PagesInit ==
  /\ click = "idle" /\ selectedFile = None /\ sSteps = {"select"}
  /\ timers = 0 /\ engineFile = None /\ offers = 0 /\ otherFile = FALSE
  /\ announced = {} /\ sent = {} /\ shared = FALSE /\ sEvents = <<>>
  /\ visit = [v \in Visits |-> "none"] /\ rSteps = [v \in Visits |-> {}]
  /\ offered = [v \in Visits |-> FALSE] /\ outrun = [v \in Visits |-> FALSE]
  /\ fileInfo = [v \in Visits |-> None]
  /\ rEvents = [v \in Visits |-> <<>>]
  /\ room = "none" /\ receiver = None /\ senderIn = "no"
  /\ announcing = {}

-----------------------------------------------------------------------------
(* The send page: a file, a room, a link. *)

\* A drop, or the file dialog, which may still be open later on.
HandleFile ==
  /\ selectedFile < MaxChoices
  /\ selectedFile' = selectedFile + 1
  /\ UNCHANGED <<click, sSteps, timers, engineVars, shared, sEvents,
                 visitVars, rEvents, serverVars>>

\* btnSend is disabled while its handler runs, and part of the first step.
ClickSend ==
  /\ click = "idle" /\ "select" \in sSteps /\ selectedFile # None
  /\ click' = "fetching"
  /\ UNCHANGED <<selectedFile, sSteps, timers, engineVars, shared, sEvents,
                 visitVars, rEvents, serverVars>>

\* POST /api/room has answered; the link is shown before the socket is open.
RoomCreated ==
  /\ click = "fetching"
  /\ click' = "connecting" /\ sSteps' = {"share"} /\ room' = "open"
  /\ UNCHANGED <<selectedFile, timers, engineVars, shared, sEvents,
                 visitVars, rEvents, receiver, senderIn, announcing>>

\* The catch: the button works again, if its step is still shown.
FetchFails ==
  /\ click = "fetching"
  /\ click' = "idle"
  /\ UNCHANGED <<selectedFile, sSteps, timers, engineVars, shared, sEvents,
                 visitVars, rEvents, serverVars>>

SocketFails ==
  /\ click = "connecting" /\ senderIn = "no"
  /\ click' = "idle"
  /\ UNCHANGED <<selectedFile, sSteps, timers, engineVars, shared, sEvents,
                 visitVars, rEvents, serverVars>>

\* btnCopy, by the clipboard or by hand, and the link reaches somebody.
CopyLink ==
  /\ "share" \in sSteps /\ ~shared
  /\ shared' = TRUE
  /\ UNCHANGED <<click, selectedFile, sSteps, timers, engineVars, sEvents,
                 visitVars, rEvents, serverVars>>

-----------------------------------------------------------------------------
(* The send page: its signaling handlers and its engine's callbacks. *)

SenderGets(type) == sEvents # <<>> /\ Head(sEvents) = type

\* The await of waitOpen() ends; the handlers are set before any other event.
SenderOpened ==
  /\ SenderGets("open")
  /\ sEvents' = Tail(sEvents)
  /\ click' = "ready"
  /\ UNCHANGED <<selectedFile, sSteps, timers, engineVars, shared,
                 visitVars, rEvents, serverVars>>

PeerJoined ==
  /\ SenderGets("peer-joined")
  /\ sEvents' = Tail(sEvents)
  /\ timers' = timers + 1
  /\ UNCHANGED <<click, selectedFile, sSteps, engineVars, shared,
                 visitVars, rEvents, serverVars>>

Listening(v) == v # None /\ visit[v] # "gone"

OfferFile(file) ==
  /\ engineFile' = file /\ offers' = offers + 1
  /\ otherFile' = (otherFile \/ (offers > 0 /\ file # engineFile))
  /\ UNCHANGED <<announced, sent>>

\* Mutant: the waiting step is not hidden.
StartTransfer_KeepsShare ==
  /\ timers > 0
  /\ timers' = timers - 1
  /\ sSteps' = sSteps \cup {"transfer"}
  /\ OfferFile(selectedFile)
  /\ UNCHANGED <<click, selectedFile, shared, sEvents, visitVars, rEvents, serverVars>>

\* 800 ms later: createOffer with the file that is selected then.  The server
\* forwards the offer to the receiver of the moment; send() drops it when the
\* socket has gone.
StartTransfer ==
  /\ timers > 0
  /\ timers' = timers - 1
  /\ sSteps' = (sSteps \ {"share"}) \cup {"transfer"}
  /\ OfferFile(selectedFile)
  /\ rEvents' = IF senderIn = "in" /\ Listening(receiver)
                THEN [rEvents EXCEPT ![receiver] = Append(@, "offer")] ELSE rEvents
  /\ UNCHANGED <<click, selectedFile, shared, sEvents, visitVars, serverVars>>

\* Relay 0 or the control channel of one of the offers opens and takes the
\* file-info that the engine has then.
Announcement ==
  /\ offers > 0
  /\ announced' = announced \cup {engineFile}
  /\ UNCHANGED <<click, selectedFile, sSteps, timers, engineFile, offers, otherFile, sent,
                 shared, sEvents, visitVars, rEvents, serverVars>>

\* Mutant: a chunk is read from the file that is selected now.
SendChunk_OfSelected ==
  /\ offers > 0
  /\ sent' = sent \cup {selectedFile}
  /\ UNCHANGED <<click, selectedFile, sSteps, timers, engineFile, offers, otherFile, announced,
                 shared, sEvents, visitVars, rEvents, serverVars>>

\* A pump reads a chunk, from the file that the engine has when it reads.
SendChunk ==
  /\ offers > 0
  /\ sent' = sent \cup {engineFile}
  /\ UNCHANGED <<click, selectedFile, sSteps, timers, engineFile, offers, otherFile, announced,
                 shared, sEvents, visitVars, rEvents, serverVars>>

\* engine.onComplete.
SenderComplete ==
  /\ sent # {} /\ "complete" \notin sSteps
  /\ sSteps' = (sSteps \ {"transfer"}) \cup {"complete"}
  /\ UNCHANGED <<click, selectedFile, timers, engineVars, shared, sEvents,
                 visitVars, rEvents, serverVars>>

-----------------------------------------------------------------------------
(* The receive page. *)

LoadPage(v) ==
  /\ visit[v] = "none" /\ shared /\ \A w \in 1 .. v - 1 : visit[w] # "none"
  /\ visit' = [visit EXCEPT ![v] = "counting"]
  /\ rSteps' = [rSteps EXCEPT ![v] = {"interstitial"}]
  /\ UNCHANGED <<sendVars, sEvents, offered, fileInfo, outrun, rEvents, serverVars>>

\* The countdown has ended: startReceive, once.  The button that would start it
\* too is shown by the task that hides it again.
StartReceive(v) ==
  /\ visit[v] = "counting"
  /\ visit' = [visit EXCEPT ![v] = "connecting"]
  /\ rSteps' = [rSteps EXCEPT ![v] = {"connecting"}]
  /\ UNCHANGED <<sendVars, sEvents, offered, fileInfo, outrun, rEvents, serverVars>>

\* The catch: "Connection Failed", in the same step.
VisitFails(v) ==
  /\ visit[v] = "connecting" /\ rEvents[v] = <<>>
  /\ visit' = [visit EXCEPT ![v] = "failed"]
  /\ UNCHANGED <<sendVars, sEvents, rSteps, offered, fileInfo, outrun, rEvents, serverVars>>

ReceiverGets(v, type) ==
  visit[v] \in {"connecting", "open"} /\ rEvents[v] # <<>> /\ Head(rEvents[v]) = type

\* waitOpen().then: an engine, its relay connections and the handlers.
VisitOpened(v) ==
  /\ ReceiverGets(v, "open")
  /\ rEvents' = [rEvents EXCEPT ![v] = Tail(@)]
  /\ visit' = [visit EXCEPT ![v] = "open"]
  /\ UNCHANGED <<sendVars, sEvents, rSteps, offered, fileInfo, outrun, serverVars>>

\* The first offer shows the transfer.
GetOffer(v) ==
  /\ ReceiverGets(v, "offer")
  /\ rEvents' = [rEvents EXCEPT ![v] = Tail(@)]
  /\ rSteps' = IF offered[v] THEN rSteps
               ELSE [rSteps EXCEPT ![v] = (@ \ {"connecting"}) \cup {"transfer"}]
  /\ offered' = [offered EXCEPT ![v] = TRUE]
  /\ UNCHANGED <<sendVars, sEvents, visit, fileInfo, outrun, serverVars>>

\* Any copy of the file-info that reaches the page first is taken.
FileInfo(v) ==
  /\ visit[v] = "open" /\ fileInfo[v] = None
  /\ \E f \in announced : fileInfo' = [fileInfo EXCEPT ![v] = f]
  /\ UNCHANGED <<sendVars, sEvents, visit, rSteps, offered, outrun, rEvents, serverVars>>

\* engine.onComplete.  The sender sends each chunk once, so one visit gets all of
\* them, unless the file changes and with it the number of chunks to wait for.
VisitComplete(v) ==
  /\ visit[v] = "open" /\ fileInfo[v] # None /\ sent # {} /\ "complete" \notin rSteps[v]
  /\ otherFile \/ \A w \in Visits : "complete" \notin rSteps[w]
  /\ rSteps' = [rSteps EXCEPT ![v] = (@ \ {"transfer"}) \cup {"complete"}]
  /\ outrun' = [outrun EXCEPT ![v] = ~offered[v]]
  /\ UNCHANGED <<sendVars, sEvents, visit, offered, fileInfo, rEvents, serverVars>>

\* The page is closed or reloaded, and its engine goes with it.
Leave(v) ==
  /\ visit[v] \notin {"none", "gone"}
  /\ visit' = [visit EXCEPT ![v] = "gone"]
  /\ rSteps' = [rSteps EXCEPT ![v] = {}]
  /\ rEvents' = [rEvents EXCEPT ![v] = <<>>]
  /\ fileInfo' = [fileInfo EXCEPT ![v] = None]
  /\ UNCHANGED <<sendVars, sEvents, offered, outrun, serverVars>>

-----------------------------------------------------------------------------
(* The server: HandleWebSocket, as far as the pages notice. *)

SenderJoins ==
  /\ click = "connecting" /\ senderIn = "no"
  /\ senderIn' = "in" /\ announcing' = announcing \cup {Sender}
  /\ sEvents' = <<"open">>
  /\ UNCHANGED <<sendVars, visitVars, rEvents, room, receiver>>

VisitJoins(v) ==
  /\ visit[v] = "connecting" /\ rEvents[v] = <<>> /\ room = "open"
  /\ receiver' = v /\ announcing' = announcing \cup {v}
  /\ rEvents' = [rEvents EXCEPT ![v] = <<"open">>]
  /\ UNCHANGED <<sendVars, sEvents, visitVars, room, senderIn>>

\* Mutant: only a receiver's handler announces.
Announce_ReceiverOnly(h) ==
  /\ h \in announcing
  /\ announcing' = announcing \ {h}
  /\ sEvents' = IF h # Sender /\ senderIn = "in" THEN Append(sEvents, "peer-joined")
                ELSE sEvents
  /\ UNCHANGED <<sendVars, visitVars, rEvents, room, receiver, senderIn>>

\* Whoever finds both in the room tells both; the receive page does not listen.
Announce(h) ==
  /\ h \in announcing
  /\ announcing' = announcing \ {h}
  /\ sEvents' = IF senderIn = "in" /\ receiver # None THEN Append(sEvents, "peer-joined")
                ELSE sEvents
  /\ UNCHANGED <<sendVars, visitVars, rEvents, room, receiver, senderIn>>

\* The sender's socket breaks.  Its page does not notice; the room is removed.
LoseSender ==
  /\ senderIn = "in" /\ click = "ready" /\ Sender \notin announcing
  /\ senderIn' = "lost" /\ room' = "removed"
  /\ UNCHANGED <<sendVars, sEvents, visitVars, rEvents, receiver, announcing>>

SendPage == RoomCreated \/ SenderOpened \/ PeerJoined \/ StartTransfer
ReceivePage(v) == StartReceive(v) \/ VisitOpened(v) \/ GetOffer(v) \/ FileInfo(v)
Server == SenderJoins \/ \E h \in Visits \cup {Sender} : Announce(h)

PagesNext ==
  \/ HandleFile \/ ClickSend \/ FetchFails \/ SocketFails \/ CopyLink
  \/ Announcement \/ SendChunk \/ SenderComplete
  \/ SendPage \/ Server \/ LoseSender
  \/ \E v \in Visits :
       \/ LoadPage(v) \/ ReceivePage(v) \/ VisitFails(v) \/ VisitComplete(v)
       \/ Leave(v) \/ VisitJoins(v)

\* Events and timers are handled, requests are answered and the server goes on.
\* Users need not do anything, and nothing has to fail.
PagesFairness ==
  /\ WF_pagesVars(SendPage) /\ WF_pagesVars(Server)
  /\ \A v \in Visits : WF_pagesVars(ReceivePage(v)) /\ WF_pagesVars(VisitJoins(v))

PagesSpec     == PagesInit /\ [][PagesNext]_pagesVars
PagesFairSpec == PagesSpec /\ PagesFairness

-----------------------------------------------------------------------------
(* Properties. *)

\* A page shows one step at a time, whatever order sockets, timers, offers and
\* the engine's callbacks come in; with two exceptions.  A second "peer-joined"
\* shows the transfer again beside its end.  And chunks that outrun the first
\* offer complete a download whose page still says that it connects; the offer,
\* when it comes, then puts the transfer beside the end.
OneStepShown ==
  /\ \/ \E s \in SendSteps : sSteps = {s}
     \/ sSteps = {"transfer", "complete"} /\ offers > 1
  /\ \A v \in Visits :
       \/ visit[v] \in {"none", "gone"}
       \/ \E s \in ReceiveSteps : rSteps[v] = {s}
       \/ /\ outrun[v]
          /\ rSteps[v] = {IF offered[v] THEN "transfer" ELSE "connecting", "complete"}

\* The file that a receive page announces is the file whose chunks are sent,
\* although the file-info is taken when a relay or channel opens, the chunks are
\* read later, createOffer may run several times and the user may choose another
\* file at any time; unless createOffer runs again after such a choice, for then
\* the pumps go on with the new file where they were in the old one.
AnnouncedFileIsSent ==
  \A v \in Visits :
    fileInfo[v] # None => otherFile \/ (announced = {fileInfo[v]} /\ sent \subseteq announced)

\* Whoever comes first, the sender or the receiver, and even if the link is
\* opened while the sender's socket is still connecting: a visit that stays, and
\* is not replaced by another, is offered the file, and both pages leave their
\* waiting step.
VisitIsServed ==
  \A v \in Visits :
    <>[](visit[v] \in {"connecting", "open"} /\ receiver = v /\ senderIn = "in")
      => <>(offered[v] /\ "connecting" \notin rSteps[v] /\ "share" \notin sSteps)

=============================================================================
