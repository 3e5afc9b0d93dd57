# FastTransfer in TLA+

A verification development for FastTransfer: TLA+ models of the browser's
transfer engine, the Go relay and signaling server and the Rust command line
client, TLC runs on small instances, and TLAPS proofs for every value of the
constants. Paths below are relative to the repository.

To check one run: `tlc -config Sender.cfg MCTransferSender.tla`. To check
one proof module: `tlapm TransferSenderProofs.tla`. `PROJECT.json` lists runs,
mutants, the map from definitions to source lines, findings, hazards and
theorems.

## 1. Inventory

FastTransfer moves one file from a sender to a receiver who opened the same
room. In the browser the file travels as indexed chunks over 8 WebSockets that
the Go server relays and 4 WebRTC data channels; from the command line it
travels over 8 TCP streams.

| Component | Source | State | Operations |
|---|---|---|---|
| Sending engine | `web/static/js/transfer.js` 268-326, 442-686 | `_nextChunkIndex`, `_retryIndices`, `sentChunks`, `_sendingStarted`, `_completeFired`; each pump's batch; each socket's buffer | `_tryStart`, `_relayPump`, `_p2pPump`, `_readBatch`, `_requeue`, `_checkDone`, `_waitForDrain` |
| Receiving engine | `transfer.js` 342-380, 695-758 | `receivedChunks`, `_nextWriteIndex`, `_pendingChunks`, `_downloader` | `_onFileInfoReceived`, `_handleChunk`, `_writeChunk`, `_finishDownload` |
| Streaming download | `transfer.js` 51-161, `web/static/js/sw.js` | `mode`, `fallbackChunks`; the worker's `streams` table; the browser's stream and file | `prepare`, `write`, `close`; the worker's `register`, `chunk`, `close`, `fetch`, `cancel` |
| P2P negotiation | `transfer.js` 224-338, 382-438 | `connections`, `pendingCandidates`, `_globalPendingIce` | `createOffer`, `handleOffer`, `handleAnswer`, `addIceCandidate` |
| Signaling server | `internal/handlers/handlers.go`, `internal/signaling/` | `Hub.rooms`, each `Room`'s `Sender` and `Receiver` | `HandleCreateRoom`, `HandleWebSocket` |
| WebSocket relay | `internal/handlers/relay_ws.go` | `pairs`, each pair's connections and `ready` channel | `HandleRelayWS`, `wsRelay`, `removePair` |
| TCP relay | `internal/handlers/relay.go` | `pending`, the timers | `handleRelayConn`, `relay` |
| Command line client | `cli/src/sender.rs`, `receiver.rs`, `protocol.rs` | the listener's backlog, streams, tasks, the output file | `send_file`, `receive_file` |
| Signaling clients | `transfer.js` 799-821, `cli/src/signaling.rs` | one socket | `send`, `recv`, dispatch by type |
| Pages | `send.js`, `receive.js` | the step shown, `selectedFile`, `engine`, `firstOfferReceived` | choose, create a link, copy it; count down; start an engine; show the end |
| Speed statistics | `transfer.js` 762-784 | one interval timer per engine | `_startStatsInterval`, `_stopStatsInterval` |
| Others | `turn.go`, `cmd/server/main.go`, `cli/src/main.rs`, `progress.rs`, templates, `deploy/`, CSS | none that changes | routing, display, a credential computed from the clock |

### How they interact

* The pages meet through the **signaling server**: it announces `peer-joined` to
  both, then forwards `offer`, `answer` and `ice-candidate`.
* `peer-joined` makes the sender page call `createOffer`, which opens the relay
  sockets and the P2P connections. Each one that opens calls `_tryStart` and
  gets a pump. The pumps share the chunk pool and nothing else.
* The **WebSocket relay** joins the sender's and the receiver's socket of the
  same room and index.
* Every chunk ends in `_handleChunk` on the receiving page. The file-info takes
  only two ways: relay 0 and the control channel.
* The receiving engine writes to a `StreamingDownloader`, which posts messages
  to the **service worker** and opens an iframe whose fetch the worker answers
  with a stream the browser saves.
* The command line programs use the same signaling server, and connect directly.
  The **TCP relay** serves a protocol (room, role byte) the present client does
  not speak.

### What is hard, and what makes each part correct

* *Sending engine.* JavaScript tasks interleave at every `await`; connections
  die between any two. Correct: no chunk claimed twice or forgotten, the
  completion counter exact, completion justified, buffers bounded, the pool
  drained as long as somebody can send.
* *Receiving engine.* Chunks overtake each other, the file-info and
  `prepare()`. Correct: each chunk written once and in order, the end declared
  exactly when all are written, the saved file whole.
* *Streaming download.* Messages and fetch are unordered, the page writes and
  closes while `prepare()` awaits, the browser may stop the worker. Correct: but
  for what was written before the stream opened, the file is always a beginning
  of what was sent and "complete" means to the end; the worker's table does not
  leak.
* *Negotiation.* Answers and candidates are matched by index and may arrive
  inside any `await`. Correct: ends belong together, no candidate lost.
* *Signaling server.* Handlers read room slots and the hub in separate critical
  sections. Correct: no nil client, messages in order and not dropped, the hub
  knows the rooms in use, a departure is announced to whom it concerns.
* *Relays.* Goroutines pair up and wait, timers fire. Messages are
  copied piece by piece. Correct: pairing one to one, no wait without an end,
  nothing left open, messages in order.
* *Command line.* Eight tasks a side, streams that break, an order of streams
  each side establishes on its own, a signaling socket that may be lost. Correct:
  strides partition the file, success means whole, nobody hangs where the
  programs do not wait without a bound.
* *Pages.* Clicks, timers, sockets and the engine's callbacks come in any order,
  and the receive page may be loaded again. Correct: one step is shown, the file
  announced is the file sent, and whoever comes first, a visit is served.
* *End to end.* Chunks and the file-info travel on different wires, any of which
  may be cut. Correct: "complete" means on each page what it should mean.

## 2. The modules

| Module | Models | Instance | Proofs |
|---|---|---|---|
| `TransferSender` | sending engine | `MCTransferSender` | `TransferSenderProofs` |
| `ChunkPool` | abstract: what the sending engine promises of the chunks | implemented by `TransferSender` | `TransferSenderProofs` |
| `ChunkReceiver` | receiving engine and the sinks of the downloader | its own .cfg files | `ChunkReceiverProofs` |
| `Transfer` | both engines and the wires between them | `MCTransfer` | `TransferProofs` |
| `FileTransfer` | abstract: what a transfer promises | implemented by `Transfer` | `TransferProofs` |
| `StreamDownload` | page, service worker, browser | its own .cfg file | `StreamDownloadProofs` |
| `Download` | abstract: what a download promises | implemented by `StreamDownload` | `StreamDownloadProofs` |
| `Pages` | send page, receive page, and the server as they notice it | its own .cfg file | `PeeringProofs` |
| `Negotiation` | offers, answers, candidates | its own .cfg file | `PeeringProofs` |
| `Signaling` | hub, rooms, handlers | `MCSignaling` | `SignalingProofs` |
| `WsRelay` | WebSocket relay | `MCWsRelay` | `WsRelayProofs` |
| `TcpRelay` | TCP relay | `MCTcpRelay` | `CommandLineProofs` |
| `CliTransfer` | both command line programs | its own .cfg file | `CommandLineProofs` |

`PeeringProofs` and `CommandLineProofs` extend two modules each: the pages and the
negotiation they start, and the two programs that speak TCP. So the
specifications of `Pages` and `TcpRelay` bear their module's name (`PagesSpec`,
`RelaySpec`, and so on), where the other modules just have `Spec`.

Definitions whose name has an underscore and a suffix (`Requeue_Forgets`) are
not part of any specification: each is a plausible mistake in the definition of
the same name, and `PROJECT.json` says which property it breaks.

**Grain of the actions.** In the JavaScript modules an action is the code from
one `await` or event to the next, because a task runs to completion. In the Go
modules it is what a goroutine does between two points where another matters: a
critical section, a channel operation, a read, a write, a close. In `CliTransfer`
it is one frame written or read by one task.

**TransferSender.** A pump is `idle`, `reading` (awaits the disk), `paused`
(waits for buffer room), `ended`, or `rejected` (its read failed; its batch is
lost with it). `Open` is `onopen` with `_tryStart`; `ReadDone` is everything a
pump does once its batch is read; `ResumeRelay` and `ResumeP2P` are the two ways
a paused pump goes on. All of them end in `SendBatch`: send what the buffer
takes, then go round the loop, pause, or requeue after a throw. A chunk is its
index; buffers are counted in chunks; `buffered` is what `bufferedAmount`
counts and keeps its contents when the connection closes, as the browser does.

**ChunkReceiver.** The mode is `none` until the file-info arrives, `preparing`
while `prepare()` awaits, then `sw` or `blob`. The module records where each
write went: `discarded` (there was no downloader), `fallbackChunks`, `posted` to
the worker, or `saved`. Nothing orders the file-info and the chunks.

**Transfer.** `INSTANCE`s of `TransferSender` and `ChunkReceiver` over the same
variables, and between them `wire`, a queue for each stream. `Transmit` of the
sender puts the chunk on the wire, `ArriveChunk` is the receiver's `onmessage`.
`Sever` cuts a wire and loses a tail of it, while the sender's socket may stay
open: a relay pair of which one half has gone. When the sender's half goes in the
middle of a message, the relay closes its writer and the receiver gets the
beginning as if it were the message (relay_ws.go:140-143); the engine does not
look at lengths and counts it (transfer.js:702-713). Such chunks are in
`truncated`, and `damaged` in `FileTransfer`. The two copies of the
file-info are on the wire of relay 0, ahead of its chunks, and on the control
channel. `senderStats` and `receiverStats` are the interval timers. It is shown
to implement `FileTransfer` under `place <- Place`.

**Pages.** An action is one task of a page. `click` follows the click handler of
`btnSend` over its two awaits; `timers` are the `setTimeout`s of `peer-joined`
that have not fired; `visit[v]` is one loading of the receive page. The file is
read at three moments: `engineFile` is what `createOffer` gave the engine,
`announced` what relays and channels took as file-info when they opened, `sent`
what the pumps read chunks from; `fileInfo` is the copy that a visit took. The server is
the part of `Signaling` that the pages can see: who is in the room, and which
handlers have joined and are about to look whether it is ready. The engines
appear by `createOffer` and by their callbacks.

**StreamDownload.** `prep` is how far `prepare()` is and `writer` what the page has
done with the download: `Write`, `CloseStream` and `SaveBlob` may come at any
await of `prepare()`, which sets `mode` only at its end. Until then chunks go to
`fallback` (`fallbackChunks`), and a close saves them as `blob`; if the stream
opens first they stay there for good. `worker` is the registration, which an earlier visit may have
left active; `port` is the in-order channel to the worker, `entry` the
worker's `streams.get(id)`, `stream` the `ReadableStream`, `download` what the
browser shows. The browser may stop the worker between two messages, the user
may cancel, and the iframe may be removed before its fetch was answered. It is
shown to implement `Download` under `saved <- File`, `status <- Status` and
`skipped <- Skipped`: the file is the Blob if there is one and the stream's
otherwise, and `skipped` is how many chunks the stream's lacks at its front.

**Negotiation.** Peer connections are numbered in order of creation on both
sides. `OfferCalls` is how often `peer-joined` reaches the page.

**Signaling, WsRelay.** Rooms and pairs are objects, named by the connection
whose handler created them (`Posted` names the room of `POST /api/room`);
`current` is what the id or key names now, which need not be the
object a handler holds. Different ids and keys share nothing, so each module has
one. `RoomCreated` says whether `POST /api/room` made the id before. A
connection may never come, so one instance holds both the intended session and
the disturbed one: `OneOfEach` says that, so far, one connection of each role
came, and what only the intended session promises is stated under it.

In `WsRelay` a message is copied between `ReadMessage` and `WriteMessage`; if its
source fails in between, `CopyFails` delivers what was copied, marked "cut".

**TcpRelay.** Several rooms, any connections, one timer each. A pipe ends when
its source ends or a write to the other side fails. A client may stop reading
and read again; a copy towards it may then be blocked in a write, which has no
deadline, and does not look at its source. The header's role byte is
logged and has no other effect (relay.go:56-68), so the model has no role.

**CliTransfer.** The receiver numbers streams as it connects, the sender as it
accepts. Handshakes complete in any order; TCP promises no other. A stream may
break at any time, its handshake included, and `silent` when no FIN or RST tells
its reader. A write to a broken stream may fail or be taken for nothing. Errors of
the two files panic the task that meets them. Either
program may lose its socket to the signaling server while it reads it: an error
ends it, a close makes `recv` return `Ok(None)` for ever, and it spins.

### Constants and assumptions

Each module names the assumption on its constants (`SenderAssumption`,
`ReceiverAssumption`, `RelayAssumption`, ...). They say that numbers are numbers,
sets are finite where the code's are, and `None` is no connection. Two of them
carry facts of the code: batch sizes are positive, and P2P_BUF_LOW is at most
P2P_BUF_HIGH. `ReceiverAssumption` asks for at least one chunk; a receiver of an
empty file never handles one.

## 3. Runs

There is one passing run for each component, and one for the composition of the
engines. Each has every fault of its model switched on, so the properties that
faults rightly break name the fault as their exception, and a `FairSpec` in which
no fault is fair.

| Run | Instance | States | Shows |
|---|---|---|---|
| `Sender` | 2 relays and 1 channel, 8 chunks, batches of 3; one relay and the channel may close, throw, reject a read | 66,379 | the pool, counter and completion invariants; requeued chunks are retaken while a reliable pump runs; it implements `ChunkPool`; without a failure all is delivered |
| `Receiver` | 8 chunks, file-info at any time, both modes | 2,291 | order, accounting, saved file, nothing after the end; the download ends unless a chunk was discarded |
| `Transfer` | 2 relays and 1 channel, 3 chunks, batches of 2; relay 0 may be cut, also inside a chunk, the channel may throw, the other relay's read may fail | 129,814 | a chunk travels once; it implements `FileTransfer`; undisturbed, both pages complete, the file is whole and both timers stop |
| `Pages` | 2 choices of a file, 2 visits | 519,457 | one step shown; the announced file is the one sent, unless `createOffer` ran again with another; a visit that stays is served |
| `TcpRelay` | 4 connections, 3 of them in one room, clients that stop reading | 122,904 | pairing, timers never hit a pair, broken pairs close unless the client that is left stops reading |
| `WsRelay` | 1 sender, 2 receivers, 2 messages | 64,616 | when `close(pair.ready)` panics; order for one sender and receivers that are reloaded; with one of each role, all delivered, and removal |
| `Signaling` | 2 senders with 2 and 1 messages, 1 receiver with 1, created room | 519,148 | no nil client; order; one of each role meet, talk and notice departures |
| `Download` | 4 chunks, a worker that is active already or has to be installed | 883 | it implements `Download`, with chunks and the close at any await of `prepare()`; entry released; the download completes |
| `Negotiation` | 2 connections, 1 candidate each way | 16,480 | ends belong together, no candidate lost, every pair negotiates |
| `Cli` | 2 streams, 5 chunks | 53,727 | partition, nobody hangs but in the waits the code leaves unbounded, both sides succeed unless something fails |

**Why the bounds are enough to be interesting.** Eight chunks in batches of
three over three streams give pumps that claim full, partial and mixed (retry
plus new) batches, a last partial batch, and a pump that has left before a
requeue. RELAY_BUF_HIGH 0 and P2P_BUF_HIGH 1 make every batch overrun its
buffer. Eight chunks reach every stash with several gaps. In `Transfer` three
chunks in batches of two leave work for a second pump and let each stream
overtake the others and both copies of the file-info; each fault has a stream of
its own, so they meet. Two visits are a reload, or two people with one link, and
make `peer-joined` come up to three times; with two files the dialog may
change the choice at each moment in between. Three TCP connections
in a room give a pair, a pending one and a third party; old timers fire beside
them. The second receiver of `WsRelay` and the second sender of `Signaling` are
the page that is reloaded or opened twice: it may come before, beside or after
the first, or never; the second sender also makes `CreateRoomWithID` happen when
the first one's departure has removed the room. Two streams with five chunks
have strides of different lengths, and are enough for handshakes to overtake.
Bounds that are not the code's: `MsgCount` and `CandCount`, the number of
messages and candidates of each client; `OfferCalls`; `MaxChoices` and
`MaxVisits`.

**Deadlock** is not checked: every system here is a transfer that ends, or stops
when its clients have gone. What must not get stuck is stated as liveness.

### Runs that find a disagreement

Each checks one statement that a comment makes, and finds it false of the code.

| Run | Statement | What happens |
|---|---|---|
| `SenderStall` | "no stalls if P2P/relay dies mid-batch" (transfer.js:16) | pumps that ran out of work have returned; nobody takes what a dying relay requeues |
| `ReceiverPrepareRace` | "writes incoming bytes to a real Chrome download" (37) | chunks during `prepare()` are stranded in `fallbackChunks` |

Reading the code for the models showed more of the kind. No run is spent on
them, but the actions named have the behaviour, so the properties above are
stated with it in mind:

* transfer.js:545 (`ResumeP2P`): a paused P2P pump waits for an event that a
  closed channel does not fire; its batch never returns to the pool.
* transfer.js:511 (`ResumeRelay`): after a yield `ws.send` is called without
  looking at `readyState`, and a closed socket swallows the chunk.
* transfer.js:661 (`DrainDone`): "All buffers drained — transfer fully delivered"
  is logged when no *open* connection has anything buffered; the buffer of a
  closed relay is ignored (673), and its chunks are lost. `FileTransfer` lets the
  sender finish with chunks lost for this reason.
* transfer.js:300 (`SendOffer`): a second `peer-joined` runs `createOffer` again,
  which appends to `this.connections` and then offers all of it, where
  receive.js:52 expects "one per connection". With `OfferCalls` = 2 `Negotiation`
  shows it. The new relay sockets replace those in `relayConns`, so the drain does
  not look at the old ones, and the server panics on them (`PanicNeedsSameRole`).
* transfer.js:654 (`CheckDone`): with a file of zero bytes it is never called.
* transfer.js:738 (`Write`): a chunk before the file-info is counted and
  discarded, which is why `DownloadEnds` and `SavedFileIsWhole` except it; and
  (731) the completion test is not repeated when the file-info comes last.
* transfer.js:127 (`SaveBlob`): `close()` during `prepare()` saves a Blob;
  `prepare()` then opens a second download, which nobody feeds or closes
  (`Stray`).
* transfer.js:731 (`VisitComplete`): chunks do not wait for the offer; a download
  may end on a page that still says that it connects, and the first offer then
  shows the transfer beside the end.
* relay_ws.go:140 (`CopyFails`): the beginning of a message whose source failed
  is delivered as a message. transfer.js:702-713 counts a chunk cut short like any
  other, so "complete" on the receiving page does not mean undamaged.
* relay.go:94 (`WriteBlocks`): a copy to a client that does not read is blocked
  without a deadline; its pair stays open although the other client has gone.
* transfer.js:122 (`RemoveIframe`): nothing checks that the download has started.
* sw.js:60 (`KillWorker`): a stopped worker has forgotten the download.
* relay.go:61 (`Pair`): two senders of a room are paired with each other.
* relay_ws.go:110 (`StartRelay`): of two senders in a pair both handlers read the
  later one's socket.
* room.go:67 (`IsReady`): slots are never cleared, so a client that left counts.
* handlers.go:93 (`TellPeer`): a notice of departure may be sent after a new
  client took the slot; and (98, `RemoveRoom`) a leaving sender removes the room
  by id, whoever uses it now.
* handlers.go:81 (`Announce`): when sender and receiver join together both
  handlers may announce, so `peer-joined` may come twice with a single visit.
* send.js:145 (`SocketFails`): the catch re-enables a button whose step is hidden
  once the link is shown; the page can only be reloaded.
* send.js:111: "Receiver disconnected" is written into the step that is hidden
  once the transfer has started; send.js:131 shows the size of the file selected
  last, which need not be the file sent.
* transfer.js:812 (`StartTransfer`): `send` drops a message when the socket has
  gone, and no page reacts to its loss (`LoseSender`).
* receive.js:25 (`StartReceive`): the button "Start Download" is shown by the task
  that hides its step again.
* receiver.rs:64 (`ConnectFails`): there is no relay path to fall back to.
* sender.rs:66, 101, receiver.rs:25 (`SenderLosesSignaling`): the loops spin when
  `recv` returns `Ok(None)`; a receiver whose sender spins waits for the header.
* receiver.rs:72 (`ReadHeader`): the two sides may differ on which stream is first.
* sender.rs:125 (`Accept`): a stream that breaks in its handshake may never be
  accepted; the sender waits for it, and the receiver for the header, without a
  timeout. The same happens to a sender whose receiver could not connect.
* protocol.rs:79-93 (`ReceiveEnds`): nothing bounds a read; a peer that is gone
  without a FIN or RST is waited for for ever (`WaitsOnDeadStream`).

### Fairness

* `TransferSender`: a connection attempt settles, a disk read settles, an
  enabled task of the event loop runs, an open connection transmits. Failures
  are never forced: `Close` is in the fairness of a connecting stream only as
  the alternative to opening.
* `ChunkReceiver`: each chunk and the file-info are delivered at least once. No
  fairness for `PrepareDone`: nothing bounds the worker's answer.
* `Transfer`: as for the two engines, and what is on a wire arrives. Cutting a wire
  is not fair, and neither is the control channel's opening: relay 0 brings the
  file-info too.
* `Pages`: timers and events of a page are handled, requests are answered, the
  server goes on. Whatever a user does, every failure and the engine's completion
  are not fair. `VisitJoins` is: the address of an open room is reachable.
* `TcpRelay`: goroutines run, the 30 s deadline and 60 s timer fire. A copy that is
  not blocked in a write returns when its source has ended; a blocked one goes on
  when its client reads, and returns when that client is gone. Clients owe
  nothing, neither reading nor leaving.
* `WsRelay`, `Signaling`: the handlers of connections that came run; clients that
  have something to say say it. Coming, leaving, and failing inside a message
  rather than between two are not fair.
* `StreamDownload`: page with its 3 s timer, the chunks that arrive, worker, fetch
  and browser go on;
  stopping the worker, cancelling, the worker's activation and every failure are
  not fair.
* `Negotiation`: something goes on happening as long as it can, on a finite
  behaviour.
* `CliTransfer`: both programs go on; handshakes of streams that are not broken
  complete; a write returns when its stream has a reader or is broken
  (`WriteReturns`). Nothing need break, fail or get lost, and a reader of a stream
  that broke silently is not told.

## 4. Proofs

TLAPS checks, for any number of streams, chunks, connections, rooms and visits
(eight modules hold theorems; `PROJECT.json` lists the results):

**Sending engine** (`TransferSenderProofs`, from `SenderAssumption`).
`SenderInvariant`: `Spec => []SenderInv`, where `SenderInv` joins `TypeOK`,
`NoOverlap`, `NoneForgotten`, `SentCountIsExact`, `BackpressureHolds` and
`PumpLifecycle`. None is inductive alone. The counter is exact only because the
chunks a pump hands over are new, which is `NoOverlap`; the cursor's reset in
`_tryStart` loses nothing only because before the first opening nothing was
claimed, which is in `PumpLifecycle`; completion fires with nothing left only
because a full exact count (`HandedIsBounded`, `FullCountEmptiesPool`) leaves no
room for a pooled or held chunk. The proof splits a task into the moves it is
made of, and shows each once: handing over (`HandoverKeepsShared`), giving up
(`RequeueKeepsShared`), claiming (`ClaimKeepsShared`), transmitting
(`TransmitKeepsShared`). The tasks then compose them. `TypeCorrect`,
`NoChunkClaimedTwice`, `NoChunkForgotten`, `CounterIsExact`,
`BuffersStayBounded`, `FiringIsJustified` and `CompletionIsJustified` follow.
`EngineIsAChunkPool` is the refinement: each task of a pump is one `Turn` of its
stream, however many chunks it hands over, gives back and takes; the end of the
drain is `Finish`, enabled because a full exact count leaves nothing over; the
rest stutters.
The module begins with the facts on splitting and joining injective sequences that
the moves rest on.

**Receiving engine** (`ChunkReceiverProofs`, from `ReceiverAssumption`).
`ReceiverInvariant`: `Spec => []ReceiverInv` with `ReceiverInv` = `TypeOK`,
`Accounting`, `InOrder`, `Phases`. The key is one equation: the sinks,
concatenated in the order the modes come, are `0, 1, ... nextWriteIndex - 1`; a
new chunk appends a run to exactly one sink (`AppendToSink`), and the counter is
the write index plus the size of the stash (`NewChunkCounts`), so a full count
means an empty stash (`FullCount`). From it: `ChunksWrittenInOrder`,
`CountIsExact`, `DownloadPhases`, `EndIsJustified`, `SavedFileIsCorrect` and the
action property `SavedFileIsLeftAlone`.

**Both engines and the wires** (`TransferProofs`, from `TransferAssumption`, which
states the assumptions of both engines). `EnginesRunAsTheyAre`: every step of
`Transfer` is a step of `TransferSender` or leaves its variables alone, and so for
`ChunkReceiver`. With it the invariants of the two engines hold in the composition
without being proved again; what is new is the wires, and what a cut relay
truncates. `ChunksTravelOnce`: a chunk
is on one wire only, once, and not when it has arrived. `Transmit` puts a chunk on
a wire that is new there because, by the sender's `NoOverlap`, it was in a buffer
and hence not delivered before; everything on a wire or arrived was delivered
(`TransferInvariant`). `TransferIsAFileTransfer` is the refinement of
`FileTransfer`: a chunk's `Place` only moves forward and is marked damaged while it
is still on the wire, the receiver completes when all chunks have arrived, whole
or damaged (`EndMeansAllCounted` of `ChunkReceiverProofs`), the sender
when each was delivered or died in the buffer of a closed connection
(`CompletionIsJustified`).

**Streaming download** (`StreamDownloadProofs`, from `StreamDownloadAssumption`).
`StreamingIsADownload`: `Spec => IsADownload`. A chunk is written to
`fallbackChunks` or to the stream, and to which depends on where `prepare()` is:
so `DownloadInv` tells three histories apart, in which `prepare()` still runs, has
ended in a Blob, or has opened the stream. In the last the chunks in `saved`,
`stream`, `entry.pending` and `port` are, in this order, the interval of the
file that begins behind `fallbackChunks`, as long as the worker has not lost its
entry, and a close is behind them all. A Blob has the whole file, because
`close()` made it of chunks that all came before the stream; a stream opened after
it stays empty. Once the worker has forgotten the download, nothing more
reaches the stream, and `download` is never `complete` afterwards.

**Pages** (`PeeringProofs`, from `PagesAssumption`). `PagesInvariant` joins
`TypeOK` with the step each page shows as a function of what happened
(`SendStepInv`, `VisitStepInv`), with `SelectInv`, that no timer or event of the
sender exists in the first step (a timer adds a step to whatever is shown), and
with `FileInv`: a visit's file-info is one that was announced, and what was
announced and what was sent are the engine's file, unless `createOffer` ran again
with another. `StepsAreExclusive` and `AnnouncementIsTrue` follow.

**Negotiation** (`PeeringProofs`, from `NegotiationAssumption`). `NegotiationInvariant`
holds for any number of connections, calls of `createOffer` and candidates, and
gives `NegotiationTypeCorrect` and `NoCandidateIsLost`. A message names a
connection that exists and carries its index (`MessagesOK`); the receiver has a
connection for every offer that was sent and is no longer under way, a count
(`OffersCounted`) that bounds how many it can make. A candidate's way is followed
through port, global list, connection list and browser (`SenderCandsKept`,
`ReceiverCandsKept`). What makes it safe to clear a list one await after it was
flushed is that nothing is put in it once the remote description is set, which
`ReceiverOK` and `SenderOK` tie to the place of the handler. `EndsMatchAfterOneCall`
proves `EndsBelongTogether` under `OfferCalls` = 1: each connection then has an
index of its own (`OwnIndex`), is offered once (`OffersOnce`), and what an index
finds is the right connection (`RightConnection`). The assumption is needed: with
`OfferCalls` = 2 TLC finds the property violated, as section 3 explains.

**WebSocket relay** (`WsRelayProofs`, from `WsRelayAssumption`).
`PanicsAreExplained`: a slot holds a connection of its role that registered in
that pair (`SlotInv`); so long as no two of one role share it, only one handler
finds it complete, and the channel open (`ClosingInv`). `RelayKeepsOrder`: as long as
no second sender came to the pair, its handler is the only one that delivers there,
so what it read is delivered to its receiver or in its hand (`ReadInv`), and every
message a client has is in its place (`GotInv`); a cut one is the last because the
handler that delivers it gives up in the same step. `SoleSender` is a state
predicate that, once false of a pair, stays false, so the invariant may assume it
in the state it speaks of. `OneOfEach` is not needed: receivers may be reloaded.

**Signaling server** (`SignalingProofs`, from `SignalingAssumption`).
`PeersAreNotNil`: slots are only ever filled or replaced, by clients of their role
that joined the same Room (`SlotInv`). `ForwardingKeepsOrder`: a handler forwards
one message before it reads the next, to a client of the other role (`PeerInv`,
`InboxInv`).

**TCP relay** (`CommandLineProofs`, from `RelayAssumption`). `RelayInvariant` joins
`TypeOK`, `PairingIsConsistent` and `PairClosedByPipesOnly`; the last is
preserved by a timer only because a pending entry is never a paired connection,
which the first two say. `PairsAreConsistent` and `TimerNeverHitsAPair` follow.

**Command line** (`CommandLineProofs`, from `CliTransferAssumption`). `CliInvariant` joins
`TypeOK` and `EachChunkOnce` with where each program and each task may be
(`Phases`), with what the listener's queue and the accepted streams have in common
(`StreamsAreCounted`), with each chunk being once on its wire, and with end markers
being last (`EndsAreLast`). Task j sends the chunks whose residue is j; the
receiver's number for a stream need not be j, so the proof goes through the place
at which the stream was accepted. `CliTypeCorrect` and `ChunksGoOnce` follow, and
`NoFalseMismatch`: the receiver reports a wrong checksum only when a stream broke.
A write to a broken stream changes nothing on its wire (`WriteToBrokenKeeps`), so
chunks that the kernel takes for nothing leave these invariants alone.

`BackpressureHolds`, `CompleteFiredMeansAllHanded` and `PumpLifecycle` of the
sending engine, `Phases` and `FinishedMeansAllWritten` of the receiving engine and
the type invariants of these modules are proved and not in a run: they are parts
or consequences of the invariants above.

**Only model-checked.** Liveness (`RetryServed`, `TransferCompletes`, `DownloadEnds`,
`BothComplete`, `VisitIsServed`, `BrokenPairIsClosed`, `AllDelivered`,
`BrokenRelayIsRemoved`, `MeetAndTalk`, `LeavingIsNoticed`, `EntryIsReleased`,
`DownloadCompletes`, `EveryPairNegotiates`, `NobodyHangs`, `TransferFinishes`), which
is beyond the prover under fairness. Every invariant, every action property and
every refinement that a passing run checks is proved.

## 5. What is not modelled

* What is only displayed: `progress.rs`, the speed samples, `formatBytes`,
  `formatSpeed`, `formatTime`, status texts, progress bars. The interval timers
  that drive the display are in `Transfer`.
* `_addTurn` and `turn.go`: a failure is ignored and only the choice of network
  path changes; the servers it adds may come after gathering has begun, and ICE
  then goes without them. `_fixSDP` rewrites text that the model does not have.
* `StreamingDownloader.abort`, the worker's `abort` message,
  `TransferEngine.destroy` and `SignalingClient.close` have no caller.
* Chunk contents and lengths: a chunk is its index, whole or cut short. The 4-byte header and the
  index width (32 bits, 2^32 chunks of 64 KB) are not reached by any file.
* A second `createOffer` on one engine: `Negotiation` and `Pages` have it, as
  far as connections and steps go, but `TransferSender` and `Transfer` are about
  one call. Section 3 lists what it leads to.
* The `Content-Length` that the worker declares: `Download` speaks of chunks.
* Routing, templates, styles, deployment.

## 6. Plan

Done: every component that changes state has a module and a run, and its safety is
proved; so are the three refinements.

Next, proving:

1. `CliTransfer` implements an abstract specification of its own, as the browser's
   transfer does: "ok" only with the whole file, a stream's chunks in order.
2. The safety that liveness rests on: what each of `BrokenPairIsClosed`,
   `BrokenRelayIsRemoved` and `EntryIsReleased` waits for stays possible until it
   happens.

Next, extending the model: a second `createOffer` in `TransferSender`, with the
sockets it replaces; `Pages` over `Signaling` by a refinement instead of its own
view of the server.
