-------------------------------- MODULE WsRelay --------------------------------
(***************************************************************************)
(* RelayWSHub (internal/handlers/relay_ws.go): the WebSocket relay.  Every *)
(* connection has a handler goroutine that registers in the pair of its    *)
(* key (room and index), waits until the other role is there, and then     *)
(* copies messages until something fails.  Keys do not interact, so the    *)
(* module is about one key; a pair is named by the connection whose        *)
(* handler created it, for a handler looks up its pair once.               *)
(*                                                                         *)
(* An action is what one handler does between two points where another     *)
(* may run: the two mutexes, close(pair.ready), the wait on it, a read.    *)
(***************************************************************************)
EXTENDS Integers, Sequences

CONSTANTS
  Conns,     \* connections that ask for this key, each with its handler
  Role,      \* their role parameter, "sender" or "receiver"
  MsgCount,  \* bound: messages the client of a sender connection sends
  None       \* no connection, a nil *websocket.Conn; no pair

Roles == {"sender", "receiver"}

ASSUME WsRelayAssumption ==
  /\ Role \in [Conns -> Roles]
  /\ MsgCount \in Nat
  /\ None \notin Conns

VARIABLES
  pc,        \* where each handler is
  current,   \* h.pairs[key], None when the key is absent
  pairOf,    \* the handler's local pair
  slot,      \* each pair's sender and receiver fields
  ready,     \* the pairs whose ready channel is closed
  src, dst,  \* the arguments of the handler's wsRelay
  hand,      \* the message it is copying, 0 when it waits for the next
  sock,      \* the server's end of each connection
  client,    \* the client's end
  sent,      \* messages the client has sent so far
  read,      \* messages of the connection the server has read so far
  got        \* messages delivered to the client: <<connection, number, part>>

pairVars == <<pairOf, slot, ready, src, dst>>
wireVars == <<sock, client, sent, read, got>>
vars == <<pc, hand, current, pairVars, wireVars>>

\* What a client gets of a message: all of it, or what had been copied when the
\* source failed, which looks like a message of its own.
Deliveries == Conns \X (1 .. MsgCount) \X {"whole", "cut"}

TypeOK ==
  /\ pc \in [Conns -> {"new", "holding", "closing", "waiting", "relaying",
                       "leaving", "done", "panicked"}]
  /\ current \in Conns \cup {None}
  /\ pairOf \in [Conns -> Conns \cup {None}]
  /\ slot \in [Conns -> [Roles -> Conns \cup {None}]]
  /\ ready \in SUBSET Conns
  /\ src \in [Conns -> Conns \cup {None}] /\ dst \in [Conns -> Conns \cup {None}]
  /\ hand \in [Conns -> 0 .. MsgCount]
  /\ sock \in [Conns -> {"open", "closed"}]
  /\ client \in [Conns -> {"connected", "gone"}]
  /\ sent \in [Conns -> 0 .. MsgCount] /\ read \in [Conns -> 0 .. MsgCount]
  /\ got \in [Conns -> Seq(Deliveries)]

\* No connection has looked up its pair; "new" is also one still to come.
Init ==
  /\ pc = [h \in Conns |-> "new"]
  /\ current = None
  /\ pairOf = [h \in Conns |-> None]
  /\ slot = [p \in Conns |-> [r \in Roles |-> None]]
  /\ ready = {}
  /\ src = [h \in Conns |-> None] /\ dst = [h \in Conns |-> None]
  /\ hand = [h \in Conns |-> 0]
  /\ sock = [h \in Conns |-> "open"]
  /\ client = [h \in Conns |-> "connected"]
  /\ sent = [h \in Conns |-> 0] /\ read = [h \in Conns |-> 0]
  /\ got = [h \in Conns |-> <<>>]

\* getOrCreatePair, under h.mu.
GetOrCreatePair(h) ==
  /\ pc[h] = "new"
  /\ current' = IF current = None THEN h ELSE current
  /\ pairOf' = [pairOf EXCEPT ![h] = current']
  /\ pc' = [pc EXCEPT ![h] = "holding"]
  /\ UNCHANGED <<hand, slot, ready, src, dst, wireVars>>

BothReady_AnySlot(p) == \E r \in Roles : slot'[p][r] # None
BothReady(p) == \A r \in Roles : slot'[p][r] # None

\* The handler stores its connection in the pair, under pair.mu, over whatever
\* is there, and decides whether it is the one to close pair.ready.
Register(h) ==
  /\ pc[h] = "holding"
  /\ slot' = [slot EXCEPT ![pairOf[h]][Role[h]] = h]
  /\ pc' = [pc EXCEPT ![h] = IF BothReady(pairOf[h]) THEN "closing" ELSE "waiting"]
  /\ UNCHANGED <<hand, current, pairOf, ready, src, dst, wireVars>>

\* close(pair.ready).  On a closed channel it panics; net/http recovers the
\* panic, but the connection is hijacked: nobody closes it or removes the pair.
CloseReady(h) ==
  /\ pc[h] = "closing"
  /\ pc' = [pc EXCEPT ![h] = IF pairOf[h] \in ready THEN "panicked" ELSE "waiting"]
  /\ ready' = ready \cup {pairOf[h]}
  /\ UNCHANGED <<hand, current, pairOf, slot, src, dst, wireVars>>

Other(role) == IF role = "sender" THEN "receiver" ELSE "sender"

StartRelay_OneWay(h) ==
  /\ pc[h] = "waiting"
  /\ pairOf[h] \in ready
  /\ src' = [src EXCEPT ![h] = slot[pairOf[h]]["sender"]]
  /\ dst' = [dst EXCEPT ![h] = slot[pairOf[h]]["receiver"]]
  /\ pc' = [pc EXCEPT ![h] = "relaying"]
  /\ UNCHANGED <<hand, current, pairOf, slot, ready, wireVars>>

\* <-pair.ready returns; the two fields are read again, under pair.mu.
StartRelay(h) ==
  /\ pc[h] = "waiting"
  /\ pairOf[h] \in ready
  /\ src' = [src EXCEPT ![h] = slot[pairOf[h]][Role[h]]]
  /\ dst' = [dst EXCEPT ![h] = slot[pairOf[h]][Other(Role[h])]]
  /\ pc' = [pc EXCEPT ![h] = "relaying"]
  /\ UNCHANGED <<hand, current, pairOf, slot, ready, wireVars>>

\* wsRelay returned; the handler closes its own connection.
Leave(h) ==
  /\ pc' = [pc EXCEPT ![h] = "leaving"]
  /\ sock' = [sock EXCEPT ![h] = "closed"]

\* NextReader returns: the next message of src begins.
ReadMessage(h) ==
  /\ pc[h] = "relaying" /\ hand[h] = 0
  /\ sock[src[h]] = "open" /\ read[src[h]] < sent[src[h]]
  /\ read' = [read EXCEPT ![src[h]] = @ + 1]
  /\ hand' = [hand EXCEPT ![h] = read'[src[h]]]
  /\ UNCHANGED <<pc, current, pairVars, sock, client, sent, got>>

\* The client of src left, or the server closed its end.
SourceFailed(h) == client[src[h]] = "gone" \/ sock[src[h]] = "closed"

\* NextReader fails.
ReadFails(h) ==
  /\ pc[h] = "relaying" /\ hand[h] = 0
  /\ SourceFailed(h)
  /\ Leave(h)
  /\ UNCHANGED <<hand, current, pairVars, client, sent, read, got>>

\* writer.Close() sends what was copied of the message to the client of dst.
Deliver(h, part) ==
  /\ sock[dst[h]] = "open" /\ client[dst[h]] = "connected"
  /\ got' = [got EXCEPT ![dst[h]] = Append(@, <<src[h], hand[h], part>>)]

\* NextWriter or a write fails for certain on a socket the server closed.  What
\* is written to a client that left fails or gets lost.
TargetFailed(h) == sock[dst[h]] = "closed" \/ client[dst[h]] = "gone"
SwallowedByTarget(h) == sock[dst[h]] = "open" /\ client[dst[h]] = "gone"

WriteMessage_Forgets(h) ==
  /\ pc[h] = "relaying" /\ hand[h] # 0
  /\ hand' = [hand EXCEPT ![h] = 0]
  /\ UNCHANGED <<pc, current, pairVars, sock, client, sent, read, got>>

\* The message was copied to its end; or dst fails on the way.
WriteMessage(h) ==
  /\ pc[h] = "relaying" /\ hand[h] # 0
  /\ hand' = [hand EXCEPT ![h] = 0]
  /\ \/ Deliver(h, "whole") /\ UNCHANGED <<pc, sock>>
     \/ SwallowedByTarget(h) /\ UNCHANGED <<pc, sock, got>>
     \/ TargetFailed(h) /\ Leave(h) /\ UNCHANGED got
  /\ UNCHANGED <<current, pairVars, client, sent, read>>

\* src fails inside the message.  The writer is closed all the same, and what was
\* copied goes out as if it were the message.
CopyFails(h) ==
  /\ pc[h] = "relaying" /\ hand[h] # 0
  /\ SourceFailed(h)
  /\ hand' = [hand EXCEPT ![h] = 0]
  /\ \/ Deliver(h, "cut")
     \/ TargetFailed(h) /\ UNCHANGED got
  /\ Leave(h)
  /\ UNCHANGED <<current, pairVars, client, sent, read>>

RemovePair_Forgets(h) ==
  /\ pc[h] = "leaving"
  /\ pc' = [pc EXCEPT ![h] = "done"]
  /\ UNCHANGED <<hand, current, pairVars, wireVars>>

\* removePair(key), under h.mu: whichever pair the key names now.
RemovePair(h) ==
  /\ pc[h] = "leaving"
  /\ current' = None
  /\ pc' = [pc EXCEPT ![h] = "done"]
  /\ UNCHANGED <<hand, pairVars, wireVars>>

\* The client of a sender connection sends its next message.
ClientSends(h) ==
  /\ Role[h] = "sender" /\ client[h] = "connected"
  /\ sent[h] < MsgCount
  /\ sent' = [sent EXCEPT ![h] = @ + 1]
  /\ UNCHANGED <<pc, hand, current, pairVars, sock, client, read, got>>

\* The page is closed or reloaded, or the network fails.
ClientLeaves(h) ==
  /\ client[h] = "connected"
  /\ client' = [client EXCEPT ![h] = "gone"]
  /\ UNCHANGED <<pc, hand, current, pairVars, sock, sent, read, got>>

Handler(h) ==
  \/ GetOrCreatePair(h) \/ Register(h) \/ CloseReady(h) \/ StartRelay(h)
  \/ ReadMessage(h) \/ ReadFails(h) \/ WriteMessage(h) \/ CopyFails(h) \/ RemovePair(h)

Next == \E h \in Conns : Handler(h) \/ ClientSends(h) \/ ClientLeaves(h)

\* Goroutines run, and a client that stays sends what it has; nobody has to
\* come or to leave.
Fairness ==
  /\ \A h \in Conns : WF_vars(pc[h] # "new" /\ Handler(h))
  /\ \A h \in Conns : WF_vars(ClientSends(h))

Spec     == Init /\ [][Next]_vars
FairSpec == Spec /\ Fairness
-----------------------------------------------------------------------------

\* The hub's intended use: one connection of each role came for the key.
OneOfEach ==
  \A g, h \in Conns : g # h /\ Role[g] = Role[h] => "new" \in {pc[g], pc[h]}

Stays(h) == pc[h] # "new" /\ client[h] = "connected"

(***************************************************************************)
(* close(pair.ready) panics only when two connections of one role share a  *)
(* pair (a page that opened its relays twice, or was reloaded): with one   *)
(* connection of each role only the second to register closes it.          *)
(***************************************************************************)
PanicNeedsSameRole ==
  \A h \in Conns :
    pc[h] = "panicked" =>
      \E f, g \in Conns :
        f # g /\ Role[f] = Role[g] /\ pairOf[f] = pairOf[h] /\ pairOf[g] = pairOf[h]

\* At most one sender connection came to the pair p.
SoleSender(p) ==
  \A f, g \in Conns :
    Role[f] = "sender" /\ Role[g] = "sender" /\ pairOf[f] = p /\ pairOf[g] = p => f = g

(***************************************************************************)
(* While no second sender came to its pair, and however often receivers    *)
(* are reloaded, a client gets what the sender of its pair sent, in order  *)
(* and without a gap; only the last message may be the cut beginning of    *)
(* one, and then the sender's client left in the middle of it and its      *)
(* handler has given up.                                                   *)
(***************************************************************************)
DeliversPrefix ==
  \A d \in Conns : SoleSender(pairOf[d]) =>
    \A i \in DOMAIN got[d] :
      LET c == got[d][i][1]
      IN  /\ Role[c] # Role[d] /\ pairOf[c] = pairOf[d]
          /\ got[d][i][2] = i
          /\ got[d][i][3] = "cut" =>
               i = Len(got[d]) /\ client[c] = "gone" /\ sock[c] = "closed"

(***************************************************************************)
(* When one connection of each role comes, in whatever order, and both     *)
(* clients stay, the receiver gets every message.                          *)
(***************************************************************************)
AllDelivered ==
  \A s, d \in Conns :
    Role[s] = "sender" /\ Role[d] = "receiver" =>
      ([]OneOfEach /\ <>[](Stays(s) /\ Stays(d)) => <>(Len(got[d]) = MsgCount))

(***************************************************************************)
(* With one connection of each role, a relaying handler whose client       *)
(* leaves ends, closes its connection and takes the pair out of the table. *)
(***************************************************************************)
BrokenRelayIsRemoved ==
  \A h \in Conns :
    []OneOfEach =>
      ((pc[h] = "relaying" /\ client[h] = "gone") ~>
        (pc[h] = "done" /\ sock[h] = "closed" /\ current = None))
=============================================================================
