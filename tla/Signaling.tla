------------------------------- MODULE Signaling -------------------------------
(***************************************************************************)
(* The signaling server: signaling.Hub and Room (internal/signaling) and   *)
(* the handler goroutine HandleWebSocket (internal/handlers/handlers.go)   *)
(* runs for every connection.  Rooms with different ids do not interact,   *)
(* so the module is about one id, which may name several Room objects over *)
(* time; a Room is named by the connection whose handler created it.       *)
(*                                                                         *)
(* An action is what one handler does between two points where another     *)
(* may run: a critical section of hub.mu or room.mu, a read, a write.      *)
(***************************************************************************)
EXTENDS Integers, Sequences

CONSTANTS
  Conns,        \* the requests for /ws?room=<id>, each with its handler
  Role,         \* their role parameter, "sender" or "receiver"
  RoomCreated,  \* was the id made by POST /api/room (HandleCreateRoom) before?
  MsgCount,     \* bound: how many signaling messages each client sends
  Posted,       \* the Room of that request
  None          \* no client, a nil *Client; no room

Roles == {"sender", "receiver"}

ASSUME SignalingAssumption ==
  /\ Role \in [Conns -> Roles]
  /\ RoomCreated \in BOOLEAN
  /\ MsgCount \in [Conns -> Nat]
  /\ None \notin Conns \cup {Posted} /\ Posted \notin Conns

Rooms == Conns \cup {Posted}

Other(role) == IF role = "sender" THEN "receiver" ELSE "sender"

VARIABLES
  pc,      \* where each handler is
  current, \* hub.rooms[id], None when the id is absent
  roomOf,  \* the handler's local room
  slot,    \* each room's Sender and Receiver
  peer,    \* the handler's local peer, None out of its scope
  client,  \* the page or program at the other end
  sent,    \* messages the client has sent so far
  read,    \* messages the handler has read so far
  told,    \* the notices each client received, "peer-joined" and the like
  inbox    \* the messages of other clients it received: <<from, number>>

clientVars == <<client, sent>>
inVars     == <<told, inbox>>
vars == <<pc, current, roomOf, slot, peer, clientVars, read, inVars>>

TypeOK ==
  /\ pc \in [Conns -> {"new", "creating", "joining", "joined", "tell sender",
                       "tell receiver", "loop", "forwarding", "closed",
                       "parting", "cleaning", "done"}]
  /\ current \in Rooms \cup {None}
  /\ roomOf \in [Conns -> Rooms \cup {None}]
  /\ slot \in [Rooms -> [Roles -> Conns \cup {None}]]
  /\ peer \in [Conns -> Conns \cup {None}]
  /\ client \in [Conns -> {"connected", "gone"}]
  /\ sent \in [Conns -> Nat] /\ read \in [Conns -> Nat]
  /\ \A h \in Conns : read[h] <= sent[h] /\ sent[h] <= MsgCount[h]
  /\ told \in [Conns -> SUBSET {"peer-joined", "peer-disconnected"}]
  /\ inbox \in [Conns -> Seq(Conns \X Nat)]

\* No request has looked up the room; "new" is also one still to come.
Init ==
  /\ pc = [h \in Conns |-> "new"]
  /\ current = (IF RoomCreated THEN Posted ELSE None)
  /\ roomOf = [h \in Conns |-> None]
  /\ slot = [r \in Rooms |-> [role \in Roles |-> None]]
  /\ peer = [h \in Conns |-> None]
  /\ client = [h \in Conns |-> "connected"]
  /\ sent = [h \in Conns |-> 0] /\ read = [h \in Conns |-> 0]
  /\ told = [h \in Conns |-> {}] /\ inbox = [h \in Conns |-> <<>>]

GetRoom_SenderAlwaysCreates(h) ==
  /\ pc[h] = "new"
  /\ roomOf' = [roomOf EXCEPT ![h] = current]
  /\ pc' = [pc EXCEPT ![h] = IF Role[h] = "sender" THEN "creating"
                             ELSE IF current # None THEN "joining" ELSE "done"]
  /\ UNCHANGED <<current, slot, peer, clientVars, read, inVars>>

\* GetRoom, under hub.mu.  A receiver without a room gets a 404.
GetRoom(h) ==
  /\ pc[h] = "new"
  /\ roomOf' = [roomOf EXCEPT ![h] = current]
  /\ pc' = [pc EXCEPT ![h] = IF current # None THEN "joining"
                             ELSE IF Role[h] = "sender" THEN "creating" ELSE "done"]
  /\ UNCHANGED <<current, slot, peer, clientVars, read, inVars>>

\* CreateRoomWithID: the id names the new room, whatever it named before.
CreateRoomWithID(h) ==
  /\ pc[h] = "creating"
  /\ current' = h
  /\ roomOf' = [roomOf EXCEPT ![h] = h]
  /\ pc' = [pc EXCEPT ![h] = "joining"]
  /\ UNCHANGED <<slot, peer, clientVars, read, inVars>>

\* The upgrade, and SetSender or SetReceiver over whoever was there.
Join(h) ==
  /\ pc[h] = "joining"
  /\ slot' = [slot EXCEPT ![roomOf[h]][Role[h]] = h]
  /\ pc' = [pc EXCEPT ![h] = "joined"]
  /\ UNCHANGED <<current, roomOf, peer, clientVars, read, inVars>>

\* The upgrade fails: the client has gone; nothing is cleaned up.
UpgradeFails(h) ==
  /\ pc[h] = "joining" /\ client[h] = "gone"
  /\ pc' = [pc EXCEPT ![h] = "done"]
  /\ UNCHANGED <<current, roomOf, slot, peer, clientVars, read, inVars>>

IsReady_AnyOne(r) == \E role \in Roles : slot[r][role] # None
IsReady(r) == \A role \in Roles : slot[r][role] # None

\* Client.Send reaches a client that is connected; its error is ignored.
Reaches(to) ==
  client[to] = "connected" /\ pc[to] \notin {"closed", "parting", "cleaning", "done"}

Notify(to, notice) ==
  /\ told' = IF Reaches(to) THEN [told EXCEPT ![to] = @ \cup {notice}] ELSE told
  /\ UNCHANGED inbox

Relay(h) ==
  /\ inbox' = IF Reaches(peer[h])
              THEN [inbox EXCEPT ![peer[h]] = Append(@, <<h, read[h]>>)] ELSE inbox
  /\ UNCHANGED told

CheckReady(h) ==
  /\ pc[h] = "joined"
  /\ pc' = [pc EXCEPT ![h] = IF IsReady(roomOf[h]) THEN "tell sender" ELSE "loop"]
  /\ UNCHANGED <<current, roomOf, slot, peer, clientVars, read, inVars>>

\* room.Sender.Send and room.Receiver.Send; both fields are read without room.mu.
TellSender(h) ==
  /\ pc[h] = "tell sender"
  /\ Notify(slot[roomOf[h]].sender, "peer-joined")
  /\ pc' = [pc EXCEPT ![h] = "tell receiver"]
  /\ UNCHANGED <<current, roomOf, slot, peer, clientVars, read>>

TellReceiver(h) ==
  /\ pc[h] = "tell receiver"
  /\ Notify(slot[roomOf[h]].receiver, "peer-joined")
  /\ pc' = [pc EXCEPT ![h] = "loop"]
  /\ UNCHANGED <<current, roomOf, slot, peer, clientVars, read>>

GetPeer(h) == slot[roomOf[h]][Other(Role[h])]

\* ReadMessage, then GetPeer under room.mu; a message for nobody is dropped.
ReadMessage(h) ==
  /\ pc[h] = "loop"
  /\ read[h] < sent[h]
  /\ read' = [read EXCEPT ![h] = @ + 1]
  /\ peer' = [peer EXCEPT ![h] = GetPeer(h)]
  /\ pc' = [pc EXCEPT ![h] = IF GetPeer(h) = None THEN "loop" ELSE "forwarding"]
  /\ UNCHANGED <<current, roomOf, slot, clientVars, inVars>>

Forward_Retries(h) ==
  /\ pc[h] = "forwarding"
  /\ Relay(h)
  /\ \E next \in {"loop", "forwarding"} : pc' = [pc EXCEPT ![h] = next]
  /\ UNCHANGED <<current, roomOf, slot, peer, clientVars, read>>

Forward(h) ==
  /\ pc[h] = "forwarding"
  /\ Relay(h)
  /\ peer' = [peer EXCEPT ![h] = None]
  /\ pc' = [pc EXCEPT ![h] = "loop"]
  /\ UNCHANGED <<current, roomOf, slot, clientVars, read>>

ReadFails_NoDefer(h) ==
  /\ pc[h] = "loop"
  /\ client[h] = "gone"
  /\ pc' = [pc EXCEPT ![h] = "done"]
  /\ UNCHANGED <<current, roomOf, slot, peer, clientVars, read, inVars>>

\* The read fails and the deferred function closes the connection.
ReadFails(h) ==
  /\ pc[h] = "loop"
  /\ client[h] = "gone"
  /\ pc' = [pc EXCEPT ![h] = "closed"]
  /\ UNCHANGED <<current, roomOf, slot, peer, clientVars, read, inVars>>

\* It looks up the peer, under room.mu; its own field stays set.
PartFrom(h) ==
  /\ pc[h] = "closed"
  /\ peer' = [peer EXCEPT ![h] = GetPeer(h)]
  /\ pc' = [pc EXCEPT ![h] = IF GetPeer(h) = None THEN "cleaning" ELSE "parting"]
  /\ UNCHANGED <<current, roomOf, slot, clientVars, read, inVars>>

TellPeer(h) ==
  /\ pc[h] = "parting"
  /\ Notify(peer[h], "peer-disconnected")
  /\ peer' = [peer EXCEPT ![h] = None]
  /\ pc' = [pc EXCEPT ![h] = "cleaning"]
  /\ UNCHANGED <<current, roomOf, slot, clientVars, read>>

\* RemoveRoom(roomID) when a sender leaves: whichever room the id names now.
RemoveRoom(h) ==
  /\ pc[h] = "cleaning"
  /\ current' = IF Role[h] = "sender" THEN None ELSE current
  /\ pc' = [pc EXCEPT ![h] = "done"]
  /\ UNCHANGED <<roomOf, slot, peer, clientVars, read, inVars>>

\* A sending page talks once it is told of its peer (send.js), a receiving one
\* once it has an offer to answer (receive.js).
ClientSends(h) ==
  /\ client[h] = "connected"
  /\ sent[h] < MsgCount[h]
  /\ IF Role[h] = "sender" THEN "peer-joined" \in told[h] ELSE inbox[h] # <<>>
  /\ sent' = [sent EXCEPT ![h] = @ + 1]
  /\ UNCHANGED <<pc, current, roomOf, slot, peer, client, read, inVars>>

\* A page is closed or reloaded, a program ends, the network fails.
ClientLeaves(h) ==
  /\ client[h] = "connected" /\ pc[h] # "new"
  /\ client' = [client EXCEPT ![h] = "gone"]
  /\ UNCHANGED <<pc, current, roomOf, slot, peer, sent, read, inVars>>

Handler(h) ==
  \/ GetRoom(h) \/ CreateRoomWithID(h) \/ Join(h) \/ UpgradeFails(h)
  \/ CheckReady(h) \/ TellSender(h) \/ TellReceiver(h)
  \/ ReadMessage(h) \/ Forward(h) \/ ReadFails(h)
  \/ PartFrom(h) \/ TellPeer(h) \/ RemoveRoom(h)

Next == \E h \in Conns : Handler(h) \/ ClientSends(h) \/ ClientLeaves(h)

\* Goroutines run, and a client that stays sends what it has; nobody has to
\* come or to leave.
Fairness ==
  \A h \in Conns : WF_vars(pc[h] # "new" /\ Handler(h)) /\ WF_vars(ClientSends(h))

Spec     == Init /\ [][Next]_vars
FairSpec == Spec /\ Fairness
-----------------------------------------------------------------------------

(***************************************************************************)
(* room.Sender.Send and room.Receiver.Send never dereference nil, although *)
(* both fields are read after room.mu was released: a slot, once filled,   *)
(* is only ever replaced by another client.                                *)
(***************************************************************************)
NoNilPeer ==
  \A h \in Conns : \A role \in Roles :
    pc[h] \in {"tell sender", "tell receiver"} => slot[roomOf[h]][role] # None

(***************************************************************************)
(* A signaling message only reaches a client of the other role that joined *)
(* the same Room, and one client's messages arrive in the order they were  *)
(* sent, none twice, whoever replaces whom.                                *)
(***************************************************************************)
ForwardedInOrder ==
  \A d \in Conns : \A i, j \in DOMAIN inbox[d] :
    LET h == inbox[d][i][1]
    IN  /\ Role[h] # Role[d] /\ roomOf[h] = roomOf[d]
        /\ i < j /\ inbox[d][j][1] = h => inbox[d][i][2] < inbox[d][j][2]

\* The intended session: one connection of each role came for the id.
OneOfEach ==
  \A g, h \in Conns : g # h /\ Role[g] = Role[h] => "new" \in {pc[g], pc[h]}

\* Two clients that came for the id, one of each role.
Session ==
  {p \in Conns \X Conns : Role[p[1]] # Role[p[2]] /\ "new" \notin {pc[p[1]], pc[p[2]]}}

Messages(d, h) == SelectSeq(inbox[d], LAMBDA m : m[1] = h)

Connected(h) == client[h] = "connected"
Told(g, h)   == "peer-joined" \in told[g] /\ Len(Messages(g, h)) = MsgCount[h]

(***************************************************************************)
(* If one sender and one receiver connect to a created room, in whatever   *)
(* order, and stay, both are told of each other and all they then say      *)
(* arrives: no message is dropped for want of a peer.                      *)
(***************************************************************************)
MeetAndTalk ==
  []OneOfEach /\ <>[](\E p \in Session : Connected(p[1]) /\ Connected(p[2]))
    => <>(\E p \in Session : Told(p[1], p[2]) /\ Told(p[2], p[1]))

(***************************************************************************)
(* When one of two clients that are both being served leaves, the other    *)
(* is told, unless it leaves too.  Stated for one connection of each role. *)
(***************************************************************************)
LeavingIsNoticed ==
  []OneOfEach =>
    ((\E p \in Session : pc[p[1]] = "loop" /\ pc[p[2]] = "loop" /\ ~Connected(p[1]))
       ~> (\E p \in Session :
             ~Connected(p[1]) /\ (~Connected(p[2]) \/ "peer-disconnected" \in told[p[2]])))
=============================================================================
