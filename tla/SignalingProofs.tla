---------------------------- MODULE SignalingProofs ----------------------------
(***************************************************************************)
(* The safety of the signaling server for any number of connections of one *)
(* id and of messages: what Signaling checks on three connections.         *)
(*                                                                         *)
(* Both properties rest on what a slot of a Room holds: once filled, it    *)
(* always holds a client of its role that joined that Room (SlotInv), so a *)
(* handler that found the Room ready finds it so for ever, and a handler's *)
(* peer is a client of the other role (PeerInv).  A handler forwards one   *)
(* message before it reads the next (InboxInv).                            *)
(***************************************************************************)
EXTENDS Signaling, TLAPS

\* The handler has a Room and keeps it.
InRoom(h) == pc[h] \notin {"new", "creating"} /\ roomOf[h] # None

Joined(h) == InRoom(h) /\ pc[h] # "joining"

RoomInv == \A h \in Conns : pc[h] \in {"new", "creating", "done"} \/ InRoom(h)

SlotInv ==
  \A r \in Rooms, role \in Roles :
    slot[r][role] # None =>
      roomOf[slot[r][role]] = r /\ Role[slot[r][role]] = role /\ Joined(slot[r][role])

PeerInv ==
  \A h \in Conns :
    /\ pc[h] \in {"forwarding", "parting"} => peer[h] # None
    /\ peer[h] # None =>
         /\ InRoom(h) /\ Joined(peer[h])
         /\ roomOf[peer[h]] = roomOf[h] /\ Role[peer[h]] # Role[h]

\* The message m in the inbox of d is one that its sender's handler has read,
\* and not the one that it is about to forward.
Arrived(d, m) ==
  /\ InRoom(d) /\ InRoom(m[1])
  /\ Role[m[1]] # Role[d] /\ roomOf[m[1]] = roomOf[d]
  /\ m[2] <= read[m[1]]
  /\ pc[m[1]] = "forwarding" => m[2] < read[m[1]]

InboxInv ==
  \A d \in Conns :
    /\ \A i \in DOMAIN inbox[d] : Arrived(d, inbox[d][i])
    /\ \A i, j \in DOMAIN inbox[d] :
         i < j /\ inbox[d][i][1] = inbox[d][j][1] => inbox[d][i][2] < inbox[d][j][2]

SignalingInv == TypeOK /\ RoomInv /\ SlotInv /\ NoNilPeer /\ PeerInv /\ InboxInv

-----------------------------------------------------------------------------

LEMMA ClientKeepsType ==
  ASSUME TypeOK, NEW h \in Conns, ClientSends(h) \/ ClientLeaves(h)
  PROVE  TypeOK'
<1>1. CASE ClientSends(h)
  <2>0. /\ sent \in [Conns -> Nat] /\ sent[h] \in Nat /\ sent[h] + 1 \in Nat
        /\ sent[h] < MsgCount[h] /\ MsgCount[h] \in Nat
        /\ sent' = [sent EXCEPT ![h] = sent[h] + 1] /\ read' = read
    <3>1. sent \in [Conns -> Nat]
      BY DEF TypeOK
    <3>2. MsgCount[h] \in Nat
      BY SignalingAssumption
    <3> QED BY <1>1, <3>1, <3>2 DEF ClientSends
  <2>1. sent' \in [Conns -> Nat]
    BY <2>0
  <2>2. ASSUME NEW g \in Conns PROVE read'[g] <= sent'[g] /\ sent'[g] <= MsgCount[g]
    <3>1. read[g] \in Nat /\ sent[g] \in Nat /\ read[g] <= sent[g] /\ sent[g] <= MsgCount[g]
      BY DEF TypeOK
    <3>2. sent'[g] = IF g = h THEN sent[h] + 1 ELSE sent[g]
      BY <2>0
    <3> QED BY <2>0, <3>1, <3>2
  <2> QED BY <1>1, <2>1, <2>2 DEF TypeOK, ClientSends, inVars
<1>2. CASE ClientLeaves(h)
  BY <1>2 DEF TypeOK, ClientLeaves, inVars
<1> QED BY <1>1, <1>2

LEMMA NotifyKeepsType ==
  ASSUME TypeOK, NEW to, NEW notice \in {"peer-joined", "peer-disconnected"},
         Notify(to, notice)
  PROVE  told' \in [Conns -> SUBSET {"peer-joined", "peer-disconnected"}] /\ inbox' = inbox
BY DEF Notify, TypeOK

LEMMA HandlerKeepsType ==
  ASSUME TypeOK, RoomInv, PeerInv, NEW h \in Conns, Handler(h)
  PROVE  TypeOK'
<1>r. Role[h] \in Roles /\ Other(Role[h]) \in Roles
  BY SignalingAssumption DEF Other, Roles
<1>0. pc[h] \notin {"new", "creating", "done"}
        => roomOf[h] \in Rooms /\ Role[h] \in Roles /\ GetPeer(h) \in Conns \cup {None}
  <2> SUFFICES ASSUME pc[h] \notin {"new", "creating", "done"}
               PROVE  roomOf[h] \in Rooms /\ GetPeer(h) \in Conns \cup {None}
    BY <1>r
  <2>1. roomOf[h] \in Rooms
    BY DEF RoomInv, InRoom, TypeOK
  <2>2. slot[roomOf[h]] \in [Roles -> Conns \cup {None}]
    BY <2>1 DEF TypeOK
  <2> QED BY <1>r, <2>1, <2>2 DEF GetPeer
<1> USE SignalingAssumption DEF TypeOK
<1>1. CASE GetRoom(h)
  BY <1>1 DEF GetRoom, clientVars, inVars
<1>2. CASE CreateRoomWithID(h)
  BY <1>2 DEF CreateRoomWithID, Rooms, clientVars, inVars
<1>3. CASE Join(h)
  BY <1>0, <1>3 DEF Join, clientVars, inVars
<1>4. CASE UpgradeFails(h) \/ CheckReady(h) \/ ReadFails(h)
  BY <1>4 DEF UpgradeFails, CheckReady, ReadFails, clientVars, inVars
<1>5. CASE TellSender(h)
  <2>1. told' \in [Conns -> SUBSET {"peer-joined", "peer-disconnected"}] /\ inbox' = inbox
    BY <1>5, NotifyKeepsType DEF TellSender
  <2> QED BY <1>5, <2>1 DEF TellSender, clientVars
<1>6. CASE TellReceiver(h)
  <2>1. told' \in [Conns -> SUBSET {"peer-joined", "peer-disconnected"}] /\ inbox' = inbox
    BY <1>6, NotifyKeepsType DEF TellReceiver
  <2> QED BY <1>6, <2>1 DEF TellReceiver, clientVars
<1>7. CASE ReadMessage(h)
  <2>1. peer' \in [Conns -> Conns \cup {None}]
    BY <1>0, <1>7 DEF ReadMessage
  <2>2. read' \in [Conns -> Nat] /\ \A g \in Conns : read'[g] <= sent[g]
    <3>1. /\ read[h] \in Nat /\ sent[h] \in Nat /\ read[h] < sent[h]
          /\ read' = [read EXCEPT ![h] = read[h] + 1]
      BY <1>7 DEF ReadMessage
    <3>2. \A g \in Conns : read'[g] = IF g = h THEN read[h] + 1 ELSE read[g]
      BY <3>1
    <3>3. read \in [Conns -> Nat] /\ \A g \in Conns : read[g] <= sent[g]
      OBVIOUS
    <3> HIDE DEF TypeOK
    <3>4. read' \in [Conns -> Nat]
      BY <3>1, <3>3
    <3> QED BY <3>1, <3>2, <3>3, <3>4
  <2> QED BY <1>7, <2>1, <2>2 DEF ReadMessage, clientVars, inVars
<1>8. CASE Forward(h)
  <2>1. inbox' \in [Conns -> Seq(Conns \X Nat)]
    <3>1. CASE inbox' = [inbox EXCEPT ![peer[h]] = Append(@, <<h, read[h]>>)]
      <4>1. peer[h] \in Conns /\ <<h, read[h]>> \in Conns \X Nat
        BY <1>8 DEF Forward, PeerInv
      <4>2. Append(inbox[peer[h]], <<h, read[h]>>) \in Seq(Conns \X Nat)
        <5>1. inbox[peer[h]] \in Seq(Conns \X Nat)
          BY <4>1
        <5> HIDE DEF TypeOK
        <5> QED BY <4>1, <5>1
      <4> QED BY <3>1, <4>2
    <3>2. CASE inbox' = inbox
      BY <3>2
    <3> QED BY <1>8, <3>1, <3>2 DEF Forward, Relay
  <2> QED BY <1>8, <2>1 DEF Forward, Relay, clientVars
<1>9. CASE PartFrom(h)
  BY <1>0, <1>9 DEF PartFrom, clientVars, inVars
<1>10. CASE TellPeer(h)
  <2>1. told' \in [Conns -> SUBSET {"peer-joined", "peer-disconnected"}] /\ inbox' = inbox
    BY <1>10, NotifyKeepsType DEF TellPeer
  <2> QED BY <1>10, <2>1 DEF TellPeer, clientVars
<1>11. CASE RemoveRoom(h)
  BY <1>11 DEF RemoveRoom, clientVars, inVars
<1> QED
  BY <1>1, <1>2, <1>3, <1>4, <1>5, <1>6, <1>7, <1>8, <1>9, <1>10, <1>11 DEF Handler

-----------------------------------------------------------------------------
(* Rooms, their slots, and the peers found in them. *)

SlotFacts == RoomInv /\ SlotInv /\ NoNilPeer /\ PeerInv

\* Steps that change no Room and no slot, and forget a peer at most.
LEMMA LocalTypes ==
  ASSUME TypeOK
  PROVE  /\ \A g \in Conns : peer[g] \in Conns \cup {None}
         /\ \A r \in Rooms, role \in Roles : slot[r][role] \in Conns \cup {None}
<1>1. slot \in [Rooms -> [Roles -> Conns \cup {None}]] /\ peer \in [Conns -> Conns \cup {None}]
  BY DEF TypeOK
<1>2. \A r \in Rooms : slot[r] \in [Roles -> Conns \cup {None}]
  BY <1>1
<1> QED BY <1>1, <1>2

LEMMA OtherStepsKeepSlots ==
  ASSUME TypeOK, SlotFacts, NEW h \in Conns, UNCHANGED <<roomOf, slot>>,
         \A g \in Conns : g # h => pc'[g] = pc[g] /\ peer'[g] = peer[g],
         pc[h] \notin {"new", "creating", "done"},
         pc'[h] \notin {"new", "creating", "joining"},
         peer'[h] \in {peer[h], None},
         pc'[h] \in {"forwarding", "parting"} => peer'[h] # None,
         pc'[h] \in {"tell sender", "tell receiver"} =>
           pc[h] \in {"tell sender", "tell receiver"} \/ IsReady(roomOf[h])
  PROVE  SlotFacts'
<1> USE DEF SlotFacts
<1>1. \A g \in Conns : (InRoom(g) => InRoom(g)') /\ (Joined(g) => Joined(g)')
  BY DEF InRoom, Joined
<1>2. RoomInv'
  BY DEF RoomInv, InRoom
<1>3. SlotInv'
  <2>1. ASSUME NEW r \in Rooms, NEW role \in Roles, slot[r][role] # None
        PROVE  /\ roomOf[slot[r][role]] = r /\ Role[slot[r][role]] = role
               /\ Joined(slot[r][role])'
    <3>1. slot[r][role] \in Conns
      BY <2>1, LocalTypes
    <3>2. Joined(slot[r][role]) /\ roomOf[slot[r][role]] = r /\ Role[slot[r][role]] = role
      BY <2>1 DEF SlotInv
    <3> QED BY <1>1, <3>1, <3>2
  <2> QED BY <2>1 DEF SlotInv
<1>4. NoNilPeer'
  BY DEF NoNilPeer, IsReady
<1>5. PeerInv'
  <2>1. ASSUME NEW g \in Conns, peer'[g] # None
        PROVE  /\ InRoom(g)' /\ Joined(peer[g])' /\ peer'[g] = peer[g]
               /\ roomOf[peer[g]] = roomOf[g] /\ Role[peer[g]] # Role[g]
    <3>1. peer'[g] = peer[g] /\ peer[g] \in Conns
      BY <2>1, LocalTypes
    <3> QED BY <1>1, <2>1, <3>1 DEF PeerInv
  <2>2. \A g \in Conns : pc'[g] \in {"forwarding", "parting"} => peer'[g] # None
    BY DEF PeerInv
  <2> QED BY <2>1, <2>2 DEF PeerInv
<1> QED BY <1>2, <1>3, <1>4, <1>5

\* What finding or creating its Room changes, of the handlers alone.
LEMMA Enters ==
  ASSUME TypeOK, NEW h \in Conns, GetRoom(h) \/ CreateRoomWithID(h)
  PROVE  /\ pc[h] \in {"new", "creating"} /\ pc'[h] \in {"creating", "joining", "done"}
         /\ pc'[h] = "joining" => roomOf'[h] # None
         /\ \A g \in Conns : g # h => pc'[g] = pc[g] /\ roomOf'[g] = roomOf[g]
         /\ UNCHANGED <<slot, peer, read>>
<1>1. DOMAIN pc = Conns /\ DOMAIN roomOf = Conns /\ h # None
  BY SignalingAssumption DEF TypeOK
<1>2. CASE GetRoom(h)  BY <1>1, <1>2 DEF GetRoom
<1>3. CASE CreateRoomWithID(h)  BY <1>1, <1>3 DEF CreateRoomWithID
<1> QED BY <1>2, <1>3

\* The handler finds or creates its Room.
LEMMA EnterKeepsSlots ==
  ASSUME TypeOK, SlotFacts, NEW h \in Conns, GetRoom(h) \/ CreateRoomWithID(h)
  PROVE  SlotFacts'
<1> USE SignalingAssumption DEF SlotFacts
<1>1. /\ pc[h] \in {"new", "creating"} /\ pc'[h] \in {"creating", "joining", "done"}
      /\ pc'[h] = "joining" => roomOf'[h] # None
      /\ \A g \in Conns : g # h => pc'[g] = pc[g] /\ roomOf'[g] = roomOf[g]
      /\ UNCHANGED <<slot, peer>>
  BY Enters
<1>2. ~InRoom(h) /\ ~Joined(h)
  BY <1>1 DEF InRoom, Joined
<1>3. \A g \in Conns : /\ InRoom(g) => g # h /\ InRoom(g)' /\ roomOf'[g] = roomOf[g]
                       /\ Joined(g) => g # h /\ Joined(g)' /\ roomOf'[g] = roomOf[g]
  BY <1>1, <1>2 DEF InRoom, Joined
<1>4. RoomInv'
  BY <1>1 DEF RoomInv, InRoom
<1>5. SlotInv'
  <2>1. ASSUME NEW r \in Rooms, NEW role \in Roles, slot[r][role] # None
        PROVE  /\ roomOf'[slot[r][role]] = r /\ Role[slot[r][role]] = role
               /\ Joined(slot[r][role])'
    <3>1. slot[r][role] \in Conns
      BY <2>1, LocalTypes
    <3>2. Joined(slot[r][role]) /\ roomOf[slot[r][role]] = r /\ Role[slot[r][role]] = role
      BY <2>1 DEF SlotInv
    <3>3. slot' = slot  BY <1>1
    <3> QED BY <1>3, <3>1, <3>2, <3>3
  <2> QED BY <1>1, <2>1 DEF SlotInv
<1>6. NoNilPeer'
  <2> SUFFICES ASSUME NEW g \in Conns, NEW role \in Roles,
                      pc'[g] \in {"tell sender", "tell receiver"}
               PROVE  slot'[roomOf'[g]][role] # None
    BY DEF NoNilPeer
  <2>1. g # h /\ pc'[g] = pc[g] /\ roomOf'[g] = roomOf[g] /\ slot' = slot  BY <1>1
  <2> QED BY <2>1 DEF NoNilPeer
<1>7. PeerInv'
  <2>1. ASSUME NEW g \in Conns, peer[g] # None
        PROVE  /\ InRoom(g)' /\ Joined(peer[g])'
               /\ roomOf'[peer[g]] = roomOf'[g] /\ Role[peer[g]] # Role[g]
    <3>1. peer[g] \in Conns
      BY <2>1, LocalTypes
    <3>2. InRoom(g) /\ Joined(peer[g]) /\ roomOf[peer[g]] = roomOf[g] /\ Role[peer[g]] # Role[g]
      BY <2>1 DEF PeerInv
    <3> QED BY <1>1, <1>3, <3>1, <3>2
  <2>2. \A g \in Conns : pc'[g] \in {"forwarding", "parting"} => peer[g] # None
    BY <1>1 DEF PeerInv
  <2> QED BY <1>1, <2>1, <2>2 DEF PeerInv
<1> QED BY <1>4, <1>5, <1>6, <1>7

LEMMA JoinKeepsSlots ==
  ASSUME TypeOK, SlotFacts, NEW h \in Conns, Join(h)
  PROVE  SlotFacts'
<1> USE SignalingAssumption DEF SlotFacts
<1>1. /\ pc[h] = "joining" /\ pc'[h] = "joined" /\ InRoom(h)
      /\ \A g \in Conns : g # h => pc'[g] = pc[g]
      /\ UNCHANGED <<roomOf, peer>>
  BY DEF Join, TypeOK, RoomInv
<1>2. \A r \in Rooms, role \in Roles :
        slot'[r][role] = IF r = roomOf[h] /\ role = Role[h] THEN h ELSE slot[r][role]
  <2>1. slot \in [Rooms -> [Roles -> Conns \cup {None}]] /\ roomOf[h] \in Rooms
    BY <1>1 DEF TypeOK, InRoom
  <2>2. slot' = [slot EXCEPT ![roomOf[h]][Role[h]] = h]
    BY DEF Join
  <2> QED BY <2>1, <2>2
<1>3. \A g \in Conns : (InRoom(g) => InRoom(g)') /\ (Joined(g) => Joined(g)')
  BY <1>1 DEF InRoom, Joined
<1>4. RoomInv'
  BY <1>1 DEF RoomInv, InRoom
<1>5. SlotInv'
  <2>1. ASSUME NEW r \in Rooms, NEW role \in Roles, slot'[r][role] # None,
               NEW c, c = slot'[r][role]
        PROVE  roomOf[c] = r /\ Role[c] = role /\ Joined(c)'
    <3>1. CASE r = roomOf[h] /\ role = Role[h]
      BY <1>1, <1>2, <2>1, <3>1 DEF Joined, InRoom
    <3>2. CASE ~(r = roomOf[h] /\ role = Role[h])
      <4>1. c = slot[r][role] /\ c \in Conns
        BY <1>2, <2>1, <3>2, LocalTypes
      <4>2. roomOf[c] = r /\ Role[c] = role /\ Joined(c)
        BY <2>1, <4>1 DEF SlotInv
      <4> QED BY <1>3, <4>1, <4>2
    <3> QED BY <3>1, <3>2
  <2> QED BY <1>1, <2>1 DEF SlotInv
<1>6. NoNilPeer'
  <2>1. \A g \in Conns : pc'[g] \in {"tell sender", "tell receiver"} => roomOf[g] \in Rooms
    BY <1>1 DEF RoomInv, InRoom, TypeOK
  <2>2. h # None
    OBVIOUS
  <2>3. ASSUME NEW g \in Conns, NEW role \in Roles,
               pc'[g] \in {"tell sender", "tell receiver"}
        PROVE  slot'[roomOf[g]][role] # None
    <3>1. pc[g] = pc'[g] /\ roomOf[g] \in Rooms
      BY <1>1, <2>1, <2>3
    <3>2. slot[roomOf[g]][role] # None
      BY <2>3, <3>1 DEF NoNilPeer
    <3> QED BY <1>2, <2>2, <3>1, <3>2
  <2> QED BY <1>1, <2>3 DEF NoNilPeer
<1>7. PeerInv'
  <2>1. ASSUME NEW g \in Conns, peer[g] # None
        PROVE  /\ InRoom(g)' /\ Joined(peer[g])'
               /\ roomOf[peer[g]] = roomOf[g] /\ Role[peer[g]] # Role[g]
    <3>1. peer[g] \in Conns
      BY <2>1, LocalTypes
    <3>2. InRoom(g) /\ Joined(peer[g]) /\ roomOf[peer[g]] = roomOf[g] /\ Role[peer[g]] # Role[g]
      BY <2>1 DEF PeerInv
    <3> QED BY <1>1, <1>3, <3>1, <3>2
  <2>2. \A g \in Conns : pc'[g] \in {"forwarding", "parting"} => peer[g] # None
    BY <1>1 DEF PeerInv
  <2> QED BY <1>1, <2>1, <2>2 DEF PeerInv
<1> QED BY <1>4, <1>5, <1>6, <1>7

\* The handler looks up its peer.
LEMMA LookUpKeepsSlots ==
  ASSUME TypeOK, SlotFacts, NEW h \in Conns, ReadMessage(h) \/ PartFrom(h)
  PROVE  SlotFacts'
<1> USE SignalingAssumption DEF SlotFacts
<1>1. /\ pc[h] \in {"loop", "closed"} /\ pc'[h] \in {"loop", "forwarding", "cleaning", "parting"}
      /\ peer'[h] = GetPeer(h)
      /\ pc'[h] \in {"forwarding", "parting"} => GetPeer(h) # None
      /\ \A g \in Conns : g # h => pc'[g] = pc[g] /\ peer'[g] = peer[g]
      /\ UNCHANGED <<roomOf, slot>>
  BY DEF ReadMessage, PartFrom, TypeOK
<1>2. \A g \in Conns : (InRoom(g) => InRoom(g)') /\ (Joined(g) => Joined(g)')
  BY <1>1 DEF InRoom, Joined
<1>3. RoomInv'
  BY <1>1 DEF RoomInv, InRoom
<1>4. SlotInv'
  <2>1. ASSUME NEW r \in Rooms, NEW role \in Roles, slot[r][role] # None
        PROVE  /\ roomOf[slot[r][role]] = r /\ Role[slot[r][role]] = role
               /\ Joined(slot[r][role])'
    <3>1. slot[r][role] \in Conns
      BY <2>1, LocalTypes
    <3>2. Joined(slot[r][role]) /\ roomOf[slot[r][role]] = r /\ Role[slot[r][role]] = role
      BY <2>1 DEF SlotInv
    <3> QED BY <1>1, <1>2, <3>1, <3>2
  <2> QED BY <1>1, <2>1 DEF SlotInv
<1>5. NoNilPeer'
  BY <1>1 DEF NoNilPeer
<1>6. PeerInv'
  <2>1. ASSUME NEW g \in Conns, NEW c, c = peer'[g], c # None
        PROVE  /\ InRoom(g)' /\ Joined(c)' /\ roomOf[c] = roomOf[g] /\ Role[c] # Role[g]
    <3>1. CASE g = h
      <4>1. InRoom(h) /\ roomOf[h] \in Rooms
        BY <1>1 DEF RoomInv, InRoom, TypeOK
      <4>2. Other(Role[h]) \in Roles /\ Other(Role[h]) # Role[h]
        BY DEF Other, Roles
      <4>3. c = slot[roomOf[h]][Other(Role[h])]
        BY <1>1, <2>1, <3>1 DEF GetPeer
      <4>4. c \in Conns
        BY <2>1, <4>1, <4>2, <4>3, LocalTypes
      <4>5. Joined(c) /\ roomOf[c] = roomOf[h] /\ Role[c] = Other(Role[h])
        BY <2>1, <4>1, <4>2, <4>3 DEF SlotInv
      <4> QED BY <1>2, <3>1, <4>1, <4>2, <4>4, <4>5
    <3>2. CASE g # h
      <4>1. c = peer[g] /\ c \in Conns
        BY <1>1, <2>1, <3>2, LocalTypes
      <4> QED BY <1>2, <2>1, <4>1 DEF PeerInv
    <3> QED BY <3>1, <3>2
  <2>2. \A g \in Conns : pc'[g] \in {"forwarding", "parting"} => peer'[g] # None
    BY <1>1 DEF PeerInv
  <2> QED BY <1>1, <2>1, <2>2 DEF PeerInv
<1> QED BY <1>3, <1>4, <1>5, <1>6

LEMMA NextKeepsSlots == TypeOK /\ SlotFacts /\ [Next]_vars => SlotFacts'
<1> SUFFICES ASSUME TypeOK, SlotFacts, [Next]_vars PROVE SlotFacts'
  OBVIOUS
<1>1. CASE UNCHANGED <<pc, roomOf, slot, peer>>
  <2>1. RoomInv' /\ SlotInv'  BY <1>1 DEF SlotFacts, RoomInv, SlotInv, InRoom, Joined
  <2>2. NoNilPeer'  BY <1>1 DEF SlotFacts, NoNilPeer
  <2>3. PeerInv'  BY <1>1 DEF SlotFacts, PeerInv, InRoom, Joined
  <2> QED BY <2>1, <2>2, <2>3 DEF SlotFacts
<1>2. CASE UNCHANGED vars
  BY <1>1, <1>2 DEF vars
<1>3. ASSUME NEW h \in Conns, ClientSends(h) \/ ClientLeaves(h) PROVE SlotFacts'
  BY <1>1, <1>3 DEF ClientSends, ClientLeaves
<1>4. ASSUME NEW h \in Conns,
             GetRoom(h) \/ CreateRoomWithID(h) \/ Join(h) \/ ReadMessage(h) \/ PartFrom(h)
      PROVE  SlotFacts'
  BY <1>4, EnterKeepsSlots, JoinKeepsSlots, LookUpKeepsSlots
<1>5. ASSUME NEW h \in Conns,
             \/ UpgradeFails(h) \/ CheckReady(h) \/ TellSender(h) \/ TellReceiver(h)
             \/ Forward(h) \/ ReadFails(h) \/ TellPeer(h) \/ RemoveRoom(h)
      PROVE  SlotFacts'
  <2>1. /\ UNCHANGED <<roomOf, slot>>
        /\ \A g \in Conns : g # h => pc'[g] = pc[g] /\ peer'[g] = peer[g]
    BY <1>5 DEF UpgradeFails, CheckReady, TellSender, TellReceiver, Forward, ReadFails,
                TellPeer, RemoveRoom, TypeOK
  <2>2. /\ pc[h] \notin {"new", "creating", "done"}
        /\ pc'[h] \notin {"new", "creating", "joining", "forwarding", "parting"}
        /\ pc'[h] \in {"tell sender", "tell receiver"} =>
             pc[h] \in {"tell sender", "tell receiver"} \/ IsReady(roomOf[h])
    BY <1>5 DEF UpgradeFails, CheckReady, TellSender, TellReceiver, Forward, ReadFails,
                TellPeer, RemoveRoom, TypeOK
  <2>3. peer'[h] \in {peer[h], None}
    BY <1>5 DEF UpgradeFails, CheckReady, TellSender, TellReceiver, Forward, ReadFails,
                TellPeer, RemoveRoom, TypeOK
  <2> QED BY <2>1, <2>2, <2>3, OtherStepsKeepSlots
<1> QED BY <1>2, <1>3, <1>4, <1>5 DEF Next, Handler

-----------------------------------------------------------------------------
(* What has arrived. *)

\* Steps that forward nothing.
LEMMA OtherStepsKeepInbox ==
  ASSUME TypeOK, InboxInv, UNCHANGED inbox,
         \A g \in Conns :
           /\ InRoom(g) => InRoom(g)' /\ roomOf'[g] = roomOf[g]
           /\ read[g] <= read'[g]
           /\ pc'[g] = "forwarding" => pc[g] = "forwarding" \/ read[g] < read'[g],
         read' \in [Conns -> Nat]
  PROVE  InboxInv'
<1>1. ASSUME NEW d \in Conns, NEW i \in DOMAIN inbox[d]
      PROVE  Arrived(d, inbox[d][i])'
  <2> DEFINE m == inbox[d][i]
  <2>0. inbox[d] \in Seq(Conns \X Nat)
    BY DEF TypeOK
  <2>1. m[1] \in Conns /\ m[2] \in Nat
    BY <2>0
  <2>2. /\ InRoom(d) /\ InRoom(m[1]) /\ Role[m[1]] # Role[d] /\ roomOf[m[1]] = roomOf[d]
        /\ m[2] <= read[m[1]] /\ (pc[m[1]] = "forwarding" => m[2] < read[m[1]])
    BY DEF InboxInv, Arrived
  <2>3. read[m[1]] \in Nat /\ read'[m[1]] \in Nat
    BY <2>1 DEF TypeOK
  <2>4. m[2] <= read'[m[1]] /\ (pc'[m[1]] = "forwarding" => m[2] < read'[m[1]])
    BY <2>1, <2>2, <2>3
  <2> QED BY <2>1, <2>2, <2>4 DEF Arrived
<1> QED BY <1>1 DEF InboxInv

LEMMA ForwardKeepsInbox ==
  ASSUME TypeOK, SlotFacts, InboxInv, NEW h \in Conns, Forward(h)
  PROVE  InboxInv'
<1>1. /\ pc[h] = "forwarding" /\ pc'[h] = "loop"
      /\ \A g \in Conns : g # h => pc'[g] = pc[g]
      /\ UNCHANGED <<roomOf, read>>
  BY DEF Forward, TypeOK
<1>p. PICK p \in Conns : p = peer[h]
  BY <1>1, LocalTypes DEF SlotFacts, PeerInv
<1>m. PICK m \in Conns \X Nat : m = <<h, read[h]>>
  BY DEF TypeOK
<1>2. p \in Conns /\ p # None /\ InRoom(h) /\ Joined(p)
      /\ roomOf[p] = roomOf[h] /\ Role[p] # Role[h]
  BY <1>1, <1>p, LocalTypes DEF SlotFacts, PeerInv
<1>3. \A g \in Conns : InRoom(g) => InRoom(g)'
  BY <1>1 DEF InRoom
<1>4. \A g \in Conns : inbox[g] \in Seq(Conns \X Nat) /\ read[g] \in Nat
  BY DEF TypeOK
<1>5. ASSUME NEW d \in Conns, NEW n, n \in Conns \X Nat, Arrived(d, n)
      PROVE  /\ InRoom(d)' /\ InRoom(n[1])' /\ Role[n[1]] # Role[d]
             /\ roomOf[n[1]] = roomOf[d] /\ n[2] <= read[n[1]]
             /\ pc'[n[1]] = "forwarding" => n[2] < read[n[1]]
  BY <1>1, <1>3, <1>5 DEF Arrived
<1>6. /\ InRoom(p)' /\ InRoom(m[1])' /\ Role[m[1]] # Role[p] /\ roomOf[m[1]] = roomOf[p]
      /\ m[1] = h /\ m[2] = read[h] /\ pc'[m[1]] # "forwarding"
  <2>1. m[1] = h /\ m[2] = read[h]
    BY <1>m
  <2>2. InRoom(p)' /\ InRoom(h)'
    BY <1>2, <1>3 DEF Joined
  <2> QED BY <1>1, <1>2, <2>1, <2>2
<1>7. CASE inbox' = inbox
  <2>1. ASSUME NEW d \in Conns, NEW i \in DOMAIN inbox[d] PROVE Arrived(d, inbox[d][i])'
    <3>1. inbox[d][i] \in Conns \X Nat /\ Arrived(d, inbox[d][i])
      BY <1>4 DEF InboxInv
    <3> QED BY <1>1, <1>5, <1>7, <3>1 DEF Arrived
  <2> QED BY <1>7, <2>1 DEF InboxInv
<1>8. CASE inbox' = [inbox EXCEPT ![p] = Append(@, m)]
  <2> DEFINE n == Len(inbox[p])
  <2>1. /\ inbox'[p] = Append(inbox[p], m) /\ \A d \in Conns : d # p => inbox'[d] = inbox[d]
    BY <1>2, <1>8 DEF TypeOK
  <2>2. /\ n \in Nat /\ DOMAIN inbox[p] = 1 .. n /\ DOMAIN inbox'[p] = 1 .. n + 1
        /\ inbox'[p][n + 1] = m /\ \A i \in 1 .. n : inbox'[p][i] = inbox[p][i]
    BY <1>2, <1>4, <2>1
  <2>3. ASSUME NEW d \in Conns, NEW i \in DOMAIN inbox'[d] PROVE Arrived(d, inbox[d][i])'
    <3>1. CASE d = p /\ i = n + 1
      <4>1. inbox'[d][i] = m
        BY <2>2, <3>1
      <4> QED BY <1>1, <1>4, <1>6, <3>1, <4>1 DEF Arrived
    <3>2. CASE ~(d = p /\ i = n + 1)
      <4>1. i \in DOMAIN inbox[d] /\ inbox'[d][i] = inbox[d][i]
        <5>1. CASE d # p
          BY <2>1, <2>3, <5>1
        <5>2. CASE d = p
          <6>1. i \in 1 .. n + 1 /\ i # n + 1
            BY <2>2, <2>3, <3>2, <5>2
          <6>2. i \in 1 .. n
            BY <2>2, <6>1
          <6> QED BY <2>2, <5>2, <6>2
        <5> QED BY <5>1, <5>2
      <4>2. inbox[d][i] \in Conns \X Nat /\ Arrived(d, inbox[d][i])
        BY <1>4, <4>1 DEF InboxInv
      <4> QED BY <1>1, <1>5, <4>1, <4>2 DEF Arrived
    <3> QED BY <3>1, <3>2
  <2>4. \A i \in 1 .. n : inbox[p][i][1] = h => inbox[p][i][2] < read[h]
    BY <1>1, <1>2, <2>2 DEF InboxInv, Arrived
  <2>5. ASSUME NEW d \in Conns, NEW i \in DOMAIN inbox'[d], NEW j \in DOMAIN inbox'[d],
               i < j, inbox'[d][i][1] = inbox'[d][j][1]
        PROVE  inbox'[d][i][2] < inbox'[d][j][2]
    <3>1. CASE d # p
      BY <2>1, <2>5, <3>1 DEF InboxInv
    <3>2. CASE d = p /\ j = n + 1
      <4>1. i \in 1 .. n /\ inbox'[p][i] = inbox[p][i] /\ inbox'[p][j] = m
        BY <2>2, <2>5, <3>2
      <4> QED BY <1>6, <2>4, <2>5, <3>2, <4>1
    <3>3. CASE d = p /\ j # n + 1
      <4>1. i \in 1 .. n /\ j \in 1 .. n
        <5>1. i \in 1 .. n + 1 /\ j \in 1 .. n + 1 /\ i < j /\ j # n + 1
          BY <2>2, <2>5, <3>3
        <5> QED BY <2>2, <5>1
      <4>2. inbox'[p][i] = inbox[p][i] /\ inbox'[p][j] = inbox[p][j]
        BY <2>2, <4>1
      <4> QED BY <1>2, <2>2, <2>5, <3>3, <4>1, <4>2 DEF InboxInv
    <3> QED BY <3>1, <3>2, <3>3
  <2> QED BY <2>3, <2>5 DEF InboxInv
<1> QED BY <1>p, <1>m, <1>7, <1>8 DEF Forward, Relay

LEMMA NextKeepsInbox ==
  TypeOK /\ TypeOK' /\ SlotFacts /\ InboxInv /\ [Next]_vars => InboxInv'
<1> SUFFICES ASSUME TypeOK, TypeOK', SlotFacts, InboxInv, [Next]_vars PROVE InboxInv'
  OBVIOUS
<1>1. CASE \E h \in Conns : Forward(h)
  BY <1>1, ForwardKeepsInbox
<1>2. CASE ~\E h \in Conns : Forward(h)
  <2>0. read \in [Conns -> Nat] /\ read' \in [Conns -> Nat]
    BY DEF TypeOK
  <2>1. inbox' = inbox
    BY <1>2
    DEF Next, Handler, GetRoom, CreateRoomWithID, Join, UpgradeFails, CheckReady,
        TellSender, TellReceiver, ReadMessage, ReadFails, PartFrom, TellPeer,
        RemoveRoom, ClientSends, ClientLeaves, Notify, inVars, vars
  <2>2. ASSUME NEW g \in Conns
        PROVE  /\ InRoom(g) => InRoom(g)' /\ roomOf'[g] = roomOf[g]
               /\ read[g] <= read'[g]
               /\ pc'[g] = "forwarding" => pc[g] = "forwarding" \/ read[g] < read'[g]
    <3>0. read[g] \in Nat
      BY <2>0
    <3>1. CASE UNCHANGED <<pc, roomOf, read>>
      BY <3>0, <3>1 DEF InRoom
    <3>2. ASSUME NEW h \in Conns, GetRoom(h) \/ CreateRoomWithID(h)
          PROVE  /\ InRoom(g) => InRoom(g)' /\ roomOf'[g] = roomOf[g]
                 /\ read'[g] = read[g] /\ (pc'[g] = "forwarding" => pc[g] = "forwarding")
      <4>1. /\ pc[h] \in {"new", "creating"} /\ pc'[h] # "forwarding" /\ read' = read
            /\ g # h => pc'[g] = pc[g] /\ roomOf'[g] = roomOf[g]
        BY <3>2, Enters
      <4> QED BY <4>1 DEF InRoom
    <3>3. ASSUME NEW h \in Conns, ReadMessage(h)
          PROVE  /\ InRoom(g) => InRoom(g)' /\ roomOf'[g] = roomOf[g]
                 /\ read[g] <= read'[g]
                 /\ pc'[g] = "forwarding" => pc[g] = "forwarding" \/ read[g] < read'[g]
      <4>1. roomOf' = roomOf /\ read' = [read EXCEPT ![h] = read[h] + 1]
            /\ pc[h] = "loop" /\ pc'[h] \in {"loop", "forwarding"}
            /\ (g # h => pc'[g] = pc[g])
        BY <3>3 DEF ReadMessage, TypeOK
      <4>2. read'[g] = IF g = h THEN read[g] + 1 ELSE read[g]
        BY <2>0, <4>1
      <4> QED BY <3>0, <4>1, <4>2 DEF InRoom
    <3>4. ASSUME NEW h \in Conns,
                 \/ Join(h) \/ UpgradeFails(h) \/ CheckReady(h) \/ TellSender(h)
                 \/ TellReceiver(h) \/ ReadFails(h) \/ PartFrom(h) \/ TellPeer(h)
                 \/ RemoveRoom(h)
          PROVE  /\ InRoom(g) => InRoom(g)' /\ roomOf'[g] = roomOf[g]
                 /\ read'[g] = read[g] /\ (pc'[g] = "forwarding" => pc[g] = "forwarding")
      <4>1. roomOf' = roomOf /\ read' = read
        BY <3>4 DEF Join, UpgradeFails, CheckReady, TellSender, TellReceiver, ReadFails,
                    PartFrom, TellPeer, RemoveRoom
      <4>2. /\ pc'[g] = pc[g] \/ pc'[g] \notin {"new", "creating", "forwarding"}
        <5>1. DOMAIN pc = Conns  BY DEF TypeOK
        <5>2. CASE Join(h) \/ UpgradeFails(h) \/ CheckReady(h) \/ TellSender(h)
          BY <5>1, <5>2 DEF Join, UpgradeFails, CheckReady, TellSender
        <5>3. CASE TellReceiver(h) \/ ReadFails(h) \/ PartFrom(h) \/ TellPeer(h) \/ RemoveRoom(h)
          BY <5>1, <5>3 DEF TellReceiver, ReadFails, PartFrom, TellPeer, RemoveRoom
        <5> QED BY <3>4, <5>2, <5>3
      <4> QED BY <4>1, <4>2 DEF InRoom
    <3>5. ASSUME NEW h \in Conns, ClientSends(h) \/ ClientLeaves(h)
          PROVE  UNCHANGED <<pc, roomOf, read>>
      BY <3>5 DEF ClientSends, ClientLeaves
    <3>6. CASE UNCHANGED vars
      BY <3>1, <3>6 DEF vars
    <3> QED BY <1>2, <3>0, <3>1, <3>2, <3>3, <3>4, <3>5, <3>6 DEF Next, Handler
  <2> QED BY <2>0, <2>1, <2>2, OtherStepsKeepInbox
<1> QED BY <1>1, <1>2

-----------------------------------------------------------------------------

(***************************************************************************)
(* The inductive invariant of the signaling server holds for any number of *)
(* connections, in any roles, with or without POST /api/room before.       *)
(***************************************************************************)
THEOREM SignalingInvariant == Spec => []SignalingInv
<1>1. Init => SignalingInv
  <2> SUFFICES ASSUME Init PROVE SignalingInv
    OBVIOUS
  <2>1. TypeOK
    <3>1. inbox \in [Conns -> Seq(Conns \X Nat)] /\ current \in Rooms \cup {None}
      BY DEF Init, Rooms
    <3>2. ASSUME NEW h \in Conns PROVE read[h] <= sent[h] /\ sent[h] <= MsgCount[h]
      <4>1. MsgCount[h] \in Nat
        BY SignalingAssumption
      <4>2. read[h] = 0 /\ sent[h] = 0
        BY DEF Init
      <4> QED BY <4>1, <4>2
    <3> QED BY <3>1, <3>2 DEF Init, TypeOK
  <2>2. RoomInv /\ SlotInv /\ NoNilPeer /\ PeerInv
    BY DEF Init, RoomInv, SlotInv, NoNilPeer, PeerInv
  <2>3. InboxInv
    BY DEF Init, InboxInv
  <2> QED BY <2>1, <2>2, <2>3 DEF SignalingInv
<1>2. SignalingInv /\ [Next]_vars => SignalingInv'
  <2> SUFFICES ASSUME SignalingInv, [Next]_vars PROVE SignalingInv'
    OBVIOUS
  <2>1. TypeOK'
    <3>1. CASE UNCHANGED vars
      BY <3>1 DEF SignalingInv, TypeOK, vars, clientVars, inVars
    <3> QED BY <3>1, ClientKeepsType, HandlerKeepsType DEF SignalingInv, Next
  <2> QED
    BY <2>1, NextKeepsSlots, NextKeepsInbox DEF SignalingInv, SlotFacts
<1> QED BY <1>1, <1>2, PTL DEF Spec

(***************************************************************************)
(* Type correctness of the signaling server: a handler reads no message    *)
(* that was not sent.                                                      *)
(***************************************************************************)
THEOREM SignalingTypeCorrect == Spec => []TypeOK
<1>1. SignalingInv => TypeOK
  BY DEF SignalingInv
<1> QED BY <1>1, SignalingInvariant, PTL

(***************************************************************************)
(* "peer-joined" is never sent to a nil client, though room.Sender and     *)
(* room.Receiver are read after the lock that IsReady took is released.    *)
(***************************************************************************)
THEOREM PeersAreNotNil == Spec => []NoNilPeer
<1>1. SignalingInv => NoNilPeer
  BY DEF SignalingInv
<1> QED BY <1>1, SignalingInvariant, PTL

(***************************************************************************)
(* Forwarded messages stay within a Room, go to the other role, and keep   *)
(* the order in which their client sent them.                              *)
(***************************************************************************)
THEOREM ForwardingKeepsOrder == Spec => []ForwardedInOrder
<1>1. SignalingInv => ForwardedInOrder
  BY DEF SignalingInv, InboxInv, Arrived, ForwardedInOrder
<1> QED BY <1>1, SignalingInvariant, PTL
=============================================================================
