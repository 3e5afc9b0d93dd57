----------------------------- MODULE WsRelayProofs -----------------------------
(***************************************************************************)
(* The safety of the WebSocket relay for any number of connections and     *)
(* messages: what WsRelay checks on three connections.                     *)
(*                                                                         *)
(* PanicNeedsSameRole rests on SlotInv and ClosingInv: a slot holds a      *)
(* connection of its role that registered in that pair, and while no two   *)
(* connections of one role share a pair, at most one of its handlers is    *)
(* about to close the ready channel, and finds it open.                    *)
(* DeliversPrefix rests on RelayInv: the ends of a relay belong to one     *)
(* pair and only senders' handlers ever hold a message, so a client hears  *)
(* from the senders of its pair only; and while there is one of them, a    *)
(* message it sent is delivered or in the hand of its own handler.         *)
(***************************************************************************)
EXTENDS WsRelay, TLAPS

\* Two connections of one role share the pair p.
SameRole(p) ==
  \E f, g \in Conns : f # g /\ Role[f] = Role[g] /\ pairOf[f] = p /\ pairOf[g] = p

Registered(h) == pc[h] \notin {"new", "holding"}

PairInv ==
  /\ current # None => pairOf[current] = current
  /\ \A h \in Conns : (pairOf[h] = None) <=> (pc[h] = "new")

SlotInv ==
  /\ \A p \in Conns, r \in Roles :
       slot[p][r] # None =>
         pairOf[slot[p][r]] = p /\ Role[slot[p][r]] = r /\ Registered(slot[p][r])
  /\ \A h \in Conns : Registered(h) => slot[pairOf[h]][Role[h]] # None

Full(p) == \A r \in Roles : slot[p][r] # None

ClosingInv ==
  /\ \A p \in ready : Full(p)
  /\ \A h \in Conns : pc[h] = "closing" =>
       /\ Full(pairOf[h])
       /\ \/ SameRole(pairOf[h])
          \/ /\ pairOf[h] \notin ready
             /\ \A g \in Conns : pairOf[g] = pairOf[h] /\ pc[g] = "closing" => g = h
  /\ \A h \in Conns : pc[h] = "panicked" => SameRole(pairOf[h])

\* A handler that relays has a connection of either role, both of its pair.
EndsInv ==
  \A h \in Conns : pc[h] = "relaying" =>
    /\ src[h] \in Conns /\ Role[src[h]] = Role[h] /\ pairOf[src[h]] = pairOf[h]
    /\ dst[h] \in Conns /\ Role[dst[h]] # Role[h] /\ pairOf[dst[h]] = pairOf[h]

\* Only a sender's handler that relays holds a message; only senders' clients
\* send; a handler closes its connection when it stops relaying.
HandInv ==
  \A h \in Conns :
    /\ hand[h] # 0 => pc[h] = "relaying" /\ Role[h] = "sender"
    /\ read[h] <= sent[h] /\ (Role[h] = "receiver" => sent[h] = 0)
    /\ sock[h] = "closed" <=> pc[h] \in {"leaving", "done"}

Began == {"relaying", "leaving", "done"}

\* How far the only sender of a pair is.
ReadInv ==
  \A h \in Conns :
    /\ pc[h] = "new" => read[h] = 0
    /\ Role[h] = "sender" /\ SoleSender(pairOf[h]) =>
         /\ pc[h] \notin Began => read[h] = 0
         /\ pc[h] = "relaying" =>
              /\ hand[h] \in {0, read[h]}
              /\ client[dst[h]] = "connected" =>
                   Len(got[dst[h]]) = IF hand[h] = 0 THEN read[h] ELSE read[h] - 1

\* Message i of those that the client of d got; m names it.
FromPair(d, m) ==
  Role[m[1]] = "sender" /\ Role[d] = "receiver" /\ pairOf[d] # None /\ pairOf[m[1]] = pairOf[d]
InPlace(d, m, i) ==
  /\ pc[m[1]] \in Began /\ m[2] = i
  /\ m[3] = "cut" => i = Len(got[d]) /\ client[m[1]] = "gone" /\ sock[m[1]] = "closed"

GotInv ==
  \A d \in Conns : \A i \in DOMAIN got[d] :
    /\ FromPair(d, got[d][i])
    /\ SoleSender(pairOf[d]) => InPlace(d, got[d][i], i)

PanicInv == TypeOK /\ PairInv /\ SlotInv /\ ClosingInv /\ EndsInv
RelayInv == PanicInv /\ HandInv /\ ReadInv /\ GotInv

-----------------------------------------------------------------------------

LEMMA HandlerKeepsType ==
  ASSUME TypeOK, PairInv, EndsInv, NEW h \in Conns, Handler(h)
  PROVE  TypeOK'
<1> USE WsRelayAssumption
<1>1. CASE GetOrCreatePair(h)
  BY <1>1 DEF TypeOK, GetOrCreatePair, wireVars
<1>2. CASE Register(h)
  BY <1>2 DEF TypeOK, Register, wireVars
<1>3. CASE CloseReady(h)
  <2>1. pairOf[h] \in Conns
    BY <1>3 DEF TypeOK, PairInv, CloseReady
  <2> QED BY <1>3, <2>1 DEF TypeOK, CloseReady, wireVars
<1>4. CASE StartRelay(h)
  <2>1. pairOf[h] \in Conns /\ Role[h] \in Roles /\ Other(Role[h]) \in Roles
    BY <1>4 DEF TypeOK, StartRelay, Other, Roles
  <2>2. \A r \in Roles : slot[pairOf[h]][r] \in Conns \cup {None}
    BY <2>1 DEF TypeOK
  <2>3. src' \in [Conns -> Conns \cup {None}] /\ dst' \in [Conns -> Conns \cup {None}]
    BY <1>4, <2>1, <2>2 DEF TypeOK, StartRelay
  <2> QED BY <1>4, <2>3 DEF TypeOK, StartRelay, wireVars
<1>5. CASE ReadMessage(h)
  <2>1. src[h] \in Conns /\ read[src[h]] \in 0 .. MsgCount /\ sent[src[h]] \in 0 .. MsgCount
    BY <1>5 DEF TypeOK, EndsInv, ReadMessage
  <2>2. read[src[h]] + 1 \in 0 .. MsgCount
    BY <1>5, <2>1 DEF ReadMessage
  <2>3. read' \in [Conns -> 0 .. MsgCount]
    BY <1>5, <2>1, <2>2 DEF TypeOK, ReadMessage
  <2>4. hand' \in [Conns -> 0 .. MsgCount]
    BY <1>5, <2>1, <2>3 DEF TypeOK, ReadMessage
  <2> QED BY <1>5, <2>3, <2>4 DEF TypeOK, ReadMessage, pairVars
<1>6. CASE ReadFails(h)
  BY <1>6 DEF TypeOK, ReadFails, Leave, pairVars
<1>7. CASE WriteMessage(h) \/ CopyFails(h)
  <2>1. src[h] \in Conns /\ dst[h] \in Conns /\ hand[h] \in 1 .. MsgCount
    BY <1>7 DEF TypeOK, EndsInv, WriteMessage, CopyFails
  <2>2. got' \in [Conns -> Seq(Deliveries)]
    <3>1. ASSUME NEW part \in {"whole", "cut"}, Deliver(h, part)
          PROVE  got' \in [Conns -> Seq(Deliveries)]
      <4>1. <<src[h], hand[h], part>> \in Deliveries
        BY <2>1 DEF Deliveries
      <4>2. got[dst[h]] \in Seq(Deliveries)
        BY <2>1 DEF TypeOK
      <4>3. Append(got[dst[h]], <<src[h], hand[h], part>>) \in Seq(Deliveries)
        BY <4>1, <4>2
      <4> QED BY <3>1, <4>3 DEF TypeOK, Deliver
    <3>2. CASE got' = got
      BY <3>2 DEF TypeOK
    <3> QED BY <1>7, <3>1, <3>2 DEF WriteMessage, CopyFails
  <2>3. hand' \in [Conns -> 0 .. MsgCount]
    <3>1. hand' = [hand EXCEPT ![h] = 0] /\ 0 \in 0 .. MsgCount
      BY <1>7 DEF WriteMessage, CopyFails
    <3> QED BY <3>1 DEF TypeOK
  <2>4. /\ pc' \in [Conns -> {"new", "holding", "closing", "waiting", "relaying",
                              "leaving", "done", "panicked"}]
        /\ sock' \in [Conns -> {"open", "closed"}]
    BY <1>7 DEF TypeOK, WriteMessage, CopyFails, Leave
  <2>5. UNCHANGED <<current, pairVars, client, sent, read>>
    BY <1>7 DEF WriteMessage, CopyFails
  <2> QED BY <2>2, <2>3, <2>4, <2>5 DEF TypeOK, pairVars
<1>8. CASE RemovePair(h)
  BY <1>8 DEF TypeOK, RemovePair, pairVars, wireVars
<1> QED BY <1>1, <1>2, <1>3, <1>4, <1>5, <1>6, <1>7, <1>8 DEF Handler

LEMMA ClientKeepsType ==
  ASSUME TypeOK, NEW h \in Conns, ClientSends(h) \/ ClientLeaves(h)
  PROVE  TypeOK'
<1>1. CASE ClientSends(h)
  <2>1. sent[h] + 1 \in 0 .. MsgCount
    BY <1>1, WsRelayAssumption DEF TypeOK, ClientSends
  <2>2. sent' \in [Conns -> 0 .. MsgCount]
    BY <1>1, <2>1 DEF TypeOK, ClientSends
  <2> QED BY <1>1, <2>2 DEF TypeOK, ClientSends, pairVars
<1>2. CASE ClientLeaves(h)
  BY <1>2 DEF TypeOK, ClientLeaves, pairVars
<1> QED BY <1>1, <1>2

-----------------------------------------------------------------------------
(* The pairs, and who closes the ready channel. *)

\* Steps that leave the pairs and their handlers' places in them alone.
LEMMA OtherStepsKeepPairs ==
  ASSUME PanicInv, NEW h \in Conns,
         UNCHANGED <<pairOf, slot, ready>>, current' \in {current, None},
         pc' \in {pc, [pc EXCEPT ![h] = "leaving"], [pc EXCEPT ![h] = "done"]},
         pc[h] \in {"relaying", "leaving"} \/ pc' = pc
  PROVE  PairInv' /\ SlotInv' /\ ClosingInv'
<1> USE DEF PanicInv
<1>1. \A g \in Conns : pc[g] # pc'[g] => pc[g] \in {"relaying", "leaving"}
                                         /\ pc'[g] \in {"leaving", "done"}
  BY DEF TypeOK
<1>2. PairInv'
  BY <1>1 DEF PairInv
<1>3. \A g \in Conns : Registered(g)' <=> Registered(g)
  BY <1>1 DEF Registered
<1>4. SlotInv'
  <2>1. \A p \in Conns, r \in Roles : slot[p][r] \in Conns \cup {None}
    BY DEF TypeOK
  <2> QED BY <1>3, <2>1 DEF SlotInv
<1>5. ClosingInv'
  <2>1. \A g \in Conns : (pc'[g] = "closing" => pc[g] = "closing")
                         /\ (pc'[g] = "panicked" => pc[g] = "panicked")
    BY <1>1
  <2> QED BY <2>1 DEF ClosingInv, Full, SameRole
<1> QED BY <1>2, <1>4, <1>5

LEMMA GetOrCreateKeepsPairs ==
  ASSUME PanicInv, NEW h \in Conns, GetOrCreatePair(h)
  PROVE  PairInv' /\ SlotInv' /\ ClosingInv'
<1> USE WsRelayAssumption DEF PanicInv
<1>1. /\ pc[h] = "new" /\ pairOf[h] = None
      /\ current' \in Conns
      /\ pairOf' = [pairOf EXCEPT ![h] = current']
      /\ pc' = [pc EXCEPT ![h] = "holding"]
      /\ UNCHANGED <<slot, ready>>
  BY DEF GetOrCreatePair, PairInv, TypeOK
<1>2. PairInv'
  <2>1. \A g \in Conns : (pairOf'[g] = None) <=> (pc'[g] = "new")
    BY <1>1 DEF PairInv, TypeOK
  <2>2. pairOf'[current'] = current'
    <3>1. current' = h \/ (current' = current /\ current # None /\ pairOf[current] = current)
      BY DEF GetOrCreatePair, PairInv
    <3> QED BY <1>1, <3>1 DEF TypeOK
  <2> QED BY <2>1, <2>2 DEF PairInv
<1>3. SlotInv'
  <2>1. \A g \in Conns : Registered(g)' <=> Registered(g)
    BY <1>1 DEF Registered, TypeOK
  <2>2. \A g \in Conns : Registered(g) => pairOf'[g] = pairOf[g]
    BY <1>1 DEF Registered, TypeOK
  <2>3. \A p \in Conns, r \in Roles : slot[p][r] \in Conns \cup {None}
    BY DEF TypeOK
  <2> QED BY <1>1, <2>1, <2>2, <2>3 DEF SlotInv
<1>4. ClosingInv'
  <2>1. \A g \in Conns : /\ pc'[g] \in {"closing", "panicked"} => pairOf'[g] = pairOf[g]
                         /\ (pc'[g] = "closing") <=> (pc[g] = "closing")
                         /\ (pc'[g] = "panicked") <=> (pc[g] = "panicked")
    BY <1>1 DEF TypeOK
  <2>2. \A p : SameRole(p) /\ p # None => SameRole(p)'
    BY <1>1 DEF SameRole, TypeOK
  <2>3. \A g \in Conns : pc[g] \in {"closing", "panicked"} => pairOf[g] # None
    BY DEF PairInv
  <2> QED BY <1>1, <2>1, <2>2, <2>3 DEF ClosingInv, Full
<1> QED BY <1>2, <1>3, <1>4

LEMMA RegisterKeepsPairs ==
  ASSUME PanicInv, NEW h \in Conns, Register(h)
  PROVE  PairInv' /\ SlotInv' /\ ClosingInv'
<1> DEFINE p == pairOf[h]
<1> USE WsRelayAssumption DEF PanicInv
<1>1. /\ pc[h] = "holding" /\ p \in Conns /\ Role[h] \in Roles
      /\ slot' = [slot EXCEPT ![p][Role[h]] = h]
      /\ pc' = [pc EXCEPT ![h] = IF Full(p)' THEN "closing" ELSE "waiting"]
      /\ UNCHANGED <<current, pairOf, ready>>
  <2>1. pc[h] = "holding"  BY DEF Register
  <2>2. p \in Conns  BY <2>1 DEF PairInv, TypeOK
  <2> QED BY <2>1, <2>2 DEF Register, BothReady, Full
<1>2. /\ \A q \in Conns, r \in Roles :
           slot'[q][r] = IF q = p /\ r = Role[h] THEN h ELSE slot[q][r]
      /\ \A q \in Conns, r \in Roles : slot[q][r] \in Conns \cup {None}
  BY <1>1 DEF TypeOK
<1>3. /\ pc'[h] = IF Full(p)' THEN "closing" ELSE "waiting"
      /\ \A g \in Conns : g # h => pc'[g] = pc[g]
  BY <1>1 DEF TypeOK
<1>4. PairInv'
  BY <1>1, <1>3 DEF PairInv
<1>5. SlotInv'
  <2>1. \A g \in Conns : Registered(g)' <=> (Registered(g) \/ g = h)
    BY <1>3 DEF Registered
  <2>2. \A g \in Conns : Registered(g) => pairOf[g] \in Conns
    BY DEF Registered, PairInv, TypeOK
  <2>3. ASSUME NEW q \in Conns, NEW r \in Roles, slot'[q][r] # None
        PROVE  /\ pairOf'[slot'[q][r]] = q /\ Role[slot'[q][r]] = r
               /\ pc'[slot'[q][r]] \notin {"new", "holding"}
    <3>1. CASE q = p /\ r = Role[h]
      BY <1>1, <1>2, <1>3, <3>1
    <3>2. CASE ~(q = p /\ r = Role[h])
      <4>1. slot'[q][r] = slot[q][r] /\ slot[q][r] \in Conns
        BY <1>2, <2>3, <3>2
      <4>2. pairOf[slot[q][r]] = q /\ Role[slot[q][r]] = r /\ Registered(slot[q][r])
        BY <2>3, <4>1 DEF SlotInv
      <4> QED BY <1>1, <2>1, <4>1, <4>2 DEF Registered
    <3> QED BY <3>1, <3>2
  <2>4. ASSUME NEW g \in Conns, Registered(g)'
        PROVE  slot'[pairOf'[g]][Role[g]] # None
    BY <1>1, <1>2, <2>1, <2>2, <2>4 DEF SlotInv
  <2> QED BY <2>3, <2>4 DEF SlotInv, Registered
<1>6. ClosingInv'
  <2>1. Full(p) => SameRole(p)
    <3> SUFFICES ASSUME Full(p) PROVE SameRole(p)
      OBVIOUS
    <3> DEFINE f == slot[p][Role[h]]
    <3>1. f \in Conns /\ pairOf[f] = p /\ Role[f] = Role[h] /\ Registered(f)
      BY <1>1, <1>2 DEF Full, SlotInv
    <3>2. f # h
      BY <1>1, <3>1 DEF Registered
    <3> QED BY <3>1, <3>2 DEF SameRole
  <2>2. \A q \in Conns : (SameRole(q)' <=> SameRole(q)) /\ (Full(q) => Full(q)')
    BY <1>1, <1>2 DEF SameRole, Full
  <2>3. \A q \in ready : q \in Conns /\ Full(q)
    BY DEF TypeOK, ClosingInv
  <2>4. \A g \in Conns : pc[g] # "new" => pairOf[g] \in Conns
    BY DEF PairInv, TypeOK
  <2>5. \A g \in Conns : pc[g] \in {"closing", "panicked"} => g # h /\ pc'[g] = pc[g]
    BY <1>1, <1>3
  <2>6. \A g \in Conns : pc'[g] \in {"closing", "panicked"} /\ g # h => pc[g] = pc'[g]
    BY <1>3
  <2>7. pc'[h] # "panicked" /\ (pc'[h] = "closing" => Full(p)')
    BY <1>3
  <2>8. ASSUME NEW g \in Conns, pc'[g] = "closing"
        PROVE  /\ Full(pairOf[g])'
               /\ \/ SameRole(pairOf[g])'
                  \/ /\ pairOf[g] \notin ready
                     /\ \A k \in Conns : pairOf[k] = pairOf[g] /\ pc'[k] = "closing" => k = g
    <3>1. CASE g = h
      BY <1>1, <2>1, <2>2, <2>3, <2>6, <2>7, <2>8, <3>1 DEF ClosingInv
    <3>2. CASE g # h
      <4>1. pc[g] = "closing" /\ pairOf[g] \in Conns /\ Full(pairOf[g])
        BY <2>4, <2>6, <2>8, <3>2 DEF ClosingInv
      <4>2. CASE pairOf[g] = p
        BY <1>1, <2>1, <2>2, <4>1, <4>2
      <4>3. CASE pairOf[g] # p
        BY <1>1, <1>3, <2>2, <2>6, <4>1, <4>3 DEF ClosingInv
      <4> QED BY <4>2, <4>3
    <3> QED BY <3>1, <3>2
  <2>9. \A g \in Conns : pc'[g] = "panicked" => SameRole(pairOf[g])'
    BY <1>1, <2>2, <2>4, <2>6, <2>7 DEF ClosingInv
  <2> QED BY <1>1, <2>2, <2>3, <2>8, <2>9 DEF ClosingInv, SameRole, Full
<1> QED BY <1>4, <1>5, <1>6

LEMMA CloseReadyKeepsPairs ==
  ASSUME PanicInv, NEW h \in Conns, CloseReady(h)
  PROVE  PairInv' /\ SlotInv' /\ ClosingInv'
<1> DEFINE p == pairOf[h]
<1> USE WsRelayAssumption DEF PanicInv
<1>1. /\ pc[h] = "closing" /\ p \in Conns
      /\ pc' = [pc EXCEPT ![h] = IF p \in ready THEN "panicked" ELSE "waiting"]
      /\ ready' = ready \cup {p}
      /\ UNCHANGED <<current, pairOf, slot>>
  BY DEF CloseReady, PairInv, TypeOK
<1>2. /\ pc'[h] = IF p \in ready THEN "panicked" ELSE "waiting"
      /\ \A g \in Conns : g # h => pc'[g] = pc[g]
  BY <1>1 DEF TypeOK
<1>3. PairInv'
  BY <1>1, <1>2 DEF PairInv
<1>4. SlotInv'
  <2>1. \A g \in Conns : Registered(g)' <=> Registered(g)
    BY <1>1, <1>2 DEF Registered
  <2>2. \A q \in Conns, r \in Roles : slot[q][r] \in Conns \cup {None}
    BY DEF TypeOK
  <2> QED BY <1>1, <2>1, <2>2 DEF SlotInv
<1>5. ClosingInv'
  <2>1. Full(p) /\ \A q \in ready : Full(q)
    BY <1>1 DEF ClosingInv
  <2>2. ASSUME NEW g \in Conns, pc'[g] = "closing"
        PROVE  /\ Full(pairOf[g])
               /\ \/ SameRole(pairOf[g])
                  \/ /\ pairOf[g] \notin ready'
                     /\ \A k \in Conns : pairOf[k] = pairOf[g] /\ pc'[k] = "closing" => k = g
    <3>1. g # h /\ pc[g] = "closing"
      BY <1>2, <2>2
    <3>2. CASE pairOf[g] = p
      BY <1>1, <3>1, <3>2 DEF ClosingInv
    <3>3. CASE pairOf[g] # p
      BY <1>1, <1>2, <3>1, <3>3 DEF ClosingInv
    <3> QED BY <3>2, <3>3
  <2>3. ASSUME NEW g \in Conns, pc'[g] = "panicked" PROVE SameRole(pairOf[g])
    BY <1>1, <1>2, <2>3 DEF ClosingInv
  <2> QED BY <1>1, <2>1, <2>2, <2>3 DEF ClosingInv, SameRole, Full
<1> QED BY <1>3, <1>4, <1>5

LEMMA StartRelayKeepsPairs ==
  ASSUME PanicInv, NEW h \in Conns, StartRelay(h)
  PROVE  PairInv' /\ SlotInv' /\ ClosingInv' /\ EndsInv'
<1> USE WsRelayAssumption DEF PanicInv
<1>1. /\ pc[h] = "waiting" /\ pc' = [pc EXCEPT ![h] = "relaying"]
      /\ UNCHANGED <<current, pairOf, slot, ready>>
  BY DEF StartRelay
<1>2. pc'[h] = "relaying" /\ \A g \in Conns : g # h => pc'[g] = pc[g]
  BY <1>1 DEF TypeOK
<1>3. PairInv'
  BY <1>1, <1>2 DEF PairInv
<1>4. SlotInv'
  <2>1. \A g \in Conns : Registered(g)' <=> Registered(g)
    BY <1>1, <1>2 DEF Registered
  <2>2. \A q \in Conns, r \in Roles : slot[q][r] \in Conns \cup {None}
    BY DEF TypeOK
  <2> QED BY <1>1, <2>1, <2>2 DEF SlotInv
<1>5. ClosingInv'
  BY <1>1, <1>2 DEF ClosingInv, SameRole, Full
<1>6. EndsInv'
  <2>1. pairOf[h] \in Conns /\ Full(pairOf[h])
    BY DEF StartRelay, ClosingInv, TypeOK
  <2>2. \A r \in Roles : LET c == slot[pairOf[h]][r]
                         IN  c \in Conns /\ Role[c] = r /\ pairOf[c] = pairOf[h]
    BY <2>1 DEF Full, TypeOK, SlotInv
  <2>3. Role[h] \in Roles /\ Other(Role[h]) \in Roles /\ Other(Role[h]) # Role[h]
    BY DEF Other, Roles
  <2>4. /\ src'[h] = slot[pairOf[h]][Role[h]] /\ dst'[h] = slot[pairOf[h]][Other(Role[h])]
        /\ \A g \in Conns : g # h => src'[g] = src[g] /\ dst'[g] = dst[g]
    BY DEF StartRelay, TypeOK
  <2> QED BY <1>1, <1>2, <2>2, <2>3, <2>4 DEF EndsInv
<1> QED BY <1>3, <1>4, <1>5, <1>6

LEMMA NextKeepsPanicInv == PanicInv /\ [Next]_vars => PanicInv'
<1> SUFFICES ASSUME PanicInv, [Next]_vars PROVE PanicInv'
  OBVIOUS
<1>1. CASE UNCHANGED vars
  BY <1>1
  DEF vars, pairVars, wireVars, PanicInv, TypeOK, PairInv, SlotInv, ClosingInv,
      EndsInv, Registered, Full, SameRole
<1>2. ASSUME NEW h \in Conns, Handler(h) PROVE PanicInv'
  <2>1. TypeOK'
    BY <1>2, HandlerKeepsType DEF PanicInv
  <2>2. CASE GetOrCreatePair(h)
    <3>1. EndsInv'
      <4>1. \A g \in Conns : pc'[g] = "relaying" => pc[g] = "relaying" /\ g # h
        BY <2>2 DEF GetOrCreatePair, PanicInv, TypeOK
      <4>2. \A g \in Conns : pairOf[g] # None => pairOf'[g] = pairOf[g]
        BY <2>2 DEF GetOrCreatePair, PanicInv, PairInv, TypeOK
      <4>3. \A g \in Conns : pc[g] = "relaying" => pairOf[g] # None
        BY DEF PanicInv, PairInv
      <4> QED BY <2>2, <4>1, <4>2, <4>3 DEF GetOrCreatePair, EndsInv, PanicInv
    <3> QED BY <2>1, <2>2, <3>1, GetOrCreateKeepsPairs DEF PanicInv
  <2>3. CASE Register(h)
    <3>1. EndsInv'
      BY <2>3 DEF Register, EndsInv, PanicInv, TypeOK
    <3> QED BY <2>1, <2>3, <3>1, RegisterKeepsPairs DEF PanicInv
  <2>4. CASE CloseReady(h)
    <3>1. EndsInv'
      BY <2>4 DEF CloseReady, EndsInv, PanicInv, TypeOK
    <3> QED BY <2>1, <2>4, <3>1, CloseReadyKeepsPairs DEF PanicInv
  <2>5. CASE StartRelay(h)
    BY <2>1, <2>5, StartRelayKeepsPairs DEF PanicInv
  <2>6. CASE ReadMessage(h) \/ ReadFails(h) \/ WriteMessage(h) \/ CopyFails(h) \/ RemovePair(h)
    <3>1. /\ UNCHANGED <<pairOf, slot, ready, src, dst>>
          /\ pc[h] \in {"relaying", "leaving"}
          /\ pc' \in {pc, [pc EXCEPT ![h] = "leaving"], [pc EXCEPT ![h] = "done"]}
          /\ current' \in {current, None}
      BY <2>6 DEF ReadMessage, ReadFails, WriteMessage, CopyFails, RemovePair, Leave, pairVars
    <3>2. EndsInv'
      <4>1. \A g \in Conns : pc'[g] = "relaying" => pc[g] = "relaying"
        BY <3>1 DEF PanicInv, TypeOK
      <4> QED BY <3>1, <4>1 DEF EndsInv, PanicInv
    <3>3. PairInv' /\ SlotInv' /\ ClosingInv'
      BY <3>1, OtherStepsKeepPairs
    <3> QED BY <2>1, <3>2, <3>3 DEF PanicInv
  <2> QED BY <1>2, <2>2, <2>3, <2>4, <2>5, <2>6 DEF Handler
<1>3. ASSUME NEW h \in Conns, ClientSends(h) \/ ClientLeaves(h) PROVE PanicInv'
  <2>1. TypeOK'
    BY <1>3, ClientKeepsType DEF PanicInv
  <2>2. UNCHANGED <<pc, current, pairOf, slot, ready, src, dst>>
    BY <1>3 DEF ClientSends, ClientLeaves, pairVars
  <2> QED
    BY <2>1, <2>2
    DEF PanicInv, PairInv, SlotInv, ClosingInv, EndsInv, Registered, Full, SameRole
<1> QED BY <1>1, <1>2, <1>3 DEF Next

-----------------------------------------------------------------------------
(* The stream from the sender to the receiver. *)

\* No connection of a pair leaves it, so a pair that has one sender had no other.
LEMMA SoleBefore ==
  ASSUME NEW p \in Conns, \A g \in Conns : pairOf[g] = p => pairOf'[g] = p, SoleSender(p)'
  PROVE  SoleSender(p)
BY DEF SoleSender

\* The only sender of a pair is the one its handler reads from.
LEMMA SoleSource ==
  ASSUME EndsInv, NEW h \in Conns, pc[h] = "relaying", Role[h] = "sender",
         SoleSender(pairOf[h])
  PROVE  src[h] = h
BY DEF EndsInv, SoleSender

LEMMA NextKeepsHands == RelayInv /\ [Next]_vars => HandInv'
<1> SUFFICES ASSUME RelayInv, [Next]_vars PROVE HandInv'
  OBVIOUS
<1> USE WsRelayAssumption DEF RelayInv, PanicInv, HandInv
<1>1. CASE UNCHANGED vars
  BY <1>1 DEF vars, wireVars
<1>2. ASSUME NEW h \in Conns,
             GetOrCreatePair(h) \/ Register(h) \/ CloseReady(h) \/ StartRelay(h)
      PROVE  HandInv'
  <2>1. UNCHANGED <<hand, sock, sent, read>>
    BY <1>2 DEF GetOrCreatePair, Register, CloseReady, StartRelay, wireVars
  <2>2. \A g \in Conns : /\ pc[g] = "relaying" => pc'[g] = "relaying"
                         /\ pc[g] \in {"leaving", "done"} <=> pc'[g] \in {"leaving", "done"}
    <3>1. DOMAIN pc = Conns  BY DEF TypeOK
    <3>2. /\ pc[h] \in {"new", "holding", "closing", "waiting"}
          /\ pc'[h] \notin {"leaving", "done"}
          /\ \A g \in Conns : g # h => pc'[g] = pc[g]
      BY <1>2, <3>1 DEF GetOrCreatePair, Register, CloseReady, StartRelay
    <3> QED BY <3>2
  <2> QED BY <2>1, <2>2
<1>3. ASSUME NEW h \in Conns, ReadMessage(h) PROVE HandInv'
  <2>1. src[h] \in Conns /\ Role[src[h]] = Role[h]
    BY <1>3 DEF ReadMessage, EndsInv
  <2>2. Role[h] = "sender"
    <3>1. read[src[h]] \in Nat /\ sent[src[h]] # 0
      BY <1>3, <2>1 DEF ReadMessage, TypeOK
    <3> QED BY <2>1, <3>1 DEF Roles
  <2>3. \A g \in Conns : read'[g] <= sent'[g]
    BY <1>3, <2>1 DEF ReadMessage, TypeOK
  <2>4. \A g \in Conns : hand'[g] # 0 => pc'[g] = "relaying" /\ Role[g] = "sender"
    BY <1>3, <2>2 DEF ReadMessage, TypeOK
  <2> QED BY <1>3, <2>3, <2>4 DEF ReadMessage
<1>4. ASSUME NEW h \in Conns, WriteMessage(h) \/ CopyFails(h) PROVE HandInv'
  <2>1. pc[h] = "relaying" /\ hand' = [hand EXCEPT ![h] = 0] /\ UNCHANGED <<sent, read>>
    BY <1>4 DEF WriteMessage, CopyFails
  <2>2. UNCHANGED <<pc, sock>> \/ Leave(h)
    BY <1>4 DEF WriteMessage, CopyFails
  <2> QED BY <2>1, <2>2 DEF Leave, TypeOK
<1>5. ASSUME NEW h \in Conns, ReadFails(h) \/ RemovePair(h) PROVE HandInv'
  BY <1>5 DEF ReadFails, RemovePair, Leave, TypeOK, wireVars
<1>6. ASSUME NEW h \in Conns, ClientSends(h) PROVE HandInv'
  BY <1>6 DEF ClientSends, TypeOK, Roles
<1>7. ASSUME NEW h \in Conns, ClientLeaves(h) PROVE HandInv'
  BY <1>7 DEF ClientLeaves
<1> QED BY <1>1, <1>2, <1>3, <1>4, <1>5, <1>6, <1>7 DEF Next, Handler

\* Steps by which nobody gets a message and nobody starts to relay: at most a
\* message in hand is given up, by a handler that stops or whose target is gone.
LEMMA QuietStepsKeepStream ==
  ASSUME RelayInv, UNCHANGED <<pairOf, src, dst, read, got>>,
         \A g \in Conns :
           /\ (pc[g] \in Began) <=> (pc'[g] \in Began)
           /\ pc'[g] = "new" => pc[g] = "new"
           /\ pc'[g] = "relaying" =>
                /\ pc[g] = "relaying"
                /\ hand'[g] = hand[g] \/ (hand'[g] = 0 /\ client[dst[g]] = "gone")
           /\ client'[g] \in {client[g], "gone"}
           /\ sock[g] = "closed" => sock'[g] = "closed"
  PROVE  ReadInv' /\ GotInv'
<1> USE DEF RelayInv, PanicInv
<1>1. \A p : SoleSender(p)' <=> SoleSender(p)
  BY DEF SoleSender
<1>2. ReadInv'
  <2>1. \A g \in Conns : pc'[g] = "relaying" =>
          dst[g] \in Conns /\ (client'[dst[g]] = "connected" => client[dst[g]] = "connected")
    BY DEF EndsInv
  <2>2. \A g \in Conns : pc'[g] = "relaying" /\ client'[dst[g]] = "connected" =>
          hand'[g] = hand[g]
    BY <2>1
  <2> QED BY <1>1, <2>1, <2>2 DEF ReadInv
<1>3. GotInv'
  <2>1. \A d \in Conns : \A i \in DOMAIN got[d] : got[d][i][1] \in Conns
    BY DEF TypeOK, Deliveries
  <2>2. \A c \in Conns : client[c] = "gone" => client'[c] = "gone"
    OBVIOUS
  <2> QED BY <1>1, <2>1, <2>2 DEF GotInv, FromPair, InPlace
<1> QED BY <1>2, <1>3

LEMMA GetOrCreateKeepsStream ==
  ASSUME RelayInv, NEW h \in Conns, GetOrCreatePair(h)
  PROVE  ReadInv' /\ GotInv'
<1> USE WsRelayAssumption DEF RelayInv, PanicInv
<1>1. /\ pc[h] = "new" /\ pairOf[h] = None /\ pairOf'[h] \in Conns
      /\ pc'[h] = "holding"
      /\ \A g \in Conns : g # h => pc'[g] = pc[g] /\ pairOf'[g] = pairOf[g]
      /\ UNCHANGED <<hand, dst, client, read, got, sock>>
  BY DEF GetOrCreatePair, PairInv, TypeOK, wireVars
<1>2. \A p \in Conns : SoleSender(p)' => SoleSender(p)
  <2> SUFFICES ASSUME NEW p \in Conns, SoleSender(p)' PROVE SoleSender(p)
    OBVIOUS
  <2>1. \A g \in Conns : pairOf[g] = p => pairOf'[g] = p
    BY <1>1
  <2> QED BY <2>1, SoleBefore
<1>3. ReadInv'
  <2>1. \A g \in Conns : pc'[g] \notin {"new", "holding"} => pairOf[g] \in Conns /\ g # h
    BY <1>1 DEF PairInv, TypeOK
  <2>2. \A g \in Conns : g # h /\ pc[g] # "new" => pairOf[g] \in Conns
    BY DEF PairInv, TypeOK
  <2>3. ASSUME NEW g \in Conns
        PROVE  /\ pc'[g] = "new" => read'[g] = 0
               /\ Role[g] = "sender" /\ SoleSender(pairOf[g])' =>
                    /\ pc'[g] \notin Began => read'[g] = 0
                    /\ pc'[g] = "relaying" =>
                         /\ hand'[g] \in {0, read'[g]}
                         /\ client'[dst'[g]] = "connected" =>
                              Len(got'[dst'[g]]) = IF hand'[g] = 0 THEN read'[g] ELSE read'[g] - 1
    <3>1. CASE g = h
      BY <1>1, <3>1 DEF ReadInv, Began
    <3>2. CASE g # h /\ pc[g] = "new"
      BY <1>1, <3>2 DEF ReadInv, Began
    <3>3. CASE g # h /\ pc[g] # "new"
      <4>1. pairOf'[g] = pairOf[g] /\ pairOf[g] \in Conns
        BY <1>1, <2>2, <3>3
      <4>2. PICK p \in Conns : p = pairOf[g]
        BY <4>1
      <4>3. SoleSender(pairOf[g])' => SoleSender(p)
        BY <1>2, <4>1, <4>2
      <4> QED BY <1>1, <3>3, <4>2, <4>3 DEF ReadInv
    <3> QED BY <3>1, <3>2, <3>3
  <2> QED BY <2>3 DEF ReadInv
<1>4. GotInv'
  <2>1. ASSUME NEW d \in Conns, NEW i \in DOMAIN got[d]
        PROVE  /\ FromPair(d, got[d][i])'
               /\ SoleSender(pairOf[d])' => InPlace(d, got[d][i], i)'
    <3>1. got[d][i][1] \in Conns
      BY DEF TypeOK, Deliveries
    <3>2. FromPair(d, got[d][i]) /\ d # h /\ got[d][i][1] # h
      BY <1>1 DEF GotInv, FromPair
    <3>3. pairOf'[d] = pairOf[d] /\ pairOf[d] \in Conns
      BY <1>1, <3>2 DEF FromPair, TypeOK
    <3>4. PICK p \in Conns : p = pairOf[d]
      BY <3>3
    <3>5. SoleSender(pairOf[d])' => SoleSender(p)
      BY <1>2, <3>3, <3>4
    <3> QED BY <1>1, <3>1, <3>2, <3>3, <3>4, <3>5 DEF GotInv, FromPair, InPlace
  <2> QED BY <1>1, <2>1 DEF GotInv
<1> QED BY <1>3, <1>4

LEMMA StartRelayKeepsStream ==
  ASSUME RelayInv, EndsInv', NEW h \in Conns, StartRelay(h)
  PROVE  ReadInv' /\ GotInv'
<1> USE WsRelayAssumption DEF RelayInv, PanicInv
<1>1. /\ pc[h] = "waiting" /\ pc'[h] = "relaying"
      /\ \A g \in Conns : g # h => pc'[g] = pc[g] /\ dst'[g] = dst[g]
      /\ UNCHANGED <<hand, client, read, got, sock, pairOf>>
  BY DEF StartRelay, TypeOK, wireVars
<1>2. \A p : SoleSender(p)' <=> SoleSender(p)
  BY <1>1 DEF SoleSender
<1>3. ASSUME Role[h] = "sender", SoleSender(pairOf[h])
      PROVE  read[h] = 0 /\ hand[h] = 0 /\ Len(got[dst'[h]]) = 0
  <2>1. read[h] = 0 /\ hand[h] = 0
    BY <1>1, <1>3 DEF ReadInv, HandInv, Began
  <2>2. dst'[h] \in Conns /\ pairOf[dst'[h]] = pairOf[h]
    BY <1>1 DEF EndsInv
  <2>3. PICK d \in Conns : d = dst'[h]
    BY <2>2
  <2>4. ASSUME NEW i \in DOMAIN got[d] PROVE FALSE
    <3>1. got[d][i][1] \in Conns
      BY DEF TypeOK, Deliveries
    <3>2. FromPair(d, got[d][i]) /\ InPlace(d, got[d][i], i)
      BY <1>3, <2>2, <2>3 DEF GotInv
    <3>3. got[d][i][1] = h
      BY <1>3, <2>2, <2>3, <3>1, <3>2 DEF FromPair, SoleSender
    <3> QED BY <1>1, <3>2, <3>3 DEF InPlace, Began
  <2>5. Len(got[d]) \in Nat /\ DOMAIN got[d] = 1 .. Len(got[d])
    BY DEF TypeOK
  <2>6. Len(got[d]) > 0 => 1 \in DOMAIN got[d]
    BY <2>5
  <2> QED BY <2>1, <2>3, <2>4, <2>5, <2>6
<1>4. ReadInv'
  BY <1>1, <1>2, <1>3 DEF ReadInv, Began
<1>5. GotInv'
  <2>1. \A d \in Conns : \A i \in DOMAIN got[d] : got[d][i][1] \in Conns
    BY DEF TypeOK, Deliveries
  <2>2. \A c \in Conns : pc[c] \in Began => pc'[c] \in Began
    BY <1>1 DEF Began
  <2> QED BY <1>1, <1>2, <2>1, <2>2 DEF GotInv, FromPair, InPlace
<1> QED BY <1>4, <1>5

LEMMA ReadMessageKeepsStream ==
  ASSUME RelayInv, NEW h \in Conns, ReadMessage(h)
  PROVE  ReadInv' /\ GotInv'
<1> USE WsRelayAssumption DEF RelayInv, PanicInv
<1>1. PICK c \in Conns : c = src[h]
  BY DEF ReadMessage, EndsInv
<1>2. /\ pc[h] = "relaying" /\ hand[h] = 0
      /\ Role[c] = Role[h] /\ pairOf[c] = pairOf[h] /\ pairOf[h] # None
      /\ UNCHANGED <<pc, pairOf, dst, client, got, sock>>
  BY <1>1 DEF ReadMessage, EndsInv, PairInv, pairVars
<1>3. /\ read'[c] = read[c] + 1 /\ hand'[h] = read[c] + 1
      /\ read[c] \in Nat /\ sent[c] \in Nat /\ read[c] < sent[c]
      /\ \A g \in Conns : (g # c => read'[g] = read[g]) /\ (g # h => hand'[g] = hand[g])
  BY <1>1 DEF ReadMessage, TypeOK
<1>4. Role[c] = "sender" /\ pc[c] # "new"
  BY <1>2, <1>3 DEF HandInv, PairInv, Roles
<1>5. \A p : SoleSender(p)' <=> SoleSender(p)
  BY <1>2 DEF SoleSender
<1>6. SoleSender(pairOf[h]) => c = h
  BY <1>2, <1>4 DEF SoleSender
<1>7. ReadInv'
  <2>1. ASSUME NEW g \in Conns
        PROVE  /\ pc[g] = "new" => read'[g] = 0
               /\ Role[g] = "sender" /\ SoleSender(pairOf[g]) =>
                    /\ pc[g] \notin Began => read'[g] = 0
                    /\ pc[g] = "relaying" =>
                         /\ hand'[g] \in {0, read'[g]}
                         /\ client[dst[g]] = "connected" =>
                              Len(got[dst[g]]) = IF hand'[g] = 0 THEN read'[g] ELSE read'[g] - 1
    <3>1. CASE g # c /\ g # h
      BY <1>3, <3>1 DEF ReadInv
    <3>2. CASE (g = c \/ g = h) /\ ~SoleSender(pairOf[g])
      BY <1>2, <1>3, <1>4, <3>2 DEF ReadInv
    <3>3. CASE (g = c \/ g = h) /\ SoleSender(pairOf[g])
      <4>1. g = h /\ c = h
        BY <1>2, <1>6, <3>3
      <4>2. client[dst[h]] = "connected" => Len(got[dst[h]]) = read[h]
        BY <1>2, <1>4, <3>3, <4>1 DEF ReadInv
      <4>3. read[h] + 1 # 0 /\ (read[h] + 1) - 1 = read[h]
        BY <1>3, <4>1
      <4> QED BY <1>2, <1>3, <4>1, <4>2, <4>3 DEF Began
    <3> QED BY <3>1, <3>2, <3>3
  <2> QED BY <1>2, <1>5, <2>1 DEF ReadInv
<1>8. GotInv'
  BY <1>2, <1>5 DEF GotInv, FromPair, InPlace
<1> QED BY <1>7, <1>8

\* A message, or the beginning of one, reaches the client.
LEMMA DeliverKeepsStream ==
  ASSUME RelayInv, NEW h \in Conns, NEW part \in {"whole", "cut"},
         pc[h] = "relaying", hand[h] # 0, Deliver(h, part),
         hand' = [hand EXCEPT ![h] = 0],
         \/ part = "whole" /\ UNCHANGED <<pc, sock>>
         \/ part = "cut" /\ SourceFailed(h) /\ Leave(h),
         UNCHANGED <<pairVars, client, read>>
  PROVE  ReadInv' /\ GotInv'
<1> USE WsRelayAssumption DEF RelayInv, PanicInv
<1>1. PICK d \in Conns : d = dst[h]
  BY DEF EndsInv
<1>2. PICK c \in Conns : c = src[h]
  BY DEF EndsInv
<1>3. /\ Role[h] = "sender" /\ Role[c] = "sender" /\ Role[d] = "receiver"
      /\ pairOf[c] = pairOf[h] /\ pairOf[d] = pairOf[h] /\ pairOf[h] \in Conns
      /\ UNCHANGED <<pairOf, src, dst>>
  <2>1. /\ Role[c] = Role[h] /\ Role[d] # Role[h] /\ Role[d] \in Roles
        /\ pairOf[c] = pairOf[h] /\ pairOf[d] = pairOf[h]
    BY <1>1, <1>2 DEF EndsInv
  <2>2. Role[h] = "sender"
    BY DEF HandInv
  <2>3. pairOf[h] \in Conns
    BY DEF PairInv, TypeOK
  <2> QED BY <2>1, <2>2, <2>3 DEF Roles, pairVars
<1>4. hand'[h] = 0 /\ \A g \in Conns : g # h => hand'[g] = hand[g]
  BY DEF TypeOK
<1>5. /\ \A g \in Conns : g # h => pc'[g] = pc[g] /\ sock'[g] = sock[g]
      /\ pc'[h] \in Began /\ pc'[h] # "new"
      /\ part = "whole" => pc'[h] = "relaying"
      /\ part = "cut" => pc'[h] # "relaying" /\ sock'[h] = "closed"
  BY DEF Leave, TypeOK, Began
<1>6. \A p : SoleSender(p)' <=> SoleSender(p)
  BY <1>3 DEF SoleSender
<1>7. \A g \in Conns : got[g] \in Seq(Deliveries)
  BY DEF TypeOK
<1>8. PICK n \in Nat : n = Len(got[d])
  BY <1>7
<1>9. /\ DOMAIN got[d] = 1 .. n /\ DOMAIN got'[d] = 1 .. n + 1
      /\ Len(got'[d]) = n + 1
      /\ got'[d][n + 1] = <<c, hand[h], part>>
      /\ \A i \in 1 .. n : got'[d][i] = got[d][i]
      /\ \A g \in Conns : g # d => got'[g] = got[g]
  <2>1. /\ got'[d] = Append(got[d], <<c, hand[h], part>>)
        /\ \A g \in Conns : g # d => got'[g] = got[g]
    BY <1>1, <1>2 DEF Deliver, TypeOK
  <2> QED BY <1>7, <1>8, <2>1
<1>10. ASSUME SoleSender(pairOf[h])
       PROVE  /\ c = h /\ sock[h] = "open"
              /\ hand[h] = read[h] /\ n = read[h] - 1 /\ read[h] \in Nat
              /\ part = "cut" => client[h] = "gone"
              /\ \A i \in 1 .. n : got[d][i][3] # "cut"
  <2>1. c = h
    BY <1>2, <1>3, <1>10, SoleSource
  <2>2. sock[h] = "open"
    BY DEF HandInv, TypeOK
  <2>3. client[d] = "connected"
    BY <1>1 DEF Deliver
  <2>4. hand[h] = read[h] /\ n = read[h] - 1 /\ read[h] \in Nat
    <3>1. hand[h] \in {0, read[h]}  BY <1>3, <1>10 DEF ReadInv
    <3>2. Len(got[d]) = IF hand[h] = 0 THEN read[h] ELSE read[h] - 1
      BY <1>1, <1>3, <1>10, <2>3 DEF ReadInv
    <3>3. read[h] \in Nat  BY DEF TypeOK
    <3> QED BY ONLY <1>8, <3>1, <3>2, <3>3, hand[h] # 0
  <2>5. part = "cut" => client[h] = "gone"
    BY <1>2, <2>1, <2>2 DEF SourceFailed
  <2>6. ASSUME NEW i \in 1 .. n, got[d][i][3] = "cut" PROVE FALSE
    <3>1. got[d][i][1] \in Conns
      BY <1>7, <1>9 DEF Deliveries
    <3>2. FromPair(d, got[d][i]) /\ InPlace(d, got[d][i], i)
      BY <1>3, <1>9, <1>10 DEF GotInv
    <3>3. got[d][i][1] = h
      BY <1>3, <1>10, <3>1, <3>2 DEF FromPair, SoleSender
    <3> QED BY <2>2, <2>6, <3>2, <3>3 DEF InPlace
  <2> QED BY <2>1, <2>2, <2>4, <2>5, <2>6
<1>11. ReadInv'
  <2>1. ASSUME NEW g \in Conns, Role[g] = "sender", SoleSender(pairOf[g]), pc'[g] = "relaying"
        PROVE  /\ hand'[g] \in {0, read[g]}
               /\ client[dst[g]] = "connected" =>
                    Len(got'[dst[g]]) = IF hand'[g] = 0 THEN read[g] ELSE read[g] - 1
    <3>1. CASE g = h
      BY <1>1, <1>4, <1>9, <1>10, <2>1, <3>1
    <3>2. CASE g # h
      <4>1. pc[g] = "relaying" /\ dst[g] \in Conns /\ pairOf[dst[g]] = pairOf[g]
        BY <1>5, <2>1, <3>2 DEF EndsInv
      <4>2. dst[g] # d
        BY <1>3, <2>1, <3>2, <4>1 DEF SoleSender
      <4> QED BY <1>4, <1>9, <2>1, <3>2, <4>1, <4>2 DEF ReadInv
    <3> QED BY <3>1, <3>2
  <2>2. \A g \in Conns : /\ pc'[g] = "new" => pc[g] = "new"
                         /\ pc'[g] \notin Began => pc[g] \notin Began
    BY <1>5 DEF Began
  <2> QED BY <1>3, <1>6, <2>1, <2>2 DEF ReadInv
<1>12. GotInv'
  <2>1. ASSUME NEW e \in Conns, NEW i \in DOMAIN got'[e], NEW m, m = got'[e][i]
        PROVE  /\ FromPair(e, m)
               /\ SoleSender(pairOf[e]) => InPlace(e, m, i)'
    <3>1. CASE e = d /\ i = n + 1
      <4>1. FromPair(e, m)
        BY <1>3, <1>9, <2>1, <3>1 DEF FromPair
      <4>2. SoleSender(pairOf[e]) => InPlace(e, m, i)'
        BY <1>3, <1>5, <1>9, <1>10, <2>1, <3>1 DEF InPlace
      <4> QED BY <4>1, <4>2
    <3>2. CASE e = d /\ i # n + 1
      <4>1. i \in 1 .. n /\ got'[e][i] = got[e][i] /\ i \in DOMAIN got[e]
        BY <1>8, <1>9, <2>1, <3>2
      <4>2. got[e][i][1] \in Conns
        BY <1>7, <4>1 DEF Deliveries
      <4>3. FromPair(e, got[e][i]) /\ (SoleSender(pairOf[e]) => InPlace(e, got[e][i], i))
        BY <4>1 DEF GotInv
      <4>4. FromPair(e, m)
        BY <2>1, <4>1, <4>3
      <4>5. SoleSender(pairOf[e]) => InPlace(e, m, i)'
        BY <1>3, <1>5, <1>10, <2>1, <3>2, <4>1, <4>2, <4>3 DEF InPlace
      <4> QED BY <4>4, <4>5
    <3>3. CASE e # d
      <4>1. got'[e] = got[e] /\ i \in DOMAIN got[e]
        BY <1>9, <2>1, <3>3
      <4>2. got[e][i][1] \in Conns
        BY <1>7, <4>1 DEF Deliveries
      <4>3. FromPair(e, got[e][i]) /\ (SoleSender(pairOf[e]) => InPlace(e, got[e][i], i))
        BY <4>1 DEF GotInv
      <4>4. FromPair(e, m)
        BY <2>1, <4>1, <4>3
      <4>5. SoleSender(pairOf[e]) => InPlace(e, m, i)'
        BY <1>5, <2>1, <4>1, <4>2, <4>3 DEF InPlace
      <4> QED BY <4>4, <4>5
    <3> QED BY <3>1, <3>2, <3>3
  <2>2. \A e \in Conns : \A m : FromPair(e, m)' <=> FromPair(e, m)
    BY <1>3 DEF FromPair
  <2>3. \A e \in Conns : SoleSender(pairOf[e])' <=> SoleSender(pairOf[e])
    BY <1>3, <1>6
  <2> QED BY <2>1, <2>2, <2>3 DEF GotInv, FromPair, InPlace
<1> QED BY <1>11, <1>12

LEMMA NextKeepsStream == RelayInv /\ EndsInv' /\ [Next]_vars => ReadInv' /\ GotInv'
<1> SUFFICES ASSUME RelayInv, EndsInv', [Next]_vars PROVE ReadInv' /\ GotInv'
  OBVIOUS
<1>1. CASE UNCHANGED vars
  BY <1>1, QuietStepsKeepStream DEF vars, pairVars, wireVars
<1>2. ASSUME NEW h \in Conns,
             Register(h) \/ CloseReady(h) \/ ReadFails(h) \/ RemovePair(h)
               \/ ClientSends(h) \/ ClientLeaves(h)
      PROVE  ReadInv' /\ GotInv'
  <2>1. UNCHANGED <<pairOf, hand, src, dst, read, got>>
    BY <1>2 DEF Register, CloseReady, ReadFails, RemovePair, ClientSends, ClientLeaves,
                pairVars, wireVars
  <2>2. \A g \in Conns : /\ (pc[g] \in Began) <=> (pc'[g] \in Began)
                         /\ pc'[g] = "relaying" => pc[g] = "relaying"
                         /\ pc'[g] = "new" => pc[g] = "new"
    BY <1>2 DEF Register, CloseReady, ReadFails, Leave, RemovePair, ClientSends,
                ClientLeaves, RelayInv, PanicInv, TypeOK, Began
  <2>3. \A g \in Conns : client'[g] \in {client[g], "gone"}
    BY <1>2 DEF Register, CloseReady, ReadFails, RemovePair, ClientSends, ClientLeaves,
                RelayInv, PanicInv, TypeOK, wireVars
  <2>4. \A g \in Conns : sock[g] = "closed" => sock'[g] = "closed"
    BY <1>2 DEF Register, CloseReady, ReadFails, Leave, RemovePair, ClientSends,
                ClientLeaves, RelayInv, PanicInv, TypeOK, wireVars
  <2> QED BY <2>1, <2>2, <2>3, <2>4, QuietStepsKeepStream
<1>3. ASSUME NEW h \in Conns, WriteMessage(h) \/ CopyFails(h) PROVE ReadInv' /\ GotInv'
  <2>1. /\ pc[h] = "relaying" /\ hand[h] # 0 /\ hand' = [hand EXCEPT ![h] = 0]
        /\ UNCHANGED <<pairVars, client, read>>
    BY <1>3 DEF WriteMessage, CopyFails
  <2>2. CASE WriteMessage(h) /\ Deliver(h, "whole") /\ UNCHANGED <<pc, sock>>
    BY <2>1, <2>2, DeliverKeepsStream
  <2>3. CASE CopyFails(h) /\ Deliver(h, "cut")
    BY <2>1, <2>3, DeliverKeepsStream DEF CopyFails
  <2>4. CASE got' = got /\ (Leave(h) \/ (SwallowedByTarget(h) /\ UNCHANGED <<pc, sock>>))
    <3>1. \A g \in Conns :
            /\ (pc[g] \in Began) <=> (pc'[g] \in Began)
            /\ pc'[g] = "new" => pc[g] = "new"
            /\ pc'[g] = "relaying" => pc[g] = "relaying"
            /\ sock[g] = "closed" => sock'[g] = "closed"
      BY <2>1, <2>4 DEF Leave, RelayInv, PanicInv, TypeOK, Began
    <3>2. \A g \in Conns : pc'[g] = "relaying" =>
            hand'[g] = hand[g] \/ (hand'[g] = 0 /\ client[dst[g]] = "gone")
      BY <2>1, <2>4 DEF Leave, SwallowedByTarget, RelayInv, PanicInv, TypeOK
    <3> QED BY <2>1, <2>4, <3>1, <3>2, QuietStepsKeepStream DEF pairVars
  <2> QED BY <1>3, <2>2, <2>3, <2>4 DEF WriteMessage, CopyFails
<1>4. ASSUME NEW h \in Conns, GetOrCreatePair(h) \/ StartRelay(h) \/ ReadMessage(h)
      PROVE  ReadInv' /\ GotInv'
  BY <1>4, GetOrCreateKeepsStream, StartRelayKeepsStream, ReadMessageKeepsStream
<1> QED BY <1>1, <1>2, <1>3, <1>4 DEF Next, Handler

-----------------------------------------------------------------------------

(***************************************************************************)
(* The inductive invariant of the WebSocket relay holds for any number of  *)
(* connections of one key, in any roles, and of messages.                  *)
(***************************************************************************)
THEOREM WsRelayInvariant == Spec => []RelayInv
<1>1. Init => RelayInv
  <2> SUFFICES ASSUME Init PROVE RelayInv
    OBVIOUS
  <2>1. TypeOK
    BY WsRelayAssumption DEF Init, TypeOK
  <2>2. PairInv /\ SlotInv /\ ClosingInv /\ EndsInv
    BY WsRelayAssumption
    DEF Init, PairInv, SlotInv, ClosingInv, EndsInv, Registered, Full
  <2>3. HandInv /\ ReadInv /\ GotInv
    BY DEF Init, HandInv, ReadInv, GotInv
  <2> QED BY <2>1, <2>2, <2>3 DEF RelayInv, PanicInv
<1>2. RelayInv /\ [Next]_vars => RelayInv'
  <2> SUFFICES ASSUME RelayInv, [Next]_vars PROVE RelayInv'
    OBVIOUS
  <2>1. PanicInv' /\ HandInv'
    BY NextKeepsPanicInv, NextKeepsHands DEF RelayInv
  <2>2. ReadInv' /\ GotInv'
    BY <2>1, NextKeepsStream DEF PanicInv
  <2> QED BY <2>1, <2>2 DEF RelayInv
<1> QED BY <1>1, <1>2, PTL DEF Spec

(***************************************************************************)
(* Type correctness of the WebSocket relay: in particular a handler never  *)
(* reads from or writes to a nil connection.                               *)
(***************************************************************************)
THEOREM WsRelayTypeCorrect == Spec => [](TypeOK /\ EndsInv)
<1>1. RelayInv => TypeOK /\ EndsInv
  BY DEF RelayInv, PanicInv
<1> QED BY <1>1, WsRelayInvariant, PTL

(***************************************************************************)
(* The ready channel of a pair is closed twice, which panics, only when    *)
(* two connections of one role registered in that pair.                    *)
(***************************************************************************)
THEOREM PanicsAreExplained == Spec => []PanicNeedsSameRole
<1>1. RelayInv => PanicNeedsSameRole
  BY DEF RelayInv, PanicInv, ClosingInv, SameRole, PanicNeedsSameRole
<1> QED BY <1>1, WsRelayInvariant, PTL

(***************************************************************************)
(* While one sender came to its pair, a client has a prefix of what that   *)
(* sender sent, of which only the last message may be cut short, and then  *)
(* the sender left in the middle of it.                                    *)
(***************************************************************************)
THEOREM RelayKeepsOrder == Spec => []DeliversPrefix
<1>1. ASSUME RelayInv PROVE DeliversPrefix
  <2>1. \A d \in Conns : \A i \in DOMAIN got[d] : Role[got[d][i][1]] # Role[d]
    BY <1>1 DEF RelayInv, GotInv, FromPair
  <2> QED BY <1>1, <2>1 DEF RelayInv, GotInv, FromPair, InPlace, DeliversPrefix
<1> QED BY <1>1, WsRelayInvariant, PTL
=============================================================================
