------------------------------ MODULE Negotiation ------------------------------
(***************************************************************************)
(* How the P2P connections come about (transfer.js): createOffer and       *)
(* handleAnswer of the sending TransferEngine, handleOffer of the          *)
(* receiving one, addIceCandidate of both.  All are async functions: other *)
(* handlers run wherever one awaits, and an action is what one does from   *)
(* an await to the next.  The server forwards messages in order both ways. *)
(*                                                                         *)
(* RTCPeerConnections are numbers, the sender's and the receiver's apart,  *)
(* in the order of creation; a candidate is the number of the peer         *)
(* connection it belongs to and its own.                                   *)
(***************************************************************************)
EXTENDS Integers, Sequences, FiniteSets

CONSTANTS
  NumP2P,     \* NUM_P2P
  OfferCalls, \* how often the page calls createOffer: once per "peer-joined"
  CandCount   \* bound: ICE candidates of each peer connection

ASSUME NegotiationAssumption ==
  /\ NumP2P \in Nat \ {0} /\ OfferCalls \in Nat \ {0} /\ CandCount \in Nat

SenderPCs == 1 .. NumP2P * OfferCalls
Indices   == 0 .. NumP2P - 1
Index(k)  == (k - 1) % NumP2P          \* conn.index of the sender's k-th connection
Calls     == 1 .. OfferCalls

VARIABLES
  created,   \* the sender's this.connections is 1 .. created
  call,      \* each createOffer: where it is, and its place in the for loop
  sconn,     \* the sender's connections
  answering, \* running handleAnswers: [conn, from, at]
  rmade,     \* peer connections the receiver has created
  rconn,     \* the receiver's connections, each with its handleOffer
  rindex,    \* the receiver's this.connections: index -> connection, 0 for none
  globalIce, \* the receiver's _globalPendingIce
  toReceiver, toSender,   \* signaling messages under way
  semitted, remitted      \* candidates each peer connection has come up with

senderVars   == <<created, call, sconn, answering>>
receiverVars == <<rmade, rconn, rindex, globalIce>>
wireVars     == <<toReceiver, toSender>>
vars == <<senderVars, receiverVars, wireVars, semitted, remitted>>

\* Every offer a call can send makes the receiver create one.
ReceiverPCs == 1 .. NumP2P * OfferCalls * OfferCalls
Candidates(pcs) == pcs \X (1 .. CandCount)

NewConn == [state |-> "stable", remote |-> 0, remoteDescriptionSet |-> FALSE,
            pendingCandidates |-> {}, got |-> {}, at |-> "idle"]

\* [type, index, pc], and the candidate's own number in n.
Message(type, index, pc, n) == [type |-> type, index |-> index, pc |-> pc, n |-> n]

ConnType(pcs) ==
  [state : {"stable", "have-local-offer"}, remote : pcs \cup {0},
   remoteDescriptionSet : BOOLEAN, pendingCandidates : SUBSET Candidates(pcs),
   got : SUBSET Candidates(pcs),
   at : {"idle", "remote", "flush", "clear", "local", "done"}]

TypeOK ==
  /\ created \in 0 .. NumP2P * OfferCalls
  /\ call \in [Calls -> [at : {"idle", "next", "local", "done"}, pos : SenderPCs \cup {Cardinality(SenderPCs) + 1}]]
  /\ sconn \in [SenderPCs -> ConnType(ReceiverPCs)]
  /\ answering \subseteq [conn : 1 .. created, from : 1 .. rmade, at : {"remote", "flush", "clear"}]
  /\ rmade \in 0 .. Cardinality(ReceiverPCs)
  /\ rconn \in [ReceiverPCs -> ConnType(SenderPCs)]
  /\ rindex \in [Indices -> 0 .. rmade]
  /\ globalIce \in [Indices -> SUBSET Candidates(1 .. created)]
  /\ semitted \in [SenderPCs -> 0 .. CandCount] /\ remitted \in [ReceiverPCs -> 0 .. CandCount]
  /\ \A k \in SenderPCs : k > created => semitted[k] = 0
  /\ \A r \in ReceiverPCs : r > rmade => remitted[r] = 0
  \* An index that has a connection has no candidates in the global list,
  \* except while its handleOffer waits to flush them.
  /\ \A i \in Indices :
       rindex[i] # 0 /\ globalIce[i] # {} => rconn[rindex[i]].at \in {"remote", "flush"}

Init ==
  /\ created = 0
  /\ call = [c \in Calls |-> [at |-> "idle", pos |-> 1]]
  /\ sconn = [k \in SenderPCs |-> NewConn]
  /\ answering = {}
  /\ rmade = 0
  /\ rconn = [r \in ReceiverPCs |-> NewConn]
  /\ rindex = [i \in Indices |-> 0]
  /\ globalIce = [i \in Indices |-> {}]
  /\ toReceiver = <<>> /\ toSender = <<>>
  /\ semitted = [k \in SenderPCs |-> 0] /\ remitted = [r \in ReceiverPCs |-> 0]

-----------------------------------------------------------------------------
(* createOffer. *)

\* Up to its first await: NUM_P2P more connections, whatever there is already.
CreateOffer(c) ==
  /\ call[c].at = "idle"
  /\ created' = created + NumP2P
  /\ call' = [call EXCEPT ![c].at = "next"]
  /\ UNCHANGED <<sconn, answering, receiverVars, wireVars, semitted, remitted>>

\* The loop over this.connections, which sees what is pushed while it runs:
\* createOffer of the peer connection, and setLocalDescription.
SetLocalOffer(c) ==
  /\ call[c].at = "next"
  /\ \/ /\ call[c].pos <= created
        /\ sconn' = [sconn EXCEPT ![call[c].pos].state = "have-local-offer"]
        /\ call' = [call EXCEPT ![c].at = "local"]
     \/ /\ call[c].pos > created
        /\ call' = [call EXCEPT ![c].at = "done"]
        /\ UNCHANGED sconn
  /\ UNCHANGED <<created, answering, receiverVars, wireVars, semitted, remitted>>

SendOffer(c) ==
  /\ call[c].at = "local"
  /\ LET k == call[c].pos
     IN  toReceiver' = Append(toReceiver, Message("offer", Index(k), k, 0))
  /\ call' = [call EXCEPT ![c] = [at |-> "next", pos |-> @.pos + 1]]
  /\ UNCHANGED <<created, sconn, answering, receiverVars, toSender, semitted, remitted>>

-----------------------------------------------------------------------------
(* The receiver. *)

FromSender(type) == toReceiver # <<>> /\ Head(toReceiver).type = type

\* handleOffer up to its first await, setRemoteDescription: a new connection
\* takes the index, whether or not one has it.
HandleOffer ==
  /\ FromSender("offer")
  /\ LET m == Head(toReceiver)
     IN  /\ rmade' = rmade + 1
         /\ rindex' = [rindex EXCEPT ![m.index] = rmade']
         /\ rconn' = [rconn EXCEPT ![rmade'] = [NewConn EXCEPT !.at = "remote", !.remote = m.pc]]
  /\ toReceiver' = Tail(toReceiver)
  /\ UNCHANGED <<senderVars, globalIce, toSender, semitted, remitted>>

RemoteOfferSet_NoFlag(r) ==
  /\ rconn[r].at = "remote"
  /\ rconn' = [rconn EXCEPT ![r].at = "flush"]
  /\ UNCHANGED <<senderVars, rmade, rindex, globalIce, wireVars, semitted, remitted>>

\* The remote description is set: from here on candidates are added at once.
RemoteOfferSet(r) ==
  /\ rconn[r].at = "remote"
  /\ rconn' = [rconn EXCEPT ![r].remoteDescriptionSet = TRUE, ![r].at = "flush"]
  /\ UNCHANGED <<senderVars, rmade, rindex, globalIce, wireVars, semitted, remitted>>

IndexOf(r) == Index(rconn[r].remote)

FlushOffered_KeepsGlobal(r) ==
  /\ rconn[r].at = "flush"
  /\ rconn' = [rconn EXCEPT ![r].got = @ \cup globalIce[IndexOf(r)] \cup rconn[r].pendingCandidates,
                            ![r].at = "clear"]
  /\ UNCHANGED <<senderVars, rmade, rindex, globalIce, wireVars, semitted, remitted>>

\* The candidates of the global list, which is deleted, and of the connection's.
FlushOffered(r) ==
  /\ rconn[r].at = "flush"
  /\ rconn' = [rconn EXCEPT ![r].got = @ \cup globalIce[IndexOf(r)] \cup rconn[r].pendingCandidates,
                            ![r].at = "clear"]
  /\ globalIce' = [globalIce EXCEPT ![IndexOf(r)] = {}]
  /\ UNCHANGED <<senderVars, rmade, rindex, wireVars, semitted, remitted>>

\* conn.pendingCandidates = [], createAnswer and setLocalDescription.
SetLocalAnswer(r) ==
  /\ rconn[r].at = "clear"
  /\ rconn' = [rconn EXCEPT ![r].pendingCandidates = {}, ![r].at = "local"]
  /\ UNCHANGED <<senderVars, rmade, rindex, globalIce, wireVars, semitted, remitted>>

SendAnswer(r) ==
  /\ rconn[r].at = "local"
  /\ toSender' = Append(toSender, Message("answer", IndexOf(r), r, 0))
  /\ rconn' = [rconn EXCEPT ![r].at = "done"]
  /\ UNCHANGED <<senderVars, rmade, rindex, globalIce, toReceiver, semitted, remitted>>

\* addIceCandidate: without a connection the candidate goes to the global list,
\* without its remote description to the connection's, else to the browser.
AddCandidate(conn, cand) ==
  IF conn.remoteDescriptionSet THEN [conn EXCEPT !.got = @ \cup {cand}]
  ELSE [conn EXCEPT !.pendingCandidates = @ \cup {cand}]

ReceiverIce_DropsEarly ==
  /\ FromSender("ice-candidate")
  /\ LET m == Head(toReceiver)
         r == rindex[m.index]
     IN  rconn' = IF r = 0 THEN rconn
                  ELSE [rconn EXCEPT ![r] = AddCandidate(@, <<m.pc, m.n>>)]
  /\ toReceiver' = Tail(toReceiver)
  /\ UNCHANGED <<senderVars, rmade, rindex, globalIce, toSender, semitted, remitted>>

ReceiverIce ==
  /\ FromSender("ice-candidate")
  /\ LET m == Head(toReceiver)
         cand == <<m.pc, m.n>>
         r == rindex[m.index]
     IN  \/ /\ r = 0
            /\ globalIce' = [globalIce EXCEPT ![m.index] = @ \cup {cand}]
            /\ UNCHANGED rconn
         \/ /\ r # 0
            /\ rconn' = [rconn EXCEPT ![r] = AddCandidate(@, cand)]
            /\ UNCHANGED globalIce
  /\ toReceiver' = Tail(toReceiver)
  /\ UNCHANGED <<senderVars, rmade, rindex, toSender, semitted, remitted>>

-----------------------------------------------------------------------------
(* The sender's handlers. *)

FromReceiver(type) == toSender # <<>> /\ Head(toSender).type = type

HandleAnswer_InOrder ==
  /\ FromReceiver("answer")
  /\ \E k \in 1 .. created :
       /\ sconn[k].state = "have-local-offer"
       /\ \A j \in 1 .. k - 1 : sconn[j].state = "stable"
       /\ answering' = answering \cup {[conn |-> k, from |-> Head(toSender).pc, at |-> "remote"]}
  /\ toSender' = Tail(toSender)
  /\ UNCHANGED <<created, call, sconn, receiverVars, toReceiver, semitted, remitted>>

\* handleAnswer finds its connection by index: always one of the first NUM_P2P.
\* A browser refuses an answer it did not ask for, and the handler ends.
HandleAnswer ==
  /\ FromReceiver("answer")
  /\ LET m == Head(toSender)
         k == m.index + 1
     IN  answering' = IF sconn[k].state = "stable" THEN answering
                      ELSE answering \cup {[conn |-> k, from |-> m.pc, at |-> "remote"]}
  /\ toSender' = Tail(toSender)
  /\ UNCHANGED <<created, call, sconn, receiverVars, toReceiver, semitted, remitted>>

Advance(t, at) == answering' = (answering \ {t}) \cup {[t EXCEPT !.at = at]}

RemoteAnswerSet(t) ==
  /\ t.at = "remote"
  /\ sconn' = [sconn EXCEPT ![t.conn].remote = t.from, ![t.conn].state = "stable",
                            ![t.conn].remoteDescriptionSet = TRUE]
  /\ Advance(t, "flush")
  /\ UNCHANGED <<created, call, receiverVars, wireVars, semitted, remitted>>

FlushAnswered(t) ==
  /\ t.at = "flush"
  /\ sconn' = [sconn EXCEPT ![t.conn].got = @ \cup sconn[t.conn].pendingCandidates]
  /\ Advance(t, "clear")
  /\ UNCHANGED <<created, call, receiverVars, wireVars, semitted, remitted>>

ClearAnswered(t) ==
  /\ t.at = "clear"
  /\ sconn' = [sconn EXCEPT ![t.conn].pendingCandidates = {}]
  /\ answering' = answering \ {t}
  /\ UNCHANGED <<created, call, receiverVars, wireVars, semitted, remitted>>

SenderIce ==
  /\ FromReceiver("ice-candidate")
  /\ LET m == Head(toSender)
     IN  sconn' = [sconn EXCEPT ![m.index + 1] = AddCandidate(@, <<m.pc, m.n>>)]
  /\ toSender' = Tail(toSender)
  /\ UNCHANGED <<created, call, answering, receiverVars, toReceiver, semitted, remitted>>

-----------------------------------------------------------------------------
(* The browsers: onicecandidate, once setLocalDescription was called. *)

SenderGathers(k) ==
  /\ sconn[k].state = "have-local-offer" \/ sconn[k].remote # 0
  /\ semitted[k] < CandCount
  /\ semitted' = [semitted EXCEPT ![k] = @ + 1]
  /\ toReceiver' = Append(toReceiver, Message("ice-candidate", Index(k), k, semitted'[k]))
  /\ UNCHANGED <<senderVars, receiverVars, toSender, remitted>>

ReceiverGathers(r) ==
  /\ rconn[r].at \in {"local", "done"}
  /\ remitted[r] < CandCount
  /\ remitted' = [remitted EXCEPT ![r] = @ + 1]
  /\ toSender' = Append(toSender, Message("ice-candidate", IndexOf(r), r, remitted'[r]))
  /\ UNCHANGED <<senderVars, receiverVars, toReceiver, semitted>>

Next ==
  \/ \E c \in Calls : CreateOffer(c) \/ SetLocalOffer(c) \/ SendOffer(c)
  \/ HandleOffer \/ ReceiverIce \/ HandleAnswer \/ SenderIce
  \/ \E r \in ReceiverPCs :
       \/ RemoteOfferSet(r) \/ FlushOffered(r) \/ SetLocalAnswer(r) \/ SendAnswer(r)
       \/ ReceiverGathers(r)
  \/ \E t \in answering : RemoteAnswerSet(t) \/ FlushAnswered(t) \/ ClearAnswered(t)
  \/ \E k \in SenderPCs : SenderGathers(k)

Spec     == Init /\ [][Next]_vars
FairSpec == Spec /\ WF_vars(Next)
-----------------------------------------------------------------------------

(***************************************************************************)
(* Answers and candidates find their way by index alone; still the two     *)
(* ends of a connection are each other's, and a peer connection is only    *)
(* given candidates of the one it talks to.                                *)
(***************************************************************************)
EndsBelongTogether ==
  /\ \A k \in SenderPCs :
       /\ sconn[k].remote # 0 => rconn[sconn[k].remote].remote = k
       /\ \A cand \in sconn[k].got : cand[1] = sconn[k].remote
  /\ \A r \in ReceiverPCs : \A cand \in rconn[r].got : cand[1] = rconn[r].remote

(***************************************************************************)
(* No candidate is lost, wherever an await lets it in: each one that was   *)
(* found is under way, in a list that is going to be flushed, or with the  *)
(* other end.                                                              *)
(***************************************************************************)
UnderWay(port, cand) ==
  \E i \in DOMAIN port :
    port[i].type = "ice-candidate" /\ <<port[i].pc, port[i].n>> = cand

NoCandidateLost ==
  /\ \A k \in SenderPCs : \A n \in 1 .. semitted[k] :
       \/ UnderWay(toReceiver, <<k, n>>)
       \/ <<k, n>> \in globalIce[Index(k)]
       \/ \E r \in 1 .. rmade :
            <<k, n>> \in rconn[r].got \cup
              (IF rconn[r].at \in {"remote", "flush"} THEN rconn[r].pendingCandidates ELSE {})
  /\ \A r \in ReceiverPCs : \A n \in 1 .. remitted[r] :
       \/ UnderWay(toSender, <<r, n>>)
       \/ \E k \in 1 .. created :
            \/ <<r, n>> \in sconn[k].got
            \/ <<r, n>> \in sconn[k].pendingCandidates
               /\ ~\E t \in answering : t.conn = k /\ t.at = "clear"

(***************************************************************************)
(* Every connection gets its answer and both ends all candidates, so that  *)
(* ICE can connect them.                                                   *)
(***************************************************************************)
EveryPairNegotiates ==
  <>(\A k \in SenderPCs :
       LET r == sconn[k].remote
       IN  /\ r # 0 /\ rconn[r].remote = k
           /\ sconn[k].got = Candidates({r}) /\ rconn[r].got = Candidates({k}))
=============================================================================
