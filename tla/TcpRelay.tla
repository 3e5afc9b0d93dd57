------------------------------- MODULE TcpRelay -------------------------------
(***************************************************************************)
(* RelayHub (internal/handlers/relay.go): the TCP relay for command-line   *)
(* clients behind a NAT.  Every accepted connection has a goroutine that   *)
(* reads a header, then either pairs with the connection pending for that  *)
(* room or becomes the pending one, with a timer that gives up on it.      *)
(* Two pipes then copy between the connections of a pair.  The header also *)
(* has a role byte; the code logs it and pairs whatever comes, so there is *)
(* no role here.                                                           *)
(*                                                                         *)
(* An action is what one goroutine does between two blocking calls; the    *)
(* table of pending connections is only touched under rh.mu.               *)
(***************************************************************************)
EXTENDS Integers, FiniteSets

CONSTANTS
  Conns,   \* connections the listener accepts
  Rooms,   \* room IDs
  Room,    \* the room ID each connection's header names
  None     \* no connection

ASSUME RelayAssumption ==
  /\ Room \in [Conns -> Rooms]
  /\ None \notin Conns

VARIABLES
  phase,    \* where the connection's handler is
  pending,  \* rh.pending
  peer,     \* the connection relay() was given with this one
  pipe,     \* for each paired src: the goroutine copying src to its peer
  timer,    \* the 60 second timer of a connection that became pending
  sock,     \* the server's end: "open" until somebody calls Close
  client    \* the client at the other end: "stopped" while it does not read

relayVars == <<phase, pending, peer, pipe, timer, sock, client>>

\* Type invariant; both directions of a pair have their pipe, and no others do.
RelayTypeOK ==
  /\ phase \in [Conns -> {"header", "pending", "paired", "refused", "expired"}]
  /\ pending \in [Rooms -> Conns \cup {None}]
  /\ peer \in [Conns -> Conns \cup {None}]
  /\ pipe \in [Conns -> {"none", "copying", "blocked", "ended"}]
  /\ timer \in [Conns -> {"off", "armed", "fired"}]
  /\ sock \in [Conns -> {"open", "closed"}]
  /\ client \in [Conns -> {"connected", "stopped", "gone"}]
  /\ \A c \in Conns : pipe[c] = "none" <=> peer[c] = None

\* Every connection was just accepted; its header is still to be read.
RelayInit ==
  /\ phase = [c \in Conns |-> "header"]
  /\ pending = [r \in Rooms |-> None]
  /\ peer = [c \in Conns |-> None]
  /\ pipe = [c \in Conns |-> "none"]
  /\ timer = [c \in Conns |-> "off"]
  /\ sock = [c \in Conns |-> "open"]
  /\ client = [c \in Conns |-> "connected"]

\* The header read fails: the client went away or the 30 second deadline passed.
HeaderFails(c) ==
  /\ phase[c] = "header"
  /\ phase' = [phase EXCEPT ![c] = "refused"]
  /\ sock' = [sock EXCEPT ![c] = "closed"]
  /\ UNCHANGED <<pending, peer, pipe, timer, client>>

Pair_KeepsPending(c, p) ==
  /\ phase' = [phase EXCEPT ![c] = "paired", ![p] = "paired"]
  /\ peer' = [peer EXCEPT ![c] = p, ![p] = c]
  /\ pipe' = [pipe EXCEPT ![c] = "copying", ![p] = "copying"]
  /\ UNCHANGED <<pending, timer, sock, client>>

\* c finds p pending: p leaves the table and relay(c, p) starts both pipes.
\* Neither the roles nor the state of p's socket are looked at.
Pair(c, p) ==
  /\ pending' = [pending EXCEPT ![Room[c]] = None]
  /\ phase' = [phase EXCEPT ![c] = "paired", ![p] = "paired"]
  /\ peer' = [peer EXCEPT ![c] = p, ![p] = c]
  /\ pipe' = [pipe EXCEPT ![c] = "copying", ![p] = "copying"]
  /\ UNCHANGED <<timer, sock, client>>

\* c becomes the pending connection of its room and its timer starts.
BecomePending(c) ==
  /\ pending' = [pending EXCEPT ![Room[c]] = c]
  /\ phase' = [phase EXCEPT ![c] = "pending"]
  /\ timer' = [timer EXCEPT ![c] = "armed"]
  /\ UNCHANGED <<peer, pipe, sock, client>>

\* handleRelayConn once the header is read, under rh.mu.
HeaderRead(c) ==
  /\ phase[c] = "header"
  /\ \/ pending[Room[c]] # None /\ Pair(c, pending[Room[c]])
     \/ pending[Room[c]] = None /\ BecomePending(c)

StillPending_AnyConn(c) == pending[Room[c]] # None

\* The timer's test: the room's pending connection is still this very one.
StillPending(c) == pending[Room[c]] = c

\* The AfterFunc callback, under rh.mu.
TimerFires(c) ==
  /\ timer[c] = "armed"
  /\ timer' = [timer EXCEPT ![c] = "fired"]
  /\ IF StillPending(c)
     THEN /\ pending' = [pending EXCEPT ![Room[c]] = None]
          /\ phase' = [phase EXCEPT ![c] = "expired"]
          /\ sock' = [sock EXCEPT ![c] = "closed"]
     ELSE UNCHANGED <<pending, phase, sock>>
  /\ UNCHANGED <<peer, pipe, client>>

\* CopyBuffer(dst, src) returns because a read of src ends or fails ...
SourceEnded(src) == pipe[src] = "copying" /\ (client[src] = "gone" \/ sock[src] = "closed")

\* ... or because a write to dst fails, if src has anything to write.
WriteFails(src) == pipe[src] \in {"copying", "blocked"} /\ client[peer[src]] = "gone"

PipeEnds_NoClose(src) ==
  /\ SourceEnded(src) \/ WriteFails(src)
  /\ pipe' = [pipe EXCEPT ![src] = "ended"]
  /\ UNCHANGED <<phase, pending, peer, timer, sock, client>>

\* The pipe from src ends and closes its destination.
PipeEnds(src) ==
  /\ SourceEnded(src) \/ WriteFails(src)
  /\ pipe' = [pipe EXCEPT ![src] = "ended"]
  /\ sock' = [sock EXCEPT ![peer[src]] = "closed"]
  /\ UNCHANGED <<phase, pending, peer, timer, client>>

\* The client of dst does not read, and a write to it blocks: it has no deadline,
\* and the copy does not look at src meanwhile.
WriteBlocks(src) ==
  /\ pipe[src] = "copying" /\ client[peer[src]] = "stopped"
  /\ pipe' = [pipe EXCEPT ![src] = "blocked"]
  /\ UNCHANGED <<phase, pending, peer, timer, sock, client>>

WriteResumes(src) ==
  /\ pipe[src] = "blocked" /\ client[peer[src]] = "connected"
  /\ pipe' = [pipe EXCEPT ![src] = "copying"]
  /\ UNCHANGED <<phase, pending, peer, timer, sock, client>>

\* The client stops reading, as TCP lets it, or reads again.
ClientStopsOrReads(c) ==
  /\ client[c] # "gone"
  /\ client' = [client EXCEPT ![c] = IF @ = "stopped" THEN "connected" ELSE "stopped"]
  /\ UNCHANGED <<phase, pending, peer, pipe, timer, sock>>

\* The client closes its connection, or dies.
ClientLeaves(c) ==
  /\ client[c] # "gone"
  /\ client' = [client EXCEPT ![c] = "gone"]
  /\ UNCHANGED <<phase, pending, peer, pipe, timer, sock>>

RelayNext ==
  \E c \in Conns :
    \/ HeaderFails(c)
    \/ HeaderRead(c)
    \/ TimerFires(c)
    \/ PipeEnds(c)
    \/ WriteBlocks(c)
    \/ WriteResumes(c)
    \/ ClientStopsOrReads(c)
    \/ ClientLeaves(c)

\* Goroutines run, the deadline bounds the header read, timers fire, and a copy
\* returns when its source has ended, or when the client it waits for is gone.
\* Clients owe nothing: they need not write, read or leave.
RelayFairness ==
  \A c \in Conns :
    /\ WF_relayVars(HeaderRead(c) \/ HeaderFails(c))
    /\ WF_relayVars(TimerFires(c))
    /\ WF_relayVars(SourceEnded(c) /\ PipeEnds(c))
    /\ WF_relayVars(pipe[c] = "blocked" /\ PipeEnds(c))
    /\ WF_relayVars(WriteResumes(c))

RelaySpec     == RelayInit /\ [][RelayNext]_relayVars
RelayFairSpec == RelaySpec /\ RelayFairness
-----------------------------------------------------------------------------

(***************************************************************************)
(* The table and the pairs agree.  A pending connection is the one its     *)
(* room's entry names and has a running timer; a pair is two connections   *)
(* of one room that name each other, so no connection is ever relayed to   *)
(* two others, however arrivals, timers and departures interleave.         *)
(***************************************************************************)
PairingIsConsistent ==
  /\ \A c \in Conns : phase[c] = "pending" <=> pending[Room[c]] = c
  /\ \A r \in Rooms : pending[r] # None => Room[pending[r]] = r
  /\ \A c \in Conns :
       /\ phase[c] = "pending" => timer[c] = "armed"
       /\ phase[c] \in {"header", "pending"} => sock[c] = "open"
       /\ phase[c] = "paired" <=> peer[c] # None
       /\ peer[c] # None =>
            peer[c] # c /\ peer[peer[c]] = c /\ Room[peer[c]] = Room[c]

(***************************************************************************)
(* The timer races the second connection and never hits a pair: the socket *)
(* of a paired connection is closed by the pipe towards it and by nothing  *)
(* else, even when its old timer fires, or fires while another connection  *)
(* waits in the same room.                                                 *)
(***************************************************************************)
PairClosedByPipesOnly ==
  \A c \in Conns :
    peer[c] # None /\ sock[c] = "closed" => pipe[peer[c]] = "ended"

(***************************************************************************)
(* When one client of a pair leaves, both sockets are closed in the end,   *)
(* so no pair leaks its goroutines; unless the other client stays, and     *)
(* stops reading for ever or again and again: a copy may then be blocked   *)
(* in a write, which has no deadline (relay.go:94).                        *)
(***************************************************************************)
BrokenPairIsClosed ==
  \A c \in Conns :
    (phase[c] = "paired" /\ client[c] = "gone") ~>
      \/ \E d \in Conns : peer[d] = c /\ client[d] = "stopped"
      \/ \A d \in Conns : d = c \/ peer[d] = c => sock[d] = "closed"
=============================================================================
