---------------------------- MODULE ServiceLink ----------------------------
(***************************************************************************)
(* The TCP link between the two queueing services: the host, which listens *)
(* (queueing_service_server), and the peer, which connects to it           *)
(* (queueing_service_client on top of common::base_client).  The peer      *)
(* connects once, when it starts; a restarted peer opens a new connection, *)
(* and the host's accept thread overwrites the one socket variable it has  *)
(* while its receive thread may still be using the old value.              *)
(*                                                                         *)
(* Connections are numbered in the order the peer opens them.  The kernel  *)
(* is modelled by who holds an open end of a connection and by the frames  *)
(* buffered towards each side; both services run on one machine            *)
(* (base_client connects to 127.0.0.1), so a connection only breaks when a *)
(* service closes its end or stops.                                        *)
(***************************************************************************)
EXTENDS Naturals, Sequences, Functions

CONSTANTS Frames,      \* what one send puts on a connection
          MaxConn,     \* bound: connections the peer may open in all
          MaxCrashes,  \* bound: how often a service may stop
          WireCap      \* frames the kernel buffers of one direction hold

ASSUME LinkAssumption ==
  /\ MaxConn \in Nat \ {0}
  /\ MaxCrashes \in Nat
  /\ WireCap \in Nat \ {0}

HOST == "host"
PEER == "peer"
Services == {HOST, PEER}
Other(s) == IF s = HOST THEN PEER ELSE HOST

Conns == 1..MaxConn
NULL == 0              \* a socket variable that holds no connection
INVALID == MaxConn + 1 \* INVALID_SOCKET: every call on it fails

VARIABLES
  running,   \* running[s]: the process of service s is up
  sock,      \* sock[s]: m_connected_service_socket / m_client_socket
  ends,      \* ends[s]: connections whose end at s is open in the kernel
  backlog,   \* connections the host has not accepted yet, oldest first
  opened,    \* connections opened so far
  wire,      \* wire[s][c]: frames sent towards s on c and not yet received
  inbuf,     \* inbuf[s]: frames received and not yet handled by s
  rpc,       \* rpc[s]: where the receive thread of s is
  crashes,   \* how often a service has stopped so far
  unread     \* unread[c]: frames the peer has sent on c, open at both ends,
             \* after the host had let go of it

linkVars == <<running, sock, ends, backlog, opened, wire, inbuf, rpc, crashes, unread>>

LinkTypeOK ==
  /\ running \in [Services -> BOOLEAN]
  /\ sock \in [Services -> Conns \cup {NULL, INVALID}]
  /\ ends \in [Services -> SUBSET Conns]
  /\ backlog \in Seq(Conns)
  /\ opened \in 0..MaxConn
  /\ wire \in [Services -> [Conns -> Seq(Frames)]]
  /\ inbuf \in [Services -> Seq(Frames)]
  /\ rpc \in [Services -> {"loop", "ready", "handle", "close", "null"}]
  /\ crashes \in 0..MaxCrashes
  /\ unread \in [Conns -> 0..WireCap]
  \* past its test for NULL the receive thread has a connection, and it
  \* holds received frames exactly while it handles them
  /\ \A s \in Services : rpc[s] # "loop" => sock[s] # NULL
  /\ \A s \in Services : rpc[s] = "handle" <=> inbuf[s] # <<>>

LinkInit ==
  /\ running = [s \in Services |-> FALSE]
  /\ sock = [s \in Services |-> NULL]
  /\ ends = [s \in Services |-> {}]
  /\ backlog = <<>>
  /\ opened = 0
  /\ wire = [s \in Services |-> [c \in Conns |-> <<>>]]
  /\ inbuf = [s \in Services |-> <<>>]
  /\ rpc = [s \in Services |-> "loop"]
  /\ crashes = 0
  /\ unread = [c \in Conns |-> 0]

(***************************************************************************)
(* Connection c is one that s reads from, or will once it accepts it.      *)
(***************************************************************************)
Reads(s, c) == c \in ends[s] /\ (sock[s] = c \/ c \in Range(backlog))

(***************************************************************************)
(* wire, after the frames towards s on the connections in C can no longer  *)
(* be received.                                                            *)
(***************************************************************************)
Discard(s, C) == [wire EXCEPT ![s] = [d \in Conns |-> IF d \in C THEN <<>> ELSE @[d]]]

(***************************************************************************)
(* Starting and connecting                                                 *)
(***************************************************************************)

\* start_as_host: listen, start the accept and the receive thread.
StartHost ==
  /\ ~running[HOST]
  /\ running' = [running EXCEPT ![HOST] = TRUE]
  /\ UNCHANGED <<sock, ends, backlog, opened, wire, inbuf, rpc, crashes, unread>>

\* start_as_client: establish_connection completes in the kernel, before the
\* host accepts.  When nobody listens connect fails and main returns.
StartPeer ==
  /\ ~running[PEER] /\ running[HOST]
  /\ opened < MaxConn
  /\ running' = [running EXCEPT ![PEER] = TRUE]
  /\ opened' = opened + 1
  /\ sock' = [sock EXCEPT ![PEER] = opened']
  /\ ends' = [s \in Services |-> ends[s] \cup {opened'}]
  /\ backlog' = Append(backlog, opened')
  /\ UNCHANGED <<wire, inbuf, rpc, crashes, unread>>

\* accept_connections and handle_accept on the host: the socket variable is
\* overwritten and its old value, if any, is neither closed nor read again.
Accept ==
  /\ running[HOST] /\ backlog # <<>>
  /\ sock' = [sock EXCEPT ![HOST] = Head(backlog)]
  /\ backlog' = Tail(backlog)
  /\ wire' = Discard(HOST, {sock[HOST]})
  /\ UNCHANGED <<running, ends, opened, inbuf, rpc, crashes, unread>>

\* The peer has reset the connection before: accept fails, and handle_accept,
\* which tests for NULL only, stores INVALID_SOCKET.
AcceptFails ==
  /\ running[HOST] /\ backlog # <<>>
  /\ Head(backlog) \notin ends[PEER]
  /\ sock' = [sock EXCEPT ![HOST] = INVALID]
  /\ backlog' = Tail(backlog)
  /\ ends' = [ends EXCEPT ![HOST] = @ \ {Head(backlog)}]
  /\ wire' = Discard(HOST, {sock[HOST], Head(backlog)})
  /\ UNCHANGED <<running, opened, inbuf, rpc, crashes, unread>>

AcceptThread == Accept \/ AcceptFails

(***************************************************************************)
(* The receive thread (recv_from_connected_service, do_recv)               *)
(***************************************************************************)

\* Variants of Select with a bug: a timeout of select taken for data, and the
\* end of a connection not recognised.
SelectTimeout(s) ==
  /\ running[s] /\ rpc[s] = "loop"
  /\ sock[s] \in Conns
  /\ rpc' = [rpc EXCEPT ![s] = "ready"]
  /\ UNCHANGED <<running, sock, ends, backlog, opened, wire, inbuf, crashes, unread>>

SelectDataOnly(s) ==
  /\ running[s] /\ rpc[s] = "loop"
  /\ sock[s] \in Conns /\ wire[s][sock[s]] # <<>>
  /\ rpc' = [rpc EXCEPT ![s] = "ready"]
  /\ UNCHANGED <<running, sock, ends, backlog, opened, wire, inbuf, crashes, unread>>

\* select reports s's connection readable: data, or the other end is gone.
\* With INVALID_SOCKET it fails and the loop goes round.
Select(s) ==
  /\ running[s] /\ rpc[s] = "loop"
  /\ sock[s] \in Conns
  /\ wire[s][sock[s]] # <<>> \/ sock[s] \notin ends[Other(s)]
  /\ rpc' = [rpc EXCEPT ![s] = "ready"]
  /\ UNCHANGED <<running, sock, ends, backlog, opened, wire, inbuf, crashes, unread>>

\* recv returns some of the frames that are there.
RecvFrames(s) ==
  /\ running[s] /\ rpc[s] = "ready"
  /\ sock[s] \in Conns
  /\ \E k \in 1..Len(wire[s][sock[s]]) :
       /\ inbuf' = [inbuf EXCEPT ![s] = SubSeq(wire[s][sock[s]], 1, k)]
       /\ wire' = [wire EXCEPT ![s][sock[s]] = SubSeq(@, k + 1, Len(@))]
  /\ rpc' = [rpc EXCEPT ![s] = "handle"]
  /\ UNCHANGED <<running, sock, ends, backlog, opened, crashes, unread>>

\* recv returns 0 or SOCKET_ERROR: the other end is gone, or the variable was
\* overwritten after select and the new, non-blocking, socket has no data.
RecvNothing(s) ==
  /\ running[s] /\ rpc[s] = "ready"
  /\ sock[s] \in Conns => wire[s][sock[s]] = <<>>
  /\ rpc' = [rpc EXCEPT ![s] = "close"]
  /\ UNCHANGED <<running, sock, ends, backlog, opened, wire, inbuf, crashes, unread>>

\* A variant whose loop goes round once more when nothing is left.
HandleFrameAgain(s) ==
  /\ running[s] /\ rpc[s] = "handle"
  /\ inbuf' = [inbuf EXCEPT ![s] = Tail(@)]
  /\ rpc' = [rpc EXCEPT ![s] = IF Len(inbuf[s]) > 0 THEN "handle" ELSE "loop"]
  /\ UNCHANGED <<running, sock, ends, backlog, opened, wire, crashes, unread>>

\* one turn of the loop of handle_message: the first frame is consumed.
HandleFrame(s) ==
  /\ running[s] /\ rpc[s] = "handle"
  /\ inbuf' = [inbuf EXCEPT ![s] = Tail(@)]
  /\ rpc' = [rpc EXCEPT ![s] = IF Len(inbuf[s]) > 1 THEN "handle" ELSE "loop"]
  /\ UNCHANGED <<running, sock, ends, backlog, opened, wire, crashes, unread>>

\* closesocket on the current value of the variable.
CloseSock(s) ==
  /\ running[s] /\ rpc[s] = "close"
  /\ ends' = [ends EXCEPT ![s] = @ \ {sock[s]}]
  /\ wire' = Discard(s, {sock[s]})
  /\ rpc' = [rpc EXCEPT ![s] = "null"]
  /\ UNCHANGED <<running, sock, backlog, opened, inbuf, crashes, unread>>

\* A variant that forgets to reset the variable after closing the handle.
NullSockForgotten(s) ==
  /\ running[s] /\ rpc[s] = "null"
  /\ rpc' = [rpc EXCEPT ![s] = "loop"]
  /\ UNCHANGED <<running, sock, ends, backlog, opened, wire, inbuf, crashes, unread>>

\* The variable is set to NULL, whatever it holds by now.
NullSock(s) ==
  /\ running[s] /\ rpc[s] = "null"
  /\ sock' = [sock EXCEPT ![s] = NULL]
  /\ wire' = Discard(s, {sock[s]})
  /\ rpc' = [rpc EXCEPT ![s] = "loop"]
  /\ UNCHANGED <<running, ends, backlog, opened, inbuf, crashes, unread>>

(***************************************************************************)
(* send_message: the outcomes of one call by s                             *)
(***************************************************************************)

\* The frame is buffered towards the other service.
SendDone(s, f) ==
  /\ running[s]
  /\ sock[s] \in ends[s]
  /\ Reads(Other(s), sock[s])
  /\ Len(wire[Other(s)][sock[s]]) < WireCap
  /\ wire' = [wire EXCEPT ![Other(s)][sock[s]] = Append(@, f)]
  /\ UNCHANGED <<running, sock, ends, backlog, opened, inbuf, rpc, crashes, unread>>

\* send succeeds, but nobody will read the frame: the other end is closed and
\* the sender has not been told, or it is open and left alone.  In that case
\* the peer's send waits for ever once the buffers are full.
SendLost(s) ==
  /\ running[s]
  /\ sock[s] \in ends[s]
  /\ ~Reads(Other(s), sock[s])
  /\ IF sock[s] \notin ends[Other(s)] THEN UNCHANGED unread
     ELSE /\ unread[sock[s]] < WireCap
          /\ unread' = [unread EXCEPT ![sock[s]] = @ + 1]
  /\ UNCHANGED <<running, sock, ends, backlog, opened, wire, inbuf, rpc, crashes>>

\* -1: NULL, INVALID_SOCKET or a closed handle, the other end gone, or buffers
\* full (the accepted socket is non-blocking; the peer's waits for room).
SendFails(s) ==
  /\ running[s]
  /\ \/ sock[s] \notin ends[s]
     \/ sock[s] \notin ends[Other(s)]
     \/ /\ s = HOST /\ Reads(PEER, sock[s])
        /\ Len(wire[PEER][sock[s]]) = WireCap
  /\ UNCHANGED linkVars

(***************************************************************************)
(* Service s stops, or is killed.  The kernel closes its ends; of what it  *)
(* had sent, the other side gets the first k frames of each connection.    *)
(***************************************************************************)
Crash(s, k) ==
  /\ running[s] /\ crashes < MaxCrashes
  /\ running' = [running EXCEPT ![s] = FALSE]
  /\ crashes' = crashes + 1
  /\ sock' = [sock EXCEPT ![s] = NULL]
  /\ ends' = [ends EXCEPT ![s] = {}]
  /\ backlog' = IF s = HOST THEN <<>> ELSE backlog
  /\ wire' = [t \in Services |-> [c \in Conns |->
                IF t = s THEN <<>>
                ELSE IF c \in ends[s] /\ k < Len(wire[t][c]) THEN SubSeq(wire[t][c], 1, k)
                ELSE wire[t][c]]]
  /\ inbuf' = [inbuf EXCEPT ![s] = <<>>]
  /\ rpc' = [rpc EXCEPT ![s] = "loop"]
  /\ UNCHANGED <<opened, unread>>

RecvThread(s) == Select(s) \/ RecvFrames(s) \/ RecvNothing(s) \/ HandleFrame(s)
                 \/ CloseSock(s) \/ NullSock(s)

Send(s, f) == SendDone(s, f) \/ SendLost(s) \/ SendFails(s)

LinkNext ==
  \/ StartHost
  \/ StartPeer
  \/ AcceptThread
  \/ \E s \in Services :
       \/ RecvThread(s)
       \/ \E f \in Frames : Send(s, f)
       \/ \E k \in 0..WireCap : Crash(s, k)

LinkSpec == LinkInit /\ [][LinkNext]_linkVars

(***************************************************************************)
(* The accept thread and the receive threads keep running while their      *)
(* service does; nothing forces a service to start, to send or to stop.    *)
(***************************************************************************)
LinkFairness ==
  /\ WF_linkVars(AcceptThread)
  /\ \A s \in Services : WF_linkVars(RecvThread(s))

LinkFairSpec == LinkSpec /\ LinkFairness

-----------------------------------------------------------------------------
(***************************************************************************)
(* Every connection that is open at both ends is one the host reads or is  *)
(* about to accept: "Receive messages from the connected queueing service  *)
(* and process them".  The overwrite in handle_accept races with the       *)
(* closing of the previous connection in recv_from_connected_service.      *)
(***************************************************************************)
NoOrphan == \A c \in ends[HOST] \cap ends[PEER] : Reads(HOST, c)

(***************************************************************************)
(* Until one of the services first stops, the peer's connection stays      *)
(* open at both ends, the peer uses it and the host reads it or is about   *)
(* to: neither the accept thread nor a receive thread disturbs a healthy   *)
(* link.  (Every later connection meets the closing of an earlier one.)    *)
(***************************************************************************)
SoundUntilRestart ==
  crashes = 0 /\ running[PEER] =>
    \E c \in ends[HOST] \cap ends[PEER] : sock[PEER] = c /\ Reads(HOST, c)

(***************************************************************************)
(* The receive thread never waits on a handle it has closed: whenever it   *)
(* is back in its loop its variable is NULL, INVALID_SOCKET or an open     *)
(* connection.  It relates what the accept thread wrote into the variable  *)
(* to what the receive thread closed.                                      *)
(***************************************************************************)
NeverSelectsClosed ==
  \A s \in Services : rpc[s] = "loop" /\ sock[s] \in Conns => sock[s] \in ends[s]

(***************************************************************************)
(* A connection whose other end is gone does not stay in the socket        *)
(* variable: the receive thread reads what is left of it, notices the end  *)
(* of it and lets go, so that senders stop writing into it.                *)
(***************************************************************************)
DeadConnectionDropped ==
  \A s \in Services, c \in Conns :
    (sock[s] = c /\ c \notin ends[Other(s)]) ~> (sock[s] # c)
=============================================================================
