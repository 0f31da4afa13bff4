------------------------------ MODULE Presence ------------------------------
(***************************************************************************)
(* What one queueing service knows of the clients of the other.  When a    *)
(* client is connected to a queue, or leaves it, the worker that serves it *)
(* first changes m_connected_client_socket, under the mutex of the queue,  *)
(* and then, without it, sends a notification over the link; the receive   *)
(* thread at the other service stores it in m_client_connected, from which *)
(* ctos_queue_client_exists is answered.  The result of the send is        *)
(* ignored and nothing is ever sent again.                                 *)
(*                                                                         *)
(* The host forgets what it knows when its connection ends.  A service     *)
(* that runs as the peer does not: handle_disconnect is called by nobody.  *)
(*                                                                         *)
(* Messages share the connection with the notifications; they change none  *)
(* of this and are left to MessagePath.                                    *)
(***************************************************************************)
EXTENDS ServiceLink

CONSTANTS Sockets,   \* SOCKET values of the clients of a service
          NoSocket,  \* the NULL of m_connected_client_socket
          NoFrame,   \* no notification
          NumQueues  \* queues of a service, int, float, ... in this order

Queues == 1..NumQueues

ASSUME PresenceAssumption ==
  /\ NumQueues \in Nat
  /\ NoSocket \notin Sockets
  /\ Frames = [queue : Queues, on : BOOLEAN]
  /\ NoFrame \notin Frames

VARIABLES
  connected,  \* connected[s][q]: m_connected_client_socket
  pending,    \* pending[s][h]: notification the worker serving h will send
  flag,       \* flag[s][q]: m_client_connected
  resetting,  \* the host has set its socket to NULL, and not yet the flags
  newest,     \* history: newest[s][q], whose worker is to send the
              \* notification about the last change of q; NoSocket: it has
  failed,     \* history: failed[s], queues for which that could not be sent
  crossed     \* history: crossed[s], queues for which an older one was sent
              \* after it

noteVars == <<newest, failed, crossed>>
vars == <<linkVars, connected, pending, flag, resetting, noteVars>>

TypeOK ==
  /\ LinkTypeOK
  /\ connected \in [Services -> [Queues -> Sockets \cup {NoSocket}]]
  /\ pending \in [Services -> [Sockets -> Frames \cup {NoFrame}]]
  /\ flag \in [Services -> [Queues -> BOOLEAN]]
  /\ resetting \in BOOLEAN
  /\ newest \in [Services -> [Queues -> Sockets \cup {NoSocket}]]
  /\ failed \in [Services -> SUBSET Queues]
  /\ crossed \in [Services -> SUBSET Queues]

Init ==
  /\ LinkInit
  /\ connected = [s \in Services |-> [q \in Queues |-> NoSocket]]
  /\ pending = [s \in Services |-> [h \in Sockets |-> NoFrame]]
  /\ flag = [s \in Services |-> [q \in Queues |-> FALSE]]
  /\ resetting = FALSE
  /\ newest = [s \in Services |-> [q \in Queues |-> NoSocket]]
  /\ failed = [s \in Services |-> {}]
  /\ crossed = [s \in Services |-> {}]

Notices(s, q) == {h \in Sockets : pending[s][h] # NoFrame /\ pending[s][h].queue = q}

\* The worker of h now has to notify the other service about q.
Announce(s, h, q, on) ==
  /\ pending' = [pending EXCEPT ![s][h] = [queue |-> q, on |-> on]]
  /\ newest' = [newest EXCEPT ![s][q] = h]
  /\ UNCHANGED <<failed, crossed>>

(***************************************************************************)
(* The workers                                                             *)
(***************************************************************************)

\* A variant without the notification: the other service is never told.
JoinQuietly(s, h, q) ==
  /\ running[s] /\ pending[s][h] = NoFrame
  /\ connected[s][q] = NoSocket
  /\ connected' = [connected EXCEPT ![s][q] = h]
  /\ UNCHANGED <<linkVars, pending, flag, resetting, noteVars>>

\* connect_to_queue, up to the notification.  When another client has the
\* queue the request changes nothing; h may have others already.
Join(s, h, q) ==
  /\ running[s] /\ pending[s][h] = NoFrame
  /\ connected[s][q] = NoSocket
  /\ connected' = [connected EXCEPT ![s][q] = h]
  /\ Announce(s, h, q, TRUE)
  /\ UNCHANGED <<linkVars, flag, resetting>>

\* disconnect_from_queue, up to the notification: the first of the queues that
\* h has is freed.
Leave(s, h, q) ==
  /\ running[s] /\ pending[s][h] = NoFrame
  /\ connected[s][q] = h /\ \A p \in 1..(q - 1) : connected[s][p] # h
  /\ connected' = [connected EXCEPT ![s][q] = NoSocket]
  /\ Announce(s, h, q, FALSE)
  /\ UNCHANGED <<linkVars, flag, resetting>>

\* The history of q after the worker of h has sent its notification about it.
NoteSent(s, h, q) ==
  /\ newest' = [newest EXCEPT ![s][q] = IF @ = h THEN NoSocket ELSE @]
  /\ failed' = [failed EXCEPT ![s] = IF newest[s][q] = h THEN @ \ {q} ELSE @]
  /\ crossed' = [crossed EXCEPT ![s] =
                   CASE newest[s][q] = h -> @ \ {q}
                     [] newest[s][q] = NoSocket -> @ \cup {q}
                     [] OTHER -> @]

\* ... or has tried to, in vain.
NoteFailed(s, h, q) ==
  /\ newest' = [newest EXCEPT ![s][q] = IF @ = h THEN NoSocket ELSE @]
  /\ failed' = [failed EXCEPT ![s] = IF newest[s][q] = h THEN @ \cup {q} ELSE @]
  /\ UNCHANGED crossed

\* notify_connected_to_queue and notify_disconnected_from_queue: whatever
\* becomes of the frame, the worker goes on.
Notify(s, h) ==
  /\ pending[s][h] # NoFrame
  /\ \/ SendDone(s, pending[s][h]) /\ NoteSent(s, h, pending[s][h].queue)
     \/ (SendLost(s) \/ SendFails(s)) /\ NoteFailed(s, h, pending[s][h].queue)
  /\ pending' = [pending EXCEPT ![s][h] = NoFrame]
  /\ UNCHANGED <<connected, flag, resetting>>

(***************************************************************************)
(* The receive thread                                                      *)
(***************************************************************************)

\* A variant that takes every notification for one of a client that left.
StoreAlwaysOff(s) ==
  /\ HandleFrame(s)
  /\ flag' = [flag EXCEPT ![s][Head(inbuf[s]).queue] = FALSE]
  /\ UNCHANGED <<connected, pending, resetting, noteVars>>

\* handle_message: stos_client_connected_to_queue and its counterpart.
Store(s) ==
  /\ HandleFrame(s)
  /\ flag' = [flag EXCEPT ![s][Head(inbuf[s]).queue] = Head(inbuf[s]).on]
  /\ UNCHANGED <<connected, pending, resetting, noteVars>>

\* A variant in which the host forgets no more than the peer does.
LetGoQuietly(s) ==
  /\ NullSock(s)
  /\ UNCHANGED <<connected, pending, flag, resetting, noteVars>>

\* The end of a connection: the socket variable is NULL again.
LetGo(s) ==
  /\ NullSock(s)
  /\ resetting' = (resetting \/ s = HOST)
  /\ UNCHANGED <<connected, pending, flag, noteVars>>

\* on_service_disconnected, which only the host's receive thread calls, before
\* it goes round its loop again.
Forget ==
  /\ resetting
  /\ resetting' = FALSE
  /\ flag' = [flag EXCEPT ![HOST] = [q \in Queues |-> FALSE]]
  /\ UNCHANGED <<linkVars, connected, pending, noteVars>>

Receive(s) ==
  \/ s = HOST /\ Forget
  \/ /\ s = HOST => ~resetting
     /\ \/ Store(s)
        \/ LetGo(s)
        \/ /\ Select(s) \/ RecvFrames(s) \/ RecvNothing(s) \/ CloseSock(s)
           /\ UNCHANGED <<connected, pending, flag, resetting, noteVars>>

\* The service stops, and with it everything its workers had to do.
Stop(s, k) ==
  /\ Crash(s, k)
  /\ connected' = [connected EXCEPT ![s] = [q \in Queues |-> NoSocket]]
  /\ pending' = [pending EXCEPT ![s] = [h \in Sockets |-> NoFrame]]
  /\ flag' = [flag EXCEPT ![s] = [q \in Queues |-> FALSE]]
  /\ resetting' = (resetting /\ s # HOST)
  /\ newest' = [newest EXCEPT ![s] = [q \in Queues |-> NoSocket]]
  /\ failed' = [failed EXCEPT ![s] = {}]
  /\ crossed' = [crossed EXCEPT ![s] = {}]

Establish ==
  /\ StartHost \/ StartPeer \/ AcceptThread
  /\ UNCHANGED <<connected, pending, flag, resetting, noteVars>>

Next ==
  \/ Establish
  \/ \E s \in Services :
       \/ Receive(s)
       \/ \E k \in 0..WireCap : Stop(s, k)
       \/ \E h \in Sockets :
            \/ Notify(s, h)
            \/ \E q \in Queues : Join(s, h, q) \/ Leave(s, h, q)

(***************************************************************************)
(* The threads of the link, and the workers of the peer, keep running      *)
(* while their service does; a worker waits for room on the connection.    *)
(***************************************************************************)
Fairness ==
  /\ WF_vars(Establish /\ AcceptThread)
  /\ \A s \in Services : WF_vars(Receive(s))
  /\ WF_vars(\E h \in Sockets : Notify(PEER, h))

Spec == Init /\ [][Next]_vars
FairSpec == Spec /\ Fairness

-----------------------------------------------------------------------------
Taken(s, q) == connected[s][q] # NoSocket

\* The notifications on their way to s.
OnTheWay(s) ==
  inbuf[s] \o IF sock[Other(s)] \in Conns THEN wire[s][sock[Other(s)]] ELSE <<>>

\* Once these notifications are stored, m_client_connected is "on" for q: the
\* last one about q says so, or there is none and it is so already.
EndsUp(notices, stored, q, on) ==
  \/ \E i \in DOMAIN notices :
       /\ notices[i] = [queue |-> q, on |-> on]
       /\ \A j \in DOMAIN notices : j > i => notices[j].queue # q
  \/ stored = on /\ \A i \in DOMAIN notices : notices[i].queue # q

(***************************************************************************)
(* Until a service first stops, the two agree on whether a queue has a     *)
(* client, but for notifications on their way and with two exceptions: the *)
(* notification about the last change of the queue could not be sent, or a *)
(* slower worker has sent an older one after it.  Freeing or taking a      *)
(* queue and sending the notification are two steps, workers overtake each *)
(* other between them, and most of these interleavings do no harm: an      *)
(* older notification that is sent before the newest, or that fails.       *)
(***************************************************************************)
FlagsAgree ==
  crashes = 0 =>
    \A s \in Services, q \in Queues :
      Notices(s, q) = {} /\ q \notin failed[s] \cup crossed[s]
        => EndsUp(OnTheWay(Other(s)), flag[Other(s)][q], q, Taken(s, q))

(***************************************************************************)
(* Until a service first stops, the host learns that a queue has a client  *)
(* at the peer, with the same two exceptions, if the client stays: the     *)
(* peer may have sent the notification before it was accepted.             *)
(***************************************************************************)
HostLearns ==
  \A q \in Queues :
    Taken(PEER, q) ~> \/ ~Taken(PEER, q) \/ flag[HOST][q] \/ crashes > 0
                      \/ q \in failed[PEER] \cup crossed[PEER]

(***************************************************************************)
(* When the peer has stopped and does not come back, the host ends up      *)
(* knowing of no client there, however the end of the connection met what  *)
(* was still to be received or accepted on it; unless its accept thread    *)
(* stored INVALID_SOCKET, with which the receive thread does nothing.      *)
(***************************************************************************)
Forgotten(s) == \A q \in Queues : ~flag[s][q]

HostForgets == ~running[PEER] ~> running[PEER] \/ sock[HOST] = INVALID \/ Forgotten(HOST)
=============================================================================
