---------------------------- MODULE MessagePath ----------------------------
(***************************************************************************)
(* The way of a message through the two queueing services: a client        *)
(* submits it to a queue of its service (handle_recv), the process thread  *)
(* of that queue (process_int ... process_char) forwards it to the other   *)
(* service over the link, whose receive thread stores it in the queue of   *)
(* the same name (handle_message), and the process thread there hands it   *)
(* to the client connected to that queue.  A queue holds messages for both *)
(* directions.  Which thread reads which client socket is left to the      *)
(* module ClientSessions; here a client is known by its SOCKET value.      *)
(***************************************************************************)
EXTENDS ServiceLink

CONSTANTS Messages,   \* messages clients may submit, each at most once
          NoMsg,      \* "no message" in a process thread's hands
          Sockets,    \* SOCKET values the system hands out for clients
          NoSocket,   \* the NULL of m_connected_client_socket
          NumQueues   \* queues of a service, int, float, ... in this order

Queues == 1..NumQueues

ASSUME PathAssumption ==
  /\ NumQueues \in Nat
  /\ NoMsg \notin Messages
  /\ NoSocket \notin Sockets
  /\ Frames = [queue : Queues, msg : Messages]

VARIABLES
  elements,   \* elements[s][q]: m_elements, the list of queue q at service s
  pc,         \* pc[s][q]: where the process thread of queue q is
  held,       \* held[s][q]: the message it has taken out of the list
  target,     \* target[s][q]: client socket it read and will send to
  connected,  \* connected[s][q]: m_connected_client_socket
  session,    \* session[s][h]: "closed", "on", or "gone": the client left
  submitted,  \* history: submitted[s][q], messages accepted from clients
  delivered,  \* history: delivered[s][q], messages sent to clients
  retried,    \* history: messages some attempt to forward has failed for
  place       \* history: where each message is

pathVars == <<elements, pc, held, target, connected, session,
              submitted, delivered, retried, place>>
clientVars == <<connected, session>>
threadVars == <<pc, held, target>>
vars == <<linkVars, pathVars>>

(***************************************************************************)
(* The history variable place says which container of which service (and   *)
(* which queue or connection of it) a message is in, or how it ended:      *)
(* delivered, dropped by a process thread that had no client for it, or    *)
(* lost with a connection or a service.                                    *)
(***************************************************************************)
At(kind, s, n) == [kind |-> kind, svc |-> s, n |-> n]
Fresh == At("fresh", HOST, NULL)
Dropped == At("dropped", HOST, NULL)
Lost == At("lost", HOST, NULL)
Delivered(s, q) == At("delivered", s, q)

Moving == {"queue", "held", "wire", "inbuf"}
Settled(m) == place[m].kind \in {"delivered", "dropped", "lost"}

Places == [kind : Moving \cup {"fresh", "delivered", "dropped", "lost"}, svc : Services, n : Nat]

Element == [to : {"client", "service"}, msg : Messages]

PathTypeOK ==
  /\ elements \in [Services -> [Queues -> Seq(Element)]]
  /\ pc \in [Services -> [Queues -> {"idle", "toClient", "sendClient", "toService", "requeue"}]]
  /\ held \in [Services -> [Queues -> Messages \cup {NoMsg}]]
  /\ \A s \in Services, q \in Queues : (held[s][q] = NoMsg) <=> (pc[s][q] = "idle")
  /\ target \in [Services -> [Queues -> Sockets \cup {NoSocket}]]
  /\ connected \in [Services -> [Queues -> Sockets \cup {NoSocket}]]
  /\ session \in [Services -> [Sockets -> {"closed", "on", "gone"}]]
  /\ submitted \in [Services -> [Queues -> Seq(Messages)]]
  /\ delivered \in [Services -> [Queues -> Seq(Messages)]]
  /\ retried \in SUBSET Messages
  /\ place \in [Messages -> Places]

TypeOK == LinkTypeOK /\ PathTypeOK

Init ==
  /\ LinkInit
  /\ elements = [s \in Services |-> [q \in Queues |-> <<>>]]
  /\ pc = [s \in Services |-> [q \in Queues |-> "idle"]]
  /\ held = [s \in Services |-> [q \in Queues |-> NoMsg]]
  /\ target = [s \in Services |-> [q \in Queues |-> NoSocket]]
  /\ connected = [s \in Services |-> [q \in Queues |-> NoSocket]]
  /\ session = [s \in Services |-> [h \in Sockets |-> "closed"]]
  /\ submitted = [s \in Services |-> [q \in Queues |-> <<>>]]
  /\ delivered = [s \in Services |-> [q \in Queues |-> <<>>]]
  /\ retried = {}
  /\ place = [m \in Messages |-> Fresh]

(***************************************************************************)
(* Clients                                                                 *)
(***************************************************************************)

\* A client connects; its socket gets a value that is not in use.
OpenClient(s, h) ==
  /\ running[s] /\ session[s][h] = "closed"
  /\ session' = [session EXCEPT ![s][h] = "on"]
  /\ UNCHANGED <<linkVars, elements, threadVars, connected, submitted, delivered, retried, place>>

\* The client process ends; the service does not know yet.
CloseClient(s, h) ==
  /\ running[s] /\ session[s][h] = "on"
  /\ session' = [session EXCEPT ![s][h] = "gone"]
  /\ UNCHANGED <<linkVars, elements, threadVars, connected, submitted, delivered, retried, place>>

\* ctos_connect_to_queue: refused when some socket is connected already.
ConnectToQueue(s, h, q) ==
  /\ running[s] /\ session[s][h] # "closed"
  /\ connected[s][q] = NoSocket
  /\ connected' = [connected EXCEPT ![s][q] = h]
  /\ UNCHANGED <<linkVars, elements, threadVars, session, submitted, delivered, retried, place>>

\* ctos_send_message from the client connected to the queue.
Submit(s, h, q, m) ==
  /\ running[s] /\ session[s][h] # "closed"
  /\ connected[s][q] = h
  /\ place[m] = Fresh
  /\ elements' = [elements EXCEPT ![s][q] = Append(@, [to |-> "service", msg |-> m])]
  /\ submitted' = [submitted EXCEPT ![s][q] = Append(@, m)]
  /\ place' = [place EXCEPT ![m] = At("queue", s, q)]
  /\ UNCHANGED <<linkVars, threadVars, clientVars, delivered, retried>>

\* on_client_disconnected: disconnect_from_queue frees the first queue in
\* declaration order that holds this socket, and only that one.
CleanupClient(s, h) ==
  /\ running[s] /\ session[s][h] = "gone"
  /\ session' = [session EXCEPT ![s][h] = "closed"]
  /\ connected' = [connected EXCEPT ![s] = [q \in Queues |->
                     IF @[q] = h /\ \A r \in 1..(q - 1) : @[r] # h THEN NoSocket ELSE @[q]]]
  /\ UNCHANGED <<linkVars, elements, threadVars, submitted, delivered, retried, place>>

(***************************************************************************)
(* The process thread of a queue                                           *)
(***************************************************************************)

\* A variant that goes on to the next message with the old one in its hands.
ReleaseKeeps(s, q) ==
  /\ pc' = [pc EXCEPT ![s][q] = "idle"]
  /\ target' = [target EXCEPT ![s][q] = NoSocket]
  /\ UNCHANGED held

\* Thread (s, q) has disposed of the message it held.
Release(s, q) ==
  /\ pc' = [pc EXCEPT ![s][q] = "idle"]
  /\ held' = [held EXCEPT ![s][q] = NoMsg]
  /\ target' = [target EXCEPT ![s][q] = NoSocket]

\* A variant that takes a list of one element for empty.
TakeFromTwo(s, q) ==
  /\ running[s] /\ pc[s][q] = "idle"
  /\ Len(elements[s][q]) > 1
  /\ LET e == Head(elements[s][q]) IN
       /\ held' = [held EXCEPT ![s][q] = e.msg]
       /\ pc' = [pc EXCEPT ![s][q] = IF e.to = "client" THEN "toClient" ELSE "toService"]
       /\ place' = [place EXCEPT ![e.msg] = At("held", s, q)]
  /\ elements' = [elements EXCEPT ![s][q] = Tail(@)]
  /\ UNCHANGED <<linkVars, clientVars, target, submitted, delivered, retried>>

\* is_empty is false; take_first_element.
Take(s, q) ==
  /\ running[s] /\ pc[s][q] = "idle"
  /\ elements[s][q] # <<>>
  /\ LET e == Head(elements[s][q]) IN
       /\ held' = [held EXCEPT ![s][q] = e.msg]
       /\ pc' = [pc EXCEPT ![s][q] = IF e.to = "client" THEN "toClient" ELSE "toService"]
       /\ place' = [place EXCEPT ![e.msg] = At("held", s, q)]
  /\ elements' = [elements EXCEPT ![s][q] = Tail(@)]
  /\ UNCHANGED <<linkVars, clientVars, target, submitted, delivered, retried>>

\* get_connected_client returns NULL: the message is deleted.
DropUnclaimed(s, q) ==
  /\ running[s] /\ pc[s][q] = "toClient"
  /\ connected[s][q] = NoSocket
  /\ Release(s, q)
  /\ place' = [place EXCEPT ![held[s][q]] = Dropped]
  /\ UNCHANGED <<linkVars, clientVars, elements, submitted, delivered, retried>>

\* get_connected_client returns a socket, read without the queue's mutex.
ReadClient(s, q) ==
  /\ running[s] /\ pc[s][q] = "toClient"
  /\ connected[s][q] # NoSocket
  /\ target' = [target EXCEPT ![s][q] = connected[s][q]]
  /\ pc' = [pc EXCEPT ![s][q] = "sendClient"]
  /\ UNCHANGED <<linkVars, clientVars, elements, held, submitted, delivered, retried, place>>

\* send to the socket read before, whoever it belongs to by now.
SendToClient(s, q) ==
  /\ running[s] /\ pc[s][q] = "sendClient"
  /\ session[s][target[s][q]] = "on"
  /\ Release(s, q)
  /\ delivered' = [delivered EXCEPT ![s][q] = Append(@, held[s][q])]
  /\ place' = [place EXCEPT ![held[s][q]] = Delivered(s, q)]
  /\ UNCHANGED <<linkVars, clientVars, elements, submitted, retried>>

\* send fails: the client has left, or does not read and its buffers are full
\* (an accepted socket is non-blocking).  The message is deleted.
SendToClientFails(s, q) ==
  /\ running[s] /\ pc[s][q] = "sendClient"
  /\ Release(s, q)
  /\ place' = [place EXCEPT ![held[s][q]] = Dropped]
  /\ UNCHANGED <<linkVars, clientVars, elements, submitted, delivered, retried>>

\* send_message_to_service succeeds: the message is deleted here.
Forward(s, q) ==
  /\ pc[s][q] = "toService"
  /\ SendDone(s, [queue |-> q, msg |-> held[s][q]])
  /\ Release(s, q)
  /\ place' = [place EXCEPT ![held[s][q]] = At("wire", Other(s), sock[s])]
  /\ UNCHANGED <<clientVars, elements, submitted, delivered, retried>>

\* It succeeds, on a connection the other service does not read.
ForwardLost(s, q) ==
  /\ pc[s][q] = "toService"
  /\ SendLost(s)
  /\ Release(s, q)
  /\ place' = [place EXCEPT ![held[s][q]] = Lost]
  /\ UNCHANGED <<clientVars, elements, submitted, delivered, retried>>

\* A variant that may take a message that was sent for one that was not.
ForwardTwice(s, q) ==
  /\ pc[s][q] = "toService"
  /\ SendDone(s, [queue |-> q, msg |-> held[s][q]]) \/ SendFails(s)
  /\ pc' = [pc EXCEPT ![s][q] = "requeue"]
  /\ retried' = retried \cup {held[s][q]}
  /\ UNCHANGED <<clientVars, elements, held, target, submitted, delivered, place>>

\* It returns -1.
ForwardFails(s, q) ==
  /\ pc[s][q] = "toService"
  /\ SendFails(s)
  /\ pc' = [pc EXCEPT ![s][q] = "requeue"]
  /\ retried' = retried \cup {held[s][q]}
  /\ UNCHANGED <<clientVars, elements, held, target, submitted, delivered, place>>

\* Variants of Requeue: the message is forgotten; it goes to the front.
RequeueForgets(s, q) ==
  /\ running[s] /\ pc[s][q] = "requeue"
  /\ place' = [place EXCEPT ![held[s][q]] = At("queue", s, q)]
  /\ Release(s, q)
  /\ UNCHANGED <<linkVars, clientVars, elements, submitted, delivered, retried>>

RequeueFront(s, q) ==
  /\ running[s] /\ pc[s][q] = "requeue"
  /\ elements' = [elements EXCEPT ![s][q] = <<[to |-> "service", msg |-> held[s][q]]>> \o @]
  /\ place' = [place EXCEPT ![held[s][q]] = At("queue", s, q)]
  /\ Release(s, q)
  /\ UNCHANGED <<linkVars, clientVars, submitted, delivered, retried>>

\* insert_back: the message goes to the end of the list.
Requeue(s, q) ==
  /\ running[s] /\ pc[s][q] = "requeue"
  /\ elements' = [elements EXCEPT ![s][q] = Append(@, [to |-> "service", msg |-> held[s][q]])]
  /\ place' = [place EXCEPT ![held[s][q]] = At("queue", s, q)]
  /\ Release(s, q)
  /\ UNCHANGED <<linkVars, clientVars, submitted, delivered, retried>>

ProcessThread(s, q) ==
  \/ Take(s, q)
  \/ DropUnclaimed(s, q) \/ ReadClient(s, q)
  \/ SendToClient(s, q) \/ SendToClientFails(s, q)
  \/ Forward(s, q) \/ ForwardLost(s, q) \/ ForwardFails(s, q) \/ Requeue(s, q)

(***************************************************************************)
(* The link, with what its steps do to messages                            *)
(***************************************************************************)

\* Frames towards s on the connections in C will not be received any more.
LoseWire(s, C) ==
  [m \in Messages |-> IF \E c \in C : place[m] = At("wire", s, c) THEN Lost ELSE place[m]]

PathStart == (StartHost \/ StartPeer) /\ UNCHANGED pathVars

PathAccept ==
  /\ \/ Accept /\ place' = LoseWire(HOST, {sock[HOST]})
     \/ AcceptFails /\ place' = LoseWire(HOST, {sock[HOST], Head(backlog)})
  /\ UNCHANGED <<elements, threadVars, clientVars, submitted, delivered, retried>>

PathSelect(s) == (Select(s) \/ RecvNothing(s)) /\ UNCHANGED pathVars

PathRecv(s) ==
  /\ RecvFrames(s)
  /\ place' = [m \in Messages |->
       IF \E i \in DOMAIN inbuf'[s] : inbuf'[s][i].msg = m THEN At("inbuf", s, NULL) ELSE place[m]]
  /\ UNCHANGED <<elements, threadVars, clientVars, submitted, delivered, retried>>

\* Variants of StoreMessage: the receiver is set as for a client's own message;
\* the message is prepended.
StoreForService(s) ==
  /\ HandleFrame(s)
  /\ LET f == Head(inbuf[s]) IN
       /\ elements' = [elements EXCEPT ![s][f.queue] =
                         Append(@, [to |-> "service", msg |-> f.msg])]
       /\ place' = [place EXCEPT ![f.msg] = At("queue", s, f.queue)]
  /\ UNCHANGED <<threadVars, clientVars, submitted, delivered, retried>>

StoreAtFront(s) ==
  /\ HandleFrame(s)
  /\ LET f == Head(inbuf[s]) IN
       /\ elements' = [elements EXCEPT ![s][f.queue] =
                         <<[to |-> "client", msg |-> f.msg]>> \o @]
       /\ place' = [place EXCEPT ![f.msg] = At("queue", s, f.queue)]
  /\ UNCHANGED <<threadVars, clientVars, submitted, delivered, retried>>

\* stos_send_message: the message goes into the queue of the frame's type.
StoreMessage(s) ==
  /\ HandleFrame(s)
  /\ LET f == Head(inbuf[s]) IN
       /\ elements' = [elements EXCEPT ![s][f.queue] =
                         Append(@, [to |-> "client", msg |-> f.msg])]
       /\ place' = [place EXCEPT ![f.msg] = At("queue", s, f.queue)]
  /\ UNCHANGED <<threadVars, clientVars, submitted, delivered, retried>>

PathClose(s) ==
  /\ CloseSock(s) \/ NullSock(s)
  /\ place' = LoseWire(s, {sock[s]})
  /\ UNCHANGED <<elements, threadVars, clientVars, submitted, delivered, retried>>

PathRecvThread(s) == PathSelect(s) \/ PathRecv(s) \/ StoreMessage(s) \/ PathClose(s)

\* A service stops: its queues, its threads and its client sessions are gone.
PathCrash(s, k) ==
  /\ Crash(s, k)
  /\ elements' = [elements EXCEPT ![s] = [q \in Queues |-> <<>>]]
  /\ pc' = [pc EXCEPT ![s] = [q \in Queues |-> "idle"]]
  /\ held' = [held EXCEPT ![s] = [q \in Queues |-> NoMsg]]
  /\ target' = [target EXCEPT ![s] = [q \in Queues |-> NoSocket]]
  /\ connected' = [connected EXCEPT ![s] = [q \in Queues |-> NoSocket]]
  /\ session' = [session EXCEPT ![s] = [h \in Sockets |-> "closed"]]
  /\ place' = [m \in Messages |->
       IF \/ place[m].svc = s /\ place[m].kind \in Moving
          \/ \E c \in ends[s] : \E i \in DOMAIN wire[Other(s)][c] :
               i > k /\ wire[Other(s)][c][i].msg = m
       THEN Lost ELSE place[m]]
  /\ UNCHANGED <<submitted, delivered, retried>>

ClientStep(s, h) ==
  \/ OpenClient(s, h) \/ CloseClient(s, h) \/ CleanupClient(s, h)
  \/ \E q \in Queues : ConnectToQueue(s, h, q) \/ \E m \in Messages : Submit(s, h, q, m)

Next ==
  \/ PathStart
  \/ PathAccept
  \/ \E s \in Services :
       \/ PathRecvThread(s)
       \/ \E q \in Queues : ProcessThread(s, q)
       \/ \E h \in Sockets : ClientStep(s, h)
       \/ \E k \in 0..WireCap : PathCrash(s, k)

Spec == Init /\ [][Next]_vars

(***************************************************************************)
(* Every thread of a running service keeps running: all of them loop with  *)
(* bounded sleeps and none waits for another.  Clients, starting and       *)
(* stopping are not fair, nor is a send of the peer that waits for room.   *)
(***************************************************************************)
Fairness ==
  /\ WF_vars(PathAccept)
  /\ \A s \in Services : WF_vars(PathRecvThread(s))
  /\ \A s \in Services, q \in Queues : WF_vars(ProcessThread(s, q))

FairSpec == Spec /\ Fairness

-----------------------------------------------------------------------------
(***************************************************************************)
(* Every place where a message physically is: an index of a list, a        *)
(* process thread's hands, a frame in the kernel or in a receive buffer,   *)
(* or an entry of what a client was sent.                                  *)
(***************************************************************************)
QueueSlots(m) == UNION {{<<"queue", s, q, i>> : i \in {j \in DOMAIN elements[s][q] :
                   elements[s][q][j].msg = m}} : s \in Services, q \in Queues}
HeldSlots(m) == {<<"held", x[1], x[2], 0>> :
                   x \in {y \in Services \X Queues : held[y[1]][y[2]] = m}}
WireSlots(m) == UNION {{<<"wire", s, c, i>> : i \in {j \in DOMAIN wire[s][c] :
                   wire[s][c][j].msg = m}} : s \in Services, c \in Conns}
InbufSlots(m) == UNION {{<<"inbuf", s, 0, i>> : i \in {j \in DOMAIN inbuf[s] :
                   inbuf[s][j].msg = m}} : s \in Services}
ClientSlots(m) == UNION {{<<"delivered", s, q, i>> : i \in {j \in DOMAIN delivered[s][q] :
                   delivered[s][q][j] = m}} : s \in Services, q \in Queues}
Slots(m) == QueueSlots(m) \cup HeldSlots(m) \cup WireSlots(m) \cup InbufSlots(m)
            \cup ClientSlots(m)

(***************************************************************************)
(* No message is ever in two places: retrying, handing over between the    *)
(* threads, the loss of a connection and restarts never duplicate one, so  *)
(* a client is sent a message at most once.                                *)
(***************************************************************************)
OnePlace == \A m \in Messages : \A x, y \in Slots(m) : x = y

(***************************************************************************)
(* No message vanishes: from the moment it was accepted until it is        *)
(* settled, and after it was delivered, it is somewhere.  The code deletes *)
(* m_data in four branches of a process thread and never leaks it.         *)
(***************************************************************************)
NothingVanishes ==
  \A m \in Messages :
    place[m].kind \in Moving \cup {"delivered"} <=> Slots(m) # {}

(***************************************************************************)
(* A queue holds messages for both directions and the frames carry only a  *)
(* queue's type: still, a message waiting for the other service, or for a  *)
(* client, was submitted to the same queue at this, or the other, service, *)
(* and clients are sent only what was submitted to the same queue at the   *)
(* other service.                                                          *)
(***************************************************************************)
RightDestination ==
  \A s \in Services, q \in Queues :
    /\ \A i \in DOMAIN elements[s][q] :
         elements[s][q][i].msg \in Range(submitted[
            IF elements[s][q][i].to = "service" THEN s ELSE Other(s)][q])
    /\ Range(delivered[s][q]) \subseteq Range(submitted[Other(s)][q])

(***************************************************************************)
(* Until one of the services first stops, the link loses nothing: a        *)
(* message that is not delivered was dropped for want of a client.         *)
(***************************************************************************)
NoLossUntilRestart == crashes = 0 => \A m \in Messages : place[m] # Lost

(***************************************************************************)
(* The two queueing services implement the abstract delivery service: at   *)
(* most once, from queue to queue of the same name, and in order unless a  *)
(* message had to be put back (insert_back puts it behind its successors). *)
(***************************************************************************)
D == INSTANCE Delivery WITH
       Channels <- Services \X Queues,
       accepted <- [ch \in Services \X Queues |-> submitted[ch[1]][ch[2]]],
       received <- [ch \in Services \X Queues |-> delivered[Other(ch[1])][ch[2]]],
       dropped  <- {m \in Messages : place[m].kind \in {"dropped", "lost"}}

DeliverySpec == D!Spec

(***************************************************************************)
(* Both services are up and each uses, and reads, the same connection.     *)
(***************************************************************************)
LinkUp ==
  \E c \in ends[HOST] \cap ends[PEER] : sock = [s \in Services |-> c]

(***************************************************************************)
(* Once the link stays up every message accepted is settled, however often *)
(* it had to be put back before and however full the link is.              *)
(***************************************************************************)
MessagesSettle ==
  <>[]LinkUp => \A m \in Messages : (place[m] # Fresh) ~> Settled(m)

(***************************************************************************)
(* A message that waits for the client of queue q at s.                    *)
(***************************************************************************)
WaitsForClient(s, m) ==
  \E q \in Queues : place[m] = At("queue", s, q) /\ m \in Range(submitted[Other(s)][q])

(***************************************************************************)
(* The peer's connection was orphaned (NoOrphan) and has taken what the    *)
(* kernel's buffers hold: the next send of the peer waits for a host that  *)
(* will never read this connection.                                        *)
(***************************************************************************)
WaitsInSend(s) ==
  /\ s = PEER /\ sock[s] \in ends[HOST] \cap ends[PEER]
  /\ ~Reads(HOST, sock[s]) /\ unread[sock[s]] = WireCap

(***************************************************************************)
(* A message that waits for a client is not held up by messages that       *)
(* cannot be forwarded, link or no link: putting those back at the end of  *)
(* the list lets it come to the front.  The one exception is a peer on an  *)
(* orphaned connection, whose process threads wait in send.                *)
(***************************************************************************)
ClientsNotBlocked ==
  \A m \in Messages, s \in Services : WaitsForClient(s, m) ~> Settled(m) \/ WaitsInSend(s)
=============================================================================
