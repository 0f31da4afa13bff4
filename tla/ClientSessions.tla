--------------------------- MODULE ClientSessions ---------------------------
(***************************************************************************)
(* The clients of one queueing service (process_server): the accept thread *)
(* puts a new socket into the list m_clients; the receive loop takes       *)
(* sockets from the list one by one, and has the thread pool serve those   *)
(* that are readable; a worker that has served a socket puts it back, one  *)
(* that finds its client gone detaches it from its queue and closes it.    *)
(*                                                                         *)
(* The task given to the pool captures the loop's variable current_socket  *)
(* by reference, so a worker serves the socket the variable holds when the *)
(* task runs.  The loop sleeps 50 ms between two sockets; PromptStart says *)
(* whether a task is assumed to start within that time.                    *)
(***************************************************************************)
EXTENDS Naturals, FiniteSets, Sequences, SequencesExt

CONSTANTS Clients,      \* client processes, each of which connects once
          NoClient,
          Handles,      \* SOCKET values; one is reused after closesocket
          NoHandle,     \* INVALID_SOCKET, and no socket at all
          Workers,      \* threads of the pool (PROCESS_RECV_THREADS)
          NumQueues,    \* queues, in declaration order
          MaxRequests,  \* bound: requests a client sends
          PromptStart   \* a task starts before the loop takes another socket

Queues == 1..NumQueues

ASSUME SessionsAssumption ==
  /\ NoClient \notin Clients /\ NoHandle \notin Handles
  /\ NumQueues \in Nat /\ MaxRequests \in Nat
  /\ PromptStart \in BOOLEAN

\* ctos_connect_to_queue, ctos_queue_client_exists and ctos_send_message, for
\* the queue of that name or type.
Requests == [op : {"connect", "exists", "message"}, queue : Queues]

VARIABLES
  state,      \* state[c]: client c has not connected, is up, or has ended
  asked,      \* history: asked[c], the requests client c has sent
  owner,      \* owner[h]: client at the other end of socket h, if it is open
              \* (NoHandle never is)
  inbox,      \* inbox[c]: requests of c in the kernel, not yet received
  clients,    \* m_clients
  loop,       \* where recv_from_clients is
  current,    \* its variable current_socket
  tasks,      \* tasks in the pool's queue: each refers to current
  wpc,        \* wpc[w]: where worker w is
  served,     \* served[w]: t_socket of the handle_recv that w runs
  buffer,     \* buffer[w]: requests it has received and not yet processed
  connected,  \* connected[q]: m_connected_client_socket
  unanswered, \* history: clients that a response could not be sent to
  passed      \* history: queues left connected to a socket by the cleanup of
              \* that socket, which had freed another queue

clientVars == <<state, asked>>
loopVars == <<loop, current>>
poolVars == <<tasks, wpc, served, buffer>>
queueVars == <<connected, passed>>
vars == <<clientVars, owner, inbox, clients, loopVars, poolVars, queueVars, unanswered>>

Init ==
  /\ state = [c \in Clients |-> "new"]
  /\ asked = [c \in Clients |-> <<>>]
  /\ owner = [h \in Handles \cup {NoHandle} |-> NoClient]
  /\ inbox = [c \in Clients |-> <<>>]
  /\ clients = <<>>
  /\ loop = "check"
  /\ current = NoHandle
  /\ tasks = 0
  /\ wpc = [w \in Workers |-> "idle"]
  /\ served = [w \in Workers |-> NoHandle]
  /\ buffer = [w \in Workers |-> <<>>]
  /\ connected = [q \in Queues |-> NoHandle]
  /\ unanswered = {}
  /\ passed = {}

Gone(c) == c # NoClient /\ state[c] = "gone"
InboxOf(h) == IF owner[h] = NoClient THEN <<>> ELSE inbox[owner[h]]

(***************************************************************************)
(* Clients, and the accept thread                                          *)
(***************************************************************************)

\* A client connects; accept returns a free handle; handle_accept.
Connect(c, h) ==
  /\ state[c] = "new" /\ owner[h] = NoClient
  /\ state' = [state EXCEPT ![c] = "up"]
  /\ owner' = [owner EXCEPT ![h] = c]
  /\ clients' = Append(clients, h)
  /\ UNCHANGED <<asked, inbox, loopVars, poolVars, queueVars, unanswered>>

\* The client resets its connection before: accept fails, and handle_accept
\* puts INVALID_SOCKET into the list.
AcceptFails(c) ==
  /\ state[c] = "new"
  /\ state' = [state EXCEPT ![c] = "gone"]
  /\ clients' = Append(clients, NoHandle)
  /\ UNCHANGED <<asked, owner, inbox, loopVars, poolVars, queueVars, unanswered>>

\* A client sends messages to a queue only after the answer that it is
\* connected to it: handle_recv counts, but does not skip, the data of others.
Request(c, r) ==
  /\ state[c] = "up" /\ Len(asked[c]) < MaxRequests
  /\ r.op = "message" => connected[r.queue] # NoHandle /\ owner[connected[r.queue]] = c
  /\ asked' = [asked EXCEPT ![c] = Append(@, r)]
  /\ inbox' = [inbox EXCEPT ![c] = Append(@, r)]
  /\ UNCHANGED <<state, owner, clients, loopVars, poolVars, queueVars, unanswered>>

Leave(c) ==
  /\ state[c] = "up"
  /\ state' = [state EXCEPT ![c] = "gone"]
  /\ UNCHANGED <<asked, owner, inbox, clients, loopVars, poolVars, queueVars, unanswered>>

(***************************************************************************)
(* The receive loop (recv_from_clients)                                    *)
(***************************************************************************)

\* length() is not 0.
CheckLength ==
  /\ loop = "check" /\ clients # <<>>
  /\ loop' = "take"
  /\ UNCHANGED <<clientVars, owner, inbox, clients, current, poolVars, queueVars, unanswered>>

\* Some task has been given to the pool and has not read current_socket yet.
Unstarted == tasks > 0 \/ \E w \in Workers : wpc[w] = "called"

\* take_first_item, which may only be called on a list that is not empty.
TakeFirst ==
  /\ loop = "take" /\ clients # <<>>
  /\ PromptStart => ~Unstarted
  /\ current' = Head(clients)
  /\ clients' = Tail(clients)
  /\ loop' = "select"
  /\ UNCHANGED <<clientVars, owner, inbox, poolVars, queueVars, unanswered>>

ReadableTimeout(h) == owner[h] # NoClient

\* select: data or the end of the connection.
Readable(h) == owner[h] # NoClient /\ (InboxOf(h) # <<>> \/ Gone(owner[h]))

\* A variant that gives the socket to the pool and keeps it in the list.
SelectReadyKept ==
  /\ loop = "select" /\ Readable(current)
  /\ tasks' = tasks + 1
  /\ clients' = Append(clients, current)
  /\ loop' = "check"
  /\ UNCHANGED <<clientVars, owner, inbox, current, wpc, served, buffer, queueVars, unanswered>>

SelectReady ==
  /\ loop = "select" /\ Readable(current)
  /\ tasks' = tasks + 1
  /\ loop' = "check"
  /\ UNCHANGED <<clientVars, owner, inbox, clients, current, wpc, served, buffer, queueVars, unanswered>>


\* select timed out, or failed: the socket goes to the end of the list.
SelectElse ==
  /\ loop = "select" /\ ~Readable(current)
  /\ clients' = Append(clients, current)
  /\ loop' = "check"
  /\ UNCHANGED <<clientVars, owner, inbox, current, poolVars, queueVars, unanswered>>

Loop == CheckLength \/ TakeFirst \/ SelectReady \/ SelectElse

(***************************************************************************)
(* The workers of the pool (thread_pool, handle_recv)                      *)
(***************************************************************************)

Goto(w, label) == wpc' = [wpc EXCEPT ![w] = label]

\* handle_recv returns; its parameter t_socket is gone.
Return(w) == Goto(w, "idle") /\ served' = [served EXCEPT ![w] = NoHandle]

\* A variant that wakes up without looking whether there is a task.
PopTaskAnyway(w) ==
  /\ wpc[w] = "idle"
  /\ tasks' = tasks - 1
  /\ Goto(w, "called")
  /\ UNCHANGED <<clientVars, owner, inbox, clients, loopVars, served, buffer, queueVars, unanswered>>

PopTask(w) ==
  /\ wpc[w] = "idle" /\ tasks > 0
  /\ tasks' = tasks - 1
  /\ Goto(w, "called")
  /\ UNCHANGED <<clientVars, owner, inbox, clients, loopVars, served, buffer, queueVars, unanswered>>

\* The closure evaluates current_socket and calls handle_recv with it.
CallHandler(w) ==
  /\ wpc[w] = "called"
  /\ served' = [served EXCEPT ![w] = current]
  /\ Goto(w, "recv")
  /\ UNCHANGED <<clientVars, owner, inbox, clients, loopVars, tasks, buffer, queueVars, unanswered>>

\* recv returns some of the requests that are there.
Recv(w) ==
  /\ wpc[w] = "recv"
  /\ \E k \in 1..Len(InboxOf(served[w])) :
       /\ buffer' = [buffer EXCEPT ![w] = SubSeq(InboxOf(served[w]), 1, k)]
       /\ inbox' = [inbox EXCEPT ![owner[served[w]]] = SubSeq(@, k + 1, Len(@))]
  /\ Goto(w, "process")
  /\ UNCHANGED <<clientVars, owner, clients, loopVars, tasks, served, queueVars, unanswered>>

\* recv returns 0 or fails: the client has left, perhaps with a reset that
\* discards what it had sent; the socket is closed; or there is nothing to
\* read (an accepted socket is non-blocking as the listening one is).
RecvNothing(w) ==
  /\ wpc[w] = "recv"
  /\ InboxOf(served[w]) = <<>> \/ Gone(owner[served[w]])
  /\ Goto(w, "detach")
  /\ UNCHANGED <<clientVars, owner, inbox, clients, loopVars, tasks, served, buffer, queueVars, unanswered>>

\* connect_to_queue, when request r asks for it: refused if the queue is taken.
ConnectIfFree(r, h) ==
  connected' = IF r.op = "connect" /\ connected[r.queue] = NoHandle
               THEN [connected EXCEPT ![r.queue] = h] ELSE connected

\* One turn of the loop of handle_recv; a message changes nothing here (see
\* Submit in MessagePath), nor does the question whether a client exists.
Process(w) ==
  /\ wpc[w] = "process" /\ buffer[w] # <<>>
  /\ ConnectIfFree(Head(buffer[w]), served[w])
  /\ buffer' = [buffer EXCEPT ![w] = Tail(@)]
  /\ UNCHANGED <<clientVars, owner, inbox, clients, loopVars, tasks, wpc, served, passed, unanswered>>

\* The same, and the response cannot be sent: the client has left, or it does
\* not read and its buffers are full (the socket is non-blocking).  Either way
\* the handler ends with the client's disconnection.
ProcessFails(w) ==
  /\ wpc[w] = "process" /\ buffer[w] # <<>>
  /\ Head(buffer[w]).op # "message"
  /\ ConnectIfFree(Head(buffer[w]), served[w])
  /\ buffer' = [buffer EXCEPT ![w] = <<>>]
  /\ Goto(w, "detach")
  /\ unanswered' = unanswered \cup ({owner[served[w]]} \ {NoClient})
  /\ UNCHANGED <<clientVars, owner, inbox, clients, loopVars, tasks, served, passed>>

\* All requests are processed: the socket goes back to the list.
PutBack(w) ==
  /\ wpc[w] = "process" /\ buffer[w] = <<>>
  /\ clients' = Append(clients, served[w])
  /\ Return(w)
  /\ UNCHANGED <<clientVars, owner, inbox, loopVars, tasks, buffer, queueVars, unanswered>>

\* A variant that leaves the socket connected to its queue.
DetachNone(w) ==
  /\ wpc[w] = "detach"
  /\ Goto(w, "remove")
  /\ UNCHANGED <<clientVars, owner, inbox, clients, loopVars, tasks, served, buffer, queueVars, unanswered>>

\* on_client_disconnected: disconnect_from_queue frees the first queue the
\* socket is connected to, and only that one ...
Detach(w) ==
  /\ wpc[w] = "detach"
  /\ connected' = [q \in Queues |->
       IF connected[q] = served[w] /\ \A p \in 1..(q - 1) : connected[p] # served[w]
       THEN NoHandle ELSE connected[q]]
  /\ passed' = {q \in Queues : /\ connected'[q] # NoHandle
                               /\ q \in passed \/ connected[q] = served[w]}
  /\ Goto(w, "remove")
  /\ UNCHANGED <<clientVars, owner, inbox, clients, loopVars, tasks, served, buffer, unanswered>>

\* ... then remove_item_by_value ...
RemoveItem(w) ==
  /\ wpc[w] = "remove"
  /\ clients' = RemoveFirst(clients, served[w])
  /\ Goto(w, "close")
  /\ UNCHANGED <<clientVars, owner, inbox, loopVars, tasks, served, buffer, queueVars, unanswered>>

\* A variant that puts the closed socket back, as after any other request.
CloseThenPutBack(w) ==
  /\ wpc[w] = "close"
  /\ owner' = [owner EXCEPT ![served[w]] = NoClient]
  /\ clients' = Append(clients, served[w])
  /\ Return(w)
  /\ UNCHANGED <<clientVars, inbox, loopVars, tasks, buffer, queueVars, unanswered>>

\* ... and closesocket.
Close(w) ==
  /\ wpc[w] = "close"
  /\ owner' = [owner EXCEPT ![served[w]] = NoClient]
  /\ Return(w)
  /\ UNCHANGED <<clientVars, inbox, clients, loopVars, tasks, buffer, queueVars, unanswered>>

Worker(w) ==
  \/ PopTask(w) \/ CallHandler(w)
  \/ Recv(w) \/ RecvNothing(w)
  \/ Process(w) \/ ProcessFails(w) \/ PutBack(w)
  \/ Detach(w) \/ RemoveItem(w) \/ Close(w)

ClientStep(c) ==
  \/ \E h \in Handles : Connect(c, h)
  \/ AcceptFails(c)
  \/ \E r \in Requests : Request(c, r)
  \/ Leave(c)

Next ==
  \/ \E c \in Clients : ClientStep(c)
  \/ Loop
  \/ \E w \in Workers : Worker(w)

Spec == Init /\ [][Next]_vars

(***************************************************************************)
(* The loop and the workers keep running.  Clients are not fair.           *)
(***************************************************************************)
Fairness == WF_vars(Loop) /\ \A w \in Workers : WF_vars(Worker(w))

FairSpec == Spec /\ Fairness

-----------------------------------------------------------------------------
TypeOK ==
  /\ state \in [Clients -> {"new", "up", "gone"}]
  /\ asked \in [Clients -> Seq(Requests)]
  /\ owner \in [Handles \cup {NoHandle} -> Clients \cup {NoClient}]
  /\ inbox \in [Clients -> Seq(Requests)]
  /\ clients \in Seq(Handles \cup {NoHandle})
  /\ loop \in {"check", "take", "select"}
  /\ current \in Handles \cup {NoHandle}
  /\ tasks \in Nat
  /\ wpc \in [Workers -> {"idle", "called", "recv", "process", "detach", "remove", "close"}]
  /\ served \in [Workers -> Handles \cup {NoHandle}]
  /\ buffer \in [Workers -> Seq(Requests)]
  /\ connected \in [Queues -> Handles \cup {NoHandle}]
  /\ unanswered \in SUBSET Clients
  /\ passed \in SUBSET Queues

(***************************************************************************)
(* Who has socket h: entries of the list, the loop between take_first_item *)
(* and append_node or enqueue, a task that will read current_socket, and   *)
(* workers that serve it.                                                  *)
(***************************************************************************)
Holders(h) ==
  {<<"list", i>> : i \in {j \in DOMAIN clients : clients[j] = h}}
  \cup {x \in {<<"loop", 0>>} : loop = "select" /\ current = h}
  \cup {x \in {<<"task", 0>>} : Unstarted /\ loop # "select" /\ current = h}
  \cup {<<"worker", w>> : w \in {v \in Workers :
          wpc[v] \in {"recv", "process", "detach", "remove", "close"} /\ served[v] = h}}

(***************************************************************************)
(* The comment at the loop says: "Take a client form the list, process it  *)
(* and then put it back at the end of the list.  That way we process all   *)
(* the clients and don't run into errors if a client disconnects."  So an  *)
(* open socket is always held by exactly one of them: nobody forgets it,   *)
(* no two workers serve it at once, and a closed one is held by none.      *)
(***************************************************************************)
HeldOnce ==
  \A h \in Handles : Cardinality(Holders(h)) = IF owner[h] = NoClient THEN 0 ELSE 1

(***************************************************************************)
(* The list is not empty when the loop takes its first item, although      *)
(* workers may remove sockets after its length was tested without keeping  *)
(* the mutex: take_first_item dereferences the head.                       *)
(***************************************************************************)
TakeNeverEmpty == loop = "take" => clients # <<>>

(***************************************************************************)
(* The service never mistakes "nothing to read" for the end of the         *)
(* connection: a socket is closed only after its client has left, or when  *)
(* a response to it could not be sent.                                     *)
(***************************************************************************)
HealthyKept ==
  [][\A h \in Handles : owner[h] # NoClient /\ owner'[h] = NoClient =>
       Gone(owner[h]) \/ owner[h] \in unanswered]_vars

(***************************************************************************)
(* A queue is connected to an open socket whose client asked for it, also  *)
(* when the value of a closed socket is used again and while a client is   *)
(* detached, removed and closed in three steps.  The exceptions are queues *)
(* that the cleanup of their socket left alone because it had freed one.   *)
(***************************************************************************)
BelongsToAsker(q) ==
  /\ owner[connected[q]] # NoClient
  /\ [op |-> "connect", queue |-> q] \in Range(asked[owner[connected[q]]])

ConnectedToAsker ==
  \A q \in Queues : connected[q] # NoHandle => BelongsToAsker(q) \/ q \in passed

(***************************************************************************)
(* "Cleanup when a client disconnects": a queue never stays connected to   *)
(* the socket of a client that is gone and closed; nor, when the socket    *)
(* value is used again, to a client that did not ask for that queue.       *)
(***************************************************************************)
QueuesFreed == \A q \in Queues : connected[q] # NoHandle => BelongsToAsker(q)


=============================================================================
