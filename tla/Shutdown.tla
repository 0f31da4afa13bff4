------------------------------ MODULE Shutdown ------------------------------
(***************************************************************************)
(* The life of one queueing service, from main to main: its threads are    *)
(* started, some of them perhaps not when a port cannot be opened, and     *)
(* stop_host or stop_client joins them one after the other, cleans the     *)
(* queues, and destroys the service, member by member in the reverse order *)
(* of their declaration.  The workers of the thread pool are joined last,  *)
(* by the destructor of the pool, when the list of clients and the queues  *)
(* their tasks work on are gone.                                           *)
(*                                                                         *)
(* Each thread tests the m_stop of its class at the top of its loop.  A    *)
(* critical section of the pool's mutex is one action; waiting on its      *)
(* condition variable and being notified are two.                          *)
(***************************************************************************)
EXTENDS Naturals, Sequences, FiniteSets

CONSTANTS Workers,    \* threads of the pool (PROCESS_RECV_THREADS)
          MaxClients, \* bound: clients that connect
          MaxQueued   \* bound: messages in the queue of the service

ASSUME ShutdownAssumption ==
  /\ IsFiniteSet(Workers) /\ Workers # {}
  /\ MaxClients \in Nat /\ MaxQueued \in Nat

\* accept and receive thread of the link, those for clients, process thread.
Threads == {"link_accept", "link_recv", "accept", "loop", "process"}

VARIABLES
  host,      \* m_is_host: the service was started with -s
  main,      \* where the main thread is
  at,        \* at[t]: where thread t is; "none" before it is created
  stop,      \* classes whose m_stop is set
  linkOpen,  \* a client's socket to its host is open
  clients,   \* length of m_clients
  queued,    \* messages in the queues
  tasks,     \* tasks in the queue of the pool
  wpc,       \* wpc[w]: where worker w is
  poolStop,  \* the stop of the pool
  late,      \* history: tasks were left when the receive loop was joined
  broken     \* history: destroyed members that were used

poolVars == <<tasks, wpc, poolStop>>
dataVars == <<clients, queued>>
historyVars == <<late, broken>>
vars == <<host, main, at, stop, linkOpen, dataVars, poolVars, historyVars>>

\* The main thread, in the order of its steps; the last ones are the delete.
MainSteps == <<"start_link", "start_clients", "wait", "stop_queues", "stop_link",
  "join_link_accept", "join_link_recv", "close_link", "stop_clients", "join_accept",
  "join_loop", "join_process", "drain", "destroy_clients", "destroy_queue",
  "stop_pool", "notify_all", "join_workers", "done">>
Position(step) == CHOOSE i \in DOMAIN MainSteps : MainSteps[i] = step
Past(step) == Position(main) > Position(step)
Goto(step) == main' = step

TypeOK ==
  /\ host \in BOOLEAN /\ linkOpen \in BOOLEAN /\ poolStop \in BOOLEAN /\ late \in BOOLEAN
  /\ main \in {MainSteps[i] : i \in DOMAIN MainSteps}
  /\ at \in [Threads -> {"none", "top", "in", "took", "pushed", "held", "blocked", "done"}]
  /\ stop \subseteq {"queues", "link", "clients"}
  /\ clients \in 0..MaxClients /\ queued \in 0..MaxQueued /\ tasks \in 0..MaxClients
  /\ wpc \in [Workers -> {"check", "waiting", "run", "blocked", "put", "exited"}]
  /\ broken \subseteq {"clients", "queue"}

Init ==
  /\ host \in BOOLEAN
  /\ main = "start_link"
  /\ at = [t \in Threads |-> IF t = "process" THEN "top" ELSE "none"]
  /\ stop = {}
  /\ linkOpen = FALSE
  /\ clients = 0 /\ queued = 0
  /\ tasks = 0 /\ wpc = [w \in Workers |-> "check"] /\ poolStop = FALSE
  /\ late = FALSE /\ broken = {}

Move(t, from, to) == at[t] = from /\ at' = [at EXCEPT ![t] = to]
Step(w, from, to) == wpc[w] = from /\ wpc' = [wpc EXCEPT ![w] = to]
Create(T) == at' = [t \in Threads |-> IF t \in T THEN "top" ELSE at[t]]

Destroyed(member) ==
  Past(IF member = "clients" THEN "destroy_clients" ELSE "destroy_queue")
Uses(member) == broken' = IF Destroyed(member) THEN broken \cup {member} ELSE broken

Busy == Cardinality({w \in Workers : wpc[w] \in {"run", "blocked", "put"}})
Holding == IF at["process"] \in {"held", "blocked"} THEN 1 ELSE 0
Sockets == clients + tasks + Busy + IF at["loop"] = "took" THEN 1 ELSE 0

\* A new message is inserted into the queue.
Insert == queued + Holding < MaxQueued /\ queued' = queued + 1 /\ Uses("queue")

(***************************************************************************)
(* The pool                                                                *)
(***************************************************************************)

Take(w) ==
  /\ tasks > 0 /\ Step(w, "check", "run")
  /\ tasks' = tasks - 1
  /\ UNCHANGED <<host, main, at, stop, linkOpen, dataVars, poolStop, historyVars>>

Quit(w) ==
  /\ tasks = 0 /\ poolStop /\ Step(w, "check", "exited")
  /\ UNCHANGED <<host, main, at, stop, linkOpen, dataVars, tasks, poolStop, historyVars>>

\* The predicate is false: the mutex is released and the worker waits.
Wait(w) ==
  /\ tasks = 0 /\ ~poolStop /\ Step(w, "check", "waiting")
  /\ UNCHANGED <<host, main, at, stop, linkOpen, dataVars, tasks, poolStop, historyVars>>

\* A condition variable may wake a thread for no reason.
Spurious(w) ==
  /\ Step(w, "waiting", "check")
  /\ UNCHANGED <<host, main, at, stop, linkOpen, dataVars, tasks, poolStop, historyVars>>

NotifyOne ==
  IF \A w \in Workers : wpc[w] # "waiting" THEN UNCHANGED wpc
  ELSE \E w \in Workers : Step(w, "waiting", "check")

(***************************************************************************)
(* handle_recv in a worker                                                 *)
(***************************************************************************)

\* A message of the client, or a request that leaves the queue alone.
Serve(w) ==
  /\ Step(w, "run", "put")
  /\ (Insert \/ UNCHANGED <<queued, broken>>)
  /\ UNCHANGED <<host, main, at, stop, linkOpen, clients, tasks, poolStop, late>>

\* A notification to the host waits for room on the socket.
ServeBlocked(w) ==
  /\ linkOpen /\ Step(w, "run", "blocked")
  /\ UNCHANGED <<host, main, at, stop, linkOpen, dataVars, tasks, poolStop, historyVars>>

ServeUnblocked(w) ==
  /\ Step(w, "blocked", "put")
  /\ UNCHANGED <<host, main, at, stop, linkOpen, dataVars, tasks, poolStop, historyVars>>

\* The socket goes back to m_clients, or on_client_disconnected removes it.
PutBack(w) ==
  /\ Step(w, "put", "check")
  /\ clients' \in {clients, clients + 1}
  /\ Uses("clients")
  /\ UNCHANGED <<host, main, at, stop, linkOpen, queued, tasks, poolStop, late>>

Worker(w) ==
  \/ Take(w) \/ Quit(w) \/ Wait(w)
  \/ Serve(w) \/ ServeBlocked(w) \/ PutBack(w)
  \/ ~linkOpen /\ ServeUnblocked(w)

(***************************************************************************)
(* The other threads                                                       *)
(***************************************************************************)

StopOf(t) == CASE t \in {"link_accept", "link_recv"} -> "link"
               [] t \in {"accept", "loop"} -> "clients"
               [] t = "process" -> "queues"

\* The test at the top of a loop.
Test(t) ==
  /\ Move(t, "top", IF StopOf(t) \in stop THEN "done" ELSE "in")
  /\ UNCHANGED <<host, main, stop, linkOpen, dataVars, poolVars, historyVars>>

\* Nothing to do: a timeout of select, an empty list, an error.
Idle(t) ==
  /\ t = "loop" => clients = 0
  /\ t = "process" => queued = 0
  /\ Move(t, "in", "top")
  /\ UNCHANGED <<host, main, stop, linkOpen, dataVars, poolVars, historyVars>>

\* A message of the other service is stored; or the host has gone.
ReceiveLink ==
  /\ Move("link_recv", "in", "top")
  /\ \/ Insert /\ UNCHANGED linkOpen
     \/ ~host /\ linkOpen' = FALSE /\ UNCHANGED <<queued, broken>>
  /\ UNCHANGED <<host, main, stop, clients, poolVars, late>>

\* A client connects: handle_accept.
AcceptClient ==
  /\ Sockets < MaxClients
  /\ Move("accept", "in", "top")
  /\ clients' = clients + 1
  /\ UNCHANGED <<host, main, stop, linkOpen, queued, poolVars, historyVars>>

\* A variant of TakeClient that leaves the socket in the list.
PeekClient ==
  /\ clients > 0 /\ Move("loop", "in", "took")
  /\ UNCHANGED <<host, main, stop, linkOpen, dataVars, poolVars, historyVars>>

\* recv_from_clients takes a socket from the list ...
TakeClient ==
  /\ clients > 0 /\ Move("loop", "in", "took")
  /\ clients' = clients - 1
  /\ UNCHANGED <<host, main, stop, linkOpen, queued, poolVars, historyVars>>

\* ... and puts it back, unless it is readable ...
ReturnClient ==
  /\ Move("loop", "took", "top")
  /\ clients' = clients + 1
  /\ UNCHANGED <<host, main, stop, linkOpen, queued, poolVars, historyVars>>

\* ... then enqueue pushes a task (it would throw if the pool had stopped) ...
Push ==
  /\ Move("loop", "took", "pushed")
  /\ tasks' = tasks + 1
  /\ UNCHANGED <<host, main, stop, linkOpen, dataVars, wpc, poolStop, historyVars>>

\* A variant of Notify that forgets to call notify_one.
NotifyNobody ==
  /\ Move("loop", "pushed", "top")
  /\ UNCHANGED <<host, main, stop, linkOpen, dataVars, poolVars, historyVars>>

\* ... and notifies a worker, without the mutex.
Notify ==
  /\ Move("loop", "pushed", "top")
  /\ NotifyOne
  /\ UNCHANGED <<host, main, stop, linkOpen, dataVars, tasks, poolStop, historyVars>>

\* process_int, ...: a message is taken and sent; if it cannot be sent to the
\* other service it is put back.  Only a client's socket to its host blocks.
TakeMessage ==
  /\ queued > 0 /\ Move("process", "in", "held")
  /\ queued' = queued - 1
  /\ UNCHANGED <<host, main, stop, linkOpen, clients, poolVars, historyVars>>

SendBlocked ==
  /\ linkOpen /\ Move("process", "held", "blocked")
  /\ UNCHANGED <<host, main, stop, linkOpen, dataVars, poolVars, historyVars>>

Sent ==
  /\ at["process"] \in {"held", "blocked"} /\ Move("process", at["process"], "top")
  /\ UNCHANGED <<host, main, stop, linkOpen, dataVars, poolVars, historyVars>>

Requeue ==
  /\ at["process"] \in {"held", "blocked"} /\ Move("process", at["process"], "top")
  /\ queued' = queued + 1 /\ Uses("queue")
  /\ UNCHANGED <<host, main, stop, linkOpen, clients, poolVars, late>>

\* What thread t does, but for what it waits for.
Thread(t) ==
  \/ Test(t)
  \/ Idle(t)
  \/ t = "link_recv" /\ ReceiveLink
  \/ t = "accept" /\ AcceptClient
  \/ t = "loop" /\ (TakeClient \/ ReturnClient \/ Push \/ Notify)
  \/ t = "process" /\ (TakeMessage \/ SendBlocked)
  \/ t = "process" /\ (at[t] = "blocked" => ~linkOpen) /\ (Sent \/ Requeue)

(***************************************************************************)
(* The main thread                                                         *)
(***************************************************************************)

\* start_as_host starts the receive thread even when the port is taken; a
\* client that cannot connect starts none.
StartLink ==
  /\ main = "start_link"
  /\ \/ /\ Create(IF host THEN {"link_accept", "link_recv"} ELSE {"link_recv"})
        /\ linkOpen' = ~host
        /\ Goto("start_clients")
     \/ /\ Create(IF host THEN {"link_recv"} ELSE {})
        /\ Goto("stop_queues")
        /\ UNCHANGED linkOpen
  /\ UNCHANGED <<host, stop, dataVars, poolVars, historyVars>>

StartClients ==
  /\ main = "start_clients"
  /\ \/ Create({"accept", "loop"}) /\ Goto("wait")
     \/ Create({"loop"}) /\ Goto("stop_queues")
  /\ UNCHANGED <<host, stop, linkOpen, dataVars, poolVars, historyVars>>

\* "exit" is typed.
Exit ==
  /\ main = "wait" /\ Goto("stop_queues")
  /\ UNCHANGED <<host, at, stop, linkOpen, dataVars, poolVars, historyVars>>

Signal(step, class, next) ==
  /\ main = step /\ Goto(next)
  /\ stop' = stop \cup {class}
  /\ UNCHANGED <<host, at, linkOpen, dataVars, poolVars, historyVars>>

\* t is not joinable, or has ended.
Ended(t) == at[t] \in {"none", "done"}

Join(step, t, next) ==
  /\ main = step /\ Ended(t) /\ Goto(next)
  /\ UNCHANGED <<host, at, stop, linkOpen, dataVars, poolVars, historyVars>>

\* base_client::disconnect closes the socket after the thread has ended; the
\* host never closes the one it has accepted.
CloseLink ==
  /\ main = "close_link" /\ Goto("stop_clients")
  /\ linkOpen' = FALSE
  /\ UNCHANGED <<host, at, stop, dataVars, poolVars, historyVars>>

\* Variants that do not wait for the thread.
JoinLoopNot ==
  /\ main = "join_loop" /\ Goto("join_process")
  /\ late' = (tasks > 0 \/ Busy > 0)
  /\ UNCHANGED <<host, at, stop, linkOpen, dataVars, poolVars, broken>>

JoinProcessNot ==
  /\ main = "join_process" /\ Goto("drain")
  /\ UNCHANGED <<host, at, stop, linkOpen, dataVars, poolVars, historyVars>>

JoinLoop ==
  /\ main = "join_loop" /\ Ended("loop") /\ Goto("join_process")
  /\ late' = (tasks > 0 \/ Busy > 0)
  /\ UNCHANGED <<host, at, stop, linkOpen, dataVars, poolVars, broken>>

JoinProcess == Join("join_process", "process", "drain")

\* clean_queues counts the messages and takes that many.
Drain ==
  /\ main = "drain" /\ Goto("destroy_clients")
  /\ queued' = 0
  /\ UNCHANGED <<host, at, stop, linkOpen, clients, poolVars, historyVars>>

Destroy(step, next) ==
  /\ main = step /\ Goto(next)
  /\ UNCHANGED <<host, at, stop, linkOpen, dataVars, poolVars, historyVars>>

StopPool ==
  /\ main = "stop_pool" /\ Goto("notify_all")
  /\ poolStop' = TRUE
  /\ UNCHANGED <<host, at, stop, linkOpen, dataVars, tasks, wpc, historyVars>>

\* A variant that wakes one worker only.
NotifyFirst ==
  /\ main = "notify_all" /\ Goto("join_workers")
  /\ NotifyOne
  /\ UNCHANGED <<host, at, stop, linkOpen, dataVars, tasks, poolStop, historyVars>>

NotifyAll ==
  /\ main = "notify_all" /\ Goto("join_workers")
  /\ wpc' = [w \in Workers |-> IF wpc[w] = "waiting" THEN "check" ELSE wpc[w]]
  /\ UNCHANGED <<host, at, stop, linkOpen, dataVars, tasks, poolStop, historyVars>>

JoinWorkers ==
  /\ main = "join_workers" /\ Goto("done")
  /\ \A w \in Workers : wpc[w] = "exited"
  /\ UNCHANGED <<host, at, stop, linkOpen, dataVars, poolVars, historyVars>>

\* stop_host or stop_client, then delete.
Main ==
  \/ StartLink
  \/ StartClients
  \/ Signal("stop_queues", "queues", "stop_link")
  \/ Signal("stop_link", "link", "join_link_accept")
  \/ Join("join_link_accept", "link_accept", "join_link_recv")
  \/ Join("join_link_recv", "link_recv", "close_link")
  \/ CloseLink
  \/ Signal("stop_clients", "clients", "join_accept")
  \/ Join("join_accept", "accept", "join_loop")
  \/ JoinLoop
  \/ JoinProcess
  \/ Drain
  \/ Destroy("destroy_clients", "destroy_queue")
  \/ Destroy("destroy_queue", "stop_pool")
  \/ StopPool
  \/ NotifyAll
  \/ JoinWorkers

Next ==
  \/ Main
  \/ Exit
  \/ \E t \in Threads : Thread(t)
  \/ Sent \/ Requeue
  \/ \E w \in Workers : Worker(w) \/ Spurious(w) \/ ServeUnblocked(w)

(***************************************************************************)
(* Threads run; "exit" need not be typed, and nobody need ever read from   *)
(* the other end of a connection to let a blocked send go on.              *)
(***************************************************************************)
Fairness ==
  /\ WF_vars(Main)
  /\ \A t \in Threads : WF_vars(Thread(t))
  /\ \A w \in Workers : WF_vars(Worker(w))

FairSpec == Init /\ [][Next]_vars /\ Fairness

-----------------------------------------------------------------------------
(***************************************************************************)
(* No wake-up is lost: while a worker of the pool waits, each task in the  *)
(* queue has a worker that is awake and about to look for it, or enqueue,  *)
(* which pushes and notifies in two steps, has still to notify.            *)
(***************************************************************************)
NoLostWakeup ==
  (\E w \in Workers : wpc[w] = "waiting") =>
    tasks <= Cardinality({w \in Workers : wpc[w] = "check"})
               + IF at["loop"] = "pushed" THEN 1 ELSE 0

(***************************************************************************)
(* When the members are being destroyed no thread of the service but the   *)
(* workers is left, however far the start had come: no std::thread is      *)
(* destroyed joinable, and nobody calls enqueue on a stopped pool, which   *)
(* would throw in a thread that catches nothing.                           *)
(***************************************************************************)
AllJoined == Past("drain") => \A t \in Threads : Ended(t)

(***************************************************************************)
(* A worker uses the list of clients or a queue after its destruction, or  *)
(* a message is left in a queue behind clean_queues, only if a task was    *)
(* still queued or running when the receive loop was joined.               *)
(***************************************************************************)
CleanEnd == Past("drain") /\ ~late => broken = {} /\ queued = 0 /\ Holding = 0

(***************************************************************************)
(* The service always stops: no thread waits for another that waits for it *)
(* in turn, no worker sleeps through the stop of the pool, and a send that *)
(* waits for a reader is ended by closing the socket.                      *)
(***************************************************************************)
Terminates == main = "stop_queues" ~> main = "done"
=============================================================================
