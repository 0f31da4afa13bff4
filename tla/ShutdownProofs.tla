--------------------------- MODULE ShutdownProofs ---------------------------
(***************************************************************************)
(* Proofs about Shutdown: its types, that no wake-up of the pool is lost,  *)
(* that every thread is joined before the members are destroyed, and when  *)
(* the end is clean.  The arguments are four invariants, each inductive    *)
(* with those before it: TypeInv, WakeupInv, Joined and Clean.             *)
(***************************************************************************)
EXTENDS Shutdown, FiniteSetTheorems, TLAPS

(***************************************************************************)
(* The order of the main thread                                            *)
(***************************************************************************)

\* The steps of main are distinct, so each has the position it is listed at.
LEMMA PositionIs ==
  ASSUME NEW i \in 1..19
  PROVE  Position(MainSteps[i]) = i
<1>1. \A j \in 1..19 : MainSteps[j] = MainSteps[i] => j = i
  BY DEF MainSteps
<1>2. DOMAIN MainSteps = 1..19
  BY DEF MainSteps
<1> QED
  BY <1>1, <1>2 DEF Position

\* The steps after those whose threads are joined, the queues cleaned and the
\* members destroyed, as sets: what Past says of the state of main.
AtDone == {"done"}
FromStopPool == {"stop_pool", "notify_all", "join_workers"} \cup AtDone
FromDestroyQueue == {"destroy_queue"} \cup FromStopPool
FromDestroyClients == {"destroy_clients"} \cup FromDestroyQueue
FromDrain == {"drain"} \cup FromDestroyClients
FromJoinProcess == {"join_process"} \cup FromDrain
FromJoinLoop == {"join_loop"} \cup FromJoinProcess
FromStopClients == {"close_link", "stop_clients", "join_accept"} \cup FromJoinLoop
FromJoinRecv == {"join_link_recv"} \cup FromStopClients

\* Past, for the three steps the properties name.
LEMMA PastIs ==
  ASSUME main \in {MainSteps[i] : i \in DOMAIN MainSteps}
  PROVE  /\ Past("drain") <=> main \in FromDestroyClients
         /\ Past("destroy_clients") <=> main \in FromDestroyQueue
         /\ Past("destroy_queue") <=> main \in FromStopPool
<1>1. PICK i \in 1..19 : main = MainSteps[i]
  BY DEF MainSteps
<1>2. Position(main) = i
  BY <1>1, PositionIs
<1>3. Position("drain") = 13 /\ Position("destroy_clients") = 14 /\ Position("destroy_queue") = 15
  <2>1. MainSteps[13] = "drain" /\ MainSteps[14] = "destroy_clients" /\ MainSteps[15] = "destroy_queue"
    BY DEF MainSteps
  <2> QED BY <2>1, PositionIs
<1>4. /\ i > 13 <=> MainSteps[i] \in FromDestroyClients
      /\ i > 14 <=> MainSteps[i] \in FromDestroyQueue
      /\ i > 15 <=> MainSteps[i] \in FromStopPool
  BY DEF MainSteps, FromDestroyClients, FromDestroyQueue, FromStopPool, AtDone
<1> QED
  BY <1>1, <1>2, <1>3, <1>4 DEF Past

(***************************************************************************)
(* How many workers are where                                              *)
(***************************************************************************)

\* The workers a function puts into one of the places S.
Number(f, S) == Cardinality({w \in Workers : f[w] \in S})

Places == {"check", "waiting", "run", "blocked", "put", "exited"}

\* It is a number, the workers being finitely many.
LEMMA NumberType ==
  ASSUME NEW f, NEW S
  PROVE  IsFiniteSet({w \in Workers : f[w] \in S}) /\ Number(f, S) \in Nat
BY ShutdownAssumption, FS_Subset, FS_CardinalityType DEF Number

\* g is f but for worker w, who has gone to the place to.
Moved(f, g, w, to) == g = [f EXCEPT ![w] = to]

\* One worker moves: it no longer counts where it was, and counts where it is.
LEMMA NumberMoves ==
  ASSUME NEW f \in [Workers -> Places], NEW g, NEW w \in Workers, NEW to, NEW S,
         Moved(f, g, w, to)
  PROVE  Number(g, S) = Number(f, S) - (IF f[w] \in S THEN 1 ELSE 0) + (IF to \in S THEN 1 ELSE 0)
<1> DEFINE A == {v \in Workers : f[v] \in S}
           B == {v \in Workers : g[v] \in S}
<1>1. IsFiniteSet(A) /\ IsFiniteSet(B) /\ Cardinality(A) \in Nat /\ Cardinality(B) \in Nat
  BY NumberType DEF Number
<1>2. A \ {w} = B \ {w}
  BY DEF Moved
<1>3. w \in A <=> f[w] \in S
  OBVIOUS
<1>4. w \in B <=> to \in S
  BY DEF Moved
<1>5. Cardinality(A \ {w}) = IF w \in A THEN Cardinality(A) - 1 ELSE Cardinality(A)
  BY <1>1, FS_RemoveElement, Zenon
<1>6. Cardinality(B \ {w}) = IF w \in B THEN Cardinality(B) - 1 ELSE Cardinality(B)
  BY <1>1, FS_RemoveElement, Zenon
<1> HIDE DEF A, B
<1>7. Cardinality(B) = Cardinality(A) - (IF w \in A THEN 1 ELSE 0) + (IF w \in B THEN 1 ELSE 0)
  <2> DEFINE a == Cardinality(A)
             b == Cardinality(B)
             c == Cardinality(A \ {w})
  <2>1. a \in Nat /\ b \in Nat /\ c = (IF w \in A THEN a - 1 ELSE a) /\ c = (IF w \in B THEN b - 1 ELSE b)
    BY <1>1, <1>2, <1>5, <1>6
  <2> HIDE DEF a, b, c
  <2>2. b = a - (IF w \in A THEN 1 ELSE 0) + (IF w \in B THEN 1 ELSE 0)
    BY <2>1
  <2> QED BY <2>2 DEF a, b
<1>8. Cardinality(B) = Cardinality(A) - (IF f[w] \in S THEN 1 ELSE 0) + (IF to \in S THEN 1 ELSE 0)
  BY <1>3, <1>4, <1>7
<1> QED
  BY <1>8 DEF Number, A, B

\* The workers that look for a task.
Checking == Cardinality({w \in Workers : wpc[w] = "check"})

\* Busy and Checking as numbers of workers in a set of places.
LEMMA CountsAre ==
  /\ Busy = Number(wpc, {"run", "blocked", "put"})
  /\ Checking = Number(wpc, {"check"})
<1>1. {w \in Workers : wpc[w] = "check"} = {w \in Workers : wpc[w] \in {"check"}}
  OBVIOUS
<1> QED
  BY <1>1 DEF Busy, Checking, Number

\* They are numbers, now and after a step.
LEMMA CountsType ==
  /\ Busy \in Nat /\ Checking \in Nat
  /\ Busy' \in Nat /\ Checking' \in Nat
<1>1. {w \in Workers : wpc'[w] = "check"} = {w \in Workers : wpc'[w] \in {"check"}}
  OBVIOUS
<1> QED
  BY <1>1, CountsAre, NumberType DEF Busy, Checking, Number

\* The numbers after a step of worker w.
LEMMA StepCounts ==
  ASSUME TypeOK, NEW w \in Workers, NEW from, NEW to, Step(w, from, to)
  PROVE  /\ Busy' = Busy - (IF from \in {"run", "blocked", "put"} THEN 1 ELSE 0)
                         + (IF to \in {"run", "blocked", "put"} THEN 1 ELSE 0)
         /\ Checking' = Checking - (IF from = "check" THEN 1 ELSE 0)
                                 + (IF to = "check" THEN 1 ELSE 0)
<1>1. wpc[w] = from /\ wpc' = [wpc EXCEPT ![w] = to]
  BY DEF Step
<1>2. Busy' = Number(wpc', {"run", "blocked", "put"}) /\ Checking' = Number(wpc', {"check"})
  <2>1. {v \in Workers : wpc'[v] = "check"} = {v \in Workers : wpc'[v] \in {"check"}}
    OBVIOUS
  <2> QED BY <2>1 DEF Busy, Checking, Number
<1>3. wpc \in [Workers -> Places]
  BY DEF TypeOK, Places
<1>4. \A S : Number(wpc', S) = Number(wpc, S) - (IF from \in S THEN 1 ELSE 0) + (IF to \in S THEN 1 ELSE 0)
  <2>1. Moved(wpc, wpc', w, to)
    BY <1>1 DEF Moved
  <2>2. \A S : Number(wpc', S) = Number(wpc, S) - (IF wpc[w] \in S THEN 1 ELSE 0) + (IF to \in S THEN 1 ELSE 0)
    BY <1>3, <2>1, NumberMoves
  <2> QED BY <1>1, <2>2
<1>5. from \in {"check"} <=> from = "check"
  OBVIOUS
<1>6. to \in {"check"} <=> to = "check"
  OBVIOUS
<1>7. /\ Number(wpc', {"run", "blocked", "put"}) = Number(wpc, {"run", "blocked", "put"})
           - (IF from \in {"run", "blocked", "put"} THEN 1 ELSE 0)
           + (IF to \in {"run", "blocked", "put"} THEN 1 ELSE 0)
  BY <1>4, Zenon
<1>8. Number(wpc', {"check"}) = Number(wpc, {"check"})
           - (IF from = "check" THEN 1 ELSE 0) + (IF to = "check" THEN 1 ELSE 0)
  BY <1>4, <1>5, <1>6, Zenon
<1> QED
  BY <1>2, <1>7, <1>8, CountsAre, Zenon

\* No worker moves: the numbers stay.
LEMMA StillCounts ==
  ASSUME UNCHANGED wpc
  PROVE  Busy' = Busy /\ Checking' = Checking
BY DEF Busy, Checking
\* The stop of the pool wakes the workers that wait: none of them was busy.
LEMMA NotifyAllCounts ==
  ASSUME NotifyAll
  PROVE  Busy' = Busy /\ ~ \E w \in Workers : wpc'[w] = "waiting"
<1>1. wpc' = [w \in Workers |-> IF wpc[w] = "waiting" THEN "check" ELSE wpc[w]]
  BY DEF NotifyAll
<1>2. {w \in Workers : wpc'[w] \in {"run", "blocked", "put"}}
        = {w \in Workers : wpc[w] \in {"run", "blocked", "put"}}
  BY <1>1
<1> QED
  BY <1>1, <1>2 DEF Busy

\* The names of the steps of main.
MainNames == {"start_link", "start_clients", "wait", "stop_queues", "stop_link",
  "join_link_accept", "join_link_recv", "close_link", "stop_clients", "join_accept",
  "join_loop", "join_process", "drain", "destroy_clients", "destroy_queue",
  "stop_pool", "notify_all", "join_workers", "done"}

\* They are what the list of the steps holds.
LEMMA MainNamesAre == {MainSteps[i] : i \in DOMAIN MainSteps} = MainNames
<1>1. DOMAIN MainSteps = 1..19
  BY DEF MainSteps
<1>2. \A i \in 1..19 : MainSteps[i] \in MainNames
  BY DEF MainSteps, MainNames
<1>3. \A m \in MainNames : \E i \in 1..19 : MainSteps[i] = m
  BY DEF MainSteps, MainNames
<1> QED
  BY <1>1, <1>2, <1>3

-----------------------------------------------------------------------------
(***************************************************************************)
(* Types.  clients and tasks stay below their bound because a socket that  *)
(* is taken out of the list is still counted where it is served, and       *)
(* queued because the process thread's message is.                         *)
(***************************************************************************)
Bounds == Sockets <= MaxClients /\ queued + Holding <= MaxQueued
TypeInv == TypeOK /\ Bounds

\* The program starts with them.
LEMMA InitType == Init => TypeInv
<1> SUFFICES ASSUME Init
             PROVE  TypeInv
  OBVIOUS
<1>1. {w \in Workers : wpc[w] \in {"run", "blocked", "put"}} = {}
  BY DEF Init
<1>2. Busy = 0
  BY <1>1, FS_EmptySet DEF Busy
<1>3. TypeOK
  <2>1. main \in {MainSteps[i] : i \in DOMAIN MainSteps}
    BY MainNamesAre DEF Init, MainNames
  <2>2. at \in [Threads -> {"none", "top", "in", "took", "pushed", "held", "blocked", "done"}]
    BY DEF Init
  <2>3. wpc \in [Workers -> {"check", "waiting", "run", "blocked", "put", "exited"}]
    BY DEF Init
  <2>4. clients \in 0..MaxClients /\ queued \in 0..MaxQueued /\ tasks \in 0..MaxClients
    BY ShutdownAssumption DEF Init
  <2>5. host \in BOOLEAN /\ linkOpen \in BOOLEAN /\ poolStop \in BOOLEAN /\ late \in BOOLEAN
    BY DEF Init
  <2>6. stop \subseteq {"queues", "link", "clients"} /\ broken \subseteq {"clients", "queue"}
    BY DEF Init
  <2> QED BY <2>1, <2>2, <2>3, <2>4, <2>5, <2>6, Zenon DEF TypeOK
<1>4. Bounds
  BY ShutdownAssumption, <1>2 DEF Init, Bounds, Sockets, Holding, Threads
<1> QED
  BY <1>3, <1>4 DEF TypeInv

\* A step of a worker, or the stop of the pool for all of them.
LEMMA WorkerType ==
  ASSUME TypeInv, NEW w \in Workers, Worker(w) \/ Spurious(w) \/ ServeUnblocked(w)
  PROVE  TypeInv'
<1> USE ShutdownAssumption, CountsType DEF TypeInv, TypeOK, Bounds, Sockets, Holding, dataVars, historyVars, poolVars
<1>1. CASE Take(w)
  <2>1. Busy' = Busy + 1
    BY <1>1, StepCounts DEF Take
  <2> QED BY <1>1, <2>1 DEF Take, Step
<1>2. CASE Quit(w)
  <2>1. Busy' = Busy
    BY <1>2, StepCounts DEF Quit
  <2> QED BY <1>2, <2>1 DEF Quit, Step
<1>3. CASE Wait(w)
  <2>1. Busy' = Busy
    BY <1>3, StepCounts DEF Wait
  <2> QED BY <1>3, <2>1 DEF Wait, Step
<1>4. CASE Spurious(w)
  <2>1. Busy' = Busy
    BY <1>4, StepCounts DEF Spurious
  <2> QED BY <1>4, <2>1 DEF Spurious, Step
<1>5. CASE Serve(w)
  <2>1. Busy' = Busy
    BY <1>5, StepCounts DEF Serve
  <2>2. queued' \in 0..MaxQueued /\ queued' + Holding <= MaxQueued
    BY <1>5 DEF Serve, Insert
  <2>3. broken' \subseteq {"clients", "queue"}
    BY <1>5 DEF Serve, Insert, Uses
  <2> QED BY <1>5, <2>1, <2>2, <2>3 DEF Serve, Step
<1>6. CASE ServeBlocked(w)
  <2>1. Busy' = Busy
    BY <1>6, StepCounts DEF ServeBlocked
  <2> QED BY <1>6, <2>1 DEF ServeBlocked, Step
<1>7. CASE ServeUnblocked(w)
  <2>1. Busy' = Busy
    BY <1>7, StepCounts DEF ServeUnblocked
  <2> QED BY <1>7, <2>1 DEF ServeUnblocked, Step
<1>8. CASE PutBack(w)
  <2>1. Busy' = Busy - 1
    BY <1>8, StepCounts DEF PutBack
  <2>2. broken' \subseteq {"clients", "queue"}
    BY <1>8 DEF PutBack, Uses
  <2>3. clients' \in 0..MaxClients /\ Sockets' <= MaxClients
    BY <1>8, <2>1 DEF PutBack
  <2> QED BY <1>8, <2>1, <2>2, <2>3 DEF PutBack, Step
<1> QED
  BY <1>1, <1>2, <1>3, <1>4, <1>5, <1>6, <1>7, <1>8 DEF Worker

\* A step of another thread.
LEMMA ThreadType ==
  ASSUME TypeInv, NEW t \in Threads, Thread(t) \/ Sent \/ Requeue
  PROVE  TypeInv'
<1> USE ShutdownAssumption, CountsType, StillCounts DEF TypeInv, TypeOK, Bounds, Sockets, Holding,
        Threads, Move, dataVars, historyVars, poolVars
<1>1. CASE Test(t)
  BY <1>1 DEF Test
<1>2. CASE Idle(t)
  BY <1>2 DEF Idle
<1>3. CASE ReceiveLink
  <2>1. queued' \in 0..MaxQueued /\ queued' + Holding <= MaxQueued
    BY <1>3 DEF ReceiveLink, Insert
  <2>2. broken' \subseteq {"clients", "queue"}
    BY <1>3 DEF ReceiveLink, Insert, Uses
  <2>3. linkOpen' \in BOOLEAN
    BY <1>3 DEF ReceiveLink
  <2> QED BY <1>3, <2>1, <2>2, <2>3 DEF ReceiveLink
<1>4. CASE AcceptClient
  BY <1>4 DEF AcceptClient
<1>5. CASE TakeClient
  BY <1>5 DEF TakeClient
<1>6. CASE ReturnClient
  BY <1>6 DEF ReturnClient
<1>7. CASE Push
  BY <1>7 DEF Push
<1>8. CASE Notify
  <2>1. wpc' \in [Workers -> {"check", "waiting", "run", "blocked", "put", "exited"}] /\ Busy' = Busy
    <3>1. CASE UNCHANGED wpc
      BY <3>1
    <3>2. CASE \E w \in Workers : Step(w, "waiting", "check")
      <4>1. PICK w \in Workers : Step(w, "waiting", "check")
        BY <3>2
      <4>2. Busy' = Busy
        BY <4>1, StepCounts
      <4> QED BY <4>1, <4>2 DEF Step
    <3> QED BY <1>8, <3>1, <3>2 DEF Notify, NotifyOne
  <2> QED BY <1>8, <2>1 DEF Notify
<1>9. CASE TakeMessage
  BY <1>9 DEF TakeMessage
<1>10. CASE SendBlocked
  BY <1>10 DEF SendBlocked
<1>11. CASE Sent
  BY <1>11 DEF Sent
<1>12. CASE Requeue
  <2>1. broken' \subseteq {"clients", "queue"}
    BY <1>12 DEF Requeue, Uses
  <2> QED BY <1>12, <2>1 DEF Requeue
<1> QED
  BY <1>1, <1>2, <1>3, <1>4, <1>5, <1>6, <1>7, <1>8, <1>9, <1>10, <1>11, <1>12 DEF Thread

\* A step of the main thread.
LEMMA MainType ==
  ASSUME TypeInv, Main \/ Exit
  PROVE  TypeInv'
<1> USE ShutdownAssumption, CountsType, StillCounts, MainNamesAre DEF TypeInv, TypeOK, MainNames,
        Bounds, Sockets, Holding, Threads, Goto, dataVars, historyVars, poolVars
<1>1. CASE StartLink
  <2>1. at' \in [Threads -> {"none", "top", "in", "took", "pushed", "held", "blocked", "done"}]
    BY <1>1 DEF StartLink, Create
  <2>2. at'["loop"] = at["loop"] /\ at'["process"] = at["process"]
    BY <1>1 DEF StartLink, Create
  <2>3. linkOpen' \in BOOLEAN
    BY <1>1 DEF StartLink
  <2> QED BY <1>1, <2>1, <2>2, <2>3 DEF StartLink
<1>2. CASE StartClients
  <2>1. at' \in [Threads -> {"none", "top", "in", "took", "pushed", "held", "blocked", "done"}]
    BY <1>2 DEF StartClients, Create
  <2>2. at'["loop"] = "top" /\ at'["process"] = at["process"]
    BY <1>2 DEF StartClients, Create
  <2> QED BY <1>2, <2>1, <2>2 DEF StartClients
<1>3. CASE Exit
  BY <1>3 DEF Exit
<1>4. CASE \/ Signal("stop_queues", "queues", "stop_link")
           \/ Signal("stop_link", "link", "join_link_accept")
           \/ Signal("stop_clients", "clients", "join_accept")
  BY <1>4 DEF Signal
<1>5. CASE \/ Join("join_link_accept", "link_accept", "join_link_recv")
           \/ Join("join_link_recv", "link_recv", "close_link")
           \/ Join("join_accept", "accept", "join_loop")
           \/ JoinProcess
  BY <1>5 DEF Join, JoinProcess
<1>6. CASE CloseLink
  BY <1>6 DEF CloseLink
<1>7. CASE JoinLoop
  BY <1>7 DEF JoinLoop
<1>8. CASE Drain
  BY <1>8 DEF Drain
<1>9. CASE \/ Destroy("destroy_clients", "destroy_queue")
           \/ Destroy("destroy_queue", "stop_pool")
  BY <1>9 DEF Destroy
<1>10. CASE StopPool
  BY <1>10 DEF StopPool
<1>11. CASE NotifyAll
  BY <1>11, NotifyAllCounts DEF NotifyAll
<1>12. CASE JoinWorkers
  BY <1>12 DEF JoinWorkers
<1> QED
  BY <1>1, <1>2, <1>3, <1>4, <1>5, <1>6, <1>7, <1>8, <1>9, <1>10, <1>11, <1>12 DEF Main

\* Every step keeps the types.
LEMMA NextType == TypeInv /\ [Next]_vars => TypeInv'
<1> SUFFICES ASSUME TypeInv, [Next]_vars
             PROVE  TypeInv'
  OBVIOUS
<1>1. CASE UNCHANGED vars
  BY <1>1, StillCounts DEF vars, dataVars, poolVars, historyVars, TypeInv, TypeOK, Bounds, Sockets, Holding
<1>2. CASE Main \/ Exit
  BY <1>2, MainType
<1>3. CASE \E t \in Threads : Thread(t)
  BY <1>3, ThreadType
<1>4. CASE Sent \/ Requeue
  BY <1>4, ThreadType DEF Threads
<1>5. CASE \E w \in Workers : Worker(w) \/ Spurious(w) \/ ServeUnblocked(w)
  BY <1>5, WorkerType
<1> QED
  BY <1>1, <1>2, <1>3, <1>4, <1>5 DEF Next

(***************************************************************************)
(* Every variable of the shutdown keeps its type; in particular the list   *)
(* of clients, the tasks and the queue stay below their bounds although    *)
(* sockets and messages leave them and come back.                          *)
(***************************************************************************)
THEOREM ShutdownTypeCorrect == FairSpec => []TypeOK
<1>1. FairSpec => []TypeInv
  BY InitType, NextType, PTL DEF FairSpec
<1>2. TypeInv => TypeOK
  BY DEF TypeInv
<1> QED
  BY <1>1, <1>2, PTL

-----------------------------------------------------------------------------
(***************************************************************************)
(* No wake-up is lost.  Only a step that pushes a task or that makes a     *)
(* worker stop looking can break it, and each of these keeps the balance:  *)
(* a task is pushed by a thread that will notify, a worker that takes a    *)
(* task removes it, and one begins to wait when there is none.             *)
(***************************************************************************)
Pushed == IF at["loop"] = "pushed" THEN 1 ELSE 0
SomeWaiting == \E w \in Workers : wpc[w] = "waiting"

\* The property in the terms of the proof, now ...
LEMMA NoLostWakeupIs == NoLostWakeup <=> (SomeWaiting => tasks <= Checking + Pushed)
BY DEF NoLostWakeup, Pushed, SomeWaiting, Checking

\* ... and after a step.
LEMMA NoLostWakeupNextIs ==
  NoLostWakeup' <=> (SomeWaiting' => tasks' <= Checking' + Pushed')
BY DEF NoLostWakeup, Pushed, SomeWaiting, Checking

\* At first all workers look for a task.
LEMMA InitWakeup == Init => NoLostWakeup
BY DEF Init, NoLostWakeup

\* What a worker does, a wake-up for no reason included.
LEMMA WorkerWakeup ==
  ASSUME TypeInv, NoLostWakeup, NEW w \in Workers, Worker(w) \/ Spurious(w) \/ ServeUnblocked(w)
  PROVE  NoLostWakeup'
<1> SUFFICES ASSUME SomeWaiting'
             PROVE  tasks' <= Checking' + Pushed'
  BY NoLostWakeupNextIs
<1>1. tasks \in Nat /\ TypeOK /\ wpc \in [Workers -> Places]
  BY ShutdownAssumption DEF TypeInv, TypeOK, Places
<1> USE CountsType, NoLostWakeupIs DEF Pushed
<1>2. CASE Take(w)
  <2>1. Checking' = Checking - 1
    BY <1>1, <1>2, StepCounts DEF Take
  <2>2. SomeWaiting
    BY <1>1, <1>2 DEF Take, Step, SomeWaiting
  <2> QED BY <1>1, <1>2, <2>1, <2>2 DEF Take
<1>3. CASE Quit(w) \/ Wait(w)
  BY <1>3 DEF Quit, Wait
<1>4. CASE Spurious(w)
  <2>1. Checking' = Checking + 1
    BY <1>1, <1>4, StepCounts DEF Spurious
  <2>2. SomeWaiting
    BY <1>1, <1>4 DEF Spurious, Step, SomeWaiting
  <2> QED BY <1>1, <1>4, <2>1, <2>2 DEF Spurious
<1>5. CASE Serve(w) \/ ServeBlocked(w) \/ ServeUnblocked(w)
  <2>1. Checking' = Checking
    BY <1>1, <1>5, StepCounts DEF Serve, ServeBlocked, ServeUnblocked
  <2>2. SomeWaiting
    BY <1>1, <1>5 DEF Serve, ServeBlocked, ServeUnblocked, Step, SomeWaiting
  <2> QED BY <1>1, <1>5, <2>1, <2>2 DEF Serve, ServeBlocked, ServeUnblocked
<1>6. CASE PutBack(w)
  <2>1. Checking' = Checking + 1
    BY <1>1, <1>6, StepCounts DEF PutBack
  <2>2. SomeWaiting
    BY <1>1, <1>6 DEF PutBack, Step, SomeWaiting
  <2> QED BY <1>1, <1>6, <2>1, <2>2 DEF PutBack
<1> QED
  BY <1>2, <1>3, <1>4, <1>5, <1>6 DEF Worker

\* What another thread does: Push leaves one to notify, Notify wakes one.
LEMMA ThreadWakeup ==
  ASSUME TypeInv, NoLostWakeup, NEW t \in Threads, Thread(t) \/ Sent \/ Requeue
  PROVE  NoLostWakeup'
<1> SUFFICES ASSUME SomeWaiting'
             PROVE  tasks' <= Checking' + Pushed'
  BY NoLostWakeupNextIs
<1>1. tasks \in Nat /\ TypeOK /\ wpc \in [Workers -> Places]
  BY ShutdownAssumption DEF TypeInv, TypeOK, Places
<1>2. at \in [Threads -> {"none", "top", "in", "took", "pushed", "held", "blocked", "done"}]
  BY DEF TypeInv, TypeOK
<1> USE CountsType, NoLostWakeupIs DEF Pushed
<1>3. CASE Push
  <2>1. Checking' = Checking /\ SomeWaiting
    BY <1>3, StillCounts DEF Push, SomeWaiting
  <2>2. Pushed = 0 /\ Pushed' = 1 /\ tasks' = tasks + 1
    BY <1>2, <1>3 DEF Push, Move, Threads
  <2> QED BY <1>1, <2>1, <2>2
<1>4. CASE Notify
  <2>1. PICK w \in Workers : Step(w, "waiting", "check")
    BY <1>4 DEF Notify, NotifyOne, SomeWaiting
  <2>2. Checking' = Checking + 1
    BY <1>1, <2>1, StepCounts
  <2>3. SomeWaiting
    BY <2>1 DEF Step, SomeWaiting
  <2>4. Pushed = 1 /\ tasks' = tasks
    BY <1>4 DEF Notify, Move
  <2> QED BY <1>1, <2>2, <2>3, <2>4
<1>5. CASE wpc' = wpc /\ tasks' = tasks /\ (at["loop"] = "pushed" => at'["loop"] = "pushed")
  <2>1. Checking' = Checking /\ SomeWaiting
    BY <1>5, StillCounts DEF SomeWaiting
  <2> QED BY <1>1, <1>5, <2>1
<1>6. \A s \in Threads : \A from, to :
        Move(s, from, to) /\ from # "pushed" /\ at["loop"] = "pushed" => at'["loop"] = "pushed"
  BY <1>2 DEF Move, Threads
<1>7. CASE Test(t) \/ Idle(t)
  <2>1. wpc' = wpc /\ tasks' = tasks
    BY <1>7 DEF Test, Idle, poolVars
  <2>2. at["loop"] = "pushed" => at'["loop"] = "pushed"
    BY <1>6, <1>7 DEF Test, Idle
  <2> QED BY <1>5, <2>1, <2>2
<1>8. CASE ReceiveLink \/ AcceptClient \/ TakeClient \/ ReturnClient
  <2>1. wpc' = wpc /\ tasks' = tasks
    BY <1>8 DEF ReceiveLink, AcceptClient, TakeClient, ReturnClient, poolVars
  <2>2. at["loop"] = "pushed" => at'["loop"] = "pushed"
    BY <1>6, <1>8 DEF ReceiveLink, AcceptClient, TakeClient, ReturnClient, Threads
  <2> QED BY <1>5, <2>1, <2>2
<1>9. CASE TakeMessage \/ SendBlocked \/ Sent \/ Requeue
  <2>1. wpc' = wpc /\ tasks' = tasks
    BY <1>9 DEF TakeMessage, SendBlocked, Sent, Requeue, poolVars
  <2>2. at["loop"] = "pushed" => at'["loop"] = "pushed"
    BY <1>6, <1>9 DEF TakeMessage, SendBlocked, Sent, Requeue, Threads
  <2> QED BY <1>5, <2>1, <2>2
<1> QED
  BY <1>3, <1>4, <1>7, <1>8, <1>9 DEF Thread

(***************************************************************************)
(* The receive loop is created by StartClients, so before it nobody is     *)
(* between a push and its notification.                                    *)
(***************************************************************************)
NotStarted == main \in {"start_link", "start_clients"} => at["loop"] = "none"
WakeupInv == NotStarted /\ NoLostWakeup

\* What main does: NotifyAll leaves nobody waiting.
LEMMA MainWakeup ==
  ASSUME TypeInv, WakeupInv, Main \/ Exit
  PROVE  NoLostWakeup'
<1> SUFFICES ASSUME SomeWaiting'
             PROVE  tasks' <= Checking' + Pushed'
  BY NoLostWakeupNextIs
<1>1. tasks \in Nat /\ at \in [Threads -> {"none", "top", "in", "took", "pushed", "held", "blocked", "done"}]
  BY ShutdownAssumption DEF TypeInv, TypeOK
<1> USE CountsType, NoLostWakeupIs DEF Pushed, WakeupInv
<1>2. CASE NotifyAll
  BY <1>2, NotifyAllCounts DEF SomeWaiting
<1>3. CASE wpc' = wpc /\ tasks' = tasks /\ (at["loop"] = "pushed" => at'["loop"] = "pushed")
  <2>1. Checking' = Checking /\ SomeWaiting
    BY <1>3, StillCounts DEF SomeWaiting
  <2> QED BY <1>1, <1>3, <2>1
<1>4. CASE StartLink \/ StartClients
  <2>1. wpc' = wpc /\ tasks' = tasks
    BY <1>4 DEF StartLink, StartClients, poolVars
  <2>2. at["loop"] # "pushed"
    BY <1>4 DEF StartLink, StartClients, NotStarted
  <2> QED BY <1>3, <2>1, <2>2
<1>5. (wpc' = wpc /\ tasks' = tasks /\ at' = at) \/ NotifyAll \/ StartLink \/ StartClients
  BY DEF Main, Exit, Signal, Join, CloseLink, JoinLoop, JoinProcess, Drain, Destroy, StopPool,
         JoinWorkers, poolVars
<1> QED
  BY <1>2, <1>3, <1>4, <1>5

\* Both parts hold at first ...
LEMMA InitWakeupInv == Init => WakeupInv
BY InitWakeup DEF Init, WakeupInv, NotStarted, Threads

\* ... and are kept by every step.
LEMMA NextWakeupInv == TypeInv /\ WakeupInv /\ [Next]_vars => WakeupInv'
<1> SUFFICES ASSUME TypeInv, WakeupInv, [Next]_vars
             PROVE  WakeupInv'
  OBVIOUS
<1>1. CASE UNCHANGED vars
  BY <1>1, StillCounts DEF vars, poolVars, WakeupInv, NotStarted, NoLostWakeup
<1>2. CASE Main \/ Exit
  <2>1. NotStarted'
    BY <1>2 DEF WakeupInv, NotStarted, Main, Exit, StartLink, StartClients, Create, Goto, Signal, Join, CloseLink,
       JoinLoop, JoinProcess, Drain, Destroy, StopPool, NotifyAll, JoinWorkers, TypeInv, TypeOK, Threads
  <2> QED BY <1>2, <2>1, MainWakeup DEF WakeupInv
<1>3. ASSUME NEW t \in Threads, Thread(t) \/ Sent \/ Requeue
      PROVE  WakeupInv'
  <2>1. main' = main /\ (at["loop"] = "none" => at'["loop"] = "none")
    <3>1. \A s \in Threads : \A from, to :
            Move(s, from, to) /\ from # "none" /\ at["loop"] = "none" => at'["loop"] = "none"
      BY DEF Move, Threads, TypeInv, TypeOK
    <3>2. at["loop"] = "none" => at'["loop"] = "none"
      BY <1>3, <3>1 DEF Thread, Test, Idle, ReceiveLink, AcceptClient, TakeClient, ReturnClient, Push, Notify,
                        TakeMessage, SendBlocked, Sent, Requeue, Threads
    <3>3. main' = main
      BY <1>3 DEF Thread, Test, Idle, ReceiveLink, AcceptClient, TakeClient, ReturnClient, Push, Notify,
                  TakeMessage, SendBlocked, Sent, Requeue
    <3> QED BY <3>2, <3>3
  <2> QED BY <1>3, <2>1, ThreadWakeup DEF WakeupInv, NotStarted
<1>4. ASSUME NEW w \in Workers, Worker(w) \/ Spurious(w) \/ ServeUnblocked(w)
      PROVE  WakeupInv'
  <2>1. main' = main /\ at' = at
    BY <1>4 DEF Worker, Take, Quit, Wait, Spurious, Serve, ServeBlocked, ServeUnblocked, PutBack
  <2> QED BY <1>4, <2>1, WorkerWakeup DEF WakeupInv, NotStarted
<1> QED
  BY <1>1, <1>2, <1>3, <1>4 DEF Next, Threads

(***************************************************************************)
(* No wake-up of the thread pool is lost, for any number of workers and of *)
(* clients, and however often a worker wakes up for no reason.             *)
(***************************************************************************)
THEOREM ShutdownNoLostWakeup == FairSpec => []NoLostWakeup
<1>1. FairSpec => [](TypeInv /\ WakeupInv)
  BY InitType, NextType, InitWakeupInv, NextWakeupInv, PTL DEF FairSpec
<1>2. WakeupInv => NoLostWakeup
  BY DEF WakeupInv
<1> QED
  BY <1>1, <1>2, PTL

-----------------------------------------------------------------------------
(***************************************************************************)
(* A joined thread has ended for good: it has no action left, and main     *)
(* creates no thread after it has begun to stop the service.               *)
(***************************************************************************)
Joined ==
  /\ main \in FromJoinRecv => Ended("link_accept")
  /\ main \in FromStopClients => Ended("link_recv")
  /\ main \in FromJoinLoop => Ended("accept")
  /\ main \in FromJoinProcess => Ended("loop")
  /\ main \in FromDrain => Ended("process")

\* What the threads do leaves main and the threads that have ended alone.
LEMMA EndedStay ==
  ASSUME TypeOK, NEW t \in Threads, Thread(t) \/ Sent \/ Requeue
  PROVE  main' = main /\ \A s \in Threads : Ended(s) => Ended(s)'
<1>1. \A s, r \in Threads : \A from, to :
        Move(r, from, to) /\ from \notin {"none", "done"} /\ Ended(s) => Ended(s)'
  BY DEF Move, Ended, TypeOK
<1>2. \A s \in Threads : Ended(s) => Ended(s)'
  BY <1>1 DEF Thread, Test, Idle, ReceiveLink, AcceptClient, TakeClient, ReturnClient, Push, Notify,
              TakeMessage, SendBlocked, Sent, Requeue, Threads
<1>3. main' = main
  BY DEF Thread, Test, Idle, ReceiveLink, AcceptClient, TakeClient, ReturnClient, Push, Notify,
         TakeMessage, SendBlocked, Sent, Requeue
<1> QED
  BY <1>2, <1>3

\* main passes a join only when the thread has ended.
LEMMA MainJoined ==
  ASSUME TypeOK, Joined, Main \/ Exit
  PROVE  Joined'
<1> USE DEF Joined, Goto, FromJoinRecv, FromStopClients, FromJoinLoop, FromJoinProcess,
            FromDrain, FromDestroyClients, FromDestroyQueue, FromStopPool, AtDone
<1>1. CASE StartLink \/ StartClients
  BY <1>1 DEF StartLink, StartClients
<1>2. CASE at' = at
  <2>1. Exit => Joined'
    BY <1>2 DEF Exit, Ended
  <2>2. Signal("stop_queues", "queues", "stop_link") \/ Signal("stop_link", "link", "join_link_accept")
          \/ Signal("stop_clients", "clients", "join_accept") => Joined'
    BY <1>2 DEF Signal, Ended
  <2>3. Join("join_link_accept", "link_accept", "join_link_recv")
          \/ Join("join_link_recv", "link_recv", "close_link")
          \/ Join("join_accept", "accept", "join_loop")
          \/ JoinLoop \/ JoinProcess => Joined'
    BY <1>2 DEF Join, JoinLoop, JoinProcess, Ended
  <2>4. CloseLink \/ Drain \/ Destroy("destroy_clients", "destroy_queue")
          \/ Destroy("destroy_queue", "stop_pool") \/ StopPool \/ NotifyAll \/ JoinWorkers => Joined'
    BY <1>2 DEF CloseLink, Drain, Destroy, StopPool, NotifyAll, JoinWorkers, Ended
  <2> QED BY <1>1, <2>1, <2>2, <2>3, <2>4 DEF Main
<1>3. at' = at \/ StartLink \/ StartClients
  BY DEF Main, Exit, Signal, Join, CloseLink, JoinLoop, JoinProcess, Drain, Destroy, StopPool,
         NotifyAll, JoinWorkers
<1> QED
  BY <1>1, <1>2, <1>3

\* Every step keeps what is joined.
LEMMA NextJoined == TypeOK /\ Joined /\ [Next]_vars => Joined'
<1> SUFFICES ASSUME TypeOK, Joined, [Next]_vars
             PROVE  Joined'
  OBVIOUS
<1>1. CASE UNCHANGED vars
  BY <1>1 DEF vars, Joined, Ended
<1>2. CASE Main \/ Exit
  BY <1>2, MainJoined
<1>3. ASSUME NEW t \in Threads, Thread(t) \/ Sent \/ Requeue
      PROVE  Joined'
  BY <1>3, EndedStay DEF Joined, Threads
<1>4. ASSUME NEW w \in Workers, Worker(w) \/ Spurious(w) \/ ServeUnblocked(w)
      PROVE  Joined'
  <2>1. main' = main /\ at' = at
    BY <1>4 DEF Worker, Take, Quit, Wait, Spurious, Serve, ServeBlocked, ServeUnblocked, PutBack
  <2> QED BY <2>1 DEF Joined, Ended
<1> QED
  BY <1>1, <1>2, <1>3, <1>4 DEF Next, Threads

\* At first nothing is claimed to be joined.
LEMMA InitJoined == Init => Joined
BY DEF Init, Joined, FromJoinRecv, FromStopClients, FromJoinLoop, FromJoinProcess,
       FromDrain, FromDestroyClients, FromDestroyQueue, FromStopPool, AtDone

\* Behind the last join it is the property.
LEMMA JoinedAll == TypeOK /\ Joined => AllJoined
<1> SUFFICES ASSUME TypeOK, Joined, main \in FromDestroyClients, NEW t \in Threads
             PROVE  Ended(t)
  BY PastIs DEF AllJoined, TypeOK
<1> QED
  BY DEF Joined, Threads, FromJoinRecv, FromStopClients, FromJoinLoop, FromJoinProcess, FromDrain

(***************************************************************************)
(* However far the start had come, no thread of the service runs when its  *)
(* members are destroyed: every std::thread has been joined, or was never  *)
(* started, and nobody is left to call enqueue on a stopped pool.          *)
(***************************************************************************)
THEOREM ShutdownAllJoined == FairSpec => []AllJoined
<1>1. FairSpec => [](TypeOK /\ Joined)
  <2>1. Init /\ []TypeOK /\ [][Next]_vars => []Joined
    BY InitJoined, NextJoined, PTL
  <2> QED BY <2>1, ShutdownTypeCorrect, PTL DEF FairSpec
<1> QED
  BY <1>1, JoinedAll, PTL

-----------------------------------------------------------------------------
(***************************************************************************)
(* The end is clean unless JoinLoop has found work of the pool: from then  *)
(* on nobody pushes a task, so a pool without tasks and without a busy     *)
(* worker stays so, and nothing is inserted behind clean_queues.           *)
(***************************************************************************)
Clean ==
  /\ main \notin FromDestroyQueue \/ ~late => broken = {}
  /\ main \in FromJoinProcess /\ ~late => tasks = 0 /\ Busy = 0
  /\ main \in FromDestroyClients /\ ~late => queued = 0

\* A worker that serves is counted.
LEMMA BusyCounts ==
  ASSUME NEW w \in Workers, wpc[w] \in {"run", "blocked", "put"}
  PROVE  Busy # 0
<1> DEFINE B == {v \in Workers : wpc[v] \in {"run", "blocked", "put"}}
<1>1. w \in B
  OBVIOUS
<1>2. IsFiniteSet(B)
  BY NumberType
<1> HIDE DEF B
<1>3. Cardinality(B) # 0
  BY <1>1, <1>2, FS_EmptySet
<1> QED
  BY <1>3 DEF Busy, B

\* Before its destruction nothing that uses a member breaks it.
LEMMA UsesBefore ==
  ASSUME TypeOK, main \notin FromDestroyQueue, Uses("clients") \/ Uses("queue")
  PROVE  broken' = broken
BY PastIs DEF TypeOK, Uses, Destroyed, FromDestroyQueue

\* What a worker does: a pool without work only goes to sleep or ends.
LEMMA WorkerClean ==
  ASSUME TypeOK, Clean, NEW w \in Workers, Worker(w) \/ Spurious(w) \/ ServeUnblocked(w)
  PROVE  Clean'
<1>1. main' = main /\ late' = late
  BY DEF Worker, Take, Quit, Wait, Spurious, Serve, ServeBlocked, ServeUnblocked, PutBack, historyVars
<1>2. CASE main \notin FromDestroyQueue /\ (main \notin FromJoinProcess \/ late)
  <2>1. broken' = broken
    BY <1>2, UsesBefore DEF Worker, Take, Quit, Wait, Spurious, Serve, ServeBlocked, ServeUnblocked, PutBack,
                            Insert, historyVars
  <2> QED BY <1>1, <1>2, <2>1 DEF Clean, FromDestroyClients, FromDrain, FromJoinProcess
<1>3. CASE late /\ main \in FromDestroyQueue
  BY <1>1, <1>3 DEF Clean
<1>4. CASE main \in FromJoinProcess /\ ~late
  <2>1. tasks = 0 /\ Busy = 0
    BY <1>4 DEF Clean
  <2>2. wpc[w] \notin {"run", "blocked", "put"}
    BY <2>1, BusyCounts
  <2>3. Quit(w) \/ Wait(w) \/ Spurious(w)
    BY <2>1, <2>2 DEF Worker, Take, Serve, ServeBlocked, ServeUnblocked, PutBack, Step
  <2>4. Busy' = Busy
    BY <2>3, StepCounts, CountsType DEF Quit, Wait, Spurious
  <2> QED BY <1>1, <2>3, <2>4 DEF Clean, Quit, Wait, Spurious, dataVars, historyVars
<1>5. main \in FromDestroyQueue => main \in FromJoinProcess
  BY DEF FromJoinProcess, FromDrain, FromDestroyClients
<1> QED
  BY <1>2, <1>3, <1>4, <1>5

\* What another thread does, none of which is left when it would matter.
LEMMA ThreadClean ==
  ASSUME TypeOK, Joined, Clean, NEW t \in Threads, Thread(t) \/ Sent \/ Requeue
  PROVE  Clean'
<1>1. main' = main /\ late' = late
  BY DEF Thread, Test, Idle, ReceiveLink, AcceptClient, TakeClient, ReturnClient, Push, Notify,
         TakeMessage, SendBlocked, Sent, Requeue, historyVars
<1> USE DEF Clean, FromStopClients, FromJoinLoop, FromJoinProcess, FromDrain, FromDestroyClients
<1>2. CASE ReceiveLink
  <2>1. main \notin FromStopClients
    BY <1>2 DEF ReceiveLink, Move, Joined, Ended
  <2>2. broken' = broken
    BY <1>2, <2>1, UsesBefore DEF ReceiveLink, Insert
  <2> QED BY <1>1, <2>1, <2>2
<1>3. CASE Push
  <2>1. main \notin FromJoinProcess /\ broken' = broken
    BY <1>3 DEF Push, Move, Joined, Ended, historyVars
  <2> QED BY <1>1, <2>1
<1>4. CASE Notify
  <2>1. main \notin FromJoinProcess /\ broken' = broken
    BY <1>4 DEF Notify, Move, Joined, Ended, historyVars
  <2> QED BY <1>1, <2>1
<1>5. CASE Requeue \/ TakeMessage
  <2>1. main \notin FromDrain
    BY <1>5 DEF Requeue, TakeMessage, Move, Joined, Ended
  <2>2. broken' = broken /\ wpc' = wpc /\ tasks' = tasks
    BY <1>5, <2>1, UsesBefore DEF Requeue, TakeMessage, historyVars, poolVars
  <2> QED BY <1>1, <2>1, <2>2, StillCounts
<1>6. CASE Test(t) \/ Idle(t) \/ AcceptClient \/ TakeClient \/ ReturnClient \/ SendBlocked \/ Sent
  <2>1. broken' = broken /\ wpc' = wpc /\ tasks' = tasks /\ queued' = queued
    BY <1>6 DEF Test, Idle, AcceptClient, TakeClient, ReturnClient, SendBlocked, Sent, historyVars, poolVars, dataVars
  <2> QED BY <1>1, <2>1, StillCounts
<1> QED
  BY <1>2, <1>3, <1>4, <1>5, <1>6 DEF Thread

\* What main does: JoinLoop records what is left, Drain empties the queue.
LEMMA MainClean ==
  ASSUME TypeOK, Clean, Main \/ Exit
  PROVE  Clean'
<1> USE DEF Clean, Goto, FromJoinProcess, FromDrain, FromDestroyClients, FromDestroyQueue, FromStopPool, AtDone
<1>1. CASE JoinLoop
  <2>1. Busy' = Busy /\ tasks' = tasks
    BY <1>1, StillCounts DEF JoinLoop, poolVars
  <2>2. tasks > 0 \/ Busy > 0 \/ (tasks = 0 /\ Busy = 0)
    BY CountsType DEF TypeOK
  <2>3. ~late' => tasks' = 0 /\ Busy' = 0
    BY <1>1, <2>1, <2>2 DEF JoinLoop
  <2> QED BY <1>1, <2>3 DEF JoinLoop
<1>2. CASE Drain
  <2>1. Busy' = Busy
    BY <1>2, StillCounts DEF Drain, poolVars
  <2> QED BY <1>2, <2>1 DEF Drain, poolVars, historyVars
<1>3. CASE NotifyAll
  BY <1>3, NotifyAllCounts DEF NotifyAll, dataVars, historyVars
<1>4. CASE broken' = broken /\ main \notin FromJoinProcess /\ main' \notin FromJoinProcess
  BY <1>4
<1>5. StartLink \/ StartClients \/ Exit \/ CloseLink
        \/ Signal("stop_queues", "queues", "stop_link") \/ Signal("stop_link", "link", "join_link_accept")
        \/ Signal("stop_clients", "clients", "join_accept")
        \/ Join("join_link_accept", "link_accept", "join_link_recv")
        \/ Join("join_link_recv", "link_recv", "close_link") \/ Join("join_accept", "accept", "join_loop")
      => broken' = broken /\ main \notin FromJoinProcess /\ main' \notin FromJoinProcess
  BY DEF StartLink, StartClients, Exit, CloseLink, Signal, Join, historyVars
<1>6. CASE JoinProcess \/ Destroy("destroy_clients", "destroy_queue") \/ Destroy("destroy_queue", "stop_pool")
             \/ StopPool \/ JoinWorkers
  <2>1. UNCHANGED <<dataVars, wpc, tasks, historyVars>>
    BY <1>6 DEF JoinProcess, Join, Destroy, StopPool, JoinWorkers, poolVars
  <2>2. broken' = broken /\ late' = late /\ tasks' = tasks /\ queued' = queued /\ Busy' = Busy
    BY <2>1, StillCounts DEF dataVars, historyVars
  <2> QED BY <1>6, <2>2 DEF JoinProcess, Join, Destroy, StopPool, JoinWorkers
<1> QED
  BY <1>1, <1>2, <1>3, <1>4, <1>5, <1>6 DEF Main

\* Nothing is broken at first.
LEMMA InitClean == Init => Clean
BY DEF Init, Clean, FromJoinProcess, FromDrain, FromDestroyClients, FromDestroyQueue, FromStopPool, AtDone

\* Every step keeps it.
LEMMA NextClean == TypeOK /\ Joined /\ Clean /\ [Next]_vars => Clean'
<1> SUFFICES ASSUME TypeOK, Joined, Clean, [Next]_vars
             PROVE  Clean'
  OBVIOUS
<1>1. CASE UNCHANGED vars
  <2>1. main' = main /\ broken' = broken /\ late' = late /\ tasks' = tasks /\ queued' = queued /\ Busy' = Busy
    BY <1>1, StillCounts DEF vars, dataVars, poolVars, historyVars
  <2> QED BY <2>1 DEF Clean
<1>2. CASE Main \/ Exit
  BY <1>2, MainClean
<1>3. CASE \E t \in Threads : Thread(t)
  BY <1>3, ThreadClean
<1>4. CASE Sent \/ Requeue
  BY <1>4, ThreadClean DEF Threads
<1>5. CASE \E w \in Workers : Worker(w) \/ Spurious(w) \/ ServeUnblocked(w)
  BY <1>5, WorkerClean
<1> QED
  BY <1>1, <1>2, <1>3, <1>4, <1>5 DEF Next

\* It gives the property, the process thread having ended.
LEMMA CleanIsCleanEnd == TypeOK /\ Joined /\ Clean => CleanEnd
<1> SUFFICES ASSUME TypeOK, Joined, Clean, main \in FromDestroyClients, ~late
             PROVE  broken = {} /\ queued = 0 /\ Holding = 0
  BY PastIs DEF CleanEnd, TypeOK
<1>1. Ended("process")
  BY DEF Joined, FromDrain
<1> QED
  BY <1>1 DEF Clean, Ended, Holding

(***************************************************************************)
(* The hypothesis under which the end of the program is orderly, for any   *)
(* number of workers: without work of the pool when the receive loop was   *)
(* joined, no destroyed member is used, and no message is left behind.     *)
(***************************************************************************)
THEOREM ShutdownCleanEnd == FairSpec => []CleanEnd
<1>1. Init /\ []TypeOK /\ [][Next]_vars => [](Joined /\ Clean)
  BY InitJoined, NextJoined, InitClean, NextClean, PTL
<1> QED
  BY <1>1, ShutdownTypeCorrect, CleanIsCleanEnd, PTL DEF FairSpec
=============================================================================
