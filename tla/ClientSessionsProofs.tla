------------------------ MODULE ClientSessionsProofs ------------------------
(***************************************************************************)
(* Proofs about the clients of a queueing service: type correctness; that  *)
(* an open socket is held by exactly one of the list, the loop, the pool's *)
(* queue and the workers; that only sockets of clients that have left are  *)
(* closed, and of clients that could not be answered; and that a queue is  *)
(* connected to a client that asked for it, unless the cleanup of a socket *)
(* passed it over.  They hold for any number of clients, socket values,    *)
(* workers, queues and requests.  What PromptStart is needed for is said   *)
(* where it is assumed.                                                    *)
(***************************************************************************)
EXTENDS ClientSessions, FiniteSetTheorems, SequenceTheorems, WellFoundedInduction, TLAPS

(***************************************************************************)
(* Sequences                                                               *)
(***************************************************************************)

\* A nonempty set of natural numbers has a least element.
LEMMA LeastNat ==
  ASSUME NEW S, S \subseteq Nat, S # {}
  PROVE  \E x \in S : \A y \in S : x <= y
  <1> DEFINE R == {ss \in Nat \X Nat : ss[1] < ss[2]}
  <1>1. IsWellFoundedOn(R, Nat)
    BY NatLessThanWellFounded DEF OpToRel
  <1>2. \E x \in S : \A y \in S : <<y, x>> \notin R
    <2> HIDE DEF R
    <2> QED
      BY <1>1, WFMin
  <1>3. PICK x \in S : \A y \in S : <<y, x>> \notin R
    BY <1>2
  <1>4. \A y \in S : ~(y < x)
    BY <1>3
  <1> QED
    BY <1>4

\* An index of Append and of Tail.
LEMMA AppendEntries ==
  ASSUME NEW S, NEW s \in Seq(S), NEW e \in S
  PROVE  /\ Append(s, e) \in Seq(S)
         /\ Len(s) \in Nat /\ DOMAIN s = 1..Len(s) /\ DOMAIN Append(s, e) = 1..(Len(s) + 1)
         /\ \A i \in 1..(Len(s) + 1) : Append(s, e)[i] = IF i = Len(s) + 1 THEN e ELSE s[i]
  <1>1. Append(s, e) \in Seq(S) /\ Len(Append(s, e)) = Len(s) + 1
    BY AppendProperties
  <1>2. Len(s) \in Nat /\ DOMAIN s = 1..Len(s) /\ DOMAIN Append(s, e) = 1..(Len(s) + 1)
    BY <1>1, LenProperties
  <1> QED
    BY <1>1, <1>2, AppendProperties

LEMMA TailEntries ==
  ASSUME NEW S, NEW s \in Seq(S), s # <<>>
  PROVE  /\ Tail(s) \in Seq(S) /\ Head(s) \in S /\ Head(s) = s[1]
         /\ Len(s) \in Nat \ {0} /\ DOMAIN s = 1..Len(s) /\ DOMAIN Tail(s) = 1..(Len(s) - 1)
         /\ \A i \in 1..(Len(s) - 1) : Tail(s)[i] = s[i + 1]
  <1>1. /\ Tail(s) \in Seq(S) /\ Head(s) \in S /\ Head(s) = s[1]
        /\ Len(Tail(s)) = Len(s) - 1 /\ \A i \in 1..Len(Tail(s)) : Tail(s)[i] = s[i + 1]
    BY HeadTailProperties
  <1>2. Len(s) \in Nat \ {0} /\ DOMAIN s = 1..Len(s) /\ DOMAIN Tail(s) = 1..(Len(s) - 1)
    BY <1>1, LenProperties, EmptySeq
  <1> QED
    BY <1>1, <1>2

\* remove_item_by_value on a list that does not have the value, and in general.
LEMMA RemoveAbsent ==
  ASSUME NEW s, NEW e, ~\E i \in 1..Len(s) : s[i] = e
  PROVE  RemoveFirst(s, e) = s
BY DEF RemoveFirst

LEMMA RemoveFirstType ==
  ASSUME NEW S, NEW s \in Seq(S), NEW e
  PROVE  RemoveFirst(s, e) \in Seq(S)
  <1>1. CASE ~\E i \in 1..Len(s) : s[i] = e
    BY <1>1, RemoveAbsent
  <1>2. CASE \E i \in 1..Len(s) : s[i] = e
    <2> DEFINE I == {i \in 1..Len(s) : s[i] = e}
               k == CHOOSE x \in I : \A y \in I : x =< y
    <2>1. I # {} /\ I \subseteq Nat
      BY <1>2, LenProperties
    <2>2. \E x \in I : \A y \in I : x =< y
      <3> HIDE DEF I
      <3> QED
        BY <2>1, LeastNat
    <2>3. k \in I
      BY <2>2
    <2>4. RemoveFirst(s, e) = SubSeq(s, 1, k - 1) \o SubSeq(s, k + 1, Len(s))
      BY <1>2, <2>1 DEF RemoveFirst, RemoveAt, SelectInSeq, Min
    <2>5. SubSeq(s, 1, k - 1) \in Seq(S) /\ SubSeq(s, k + 1, Len(s)) \in Seq(S)
      <3>1. k \in 1..Len(s) /\ Len(s) \in Nat /\ \A i \in 1..Len(s) : s[i] \in S
        BY <2>3, LenProperties
      <3> HIDE DEF k
      <3>2. /\ \A i \in 1..(k - 1) : s[i] \in S
            /\ \A i \in (k + 1)..Len(s) : s[i] \in S
        BY <3>1
      <3> QED
        BY <3>1, <3>2, SubSeqProperties
    <2> QED
      BY <2>4, <2>5, ConcatProperties
  <1> QED
    BY <1>1, <1>2

\* The first k entries, and those after them.
LEMMA SplitTypes ==
  ASSUME NEW S, NEW s \in Seq(S), NEW k \in 1..Len(s)
  PROVE  /\ SubSeq(s, 1, k) \in Seq(S) /\ SubSeq(s, k + 1, Len(s)) \in Seq(S)
  <1>1. Len(s) \in Nat /\ \A i \in 1..Len(s) : s[i] \in S
    BY LenProperties
  <1>2. (\A i \in 1..k : s[i] \in S) /\ (\A i \in (k + 1)..Len(s) : s[i] \in S)
    BY <1>1
  <1> QED
    BY <1>1, <1>2, SubSeqProperties

(***************************************************************************)
(* Type correctness                                                        *)
(***************************************************************************)
LEMMA InitType == Init => TypeOK
BY EmptySeq DEF Init, TypeOK

LEMMA ClientStepType ==
  ASSUME TypeOK, NEW c \in Clients, ClientStep(c)
  PROVE  TypeOK'
  <1>1. ASSUME NEW h \in Handles, Connect(c, h) PROVE TypeOK'
    <2>1. Append(clients, h) \in Seq(Handles \cup {NoHandle})
      BY AppendProperties DEF TypeOK
    <2> QED
      BY <1>1, <2>1 DEF Connect, loopVars, poolVars, queueVars, TypeOK
  <1>2. CASE AcceptFails(c)
    <2>1. Append(clients, NoHandle) \in Seq(Handles \cup {NoHandle})
      BY AppendProperties DEF TypeOK
    <2> QED
      BY <1>2, <2>1 DEF AcceptFails, loopVars, poolVars, queueVars, TypeOK
  <1>3. ASSUME NEW r \in Requests, Request(c, r) PROVE TypeOK'
    <2>1. Append(asked[c], r) \in Seq(Requests) /\ Append(inbox[c], r) \in Seq(Requests)
      BY AppendProperties DEF TypeOK
    <2> QED
      BY <1>3, <2>1 DEF Request, loopVars, poolVars, queueVars, TypeOK
  <1>4. CASE Leave(c)
    BY <1>4 DEF Leave, loopVars, poolVars, queueVars, TypeOK
  <1> QED
    BY <1>1, <1>2, <1>3, <1>4 DEF ClientStep

LEMMA LoopType ==
  ASSUME TypeOK, Loop
  PROVE  TypeOK'
  <1>1. CASE CheckLength
    BY <1>1 DEF CheckLength, clientVars, poolVars, queueVars, TypeOK
  <1>2. CASE TakeFirst
    <2>1. Head(clients) \in Handles \cup {NoHandle} /\ Tail(clients) \in Seq(Handles \cup {NoHandle})
      BY <1>2, TailEntries DEF TakeFirst, TypeOK
    <2> QED
      BY <1>2, <2>1 DEF TakeFirst, clientVars, poolVars, queueVars, TypeOK
  <1>3. CASE SelectReady
    BY <1>3 DEF SelectReady, clientVars, queueVars, TypeOK
  <1>4. CASE SelectElse
    <2>1. Append(clients, current) \in Seq(Handles \cup {NoHandle})
      BY AppendProperties DEF TypeOK
    <2> QED
      BY <1>4, <2>1 DEF SelectElse, clientVars, poolVars, queueVars, TypeOK
  <1> QED
    BY <1>1, <1>2, <1>3, <1>4 DEF Loop

LEMMA WorkerType ==
  ASSUME TypeOK, NEW w \in Workers, Worker(w)
  PROVE  TypeOK'
  <1>1. CASE PopTask(w)
    BY <1>1 DEF PopTask, Goto, clientVars, loopVars, queueVars, TypeOK
  <1>2. CASE CallHandler(w)
    BY <1>2 DEF CallHandler, Goto, clientVars, loopVars, queueVars, TypeOK
  <1>3. CASE Recv(w)
    <2> DEFINE o == owner[served[w]]
    <2>1. served[w] \in Handles \cup {NoHandle}
      BY DEF TypeOK
    <2>2. PICK k \in 1..Len(InboxOf(served[w])) :
            /\ buffer' = [buffer EXCEPT ![w] = SubSeq(InboxOf(served[w]), 1, k)]
            /\ inbox' = [inbox EXCEPT ![o] = SubSeq(inbox[o], k + 1, Len(inbox[o]))]
      BY <1>3 DEF Recv
    <2>3. o # NoClient
      BY <2>2, EmptySeq DEF InboxOf
    <2>4. o \in Clients /\ InboxOf(served[w]) = inbox[o] /\ inbox[o] \in Seq(Requests)
      BY <2>1, <2>3 DEF InboxOf, TypeOK
    <2>5. /\ SubSeq(inbox[o], 1, k) \in Seq(Requests)
          /\ SubSeq(inbox[o], k + 1, Len(inbox[o])) \in Seq(Requests)
      BY <2>2, <2>4, SplitTypes
    <2>6. buffer' \in [Workers -> Seq(Requests)] /\ inbox' \in [Clients -> Seq(Requests)]
      BY <2>2, <2>4, <2>5 DEF TypeOK
    <2> QED
      BY <1>3, <2>6 DEF Recv, Goto, clientVars, loopVars, queueVars, TypeOK
  <1>4. CASE RecvNothing(w)
    BY <1>4 DEF RecvNothing, Goto, clientVars, loopVars, queueVars, TypeOK
  <1>5. CASE Process(w) \/ ProcessFails(w)
    <2>1. Head(buffer[w]) \in Requests /\ Tail(buffer[w]) \in Seq(Requests)
      BY <1>5, TailEntries DEF Process, ProcessFails, TypeOK
    <2>2. connected' \in [Queues -> Handles \cup {NoHandle}]
      BY <1>5, <2>1 DEF Process, ProcessFails, ConnectIfFree, Requests, TypeOK
    <2>3. buffer' \in [Workers -> Seq(Requests)]
      <3>1. \A seq \in {Tail(buffer[w]), <<>>} : seq \in Seq(Requests)
        BY <2>1, EmptySeq
      <3>2. buffer' = [buffer EXCEPT ![w] = Tail(buffer[w])] \/ buffer' = [buffer EXCEPT ![w] = <<>>]
        BY <1>5 DEF Process, ProcessFails
      <3> QED
        BY <3>1, <3>2 DEF TypeOK
    <2>4. wpc' \in [Workers -> {"idle", "called", "recv", "process", "detach", "remove", "close"}]
      BY <1>5 DEF Process, ProcessFails, Goto, TypeOK
    <2>5. unanswered' \in SUBSET Clients
      <3>1. owner[served[w]] \in Clients \cup {NoClient}
        BY DEF TypeOK
      <3>2. unanswered' \in {unanswered, unanswered \cup ({owner[served[w]]} \ {NoClient})}
        BY <1>5 DEF Process, ProcessFails
      <3> QED
        BY <3>1, <3>2 DEF TypeOK
    <2> QED
      BY <1>5, <2>2, <2>3, <2>4, <2>5 DEF Process, ProcessFails, clientVars, loopVars, queueVars, TypeOK
  <1>6. CASE PutBack(w)
    <2>1. Append(clients, served[w]) \in Seq(Handles \cup {NoHandle})
      BY AppendProperties DEF TypeOK
    <2> QED
      BY <1>6, <2>1 DEF PutBack, Return, Goto, clientVars, loopVars, queueVars, TypeOK
  <1>7. CASE Detach(w)
    BY <1>7 DEF Detach, Goto, clientVars, loopVars, queueVars, TypeOK
  <1>8. CASE RemoveItem(w)
    <2>1. RemoveFirst(clients, served[w]) \in Seq(Handles \cup {NoHandle})
      BY RemoveFirstType DEF TypeOK
    <2> QED
      BY <1>8, <2>1 DEF RemoveItem, Goto, clientVars, loopVars, queueVars, TypeOK
  <1>9. CASE Close(w)
    BY <1>9 DEF Close, Return, Goto, clientVars, loopVars, queueVars, TypeOK
  <1> QED
    BY <1>1, <1>2, <1>3, <1>4, <1>5, <1>6, <1>7, <1>8, <1>9 DEF Worker

LEMMA NextType == TypeOK /\ [Next]_vars => TypeOK'
  <1> SUFFICES ASSUME TypeOK, [Next]_vars PROVE TypeOK'
    OBVIOUS
  <1>1. CASE UNCHANGED vars
    BY <1>1 DEF vars, clientVars, loopVars, poolVars, queueVars, TypeOK
  <1> QED
    BY <1>1, ClientStepType, LoopType, WorkerType DEF Next

(***************************************************************************)
(* All variables keep their types; in particular whatever a worker removes *)
(* from the list of clients, what is left is a list of sockets.            *)
(***************************************************************************)
THEOREM SessionsTypeCorrect == Spec => []TypeOK
BY InitType, NextType, PTL DEF Spec

(***************************************************************************)
(* An open socket is held once                                             *)
(*                                                                         *)
(* The four holders of a socket, told apart.                               *)
(***************************************************************************)
Serving(w) == wpc[w] \in {"recv", "process", "detach", "remove", "close"}

Listed(list, h) == \E i \in DOMAIN list : list[i] = h
Distinct(list) == \A i, j \in DOMAIN list : list[i] = list[j] => i = j \/ list[i] = NoHandle

InList(h) == Listed(clients, h)
AtLoop(h) == loop = "select" /\ current = h
AsTask(h) == Unstarted /\ loop # "select" /\ current = h
AtWorker(h) == \E w \in Workers : Serving(w) /\ served[w] = h

\* At most one task has not read current_socket yet, and the loop is not
\* about to decide about another socket.
OneTask ==
  /\ tasks \in {0, 1}
  /\ \A v, w \in Workers : wpc[v] = "called" => tasks = 0 /\ (wpc[w] = "called" => v = w)
  /\ Unstarted => loop # "select" /\ current \in Handles

\* No holder holds a socket twice, and no two hold the same one.
NoneTwice ==
  /\ Distinct(clients)
  /\ \A v, w \in Workers : Serving(v) /\ Serving(w) /\ served[v] = served[w] => v = w
  /\ \A h \in Handles :
       /\ InList(h) => ~AtLoop(h) /\ ~AsTask(h) /\ ~AtWorker(h)
       /\ AtLoop(h) => ~AsTask(h) /\ ~AtWorker(h)
       /\ AsTask(h) => ~AtWorker(h)

\* Sockets are held while they are open.
HeldIfOpen ==
  /\ owner[NoHandle] = NoClient
  /\ \A w \in Workers : Serving(w) => served[w] \in Handles
  /\ \A h \in Handles :
       owner[h] # NoClient <=> InList(h) \/ AtLoop(h) \/ AsTask(h) \/ AtWorker(h)

HeldInv == OneTask /\ NoneTwice /\ HeldIfOpen /\ TakeNeverEmpty

\* How a list changes.
LEMMA ListedAppend ==
  ASSUME NEW S, NEW list \in Seq(S), NEW x \in S
  PROVE  /\ \A h : Listed(Append(list, x), h) <=> Listed(list, h) \/ h = x
         /\ Distinct(list) /\ (x = NoHandle \/ ~Listed(list, x)) => Distinct(Append(list, x))
  <1>1. /\ Len(list) \in Nat /\ DOMAIN list = 1..Len(list)
        /\ DOMAIN Append(list, x) = 1..(Len(list) + 1)
        /\ \A i \in 1..(Len(list) + 1) : Append(list, x)[i] = IF i = Len(list) + 1 THEN x ELSE list[i]
    BY AppendEntries
  <1> QED
    BY <1>1 DEF Listed, Distinct

LEMMA ListedTail ==
  ASSUME NEW S, NEW list \in Seq(S), list # <<>>, Distinct(list)
  PROVE  /\ Listed(list, Head(list))
         /\ \A h : h # NoHandle => (Listed(Tail(list), h) <=> Listed(list, h) /\ h # Head(list))
         /\ Distinct(Tail(list))
  <1>1. /\ Head(list) = list[1] /\ Len(list) \in Nat \ {0} /\ DOMAIN list = 1..Len(list)
        /\ DOMAIN Tail(list) = 1..(Len(list) - 1)
        /\ \A i \in 1..(Len(list) - 1) : Tail(list)[i] = list[i + 1]
    BY TailEntries
  <1>2. 1 \in DOMAIN list /\ \A i \in 1..(Len(list) - 1) : i + 1 \in DOMAIN list /\ i + 1 # 1
    BY <1>1
  <1>3. \A i \in DOMAIN list : i # 1 => i - 1 \in 1..(Len(list) - 1) /\ (i - 1) + 1 = i
    BY <1>1
  <1>4. ASSUME NEW h, h # NoHandle
        PROVE  Listed(Tail(list), h) <=> Listed(list, h) /\ h # Head(list)
    <2>1. ASSUME Listed(Tail(list), h) PROVE Listed(list, h) /\ h # Head(list)
      BY <1>1, <1>2, <1>4, <2>1 DEF Listed, Distinct
    <2>2. ASSUME Listed(list, h), h # Head(list) PROVE Listed(Tail(list), h)
      BY <1>1, <1>3, <2>2 DEF Listed
    <2> QED
      BY <2>1, <2>2
  <1>5. Distinct(Tail(list))
    <2> SUFFICES ASSUME NEW i \in 1..(Len(list) - 1), NEW j \in 1..(Len(list) - 1),
                        list[i + 1] = list[j + 1], list[i + 1] # NoHandle
                 PROVE  i = j
      BY <1>1 DEF Distinct
    <2>1. i + 1 = j + 1
      BY <1>2 DEF Distinct
    <2> QED
      BY <1>1, <2>1
  <1> QED
    BY <1>1, <1>2, <1>4, <1>5 DEF Listed

LEMMA ListedRemove ==
  ASSUME NEW S, NEW list \in Seq(S), NEW x, ~Listed(list, x)
  PROVE  RemoveFirst(list, x) = list
  <1>1. DOMAIN list = 1..Len(list)
    BY LenProperties
  <1> QED
    BY <1>1, RemoveAbsent DEF Listed

\* The effect of append_node on the list of clients.
LEMMA ClientsAppended ==
  ASSUME TypeOK, Distinct(clients), NEW x \in Handles \cup {NoHandle},
         x = NoHandle \/ ~InList(x), clients' = Append(clients, x)
  PROVE  /\ \A g : InList(g)' <=> InList(g) \/ g = x
         /\ Distinct(clients') /\ clients' # <<>>
  <1>1. clients \in Seq(Handles \cup {NoHandle})
    BY DEF TypeOK
  <1>2. /\ \A g : Listed(clients', g) <=> Listed(clients, g) \/ g = x
        /\ Distinct(clients')
    BY <1>1, ListedAppend DEF InList
  <1>3. clients' # <<>>
    BY <1>1, AppendProperties
  <1> QED
    BY <1>2, <1>3 DEF InList

LEMMA HeldInit == Init => HeldInv
  <1> SUFFICES ASSUME Init PROVE HeldInv
    OBVIOUS
  <1>1. \A h : ~InList(h) /\ ~AtLoop(h) /\ ~AsTask(h) /\ ~AtWorker(h)
    BY DEF Init, InList, Listed, AtLoop, AsTask, Unstarted, AtWorker, Serving
  <1>2. owner[NoHandle] = NoClient /\ \A h \in Handles : owner[h] = NoClient
    BY DEF Init
  <1>3. Distinct(clients)
    BY DEF Init, Distinct
  <1>4. OneTask /\ TakeNeverEmpty
    BY DEF Init, OneTask, Unstarted, TakeNeverEmpty
  <1> QED
    BY <1>1, <1>2, <1>3, <1>4 DEF Init, HeldInv, NoneTwice, HeldIfOpen, Serving

\* Clients and the accept thread.
LEMMA HeldClientStep ==
  ASSUME TypeOK, HeldInv, NEW c \in Clients, ClientStep(c)
  PROVE  HeldInv'
  <1>1. UNCHANGED <<loopVars, poolVars>>
    BY DEF ClientStep, Connect, AcceptFails, Request, Leave
  <1>2. \A w : Serving(w)' = Serving(w)
    BY <1>1 DEF poolVars, queueVars, Serving
  <1>3. \A h : /\ AtLoop(h)' <=> AtLoop(h)
               /\ AsTask(h)' <=> AsTask(h)
               /\ AtWorker(h)' <=> AtWorker(h)
    BY <1>1, <1>2 DEF loopVars, poolVars, queueVars, AtLoop, AsTask, Unstarted, AtWorker
  <1>4. OneTask'
    BY <1>1 DEF loopVars, poolVars, queueVars, HeldInv, OneTask, Unstarted
  <1>5. CASE UNCHANGED <<clients, owner>>
    <2>1. \A h : InList(h)' <=> InList(h)
      BY <1>5 DEF InList
    <2> QED
      BY <1>1, <1>2, <1>3, <1>4, <1>5, <2>1
         DEF loopVars, poolVars, queueVars, HeldInv, NoneTwice, HeldIfOpen, TakeNeverEmpty
  <1>6. ASSUME NEW h \in Handles, Connect(c, h) PROVE HeldInv'
    <2>1. ~InList(h) /\ ~AtLoop(h) /\ ~AsTask(h) /\ ~AtWorker(h)
      BY <1>6 DEF Connect, HeldInv, HeldIfOpen
    <2>2. /\ \A g : InList(g)' <=> InList(g) \/ g = h
          /\ Distinct(clients') /\ clients' # <<>>
      BY <1>6, <2>1, ClientsAppended DEF Connect, HeldInv, NoneTwice
    <2>3. \A g \in Handles \cup {NoHandle} : owner'[g] = IF g = h THEN c ELSE owner[g]
      BY <1>6 DEF Connect, TypeOK
    <2>4. c # NoClient /\ h # NoHandle
      BY SessionsAssumption
    <2>5. NoneTwice'
      BY <1>1, <1>2, <1>3, <2>1, <2>2 DEF poolVars, queueVars, HeldInv, NoneTwice
    <2>6. HeldIfOpen'
      BY <1>1, <1>2, <1>3, <2>2, <2>3, <2>4 DEF poolVars, queueVars, HeldInv, HeldIfOpen
    <2> QED
      BY <1>4, <2>2, <2>5, <2>6 DEF HeldInv, TakeNeverEmpty
  <1>7. CASE AcceptFails(c)
    <2>1. /\ \A g : InList(g)' <=> InList(g) \/ g = NoHandle
          /\ Distinct(clients') /\ clients' # <<>>
      BY <1>7, ClientsAppended DEF AcceptFails, HeldInv, NoneTwice
    <2>2. \A g \in Handles : g # NoHandle
      BY SessionsAssumption
    <2>3. NoneTwice'
      BY <1>1, <1>2, <1>3, <2>1, <2>2 DEF poolVars, queueVars, HeldInv, NoneTwice
    <2>4. HeldIfOpen'
      BY <1>1, <1>2, <1>3, <1>7, <2>1, <2>2 DEF AcceptFails, poolVars, queueVars, HeldInv, HeldIfOpen
    <2> QED
      BY <1>4, <2>1, <2>3, <2>4 DEF HeldInv, TakeNeverEmpty
  <1> QED
    BY <1>5, <1>6, <1>7 DEF ClientStep, Request, Leave

(***************************************************************************)
(* The receive loop.  That the current task has read current_socket before *)
(* another socket is taken is where PromptStart is needed: otherwise the   *)
(* socket it was given for is forgotten (run sessions_late).               *)
(***************************************************************************)
LEMMA HeldLoop ==
  ASSUME PromptStart, TypeOK, HeldInv, Loop
  PROVE  HeldInv'
  <1>1. UNCHANGED <<owner, wpc, served>>
    BY DEF Loop, CheckLength, TakeFirst, SelectReady, SelectElse, poolVars, queueVars
  <1>2. \A w : Serving(w)' = Serving(w)
    BY <1>1 DEF Serving
  <1>3. \A h : AtWorker(h)' <=> AtWorker(h)
    BY <1>1, <1>2 DEF AtWorker
  <1>4. NoHandle \notin Handles /\ owner[NoHandle] = NoClient
    BY SessionsAssumption DEF HeldInv, HeldIfOpen
  <1>5. ASSUME OneTask', TakeNeverEmpty', Distinct(clients'),
               \A h \in Handles :
                 /\ (InList(h) \/ AtLoop(h) \/ AsTask(h)) <=> (InList(h)' \/ AtLoop(h)' \/ AsTask(h)')
                 /\ InList(h)' => ~AtLoop(h)' /\ ~AsTask(h)'
                 /\ AtLoop(h)' => ~AsTask(h)'
        PROVE  HeldInv'
    <2>1. NoneTwice'
      BY <1>1, <1>2, <1>3, <1>5 DEF HeldInv, NoneTwice
    <2>2. HeldIfOpen'
      BY <1>1, <1>2, <1>3, <1>5 DEF HeldInv, HeldIfOpen
    <2> QED
      BY <1>5, <2>1, <2>2 DEF HeldInv
  <1>6. CASE CheckLength
    <2>1. \A h : /\ InList(h)' <=> InList(h)
                 /\ AtLoop(h)' <=> AtLoop(h)
                 /\ AsTask(h)' <=> AsTask(h)
      BY <1>6 DEF CheckLength, poolVars, queueVars, InList, AtLoop, AsTask, Unstarted
    <2>2. OneTask' /\ TakeNeverEmpty' /\ Distinct(clients')
      BY <1>6 DEF CheckLength, poolVars, queueVars, HeldInv, OneTask, Unstarted, TakeNeverEmpty, NoneTwice
    <2> QED
      BY <1>5, <2>1, <2>2 DEF HeldInv, NoneTwice
  <1>7. CASE TakeFirst
    <2>1. /\ clients # <<>> /\ ~Unstarted /\ clients' = Tail(clients) /\ current' = Head(clients)
          /\ loop = "take" /\ loop' = "select" /\ tasks' = tasks
      BY <1>7 DEF TakeFirst, poolVars, queueVars
    <2>2. clients \in Seq(Handles \cup {NoHandle}) /\ Distinct(clients)
      BY DEF TypeOK, HeldInv, NoneTwice
    <2>3. \A h \in Handles : InList(h)' <=> InList(h) /\ h # Head(clients)
      BY <2>1, <2>2, <1>4, ListedTail DEF InList
    <2>4. InList(Head(clients)) /\ Distinct(clients')
      BY <2>1, <2>2, ListedTail DEF InList
    <2>5. ~Unstarted'
      BY <1>1, <2>1 DEF Unstarted
    <2>6. \A h : /\ AtLoop(h)' <=> h = Head(clients)
                 /\ ~AtLoop(h) /\ ~AsTask(h) /\ ~AsTask(h)'
      BY <2>1, <2>5 DEF AtLoop, AsTask
    <2>7. OneTask' /\ TakeNeverEmpty'
      BY <1>1, <2>1, <2>5 DEF HeldInv, OneTask, TakeNeverEmpty
    <2> QED
      BY <1>5, <2>3, <2>4, <2>6, <2>7
  <1>8. CASE SelectReady
    <2>1. /\ owner[current] # NoClient /\ tasks' = tasks + 1 /\ clients' = clients /\ current' = current
          /\ loop = "select" /\ loop' = "check"
      BY <1>8 DEF SelectReady, Readable
    <2>2. current \in Handles
      BY <1>4, <2>1 DEF TypeOK
    <2>3. ~Unstarted
      BY <2>1 DEF HeldInv, OneTask
    <2>4. tasks' = 1 /\ \A w \in Workers : wpc[w] # "called"
      BY <2>1, <2>3 DEF Unstarted, TypeOK
    <2>5. Unstarted'
      BY <2>4 DEF Unstarted
    <2>6. \A h : /\ InList(h)' <=> InList(h)
                 /\ AtLoop(h) <=> h = current
                 /\ AsTask(h)' <=> h = current
                 /\ ~AsTask(h) /\ ~AtLoop(h)'
      BY <2>1, <2>3, <2>5 DEF InList, AtLoop, AsTask
    <2>7. OneTask' /\ TakeNeverEmpty' /\ Distinct(clients')
      BY <1>1, <2>1, <2>2, <2>4 DEF HeldInv, OneTask, TakeNeverEmpty, NoneTwice
    <2> QED
      BY <1>5, <2>6, <2>7 DEF HeldInv, NoneTwice
  <1>9. CASE SelectElse
    <2>1. /\ tasks' = tasks /\ clients' = Append(clients, current) /\ current' = current
          /\ loop = "select" /\ loop' = "check"
      BY <1>9 DEF SelectElse, poolVars, queueVars
    <2>2. ~Unstarted /\ ~Unstarted'
      BY <1>1, <2>1 DEF HeldInv, OneTask, Unstarted
    <2>3. \A h : /\ AtLoop(h) <=> h = current
                 /\ ~AsTask(h) /\ ~AsTask(h)' /\ ~AtLoop(h)'
      BY <2>1, <2>2 DEF AtLoop, AsTask
    <2>4. current \in Handles \cup {NoHandle} /\ (current = NoHandle \/ ~InList(current))
      BY <2>3 DEF TypeOK, HeldInv, NoneTwice
    <2>5. /\ \A h : InList(h)' <=> InList(h) \/ h = current
          /\ Distinct(clients')
      BY <2>1, <2>4, ClientsAppended DEF HeldInv, NoneTwice
    <2>6. OneTask' /\ TakeNeverEmpty'
      BY <1>1, <2>1, <2>2 DEF HeldInv, OneTask, TakeNeverEmpty
    <2> QED
      BY <1>5, <2>3, <2>5, <2>6
  <1> QED
    BY <1>6, <1>7, <1>8, <1>9 DEF Loop

\* The workers.
LEMMA HeldWorker ==
  ASSUME PromptStart, TypeOK, HeldInv, NEW w \in Workers, Worker(w)
  PROVE  HeldInv'
  <1> USE DEF HeldInv
  <1>1. UNCHANGED loopVars
    BY DEF Worker, PopTask, CallHandler, Recv, RecvNothing, Process, ProcessFails, PutBack, Detach, RemoveItem, Close
  <1>2. \A h : AtLoop(h)' <=> AtLoop(h)
    BY <1>1 DEF loopVars, AtLoop
  <1>3. NoHandle \notin Handles /\ owner[NoHandle] = NoClient
    BY SessionsAssumption DEF HeldIfOpen
  <1>4. CASE PopTask(w)
    <2>1. /\ tasks > 0 /\ tasks' = tasks - 1 /\ clients' = clients /\ owner' = owner /\ served' = served
          /\ wpc[w] = "idle" /\ \A v \in Workers : wpc'[v] = IF v = w THEN "called" ELSE wpc[v]
      BY <1>4 DEF PopTask, Goto, TypeOK
    <2>2. tasks = 1 /\ tasks' = 0 /\ \A v \in Workers : wpc[v] # "called"
      BY <2>1 DEF OneTask
    <2>3. Unstarted /\ Unstarted'
      BY <2>1, <2>2 DEF Unstarted
    <2>4. \A v \in Workers : Serving(v)' <=> Serving(v)
      BY <2>1 DEF Serving
    <2>5. \A h : /\ InList(h)' <=> InList(h)
                 /\ AsTask(h)' <=> AsTask(h)
                 /\ AtWorker(h)' <=> AtWorker(h)
      BY <1>1, <2>1, <2>3, <2>4 DEF loopVars, InList, AsTask, AtWorker
    <2>6. OneTask' /\ TakeNeverEmpty'
      BY <1>1, <2>1, <2>2, <2>3 DEF loopVars, OneTask, TakeNeverEmpty
    <2> QED
      BY <1>2, <2>1, <2>4, <2>5, <2>6 DEF NoneTwice, HeldIfOpen
  <1>5. CASE CallHandler(w)
    <2>1. /\ tasks' = tasks /\ clients' = clients /\ owner' = owner /\ wpc[w] = "called"
          /\ \A v \in Workers : wpc'[v] = IF v = w THEN "recv" ELSE wpc[v]
          /\ \A v \in Workers : served'[v] = IF v = w THEN current ELSE served[v]
      BY <1>5 DEF CallHandler, Goto, TypeOK
    <2>2. tasks = 0 /\ \A v \in Workers : wpc[v] = "called" => v = w
      BY <2>1 DEF OneTask
    <2>3. Unstarted /\ loop # "select" /\ current \in Handles
      BY <2>1 DEF Unstarted, OneTask
    <2>4. ~Unstarted'
      BY <2>1, <2>2 DEF Unstarted
    <2>5. \A v \in Workers : Serving(v)' <=> Serving(v) \/ v = w
      BY <2>1 DEF Serving
    <2>6. \A h : /\ InList(h)' <=> InList(h)
                 /\ AsTask(h) <=> h = current
                 /\ ~AsTask(h)'
      BY <2>1, <2>3, <2>4 DEF InList, AsTask
    <2>7. ~Serving(w)
      BY <2>1 DEF Serving
    <2>8. \A h : AtWorker(h)' <=> AtWorker(h) \/ h = current
      BY <2>1, <2>5, <2>7 DEF AtWorker
    <2>9. OneTask' /\ TakeNeverEmpty'
      BY <1>1, <2>1, <2>2, <2>4 DEF loopVars, OneTask, TakeNeverEmpty
    <2>10. \A v \in Workers : Serving(v) => served[v] # current
      BY <2>3, <2>6 DEF NoneTwice, AtWorker
    <2>11. NoneTwice'
      BY <1>2, <2>1, <2>5, <2>6, <2>8, <2>10 DEF NoneTwice
    <2>12. HeldIfOpen'
      BY <1>2, <2>1, <2>3, <2>5, <2>6, <2>8 DEF HeldIfOpen
    <2> QED
      BY <2>9, <2>11, <2>12
  <1>6. CASE Recv(w) \/ RecvNothing(w) \/ Process(w) \/ ProcessFails(w) \/ Detach(w) \/ RemoveItem(w)
    <2>0. Serving(w) => ~InList(served[w])
      BY DEF HeldIfOpen, NoneTwice, AtWorker
    <2>1. /\ tasks' = tasks /\ clients' = clients /\ owner' = owner /\ served' = served
          /\ Serving(w) /\ Serving(w)' /\ \A v \in Workers : v # w => wpc'[v] = wpc[v]
      <3>1. CASE RemoveItem(w)
        <4>1. Serving(w)
          BY <3>1 DEF RemoveItem, Serving
        <4>2. clients' = clients
          BY <2>0, <3>1, <4>1, ListedRemove DEF RemoveItem, InList, TypeOK
        <4> QED
          BY <3>1, <4>1, <4>2 DEF RemoveItem, Goto, Serving, TypeOK
      <3>2. CASE ~RemoveItem(w)
        BY <1>6, <3>2 DEF Recv, RecvNothing, Process, ProcessFails, Detach, Goto, Serving, TypeOK
      <3> QED
        BY <3>1, <3>2
    <2>2. \A v \in Workers : /\ Serving(v)' <=> Serving(v)
                             /\ wpc'[v] = "called" <=> wpc[v] = "called"
      BY <2>1 DEF Serving
    <2>3. Unstarted' <=> Unstarted
      BY <2>1, <2>2 DEF Unstarted
    <2>4. \A h : /\ InList(h)' <=> InList(h)
                 /\ AsTask(h)' <=> AsTask(h)
                 /\ AtWorker(h)' <=> AtWorker(h)
      BY <1>1, <2>1, <2>2, <2>3 DEF loopVars, InList, AsTask, AtWorker
    <2>5. OneTask' /\ TakeNeverEmpty'
      BY <1>1, <2>1, <2>2, <2>3 DEF loopVars, OneTask, TakeNeverEmpty
    <2> QED
      BY <1>2, <2>1, <2>2, <2>4, <2>5 DEF NoneTwice, HeldIfOpen
  <1>7. CASE PutBack(w) \/ Close(w)
    <2> DEFINE s == served[w]
    <2>1. /\ tasks' = tasks /\ Serving(w)
          /\ \A v \in Workers : wpc'[v] = IF v = w THEN "idle" ELSE wpc[v]
          /\ \A v \in Workers : v # w => served'[v] = served[v]
      BY <1>7 DEF PutBack, Close, Return, Goto, Serving, TypeOK
    <2>2. s \in Handles /\ AtWorker(s)
      BY <2>1 DEF HeldIfOpen, AtWorker
    <2>3. ~InList(s) /\ ~AtLoop(s) /\ ~AsTask(s)
      BY <2>2 DEF NoneTwice
    <2>4. \A v \in Workers : /\ Serving(v)' <=> Serving(v) /\ v # w
                             /\ wpc'[v] = "called" <=> wpc[v] = "called"
      BY <2>1 DEF Serving
    <2>5. Unstarted' <=> Unstarted
      BY <2>1, <2>4 DEF Unstarted
    <2>6. \A h : AsTask(h)' <=> AsTask(h)
      BY <1>1, <2>5 DEF loopVars, AsTask
    <2>7. \A h : AtWorker(h)' <=> AtWorker(h) /\ h # s
      BY <2>1, <2>4 DEF AtWorker, NoneTwice
    <2>8. OneTask'
      BY <1>1, <2>1, <2>4, <2>5 DEF loopVars, OneTask
    <2>9. CASE PutBack(w)
      <3>1. clients' = Append(clients, s) /\ owner' = owner
        BY <2>9 DEF PutBack
      <3>2. /\ \A h : InList(h)' <=> InList(h) \/ h = s
            /\ Distinct(clients') /\ clients' # <<>>
        BY <2>2, <2>3, <3>1, ClientsAppended DEF NoneTwice
      <3>3. NoneTwice'
        BY <1>2, <2>1, <2>3, <2>4, <2>6, <2>7, <3>2 DEF NoneTwice
      <3>4. HeldIfOpen'
        BY <1>2, <2>1, <2>2, <2>4, <2>6, <2>7, <3>1, <3>2 DEF HeldIfOpen
      <3> QED
        BY <2>8, <3>2, <3>3, <3>4 DEF TakeNeverEmpty
    <2>10. CASE Close(w)
      <3>1. clients' = clients
        BY <2>10 DEF Close
      <3>2. \A h \in Handles \cup {NoHandle} : owner'[h] = IF h = s THEN NoClient ELSE owner[h]
        BY <2>2, <2>10 DEF Close, TypeOK
      <3>3. \A h : InList(h)' <=> InList(h)
        BY <3>1 DEF InList
      <3>4. NoneTwice'
        BY <1>2, <2>1, <2>4, <2>6, <2>7, <3>1, <3>3 DEF NoneTwice
      <3>5. HeldIfOpen'
        BY <1>2, <1>3, <2>1, <2>2, <2>3, <2>4, <2>6, <2>7, <3>2, <3>3 DEF HeldIfOpen
      <3> QED
        BY <1>1, <2>8, <3>1, <3>4, <3>5 DEF loopVars, TakeNeverEmpty
    <2> QED
      BY <1>7, <2>9, <2>10
  <1> QED
    BY <1>4, <1>5, <1>6, <1>7 DEF Worker

LEMMA HeldNext == ASSUME PromptStart PROVE TypeOK /\ HeldInv /\ [Next]_vars => HeldInv'
  <1> SUFFICES ASSUME TypeOK, HeldInv, [Next]_vars PROVE HeldInv'
    OBVIOUS
  <1>1. CASE UNCHANGED vars
    BY <1>1 DEF vars, loopVars, poolVars, queueVars, HeldInv, OneTask, NoneTwice, HeldIfOpen, TakeNeverEmpty,
                InList, AtLoop, AsTask, AtWorker, Unstarted, Serving
  <1> QED
    BY <1>1, HeldClientStep, HeldLoop, HeldWorker DEF Next

\* HeldInv is what counting the holders needs: none of a closed socket, and
\* the one there is of an open socket.
LEMMA HeldInvOnce == TypeOK /\ HeldInv => HeldOnce
  <1> SUFFICES ASSUME TypeOK, HeldInv, NEW h \in Handles
               PROVE  Cardinality(Holders(h)) = IF owner[h] = NoClient THEN 0 ELSE 1
    BY DEF HeldOnce
  <1>1. h # NoHandle /\ NoneTwice /\ HeldIfOpen
    BY SessionsAssumption DEF HeldInv
  <1>2. CASE owner[h] = NoClient
    <2>1. ~InList(h) /\ ~AtLoop(h) /\ ~AsTask(h) /\ ~AtWorker(h)
      BY <1>1, <1>2 DEF HeldIfOpen
    <2>2. Holders(h) = {}
      BY <2>1 DEF Holders, InList, Listed, AtLoop, AsTask, AtWorker, Serving
    <2> QED
      BY <1>2, <2>2, FS_EmptySet
  <1>3. CASE owner[h] # NoClient
    <2>1. \E x : Holders(h) = {x}
      <3>1. CASE InList(h)
        <4>1. ~AtLoop(h) /\ ~AsTask(h) /\ ~AtWorker(h)
          BY <1>1, <3>1 DEF NoneTwice
        <4>2. PICK i \in DOMAIN clients : clients[i] = h
          BY <3>1 DEF InList, Listed
        <4>3. {j \in DOMAIN clients : clients[j] = h} = {i}
          BY <1>1, <4>2 DEF NoneTwice, Distinct
        <4>4. Holders(h) = {<<"list", i>>}
          BY <4>1, <4>3 DEF Holders, AtLoop, AsTask, AtWorker, Serving
        <4> QED
          BY <4>4
      <3>2. CASE AtLoop(h)
        <4>1. ~InList(h) /\ ~AsTask(h) /\ ~AtWorker(h)
          BY <1>1, <3>2 DEF NoneTwice
        <4>2. Holders(h) = {<<"loop", 0>>}
          BY <3>2, <4>1 DEF Holders, InList, Listed, AtLoop, AsTask, AtWorker, Serving
        <4> QED
          BY <4>2
      <3>3. CASE AsTask(h)
        <4>1. ~InList(h) /\ ~AtLoop(h) /\ ~AtWorker(h)
          BY <1>1, <3>3 DEF NoneTwice
        <4>2. Holders(h) = {<<"task", 0>>}
          BY <3>3, <4>1 DEF Holders, InList, Listed, AtLoop, AsTask, AtWorker, Serving
        <4> QED
          BY <4>2
      <3>4. CASE AtWorker(h)
        <4>1. ~InList(h) /\ ~AtLoop(h) /\ ~AsTask(h)
          BY <1>1, <3>4 DEF NoneTwice
        <4>2. PICK w \in Workers : Serving(w) /\ served[w] = h
          BY <3>4 DEF AtWorker
        <4>3. {v \in Workers : Serving(v) /\ served[v] = h} = {w}
          BY <1>1, <4>2 DEF NoneTwice
        <4>4. Holders(h) = {<<"worker", w>>}
          BY <4>1, <4>3 DEF Holders, InList, Listed, AtLoop, AsTask, Serving
        <4> QED
          BY <4>4
      <3> QED
        BY <1>1, <1>3, <3>1, <3>2, <3>3, <3>4 DEF HeldIfOpen
    <2> QED
      BY <1>3, <2>1, FS_Singleton
  <1> QED
    BY <1>2, <1>3

(***************************************************************************)
(* "Take a client form the list, process it and then put it back": when a  *)
(* task starts before the loop takes another socket, every open socket is  *)
(* held by exactly one of the list, the loop, the pool's queue and the     *)
(* workers, and a closed socket by none; no two workers serve one socket.  *)
(***************************************************************************)
THEOREM SessionsHeldOnce == ASSUME PromptStart PROVE Spec => []HeldOnce
  <1>1. TypeOK /\ HeldInv /\ [Next]_vars => HeldInv'
    BY HeldNext
  <1> QED
    BY <1>1, HeldInit, HeldInvOnce, SessionsTypeCorrect, PTL DEF Spec

(***************************************************************************)
(* The list still has an item when the loop takes its first one, although  *)
(* the mutex was released after its length was tested: a worker removes    *)
(* only the socket it serves, and that one is not in the list.             *)
(***************************************************************************)
THEOREM SessionsTakeNeverEmpty == ASSUME PromptStart PROVE Spec => []TakeNeverEmpty
  <1>1. TypeOK /\ HeldInv /\ [Next]_vars => HeldInv'
    BY HeldNext
  <1>2. HeldInv => TakeNeverEmpty
    BY DEF HeldInv
  <1> QED
    BY <1>1, <1>2, HeldInit, SessionsTypeCorrect, PTL DEF Spec

(***************************************************************************)
(* What a worker is about to receive, or to close                          *)
(***************************************************************************)

\* A client has at most one socket, and none before it connects.
OneSocket ==
  /\ \A g, h \in Handles : owner[g] = owner[h] /\ owner[g] # NoClient => g = h
  /\ \A h \in Handles : owner[h] # NoClient => state[owner[h]] # "new"

\* A client that may be disconnected: it has left, or could not be answered.
MayClose(c) == Gone(c) \/ c \in unanswered

\* What was readable stays readable until its worker receives, and a worker
\* gives a socket up for closing only when its client may be disconnected.
Ready ==
  /\ \A h \in Handles : AsTask(h) => Readable(h)
  /\ \A w \in Workers : wpc[w] = "recv" => Readable(served[w])
  /\ \A w \in Workers : wpc[w] \in {"detach", "remove", "close"} => MayClose(owner[served[w]])

LEMMA ReadyInit == Init => OneSocket /\ Ready
BY DEF Init, OneSocket, Ready, AsTask, Unstarted

LEMMA OneSocketNext == TypeOK /\ OneSocket /\ [Next]_vars => OneSocket'
  <1> SUFFICES ASSUME TypeOK, OneSocket, [Next]_vars PROVE OneSocket'
    OBVIOUS
  <1>1. CASE UNCHANGED vars
    BY <1>1 DEF vars, clientVars, OneSocket
  <1>2. ASSUME NEW c \in Clients, NEW h \in Handles, Connect(c, h) PROVE OneSocket'
    <2>1. /\ \A g \in Handles : owner'[g] = IF g = h THEN c ELSE owner[g]
          /\ \A d \in Clients : state'[d] = IF d = c THEN "up" ELSE state[d]
          /\ state[c] = "new"
      BY <1>2 DEF Connect, TypeOK
    <2>2. \A g \in Handles : owner[g] # c /\ owner[g] \in Clients \cup {NoClient}
      BY <2>1, SessionsAssumption DEF OneSocket, TypeOK
    <2> QED
      BY <2>1, <2>2 DEF OneSocket
  <1>3. ASSUME NEW c \in Clients, AcceptFails(c) \/ Leave(c) \/ \E r \in Requests : Request(c, r)
        PROVE  OneSocket'
    <2>1. /\ owner' = owner /\ \A d \in Clients : state'[d] = state[d] \/ state'[d] = "gone"
      BY <1>3 DEF AcceptFails, Leave, Request, TypeOK
    <2>2. \A g \in Handles : owner[g] \in Clients \cup {NoClient}
      BY DEF TypeOK
    <2> QED
      BY <2>1, <2>2 DEF OneSocket
  <1>4. CASE Loop
    BY <1>4 DEF Loop, CheckLength, TakeFirst, SelectReady, SelectElse, clientVars, OneSocket
  <1>5. ASSUME NEW w \in Workers, Worker(w) PROVE OneSocket'
    <2>1. state' = state /\ \A g \in Handles : owner'[g] \in {owner[g], NoClient}
      BY <1>5 DEF Worker, PopTask, CallHandler, Recv, RecvNothing, Process, ProcessFails, PutBack,
                  Detach, RemoveItem, Close, clientVars, TypeOK
    <2> QED
      BY <2>1 DEF OneSocket
  <1> QED
    BY <1>1, <1>2, <1>3, <1>4, <1>5 DEF Next, ClientStep

\* Nothing a client does makes its socket less readable.
LEMMA ReadyClientStep ==
  ASSUME TypeOK, HeldInv, OneSocket, Ready, NEW c \in Clients, ClientStep(c)
  PROVE  Ready'
  <1>1. UNCHANGED <<loopVars, poolVars>>
    BY DEF ClientStep, Connect, AcceptFails, Request, Leave
  <1>2. \A h : AsTask(h)' <=> AsTask(h)
    BY <1>1 DEF loopVars, poolVars, queueVars, AsTask, Unstarted
  <1>3. \A h \in Handles : owner[h] # NoClient => owner'[h] = owner[h]
    BY DEF ClientStep, Connect, AcceptFails, Request, Leave, TypeOK
  <1>4. \A d \in Clients : state[d] = "gone" => state'[d] = "gone"
    BY DEF ClientStep, Connect, AcceptFails, Request, Leave, TypeOK
  <1>5. \A d \in Clients : inbox[d] # <<>> => inbox'[d] # <<>>
    <2>1. CASE inbox' = inbox
      BY <2>1
    <2>2. ASSUME NEW r \in Requests, Request(c, r)
          PROVE  \A d \in Clients : inbox[d] # <<>> => inbox'[d] # <<>>
      <3>1. inbox[c] \in Seq(Requests)
        BY DEF TypeOK
      <3>2. Append(inbox[c], r) # <<>>
        BY <3>1, AppendProperties
      <3>3. \A d \in Clients : inbox'[d] = IF d = c THEN Append(inbox[c], r) ELSE inbox[d]
        BY <2>2 DEF Request, TypeOK
      <3> QED
        BY <3>2, <3>3
    <2> QED
      BY <2>1, <2>2 DEF ClientStep, Connect, AcceptFails, Leave
  <1>6. \A h \in Handles : owner[h] \in Clients \cup {NoClient}
    BY DEF TypeOK
  <1>7. \A h \in Handles : /\ Gone(owner[h]) => Gone(owner[h])'
                           /\ owner[h] # NoClient /\ MayClose(owner[h]) => MayClose(owner[h])'
    <2>1. unanswered' = unanswered
      BY DEF ClientStep, Connect, AcceptFails, Request, Leave
    <2> QED
      BY <1>3, <1>4, <1>6, <2>1 DEF Gone, MayClose
  <1>8. \A h \in Handles : Readable(h) => Readable(h)'
    BY <1>3, <1>5, <1>6, <1>7 DEF Readable, InboxOf
  <1>9. \A w \in Workers : Serving(w) => served[w] \in Handles /\ owner[served[w]] # NoClient
    BY DEF HeldInv, HeldIfOpen, AtWorker
  <1> QED
    BY <1>1, <1>2, <1>7, <1>8, <1>9 DEF poolVars, queueVars, Ready, Serving

LEMMA ReadyLoop ==
  ASSUME Ready, HeldInv, Loop
  PROVE  Ready'
  <1>1. UNCHANGED <<state, owner, inbox, wpc, served, unanswered>>
    BY DEF Loop, CheckLength, TakeFirst, SelectReady, SelectElse, clientVars, poolVars, queueVars
  <1>2. \A h : (Readable(h)' <=> Readable(h)) /\ (MayClose(owner[h])' <=> MayClose(owner[h]))
    BY <1>1 DEF Readable, InboxOf, Gone, MayClose
  <1>3. \A h \in Handles : AsTask(h)' => AsTask(h) \/ Readable(h)
    <2>1. CASE CheckLength
      BY <2>1 DEF CheckLength, poolVars, queueVars, AsTask, Unstarted, HeldInv, OneTask
    <2>2. CASE TakeFirst
      BY <2>2 DEF TakeFirst, AsTask
    <2>3. CASE SelectReady
      BY <2>3 DEF SelectReady, AsTask
    <2>4. CASE SelectElse
      BY <2>4 DEF SelectElse, poolVars, queueVars, AsTask, Unstarted, HeldInv, OneTask
    <2> QED
      BY <2>1, <2>2, <2>3, <2>4 DEF Loop
  <1> QED
    BY <1>1, <1>2, <1>3 DEF Ready

\* A worker receives from, and closes, its own socket only.
LEMMA ReadyWorker ==
  ASSUME TypeOK, HeldInv, OneSocket, Ready, NEW w \in Workers, Worker(w)
  PROVE  Ready'
  <1> DEFINE s == served[w]
  <1>1. loopVars' = loopVars /\ state' = state /\ unanswered \subseteq unanswered'
    BY DEF Worker, PopTask, CallHandler, Recv, RecvNothing, Process, ProcessFails, PutBack, Detach, RemoveItem, Close,
           clientVars
  <1>2. \A h \in Handles : owner[h] \in Clients \cup {NoClient}
    BY DEF TypeOK
  <1>3. \A v \in Workers : wpc[v] \in {"recv", "process", "detach", "remove", "close"} =>
          served[v] \in Handles /\ owner[served[v]] # NoClient
    BY DEF HeldInv, HeldIfOpen, AtWorker, Serving
  \* The others' sockets and clients are others.
  <1>4. ASSUME Serving(w), NEW h \in Handles,
               AsTask(h) \/ \E v \in Workers : v # w /\ Serving(v) /\ h = served[v]
        PROVE  h # s /\ owner[h] # NoClient /\ owner[h] # owner[s]
    <2>1. s \in Handles /\ h # s
      BY <1>3, <1>4 DEF Serving, HeldInv, NoneTwice, AtWorker
    <2>2. owner[h] # NoClient
      BY <1>4 DEF HeldInv, HeldIfOpen, AtWorker
    <2> QED
      BY <2>1, <2>2 DEF OneSocket
  <1>5. CASE PopTask(w)
    <2>1. /\ UNCHANGED <<owner, inbox, served>>
          /\ \A v \in Workers : wpc'[v] = IF v = w THEN "called" ELSE wpc[v]
          /\ tasks > 0
      BY <1>5 DEF PopTask, Goto, TypeOK
    <2>2. \A h \in Handles : AsTask(h)' => AsTask(h)
      BY <1>1, <2>1 DEF loopVars, AsTask, Unstarted
    <2> QED
      BY <1>1, <2>1, <2>2 DEF Ready, Readable, InboxOf, Gone, MayClose
  <1>6. CASE CallHandler(w)
    <2>1. /\ UNCHANGED <<owner, inbox, tasks>> /\ wpc[w] = "called"
          /\ \A v \in Workers : wpc'[v] = IF v = w THEN "recv" ELSE wpc[v]
          /\ \A v \in Workers : served'[v] = IF v = w THEN current ELSE served[v]
      BY <1>6 DEF CallHandler, Goto, TypeOK
    <2>2. AsTask(current) /\ current \in Handles
      BY <2>1 DEF HeldInv, OneTask, AsTask, Unstarted
    <2>3. \A h \in Handles : AsTask(h)' => AsTask(h)
      BY <1>1, <2>1 DEF loopVars, AsTask, Unstarted
    <2> QED
      BY <1>1, <2>1, <2>2, <2>3 DEF Ready, Readable, InboxOf, Gone, MayClose
  <1>7. ASSUME Serving(w), UNCHANGED <<tasks, served>>,
               \A v \in Workers : v # w => wpc'[v] = wpc[v],
               wpc'[w] # "called", wpc[w] # "called",
               wpc'[w] = "recv" => Readable(s)',
               wpc'[w] \in {"detach", "remove", "close"} => MayClose(owner[s])',
               owner' = owner, \A d \in Clients : d # owner[s] => inbox'[d] = inbox[d]
        PROVE  Ready'
    <2>1. \A h \in Handles : AsTask(h)' => AsTask(h)
      BY <1>1, <1>7 DEF loopVars, AsTask, Unstarted
    <2>2. \A h \in Handles : owner[h] # NoClient /\ owner[h] # owner[s] => Readable(h)' = Readable(h)
      BY <1>1, <1>2, <1>7 DEF Readable, InboxOf, Gone
    <2>3. \A h \in Handles : AsTask(h)' => Readable(h)'
      BY <1>4, <1>7, <2>1, <2>2 DEF Ready
    <2>4. \A v \in Workers : wpc'[v] = "recv" => Readable(served[v])'
      BY <1>3, <1>4, <1>7, <2>2 DEF Ready, Serving
    <2>5. \A v \in Workers : wpc'[v] \in {"detach", "remove", "close"} => MayClose(owner[served[v]])'
      BY <1>1, <1>7 DEF Ready, Gone, MayClose
    <2> QED
      BY <2>3, <2>4, <2>5 DEF Ready
  <1>8. CASE Recv(w)
    <2>1. Serving(w) /\ s \in Handles /\ owner[s] \in Clients
      BY <1>2, <1>3, <1>8 DEF Recv, Serving
    <2>2. \A d \in Clients : d # owner[s] => inbox'[d] = inbox[d]
      BY <1>8, <2>1 DEF Recv, TypeOK
    <2>3. /\ UNCHANGED <<owner, tasks, served>> /\ wpc[w] = "recv"
          /\ \A v \in Workers : wpc'[v] = IF v = w THEN "process" ELSE wpc[v]
      BY <1>8 DEF Recv, Goto, TypeOK
    <2> QED
      BY <1>7, <2>1, <2>2, <2>3
  <1>9. CASE RecvNothing(w)
    <2>1. /\ UNCHANGED <<owner, inbox, tasks, served>> /\ wpc[w] = "recv"
          /\ \A v \in Workers : wpc'[v] = IF v = w THEN "detach" ELSE wpc[v]
          /\ InboxOf(s) = <<>> \/ Gone(owner[s])
      BY <1>9 DEF RecvNothing, Goto, TypeOK
    <2>2. Gone(owner[s])
      BY <2>1 DEF Ready, Readable
    <2>3. Serving(w) /\ MayClose(owner[s])'
      BY <1>1, <2>1, <2>2 DEF Serving, Gone, MayClose
    <2> QED
      BY <1>7, <2>1, <2>3
  <1>10. CASE Process(w)
    <2>1. /\ UNCHANGED <<owner, inbox, tasks, served, wpc>> /\ wpc[w] = "process"
      BY <1>10 DEF Process
    <2> QED
      BY <1>7, <2>1 DEF Serving
  <1>11. CASE ProcessFails(w)
    <2>1. /\ UNCHANGED <<owner, inbox, tasks, served>> /\ wpc[w] = "process"
          /\ \A v \in Workers : wpc'[v] = IF v = w THEN "detach" ELSE wpc[v]
          /\ unanswered' = unanswered \cup ({owner[s]} \ {NoClient})
      BY <1>11 DEF ProcessFails, Goto, TypeOK
    <2>2. owner[s] # NoClient /\ Serving(w)
      BY <1>3, <2>1 DEF Serving
    <2>3. MayClose(owner[s])'
      BY <2>1, <2>2 DEF MayClose
    <2> QED
      BY <1>7, <2>1, <2>2, <2>3
  <1>12. CASE Detach(w) \/ RemoveItem(w)
    <2>1. /\ UNCHANGED <<owner, inbox, tasks, served>> /\ wpc[w] \in {"detach", "remove"}
          /\ \A v \in Workers : wpc'[v] = IF v = w THEN wpc'[w] ELSE wpc[v]
          /\ wpc'[w] \in {"remove", "close"}
      BY <1>12 DEF Detach, RemoveItem, Goto, TypeOK
    <2>2. MayClose(owner[s])
      BY <2>1 DEF Ready
    <2>3. MayClose(owner[s])' /\ Serving(w)
      BY <1>1, <2>1, <2>2 DEF Gone, MayClose, Serving
    <2> QED
      BY <1>7, <2>1, <2>3
  <1>13. CASE PutBack(w) \/ Close(w)
    <2>1. /\ UNCHANGED <<inbox, tasks>> /\ Serving(w) /\ wpc[w] # "called"
          /\ \A v \in Workers : wpc'[v] = IF v = w THEN "idle" ELSE wpc[v]
          /\ \A v \in Workers : v # w => served'[v] = served[v]
          /\ \A h \in Handles : h # s => owner'[h] = owner[h]
          /\ unanswered' = unanswered
      BY <1>13 DEF PutBack, Close, Return, Goto, Serving, TypeOK
    <2>2. \A h \in Handles : AsTask(h)' => AsTask(h)
      BY <1>1, <2>1 DEF loopVars, AsTask, Unstarted
    <2>3. \A h \in Handles : h # s => Readable(h)' = Readable(h) /\ MayClose(owner[h])' = MayClose(owner[h])
      BY <1>1, <2>1 DEF Readable, InboxOf, Gone, MayClose
    <2>4. \A h \in Handles : AsTask(h)' => Readable(h)'
      BY <1>4, <2>1, <2>2, <2>3 DEF Ready
    <2>5. ASSUME NEW v \in Workers, v # w, Serving(v)
          PROVE  served[v] \in Handles /\ served[v] # s
      BY <1>3, <1>4, <2>1, <2>5 DEF Serving
    <2>6. \A v \in Workers : wpc'[v] = "recv" => Readable(served[v])'
      BY <2>1, <2>3, <2>5 DEF Ready, Serving
    <2>7. \A v \in Workers : wpc'[v] \in {"detach", "remove", "close"} => MayClose(owner[served[v]])'
      BY <2>1, <2>3, <2>5 DEF Ready, Serving
    <2> QED
      BY <2>4, <2>6, <2>7 DEF Ready
  <1> QED
    BY <1>5, <1>6, <1>8, <1>9, <1>10, <1>11, <1>12, <1>13 DEF Worker

LEMMA ReadyNext == TypeOK /\ HeldInv /\ OneSocket /\ Ready /\ [Next]_vars => Ready'
  <1> SUFFICES ASSUME TypeOK, HeldInv, OneSocket, Ready, [Next]_vars PROVE Ready'
    OBVIOUS
  <1>1. CASE UNCHANGED vars
    BY <1>1 DEF vars, clientVars, loopVars, poolVars, queueVars, Ready, AsTask, Unstarted, Readable, InboxOf, Gone, MayClose
  <1> QED
    BY <1>1, ReadyClientStep, ReadyLoop, ReadyWorker DEF Next

\* Only Close closes a socket, and its client may be disconnected then.
LEMMA ClosesAllowed ==
  ASSUME TypeOK, Ready, [Next]_vars
  PROVE  \A h \in Handles : owner[h] # NoClient /\ owner'[h] = NoClient => MayClose(owner[h])
  <1>1. CASE UNCHANGED vars
    BY <1>1 DEF vars
  <1>2. ASSUME NEW c \in Clients, ClientStep(c)
        PROVE  \A h \in Handles : owner[h] # NoClient => owner'[h] = owner[h]
    BY <1>2 DEF ClientStep, Connect, AcceptFails, Request, Leave, TypeOK
  <1>3. CASE Loop
    BY <1>3 DEF Loop, CheckLength, TakeFirst, SelectReady, SelectElse
  <1>4. ASSUME NEW w \in Workers, Worker(w)
        PROVE  \A h \in Handles : owner[h] # NoClient /\ owner'[h] = NoClient => MayClose(owner[h])
    <2>1. CASE Close(w)
      <3>1. MayClose(owner[served[w]]) /\ \A h \in Handles : h # served[w] => owner'[h] = owner[h]
        BY <2>1 DEF Close, Ready, TypeOK
      <3> QED
        BY <3>1
    <2>2. CASE ~Close(w)
      BY <1>4, <2>2 DEF Worker, PopTask, CallHandler, Recv, RecvNothing, Process, ProcessFails, PutBack, Detach,
                  RemoveItem
    <2> QED
      BY <2>1, <2>2
  <1> QED
    BY <1>1, <1>2, <1>3, <1>4 DEF Next

(***************************************************************************)
(* A socket is closed only after its client has left or a response to it   *)
(* could not be sent, for whatever reason: between select and recv nobody  *)
(* else receives from it, so recv never finds nothing to read on a socket  *)
(* whose client is there.                                                  *)
(***************************************************************************)
THEOREM SessionsHealthyKept == ASSUME PromptStart PROVE Spec => HealthyKept
  <1>1. TypeOK /\ HeldInv /\ [Next]_vars => HeldInv'
    BY HeldNext
  <1>2. TypeOK /\ Ready /\ [Next]_vars =>
          \A h \in Handles : owner[h] # NoClient /\ owner'[h] = NoClient => MayClose(owner[h])
    BY ClosesAllowed
  <1> QED
    BY <1>1, <1>2, HeldInit, ReadyInit, OneSocketNext, ReadyNext, SessionsTypeCorrect, PTL
       DEF Spec, HealthyKept, MayClose

(***************************************************************************)
(* Who asked for what                                                      *)
(***************************************************************************)
AskedFirst ==
  /\ \A c \in Clients : inbox[c] \in Seq(Range(asked[c]))
  /\ \A w \in Workers : Serving(w) => buffer[w] \in Seq(Range(asked[owner[served[w]]]))
  /\ \A w \in Workers : wpc[w] # "process" => buffer[w] = <<>>

\* Only queues that were passed over stay connected to a detached socket.
Detached ==
  \A w \in Workers, q \in Queues :
    wpc[w] \in {"remove", "close"} /\ connected[q] = served[w] => q \in passed

AskedInv == AskedFirst /\ Detached /\ ConnectedToAsker

\* The entries of a sequence after one more.
LEMMA RangeAppend ==
  ASSUME NEW S, NEW s \in Seq(S), NEW x \in S
  PROVE  Range(Append(s, x)) = Range(s) \cup {x}
  <1> DEFINE t == Append(s, x)
  <1>1. /\ Len(s) \in Nat /\ DOMAIN s = 1..Len(s) /\ DOMAIN t = 1..(Len(s) + 1)
        /\ \A i \in 1..(Len(s) + 1) : t[i] = IF i = Len(s) + 1 THEN x ELSE s[i]
    BY AppendEntries
  <1>2. Len(s) + 1 \in DOMAIN t /\ t[Len(s) + 1] = x
    BY <1>1
  <1>3. \A i \in DOMAIN s : i \in DOMAIN t /\ t[i] = s[i]
    BY <1>1
  <1>4. \A i \in DOMAIN t : t[i] = x \/ (i \in DOMAIN s /\ t[i] = s[i])
    BY <1>1
  <1> HIDE DEF t
  <1> QED
    BY <1>2, <1>3, <1>4 DEF Range

LEMMA AskedInit == Init => AskedInv
  <1> SUFFICES ASSUME Init PROVE AskedInv
    OBVIOUS
  <1>1. AskedFirst
    BY EmptySeq DEF Init, AskedFirst, Serving
  <1>2. Detached /\ ConnectedToAsker
    BY DEF Init, Detached, ConnectedToAsker
  <1> QED
    BY <1>1, <1>2 DEF AskedInv

\* A client sends a request: it is asked before it is in the kernel.
LEMMA AskedRequest ==
  ASSUME TypeOK, HeldInv, AskedInv, NEW c \in Clients, NEW r \in Requests, Request(c, r)
  PROVE  AskedInv'
  <1>1. /\ \A d \in Clients : asked'[d] = IF d = c THEN Append(asked[c], r) ELSE asked[d]
        /\ \A d \in Clients : inbox'[d] = IF d = c THEN Append(inbox[c], r) ELSE inbox[d]
        /\ UNCHANGED <<owner, wpc, served, buffer, connected, passed>>
    BY DEF Request, poolVars, queueVars, TypeOK
  <1>2. asked[c] \in Seq(Requests)
    BY DEF TypeOK
  <1>3. \A d \in Clients : Range(asked'[d]) = Range(asked[d]) \cup (IF d = c THEN {r} ELSE {})
    BY <1>1, <1>2, RangeAppend
  <1>4. \A d \in Clients : Range(asked[d]) \subseteq Range(asked'[d])
    BY <1>3
  <1>5. \A w \in Workers : Serving(w) => owner[served[w]] \in Clients
    BY DEF HeldInv, HeldIfOpen, AtWorker, TypeOK
  <1>6. AskedFirst'
    <2>1. ASSUME NEW d \in Clients PROVE inbox'[d] \in Seq(Range(asked'[d]))
      <3>1. inbox[d] \in Seq(Range(asked'[d]))
        BY <1>4, SeqMonotonic DEF AskedInv, AskedFirst
      <3>2. CASE d = c
        <4>1. r \in Range(asked'[c])
          BY <1>3
        <4>2. Append(inbox[c], r) \in Seq(Range(asked'[c]))
          BY <3>1, <3>2, <4>1, AppendProperties
        <4> QED
          BY <1>1, <3>2, <4>2
      <3> QED
        BY <1>1, <3>1, <3>2
    <2>2. ASSUME NEW w \in Workers, Serving(w) PROVE buffer[w] \in Seq(Range(asked'[owner[served[w]]]))
      <3>1. buffer[w] \in Seq(Range(asked[owner[served[w]]])) /\ owner[served[w]] \in Clients
        BY <1>5, <2>2 DEF AskedInv, AskedFirst
      <3>2. Range(asked[owner[served[w]]]) \subseteq Range(asked'[owner[served[w]]])
        BY <1>1, <1>4, <3>1
      <3> QED
        BY <3>1, <3>2, SeqMonotonic
    <2>3. \A w : Serving(w)' <=> Serving(w)
      BY <1>1 DEF Serving
    <2> QED
      BY <1>1, <2>1, <2>2, <2>3 DEF AskedInv, AskedFirst
  <1>8. Detached'
    BY <1>1 DEF AskedInv, Detached
  <1>9. ConnectedToAsker'
    <2> SUFFICES ASSUME NEW q \in Queues, connected[q] # NoHandle, q \notin passed
                 PROVE  /\ owner[connected[q]] # NoClient
                        /\ [op |-> "connect", queue |-> q] \in Range(asked'[owner[connected[q]]])
      BY <1>1 DEF ConnectedToAsker, BelongsToAsker
    <2>1. /\ owner[connected[q]] # NoClient
          /\ [op |-> "connect", queue |-> q] \in Range(asked[owner[connected[q]]])
      BY DEF AskedInv, ConnectedToAsker, BelongsToAsker
    <2>2. owner[connected[q]] \in Clients
      BY <2>1 DEF TypeOK
    <2>3. Range(asked[owner[connected[q]]]) \subseteq Range(asked'[owner[connected[q]]])
      BY <1>1, <1>4, <2>2
    <2> QED
      BY <2>1, <2>3
  <1> QED
    BY <1>6, <1>8, <1>9 DEF AskedInv

\* The other steps of the clients and of the accept thread, and the loop: a
\* new socket is one that nobody serves and no queue is connected to.
LEMMA AskedElsewhere ==
  ASSUME TypeOK, HeldInv, AskedInv,
         UNCHANGED <<asked, inbox, wpc, served, buffer, queueVars>>,
         \A h \in Handles : owner[h] # NoClient => owner'[h] = owner[h]
  PROVE  AskedInv'
  <1>1. \A d : Range(asked'[d]) = Range(asked[d])
    OBVIOUS
  <1>2. \A w : Serving(w)' <=> Serving(w)
    BY DEF Serving
  <1>3. \A w \in Workers : Serving(w) => owner'[served[w]] = owner[served[w]]
    BY DEF HeldInv, HeldIfOpen, AtWorker
  <1>4. AskedFirst'
    BY <1>1, <1>2, <1>3 DEF AskedInv, AskedFirst
  <1>5. Detached'
    BY DEF AskedInv, Detached, queueVars
  <1>6. \A q \in Queues : connected[q] # NoHandle /\ q \notin passed =>
          owner'[connected[q]] = owner[connected[q]]
    BY DEF AskedInv, ConnectedToAsker, BelongsToAsker, TypeOK
  <1>7. ConnectedToAsker'
    BY <1>6 DEF AskedInv, ConnectedToAsker, BelongsToAsker, queueVars
  <1> QED
    BY <1>4, <1>5, <1>7 DEF AskedInv

LEMMA AskedClientStep ==
  ASSUME TypeOK, HeldInv, AskedInv, NEW c \in Clients, ClientStep(c)
  PROVE  AskedInv'
  <1>1. CASE \E r \in Requests : Request(c, r)
    BY <1>1, AskedRequest
  <1>2. CASE (\E h \in Handles : Connect(c, h)) \/ AcceptFails(c) \/ Leave(c)
    <2>1. /\ UNCHANGED <<asked, inbox, wpc, served, buffer, queueVars>>
          /\ \A h \in Handles : owner[h] # NoClient => owner'[h] = owner[h]
      BY <1>2 DEF Connect, AcceptFails, Leave, poolVars, queueVars, TypeOK
    <2> QED
      BY <2>1, AskedElsewhere
  <1> QED
    BY <1>1, <1>2 DEF ClientStep

LEMMA AskedLoop ==
  ASSUME TypeOK, HeldInv, AskedInv, Loop
  PROVE  AskedInv'
  <1>1. UNCHANGED <<asked, inbox, owner, wpc, served, buffer, queueVars>>
    BY DEF Loop, CheckLength, TakeFirst, SelectReady, SelectElse, clientVars, poolVars, queueVars
  <1> QED
    BY <1>1, AskedElsewhere

\* What a worker does to requests: they stay those of the socket's client.
LEMMA AskedFirstWorker ==
  ASSUME TypeOK, HeldInv, AskedInv, NEW w \in Workers, Worker(w)
  PROVE  AskedFirst'
  <1> DEFINE s == served[w]
  <1>1. AskedFirst /\ asked' = asked
    BY DEF AskedInv, Worker, PopTask, CallHandler, Recv, RecvNothing, Process, ProcessFails, PutBack,
           Detach, RemoveItem, Close, clientVars
  <1>2. \A d : Range(asked'[d]) = Range(asked[d])
    BY <1>1
  <1>3. \A v \in Workers : v # w => /\ wpc'[v] = wpc[v] /\ served'[v] = served[v]
                                    /\ buffer'[v] = buffer[v]
                                    /\ Serving(v)' <=> Serving(v)
    BY DEF Worker, PopTask, CallHandler, Recv, RecvNothing, Process, ProcessFails, PutBack, Detach, RemoveItem,
           Close, Return, Goto, Serving, TypeOK
  <1>4. \A v \in Workers : v # w /\ Serving(v) => owner'[served[v]] = owner[served[v]]
    <2>1. CASE Close(w)
      <3>1. \A h \in Handles : h # s => owner'[h] = owner[h]
        BY <2>1 DEF Close, TypeOK
      <3>2. Serving(w)
        BY <2>1 DEF Close, Serving
      <3> QED
        BY <3>1, <3>2 DEF HeldInv, HeldIfOpen, NoneTwice
    <2>2. CASE ~Close(w)
      BY <2>2 DEF Worker, PopTask, CallHandler, Recv, RecvNothing, Process, ProcessFails, PutBack, Detach,
                  RemoveItem
    <2> QED
      BY <2>1, <2>2
  <1>5. \A v \in Workers : v # w /\ Serving(v)' => (buffer[v] \in Seq(Range(asked[owner[served[v]]])))'
    BY <1>1, <1>2, <1>3, <1>4 DEF AskedFirst
  <1>6. ASSUME inbox' = inbox, Serving(w)' => (buffer[w] \in Seq(Range(asked[owner[served[w]]])))',
               wpc'[w] # "process" => buffer'[w] = <<>>
        PROVE  AskedFirst'
    BY <1>1, <1>2, <1>3, <1>5, <1>6 DEF AskedFirst
  <1>7. CASE PopTask(w) \/ CallHandler(w) \/ RecvNothing(w) \/ PutBack(w) \/ Detach(w)
            \/ RemoveItem(w) \/ Close(w)
    <2>1. inbox' = inbox /\ buffer' = buffer
      BY <1>7 DEF PopTask, CallHandler, RecvNothing, PutBack, Detach, RemoveItem, Close
    <2>2. buffer[w] = <<>>
      BY <1>1, <1>7 DEF PopTask, CallHandler, RecvNothing, PutBack, Detach, RemoveItem, Close, AskedFirst
    <2> QED
      BY <1>6, <2>1, <2>2, EmptySeq
  <1>8. CASE Recv(w)
    <2> DEFINE o == owner[s]
    <2>1. wpc[w] = "recv" /\ Serving(w) /\ s \in Handles
      BY <1>8 DEF Recv, Serving, HeldInv, HeldIfOpen
    <2>2. o \in Clients /\ InboxOf(s) = inbox[o]
      BY <2>1 DEF HeldInv, HeldIfOpen, AtWorker, InboxOf, TypeOK
    <2>3. PICK k \in 1..Len(inbox[o]) :
            /\ buffer' = [buffer EXCEPT ![w] = SubSeq(inbox[o], 1, k)]
            /\ inbox' = [inbox EXCEPT ![o] = SubSeq(inbox[o], k + 1, Len(inbox[o]))]
      BY <1>8, <2>2 DEF Recv
    <2>4. /\ SubSeq(inbox[o], 1, k) \in Seq(Range(asked[o]))
          /\ SubSeq(inbox[o], k + 1, Len(inbox[o])) \in Seq(Range(asked[o]))
      <3>1. inbox[o] \in Seq(Range(asked[o]))
        BY <1>1, <2>2 DEF AskedFirst
      <3> QED
        BY <2>3, <3>1, SplitTypes
    <2>5. \A d \in Clients : inbox'[d] \in Seq(Range(asked[d]))
      BY <1>1, <2>2, <2>3, <2>4 DEF AskedFirst, TypeOK
    <2>6. buffer'[w] \in Seq(Range(asked[o]))
      BY <2>3, <2>4 DEF TypeOK
    <2>7. UNCHANGED <<owner, served>> /\ wpc'[w] = "process"
      BY <1>8 DEF Recv, Goto, TypeOK
    <2> HIDE DEF o
    <2>8. (buffer[w] \in Seq(Range(asked[owner[served[w]]])))'
      BY <1>2, <2>6, <2>7 DEF o
    <2> QED
      BY <1>1, <1>2, <1>3, <1>5, <2>5, <2>7, <2>8 DEF AskedFirst
  <1>9. CASE Process(w) \/ ProcessFails(w)
    <2>1. UNCHANGED <<inbox, owner, served>> /\ Serving(w) /\ buffer[w] # <<>>
      BY <1>9 DEF Process, ProcessFails, Serving
    <2>2. buffer[w] \in Seq(Range(asked[owner[s]]))
      BY <1>1, <2>1 DEF AskedFirst
    <2>3. Tail(buffer[w]) \in Seq(Range(asked[owner[s]])) /\ <<>> \in Seq(Range(asked[owner[s]]))
      BY <2>1, <2>2, TailEntries, EmptySeq
    <2>4. buffer'[w] \in {Tail(buffer[w]), <<>>}
      BY <1>9 DEF Process, ProcessFails, TypeOK
    <2>5. (buffer[w] \in Seq(Range(asked[owner[served[w]]])))'
      BY <1>1, <2>1, <2>3, <2>4
    <2>6. wpc'[w] # "process" => buffer'[w] = <<>>
      BY <1>9 DEF Process, ProcessFails, Goto, TypeOK
    <2> QED
      BY <1>6, <2>1, <2>5, <2>6
  <1> QED
    BY <1>7, <1>8, <1>9 DEF Worker

\* What a worker does to a queue's connection: it connects its own socket, for
\* a request of the socket's client, and it detaches its own before closing it.
LEMMA ConnectedWorker ==
  ASSUME TypeOK, HeldInv, AskedInv, NEW w \in Workers, Worker(w)
  PROVE  Detached' /\ ConnectedToAsker'
  <1> DEFINE s == served[w]
             Wants(h, q) == [op |-> "connect", queue |-> q] \in Range(asked[owner[h]])
  <1>1. asked' = asked /\ Detached /\ ConnectedToAsker /\ AskedFirst
    BY DEF AskedInv, Worker, PopTask, CallHandler, Recv, RecvNothing, Process, ProcessFails, PutBack,
           Detach, RemoveItem, Close, clientVars
  <1>2. \A q \in Queues : connected[q] # NoHandle /\ q \notin passed =>
                           owner[connected[q]] # NoClient /\ Wants(connected[q], q)
    BY <1>1 DEF ConnectedToAsker, BelongsToAsker
  <1>3. Serving(w) => s \in Handles /\ s # NoHandle /\ owner[s] \in Clients /\ owner[s] # NoClient
    BY SessionsAssumption DEF HeldInv, HeldIfOpen, AtWorker, TypeOK
  <1>4. \A v \in Workers : v # w => wpc'[v] = wpc[v] /\ served'[v] = served[v]
    BY DEF Worker, PopTask, CallHandler, Recv, RecvNothing, Process, ProcessFails, PutBack, Detach,
           RemoveItem, Close, Return, Goto, TypeOK
  <1>5. \A v \in Workers : wpc[v] \in {"remove", "close"} =>
                              served[v] # NoHandle /\ (Serving(w) /\ v # w => served[v] # s)
    BY SessionsAssumption DEF HeldInv, HeldIfOpen, NoneTwice, Serving
  <1>6. CASE PopTask(w) \/ CallHandler(w) \/ Recv(w) \/ RecvNothing(w) \/ PutBack(w)
    <2>1. UNCHANGED <<owner, connected, passed>> /\ wpc'[w] \notin {"remove", "close"}
      BY <1>6 DEF PopTask, CallHandler, Recv, RecvNothing, PutBack, Return, Goto, queueVars, TypeOK
    <2> QED
      BY <1>1, <1>4, <2>1 DEF Detached, ConnectedToAsker, BelongsToAsker
  <1>7. CASE Process(w) \/ ProcessFails(w)
    <2> DEFINE r == Head(buffer[w])
    <2>1. /\ owner' = owner /\ passed' = passed /\ Serving(w) /\ buffer[w] # <<>>
          /\ wpc'[w] \notin {"remove", "close"}
      BY <1>7 DEF Process, ProcessFails, Goto, Serving, TypeOK
    <2>2. r \in Range(asked[owner[s]]) /\ r \in Requests
      BY <1>1, <2>1, TailEntries DEF AskedFirst, TypeOK
    <2>3. \A q \in Queues :
          \/ connected'[q] = connected[q]
          \/ connected'[q] = s /\ r.op = "connect" /\ r.queue = q
      BY <1>7, <2>2 DEF Process, ProcessFails, ConnectIfFree, TypeOK
    <2>4. \A q \in Queues : r.op = "connect" /\ r.queue = q => r = [op |-> "connect", queue |-> q]
      BY <2>2 DEF Requests
    <2>5. \A q \in Queues : connected'[q] # NoHandle /\ q \notin passed =>
                             owner[connected'[q]] # NoClient /\ Wants(connected'[q], q)
      <3> HIDE DEF r
      <3> QED
        BY <1>2, <1>3, <2>1, <2>2, <2>3, <2>4, SessionsAssumption
    <2>6. ConnectedToAsker'
      BY <1>1, <2>1, <2>5 DEF ConnectedToAsker, BelongsToAsker
    <2>7. Detached'
      BY <1>1, <1>4, <1>5, <2>1, <2>3 DEF Detached
    <2> QED
      BY <2>6, <2>7
  <1>8. CASE Detach(w)
    <2>1. /\ owner' = owner /\ Serving(w) /\ served' = served
          /\ \A q \in Queues : connected'[q] \in {connected[q], NoHandle}
          /\ passed' = {q \in Queues : /\ connected'[q] # NoHandle
                                       /\ q \in passed \/ connected[q] = s}
      BY <1>8 DEF Detach, Serving
    <2>2. \A q \in Queues : connected'[q] # NoHandle /\ q \notin passed' =>
            connected'[q] = connected[q] /\ q \notin passed
      BY <2>1
    <2>3. ConnectedToAsker'
      BY <1>1, <2>1, <2>2 DEF ConnectedToAsker, BelongsToAsker
    <2>4. \A q \in Queues : connected'[q] = s => q \in passed'
      BY <1>3, <2>1
    <2>5. \A v \in Workers, q \in Queues :
            v # w /\ wpc[v] \in {"remove", "close"} /\ connected'[q] = served[v] => q \in passed'
      BY <1>1, <1>5, <2>1 DEF Detached
    <2>6. Detached'
      BY <1>4, <2>1, <2>4, <2>5 DEF Detached
    <2> QED
      BY <2>3, <2>6
  <1>9. CASE RemoveItem(w)
    <2>1. /\ UNCHANGED <<owner, connected, passed, served>> /\ wpc[w] = "remove"
      BY <1>9 DEF RemoveItem, queueVars
    <2>2. ConnectedToAsker'
      BY <1>1, <2>1 DEF ConnectedToAsker, BelongsToAsker
    <2>3. Detached'
      BY <1>1, <1>4, <2>1 DEF Detached
    <2> QED
      BY <2>2, <2>3
  <1>10. CASE Close(w)
    <2>1. /\ UNCHANGED <<connected, passed>> /\ wpc[w] = "close" /\ wpc'[w] = "idle"
          /\ \A h \in Handles : h # s => owner'[h] = owner[h]
      BY <1>10 DEF Close, Return, Goto, queueVars, TypeOK
    <2>2. \A q \in Queues : connected[q] = s => q \in passed
      BY <1>1, <2>1 DEF Detached
    <2>3. \A q \in Queues : connected[q] # NoHandle /\ q \notin passed =>
            owner'[connected[q]] = owner[connected[q]]
      BY <2>1, <2>2 DEF TypeOK
    <2>4. ConnectedToAsker'
      BY <1>1, <2>1, <2>3 DEF ConnectedToAsker, BelongsToAsker
    <2>5. Detached'
      BY <1>1, <1>4, <2>1 DEF Detached
    <2> QED
      BY <2>4, <2>5
  <1> QED
    BY <1>6, <1>7, <1>8, <1>9, <1>10 DEF Worker

LEMMA AskedNext == TypeOK /\ HeldInv /\ AskedInv /\ [Next]_vars => AskedInv'
  <1> SUFFICES ASSUME TypeOK, HeldInv, AskedInv, [Next]_vars PROVE AskedInv'
    OBVIOUS
  <1>1. CASE UNCHANGED vars
    BY <1>1, AskedElsewhere DEF vars, clientVars, poolVars
  <1>2. ASSUME NEW w \in Workers, Worker(w) PROVE AskedInv'
    BY <1>2, AskedFirstWorker, ConnectedWorker DEF AskedInv
  <1> QED
    BY <1>1, <1>2, AskedClientStep, AskedLoop DEF Next

(***************************************************************************)
(* A queue is connected to a socket that is open and whose client asked    *)
(* for that queue, also when the value of a closed socket is used again    *)
(* and while another worker detaches, removes and closes one - unless the  *)
(* cleanup of its socket passed the queue over, having freed another one   *)
(* of the same client (run sessions_two_queues shows that this happens).   *)
(***************************************************************************)
THEOREM SessionsConnectedToAsker ==
  ASSUME PromptStart PROVE Spec => []ConnectedToAsker
  <1>1. TypeOK /\ HeldInv /\ [Next]_vars => HeldInv'
    BY HeldNext
  <1>2. TypeOK /\ HeldInv /\ AskedInv /\ [Next]_vars => AskedInv'
    BY AskedNext
  <1>3. AskedInv => ConnectedToAsker
    BY DEF AskedInv
  <1> QED
    BY <1>1, <1>2, <1>3, HeldInit, AskedInit, SessionsTypeCorrect, PTL DEF Spec
=============================================================================
