--------------------------- MODULE PresenceProofs ---------------------------
(***************************************************************************)
(* Proofs about what one service knows of the clients of the other: type   *)
(* correctness, that the threads and workers of Presence use the link as   *)
(* ServiceLink says, and that the two services agree on whether a queue    *)
(* has a client; for any number of clients and queues and any bounds.      *)
(***************************************************************************)
EXTENDS Presence, ServiceLinkProofs

(***************************************************************************)
(* The link under Presence                                                 *)
(***************************************************************************)

\* Every step of Presence is one of the link, or leaves the link alone.
LEMMA StepIsLinkStep == ASSUME TypeOK, [Next]_vars PROVE [LinkNext]_linkVars
  <1>1. CASE UNCHANGED vars
    BY <1>1 DEF vars
  <1>2. CASE Establish
    BY <1>2 DEF Establish, LinkNext
  <1>3. ASSUME NEW s \in Services, Receive(s) PROVE [LinkNext]_linkVars
    BY <1>3 DEF Receive, Store, LetGo, Forget, LinkNext, RecvThread
  <1>4. ASSUME NEW s \in Services, NEW k \in 0..WireCap, Stop(s, k) PROVE LinkNext
    BY <1>4 DEF Stop, LinkNext
  <1>5. ASSUME NEW s \in Services, NEW h \in Sockets, Notify(s, h) PROVE LinkNext
    <2>1. pending[s][h] \in Frames
      BY <1>5 DEF Notify, TypeOK
    <2> QED
      BY <1>5, <2>1 DEF Notify, LinkNext, Send
  <1>6. ASSUME NEW s \in Services, NEW h \in Sockets, NEW q \in Queues, Join(s, h, q) \/ Leave(s, h, q)
        PROVE  UNCHANGED linkVars
    BY <1>6 DEF Join, Leave
  <1> QED
    BY <1>1, <1>2, <1>3, <1>4, <1>5, <1>6 DEF Next

(***************************************************************************)
(* Type correctness                                                        *)
(***************************************************************************)
LEMMA PresenceInitType == Init => TypeOK
  <1> SUFFICES ASSUME Init PROVE TypeOK
    OBVIOUS
  <1>1. LinkTypeOK
    BY LinkInitType DEF Init
  <1>2. newest \in [Services -> [Queues -> Sockets \cup {NoSocket}]]
    BY DEF Init
  <1>3. failed \in [Services -> SUBSET Queues] /\ crossed \in [Services -> SUBSET Queues]
    BY DEF Init
  <1> QED
    BY <1>1, <1>2, <1>3 DEF Init, TypeOK

LEMMA PresenceNextType == TypeOK /\ [Next]_vars => TypeOK'
  <1> SUFFICES ASSUME TypeOK, [Next]_vars PROVE TypeOK'
    OBVIOUS
  <1>1. LinkTypeOK'
    BY StepIsLinkStep, LinkNextType DEF TypeOK
  <1>2. CASE UNCHANGED vars
    BY <1>1, <1>2 DEF vars, noteVars, TypeOK
  <1>3. CASE Establish
    BY <1>1, <1>3 DEF Establish, noteVars, TypeOK
  <1>4. ASSUME NEW s \in Services, Receive(s) PROVE TypeOK'
    <2>1. flag' \in [Services -> [Queues -> BOOLEAN]] /\ resetting' \in BOOLEAN
      <3>1. CASE Store(s)
        <4>1. Head(inbuf[s]) \in Frames
          BY <3>1, TailIndex DEF Store, HandleFrame, TypeOK, LinkTypeOK
        <4>2. Head(inbuf[s]).queue \in Queues /\ Head(inbuf[s]).on \in BOOLEAN
          BY <4>1, PresenceAssumption
        <4> QED
          BY <3>1, <4>2 DEF Store, TypeOK
      <3>2. CASE LetGo(s)
        BY <3>2 DEF LetGo, TypeOK
      <3>3. CASE Forget
        BY <3>3 DEF Forget, TypeOK
      <3> QED
        BY <1>4, <3>1, <3>2, <3>3 DEF Receive, TypeOK
    <2>2. UNCHANGED <<connected, pending, newest, failed, crossed>>
      BY <1>4 DEF Receive, Store, LetGo, Forget, noteVars
    <2> QED
      BY <1>1, <2>1, <2>2 DEF TypeOK
  <1>5. ASSUME NEW s \in Services, NEW k \in 0..WireCap, Stop(s, k) PROVE TypeOK'
    BY <1>1, <1>5 DEF Stop, TypeOK
  <1>6. ASSUME NEW s \in Services, NEW h \in Sockets, Notify(s, h) PROVE TypeOK'
    <2> DEFINE q == pending[s][h].queue
    <2>1. q \in Queues
      BY <1>6, PresenceAssumption DEF Notify, TypeOK
    <2>2. NoteSent(s, h, q) \/ NoteFailed(s, h, q)
      BY <1>6 DEF Notify
    <2> HIDE DEF q
    <2>3. newest' \in [Services -> [Queues -> Sockets \cup {NoSocket}]]
      <3>1. PICK v \in Sockets \cup {NoSocket} : newest' = [newest EXCEPT ![s][q] = v]
        <4>1. newest' = [newest EXCEPT ![s][q] = IF newest[s][q] = h THEN NoSocket ELSE newest[s][q]]
          BY <2>2 DEF NoteSent, NoteFailed
        <4>2. newest[s][q] \in Sockets \cup {NoSocket}
          BY <2>1 DEF TypeOK
        <4> QED
          BY <4>1, <4>2
      <3> QED
        BY <3>1 DEF TypeOK
    <2>4. failed' \in [Services -> SUBSET Queues]
      <3>1. PICK F : F \in SUBSET Queues /\ failed' = [failed EXCEPT ![s] = F]
        <4>1. failed[s] \cup {q} \in SUBSET Queues /\ failed[s] \ {q} \in SUBSET Queues
              /\ failed[s] \in SUBSET Queues
          BY <2>1 DEF TypeOK
        <4> QED
          BY <2>2, <4>1 DEF NoteSent, NoteFailed
      <3> QED
        BY <3>1 DEF TypeOK
    <2>5. crossed' \in [Services -> SUBSET Queues]
      <3>1. PICK C : C \in SUBSET Queues /\ (crossed' = [crossed EXCEPT ![s] = C] \/ crossed' = crossed)
        <4>1. crossed[s] \cup {q} \in SUBSET Queues /\ crossed[s] \ {q} \in SUBSET Queues
              /\ crossed[s] \in SUBSET Queues
          BY <2>1 DEF TypeOK
        <4> QED
          BY <2>2, <4>1 DEF NoteSent, NoteFailed
      <3> QED
        BY <3>1 DEF TypeOK
    <2>6. UNCHANGED <<connected, flag, resetting>>
          /\ pending' \in [Services -> [Sockets -> Frames \cup {NoFrame}]]
      BY <1>6 DEF Notify, TypeOK
    <2> QED
      BY <1>1, <2>3, <2>4, <2>5, <2>6 DEF TypeOK
  <1>7. ASSUME NEW s \in Services, NEW h \in Sockets, NEW q \in Queues, Join(s, h, q) \/ Leave(s, h, q)
        PROVE  TypeOK'
    <2>1. ASSUME NEW on \in BOOLEAN, Announce(s, h, q, on)
          PROVE  /\ pending' \in [Services -> [Sockets -> Frames \cup {NoFrame}]]
                 /\ newest' \in [Services -> [Queues -> Sockets \cup {NoSocket}]]
                 /\ UNCHANGED <<failed, crossed>>
      <3>1. [queue |-> q, on |-> on] \in Frames
        BY PresenceAssumption
      <3> QED
        BY <2>1, <3>1 DEF Announce, TypeOK
    <2>2. /\ connected' \in [Services -> [Queues -> Sockets \cup {NoSocket}]]
          /\ UNCHANGED <<flag, resetting>>
      <3>1. CASE Join(s, h, q)
        BY <3>1 DEF Join, TypeOK
      <3>2. CASE Leave(s, h, q)
        BY <3>2 DEF Leave, TypeOK
      <3> QED
        BY <1>7, <3>1, <3>2
    <2> QED
      BY <1>1, <1>7, <2>1, <2>2 DEF Join, Leave, TypeOK
  <1> QED
    BY <1>2, <1>3, <1>4, <1>5, <1>6, <1>7 DEF Next

(***************************************************************************)
(* All variables keep their types, those of the link included; what is     *)
(* received is a notification about one of the queues.                     *)
(***************************************************************************)
THEOREM PresenceTypeCorrect == Spec => []TypeOK
BY PresenceInitType, PresenceNextType, PTL DEF Spec

(***************************************************************************)
(* Whatever the workers and the receive threads of two services with       *)
(* clients do, the connection between the services behaves as the link     *)
(* does: what is proved of the link holds here.                            *)
(***************************************************************************)
THEOREM PresenceImplementsLink == Spec => LinkSpec
  <1>1. Init => LinkInit
    BY DEF Init
  <1>2. TypeOK /\ [Next]_vars => [LinkNext]_linkVars
    BY StepIsLinkStep
  <1> QED
    BY <1>1, <1>2, PresenceTypeCorrect, PTL DEF Spec, LinkSpec

(***************************************************************************)
(* What a sequence of notifications leads to                               *)
(***************************************************************************)

\* One more notification decides about its queue, and about no other.
LEMMA EndsUpAppend ==
  ASSUME NEW way \in Seq(Frames), NEW f \in Frames, NEW stored, NEW q \in Queues, NEW on \in BOOLEAN
  PROVE  /\ f = [queue |-> q, on |-> on] => EndsUp(Append(way, f), stored, q, on)
         /\ f.queue # q /\ EndsUp(way, stored, q, on) => EndsUp(Append(way, f), stored, q, on)
  <1> DEFINE new == Append(way, f)
  <1>1. /\ Len(way) \in Nat /\ DOMAIN way = 1..Len(way) /\ DOMAIN new = 1..(Len(way) + 1)
        /\ \A i \in 1..(Len(way) + 1) : new[i] = IF i = Len(way) + 1 THEN f ELSE way[i]
    BY AppendIndex
  <1>2. /\ Len(way) + 1 \in DOMAIN new /\ new[Len(way) + 1] = f
        /\ \A j \in DOMAIN new : ~(j > Len(way) + 1)
    BY <1>1
  <1>3. \A i \in DOMAIN way : i \in DOMAIN new /\ new[i] = way[i]
    BY <1>1
  <1>4. \A i \in DOMAIN new : new[i] = f \/ (i \in DOMAIN way /\ new[i] = way[i])
    BY <1>1
  <1> HIDE DEF new
  <1>5. f = [queue |-> q, on |-> on] => EndsUp(new, stored, q, on)
    BY <1>2 DEF EndsUp
  <1>6. f.queue # q /\ EndsUp(way, stored, q, on) => EndsUp(new, stored, q, on)
    BY <1>3, <1>4 DEF EndsUp
  <1> QED
    BY <1>5, <1>6 DEF new

\* To store the first notification changes nothing about where they lead.
LEMMA EndsUpTail ==
  ASSUME NEW way \in Seq(Frames), way # <<>>, NEW stored, NEW q \in Queues, NEW on \in BOOLEAN,
         EndsUp(way, stored, q, on)
  PROVE  EndsUp(Tail(way), IF Head(way).queue = q THEN Head(way).on ELSE stored, q, on)
  <1> DEFINE rest == Tail(way)
  <1>1. /\ Head(way) = way[1] /\ Len(way) \in Nat \ {0} /\ DOMAIN way = 1..Len(way)
        /\ DOMAIN rest = 1..(Len(way) - 1)
        /\ \A i \in 1..(Len(way) - 1) : rest[i] = way[i + 1]
    BY TailIndex
  <1>2. \A i \in DOMAIN rest : i + 1 \in DOMAIN way /\ rest[i] = way[i + 1] /\ i + 1 > 1
    BY <1>1
  <1>3. \A i \in DOMAIN way : i # 1 => i - 1 \in DOMAIN rest /\ rest[i - 1] = way[i]
    BY <1>1
  <1>4. 1 \in DOMAIN way /\ DOMAIN way \subseteq Nat /\ DOMAIN rest \subseteq Nat
    BY <1>1
  <1> HIDE DEF rest
  <1>5. CASE \E i \in DOMAIN way : /\ way[i] = [queue |-> q, on |-> on]
                                   /\ \A j \in DOMAIN way : j > i => way[j].queue # q
    <2>1. PICK i \in DOMAIN way : /\ way[i] = [queue |-> q, on |-> on]
                                  /\ \A j \in DOMAIN way : j > i => way[j].queue # q
      BY <1>5
    <2>2. CASE i = 1
      <3>1. Head(way).queue = q /\ Head(way).on = on
        BY <1>1, <2>1, <2>2
      <3>2. \A j \in DOMAIN rest : rest[j].queue # q
        BY <1>2, <2>1, <2>2
      <3> QED
        BY <3>1, <3>2 DEF EndsUp, rest
    <2>3. CASE i # 1
      <3>1. i - 1 \in DOMAIN rest /\ rest[i - 1] = [queue |-> q, on |-> on]
        BY <1>3, <2>1, <2>3
      <3>2. \A j \in DOMAIN rest : j > i - 1 => j + 1 > i
        BY <1>4
      <3>3. \A j \in DOMAIN rest : j > i - 1 => rest[j].queue # q
        BY <1>2, <2>1, <3>2
      <3> QED
        BY <3>1, <3>3 DEF EndsUp, rest
    <2> QED
      BY <2>2, <2>3
  <1>6. CASE stored = on /\ \A i \in DOMAIN way : way[i].queue # q
    <2>1. Head(way).queue # q /\ \A i \in DOMAIN rest : rest[i].queue # q
      BY <1>1, <1>2, <1>4, <1>6
    <2> QED
      BY <1>6, <2>1 DEF EndsUp, rest
  <1> QED
    BY <1>5, <1>6 DEF EndsUp

(***************************************************************************)
(* The two services agree                                                  *)
(***************************************************************************)

\* Nothing is on a connection that the service at the other end does not use
\* yet: when it comes to use it, nothing more is on its way than before.
Quiet == \A s \in Services : sock[Other(s)] = NULL => wire[s][1] = <<>>

\* The newest notification about q is still to be sent and will say how things
\* are; or it was sent, and none after it, and is on its way or stored.
Settled(s, q) ==
  /\ newest[s][q] # NoSocket =>
       newest[s][q] \in Notices(s, q) /\ pending[s][newest[s][q]].on = Taken(s, q)
  /\ newest[s][q] = NoSocket /\ q \notin failed[s] \cup crossed[s] =>
       EndsUp(OnTheWay(Other(s)), flag[Other(s)][q], q, Taken(s, q))

AllSettled == \A s \in Services, q \in Queues : Settled(s, q)

AgreeInv == crashes = 0 => ~resetting /\ Quiet /\ AllSettled

\* Where an entry is added to two sequences, and where one is taken.
LEMMA ConcatEnds ==
  ASSUME NEW S, NEW a \in Seq(S), NEW b \in Seq(S)
  PROVE  /\ \A x \in S : a \o Append(b, x) = Append(a \o b, x)
         /\ a # <<>> => /\ a \o b # <<>> /\ Head(a \o b) = Head(a)
                        /\ Tail(a \o b) = Tail(a) \o b
  <1>1. ASSUME NEW x \in S PROVE a \o Append(b, x) = Append(a \o b, x)
    <2>1. a \o b \in Seq(S) /\ <<x>> \in Seq(S)
      BY ConcatProperties
    <2>2. Append(b, x) = b \o <<x>> /\ Append(a \o b, x) = (a \o b) \o <<x>>
      BY <2>1, AppendIsConcat
    <2> QED
      BY <2>1, <2>2, ConcatAssociative
  <1>2. ASSUME a # <<>>
        PROVE  a \o b # <<>> /\ Head(a \o b) = Head(a) /\ Tail(a \o b) = Tail(a) \o b
    <2>1. /\ Len(a) \in Nat \ {0} /\ Len(b) \in Nat /\ a \o b \in Seq(S)
          /\ Len(a \o b) = Len(a) + Len(b)
          /\ \A i \in 1..(Len(a) + Len(b)) : (a \o b)[i] = IF i <= Len(a) THEN a[i] ELSE b[i - Len(a)]
      BY <1>2, ConcatProperties, LenProperties, EmptySeq
    <2>2. a \o b # <<>>
      BY <1>2, ConcatEqualIffEmpty
    <2>3. /\ Tail(a) \in Seq(S) /\ Tail(a \o b) \in Seq(S)
          /\ Head(a) = a[1] /\ Head(a \o b) = (a \o b)[1]
          /\ Len(Tail(a)) = Len(a) - 1 /\ Len(Tail(a \o b)) = Len(a) + Len(b) - 1
          /\ \A i \in 1..(Len(a) - 1) : Tail(a)[i] = a[i + 1]
          /\ \A i \in 1..(Len(a) + Len(b) - 1) : Tail(a \o b)[i] = (a \o b)[i + 1]
      BY <1>2, <2>1, <2>2, HeadTailProperties
    <2>4. Tail(a) \o b \in Seq(S) /\ Len(Tail(a) \o b) = Len(a) + Len(b) - 1
      BY <2>1, <2>3, ConcatProperties
    <2>5. ASSUME NEW i \in 1..(Len(a) + Len(b) - 1) PROVE Tail(a \o b)[i] = (Tail(a) \o b)[i]
      <3>1. (Tail(a) \o b)[i] = IF i <= Len(a) - 1 THEN Tail(a)[i] ELSE b[i - (Len(a) - 1)]
        BY <2>1, <2>3, ConcatProperties
      <3>2. /\ i + 1 \in 1..(Len(a) + Len(b)) /\ (i + 1 <= Len(a) <=> i <= Len(a) - 1)
            /\ i + 1 - Len(a) = i - (Len(a) - 1)
        BY <2>1
      <3>3. Tail(a \o b)[i] = IF i <= Len(a) - 1 THEN a[i + 1] ELSE b[i - (Len(a) - 1)]
        BY <2>1, <2>3, <3>2
      <3>4. i <= Len(a) - 1 => i \in 1..(Len(a) - 1)
        BY <2>1
      <3> QED
        BY <2>3, <3>1, <3>3, <3>4
    <2>6. Head(a \o b) = Head(a)
      BY <2>1, <2>3
    <2> QED
      BY <2>2, <2>3, <2>4, <2>5, <2>6, SeqEqual
  <1> QED
    BY <1>1, <1>2

LEMMA OtherService == \A s \in Services : Other(s) \in Services /\ Other(s) # s /\ Other(Other(s)) = s
BY DEF Services, Other, HOST, PEER

LEMMA WayType == TypeOK => \A s \in Services : OnTheWay(s) \in Seq(Frames)
  <1> SUFFICES ASSUME TypeOK, NEW s \in Services PROVE OnTheWay(s) \in Seq(Frames)
    OBVIOUS
  <1>1. inbuf[s] \in Seq(Frames)
    BY DEF TypeOK, LinkTypeOK
  <1>2. (IF sock[Other(s)] \in Conns THEN wire[s][sock[Other(s)]] ELSE <<>>) \in Seq(Frames)
    BY OtherService, EmptySeq DEF TypeOK, LinkTypeOK
  <1> QED
    BY <1>1, <1>2, ConcatProperties DEF OnTheWay

LEMMA AgreeInit == Init => AgreeInv
  <1> SUFFICES ASSUME Init PROVE AgreeInv
    OBVIOUS
  <1>1. 1 \in Conns /\ NULL \notin Conns
    BY LinkAssumption DEF Conns, NULL
  <1>2. crashes = 0 /\ Quiet /\ ~resetting
    BY <1>1 DEF Init, LinkInit, Quiet
  <1>3. ASSUME NEW s \in Services, NEW q \in Queues PROVE Settled(s, q)
    <2>1. newest[s][q] = NoSocket /\ Taken(s, q) = FALSE
      BY <1>3 DEF Init, Taken
    <2>2. OnTheWay(Other(s)) = <<>>
      <3>1. inbuf[Other(s)] = <<>> /\ sock[Other(Other(s))] \notin Conns
        BY <1>1, <1>3, OtherService DEF Init, LinkInit
      <3> QED
        BY <3>1, EmptySeq, ConcatEmptySeq DEF OnTheWay
    <2>3. flag[Other(s)][q] = FALSE
      BY <1>3, OtherService DEF Init
    <2>4. EndsUp(<<>>, FALSE, q, FALSE)
      BY DEF EndsUp
    <2>5. EndsUp(OnTheWay(Other(s)), flag[Other(s)][q], q, Taken(s, q))
      BY <2>1, <2>2, <2>3, <2>4
    <2> QED
      BY <2>1, <2>5 DEF Settled
  <1> QED
    BY <1>2, <1>3 DEF AgreeInv, AllSettled

\* When nothing changes but where the notifications are on their way.
LEMMA SettledStill ==
  ASSUME AllSettled, UNCHANGED <<connected, pending, flag, noteVars>>,
         \A s \in Services : OnTheWay(s)' = OnTheWay(s)
  PROVE  AllSettled'
  <1> SUFFICES ASSUME NEW s \in Services, NEW q \in Queues PROVE Settled(s, q)'
    BY DEF AllSettled
  <1>1. Settled(s, q)
    BY DEF AllSettled
  <1>2. Notices(s, q)' = Notices(s, q) /\ Taken(s, q)' = Taken(s, q)
    BY DEF Notices, Taken
  <1>3. OnTheWay(Other(s))' = OnTheWay(Other(s))
    BY OtherService
  <1> QED
    BY <1>1, <1>2, <1>3 DEF Settled, EndsUp, noteVars

\* The connection comes into use at one end after the other.
LEMMA AgreeEstablish ==
  ASSUME TypeOK, Undisturbed, Quiet, AllSettled, Establish
  PROVE  Quiet' /\ AllSettled'
  <1>0. /\ HOST \in Services /\ PEER \in Services /\ HOST # PEER
        /\ 1 \in Conns /\ NULL \notin Conns /\ NULL # 1 /\ \A s \in Services : s = HOST \/ s = PEER
        /\ Other(HOST) = PEER /\ Other(PEER) = HOST
    BY LinkAssumption DEF Services, HOST, PEER, Conns, NULL, Other
  <1>1. inbuf' = inbuf /\ \A s \in Services : inbuf[s] \in Seq(Frames)
    BY DEF Establish, StartHost, StartPeer, AcceptThread, Accept, AcceptFails, TypeOK, LinkTypeOK
  <1>2. PICK t \in Services : /\ wire' = wire \/ wire' = Discard(HOST, {NULL})
                              /\ sock' = sock \/ (sock[t] = NULL /\ sock' = [sock EXCEPT ![t] = 1])
    <2>1. CASE StartHost
      <3>1. wire' = wire /\ sock' = sock
        BY <2>1 DEF StartHost
      <3> QED
        BY <1>0, <3>1
    <2>2. CASE StartPeer
      <3>1. opened = 0 /\ sock[PEER] = NULL
        BY <1>0, <2>2 DEF StartPeer, Undisturbed
      <3>2. opened' = 1
        BY <2>2, <3>1 DEF StartPeer
      <3>3. wire' = wire /\ sock' = [sock EXCEPT ![PEER] = 1]
        BY <2>2, <3>2 DEF StartPeer
      <3> QED
        BY <1>0, <3>1, <3>3
    <2>3. CASE AcceptThread
      <3>1. running[PEER] /\ backlog = <<1>> /\ sock[HOST] = NULL
        BY <2>3 DEF AcceptThread, Accept, AcceptFails, Undisturbed
      <3>2. Head(backlog) = 1 /\ 1 \in ends[PEER]
        BY <1>0, <3>1 DEF Undisturbed
      <3>3. sock' = [sock EXCEPT ![HOST] = 1] /\ wire' = Discard(HOST, {NULL})
        BY <2>3, <3>1, <3>2 DEF AcceptThread, Accept, AcceptFails
      <3> QED
        BY <1>0, <3>1, <3>3
    <2> QED
      BY <2>1, <2>2, <2>3 DEF Establish
  <1>3. ASSUME NEW s \in Services, NEW c \in Conns PROVE wire'[s][c] = wire[s][c]
    BY <1>0, <1>2, <1>3 DEF Discard, TypeOK, LinkTypeOK
  <1>4. \A s \in Services : sock'[s] = sock[s] \/ (sock[s] = NULL /\ sock'[s] = 1)
    BY <1>2 DEF TypeOK, LinkTypeOK
  <1>5. Quiet'
    BY <1>0, <1>3, <1>4 DEF Quiet
  <1>6. ASSUME NEW s \in Services PROVE OnTheWay(s)' = OnTheWay(s)
    <2>1. sock[Other(s)] \in Conns \cup {NULL, INVALID} /\ Other(s) \in Services
      BY OtherService DEF TypeOK, LinkTypeOK
    <2>2. CASE sock'[Other(s)] = sock[Other(s)]
      <3>1. CASE sock[Other(s)] \in Conns
        <4>1. wire'[s][sock'[Other(s)]] = wire[s][sock[Other(s)]]
          BY <1>3, <2>2, <3>1
        <4> QED
          BY <1>1, <2>2, <3>1, <4>1 DEF OnTheWay
      <3>2. CASE sock[Other(s)] \notin Conns
        BY <1>1, <2>2, <3>2 DEF OnTheWay
      <3> QED
        BY <3>1, <3>2
    <2>3. CASE sock[Other(s)] = NULL /\ sock'[Other(s)] = 1
      <3>1. wire'[s][1] = <<>>
        BY <1>0, <1>3, <2>3 DEF Quiet
      <3> QED
        BY <1>0, <1>1, <2>3, <3>1 DEF OnTheWay
    <2> QED
      BY <1>4, <2>1, <2>2, <2>3
  <1> QED
    BY <1>5, <1>6, SettledStill DEF Establish

\* The receive thread.  It stores the first notification on its way, or takes
\* some of them off the connection.
LEMMA AgreeReceive ==
  ASSUME TypeOK, Undisturbed, ~resetting, Quiet, AllSettled, NEW s \in Services, Receive(s)
  PROVE  ~resetting' /\ Quiet' /\ AllSettled'
  <1>0. /\ HOST # PEER /\ \A t \in Services : t = HOST \/ t = PEER
        /\ Other(HOST) = PEER /\ Other(PEER) = HOST /\ HOST \in Services /\ PEER \in Services
        /\ 1 \in Conns /\ NULL # 1 /\ NULL \notin Conns
    BY LinkAssumption DEF Services, HOST, PEER, Conns, NULL, Other
  <1>1. rpc[s] \notin {"close", "null"}
    BY DEF Undisturbed
  <1>2. /\ inbuf \in [Services -> Seq(Frames)] /\ wire \in [Services -> [Conns -> Seq(Frames)]]
        /\ rpc[s] = "handle" <=> inbuf[s] # <<>>
    BY DEF TypeOK, LinkTypeOK
  <1>3. CASE Store(s)
    <2> DEFINE f == Head(inbuf[s])
    <2>1. /\ inbuf[s] # <<>> /\ inbuf' = [inbuf EXCEPT ![s] = Tail(inbuf[s])]
          /\ flag' = [flag EXCEPT ![s][f.queue] = f.on]
          /\ UNCHANGED <<sock, wire, connected, pending, resetting, noteVars>>
      BY <1>2, <1>3 DEF Store, HandleFrame
    <2>2. f \in Frames /\ f.queue \in Queues
      BY <1>2, <2>1, TailIndex, PresenceAssumption
    <2>3. \A q \in Queues : flag'[s][q] = IF f.queue = q THEN f.on ELSE flag[s][q]
      BY <2>1, <2>2 DEF TypeOK
    <2>4. \A t \in Services : t # s => inbuf'[t] = inbuf[t] /\ flag'[t] = flag[t]
      BY <1>2, <2>1 DEF TypeOK
    <2>5. /\ OnTheWay(s) \in Seq(Frames) /\ OnTheWay(s) # <<>> /\ Head(OnTheWay(s)) = f
          /\ OnTheWay(s)' = Tail(OnTheWay(s))
      <3> DEFINE b == IF sock[Other(s)] \in Conns THEN wire[s][sock[Other(s)]] ELSE <<>>
      <3>1. b \in Seq(Frames)
        BY <1>2, EmptySeq
      <3>2. OnTheWay(s) = inbuf[s] \o b /\ OnTheWay(s)' = Tail(inbuf[s]) \o b
        BY <1>2, <2>1 DEF OnTheWay
      <3> HIDE DEF b
      <3> DEFINE a == inbuf[s]
      <3>3. a \in Seq(Frames) /\ a # <<>>
        BY <1>2, <2>1
      <3> HIDE DEF a
      <3>4. a \o b # <<>> /\ Head(a \o b) = Head(a) /\ Tail(a \o b) = Tail(a) \o b
        BY ONLY <3>1, <3>3, ConcatEnds
      <3> QED
        BY <3>2, <3>4, WayType DEF a
    <2>6. \A t \in Services : t # s => OnTheWay(t)' = OnTheWay(t)
      BY <2>1, <2>4 DEF OnTheWay
    <2>7. Quiet'
      BY <2>1 DEF Quiet
    <2>8. ASSUME NEW t \in Services, NEW q \in Queues PROVE Settled(t, q)'
      <3>1. Settled(t, q)
        BY DEF AllSettled
      <3>2. Notices(t, q)' = Notices(t, q) /\ Taken(t, q)' = Taken(t, q) /\ Taken(t, q) \in BOOLEAN
        BY <2>1 DEF Notices, Taken
      <3>3. ASSUME EndsUp(OnTheWay(Other(t)), flag[Other(t)][q], q, Taken(t, q))
            PROVE  EndsUp(OnTheWay(Other(t))', flag'[Other(t)][q], q, Taken(t, q))
        <4>1. CASE Other(t) = s
          <5>1. EndsUp(OnTheWay(s), flag[s][q], q, Taken(t, q))
            BY <3>3, <4>1
          <5>2. EndsUp(Tail(OnTheWay(s)), IF f.queue = q THEN f.on ELSE flag[s][q], q, Taken(t, q))
            BY <2>5, <3>2, <5>1, EndsUpTail
          <5>3. EndsUp(OnTheWay(s)', flag'[s][q], q, Taken(t, q))
            BY <2>3, <2>5, <5>2
          <5>4. OnTheWay(Other(t))' = OnTheWay(s)'
            BY <4>1
          <5> QED
            BY <4>1, <5>3, <5>4
        <4>2. CASE Other(t) # s
          BY <2>4, <2>6, <3>3, <4>2, OtherService
        <4> QED
          BY <4>1, <4>2
      <3> QED
        BY <2>1, <3>1, <3>2, <3>3 DEF Settled, noteVars
    <2> QED
      BY <2>1, <2>7, <2>8 DEF AllSettled
  <1>4. CASE RecvFrames(s) /\ UNCHANGED <<connected, pending, flag, resetting, noteVars>>
    <2>1. rpc[s] = "ready" /\ sock[s] \in Conns /\ sock' = sock
      BY <1>4 DEF RecvFrames
    <2>2. inbuf[s] = <<>>
      BY <1>2, <2>1
    <2>3. sock[s] = 1
      BY <1>0, <2>1 DEF Undisturbed
    <2>4. PICK k \in 1..Len(wire[s][1]) :
            /\ inbuf' = [inbuf EXCEPT ![s] = SubSeq(wire[s][1], 1, k)]
            /\ wire' = [wire EXCEPT ![s][1] = SubSeq(wire[s][1], k + 1, Len(wire[s][1]))]
      BY <1>4, <2>3 DEF RecvFrames
    <2>5. wire[s][1] \in Seq(Frames) /\ Len(wire[s][1]) \in Nat
      BY <1>0, <1>2, LenProperties
    <2>6. wire[s][1] # <<>>
      BY <2>4, <2>5, EmptySeq
    <2>7. sock[Other(s)] = 1
      <3>1. running[PEER]
        BY <1>0, <2>3 DEF Undisturbed
      <3>2. sock[PEER] = 1 /\ sock[HOST] \in {NULL, 1}
        BY <3>1 DEF Undisturbed
      <3>3. sock[Other(s)] # NULL
        BY <2>6 DEF Quiet
      <3> QED
        BY <1>0, <3>2, <3>3
    <2>8. OnTheWay(s)' = OnTheWay(s)
      <3> DEFINE w == wire[s][1]
      <3>1. /\ inbuf'[s] = SubSeq(w, 1, k) /\ wire'[s][1] = SubSeq(w, k + 1, Len(w))
        BY <1>0, <1>2, <2>4
      <3>2. /\ OnTheWay(s)' = SubSeq(w, 1, k) \o SubSeq(w, k + 1, Len(w))
            /\ OnTheWay(s) = <<>> \o w
        BY <1>0, <2>1, <2>2, <2>7, <3>1 DEF OnTheWay
      <3>3. k \in 0..Len(w) /\ 1 \in 1..(Len(w) + 1) /\ Len(w) \in k..Len(w)
        BY <2>4, <2>5
      <3>4. SubSeq(w, 1, k) \o SubSeq(w, k + 1, Len(w)) = SubSeq(w, 1, Len(w))
        BY <2>5, <3>3, ConcatAdjacentSubSeq
      <3>5. SubSeq(w, 1, Len(w)) = w /\ <<>> \o w = w
        BY <2>5, SubSeqFull, ConcatEmptySeq
      <3> QED
        BY <3>2, <3>4, <3>5
    <2>9. \A t \in Services : t # s => inbuf'[t] = inbuf[t] /\ wire'[t] = wire[t]
      BY <1>2, <2>4
    <2>10. \A t \in Services : t # s => OnTheWay(t)' = OnTheWay(t)
      BY <2>1, <2>9 DEF OnTheWay
    <2>11. Quiet'
      BY <1>0, <2>1, <2>7, <2>9 DEF Quiet
    <2> QED
      BY <1>4, <2>8, <2>10, <2>11, SettledStill
  <1>5. CASE (Select(s) \/ RecvNothing(s)) /\ UNCHANGED <<connected, pending, flag, resetting, noteVars>>
    <2>1. UNCHANGED <<sock, wire, inbuf>>
      BY <1>5 DEF Select, RecvNothing
    <2>2. Quiet' /\ \A t \in Services : OnTheWay(t)' = OnTheWay(t)
      BY <2>1 DEF Quiet, OnTheWay
    <2> QED
      BY <1>5, <2>2, SettledStill
  <1>6. ~LetGo(s) /\ ~CloseSock(s) /\ ~Forget
    BY <1>1 DEF LetGo, NullSock, CloseSock, Forget
  <1> QED
    BY <1>3, <1>4, <1>5, <1>6 DEF Receive

\* A worker takes or frees a queue: its notification is now the newest.
LEMMA AgreeAnnounce ==
  ASSUME TypeOK, crashes = 0, Quiet, AllSettled, UNCHANGED <<linkVars, flag>>,
         NEW s \in Services, NEW h \in Sockets, NEW q \in Queues, NEW on \in BOOLEAN,
         pending[s][h] = NoFrame, Announce(s, h, q, on),
         \A t \in Services, p \in Queues : Taken(t, p)' = IF t = s /\ p = q THEN on ELSE Taken(t, p)
  PROVE  Quiet' /\ AllSettled'
  <1> DEFINE f == [queue |-> q, on |-> on]
  <1>1. f \in Frames /\ f # NoFrame /\ NoSocket \notin Sockets
    BY PresenceAssumption
  <1>2. \A t \in Services, g \in Sockets : pending'[t][g] = IF t = s /\ g = h THEN f ELSE pending[t][g]
    BY <1>1 DEF Announce, TypeOK
  <1>3. /\ \A t \in Services, p \in Queues : newest'[t][p] = IF t = s /\ p = q THEN h ELSE newest[t][p]
        /\ failed' = failed /\ crossed' = crossed
    BY DEF Announce, TypeOK
  <1>4. Quiet' /\ \A t \in Services : OnTheWay(t)' = OnTheWay(t)
    BY DEF linkVars, Quiet, OnTheWay
  <1>5. ASSUME NEW t \in Services, NEW p \in Queues PROVE Settled(t, p)'
    <2>1. CASE t = s /\ p = q
      <3>1. newest'[t][p] = h /\ pending'[t][h] = f /\ h # NoSocket /\ Taken(t, p)' = on
        BY <1>1, <1>2, <1>3, <2>1
      <3>2. h \in Notices(t, p)'
        BY <1>1, <2>1, <3>1 DEF Notices
      <3> QED
        BY <3>1, <3>2 DEF Settled
    <2>2. CASE ~(t = s /\ p = q)
      <3>1. Settled(t, p)
        BY DEF AllSettled
      <3>2. newest'[t][p] = newest[t][p] /\ Taken(t, p)' = Taken(t, p)
        BY <1>3, <2>2
      <3>3. \A g \in Notices(t, p) : pending'[t][g] = pending[t][g] /\ g \in Notices(t, p)'
        <4>1. t = s => h \notin Notices(t, p)
          BY DEF Notices
        <4>2. \A g \in Notices(t, p) : g \in Sockets /\ pending'[t][g] = pending[t][g]
          BY <1>2, <4>1 DEF Notices
        <4> QED
          BY <4>2 DEF Notices
      <3>4. OnTheWay(Other(t))' = OnTheWay(Other(t)) /\ flag' = flag
        BY <1>4, OtherService
      <3> QED
        BY <1>3, <3>1, <3>2, <3>3, <3>4 DEF Settled, EndsUp
    <2> QED
      BY <2>1, <2>2
  <1> QED
    BY <1>4, <1>5 DEF AllSettled

\* What Notify does to the histories of the queue its notification is about.
LEMMA NotedAbout ==
  ASSUME TypeOK, NEW s \in Services, NEW h \in Sockets, NEW q \in Queues,
         NoteSent(s, h, q) \/ NoteFailed(s, h, q)
  PROVE  /\ \A t \in Services, p \in Queues :
              t # s \/ p # q => /\ newest'[t][p] = newest[t][p]
                                /\ p \in failed'[t] <=> p \in failed[t]
                                /\ p \in crossed'[t] <=> p \in crossed[t]
         /\ newest'[s][q] = IF newest[s][q] = h THEN NoSocket ELSE newest[s][q]
         /\ NoteFailed(s, h, q) =>
              /\ newest[s][q] = h => q \in failed'[s]
              /\ newest[s][q] # h => (q \in failed'[s] <=> q \in failed[s])
              /\ q \in crossed'[s] <=> q \in crossed[s]
         /\ NoteSent(s, h, q) /\ newest[s][q] = NoSocket => q \in crossed'[s]
  <1>1. /\ newest' = [newest EXCEPT ![s][q] = IF newest[s][q] = h THEN NoSocket ELSE newest[s][q]]
        /\ newest \in [Services -> [Queues -> Sockets \cup {NoSocket}]] /\ h # NoSocket
    BY PresenceAssumption DEF NoteSent, NoteFailed, TypeOK
  <1>2. /\ newest'[s][q] = IF newest[s][q] = h THEN NoSocket ELSE newest[s][q]
        /\ \A t \in Services, p \in Queues : t # s \/ p # q => newest'[t][p] = newest[t][p]
    BY <1>1
  <1>3. failed \in [Services -> SUBSET Queues] /\ crossed \in [Services -> SUBSET Queues]
    BY DEF TypeOK
  <1>4. CASE NoteFailed(s, h, q)
    <2>1. /\ crossed' = crossed
          /\ \A t \in Services : failed'[t] = IF t = s /\ newest[s][q] = h THEN failed[t] \cup {q} ELSE failed[t]
      BY <1>3, <1>4 DEF NoteFailed
    <2>2. ~(NoteSent(s, h, q) /\ newest[s][q] = NoSocket) \/ q \in crossed'[s]
      <3>1. NoteSent(s, h, q) /\ newest[s][q] = NoSocket => crossed'[s] = crossed[s] \cup {q}
        BY <1>1, <1>3 DEF NoteSent
      <3> QED
        BY <3>1
    <2> QED
      BY <1>2, <2>1, <2>2
  <1>5. CASE NoteSent(s, h, q) /\ ~NoteFailed(s, h, q)
    <2>1. \A t \in Services : failed'[t] = IF t = s /\ newest[s][q] = h THEN failed[t] \ {q} ELSE failed[t]
      BY <1>3, <1>5 DEF NoteSent
    <2>2. \A t \in Services : t # s => crossed'[t] = crossed[t]
      BY <1>3, <1>5 DEF NoteSent
    <2>3. crossed'[s] \in {crossed[s] \ {q}, crossed[s] \cup {q}, crossed[s]}
      BY <1>3, <1>5 DEF NoteSent
    <2>4. newest[s][q] = NoSocket => crossed'[s] = crossed[s] \cup {q}
      BY <1>1, <1>3, <1>5 DEF NoteSent
    <2>5. \A p \in Queues : p # q => (p \in crossed'[s] <=> p \in crossed[s])
      BY <2>3
    <2>6. \A p \in Queues : p # q => (p \in failed'[s] <=> p \in failed[s])
      BY <2>1
    <2> QED
      BY <1>2, <1>5, <2>1, <2>2, <2>4, <2>5, <2>6
  <1> QED
    BY <1>4, <1>5

\* A worker sends its notification, or fails to.
LEMMA AgreeNotify ==
  ASSUME TypeOK, Quiet, AllSettled, NEW s \in Services, NEW h \in Sockets, Notify(s, h)
  PROVE  Quiet' /\ AllSettled'
  <1> DEFINE f == pending[s][h]
             o == Other(s)
  <1>0. 1 \in Conns /\ NULL \notin Conns /\ o \in Services /\ o # s /\ Other(o) = s
    BY LinkAssumption, OtherService DEF Conns, NULL
  <1>1. f \in Frames /\ f # NoFrame /\ f.queue \in Queues /\ f.on \in BOOLEAN
        /\ f = [queue |-> f.queue, on |-> f.on]
    BY PresenceAssumption DEF Notify, TypeOK
  <1>2. h # NoSocket
    BY PresenceAssumption
  <1>3. \A t \in Services, g \in Sockets :
          pending'[t][g] = IF t = s /\ g = h THEN NoFrame ELSE pending[t][g]
    BY DEF Notify, TypeOK
  <1>4. \A t \in Services, p \in Queues : \A g \in Notices(t, p) :
          t # s \/ g # h => g \in Notices(t, p)' /\ pending'[t][g] = pending[t][g]
    BY <1>3 DEF Notices
  <1>5. connected' = connected /\ flag' = flag /\ \A t \in Services, p \in Queues : Taken(t, p)' = Taken(t, p)
    BY DEF Notify, Taken
  <1>6. \A t \in Services, p \in Queues : Taken(t, p) \in BOOLEAN
    BY DEF Taken
  <1>7. NoteSent(s, h, f.queue) \/ NoteFailed(s, h, f.queue)
    BY DEF Notify
  \* a queue the notification is not about
  <1>8. ASSUME NEW t \in Services, NEW p \in Queues, t # s \/ p # f.queue,
               EndsUp(OnTheWay(Other(t)), flag[Other(t)][p], p, Taken(t, p))
                 => EndsUp(OnTheWay(Other(t))', flag[Other(t)][p], p, Taken(t, p))
        PROVE  Settled(t, p)'
    <2>1. Settled(t, p)
      BY DEF AllSettled
    <2>2. /\ newest'[t][p] = newest[t][p]
          /\ p \in failed'[t] <=> p \in failed[t]
          /\ p \in crossed'[t] <=> p \in crossed[t]
      BY <1>1, <1>7, <1>8, NotedAbout
    <2>3. t = s => h \notin Notices(t, p)
      BY <1>8 DEF Notices
    <2>4. newest[t][p] # NoSocket =>
            newest[t][p] \in Notices(t, p)' /\ pending'[t][newest[t][p]].on = Taken(t, p)'
      BY <1>4, <1>5, <2>1, <2>3 DEF Settled
    <2>5. newest[t][p] = NoSocket /\ p \notin failed[t] \cup crossed[t] =>
            EndsUp(OnTheWay(Other(t))', flag'[Other(t)][p], p, Taken(t, p)')
      BY <1>5, <1>8, <2>1 DEF Settled
    <2> QED
      BY <2>2, <2>4, <2>5 DEF Settled
  \* ... and the one it is about, while a newer one is still to come
  <1>9. ASSUME NEW p \in Queues, p = f.queue, newest[s][p] \notin {h, NoSocket}
        PROVE  Settled(s, p)'
    <2>1. newest[s][p] \in Notices(s, p) /\ pending[s][newest[s][p]].on = Taken(s, p)
      BY <1>9 DEF AllSettled, Settled
    <2>2. newest'[s][p] = newest[s][p]
      BY <1>1, <1>7, <1>9, NotedAbout
    <2>3. newest[s][p] \in Notices(s, p)' /\ pending'[s][newest[s][p]].on = Taken(s, p)'
      BY <1>4, <1>5, <1>9, <2>1
    <2> QED
      BY <1>9, <2>2, <2>3 DEF Settled
  <1>10. CASE SendDone(s, f) /\ NoteSent(s, h, f.queue)
    <2> DEFINE c == sock[s]
    <2>1. c \in Conns
      BY <1>10 DEF SendDone, TypeOK, LinkTypeOK
    <2>2. UNCHANGED <<sock, inbuf>> /\ wire' = [wire EXCEPT ![o][c] = Append(wire[o][c], f)]
      BY <1>10 DEF SendDone
    <2>3. /\ wire'[o][c] = Append(wire[o][c], f) /\ wire'[s] = wire[s]
          /\ wire[o][c] \in Seq(Frames) /\ inbuf[o] \in Seq(Frames)
      BY <1>0, <2>1, <2>2 DEF TypeOK, LinkTypeOK
    <2>4. Quiet'
      <3>1. \A t \in Services : t = s \/ t = o
        BY DEF Services, Other, HOST, PEER
      <3>2. sock'[Other(o)] # NULL
        BY <1>0, <2>1, <2>2
      <3> QED
        BY <2>2, <2>3, <3>1, <3>2 DEF Quiet
    <2>5. OnTheWay(o)' = Append(OnTheWay(o), f) /\ OnTheWay(o) \in Seq(Frames)
      <3>1. OnTheWay(o) = inbuf[o] \o wire[o][c]
        BY <1>0, <2>1 DEF OnTheWay
      <3>2. OnTheWay(o)' = inbuf[o] \o wire'[o][c]
        BY <1>0, <2>1, <2>2 DEF OnTheWay
      <3> QED
        <4>1. inbuf[o] \o Append(wire[o][c], f) = Append(inbuf[o] \o wire[o][c], f)
          <5>1. \A a, b \in Seq(Frames), x \in Frames : a \o Append(b, x) = Append(a \o b, x)
            BY ConcatEnds
          <5> QED
            BY <1>1, <2>3, <5>1
        <4> QED
          BY <1>0, <2>3, <3>1, <3>2, <4>1, WayType
    <2>6. OnTheWay(s)' = OnTheWay(s)
      <3>1. sock' = sock /\ inbuf' = inbuf /\ wire'[s] = wire[s]
        BY <2>2, <2>3
      <3> QED
        BY <3>1 DEF OnTheWay
    <2>7. ASSUME NEW t \in Services, NEW p \in Queues PROVE Settled(t, p)'
      <3>1. CASE t = s /\ p = f.queue /\ newest[s][p] = h
        <4>1. f.on = Taken(s, p)
          BY <1>2, <3>1 DEF AllSettled, Settled
        <4>2. newest'[s][p] = NoSocket
          BY <1>1, <1>7, <3>1, NotedAbout
        <4>3. EndsUp(Append(OnTheWay(o), f), flag[o][p], p, Taken(s, p))
          <5>1. f = [queue |-> p, on |-> Taken(s, p)] /\ Taken(s, p) \in BOOLEAN
            BY <1>1, <3>1, <4>1
          <5> HIDE DEF f, o
          <5> QED
            BY <1>1, <2>5, <5>1, EndsUpAppend
        <4>4. (EndsUp(OnTheWay(o), flag[o][p], p, Taken(s, p)))'
          BY <1>5, <2>5, <4>3
        <4> QED
          BY <3>1, <4>2, <4>4 DEF Settled
      <3>2. CASE t = s /\ p = f.queue /\ newest[s][p] = NoSocket
        <4>1. newest'[s][p] = NoSocket /\ p \in crossed'[s]
          BY <1>1, <1>2, <1>10, <3>2, NotedAbout
        <4> QED
          BY <3>2, <4>1 DEF Settled
      <3>3. CASE t = s /\ p = f.queue /\ newest[s][p] \notin {h, NoSocket}
        BY <1>9, <3>3
      <3>4. CASE t = s /\ p # f.queue
        <4>1. EndsUp(OnTheWay(o), flag[o][p], p, Taken(s, p))
                => EndsUp(Append(OnTheWay(o), f), flag[o][p], p, Taken(s, p))
          <5>1. Taken(s, p) \in BOOLEAN
            BY <1>6
          <5> HIDE DEF f, o
          <5> QED
            BY <1>1, <2>5, <3>4, <5>1, EndsUpAppend
        <4> QED
          BY <1>8, <2>5, <3>4, <4>1
      <3>5. CASE t # s
        <4>1. Other(t) = s
          BY <3>5 DEF Services, Other, HOST, PEER
        <4> QED
          BY <1>8, <2>6, <3>5, <4>1
      <3> QED
        BY <3>1, <3>2, <3>3, <3>4, <3>5
    <2> QED
      BY <2>4, <2>7 DEF AllSettled
  <1>11. CASE (SendLost(s) \/ SendFails(s)) /\ NoteFailed(s, h, f.queue)
    <2>1. UNCHANGED <<sock, wire, inbuf>>
      BY <1>11 DEF SendLost, SendFails, linkVars
    <2>2. Quiet' /\ \A t \in Services : OnTheWay(t)' = OnTheWay(t)
      BY <2>1 DEF Quiet, OnTheWay
    <2>3. ASSUME NEW t \in Services, NEW p \in Queues PROVE Settled(t, p)'
      <3>1. OnTheWay(Other(t))' = OnTheWay(Other(t))
        BY <2>2, OtherService
      <3>2. CASE t = s /\ p = f.queue /\ newest[s][p] = h
        <4>1. newest'[s][p] = NoSocket /\ p \in failed'[s]
          BY <1>1, <1>2, <1>11, <3>2, NotedAbout
        <4> QED
          BY <3>2, <4>1 DEF Settled
      <3>3. CASE t = s /\ p = f.queue /\ newest[s][p] = NoSocket
        <4>1. /\ newest'[s][p] = NoSocket
              /\ p \in failed'[s] <=> p \in failed[s]
              /\ p \in crossed'[s] <=> p \in crossed[s]
          BY <1>1, <1>2, <1>11, <3>3, NotedAbout
        <4>2. Settled(s, p)
          BY DEF AllSettled
        <4> QED
          BY <1>5, <3>1, <3>3, <4>1, <4>2 DEF Settled, EndsUp
      <3>4. CASE t = s /\ p = f.queue /\ newest[s][p] \notin {h, NoSocket}
        BY <1>9, <3>4
      <3>5. CASE t # s \/ p # f.queue
        BY <1>8, <3>1, <3>5
      <3> QED
        BY <3>2, <3>3, <3>4, <3>5
    <2> QED
      BY <2>2, <2>3 DEF AllSettled
  <1> QED
    BY <1>10, <1>11 DEF Notify

LEMMA AgreeNext == TypeOK /\ SoundInv /\ AgreeInv /\ [Next]_vars => AgreeInv'
  <1> SUFFICES ASSUME TypeOK, SoundInv, AgreeInv, [Next]_vars PROVE AgreeInv'
    OBVIOUS
  <1>1. CASE UNCHANGED vars
    <2>1. UNCHANGED <<connected, pending, flag, resetting, noteVars, crashes>> /\ Quiet' = Quiet
      BY <1>1 DEF vars, linkVars, Quiet
    <2>2. \A s \in Services : OnTheWay(s)' = OnTheWay(s)
      BY <1>1 DEF vars, linkVars, OnTheWay
    <2> QED
      BY <2>1, <2>2, SettledStill DEF AgreeInv
  <1>2. ASSUME NEW s \in Services, NEW k \in 0..WireCap, Stop(s, k) PROVE AgreeInv'
    <2>1. crashes' # 0
      BY <1>2 DEF Stop, Crash, TypeOK, LinkTypeOK
    <2> QED
      BY <2>1 DEF AgreeInv
  <1>3. crashes = 0 => Undisturbed /\ ~resetting /\ Quiet /\ AllSettled
    BY DEF SoundInv, AgreeInv
  <1>4. ASSUME Establish PROVE AgreeInv'
    <2>1. crashes' = crashes /\ resetting' = resetting
      BY <1>4 DEF Establish, StartHost, StartPeer, AcceptThread, Accept, AcceptFails
    <2>2. crashes = 0 => Quiet' /\ AllSettled'
      BY <1>3, <1>4, AgreeEstablish
    <2> QED
      BY <1>3, <2>1, <2>2 DEF AgreeInv
  <1>5. ASSUME NEW s \in Services, Receive(s) PROVE AgreeInv'
    <2>1. crashes' = crashes
      BY <1>5 DEF Receive, Store, LetGo, Forget, HandleFrame, NullSock, Select, RecvFrames, RecvNothing,
                  CloseSock, linkVars
    <2>2. crashes = 0 => ~resetting' /\ Quiet' /\ AllSettled'
      BY <1>3, <1>5, AgreeReceive
    <2> QED
      BY <2>1, <2>2 DEF AgreeInv
  <1>6. ASSUME NEW s \in Services, NEW h \in Sockets, Notify(s, h) PROVE AgreeInv'
    <2>1. crashes' = crashes /\ resetting' = resetting
      BY <1>6 DEF Notify, SendDone, SendLost, SendFails, linkVars
    <2>2. crashes = 0 => Quiet' /\ AllSettled'
      BY <1>3, <1>6, AgreeNotify
    <2> QED
      BY <1>3, <2>1, <2>2 DEF AgreeInv
  <1>7. ASSUME NEW s \in Services, NEW h \in Sockets, NEW q \in Queues, Join(s, h, q) \/ Leave(s, h, q)
        PROVE  AgreeInv'
    <2>1. PICK on \in BOOLEAN :
            /\ Announce(s, h, q, on)
            /\ connected' = [connected EXCEPT ![s][q] = IF on THEN h ELSE NoSocket]
      BY <1>7 DEF Join, Leave
    <2>2. UNCHANGED <<linkVars, flag, resetting>> /\ pending[s][h] = NoFrame
      BY <1>7 DEF Join, Leave
    <2>3. crashes' = crashes
      BY <2>2 DEF linkVars
    <2>4. \A t \in Services, p \in Queues : Taken(t, p)' = IF t = s /\ p = q THEN on ELSE Taken(t, p)
      BY <2>1, PresenceAssumption DEF Taken, TypeOK
    <2>5. crashes = 0 => Quiet' /\ AllSettled'
      BY <1>3, <2>1, <2>2, <2>4, AgreeAnnounce
    <2> QED
      BY <1>3, <2>2, <2>3, <2>5 DEF AgreeInv
  <1> QED
    BY <1>1, <1>2, <1>4, <1>5, <1>6, <1>7 DEF Next

\* What the invariant says of queues with no notification to come.
LEMMA AgreeFlags == AgreeInv => FlagsAgree
  <1> SUFFICES ASSUME AgreeInv, crashes = 0, NEW s \in Services, NEW q \in Queues,
                      Notices(s, q) = {}, q \notin failed[s] \cup crossed[s]
               PROVE  EndsUp(OnTheWay(Other(s)), flag[Other(s)][q], q, Taken(s, q))
    BY DEF FlagsAgree
  <1>1. Settled(s, q)
    BY DEF AgreeInv, AllSettled
  <1> QED
    BY <1>1 DEF Settled

(***************************************************************************)
(* Until a service first stops, the two agree on whether a queue has a     *)
(* client, but for what is on its way, unless the notification about the   *)
(* last change of the queue could not be sent or was overtaken by an older *)
(* one: the code allows both.  Whatever else the workers' notifications do *)
(* to each other is harmless.  The invariant says what the worker with the *)
(* newest notification will send, and rests on the link being undisturbed  *)
(* (SoundInv of ServiceLinkProofs).                                        *)
(***************************************************************************)
THEOREM PresenceFlagsAgree == Spec => []FlagsAgree
  <1>1. Init => TypeOK /\ SoundInv /\ AgreeInv
    BY PresenceInitType, SoundInit, AgreeInit DEF Init
  <1>2. TypeOK /\ SoundInv /\ [Next]_vars => SoundInv'
    BY StepIsLinkStep, SoundNext DEF TypeOK
  <1>3. TypeOK /\ SoundInv /\ AgreeInv /\ [Next]_vars => AgreeInv'
    BY AgreeNext
  <1> QED
    BY <1>1, <1>2, <1>3, AgreeFlags, PresenceTypeCorrect, PTL DEF Spec
=============================================================================
