------------------------- MODULE MessagePathProofs -------------------------
(***************************************************************************)
(* Proofs about the way of a message: type correctness; that a message is  *)
(* never in two places, so that no client is sent one twice; and that      *)
(* messages reach only the queue they were submitted to.  They hold for    *)
(* any number of queues, messages, client sockets, connections, restarts   *)
(* and any capacity of the kernel's buffers.                               *)
(***************************************************************************)
EXTENDS MessagePath, ServiceLinkProofs

(***************************************************************************)
(* What the types say about single entries                                 *)
(***************************************************************************)

LEMMA OtherType == \A s \in Services : Other(s) \in Services /\ Other(s) # s /\ Other(Other(s)) = s
BY DEF Services, Other, HOST, PEER

LEMMA EntryTypes ==
  ASSUME TypeOK
  PROVE  /\ \A s \in Services, q \in Queues :
              /\ elements[s][q] \in Seq(Element)
              /\ \A i \in DOMAIN elements[s][q] : elements[s][q][i] \in Element
              /\ delivered[s][q] \in Seq(Messages)
              /\ \A i \in DOMAIN delivered[s][q] : delivered[s][q][i] \in Messages
         /\ \A s \in Services, c \in Conns :
              /\ wire[s][c] \in Seq(Frames)
              /\ \A i \in DOMAIN wire[s][c] : wire[s][c][i].msg \in Messages
         /\ \A s \in Services :
              /\ inbuf[s] \in Seq(Frames)
              /\ \A i \in DOMAIN inbuf[s] : inbuf[s][i].msg \in Messages
  <1>1. \A f \in Frames : f.msg \in Messages
    BY PathAssumption
  <1>2. \A s \in Services, q \in Queues : elements[s][q] \in Seq(Element)
                                          /\ delivered[s][q] \in Seq(Messages)
    BY DEF TypeOK, PathTypeOK
  <1>3. \A s \in Services, c \in Conns : wire[s][c] \in Seq(Frames)
    BY DEF TypeOK, LinkTypeOK
  <1>4. \A s \in Services : inbuf[s] \in Seq(Frames)
    BY DEF TypeOK, LinkTypeOK
  <1>5. \A s \in Services, q \in Queues :
          /\ \A i \in DOMAIN elements[s][q] : elements[s][q][i] \in Element
          /\ \A i \in DOMAIN delivered[s][q] : delivered[s][q][i] \in Messages
    BY <1>2, ElementOfSeq, LenProperties
  <1>6. \A s \in Services, c \in Conns : \A i \in DOMAIN wire[s][c] : wire[s][c][i] \in Frames
    BY <1>3, ElementOfSeq, LenProperties
  <1>7. \A s \in Services : \A i \in DOMAIN inbuf[s] : inbuf[s][i] \in Frames
    BY <1>4, ElementOfSeq, LenProperties
  <1> QED
    BY <1>1, <1>2, <1>3, <1>4, <1>5, <1>6, <1>7

\* The places that occur are places.
LEMMA PlaceType ==
  /\ \A s \in Services, q \in Queues :
       At("queue", s, q) \in Places /\ At("held", s, q) \in Places /\ Delivered(s, q) \in Places
  /\ \A s \in Services, c \in Conns : At("wire", s, c) \in Places
  /\ \A s \in Services : At("inbuf", s, NULL) \in Places
  /\ {Fresh, Dropped, Lost} \subseteq Places
BY PathAssumption, LinkAssumption
   DEF At, Delivered, Fresh, Dropped, Lost, Places, Moving, Queues, Conns, NULL, Services, HOST

(***************************************************************************)
(* Type correctness                                                        *)
(***************************************************************************)

LEMMA InitType == Init => TypeOK
  <1> SUFFICES ASSUME Init PROVE TypeOK
    OBVIOUS
  <1>1. LinkTypeOK
    BY LinkInitType DEF Init
  <1>2. PathTypeOK
    BY PlaceType DEF Init, PathTypeOK
  <1> QED
    BY <1>1, <1>2 DEF TypeOK

\* Client steps leave the link and the process threads alone.
LEMMA ClientStepType ==
  ASSUME TypeOK, NEW s \in Services, NEW h \in Sockets, ClientStep(s, h)
  PROVE  TypeOK'
  <1>1. CASE OpenClient(s, h) \/ CloseClient(s, h) \/ CleanupClient(s, h)
    <2>1. LinkTypeOK'
      BY <1>1 DEF OpenClient, CloseClient, CleanupClient, linkVars, TypeOK, LinkTypeOK
    <2>2. /\ connected' \in [Services -> [Queues -> Sockets \cup {NoSocket}]]
          /\ session' \in [Services -> [Sockets -> {"closed", "on", "gone"}]]
      <3>1. CASE OpenClient(s, h) \/ CloseClient(s, h)
        <4>1. /\ connected' = connected
              /\ \E x \in {"on", "gone"} : session' = [session EXCEPT ![s][h] = x]
          BY <3>1 DEF OpenClient, CloseClient
        <4> QED
          BY <4>1 DEF TypeOK, PathTypeOK
      <3>2. CASE CleanupClient(s, h)
        <4>1. session' \in [Services -> [Sockets -> {"closed", "on", "gone"}]]
          BY <3>2 DEF CleanupClient, TypeOK, PathTypeOK
        <4>2. [q \in Queues |->
                 IF connected[s][q] = h /\ \A r \in 1..(q - 1) : connected[s][r] # h
                 THEN NoSocket ELSE connected[s][q]] \in [Queues -> Sockets \cup {NoSocket}]
          BY DEF TypeOK, PathTypeOK
        <4> QED
          BY <3>2, <4>1, <4>2 DEF CleanupClient, TypeOK, PathTypeOK
      <3> QED
        BY <1>1, <3>1, <3>2
    <2>3. UNCHANGED <<elements, threadVars, submitted, delivered, retried, place>>
      BY <1>1 DEF OpenClient, CloseClient, CleanupClient
    <2>4. PathTypeOK'
      BY <2>2, <2>3 DEF threadVars, TypeOK, PathTypeOK
    <2> QED
      BY <2>1, <2>4 DEF TypeOK
  <1>2. ASSUME NEW q \in Queues, ConnectToQueue(s, h, q) PROVE TypeOK'
    <2>1. LinkTypeOK'
      BY <1>2 DEF ConnectToQueue, linkVars, TypeOK, LinkTypeOK
    <2>2. PathTypeOK'
      BY <1>2 DEF ConnectToQueue, threadVars, TypeOK, PathTypeOK
    <2> QED
      BY <2>1, <2>2 DEF TypeOK
  <1>3. ASSUME NEW q \in Queues, NEW m \in Messages, Submit(s, h, q, m) PROVE TypeOK'
    <2>1. LinkTypeOK'
      BY <1>3 DEF Submit, linkVars, TypeOK, LinkTypeOK
    <2>2. /\ Append(elements[s][q], [to |-> "service", msg |-> m]) \in Seq(Element)
          /\ Append(submitted[s][q], m) \in Seq(Messages)
      <3>1. elements[s][q] \in Seq(Element) /\ submitted[s][q] \in Seq(Messages)
        BY DEF TypeOK, PathTypeOK
      <3>2. [to |-> "service", msg |-> m] \in Element
        BY DEF Element
      <3> QED
        BY <3>1, <3>2, AppendProperties
    <2>3. At("queue", s, q) \in Places
      BY PlaceType
    <2>4. PathTypeOK'
      BY <1>3, <2>2, <2>3 DEF Submit, threadVars, clientVars, TypeOK, PathTypeOK
    <2> QED
      BY <2>1, <2>4 DEF TypeOK
  <1> QED
    BY <1>1, <1>2, <1>3 DEF ClientStep

\* A process thread that lets go of its message keeps the types of its own.
LEMMA ReleaseType ==
  ASSUME TypeOK, NEW s \in Services, NEW q \in Queues, Release(s, q)
  PROVE  /\ pc' \in [Services -> [Queues -> {"idle", "toClient", "sendClient", "toService", "requeue"}]]
         /\ held' \in [Services -> [Queues -> Messages \cup {NoMsg}]]
         /\ target' \in [Services -> [Queues -> Sockets \cup {NoSocket}]]
         /\ \A t \in Services, r \in Queues : (held'[t][r] = NoMsg) <=> (pc'[t][r] = "idle")
BY DEF Release, TypeOK, PathTypeOK

LEMMA ProcessThreadType ==
  ASSUME TypeOK, NEW s \in Services, NEW q \in Queues, ProcessThread(s, q)
  PROVE  TypeOK'
  <1>1. CASE Take(s, q)
    <2>1. LinkTypeOK'
      BY <1>1 DEF Take, linkVars, TypeOK, LinkTypeOK
    <2>2. /\ Head(elements[s][q]) \in Element
          /\ Tail(elements[s][q]) \in Seq(Element)
      BY <1>1, TailIndex DEF Take, TypeOK, PathTypeOK
    <2>3. Head(elements[s][q]).msg \in Messages
      BY <2>2 DEF Element
    <2>4. At("held", s, q) \in Places
      BY PlaceType
    <2>5. /\ held' = [held EXCEPT ![s][q] = Head(elements[s][q]).msg]
          /\ pc' = [pc EXCEPT ![s][q] = IF Head(elements[s][q]).to = "client" THEN "toClient" ELSE "toService"]
          /\ place' = [place EXCEPT ![Head(elements[s][q]).msg] = At("held", s, q)]
          /\ elements' = [elements EXCEPT ![s][q] = Tail(elements[s][q])]
          /\ UNCHANGED <<clientVars, target, submitted, delivered, retried>>
      BY <1>1 DEF Take
    <2>6. \A t \in Services, r \in Queues : (held'[t][r] = NoMsg) <=> (pc'[t][r] = "idle")
      BY <2>3, <2>5, PathAssumption DEF TypeOK, PathTypeOK
    <2>7. /\ elements' \in [Services -> [Queues -> Seq(Element)]]
          /\ pc' \in [Services -> [Queues -> {"idle", "toClient", "sendClient", "toService", "requeue"}]]
          /\ held' \in [Services -> [Queues -> Messages \cup {NoMsg}]]
          /\ place' \in [Messages -> Places]
      BY <2>2, <2>3, <2>4, <2>5 DEF TypeOK, PathTypeOK
    <2> QED
      BY <2>1, <2>5, <2>6, <2>7 DEF clientVars, TypeOK, PathTypeOK
  <1>2. CASE DropUnclaimed(s, q) \/ SendToClientFails(s, q) \/ ForwardLost(s, q)
    <2>1. LinkTypeOK'
      <3>1. CASE UNCHANGED linkVars
        BY <3>1 DEF linkVars, TypeOK, LinkTypeOK
      <3>2. CASE ForwardLost(s, q)
        <4>1. held[s][q] \in Messages
          BY <3>2 DEF ForwardLost, TypeOK, PathTypeOK
        <4>2. [queue |-> q, msg |-> held[s][q]] \in Frames
          BY <4>1, PathAssumption
        <4>3. Send(s, [queue |-> q, msg |-> held[s][q]])
          BY <3>2 DEF ForwardLost, Send
        <4> QED
          BY <4>2, <4>3, SendType DEF TypeOK
      <3> QED
        BY <1>2, <3>1, <3>2 DEF DropUnclaimed, SendToClientFails
    <2>2. /\ Release(s, q)
          /\ \E p \in Places : place' = [place EXCEPT ![held[s][q]] = p]
          /\ UNCHANGED <<clientVars, elements, submitted, delivered, retried>>
      BY <1>2, PlaceType DEF DropUnclaimed, SendToClientFails, ForwardLost
    <2>3. /\ pc' \in [Services -> [Queues -> {"idle", "toClient", "sendClient", "toService", "requeue"}]]
          /\ held' \in [Services -> [Queues -> Messages \cup {NoMsg}]]
          /\ target' \in [Services -> [Queues -> Sockets \cup {NoSocket}]]
          /\ \A t \in Services, r \in Queues : (held'[t][r] = NoMsg) <=> (pc'[t][r] = "idle")
      BY <2>2, ReleaseType
    <2>4. place' \in [Messages -> Places]
      BY <2>2 DEF TypeOK, PathTypeOK
    <2>5. PathTypeOK'
      BY <2>2, <2>3, <2>4 DEF clientVars, TypeOK, PathTypeOK
    <2> QED
      BY <2>1, <2>5 DEF TypeOK
  <1>3. CASE ReadClient(s, q)
    <2>1. LinkTypeOK'
      BY <1>3 DEF ReadClient, linkVars, TypeOK, LinkTypeOK
    <2>2. /\ pc' = [pc EXCEPT ![s][q] = "sendClient"] /\ pc[s][q] # "idle"
          /\ target' = [target EXCEPT ![s][q] = connected[s][q]]
          /\ UNCHANGED <<connected, session, elements, held, submitted, delivered, retried, place>>
      BY <1>3 DEF ReadClient, clientVars
    <2>3. /\ pc' \in [Services -> [Queues -> {"idle", "toClient", "sendClient", "toService", "requeue"}]]
          /\ \A t \in Services, r \in Queues : (held'[t][r] = NoMsg) <=> (pc'[t][r] = "idle")
      BY <2>2 DEF TypeOK, PathTypeOK
    <2>4. target' \in [Services -> [Queues -> Sockets \cup {NoSocket}]]
      BY <2>2 DEF TypeOK, PathTypeOK
    <2> QED
      BY <2>1, <2>2, <2>3, <2>4 DEF TypeOK, PathTypeOK
  <1>4. CASE SendToClient(s, q)
    <2>1. LinkTypeOK'
      BY <1>4 DEF SendToClient, linkVars, TypeOK, LinkTypeOK
    <2>2. held[s][q] \in Messages
      BY <1>4 DEF SendToClient, TypeOK, PathTypeOK
    <2>3. Append(delivered[s][q], held[s][q]) \in Seq(Messages)
      BY <2>2, AppendIndex DEF TypeOK, PathTypeOK
    <2>4. PathTypeOK'
      BY <1>4, <2>3, ReleaseType, PlaceType DEF SendToClient, clientVars, TypeOK, PathTypeOK
    <2> QED
      BY <2>1, <2>4 DEF TypeOK
  <1>5. CASE Forward(s, q)
    <2>1. held[s][q] \in Messages
      BY <1>5 DEF Forward, TypeOK, PathTypeOK
    <2>2. [queue |-> q, msg |-> held[s][q]] \in Frames
      BY <2>1, PathAssumption
    <2>3. Send(s, [queue |-> q, msg |-> held[s][q]])
      BY <1>5 DEF Forward, Send
    <2>4. LinkTypeOK'
      BY <2>2, <2>3, SendType DEF TypeOK
    <2>5. At("wire", Other(s), sock[s]) \in Places
      BY <1>5, PlaceType, OtherType DEF Forward, SendDone, TypeOK, LinkTypeOK
    <2>6. PathTypeOK'
      BY <1>5, <2>5, ReleaseType DEF Forward, clientVars, TypeOK, PathTypeOK
    <2> QED
      BY <2>4, <2>6 DEF TypeOK
  <1>6. CASE ForwardFails(s, q)
    <2>1. LinkTypeOK'
      BY <1>6 DEF ForwardFails, SendFails, linkVars, TypeOK, LinkTypeOK
    <2>2. held[s][q] \in Messages
      BY <1>6 DEF ForwardFails, TypeOK, PathTypeOK
    <2>3. PathTypeOK'
      BY <1>6, <2>2 DEF ForwardFails, clientVars, TypeOK, PathTypeOK
    <2> QED
      BY <2>1, <2>3 DEF TypeOK
  <1>7. CASE Requeue(s, q)
    <2>1. LinkTypeOK'
      BY <1>7 DEF Requeue, linkVars, TypeOK, LinkTypeOK
    <2>2. held[s][q] \in Messages
      BY <1>7 DEF Requeue, TypeOK, PathTypeOK
    <2>3. Append(elements[s][q], [to |-> "service", msg |-> held[s][q]]) \in Seq(Element)
      <3>1. elements[s][q] \in Seq(Element)
        BY DEF TypeOK, PathTypeOK
      <3>2. [to |-> "service", msg |-> held[s][q]] \in Element
        BY <2>2 DEF Element
      <3> QED
        BY <3>1, <3>2, AppendProperties
    <2>4. PathTypeOK'
      BY <1>7, <2>3, ReleaseType, PlaceType DEF Requeue, clientVars, TypeOK, PathTypeOK
    <2> QED
      BY <2>1, <2>4 DEF TypeOK
  <1> QED
    BY <1>1, <1>2, <1>3, <1>4, <1>5, <1>6, <1>7 DEF ProcessThread

LEMMA LinkStepType ==
  ASSUME TypeOK, PathStart \/ PathAccept \/ (\E s \in Services : PathRecvThread(s))
  PROVE  TypeOK'
  <1>1. CASE PathStart
    <2>1. LinkTypeOK'
      BY <1>1, StartType DEF PathStart, TypeOK
    <2> QED
      BY <1>1, <2>1 DEF PathStart, pathVars, TypeOK, PathTypeOK
  <1>2. ASSUME NEW s \in Services, NEW C, place' = LoseWire(s, C)
        PROVE  place' \in [Messages -> Places]
    BY <1>2, PlaceType DEF LoseWire, TypeOK, PathTypeOK
  <1>3. CASE PathAccept
    <2>1. LinkTypeOK'
      BY <1>3, AcceptType DEF PathAccept, AcceptThread, TypeOK
    <2>2. place' \in [Messages -> Places]
      BY <1>2, <1>3 DEF PathAccept, Services
    <2> QED
      BY <1>3, <2>1, <2>2 DEF PathAccept, threadVars, clientVars, TypeOK, PathTypeOK
  <1>4. ASSUME NEW s \in Services, PathSelect(s) PROVE TypeOK'
    <2>1. LinkTypeOK'
      BY <1>4, RecvThreadType DEF PathSelect, RecvThread, TypeOK
    <2> QED
      BY <1>4, <2>1 DEF PathSelect, pathVars, TypeOK, PathTypeOK
  <1>5. ASSUME NEW s \in Services, PathRecv(s) PROVE TypeOK'
    <2>1. LinkTypeOK'
      BY <1>5, RecvThreadType DEF PathRecv, RecvThread, TypeOK
    <2>2. place' \in [Messages -> Places]
      BY <1>5, PlaceType DEF PathRecv, TypeOK, PathTypeOK
    <2> QED
      BY <1>5, <2>1, <2>2 DEF PathRecv, threadVars, clientVars, TypeOK, PathTypeOK
  <1>6. ASSUME NEW s \in Services, StoreMessage(s) PROVE TypeOK'
    <2>1. LinkTypeOK'
      BY <1>6, RecvThreadType DEF StoreMessage, RecvThread, TypeOK
    <2>2. inbuf[s] \in Seq(Frames) /\ inbuf[s] # <<>>
      BY <1>6 DEF StoreMessage, HandleFrame, TypeOK, LinkTypeOK
    <2>3. Head(inbuf[s]).queue \in Queues /\ Head(inbuf[s]).msg \in Messages
      <3>1. Head(inbuf[s]) \in Frames
        BY <2>2, TailIndex
      <3> QED
        BY <3>1, PathAssumption
    <2>4. Append(elements[s][Head(inbuf[s]).queue], [to |-> "client", msg |-> Head(inbuf[s]).msg])
            \in Seq(Element)
      <3>1. elements[s][Head(inbuf[s]).queue] \in Seq(Element)
        BY <2>3 DEF TypeOK, PathTypeOK
      <3>2. [to |-> "client", msg |-> Head(inbuf[s]).msg] \in Element
        BY <2>3 DEF Element
      <3> QED
        BY <3>1, <3>2, AppendProperties
    <2>5. /\ elements' \in [Services -> [Queues -> Seq(Element)]]
          /\ place' \in [Messages -> Places]
      BY <1>6, <2>3, <2>4, PlaceType DEF StoreMessage, TypeOK, PathTypeOK
    <2> QED
      BY <1>6, <2>1, <2>5 DEF StoreMessage, threadVars, clientVars, TypeOK, PathTypeOK
  <1>7. ASSUME NEW s \in Services, PathClose(s) PROVE TypeOK'
    <2>1. LinkTypeOK'
      BY <1>7, RecvThreadType DEF PathClose, RecvThread, TypeOK
    <2>2. place' \in [Messages -> Places]
      BY <1>2, <1>7 DEF PathClose
    <2> QED
      BY <1>7, <2>1, <2>2 DEF PathClose, threadVars, clientVars, TypeOK, PathTypeOK
  <1> QED
    BY <1>1, <1>3, <1>4, <1>5, <1>6, <1>7 DEF PathRecvThread

LEMMA PathCrashType ==
  ASSUME TypeOK, NEW s \in Services, NEW k \in 0..WireCap, PathCrash(s, k)
  PROVE  TypeOK'
  <1>1. LinkTypeOK'
    BY CrashType DEF PathCrash, TypeOK
  <1>2. place' \in [Messages -> Places]
    BY PlaceType DEF PathCrash, TypeOK, PathTypeOK
  <1>3. elements' \in [Services -> [Queues -> Seq(Element)]]
    BY DEF PathCrash, TypeOK, PathTypeOK
  <1>4. /\ pc' \in [Services -> [Queues -> {"idle", "toClient", "sendClient", "toService", "requeue"}]]
        /\ held' \in [Services -> [Queues -> Messages \cup {NoMsg}]]
        /\ \A t \in Services, q \in Queues : (held'[t][q] = NoMsg) <=> (pc'[t][q] = "idle")
    BY DEF PathCrash, TypeOK, PathTypeOK
  <1>5. /\ target' \in [Services -> [Queues -> Sockets \cup {NoSocket}]]
        /\ connected' \in [Services -> [Queues -> Sockets \cup {NoSocket}]]
        /\ session' \in [Services -> [Sockets -> {"closed", "on", "gone"}]]
    BY DEF PathCrash, TypeOK, PathTypeOK
  <1> QED
    BY <1>1, <1>2, <1>3, <1>4, <1>5 DEF PathCrash, TypeOK, PathTypeOK

LEMMA NextType == TypeOK /\ [Next]_vars => TypeOK'
  <1> SUFFICES ASSUME TypeOK, [Next]_vars PROVE TypeOK'
    OBVIOUS
  <1>1. CASE PathStart \/ PathAccept \/ (\E s \in Services : PathRecvThread(s))
    BY <1>1, LinkStepType
  <1>2. ASSUME NEW s \in Services, NEW q \in Queues, ProcessThread(s, q) PROVE TypeOK'
    BY <1>2, ProcessThreadType
  <1>3. ASSUME NEW s \in Services, NEW h \in Sockets, ClientStep(s, h) PROVE TypeOK'
    BY <1>3, ClientStepType
  <1>4. ASSUME NEW s \in Services, NEW k \in 0..WireCap, PathCrash(s, k) PROVE TypeOK'
    BY <1>4, PathCrashType
  <1>5. CASE UNCHANGED vars
    BY <1>5 DEF vars, linkVars, pathVars, TypeOK, LinkTypeOK, PathTypeOK
  <1> QED
    BY <1>1, <1>2, <1>3, <1>4, <1>5 DEF Next

(***************************************************************************)
(* All variables keep their types, and a process thread holds a message    *)
(* exactly while it is not between two messages.                           *)
(***************************************************************************)
THEOREM PathTypeCorrect == Spec => []TypeOK
  <1> QED
    BY InitType, NextType, PTL DEF Spec

(***************************************************************************)
(* At most once: a message is never in two places                          *)
(*                                                                         *)
(* OnePlace is not inductive.  What is: every container of messages agrees *)
(* with the history variable place about each message it holds, and holds  *)
(* it only once.  A message that enters a container comes from another     *)
(* place, so it was not in there before.                                   *)
(***************************************************************************)

\* The entries of seq are all different messages, and at says p of each.
Keeps(seq, at, p) ==
  \A i \in DOMAIN seq : /\ at[seq[i].msg] = p
                        /\ \A j \in DOMAIN seq : seq[i].msg = seq[j].msg => i = j

\* The same for a sequence of messages.
KeepsPlain(seq, at, p) ==
  \A i \in DOMAIN seq : /\ at[seq[i]] = p
                        /\ \A j \in DOMAIN seq : seq[i] = seq[j] => i = j

QueueAgree == \A s \in Services, q \in Queues : Keeps(elements[s][q], place, At("queue", s, q))
HeldAgree == \A s \in Services, q \in Queues :
               held[s][q] # NoMsg => place[held[s][q]] = At("held", s, q)
WireAgree == \A s \in Services, c \in Conns : Keeps(wire[s][c], place, At("wire", s, c))
InbufAgree == \A s \in Services : Keeps(inbuf[s], place, At("inbuf", s, NULL))
ClientAgree == \A s \in Services, q \in Queues :
                 KeepsPlain(delivered[s][q], place, At("delivered", s, q))

Agree == QueueAgree /\ HeldAgree /\ WireAgree /\ InbufAgree /\ ClientAgree

\* How the steps of the code change a container, and that it still agrees.
LEMMA KeepsAppend ==
  ASSUME NEW S, NEW seq \in Seq(S), NEW e \in S, NEW at, NEW p,
         \A x \in S : x.msg \in Messages,
         at \in [Messages -> Places], p \in Places,
         Keeps(seq, at, p), at[e.msg] # p
  PROVE  Keeps(Append(seq, e), [at EXCEPT ![e.msg] = p], p)
  <1>1. /\ DOMAIN seq = 1..Len(seq) /\ Len(seq) \in Nat
        /\ DOMAIN Append(seq, e) = 1..(Len(seq) + 1)
        /\ \A i \in 1..(Len(seq) + 1) : Append(seq, e)[i] = IF i = Len(seq) + 1 THEN e ELSE seq[i]
        /\ \A i \in DOMAIN seq : seq[i] \in S
    BY AppendIndex, ElementOfSeq
  <1>2. \A i \in DOMAIN seq : seq[i].msg # e.msg
    BY DEF Keeps
  <1> QED
    BY <1>1, <1>2 DEF Keeps

LEMMA KeepsAppendPlain ==
  ASSUME NEW seq \in Seq(Messages), NEW m \in Messages, NEW at, NEW p,
         at \in [Messages -> Places], p \in Places,
         KeepsPlain(seq, at, p), at[m] # p
  PROVE  KeepsPlain(Append(seq, m), [at EXCEPT ![m] = p], p)
  <1>1. /\ DOMAIN seq = 1..Len(seq) /\ Len(seq) \in Nat
        /\ DOMAIN Append(seq, m) = 1..(Len(seq) + 1)
        /\ \A i \in 1..(Len(seq) + 1) : Append(seq, m)[i] = IF i = Len(seq) + 1 THEN m ELSE seq[i]
        /\ \A i \in DOMAIN seq : seq[i] \in Messages
    BY AppendIndex, ElementOfSeq
  <1>2. \A i \in DOMAIN seq : seq[i] # m
    BY DEF KeepsPlain
  <1> QED
    BY <1>1, <1>2 DEF KeepsPlain

LEMMA KeepsTail ==
  ASSUME NEW S, NEW seq \in Seq(S), seq # <<>>, NEW at, NEW p, NEW r,
         \A x \in S : x.msg \in Messages,
         at \in [Messages -> Places], Keeps(seq, at, p)
  PROVE  /\ Keeps(Tail(seq), [at EXCEPT ![Head(seq).msg] = r], p)
         /\ at[Head(seq).msg] = p
  <1>1. /\ Head(seq) = seq[1] /\ Len(seq) \in Nat \ {0} /\ DOMAIN seq = 1..Len(seq)
        /\ DOMAIN Tail(seq) = 1..(Len(seq) - 1)
        /\ \A i \in 1..(Len(seq) - 1) : Tail(seq)[i] = seq[i + 1]
        /\ \A i \in DOMAIN seq : seq[i] \in S
    BY TailIndex, ElementOfSeq
  <1>2. \A i \in 1..(Len(seq) - 1) : i + 1 \in 1..Len(seq) /\ i + 1 # 1
    BY <1>1
  <1>3. \A i \in DOMAIN Tail(seq) : Tail(seq)[i].msg # Head(seq).msg
    BY <1>1, <1>2 DEF Keeps
  <1> QED
    BY <1>1, <1>2, <1>3 DEF Keeps

\* A step that leaves a container alone, and no message that is in it moves.
LEMMA KeepsStill ==
  ASSUME NEW S, NEW seq \in Seq(S), NEW at, NEW new, NEW p,
         \A x \in S : x.msg \in Messages,
         Keeps(seq, at, p), \A m \in Messages : at[m] = p => new[m] = p
  PROVE  Keeps(seq, new, p)
  <1>1. \A i \in DOMAIN seq : seq[i] \in S
    BY ElementOfSeq, LenProperties
  <1> QED
    BY <1>1 DEF Keeps

LEMMA KeepsStillPlain ==
  ASSUME NEW seq \in Seq(Messages), NEW at, NEW new, NEW p,
         KeepsPlain(seq, at, p), \A m \in Messages : at[m] = p => new[m] = p
  PROVE  KeepsPlain(seq, new, p)
  <1>1. \A i \in DOMAIN seq : seq[i] \in Messages
    BY ElementOfSeq, LenProperties
  <1> QED
    BY <1>1 DEF KeepsPlain

\* Places are told apart by their parts.
LEMMA AtEqual ==
  /\ \A k1, s1, n1, k2, s2, n2 : At(k1, s1, n1) = At(k2, s2, n2) <=> k1 = k2 /\ s1 = s2 /\ n1 = n2
  /\ \A k, s, n : At(k, s, n).kind = k /\ At(k, s, n).svc = s /\ At(k, s, n).n = n
BY DEF At

\* The containers that no moving message comes from go on agreeing.
LEMMA Still ==
  ASSUME TypeOK, Agree, NEW new
  PROVE  /\ \A s \in Services, q \in Queues :
              (\A m \in Messages : place[m] = At("queue", s, q) => new[m] = place[m])
                => Keeps(elements[s][q], new, At("queue", s, q))
         /\ \A s \in Services, q \in Queues :
              (\A m \in Messages : place[m] = At("held", s, q) => new[m] = place[m])
                => (held[s][q] # NoMsg => new[held[s][q]] = At("held", s, q))
         /\ \A s \in Services, c \in Conns :
              (\A m \in Messages : place[m] = At("wire", s, c) => new[m] = place[m])
                => Keeps(wire[s][c], new, At("wire", s, c))
         /\ \A s \in Services :
              (\A m \in Messages : place[m] = At("inbuf", s, NULL) => new[m] = place[m])
                => Keeps(inbuf[s], new, At("inbuf", s, NULL))
         /\ \A s \in Services, q \in Queues :
              (\A m \in Messages : place[m] = At("delivered", s, q) => new[m] = place[m])
                => KeepsPlain(delivered[s][q], new, At("delivered", s, q))
  <1>1. (\A x \in Element : x.msg \in Messages) /\ (\A x \in Frames : x.msg \in Messages)
    BY PathAssumption DEF Element
  <1>2. ASSUME NEW s \in Services, NEW q \in Queues,
               \A m \in Messages : place[m] = At("queue", s, q) => new[m] = place[m]
        PROVE  Keeps(elements[s][q], new, At("queue", s, q))
    <2>1. elements[s][q] \in Seq(Element) /\ Keeps(elements[s][q], place, At("queue", s, q))
      BY EntryTypes DEF Agree, QueueAgree
    <2> QED
      BY <1>1, <1>2, <2>1, KeepsStill
  <1>3. ASSUME NEW s \in Services, NEW q \in Queues, held[s][q] # NoMsg,
               \A m \in Messages : place[m] = At("held", s, q) => new[m] = place[m]
        PROVE  new[held[s][q]] = At("held", s, q)
    BY <1>3 DEF Agree, HeldAgree, TypeOK, PathTypeOK
  <1>4. ASSUME NEW s \in Services, NEW c \in Conns,
               \A m \in Messages : place[m] = At("wire", s, c) => new[m] = place[m]
        PROVE  Keeps(wire[s][c], new, At("wire", s, c))
    <2>1. wire[s][c] \in Seq(Frames) /\ Keeps(wire[s][c], place, At("wire", s, c))
      BY EntryTypes DEF Agree, WireAgree
    <2> QED
      BY <1>1, <1>4, <2>1, KeepsStill
  <1>5. ASSUME NEW s \in Services,
               \A m \in Messages : place[m] = At("inbuf", s, NULL) => new[m] = place[m]
        PROVE  Keeps(inbuf[s], new, At("inbuf", s, NULL))
    <2>1. inbuf[s] \in Seq(Frames) /\ Keeps(inbuf[s], place, At("inbuf", s, NULL))
      BY EntryTypes DEF Agree, InbufAgree
    <2> QED
      BY <1>1, <1>5, <2>1, KeepsStill
  <1>6. ASSUME NEW s \in Services, NEW q \in Queues,
               \A m \in Messages : place[m] = At("delivered", s, q) => new[m] = place[m]
        PROVE  KeepsPlain(delivered[s][q], new, At("delivered", s, q))
    <2>1. delivered[s][q] \in Seq(Messages)
          /\ KeepsPlain(delivered[s][q], place, At("delivered", s, q))
      BY EntryTypes DEF Agree, ClientAgree
    <2> QED
      BY <1>6, <2>1, KeepsStillPlain
  <1> QED
    BY <1>2, <1>3, <1>4, <1>5, <1>6

\* Message m moves: every container it was not in goes on agreeing.
LEMMA MoveStill ==
  ASSUME TypeOK, Agree, NEW m \in Messages, NEW new, NEW r, new = [place EXCEPT ![m] = r]
  PROVE  /\ \A s \in Services, q \in Queues :
              place[m] # At("queue", s, q) => Keeps(elements[s][q], new, At("queue", s, q))
         /\ \A s \in Services, q \in Queues :
              place[m] # At("held", s, q) /\ held[s][q] # NoMsg
                => new[held[s][q]] = At("held", s, q)
         /\ \A s \in Services, c \in Conns :
              place[m] # At("wire", s, c) => Keeps(wire[s][c], new, At("wire", s, c))
         /\ \A s \in Services :
              place[m] # At("inbuf", s, NULL) => Keeps(inbuf[s], new, At("inbuf", s, NULL))
         /\ \A s \in Services, q \in Queues :
              place[m] # At("delivered", s, q)
                => KeepsPlain(delivered[s][q], new, At("delivered", s, q))
  <1>1. \A p : place[m] # p => \A x \in Messages : place[x] = p => new[x] = place[x]
    BY DEF TypeOK, PathTypeOK
  <1>2. \A s \in Services, q \in Queues :
          place[m] # At("queue", s, q) => Keeps(elements[s][q], new, At("queue", s, q))
    BY <1>1, Still
  <1>3. \A s \in Services, q \in Queues :
          place[m] # At("held", s, q) /\ held[s][q] # NoMsg => new[held[s][q]] = At("held", s, q)
    BY <1>1, Still
  <1>4. \A s \in Services, c \in Conns :
          place[m] # At("wire", s, c) => Keeps(wire[s][c], new, At("wire", s, c))
    BY <1>1, Still
  <1>5. \A s \in Services :
          place[m] # At("inbuf", s, NULL) => Keeps(inbuf[s], new, At("inbuf", s, NULL))
    BY <1>1, Still
  <1>6. \A s \in Services, q \in Queues :
          place[m] # At("delivered", s, q)
            => KeepsPlain(delivered[s][q], new, At("delivered", s, q))
    BY <1>1, Still
  <1> QED
    BY <1>2, <1>3, <1>4, <1>5, <1>6

\* Thread (s, q) has let go of its message m, which went to r; it entered no
\* other container.
LEMMA ReleaseAgree ==
  ASSUME TypeOK, Agree, NEW s \in Services, NEW q \in Queues,
         pc[s][q] # "idle", Release(s, q), NEW r, place' = [place EXCEPT ![held[s][q]] = r]
  PROVE  /\ held[s][q] \in Messages /\ place[held[s][q]] = At("held", s, q)
         /\ HeldAgree'
         /\ \A t \in Services, c \in Conns : Keeps(wire[t][c], place', At("wire", t, c))
         /\ \A t \in Services, o \in Queues : Keeps(elements[t][o], place', At("queue", t, o))
         /\ \A t \in Services : Keeps(inbuf[t], place', At("inbuf", t, NULL))
         /\ \A t \in Services, o \in Queues :
              KeepsPlain(delivered[t][o], place', At("delivered", t, o))
  <1>1. held[s][q] \in Messages /\ place[held[s][q]] = At("held", s, q)
    BY DEF TypeOK, PathTypeOK, Agree, HeldAgree
  <1>2. \A t \in Services, o \in Queues :
          held'[t][o] = IF t = s /\ o = q THEN NoMsg ELSE held[t][o]
    BY DEF Release, TypeOK, PathTypeOK
  <1>3. HeldAgree'
    <2>1. ASSUME NEW t \in Services, NEW o \in Queues, held'[t][o] # NoMsg
          PROVE  place'[held'[t][o]] = At("held", t, o)
      <3>1. held'[t][o] = held[t][o] /\ ~(t = s /\ o = q)
        BY <1>2, <2>1
      <3>2. place[held[s][q]] # At("held", t, o)
        BY <1>1, <3>1, AtEqual
      <3>3. held[t][o] # NoMsg
        BY <2>1, <3>1
      <3>4. place'[held[t][o]] = At("held", t, o)
        BY <1>1, <3>2, <3>3, MoveStill
      <3> QED
        BY <3>1, <3>4
    <2> QED
      BY <2>1 DEF HeldAgree
  <1>4. /\ \A t \in Services : \A c : place[held[s][q]] # At("wire", t, c)
        /\ \A t \in Services : \A o : place[held[s][q]] # At("queue", t, o)
        /\ \A t \in Services : place[held[s][q]] # At("inbuf", t, NULL)
        /\ \A t \in Services : \A o : place[held[s][q]] # At("delivered", t, o)
    BY <1>1, AtEqual
  <1>5. /\ \A t \in Services, c \in Conns : Keeps(wire[t][c], place', At("wire", t, c))
        /\ \A t \in Services, o \in Queues : Keeps(elements[t][o], place', At("queue", t, o))
        /\ \A t \in Services : Keeps(inbuf[t], place', At("inbuf", t, NULL))
        /\ \A t \in Services, o \in Queues :
             KeepsPlain(delivered[t][o], place', At("delivered", t, o))
    BY <1>1, <1>4, MoveStill
  <1> QED
    BY <1>1, <1>3, <1>5

LEMMA AgreeInit == Init => Agree
BY DEF Init, LinkInit, Agree, QueueAgree, HeldAgree, WireAgree, InbufAgree, ClientAgree,
       Keeps, KeepsPlain

\* A step that moves no message and changes no container.
LEMMA AgreeSame ==
  ASSUME Agree, UNCHANGED <<elements, held, wire, inbuf, delivered, place>>
  PROVE  Agree'
BY DEF Agree, QueueAgree, HeldAgree, WireAgree, InbufAgree, ClientAgree, Keeps, KeepsPlain

LEMMA AgreeSubmit ==
  ASSUME TypeOK, Agree, NEW s \in Services, NEW h \in Sockets, NEW q \in Queues,
         NEW m \in Messages, Submit(s, h, q, m)
  PROVE  Agree'
  <1> DEFINE e == [to |-> "service", msg |-> m]
  <1>1. /\ place[m] = Fresh /\ place' = [place EXCEPT ![m] = At("queue", s, q)]
        /\ elements' = [elements EXCEPT ![s][q] = Append(elements[s][q], e)]
        /\ UNCHANGED <<held, wire, inbuf, delivered>>
    BY DEF Submit, linkVars, threadVars
  <1>2. /\ \A t \in Services : \A c : place[m] # At("wire", t, c)
        /\ \A t \in Services : \A o : place[m] # At("queue", t, o) /\ place[m] # At("held", t, o)
        /\ \A t \in Services : place[m] # At("inbuf", t, NULL)
        /\ \A t \in Services : \A o : place[m] # At("delivered", t, o)
    BY <1>1, AtEqual DEF Fresh
  <1>3. Keeps(Append(elements[s][q], e), place', At("queue", s, q))
    <2>1. elements[s][q] \in Seq(Element) /\ e \in Element /\ \A x \in Element : x.msg \in Messages
      BY EntryTypes DEF Element
    <2>2. place \in [Messages -> Places] /\ At("queue", s, q) \in Places
      BY PlaceType DEF TypeOK, PathTypeOK
    <2>3. Keeps(elements[s][q], place, At("queue", s, q))
      BY DEF Agree, QueueAgree
    <2>4. place[e.msg] # At("queue", s, q)
      BY <1>2
    <2>5. Keeps(Append(elements[s][q], e), [place EXCEPT ![e.msg] = At("queue", s, q)],
                At("queue", s, q))
      BY <2>1, <2>2, <2>3, <2>4, KeepsAppend
    <2> QED
      BY <1>1, <2>5
  <1>4. QueueAgree'
    <2>1. \A t \in Services, o \in Queues :
            elements'[t][o] = IF t = s /\ o = q THEN Append(elements[s][q], e) ELSE elements[t][o]
      BY <1>1 DEF TypeOK, PathTypeOK
    <2>2. \A t \in Services, o \in Queues : Keeps(elements[t][o], place', At("queue", t, o))
      BY <1>1, <1>2, MoveStill
    <2> QED
      BY <1>3, <2>1, <2>2 DEF QueueAgree
  <1>5. HeldAgree'
    <2>1. \A t \in Services, o \in Queues :
            held[t][o] # NoMsg => place'[held[t][o]] = At("held", t, o)
      BY <1>1, <1>2, MoveStill
    <2> QED
      BY <1>1, <2>1 DEF HeldAgree
  <1>6. WireAgree'
    BY <1>1, <1>2, MoveStill DEF WireAgree
  <1>7. InbufAgree'
    BY <1>1, <1>2, MoveStill DEF InbufAgree
  <1>8. ClientAgree'
    BY <1>1, <1>2, MoveStill DEF ClientAgree
  <1> QED
    BY <1>4, <1>5, <1>6, <1>7, <1>8 DEF Agree

LEMMA AgreeTake ==
  ASSUME TypeOK, Agree, NEW s \in Services, NEW q \in Queues, Take(s, q)
  PROVE  Agree'
  <1> DEFINE e == Head(elements[s][q])
  <1>1. /\ elements[s][q] # <<>> /\ pc[s][q] = "idle"
        /\ place' = [place EXCEPT ![e.msg] = At("held", s, q)]
        /\ held' = [held EXCEPT ![s][q] = e.msg]
        /\ elements' = [elements EXCEPT ![s][q] = Tail(elements[s][q])]
        /\ UNCHANGED <<wire, inbuf, delivered>>
    BY DEF Take, linkVars
  <1>2. elements[s][q] \in Seq(Element) /\ e \in Element /\ \A x \in Element : x.msg \in Messages
    BY <1>1, EntryTypes, TailIndex DEF Element
  <1>3. Keeps(Tail(elements[s][q]), place', At("queue", s, q)) /\ place[e.msg] = At("queue", s, q)
    <2>1. place \in [Messages -> Places] /\ Keeps(elements[s][q], place, At("queue", s, q))
      BY DEF TypeOK, PathTypeOK, Agree, QueueAgree
    <2>2. /\ Keeps(Tail(elements[s][q]), [place EXCEPT ![e.msg] = At("held", s, q)],
                   At("queue", s, q))
          /\ place[e.msg] = At("queue", s, q)
      BY <1>1, <1>2, <2>1, KeepsTail
    <2> QED
      BY <1>1, <2>2
  <1>4. /\ \A t \in Services : \A c : place[e.msg] # At("wire", t, c)
        /\ \A t \in Services : \A o : place[e.msg] # At("held", t, o)
        /\ \A t \in Services : \A o : ~(t = s /\ o = q) => place[e.msg] # At("queue", t, o)
        /\ \A t \in Services : place[e.msg] # At("inbuf", t, NULL)
        /\ \A t \in Services : \A o : place[e.msg] # At("delivered", t, o)
    BY <1>3, AtEqual
  <1>5. QueueAgree'
    <2>1. \A t \in Services, o \in Queues :
            elements'[t][o] = IF t = s /\ o = q THEN Tail(elements[s][q]) ELSE elements[t][o]
      BY <1>1 DEF TypeOK, PathTypeOK
    <2>2. \A t \in Services, o \in Queues :
            ~(t = s /\ o = q) => Keeps(elements[t][o], place', At("queue", t, o))
      BY <1>1, <1>2, <1>4, MoveStill
    <2> QED
      BY <1>3, <2>1, <2>2 DEF QueueAgree
  <1>6. HeldAgree'
    <2>1. \A t \in Services, o \in Queues :
            held'[t][o] = IF t = s /\ o = q THEN e.msg ELSE held[t][o]
      BY <1>1 DEF TypeOK, PathTypeOK
    <2>2. \A t \in Services, o \in Queues :
            held[t][o] # NoMsg => place'[held[t][o]] = At("held", t, o)
      BY <1>1, <1>2, <1>4, MoveStill
    <2>3. place'[e.msg] = At("held", s, q)
      BY <1>1, <1>2 DEF TypeOK, PathTypeOK
    <2> QED
      BY <2>1, <2>2, <2>3 DEF HeldAgree
  <1>7. WireAgree'
    BY <1>1, <1>2, <1>4, MoveStill DEF WireAgree
  <1>8. InbufAgree'
    BY <1>1, <1>2, <1>4, MoveStill DEF InbufAgree
  <1>9. ClientAgree'
    BY <1>1, <1>2, <1>4, MoveStill DEF ClientAgree
  <1> QED
    BY <1>5, <1>6, <1>7, <1>8, <1>9 DEF Agree

\* What a process thread does with the message it holds.
LEMMA AgreeDispose ==
  ASSUME TypeOK, Agree, NEW s \in Services, NEW q \in Queues,
         DropUnclaimed(s, q) \/ SendToClientFails(s, q) \/ ForwardLost(s, q)
  PROVE  Agree'
  <1>1. /\ Release(s, q) /\ pc[s][q] # "idle"
        /\ \E r : place' = [place EXCEPT ![held[s][q]] = r]
        /\ UNCHANGED <<elements, wire, inbuf, delivered>>
    BY DEF DropUnclaimed, SendToClientFails, ForwardLost, SendLost, linkVars
  <1>2. PICK r : place' = [place EXCEPT ![held[s][q]] = r]
    BY <1>1
  <1> QED
    BY <1>1, <1>2, ReleaseAgree DEF Agree, QueueAgree, WireAgree, InbufAgree, ClientAgree

LEMMA AgreeSendToClient ==
  ASSUME TypeOK, Agree, NEW s \in Services, NEW q \in Queues, SendToClient(s, q)
  PROVE  Agree'
  <1> DEFINE m == held[s][q]
  <1>1. /\ Release(s, q) /\ pc[s][q] # "idle"
        /\ place' = [place EXCEPT ![m] = At("delivered", s, q)]
        /\ delivered' = [delivered EXCEPT ![s][q] = Append(delivered[s][q], m)]
        /\ UNCHANGED <<elements, wire, inbuf>>
    BY DEF SendToClient, linkVars, Delivered
  <1>2. m \in Messages /\ place[m] = At("held", s, q)
    BY <1>1, ReleaseAgree
  <1>3. KeepsPlain(Append(delivered[s][q], m), place', At("delivered", s, q))
    <2>1. /\ delivered[s][q] \in Seq(Messages)
          /\ KeepsPlain(delivered[s][q], place, At("delivered", s, q))
      BY EntryTypes DEF Agree, ClientAgree
    <2>2. place \in [Messages -> Places] /\ At("delivered", s, q) \in Places
      BY PlaceType DEF TypeOK, PathTypeOK, Delivered
    <2>3. place[m] # At("delivered", s, q)
      BY <1>2, AtEqual
    <2>4. KeepsPlain(Append(delivered[s][q], m), [place EXCEPT ![m] = At("delivered", s, q)],
                     At("delivered", s, q))
      BY <1>2, <2>1, <2>2, <2>3, KeepsAppendPlain
    <2> QED
      BY <1>1, <2>4
  <1>4. \A t \in Services, o \in Queues :
          delivered'[t][o] = IF t = s /\ o = q THEN Append(delivered[s][q], m) ELSE delivered[t][o]
    BY <1>1 DEF TypeOK, PathTypeOK
  <1>5. ClientAgree'
    <2>1. \A t \in Services, o \in Queues :
            KeepsPlain(delivered[t][o], place', At("delivered", t, o))
      BY <1>1, ReleaseAgree
    <2> QED
      BY <1>3, <1>4, <2>1 DEF ClientAgree
  <1> QED
    BY <1>1, <1>5, ReleaseAgree DEF Agree, QueueAgree, WireAgree, InbufAgree

LEMMA AgreeForward ==
  ASSUME TypeOK, Agree, NEW s \in Services, NEW q \in Queues, Forward(s, q)
  PROVE  Agree'
  <1> DEFINE m == held[s][q]
             f == [queue |-> q, msg |-> m]
             t == Other(s)
             c == sock[s]
  <1>1. /\ Release(s, q) /\ pc[s][q] # "idle"
        /\ place' = [place EXCEPT ![m] = At("wire", t, c)]
        /\ wire' = [wire EXCEPT ![t][c] = Append(wire[t][c], f)]
        /\ UNCHANGED <<elements, inbuf, delivered>>
    BY DEF Forward, SendDone
  <1>2. m \in Messages /\ place[m] = At("held", s, q)
    BY <1>1, ReleaseAgree
  <1>3. t \in Services /\ c \in Conns /\ f \in Frames
    <2>1. t \in Services
      BY OtherType
    <2>2. c \in Conns
      BY DEF Forward, SendDone, TypeOK, LinkTypeOK
    <2> QED
      BY <1>2, <2>1, <2>2, PathAssumption
  <1>4. Keeps(Append(wire[t][c], f), place', At("wire", t, c))
    <2>1. wire[t][c] \in Seq(Frames) /\ \A x \in Frames : x.msg \in Messages
      BY <1>3, EntryTypes, PathAssumption
    <2>2. place \in [Messages -> Places] /\ At("wire", t, c) \in Places
      BY <1>3, PlaceType DEF TypeOK, PathTypeOK
    <2>3. Keeps(wire[t][c], place, At("wire", t, c))
      BY <1>3 DEF Agree, WireAgree
    <2>4. place[f.msg] # At("wire", t, c)
      BY <1>2, AtEqual
    <2>5. Keeps(Append(wire[t][c], f), [place EXCEPT ![f.msg] = At("wire", t, c)], At("wire", t, c))
      BY <1>3, <2>1, <2>2, <2>3, <2>4, KeepsAppend
    <2> QED
      BY <1>1, <2>5
  <1>5. \A u \in Services, d \in Conns :
          wire'[u][d] = IF u = t /\ d = c THEN Append(wire[t][c], f) ELSE wire[u][d]
    BY <1>1 DEF TypeOK, LinkTypeOK
  <1>6. WireAgree'
    <2>1. \A u \in Services, d \in Conns : Keeps(wire[u][d], place', At("wire", u, d))
      BY <1>1, ReleaseAgree
    <2> QED
      BY <1>4, <1>5, <2>1 DEF WireAgree
  <1> QED
    BY <1>1, <1>6, ReleaseAgree DEF Agree, QueueAgree, InbufAgree, ClientAgree

LEMMA AgreeRequeue ==
  ASSUME TypeOK, Agree, NEW s \in Services, NEW q \in Queues, Requeue(s, q)
  PROVE  Agree'
  <1> DEFINE m == held[s][q]
             e == [to |-> "service", msg |-> m]
  <1>1. /\ Release(s, q) /\ pc[s][q] # "idle"
        /\ place' = [place EXCEPT ![m] = At("queue", s, q)]
        /\ elements' = [elements EXCEPT ![s][q] = Append(elements[s][q], e)]
        /\ UNCHANGED <<wire, inbuf, delivered>>
    BY DEF Requeue, linkVars
  <1>2. m \in Messages /\ place[m] = At("held", s, q)
    BY <1>1, ReleaseAgree
  <1>3. Keeps(Append(elements[s][q], e), place', At("queue", s, q))
    <2>1. elements[s][q] \in Seq(Element) /\ e \in Element /\ \A x \in Element : x.msg \in Messages
      BY <1>2, EntryTypes DEF Element
    <2>2. place \in [Messages -> Places] /\ At("queue", s, q) \in Places
      BY PlaceType DEF TypeOK, PathTypeOK
    <2>3. Keeps(elements[s][q], place, At("queue", s, q))
      BY DEF Agree, QueueAgree
    <2>4. place[e.msg] # At("queue", s, q)
      BY <1>2, AtEqual
    <2>5. Keeps(Append(elements[s][q], e), [place EXCEPT ![e.msg] = At("queue", s, q)],
                At("queue", s, q))
      BY <2>1, <2>2, <2>3, <2>4, KeepsAppend
    <2> QED
      BY <1>1, <2>5
  <1>4. \A t \in Services, o \in Queues :
          elements'[t][o] = IF t = s /\ o = q THEN Append(elements[s][q], e) ELSE elements[t][o]
    BY <1>1 DEF TypeOK, PathTypeOK
  <1>5. QueueAgree'
    <2>1. \A t \in Services, o \in Queues : Keeps(elements[t][o], place', At("queue", t, o))
      BY <1>1, ReleaseAgree
    <2> QED
      BY <1>3, <1>4, <2>1 DEF QueueAgree
  <1> QED
    BY <1>1, <1>5, ReleaseAgree DEF Agree, WireAgree, InbufAgree, ClientAgree

\* The frames towards s on C are discarded and their messages lost.
LEMMA AgreeLoseWire ==
  ASSUME TypeOK, Agree, NEW s \in Services, NEW C,
         place' = LoseWire(s, C), wire' = Discard(s, C),
         UNCHANGED <<elements, held, inbuf, delivered>>
  PROVE  Agree'
  <1>1. \A m \in Messages : (\A c \in C : place[m] # At("wire", s, c)) => place'[m] = place[m]
    BY DEF LoseWire
  <1>2. \A c \in C :
          /\ \A t \in Services, q \in Queues : At("queue", t, q) # At("wire", s, c)
          /\ \A t \in Services, q \in Queues : At("held", t, q) # At("wire", s, c)
          /\ \A t \in Services, q \in Queues : At("delivered", t, q) # At("wire", s, c)
          /\ \A t \in Services : At("inbuf", t, NULL) # At("wire", s, c)
          /\ \A t \in Services : \A d : At("wire", t, d) = At("wire", s, c) => t = s /\ d = c
    BY AtEqual
  <1>3. QueueAgree' /\ InbufAgree' /\ ClientAgree'
    <2>1. /\ \A t \in Services, q \in Queues : Keeps(elements[t][q], place', At("queue", t, q))
          /\ \A t \in Services : Keeps(inbuf[t], place', At("inbuf", t, NULL))
          /\ \A t \in Services, q \in Queues :
               KeepsPlain(delivered[t][q], place', At("delivered", t, q))
      BY <1>1, <1>2, Still
    <2> QED
      BY <2>1 DEF QueueAgree, InbufAgree, ClientAgree
  <1>4. HeldAgree'
    <2>1. \A t \in Services, q \in Queues :
            held[t][q] # NoMsg => place'[held[t][q]] = At("held", t, q)
      BY <1>1, <1>2, Still
    <2> QED
      BY <2>1 DEF HeldAgree
  <1>5. WireAgree'
    <2>1. ASSUME NEW t \in Services, NEW d \in Conns
          PROVE  Keeps(wire'[t][d], place', At("wire", t, d))
      <3>1. wire'[t][d] = IF t = s /\ d \in C THEN <<>> ELSE wire[t][d]
        BY DiscardType DEF TypeOK
      <3>2. CASE t = s /\ d \in C
        BY <3>1, <3>2 DEF Keeps
      <3>3. CASE ~(t = s /\ d \in C)
        <4>1. Keeps(wire[t][d], place', At("wire", t, d))
          BY <1>1, <1>2, <3>3, Still
        <4> QED
          BY <3>1, <3>3, <4>1
      <3> QED
        BY <3>2, <3>3
    <2> QED
      BY <2>1 DEF WireAgree
  <1> QED
    BY <1>3, <1>4, <1>5 DEF Agree

LEMMA AgreeRecv ==
  ASSUME TypeOK, Agree, NEW s \in Services, PathRecv(s)
  PROVE  Agree'
  <1> DEFINE c == sock[s]
             w == wire[s][c]
  <1>1. /\ rpc[s] = "ready" /\ c \in Conns /\ w \in Seq(Frames)
        /\ \A t \in Services : inbuf[t] \in Seq(Frames)
    BY DEF PathRecv, RecvFrames, TypeOK, LinkTypeOK
  <1>2. PICK k \in 1..Len(w) : /\ inbuf' = [inbuf EXCEPT ![s] = SubSeq(w, 1, k)]
                               /\ wire' = [wire EXCEPT ![s][c] = SubSeq(w, k + 1, Len(w))]
    BY DEF PathRecv, RecvFrames
  <1>3. UNCHANGED <<elements, held, delivered>>
    BY DEF PathRecv, threadVars
  <1>4. /\ Len(w) \in Nat /\ DOMAIN w = 1..Len(w) /\ k \in 0..Len(w)
        /\ \A i \in DOMAIN w : w[i] \in Frames
        /\ Keeps(w, place, At("wire", s, c))
    BY <1>1, LenProperties, ElementOfSeq DEF Agree, WireAgree
  <1> DEFINE got == SubSeq(w, 1, k)
             rest == SubSeq(w, k + 1, Len(w))
  <1>5. /\ DOMAIN got = 1..k /\ \A i \in 1..k : got[i] = w[i]
        /\ DOMAIN rest = 1..(Len(w) - k) /\ \A i \in 1..(Len(w) - k) : rest[i] = w[k + i]
    <2>1. got \in Seq(Frames) /\ rest \in Seq(Frames)
      BY <1>1, <1>4, SplitType
    <2>2. Len(got) = k /\ Len(rest) = Len(w) - k
      BY <1>1, <1>4, SplitType
    <2>3. DOMAIN got = 1..k /\ DOMAIN rest = 1..(Len(w) - k)
      BY <2>1, <2>2, LenProperties
    <2> QED
      BY <1>1, <1>4, <2>3, SplitType
  <1>6. /\ \A t \in Services : inbuf'[t] = IF t = s THEN got ELSE inbuf[t]
        /\ \A t \in Services, d \in Conns : wire'[t][d] = IF t = s /\ d = c THEN rest ELSE wire[t][d]
    BY <1>1, <1>2 DEF TypeOK, LinkTypeOK
  <1>7. \A m \in Messages :
          place'[m] = IF \E i \in 1..k : w[i].msg = m THEN At("inbuf", s, NULL) ELSE place[m]
    <2>1. place' = [m \in Messages |-> IF \E i \in DOMAIN inbuf'[s] : inbuf'[s][i].msg = m
                                       THEN At("inbuf", s, NULL) ELSE place[m]]
      BY DEF PathRecv
    <2>2. DOMAIN inbuf'[s] = 1..k /\ \A i \in 1..k : inbuf'[s][i] = w[i]
      BY <1>5, <1>6
    <2> QED
      BY <2>1, <2>2
  <1>8. \A m \in Messages : place[m] # At("wire", s, c) => place'[m] = place[m]
    BY <1>4, <1>7 DEF Keeps
  <1>9. /\ \A t \in Services, q \in Queues : At("queue", t, q) # At("wire", s, c)
        /\ \A t \in Services, q \in Queues : At("held", t, q) # At("wire", s, c)
        /\ \A t \in Services, q \in Queues : At("delivered", t, q) # At("wire", s, c)
        /\ \A t \in Services : At("inbuf", t, NULL) # At("wire", s, c)
        /\ \A t \in Services : \A d : At("wire", t, d) = At("wire", s, c) => t = s /\ d = c
    BY AtEqual
  <1>10. QueueAgree' /\ ClientAgree'
    <2>1. /\ \A t \in Services, q \in Queues : Keeps(elements[t][q], place', At("queue", t, q))
          /\ \A t \in Services, q \in Queues :
               KeepsPlain(delivered[t][q], place', At("delivered", t, q))
      BY <1>8, <1>9, Still
    <2> QED
      BY <1>3, <2>1 DEF QueueAgree, ClientAgree
  <1>11. HeldAgree'
    <2>1. \A t \in Services, q \in Queues :
            held[t][q] # NoMsg => place'[held[t][q]] = At("held", t, q)
      BY <1>8, <1>9, Still
    <2> QED
      BY <1>3, <2>1 DEF HeldAgree
  <1>12. \A f \in Frames : f.msg \in Messages
    BY PathAssumption
  <1>13. InbufAgree'
    <2>1. Keeps(got, place', At("inbuf", s, NULL))
      BY <1>4, <1>5, <1>7, <1>12 DEF Keeps
    <2>2. \A t \in Services : Keeps(inbuf[t], place', At("inbuf", t, NULL))
      BY <1>8, <1>9, Still
    <2> QED
      BY <1>6, <2>1, <2>2 DEF InbufAgree
  <1>14. WireAgree'
    <2>1. Keeps(rest, place', At("wire", s, c))
      <3>1. ASSUME NEW i \in 1..(Len(w) - k)
            PROVE  /\ k + i \in DOMAIN w /\ rest[i] = w[k + i]
                   /\ place'[w[k + i].msg] = At("wire", s, c)
        <4>1. k + i \in DOMAIN w /\ \A j \in 1..k : j \in DOMAIN w /\ j # k + i
          BY <1>4
        <4>2. \A j \in 1..k : w[j].msg # w[k + i].msg
          BY <1>4, <4>1 DEF Keeps
        <4>3. place[w[k + i].msg] = At("wire", s, c) /\ w[k + i].msg \in Messages
          BY <1>4, <1>12, <4>1 DEF Keeps
        <4> QED
          BY <1>5, <1>7, <4>1, <4>2, <4>3
      <3>2. \A i, j \in 1..(Len(w) - k) : rest[i].msg = rest[j].msg => i = j
        <4>1. ASSUME NEW i \in 1..(Len(w) - k), NEW j \in 1..(Len(w) - k), rest[i].msg = rest[j].msg
              PROVE  i = j
          <5>1. \A x, y \in DOMAIN w : w[x].msg = w[y].msg => x = y
            BY <1>4 DEF Keeps
          <5>2. w[k + i].msg = w[k + j].msg /\ k + i \in DOMAIN w /\ k + j \in DOMAIN w
            BY <3>1, <4>1
          <5>3. k + i = k + j
            BY <5>1, <5>2
          <5> QED
            BY <1>4, <5>3
        <4> QED
          BY <4>1
      <3>3. \A i \in DOMAIN rest : place'[rest[i].msg] = At("wire", s, c)
        BY <1>5, <3>1
      <3>4. \A i, j \in DOMAIN rest : rest[i].msg = rest[j].msg => i = j
        BY <1>5, <3>2
      <3> HIDE DEF rest, w
      <3> QED
        BY <3>3, <3>4 DEF Keeps
    <2>2. \A t \in Services, d \in Conns :
            ~(t = s /\ d = c) => Keeps(wire[t][d], place', At("wire", t, d))
      BY <1>8, <1>9, Still
    <2> QED
      BY <1>6, <2>1, <2>2 DEF WireAgree
  <1> QED
    BY <1>10, <1>11, <1>13, <1>14 DEF Agree

LEMMA AgreeStore ==
  ASSUME TypeOK, Agree, NEW s \in Services, StoreMessage(s)
  PROVE  Agree'
  <1> DEFINE f == Head(inbuf[s])
             m == f.msg
             q == f.queue
             e == [to |-> "client", msg |-> m]
  <1>1. /\ rpc[s] = "handle" /\ inbuf' = [inbuf EXCEPT ![s] = Tail(inbuf[s])]
        /\ elements' = [elements EXCEPT ![s][q] = Append(elements[s][q], e)]
        /\ place' = [place EXCEPT ![m] = At("queue", s, q)]
        /\ UNCHANGED <<held, wire, delivered>>
    BY DEF StoreMessage, HandleFrame, threadVars
  <1>2. inbuf[s] \in Seq(Frames) /\ inbuf[s] # <<>> /\ place \in [Messages -> Places]
    BY <1>1 DEF TypeOK, LinkTypeOK, PathTypeOK
  <1>3. q \in Queues /\ m \in Messages /\ \A x \in Frames : x.msg \in Messages
    <2>1. f \in Frames
      BY <1>2, TailIndex
    <2> QED
      BY <2>1, PathAssumption
  <1>4. /\ Keeps(Tail(inbuf[s]), place', At("inbuf", s, NULL))
        /\ place[m] = At("inbuf", s, NULL)
    <2>1. Keeps(inbuf[s], place, At("inbuf", s, NULL))
      BY DEF Agree, InbufAgree
    <2> HIDE DEF q, m, e
    <2>2. \A r : /\ Keeps(Tail(inbuf[s]), [place EXCEPT ![f.msg] = r], At("inbuf", s, NULL))
                 /\ place[f.msg] = At("inbuf", s, NULL)
      BY <1>2, <1>3, <2>1, KeepsTail
    <2> QED
      BY <1>1, <2>2 DEF m
  <1>5. /\ \A t \in Services : \A c : place[m] # At("wire", t, c)
        /\ \A t \in Services : \A o : place[m] # At("queue", t, o) /\ place[m] # At("held", t, o)
        /\ \A t \in Services : t # s => place[m] # At("inbuf", t, NULL)
        /\ \A t \in Services : \A o : place[m] # At("delivered", t, o)
    BY <1>4, AtEqual
  <1>6. Keeps(Append(elements[s][q], e), place', At("queue", s, q))
    <2>1. elements[s][q] \in Seq(Element) /\ e \in Element /\ \A x \in Element : x.msg \in Messages
      BY <1>3, EntryTypes DEF Element
    <2>2. At("queue", s, q) \in Places
      BY <1>3, PlaceType
    <2>3. Keeps(elements[s][q], place, At("queue", s, q))
      BY <1>3 DEF Agree, QueueAgree
    <2>4. place[e.msg] # At("queue", s, q)
      BY <1>5
    <2>5. Keeps(Append(elements[s][q], e), [place EXCEPT ![e.msg] = At("queue", s, q)],
                At("queue", s, q))
      BY <1>2, <2>1, <2>2, <2>3, <2>4, KeepsAppend
    <2> QED
      BY <1>1, <2>5
  <1>7. QueueAgree'
    <2>1. \A t \in Services, o \in Queues :
            elements'[t][o] = IF t = s /\ o = q THEN Append(elements[s][q], e) ELSE elements[t][o]
      BY <1>1, <1>3 DEF TypeOK, PathTypeOK
    <2>2. \A t \in Services, o \in Queues : Keeps(elements[t][o], place', At("queue", t, o))
      BY <1>1, <1>3, <1>5, MoveStill
    <2> QED
      BY <1>6, <2>1, <2>2 DEF QueueAgree
  <1>8. HeldAgree'
    <2>1. \A t \in Services, o \in Queues :
            held[t][o] # NoMsg => place'[held[t][o]] = At("held", t, o)
      BY <1>1, <1>3, <1>5, MoveStill
    <2> QED
      BY <1>1, <2>1 DEF HeldAgree
  <1>9. WireAgree'
    BY <1>1, <1>3, <1>5, MoveStill DEF WireAgree
  <1>10. InbufAgree'
    <2>1. \A t \in Services : inbuf'[t] = IF t = s THEN Tail(inbuf[s]) ELSE inbuf[t]
      BY <1>1 DEF TypeOK, LinkTypeOK
    <2>2. \A t \in Services : t # s => Keeps(inbuf[t], place', At("inbuf", t, NULL))
      BY <1>1, <1>3, <1>5, MoveStill
    <2> QED
      BY <1>4, <2>1, <2>2 DEF InbufAgree
  <1>11. ClientAgree'
    BY <1>1, <1>3, <1>5, MoveStill DEF ClientAgree
  <1> QED
    BY <1>7, <1>8, <1>9, <1>10, <1>11 DEF Agree

\* A service stops.  What is still on its way to the other one stays where it
\* is: a frame that is cut off is not also among those that arrive.
LEMMA AgreeCrash ==
  ASSUME TypeOK, Agree, NEW s \in Services, NEW k \in 0..WireCap, PathCrash(s, k)
  PROVE  Agree'
  <1> DEFINE t == Other(s)
             cut == {m \in Messages : \E c \in ends[s] : \E i \in DOMAIN wire[t][c] :
                       i > k /\ wire[t][c][i].msg = m}
  <1>1. t \in Services /\ t # s /\ \A u \in Services : u = s \/ u = t
    BY OtherType DEF Services, Other, HOST, PEER
  <1>2. k \in Nat
    BY LinkAssumption
  <1>3. /\ \A u \in Services, q \in Queues :
             /\ elements'[u][q] = IF u = s THEN <<>> ELSE elements[u][q]
             /\ held'[u][q] = IF u = s THEN NoMsg ELSE held[u][q]
        /\ \A u \in Services : inbuf'[u] = IF u = s THEN <<>> ELSE inbuf[u]
        /\ delivered' = delivered
    BY DEF PathCrash, Crash, TypeOK, PathTypeOK, LinkTypeOK
  <1>4. \A c \in Conns :
          /\ wire'[s][c] = <<>>
          /\ wire'[t][c] = IF c \in ends[s] /\ k < Len(wire[t][c])
                           THEN SubSeq(wire[t][c], 1, k) ELSE wire[t][c]
    BY <1>1 DEF PathCrash, Crash
  <1>5. \A m \in Messages :
          place'[m] = IF (place[m].svc = s /\ place[m].kind \in Moving) \/ m \in cut
                      THEN Lost ELSE place[m]
    BY DEF PathCrash
  <1>6. \A m \in cut : \E c \in Conns : place[m] = At("wire", t, c)
    <2>1. ASSUME NEW m \in Messages, NEW c \in ends[s], NEW i \in DOMAIN wire[t][c],
                 wire[t][c][i].msg = m
          PROVE  c \in Conns /\ place[m] = At("wire", t, c)
      <3>1. c \in Conns
        BY DEF TypeOK, LinkTypeOK
      <3>2. Keeps(wire[t][c], place, At("wire", t, c))
        BY <1>1, <3>1 DEF Agree, WireAgree
      <3> QED
        BY <2>1, <3>1, <3>2 DEF Keeps
    <2> QED
      BY <2>1
  <1>7. \A m \in Messages :
          /\ \A q : place[m] = At("queue", t, q) => place'[m] = place[m]
          /\ \A q : place[m] = At("held", t, q) => place'[m] = place[m]
          /\ place[m] = At("inbuf", t, NULL) => place'[m] = place[m]
          /\ \A u, q : place[m] = At("delivered", u, q) => place'[m] = place[m]
    BY <1>1, <1>5, <1>6, AtEqual DEF Moving
  <1>8. QueueAgree'
    <2>1. \A q \in Queues : Keeps(elements[t][q], place', At("queue", t, q))
      BY <1>1, <1>7, Still
    <2>2. \A p : Keeps(<<>>, place', p)
      BY DEF Keeps
    <2> QED
      BY <1>1, <1>3, <2>1, <2>2 DEF QueueAgree
  <1>9. HeldAgree'
    <2>1. \A q \in Queues : held[t][q] # NoMsg => place'[held[t][q]] = At("held", t, q)
      BY <1>1, <1>7, Still
    <2> QED
      BY <1>1, <1>3, <2>1 DEF HeldAgree
  <1>10. InbufAgree'
    <2>1. Keeps(inbuf[t], place', At("inbuf", t, NULL))
      BY <1>1, <1>7, Still
    <2>2. \A p : Keeps(<<>>, place', p)
      BY DEF Keeps
    <2> QED
      BY <1>1, <1>3, <2>1, <2>2 DEF InbufAgree
  <1>11. ClientAgree'
    <2>1. \A u \in Services, q \in Queues :
            KeepsPlain(delivered[u][q], place', At("delivered", u, q))
      BY <1>7, Still
    <2> QED
      BY <1>3, <2>1 DEF ClientAgree
  <1>12. WireAgree'
    <2>1. ASSUME NEW c \in Conns PROVE Keeps(wire'[t][c], place', At("wire", t, c))
      <3> DEFINE w == wire[t][c]
      <3>1. /\ w \in Seq(Frames) /\ Len(w) \in Nat /\ DOMAIN w = 1..Len(w)
            /\ \A i \in DOMAIN w : w[i].msg \in Messages
            /\ Keeps(w, place, At("wire", t, c))
        BY <1>1, EntryTypes, LenProperties DEF Agree, WireAgree
      <3>2. ASSUME NEW i \in DOMAIN w, c \in ends[s] => i <= k
            PROVE  place'[w[i].msg] = At("wire", t, c)
        <4>1. place[w[i].msg] = At("wire", t, c)
          BY <3>1 DEF Keeps
        <4>2. w[i].msg \notin cut
          <5>1. ASSUME NEW d \in ends[s], NEW j \in DOMAIN wire[t][d],
                       j > k, wire[t][d][j].msg = w[i].msg
                PROVE  FALSE
            <6>1. d \in Conns
              BY DEF TypeOK, LinkTypeOK
            <6>2. place[w[i].msg] = At("wire", t, d)
              BY <1>1, <5>1, <6>1 DEF Agree, WireAgree, Keeps
            <6>3. d = c
              BY <4>1, <6>2, AtEqual
            <6>4. i = j
              BY <3>1, <5>1, <6>3 DEF Keeps
            <6> QED
              BY <1>2, <3>1, <3>2, <5>1, <6>3, <6>4
          <5> QED
            BY <5>1
        <4>3. place[w[i].msg].svc # s
          BY <1>1, <4>1, AtEqual
        <4> QED
          BY <1>5, <3>1, <4>1, <4>2, <4>3
      <3>3. CASE c \in ends[s] /\ k < Len(w)
        <4>1. /\ DOMAIN SubSeq(w, 1, k) = 1..k
              /\ \A i \in 1..k : i \in DOMAIN w /\ SubSeq(w, 1, k)[i] = w[i]
          <5>1. k \in 0..Len(w)
            BY <1>2, <3>1, <3>3
          <5>2. SubSeq(w, 1, k) \in Seq(Frames) /\ Len(SubSeq(w, 1, k)) = k
            BY <3>1, <5>1, SplitType
          <5>3. DOMAIN SubSeq(w, 1, k) = 1..k
            BY <5>2, LenProperties
          <5>4. \A i \in 1..k : i \in DOMAIN w
            BY <1>2, <3>1, <3>3
          <5> QED
            BY <3>1, <5>1, <5>3, <5>4, SplitType
        <4>2. wire'[t][c] = SubSeq(w, 1, k)
          BY <1>4, <3>3
        <4>3. \A i \in 1..k : place'[w[i].msg] = At("wire", t, c)
          BY <1>2, <3>2, <4>1
        <4>4. \A i, j \in 1..k : w[i].msg = w[j].msg => i = j
          BY <3>1, <4>1 DEF Keeps
        <4> HIDE DEF w
        <4> QED
          BY <4>1, <4>2, <4>3, <4>4 DEF Keeps
      <3>4. CASE ~(c \in ends[s] /\ k < Len(w))
        <4>1. wire'[t][c] = w
          BY <1>4, <3>4
        <4>2. \A i \in DOMAIN w : c \in ends[s] => i <= k
          BY <1>2, <3>1, <3>4
        <4>3. \A i \in DOMAIN w : place'[w[i].msg] = At("wire", t, c)
          BY <3>2, <4>2
        <4> QED
          BY <3>1, <4>1, <4>3 DEF Keeps
      <3> QED
        BY <3>3, <3>4
    <2>2. \A p : Keeps(<<>>, place', p)
      BY DEF Keeps
    <2> QED
      BY <1>1, <1>4, <2>1, <2>2 DEF WireAgree
  <1> QED
    BY <1>8, <1>9, <1>10, <1>11, <1>12 DEF Agree

LEMMA AgreeNext == TypeOK /\ Agree /\ [Next]_vars => Agree'
  <1> SUFFICES ASSUME TypeOK, Agree, [Next]_vars PROVE Agree'
    OBVIOUS
  <1>1. CASE PathStart
    BY <1>1, AgreeSame DEF PathStart, StartHost, StartPeer, pathVars
  <1>2. CASE PathAccept
    <2>1. HOST \in Services /\ \E C : place' = LoseWire(HOST, C) /\ wire' = Discard(HOST, C)
      BY <1>2 DEF PathAccept, Accept, AcceptFails, Services
    <2>2. UNCHANGED <<elements, held, inbuf, delivered>>
      BY <1>2 DEF PathAccept, Accept, AcceptFails, threadVars
    <2> QED
      BY <2>1, <2>2, AgreeLoseWire
  <1>3. ASSUME NEW s \in Services, PathRecvThread(s) PROVE Agree'
    <2>1. CASE PathSelect(s)
      BY <2>1, AgreeSame DEF PathSelect, Select, RecvNothing, pathVars
    <2>2. CASE PathRecv(s)
      BY <2>2, AgreeRecv
    <2>3. CASE StoreMessage(s)
      BY <2>3, AgreeStore
    <2>4. CASE PathClose(s)
      BY <2>4, AgreeLoseWire DEF PathClose, CloseSock, NullSock, threadVars
    <2> QED
      BY <1>3, <2>1, <2>2, <2>3, <2>4 DEF PathRecvThread
  <1>4. ASSUME NEW s \in Services, NEW q \in Queues, ProcessThread(s, q) PROVE Agree'
    <2>1. CASE Take(s, q)
      BY <2>1, AgreeTake
    <2>2. CASE DropUnclaimed(s, q) \/ SendToClientFails(s, q) \/ ForwardLost(s, q)
      BY <2>2, AgreeDispose
    <2>3. CASE ReadClient(s, q)
      BY <2>3, AgreeSame DEF ReadClient, linkVars
    <2>4. CASE SendToClient(s, q)
      BY <2>4, AgreeSendToClient
    <2>5. CASE Forward(s, q)
      BY <2>5, AgreeForward
    <2>6. CASE ForwardFails(s, q)
      BY <2>6, AgreeSame DEF ForwardFails, SendFails, linkVars
    <2>7. CASE Requeue(s, q)
      BY <2>7, AgreeRequeue
    <2> QED
      BY <1>4, <2>1, <2>2, <2>3, <2>4, <2>5, <2>6, <2>7 DEF ProcessThread
  <1>5. ASSUME NEW s \in Services, NEW h \in Sockets, ClientStep(s, h) PROVE Agree'
    <2>1. CASE OpenClient(s, h) \/ CloseClient(s, h) \/ CleanupClient(s, h)
               \/ \E q \in Queues : ConnectToQueue(s, h, q)
      BY <2>1, AgreeSame
         DEF OpenClient, CloseClient, CleanupClient, ConnectToQueue, linkVars, threadVars
    <2>2. ASSUME NEW q \in Queues, NEW m \in Messages, Submit(s, h, q, m) PROVE Agree'
      BY <2>2, AgreeSubmit
    <2> QED
      BY <1>5, <2>1, <2>2 DEF ClientStep
  <1>6. ASSUME NEW s \in Services, NEW k \in 0..WireCap, PathCrash(s, k) PROVE Agree'
    BY <1>6, AgreeCrash
  <1>7. CASE UNCHANGED vars
    BY <1>7, AgreeSame DEF vars, linkVars, pathVars
  <1> QED
    BY <1>1, <1>2, <1>3, <1>4, <1>5, <1>6, <1>7 DEF Next

\* A slot is in the place its first three parts name, and no other message is
\* in the same place under the same index.
LEMMA AgreeOnePlace == TypeOK /\ Agree => OnePlace
  <1> SUFFICES ASSUME TypeOK, Agree, NEW m \in Messages, NEW x \in Slots(m), NEW y \in Slots(m)
               PROVE  x = y
    BY DEF OnePlace
  <1> DEFINE Slot(z) ==
        \/ \E s \in Services, q \in Queues : \E i \in DOMAIN elements[s][q] :
             /\ z = <<"queue", s, q, i>> /\ elements[s][q][i].msg = m
             /\ place[m] = At("queue", s, q)
        \/ \E s \in Services, q \in Queues :
             /\ z = <<"held", s, q, 0>> /\ held[s][q] = m
             /\ place[m] = At("held", s, q)
        \/ \E s \in Services, c \in Conns : \E i \in DOMAIN wire[s][c] :
             /\ z = <<"wire", s, c, i>> /\ wire[s][c][i].msg = m
             /\ place[m] = At("wire", s, c)
        \/ \E s \in Services : \E i \in DOMAIN inbuf[s] :
             /\ z = <<"inbuf", s, 0, i>> /\ inbuf[s][i].msg = m
             /\ place[m] = At("inbuf", s, NULL)
        \/ \E s \in Services, q \in Queues : \E i \in DOMAIN delivered[s][q] :
             /\ z = <<"delivered", s, q, i>> /\ delivered[s][q][i] = m
             /\ place[m] = At("delivered", s, q)
  <1>1. ASSUME NEW z \in Slots(m) PROVE Slot(z)
    <2>1. CASE z \in QueueSlots(m)
      <3>1. \E s \in Services, q \in Queues : \E i \in DOMAIN elements[s][q] :
              z = <<"queue", s, q, i>> /\ elements[s][q][i].msg = m
        BY <2>1 DEF QueueSlots
      <3> QED
        BY <3>1 DEF Agree, QueueAgree, Keeps
    <2>2. CASE z \in HeldSlots(m)
      <3>1. \E s \in Services, q \in Queues : z = <<"held", s, q, 0>> /\ held[s][q] = m
        BY <2>2 DEF HeldSlots
      <3> QED
        BY <3>1, PathAssumption DEF Agree, HeldAgree
    <2>3. CASE z \in WireSlots(m)
      <3>1. \E s \in Services, c \in Conns : \E i \in DOMAIN wire[s][c] :
              z = <<"wire", s, c, i>> /\ wire[s][c][i].msg = m
        BY <2>3 DEF WireSlots
      <3> QED
        BY <3>1 DEF Agree, WireAgree, Keeps
    <2>4. CASE z \in InbufSlots(m)
      <3>1. \E s \in Services : \E i \in DOMAIN inbuf[s] :
              z = <<"inbuf", s, 0, i>> /\ inbuf[s][i].msg = m
        BY <2>4 DEF InbufSlots
      <3> QED
        BY <3>1 DEF Agree, InbufAgree, Keeps
    <2>5. CASE z \in ClientSlots(m)
      <3>1. \E s \in Services, q \in Queues : \E i \in DOMAIN delivered[s][q] :
              z = <<"delivered", s, q, i>> /\ delivered[s][q][i] = m
        BY <2>5 DEF ClientSlots
      <3> QED
        BY <3>1 DEF Agree, ClientAgree, KeepsPlain
    <2> QED
      BY <2>1, <2>2, <2>3, <2>4, <2>5 DEF Slots
  <1>2. Slot(x) /\ Slot(y)
    BY <1>1
  <1>3. CASE place[m].kind = "queue"
    <2>1. PICK s \in Services, q \in Queues : \E i \in DOMAIN elements[s][q] :
            /\ x = <<"queue", s, q, i>> /\ elements[s][q][i].msg = m
            /\ place[m] = At("queue", s, q)
      BY <1>2, <1>3, AtEqual
    <2>2. \E j \in DOMAIN elements[s][q] : y = <<"queue", s, q, j>> /\ elements[s][q][j].msg = m
      BY <1>2, <2>1, AtEqual
    <2> QED
      BY <2>1, <2>2 DEF Agree, QueueAgree, Keeps
  <1>4. CASE place[m].kind = "held"
    BY <1>2, <1>4, AtEqual
  <1>5. CASE place[m].kind = "wire"
    <2>1. PICK s \in Services, c \in Conns : \E i \in DOMAIN wire[s][c] :
            /\ x = <<"wire", s, c, i>> /\ wire[s][c][i].msg = m
            /\ place[m] = At("wire", s, c)
      BY <1>2, <1>5, AtEqual
    <2>2. \E j \in DOMAIN wire[s][c] : y = <<"wire", s, c, j>> /\ wire[s][c][j].msg = m
      BY <1>2, <2>1, AtEqual
    <2> QED
      BY <2>1, <2>2 DEF Agree, WireAgree, Keeps
  <1>6. CASE place[m].kind = "inbuf"
    <2>1. PICK s \in Services : \E i \in DOMAIN inbuf[s] :
            /\ x = <<"inbuf", s, 0, i>> /\ inbuf[s][i].msg = m
            /\ place[m] = At("inbuf", s, NULL)
      BY <1>2, <1>6, AtEqual
    <2>2. \E j \in DOMAIN inbuf[s] : y = <<"inbuf", s, 0, j>> /\ inbuf[s][j].msg = m
      BY <1>2, <2>1, AtEqual
    <2> QED
      BY <2>1, <2>2 DEF Agree, InbufAgree, Keeps
  <1>7. CASE place[m].kind = "delivered"
    <2>1. PICK s \in Services, q \in Queues : \E i \in DOMAIN delivered[s][q] :
            /\ x = <<"delivered", s, q, i>> /\ delivered[s][q][i] = m
            /\ place[m] = At("delivered", s, q)
      BY <1>2, <1>7, AtEqual
    <2>2. \E j \in DOMAIN delivered[s][q] : y = <<"delivered", s, q, j>> /\ delivered[s][q][j] = m
      BY <1>2, <2>1, AtEqual
    <2> QED
      BY <2>1, <2>2 DEF Agree, ClientAgree, KeepsPlain
  <1> QED
    BY <1>2, <1>3, <1>4, <1>5, <1>6, <1>7, AtEqual

(***************************************************************************)
(* No message is ever in two places: neither a retry, nor a thread handing *)
(* over to another, nor the loss of a connection, nor a restart in the     *)
(* middle of any of these duplicates one.  So a client never gets a        *)
(* message twice, whatever the number of services' restarts and queues.    *)
(***************************************************************************)
THEOREM PathOnePlace == Spec => []OnePlace
  <1>1. Init => TypeOK /\ Agree
    BY InitType, AgreeInit
  <1>2. TypeOK /\ Agree /\ [Next]_vars => (TypeOK /\ Agree)'
    BY NextType, AgreeNext
  <1>3. TypeOK /\ Agree => OnePlace
    BY AgreeOnePlace
  <1> QED
    BY <1>1, <1>2, <1>3, PTL DEF Spec
=============================================================================
