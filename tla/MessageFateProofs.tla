------------------------- MODULE MessageFateProofs -------------------------
(***************************************************************************)
(* Proofs about what becomes of a message: none vanishes, each stays on    *)
(* the way of its queue, the link loses none before a service first stops, *)
(* and none is overtaken unless it was put back, so that the two services  *)
(* implement the delivery service.                                         *)
(***************************************************************************)
EXTENDS MessagePathProofs

(***************************************************************************)
(* No message vanishes                                                     *)
(*                                                                         *)
(* Agree says that what a container holds is where place says.  Accounted  *)
(* is the converse: where place says that a message is, it is.             *)
(***************************************************************************)
Holds(seq, m) == \E i \in DOMAIN seq : seq[i].msg = m
HoldsPlain(seq, m) == \E i \in DOMAIN seq : seq[i] = m

Somewhere(m) ==
  \/ place[m] \in {Fresh, Dropped, Lost}
  \/ \E s \in Services, q \in Queues : place[m] = At("queue", s, q) /\ Holds(elements[s][q], m)
  \/ \E s \in Services, q \in Queues : place[m] = At("held", s, q) /\ held[s][q] = m
  \/ \E s \in Services, c \in Conns : place[m] = At("wire", s, c) /\ Holds(wire[s][c], m)
  \/ \E s \in Services : place[m] = At("inbuf", s, NULL) /\ Holds(inbuf[s], m)
  \/ \E s \in Services, q \in Queues :
       place[m] = At("delivered", s, q) /\ HoldsPlain(delivered[s][q], m)

Accounted == \A m \in Messages : Somewhere(m)

\* How a container changes without losing a message.
LEMMA HoldsAppend ==
  ASSUME NEW S, NEW seq \in Seq(S), NEW e \in S
  PROVE  /\ Holds(Append(seq, e), e.msg)
         /\ \A m : Holds(seq, m) => Holds(Append(seq, e), m)
  <1>1. /\ Len(seq) \in Nat /\ DOMAIN seq = 1..Len(seq)
        /\ DOMAIN Append(seq, e) = 1..(Len(seq) + 1)
        /\ \A i \in 1..(Len(seq) + 1) : Append(seq, e)[i] = IF i = Len(seq) + 1 THEN e ELSE seq[i]
    BY AppendIndex
  <1> QED
    BY <1>1 DEF Holds

LEMMA HoldsAppendPlain ==
  ASSUME NEW S, NEW seq \in Seq(S), NEW e \in S
  PROVE  /\ HoldsPlain(Append(seq, e), e)
         /\ \A m : HoldsPlain(seq, m) => HoldsPlain(Append(seq, e), m)
  <1>1. /\ Len(seq) \in Nat /\ DOMAIN seq = 1..Len(seq)
        /\ DOMAIN Append(seq, e) = 1..(Len(seq) + 1)
        /\ \A i \in 1..(Len(seq) + 1) : Append(seq, e)[i] = IF i = Len(seq) + 1 THEN e ELSE seq[i]
    BY AppendIndex
  <1> QED
    BY <1>1 DEF HoldsPlain

\* Only the head is missing from the tail.
LEMMA HoldsTail ==
  ASSUME NEW S, NEW seq \in Seq(S), seq # <<>>, NEW m, Holds(seq, m), m # Head(seq).msg
  PROVE  Holds(Tail(seq), m)
  <1>1. /\ Head(seq) = seq[1] /\ Len(seq) \in Nat \ {0} /\ DOMAIN seq = 1..Len(seq)
        /\ DOMAIN Tail(seq) = 1..(Len(seq) - 1)
        /\ \A i \in 1..(Len(seq) - 1) : Tail(seq)[i] = seq[i + 1]
    BY TailIndex
  <1>2. PICK i \in 1..Len(seq) : seq[i].msg = m /\ i # 1
    BY <1>1 DEF Holds
  <1>3. i - 1 \in 1..(Len(seq) - 1) /\ (i - 1) + 1 = i
    BY <1>1, <1>2
  <1> QED
    BY <1>1, <1>2, <1>3 DEF Holds

(***************************************************************************)
(* What a step has to do for the messages to stay accounted for: one that  *)
(* moves is where it went, and the others are still where they were.       *)
(***************************************************************************)
LEMMA AccountedFrom ==
  ASSUME Accounted,
         \A m \in Messages : place'[m] # place[m] => Somewhere(m)',
         \A s \in Services, q \in Queues, m \in Messages :
           /\ place'[m] = place[m] /\ Holds(elements[s][q], m) => Holds(elements'[s][q], m)
           /\ place'[m] = place[m] /\ held[s][q] = m => held'[s][q] = m
           /\ HoldsPlain(delivered[s][q], m) => HoldsPlain(delivered'[s][q], m),
         \A s \in Services, c \in Conns, m \in Messages :
           place[m] = At("wire", s, c) /\ place'[m] = place[m] /\ Holds(wire[s][c], m)
             => Holds(wire'[s][c], m),
         \A s \in Services, m \in Messages :
           place'[m] = place[m] /\ Holds(inbuf[s], m) => Holds(inbuf'[s], m)
  PROVE  Accounted'
  <1> SUFFICES ASSUME NEW m \in Messages, place'[m] = place[m]
               PROVE  Somewhere(m)'
    BY DEF Accounted
  <1>1. Somewhere(m)
    BY DEF Accounted
  <1>2. CASE place[m] \in {Fresh, Dropped, Lost}
    BY <1>2 DEF Somewhere
  <1>3. ASSUME NEW s \in Services, NEW q \in Queues, place[m] = At("queue", s, q), Holds(elements[s][q], m)
        PROVE  Somewhere(m)'
    BY <1>3 DEF Somewhere
  <1>4. ASSUME NEW s \in Services, NEW q \in Queues, place[m] = At("held", s, q), held[s][q] = m
        PROVE  Somewhere(m)'
    BY <1>4 DEF Somewhere
  <1>5. ASSUME NEW s \in Services, NEW c \in Conns, place[m] = At("wire", s, c), Holds(wire[s][c], m)
        PROVE  Somewhere(m)'
    BY <1>5 DEF Somewhere
  <1>6. ASSUME NEW s \in Services, place[m] = At("inbuf", s, NULL), Holds(inbuf[s], m)
        PROVE  Somewhere(m)'
    BY <1>6 DEF Somewhere
  <1>7. ASSUME NEW s \in Services, NEW q \in Queues, place[m] = At("delivered", s, q),
               HoldsPlain(delivered[s][q], m)
        PROVE  Somewhere(m)'
    BY <1>7 DEF Somewhere
  <1> QED
    BY <1>1, <1>2, <1>3, <1>4, <1>5, <1>6, <1>7 DEF Somewhere

LEMMA AccountedInit == Init => Accounted
BY DEF Init, Accounted, Somewhere

\* A step that moves no message and changes no container.
LEMMA AccountedSame ==
  ASSUME Accounted, UNCHANGED <<elements, held, wire, inbuf, delivered, place>>
  PROVE  Accounted'
BY DEF Accounted, Somewhere, Holds, HoldsPlain

LEMMA AccountedSubmit ==
  ASSUME TypeOK, Accounted, NEW s \in Services, NEW h \in Sockets, NEW q \in Queues,
         NEW m \in Messages, Submit(s, h, q, m)
  PROVE  Accounted'
  <1> DEFINE e == [to |-> "service", msg |-> m]
  <1>1. /\ place' = [place EXCEPT ![m] = At("queue", s, q)]
        /\ elements' = [elements EXCEPT ![s][q] = Append(elements[s][q], e)]
        /\ UNCHANGED <<held, wire, inbuf, delivered>>
    BY DEF Submit, linkVars, threadVars
  <1>2. /\ \A x \in Messages : place'[x] = IF x = m THEN At("queue", s, q) ELSE place[x]
        /\ \A t \in Services, o \in Queues :
             elements'[t][o] = IF t = s /\ o = q THEN Append(elements[s][q], e) ELSE elements[t][o]
    BY <1>1 DEF TypeOK, PathTypeOK
  <1>3. /\ Holds(Append(elements[s][q], e), m)
        /\ \A x : Holds(elements[s][q], x) => Holds(Append(elements[s][q], e), x)
    <2>1. elements[s][q] \in Seq(Element) /\ e \in Element /\ e.msg = m
      BY EntryTypes DEF Element
    <2> QED
      BY <2>1, HoldsAppend
  <1>4. Somewhere(m)'
    BY <1>2, <1>3 DEF Somewhere
  <1> QED
    BY <1>1, <1>2, <1>3, <1>4, AccountedFrom

LEMMA AccountedTake ==
  ASSUME TypeOK, Agree, Accounted, NEW s \in Services, NEW q \in Queues, Take(s, q)
  PROVE  Accounted'
  <1> DEFINE e == Head(elements[s][q])
             m == e.msg
  <1>1. /\ elements[s][q] # <<>> /\ pc[s][q] = "idle"
        /\ place' = [place EXCEPT ![m] = At("held", s, q)]
        /\ held' = [held EXCEPT ![s][q] = m]
        /\ elements' = [elements EXCEPT ![s][q] = Tail(elements[s][q])]
        /\ UNCHANGED <<wire, inbuf, delivered>>
    BY DEF Take, linkVars
  <1>2. elements[s][q] \in Seq(Element) /\ m \in Messages /\ \A x \in Element : x.msg \in Messages
    <2>1. elements[s][q] \in Seq(Element)
      BY EntryTypes
    <2>2. e \in Element
      BY <1>1, <2>1, TailIndex
    <2> QED
      BY <2>1, <2>2 DEF Element
  <1>3. place[m] = At("queue", s, q)
    BY <1>1, <1>2, KeepsTail DEF Agree, QueueAgree, TypeOK, PathTypeOK
  <1> HIDE DEF m
  <1>4. /\ \A x \in Messages : place'[x] = IF x = m THEN At("held", s, q) ELSE place[x]
        /\ \A t \in Services, o \in Queues :
             /\ elements'[t][o] = IF t = s /\ o = q THEN Tail(elements[s][q]) ELSE elements[t][o]
             /\ held'[t][o] = IF t = s /\ o = q THEN m ELSE held[t][o]
    BY <1>1 DEF TypeOK, PathTypeOK
  <1>5. place'[m] # place[m]
    BY <1>2, <1>3, <1>4, AtEqual
  <1>6. \A x : Holds(elements[s][q], x) /\ x # m => Holds(Tail(elements[s][q]), x)
    BY <1>1, <1>2, HoldsTail DEF m
  <1>7. held[s][q] \notin Messages
    BY <1>1, PathAssumption DEF TypeOK, PathTypeOK
  <1>8. \A x \in Messages : place'[x] # place[x] => Somewhere(x)'
    BY <1>2, <1>4 DEF Somewhere
  <1> QED
    BY <1>1, <1>4, <1>5, <1>6, <1>7, <1>8, AccountedFrom

\* Thread (s, q) lets go of its message, which goes to r.
LEMMA ReleaseAccounted ==
  ASSUME TypeOK, Agree, NEW s \in Services, NEW q \in Queues,
         pc[s][q] # "idle", Release(s, q),
         NEW r, place' = [place EXCEPT ![held[s][q]] = r], r # At("held", s, q)
  PROVE  /\ held[s][q] \in Messages /\ place'[held[s][q]] = r
         /\ \A x \in Messages : place'[x] # place[x] => x = held[s][q]
         /\ \A t \in Services, o \in Queues, x \in Messages :
              place'[x] = place[x] /\ held[t][o] = x => held'[t][o] = x
  <1>1. held[s][q] \in Messages /\ place[held[s][q]] = At("held", s, q)
    BY ReleaseAgree
  <1>2. \A x \in Messages : place'[x] = IF x = held[s][q] THEN r ELSE place[x]
    BY DEF TypeOK, PathTypeOK
  <1>3. \A t \in Services, o \in Queues :
          held'[t][o] = IF t = s /\ o = q THEN NoMsg ELSE held[t][o]
    BY DEF Release, TypeOK, PathTypeOK
  <1> QED
    BY <1>1, <1>2, <1>3

LEMMA AccountedDispose ==
  ASSUME TypeOK, Agree, Accounted, NEW s \in Services, NEW q \in Queues,
         DropUnclaimed(s, q) \/ SendToClientFails(s, q) \/ ForwardLost(s, q)
  PROVE  Accounted'
  <1>1. /\ Release(s, q) /\ pc[s][q] # "idle"
        /\ \E r \in {Dropped, Lost} : place' = [place EXCEPT ![held[s][q]] = r]
        /\ UNCHANGED <<elements, wire, inbuf, delivered>>
    BY DEF DropUnclaimed, SendToClientFails, ForwardLost, SendLost, linkVars
  <1>2. PICK r \in {Dropped, Lost} : place' = [place EXCEPT ![held[s][q]] = r]
    BY <1>1
  <1>3. r # At("held", s, q)
    BY AtEqual DEF Dropped, Lost
  <1>4. /\ held[s][q] \in Messages /\ place'[held[s][q]] = r
        /\ \A x \in Messages : place'[x] # place[x] => x = held[s][q]
        /\ \A t \in Services, o \in Queues, x \in Messages :
             place'[x] = place[x] /\ held[t][o] = x => held'[t][o] = x
    BY <1>1, <1>2, <1>3, ReleaseAccounted
  <1>5. \A x \in Messages : place'[x] # place[x] => Somewhere(x)'
    BY <1>4 DEF Somewhere
  <1> QED
    BY <1>1, <1>4, <1>5, AccountedFrom

LEMMA AccountedSendToClient ==
  ASSUME TypeOK, Agree, Accounted, NEW s \in Services, NEW q \in Queues, SendToClient(s, q)
  PROVE  Accounted'
  <1> DEFINE m == held[s][q]
  <1>1. /\ Release(s, q) /\ pc[s][q] # "idle"
        /\ place' = [place EXCEPT ![m] = At("delivered", s, q)]
        /\ delivered' = [delivered EXCEPT ![s][q] = Append(delivered[s][q], m)]
        /\ UNCHANGED <<elements, wire, inbuf>>
    BY DEF SendToClient, linkVars, Delivered
  <1>2. At("delivered", s, q) # At("held", s, q)
    BY AtEqual
  <1>3. /\ m \in Messages /\ place'[m] = At("delivered", s, q)
        /\ \A x \in Messages : place'[x] # place[x] => x = m
        /\ \A t \in Services, o \in Queues, x \in Messages :
             place'[x] = place[x] /\ held[t][o] = x => held'[t][o] = x
    BY <1>1, <1>2, ReleaseAccounted
  <1>4. \A t \in Services, o \in Queues :
          delivered'[t][o] = IF t = s /\ o = q THEN Append(delivered[s][q], m) ELSE delivered[t][o]
    BY <1>1 DEF TypeOK, PathTypeOK
  <1>5. /\ HoldsPlain(Append(delivered[s][q], m), m)
        /\ \A x : HoldsPlain(delivered[s][q], x) => HoldsPlain(Append(delivered[s][q], m), x)
    BY <1>3, EntryTypes, HoldsAppendPlain
  <1>6. \A x \in Messages : place'[x] # place[x] => Somewhere(x)'
    BY <1>3, <1>4, <1>5 DEF Somewhere
  <1> QED
    BY <1>1, <1>3, <1>4, <1>5, <1>6, AccountedFrom

LEMMA AccountedForward ==
  ASSUME TypeOK, Agree, Accounted, NEW s \in Services, NEW q \in Queues, Forward(s, q)
  PROVE  Accounted'
  <1> DEFINE m == held[s][q]
             f == [queue |-> q, msg |-> m]
             t == Other(s)
             c == sock[s]
  <1>1. /\ Release(s, q) /\ pc[s][q] # "idle"
        /\ place' = [place EXCEPT ![m] = At("wire", t, c)]
        /\ wire' = [wire EXCEPT ![t][c] = Append(wire[t][c], f)]
        /\ UNCHANGED <<elements, inbuf, delivered>>
    BY DEF Forward, SendDone
  <1>2. At("wire", t, c) # At("held", s, q)
    BY AtEqual
  <1>3. /\ m \in Messages /\ place'[m] = At("wire", t, c)
        /\ \A x \in Messages : place'[x] # place[x] => x = m
        /\ \A u \in Services, o \in Queues, x \in Messages :
             place'[x] = place[x] /\ held[u][o] = x => held'[u][o] = x
    BY <1>1, <1>2, ReleaseAccounted
  <1>4. t \in Services /\ c \in Conns /\ f \in Frames
    <2>1. t \in Services
      BY OtherType
    <2>2. c \in Conns
      BY DEF Forward, SendDone, TypeOK, LinkTypeOK
    <2> QED
      BY <1>3, <2>1, <2>2, PathAssumption
  <1>5. \A u \in Services, d \in Conns :
          wire'[u][d] = IF u = t /\ d = c THEN Append(wire[t][c], f) ELSE wire[u][d]
    BY <1>1 DEF TypeOK, LinkTypeOK
  <1>6. /\ Holds(Append(wire[t][c], f), m)
        /\ \A x : Holds(wire[t][c], x) => Holds(Append(wire[t][c], f), x)
    <2>1. wire[t][c] \in Seq(Frames) /\ f.msg = m
      BY <1>4, EntryTypes
    <2> QED
      BY <1>4, <2>1, HoldsAppend
  <1>7. \A x \in Messages : place'[x] # place[x] => Somewhere(x)'
    BY <1>3, <1>4, <1>5, <1>6 DEF Somewhere
  <1> QED
    BY <1>1, <1>3, <1>5, <1>6, <1>7, AccountedFrom

LEMMA AccountedRequeue ==
  ASSUME TypeOK, Agree, Accounted, NEW s \in Services, NEW q \in Queues, Requeue(s, q)
  PROVE  Accounted'
  <1> DEFINE m == held[s][q]
             e == [to |-> "service", msg |-> m]
  <1>1. /\ Release(s, q) /\ pc[s][q] # "idle"
        /\ place' = [place EXCEPT ![m] = At("queue", s, q)]
        /\ elements' = [elements EXCEPT ![s][q] = Append(elements[s][q], e)]
        /\ UNCHANGED <<wire, inbuf, delivered>>
    BY DEF Requeue, linkVars
  <1>2. At("queue", s, q) # At("held", s, q)
    BY AtEqual
  <1>3. /\ m \in Messages /\ place'[m] = At("queue", s, q)
        /\ \A x \in Messages : place'[x] # place[x] => x = m
        /\ \A t \in Services, o \in Queues, x \in Messages :
             place'[x] = place[x] /\ held[t][o] = x => held'[t][o] = x
    BY <1>1, <1>2, ReleaseAccounted
  <1>4. \A t \in Services, o \in Queues :
          elements'[t][o] = IF t = s /\ o = q THEN Append(elements[s][q], e) ELSE elements[t][o]
    BY <1>1 DEF TypeOK, PathTypeOK
  <1>5. /\ Holds(Append(elements[s][q], e), m)
        /\ \A x : Holds(elements[s][q], x) => Holds(Append(elements[s][q], e), x)
    <2>1. elements[s][q] \in Seq(Element) /\ e \in Element /\ e.msg = m
      BY <1>3, EntryTypes DEF Element
    <2> QED
      BY <2>1, HoldsAppend
  <1>6. \A x \in Messages : place'[x] # place[x] => Somewhere(x)'
    BY <1>3, <1>4, <1>5 DEF Somewhere
  <1> QED
    BY <1>1, <1>3, <1>4, <1>5, <1>6, AccountedFrom

\* The frames towards s on C are discarded: their messages count as lost.
LEMMA AccountedLoseWire ==
  ASSUME TypeOK, Accounted, NEW s \in Services, NEW C,
         place' = LoseWire(s, C), wire' = Discard(s, C),
         UNCHANGED <<elements, held, inbuf, delivered>>
  PROVE  Accounted'
  <1>1. \A m \in Messages :
          /\ place'[m] # place[m] => place'[m] = Lost
          /\ (\E c \in C : place[m] = At("wire", s, c)) => place'[m] = Lost
    BY DEF LoseWire
  <1>2. \A t \in Services, d \in Conns : wire'[t][d] = IF t = s /\ d \in C THEN <<>> ELSE wire[t][d]
    BY DiscardType DEF TypeOK
  <1>3. \A t \in Services : \A d : At("wire", t, d) # Lost
    BY AtEqual DEF Lost
  <1>4. \A x \in Messages : place'[x] # place[x] => Somewhere(x)'
    BY <1>1 DEF Somewhere
  <1>5. \A t \in Services, d \in Conns, x \in Messages :
          place[x] = At("wire", t, d) /\ place'[x] = place[x] /\ Holds(wire[t][d], x)
            => Holds(wire'[t][d], x)
    BY <1>1, <1>2, <1>3
  <1> QED
    BY <1>4, <1>5, AccountedFrom

\* The first k frames move to the receive buffer, the others stay.
LEMMA AccountedRecv ==
  ASSUME TypeOK, Agree, Accounted, NEW s \in Services, PathRecv(s)
  PROVE  Accounted'
  <1> DEFINE c == sock[s]
             w == wire[s][c]
  <1>1. /\ rpc[s] = "ready" /\ c \in Conns /\ w \in Seq(Frames) /\ inbuf[s] = <<>>
        /\ \A t \in Services : inbuf[t] \in Seq(Frames)
    BY DEF PathRecv, RecvFrames, TypeOK, LinkTypeOK
  <1>2. PICK k \in 1..Len(w) : /\ inbuf' = [inbuf EXCEPT ![s] = SubSeq(w, 1, k)]
                               /\ wire' = [wire EXCEPT ![s][c] = SubSeq(w, k + 1, Len(w))]
    BY DEF PathRecv, RecvFrames
  <1>3. UNCHANGED <<elements, held, delivered>>
    BY DEF PathRecv, threadVars
  <1>4. Len(w) \in Nat /\ DOMAIN w = 1..Len(w) /\ k \in 0..Len(w) /\ Keeps(w, place, At("wire", s, c))
    BY <1>1, LenProperties DEF Agree, WireAgree
  <1> DEFINE got == SubSeq(w, 1, k)
             rest == SubSeq(w, k + 1, Len(w))
  <1>5. /\ DOMAIN got = 1..k /\ \A i \in 1..k : got[i] = w[i]
        /\ DOMAIN rest = 1..(Len(w) - k) /\ \A i \in 1..(Len(w) - k) : rest[i] = w[k + i]
    <2>1. got \in Seq(Frames) /\ rest \in Seq(Frames)
      BY <1>1, <1>4, SplitType
    <2>2. Len(got) = k /\ Len(rest) = Len(w) - k
      BY <1>1, <1>4, SplitType
    <2>3. DOMAIN got = 1..k /\ DOMAIN rest = 1..(Len(w) - k)
      BY <2>1, <2>2, LenProperties
    <2> QED
      BY <1>1, <1>4, <2>3, SplitType
  <1>6. /\ \A t \in Services : inbuf'[t] = IF t = s THEN got ELSE inbuf[t]
        /\ \A t \in Services, d \in Conns : wire'[t][d] = IF t = s /\ d = c THEN rest ELSE wire[t][d]
    BY <1>1, <1>2 DEF TypeOK, LinkTypeOK
  <1>7. \A m \in Messages : place'[m] = IF Holds(got, m) THEN At("inbuf", s, NULL) ELSE place[m]
    <2>1. place' = [m \in Messages |-> IF \E i \in DOMAIN inbuf'[s] : inbuf'[s][i].msg = m
                                       THEN At("inbuf", s, NULL) ELSE place[m]]
      BY DEF PathRecv
    <2> HIDE DEF got, rest
    <2> QED
      BY <1>6, <2>1 DEF Holds
  <1>8. \A m : Holds(w, m) => Holds(got, m) \/ Holds(rest, m)
    <2> SUFFICES ASSUME NEW m, NEW i \in 1..Len(w), w[i].msg = m
                 PROVE  Holds(got, m) \/ Holds(rest, m)
      BY <1>4 DEF Holds
    <2>1. CASE i <= k
      <3>1. i \in DOMAIN got /\ got[i] = w[i]
        BY <1>4, <1>5, <2>1
      <3> QED
        BY <3>1 DEF Holds
    <2>2. CASE i > k
      <3>1. i - k \in 1..(Len(w) - k) /\ k + (i - k) = i
        BY <1>4, <2>2
      <3>2. i - k \in DOMAIN rest /\ rest[i - k] = w[i]
        BY <1>5, <3>1
      <3> QED
        BY <3>2 DEF Holds
    <2> QED
      BY <1>4, <2>1, <2>2
  <1>9. \A m : Holds(got, m) => place[m] = At("wire", s, c)
    <2>1. \A i \in 1..k : i \in DOMAIN w
      BY <1>4
    <2> QED
      BY <1>4, <1>5, <2>1 DEF Holds, Keeps
  <1> HIDE DEF got, rest, w
  <1>10. \A m \in Messages : place'[m] # place[m] => Somewhere(m)'
    BY <1>6, <1>7 DEF Somewhere
  <1>11. \A t \in Services, d \in Conns, m \in Messages :
           place[m] = At("wire", t, d) /\ place'[m] = place[m] /\ Holds(wire[t][d], m)
             => Holds(wire'[t][d], m)
    <2>1. At("inbuf", s, NULL) # At("wire", s, c)
      BY AtEqual
    <2> QED
      BY <1>6, <1>7, <1>8, <1>9, <2>1 DEF w
  <1>12. \A t \in Services, m \in Messages : Holds(inbuf[t], m) => Holds(inbuf'[t], m)
    <2>1. \A m : ~Holds(inbuf[s], m)
      BY <1>1 DEF Holds
    <2> QED
      BY <1>6, <2>1
  <1> QED
    BY <1>3, <1>10, <1>11, <1>12, AccountedFrom

LEMMA AccountedStore ==
  ASSUME TypeOK, Agree, Accounted, NEW s \in Services, StoreMessage(s)
  PROVE  Accounted'
  <1> DEFINE f == Head(inbuf[s])
             m == f.msg
             q == f.queue
             e == [to |-> "client", msg |-> m]
  <1>1. /\ rpc[s] = "handle" /\ inbuf' = [inbuf EXCEPT ![s] = Tail(inbuf[s])]
        /\ elements' = [elements EXCEPT ![s][q] = Append(elements[s][q], e)]
        /\ place' = [place EXCEPT ![m] = At("queue", s, q)]
        /\ UNCHANGED <<held, wire, delivered>>
    BY DEF StoreMessage, HandleFrame, threadVars
  <1>2. inbuf[s] \in Seq(Frames) /\ inbuf[s] # <<>> /\ place \in [Messages -> Places]
    BY <1>1 DEF TypeOK, LinkTypeOK, PathTypeOK
  <1>3. f \in Frames /\ q \in Queues /\ m \in Messages /\ \A x \in Frames : x.msg \in Messages
    <2>1. f \in Frames
      BY <1>2, TailIndex
    <2> QED
      BY <2>1, PathAssumption
  <1>4. place[m] = At("inbuf", s, NULL)
    <2>1. Keeps(inbuf[s], place, At("inbuf", s, NULL))
      BY DEF Agree, InbufAgree
    <2> QED
      BY <1>2, <1>3, <2>1, KeepsTail
  <1>5. /\ Holds(Append(elements[s][q], e), m)
        /\ \A x : Holds(elements[s][q], x) => Holds(Append(elements[s][q], e), x)
    <2>1. elements[s][q] \in Seq(Element) /\ e \in Element /\ e.msg = m
      BY <1>3, EntryTypes DEF Element
    <2> QED
      BY <2>1, HoldsAppend
  <1>6. \A x : Holds(inbuf[s], x) /\ x # m => Holds(Tail(inbuf[s]), x)
    BY <1>2, HoldsTail
  <1> HIDE DEF m, q
  <1>7. /\ \A x \in Messages : place'[x] = IF x = m THEN At("queue", s, q) ELSE place[x]
        /\ \A t \in Services, o \in Queues :
             elements'[t][o] = IF t = s /\ o = q THEN Append(elements[s][q], e) ELSE elements[t][o]
        /\ \A t \in Services : inbuf'[t] = IF t = s THEN Tail(inbuf[s]) ELSE inbuf[t]
    BY <1>1, <1>2, <1>3 DEF TypeOK, PathTypeOK, LinkTypeOK
  <1>8. At("queue", s, q) # At("inbuf", s, NULL)
    BY AtEqual
  <1>9. \A x \in Messages : place'[x] # place[x] => Somewhere(x)'
    BY <1>3, <1>5, <1>7 DEF Somewhere
  <1>10. \A t \in Services, x \in Messages :
           place'[x] = place[x] /\ Holds(inbuf[t], x) => Holds(inbuf'[t], x)
    BY <1>4, <1>6, <1>7, <1>8
  <1> QED
    BY <1>1, <1>5, <1>7, <1>9, <1>10, AccountedFrom

\* A service stops: what it held is lost, and so is what it had sent beyond
\* the first k frames of each connection.
LEMMA AccountedCrash ==
  ASSUME TypeOK, Accounted, NEW s \in Services, NEW k \in 0..WireCap, PathCrash(s, k)
  PROVE  Accounted'
  <1> DEFINE t == Other(s)
             cut == {m \in Messages : \E c \in ends[s] : \E i \in DOMAIN wire[t][c] :
                       i > k /\ wire[t][c][i].msg = m}
  <1>1. t \in Services /\ t # s /\ \A u \in Services : u = s \/ u = t
    BY OtherType DEF Services, Other, HOST, PEER
  <1>2. k \in Nat
    BY LinkAssumption
  <1>3. /\ \A u \in Services, q \in Queues :
             /\ elements'[u][q] = IF u = s THEN <<>> ELSE elements[u][q]
             /\ held'[u][q] = IF u = s THEN NoMsg ELSE held[u][q]
        /\ \A u \in Services : inbuf'[u] = IF u = s THEN <<>> ELSE inbuf[u]
        /\ delivered' = delivered
    BY DEF PathCrash, Crash, TypeOK, PathTypeOK, LinkTypeOK
  <1>4. \A c \in Conns :
          wire'[t][c] = IF c \in ends[s] /\ k < Len(wire[t][c])
                        THEN SubSeq(wire[t][c], 1, k) ELSE wire[t][c]
    BY <1>1 DEF PathCrash, Crash
  <1>5. \A m \in Messages :
          place'[m] = IF (place[m].svc = s /\ place[m].kind \in Moving) \/ m \in cut
                      THEN Lost ELSE place[m]
    BY DEF PathCrash
  <1> SUFFICES ASSUME NEW m \in Messages, place'[m] # Lost
               PROVE  Somewhere(m)'
    BY DEF Accounted, Somewhere
  <1>6. m \notin cut /\ ~(place[m].svc = s /\ place[m].kind \in Moving) /\ place'[m] = place[m]
    BY <1>5
  <1>7. \A n : /\ place[m] # At("queue", s, n) /\ place[m] # At("held", s, n)
               /\ place[m] # At("wire", s, n) /\ place[m] # At("inbuf", s, n)
    BY <1>6, AtEqual DEF Moving
  <1>8. ASSUME NEW c \in Conns, place[m] = At("wire", t, c), Holds(wire[t][c], m)
        PROVE  Holds(wire'[t][c], m)
    <2> DEFINE w == wire[t][c]
    <2>1. w \in Seq(Frames) /\ Len(w) \in Nat /\ DOMAIN w = 1..Len(w)
      BY <1>1, EntryTypes, LenProperties
    <2>2. CASE c \in ends[s] /\ k < Len(w)
      <3>1. PICK i \in 1..Len(w) : w[i].msg = m
        BY <1>8, <2>1 DEF Holds
      <3>2. i \in 1..k
        BY <1>2, <1>6, <2>1, <2>2, <3>1
      <3>3. k \in 0..Len(w)
        BY <1>2, <2>1, <2>2
      <3>4. SubSeq(w, 1, k) \in Seq(Frames) /\ Len(SubSeq(w, 1, k)) = k
        BY <2>1, <3>3, SplitType
      <3>5. DOMAIN SubSeq(w, 1, k) = 1..k
        BY <3>4, LenProperties
      <3>6. SubSeq(w, 1, k)[i] = w[i]
        BY <2>1, <3>2, <3>3, SplitType
      <3>7. Holds(SubSeq(w, 1, k), m)
        BY <3>1, <3>2, <3>5, <3>6 DEF Holds
      <3> QED
        BY <1>4, <2>2, <3>7
    <2>3. CASE ~(c \in ends[s] /\ k < Len(w))
      BY <1>4, <1>8, <2>3
    <2> QED
      BY <2>2, <2>3
  <1>9. Somewhere(m)
    BY DEF Accounted
  <1>10. \/ place[m] \in {Fresh, Dropped, Lost}
         \/ \E q \in Queues : place[m] = At("queue", t, q) /\ Holds(elements[t][q], m)
         \/ \E q \in Queues : place[m] = At("held", t, q) /\ held[t][q] = m
         \/ \E c \in Conns : place[m] = At("wire", t, c) /\ Holds(wire[t][c], m)
         \/ place[m] = At("inbuf", t, NULL) /\ Holds(inbuf[t], m)
         \/ \E u \in Services, q \in Queues :
              place[m] = At("delivered", u, q) /\ HoldsPlain(delivered[u][q], m)
    BY <1>1, <1>7, <1>9 DEF Somewhere
  <1>11. /\ \A q \in Queues : elements'[t][q] = elements[t][q] /\ held'[t][q] = held[t][q]
         /\ inbuf'[t] = inbuf[t]
    BY <1>1, <1>3
  <1> QED
    BY <1>1, <1>3, <1>6, <1>8, <1>10, <1>11 DEF Somewhere

LEMMA AccountedNext == TypeOK /\ Agree /\ Accounted /\ [Next]_vars => Accounted'
  <1> SUFFICES ASSUME TypeOK, Agree, Accounted, [Next]_vars PROVE Accounted'
    OBVIOUS
  <1>1. CASE PathStart
    BY <1>1, AccountedSame DEF PathStart, StartHost, StartPeer, pathVars
  <1>2. CASE PathAccept
    <2>1. HOST \in Services /\ \E C : place' = LoseWire(HOST, C) /\ wire' = Discard(HOST, C)
      BY <1>2 DEF PathAccept, Accept, AcceptFails, Services
    <2>2. UNCHANGED <<elements, held, inbuf, delivered>>
      BY <1>2 DEF PathAccept, Accept, AcceptFails, threadVars
    <2> QED
      BY <2>1, <2>2, AccountedLoseWire
  <1>3. ASSUME NEW s \in Services, PathRecvThread(s) PROVE Accounted'
    <2>1. CASE PathSelect(s)
      BY <2>1, AccountedSame DEF PathSelect, Select, RecvNothing, pathVars
    <2>2. CASE PathRecv(s)
      BY <2>2, AccountedRecv
    <2>3. CASE StoreMessage(s)
      BY <2>3, AccountedStore
    <2>4. CASE PathClose(s)
      BY <2>4, AccountedLoseWire DEF PathClose, CloseSock, NullSock, threadVars
    <2> QED
      BY <1>3, <2>1, <2>2, <2>3, <2>4 DEF PathRecvThread
  <1>4. ASSUME NEW s \in Services, NEW q \in Queues, ProcessThread(s, q) PROVE Accounted'
    <2>1. CASE Take(s, q)
      BY <2>1, AccountedTake
    <2>2. CASE DropUnclaimed(s, q) \/ SendToClientFails(s, q) \/ ForwardLost(s, q)
      BY <2>2, AccountedDispose
    <2>3. CASE ReadClient(s, q)
      BY <2>3, AccountedSame DEF ReadClient, linkVars
    <2>4. CASE SendToClient(s, q)
      BY <2>4, AccountedSendToClient
    <2>5. CASE Forward(s, q)
      BY <2>5, AccountedForward
    <2>6. CASE ForwardFails(s, q)
      BY <2>6, AccountedSame DEF ForwardFails, SendFails, linkVars
    <2>7. CASE Requeue(s, q)
      BY <2>7, AccountedRequeue
    <2> QED
      BY <1>4, <2>1, <2>2, <2>3, <2>4, <2>5, <2>6, <2>7 DEF ProcessThread
  <1>5. ASSUME NEW s \in Services, NEW h \in Sockets, ClientStep(s, h) PROVE Accounted'
    <2>1. CASE OpenClient(s, h) \/ CloseClient(s, h) \/ CleanupClient(s, h)
               \/ \E q \in Queues : ConnectToQueue(s, h, q)
      BY <2>1, AccountedSame
         DEF OpenClient, CloseClient, CleanupClient, ConnectToQueue, linkVars, threadVars
    <2>2. ASSUME NEW q \in Queues, NEW m \in Messages, Submit(s, h, q, m) PROVE Accounted'
      BY <2>2, AccountedSubmit
    <2> QED
      BY <1>5, <2>1, <2>2 DEF ClientStep
  <1>6. ASSUME NEW s \in Services, NEW k \in 0..WireCap, PathCrash(s, k) PROVE Accounted'
    BY <1>6, AccountedCrash
  <1>7. CASE UNCHANGED vars
    BY <1>7, AccountedSame DEF vars, linkVars, pathVars
  <1> QED
    BY <1>1, <1>2, <1>3, <1>4, <1>5, <1>6, <1>7 DEF Next

\* A message in a slot is where the slot is; one that is on its way, or was
\* delivered, is in a slot.
LEMMA AccountedNothingVanishes == TypeOK /\ Agree /\ Accounted => NothingVanishes
  <1> SUFFICES ASSUME TypeOK, Agree, Accounted, NEW m \in Messages
               PROVE  place[m].kind \in Moving \cup {"delivered"} <=> Slots(m) # {}
    BY DEF NothingVanishes
  <1>1. ASSUME NEW z \in Slots(m) PROVE place[m].kind \in Moving \cup {"delivered"}
    <2>1. CASE z \in QueueSlots(m)
      <3>1. \E s \in Services, q \in Queues : \E i \in DOMAIN elements[s][q] : elements[s][q][i].msg = m
        BY <2>1 DEF QueueSlots
      <3>2. \E s \in Services, q \in Queues : place[m] = At("queue", s, q)
        BY <3>1 DEF Agree, QueueAgree, Keeps
      <3> QED
        BY <3>2, AtEqual DEF Moving
    <2>2. CASE z \in HeldSlots(m)
      <3>1. \E s \in Services, q \in Queues : held[s][q] = m
        BY <2>2 DEF HeldSlots
      <3>2. \E s \in Services, q \in Queues : place[m] = At("held", s, q)
        BY <3>1, PathAssumption DEF Agree, HeldAgree
      <3> QED
        BY <3>2, AtEqual DEF Moving
    <2>3. CASE z \in WireSlots(m)
      <3>1. \E s \in Services, c \in Conns : \E i \in DOMAIN wire[s][c] : wire[s][c][i].msg = m
        BY <2>3 DEF WireSlots
      <3>2. \E s \in Services, c \in Conns : place[m] = At("wire", s, c)
        BY <3>1 DEF Agree, WireAgree, Keeps
      <3> QED
        BY <3>2, AtEqual DEF Moving
    <2>4. CASE z \in InbufSlots(m)
      <3>1. \E s \in Services : \E i \in DOMAIN inbuf[s] : inbuf[s][i].msg = m
        BY <2>4 DEF InbufSlots
      <3>2. \E s \in Services : place[m] = At("inbuf", s, NULL)
        BY <3>1 DEF Agree, InbufAgree, Keeps
      <3> QED
        BY <3>2, AtEqual DEF Moving
    <2>5. CASE z \in ClientSlots(m)
      <3>1. \E s \in Services, q \in Queues : \E i \in DOMAIN delivered[s][q] : delivered[s][q][i] = m
        BY <2>5 DEF ClientSlots
      <3>2. \E s \in Services, q \in Queues : place[m] = At("delivered", s, q)
        BY <3>1 DEF Agree, ClientAgree, KeepsPlain
      <3> QED
        BY <3>2, AtEqual
    <2> QED
      BY <2>1, <2>2, <2>3, <2>4, <2>5 DEF Slots
  <1>2. ASSUME place[m].kind \in Moving \cup {"delivered"} PROVE \E z : z \in Slots(m)
    <2>1. place[m] \notin {Fresh, Dropped, Lost}
      BY <1>2, AtEqual DEF Fresh, Dropped, Lost, Moving
    <2>2. Somewhere(m)
      BY DEF Accounted
    <2>3. ASSUME NEW s \in Services, NEW q \in Queues, Holds(elements[s][q], m)
          PROVE  \E z : z \in Slots(m)
      <3>1. PICK i \in DOMAIN elements[s][q] : elements[s][q][i].msg = m
        BY <2>3 DEF Holds
      <3> DEFINE slots(u, n) == {<<"queue", u, n, x>> : x \in {j \in DOMAIN elements[u][n] : elements[u][n][j].msg = m}}
      <3>2. <<"queue", s, q, i>> \in slots(s, q)
        BY <3>1
      <3>3. QueueSlots(m) = UNION {slots(u, n) : u \in Services, n \in Queues}
        BY DEF QueueSlots
      <3> HIDE DEF slots
      <3>4. <<"queue", s, q, i>> \in QueueSlots(m)
        BY <3>2, <3>3
      <3> QED
        BY <3>4 DEF Slots
    <2>4. ASSUME NEW s \in Services, NEW q \in Queues, held[s][q] = m
          PROVE  \E z : z \in Slots(m)
      <3>1. <<s, q>> \in {y \in Services \X Queues : held[y[1]][y[2]] = m}
        BY <2>4
      <3>2. <<"held", <<s, q>>[1], <<s, q>>[2], 0>> \in HeldSlots(m)
        BY <3>1, Zenon DEF HeldSlots
      <3> QED
        BY <3>2 DEF Slots
    <2>5. ASSUME NEW s \in Services, NEW c \in Conns, Holds(wire[s][c], m)
          PROVE  \E z : z \in Slots(m)
      <3>1. PICK i \in DOMAIN wire[s][c] : wire[s][c][i].msg = m
        BY <2>5 DEF Holds
      <3> DEFINE slots(u, n) == {<<"wire", u, n, x>> : x \in {j \in DOMAIN wire[u][n] : wire[u][n][j].msg = m}}
      <3>2. <<"wire", s, c, i>> \in slots(s, c)
        BY <3>1
      <3>3. WireSlots(m) = UNION {slots(u, n) : u \in Services, n \in Conns}
        BY DEF WireSlots
      <3> HIDE DEF slots
      <3>4. <<"wire", s, c, i>> \in WireSlots(m)
        BY <3>2, <3>3
      <3> QED
        BY <3>4 DEF Slots
    <2>6. ASSUME NEW s \in Services, Holds(inbuf[s], m)
          PROVE  \E z : z \in Slots(m)
      <3>1. PICK i \in DOMAIN inbuf[s] : inbuf[s][i].msg = m
        BY <2>6 DEF Holds
      <3>2. <<"inbuf", s, 0, i>> \in InbufSlots(m)
        BY <3>1 DEF InbufSlots
      <3> QED
        BY <3>2 DEF Slots
    <2>7. ASSUME NEW s \in Services, NEW q \in Queues, HoldsPlain(delivered[s][q], m)
          PROVE  \E z : z \in Slots(m)
      <3>1. PICK i \in DOMAIN delivered[s][q] : delivered[s][q][i] = m
        BY <2>7 DEF HoldsPlain
      <3> DEFINE slots(u, n) == {<<"delivered", u, n, x>> : x \in {j \in DOMAIN delivered[u][n] : delivered[u][n][j] = m}}
      <3>2. <<"delivered", s, q, i>> \in slots(s, q)
        BY <3>1
      <3>3. ClientSlots(m) = UNION {slots(u, n) : u \in Services, n \in Queues}
        BY DEF ClientSlots
      <3> HIDE DEF slots
      <3>4. <<"delivered", s, q, i>> \in ClientSlots(m)
        BY <3>2, <3>3
      <3> QED
        BY <3>4 DEF Slots
    <2> QED
      BY <2>1, <2>2, <2>3, <2>4, <2>5, <2>6, <2>7 DEF Somewhere
  <1> QED
    BY <1>1, <1>2

(***************************************************************************)
(* No message vanishes: one that a client submitted stays in a list, in a  *)
(* thread's hands, in the kernel or in a receive buffer until it is        *)
(* delivered, dropped for want of a client or lost with a connection or a  *)
(* service; in no hand-over between the threads does it slip through.      *)
(***************************************************************************)
THEOREM PathNothingVanishes == Spec => []NothingVanishes
  <1>1. Init => TypeOK /\ Agree /\ Accounted
    BY InitType, AgreeInit, AccountedInit
  <1>2. TypeOK /\ Agree /\ Accounted /\ [Next]_vars => (TypeOK /\ Agree /\ Accounted)'
    BY NextType, AgreeNext, AccountedNext
  <1>3. TypeOK /\ Agree /\ Accounted => NothingVanishes
    BY AccountedNothingVanishes
  <1> QED
    BY <1>1, <1>2, <1>3, PTL DEF Spec

(***************************************************************************)
(* Every message stays on the way of its queue                             *)
(*                                                                         *)
(* RightDestination speaks of lists and clients only.  In between a        *)
(* message is in a process thread's hands, which remembers by its program  *)
(* counter which way it goes, or in a frame, which names a queue but not a *)
(* direction.  OnItsWay types every container by the messages that may be  *)
(* in it.                                                                  *)
(***************************************************************************)
From(s, q) == Range(submitted[s][q])
ListOf(s, q) == {e \in Element : e.msg \in From(IF e.to = "service" THEN s ELSE Other(s), q)}
FramesTo(s) == {f \in Frames : f.msg \in From(Other(s), f.queue)}

InList == \A s \in Services, q \in Queues : elements[s][q] \in Seq(ListOf(s, q))
InHands ==
  \A s \in Services, q \in Queues :
    /\ pc[s][q] \in {"toService", "requeue"} => held[s][q] \in From(s, q)
    /\ pc[s][q] \in {"toClient", "sendClient"} => held[s][q] \in From(Other(s), q)
InFrames == /\ \A s \in Services, c \in Conns : wire[s][c] \in Seq(FramesTo(s))
            /\ \A s \in Services : inbuf[s] \in Seq(FramesTo(s))
AtClient == \A s \in Services, q \in Queues : delivered[s][q] \in Seq(From(Other(s), q))

OnItsWay == InList /\ InHands /\ InFrames /\ AtClient

\* A sequence over a set is one over every larger set.
LEMMA SeqGrows ==
  ASSUME NEW A, NEW B, A \subseteq B, NEW seq \in Seq(A)
  PROVE  seq \in Seq(B)
OBVIOUS

LEMMA EmptyOver == \A S : <<>> \in Seq(S)
OBVIOUS

LEMMA OnItsWayInit == Init => OnItsWay
BY DEF Init, LinkInit, OnItsWay, InList, InHands, InFrames, AtClient

\* While no client submits, what may be where does not change.
LEMMA WaySame ==
  ASSUME submitted' = submitted
  PROVE  /\ \A s, q : From(s, q)' = From(s, q) /\ ListOf(s, q)' = ListOf(s, q)
         /\ \A s : FramesTo(s)' = FramesTo(s)
BY DEF From, ListOf, FramesTo, Range

LEMMA OnItsWaySubmit ==
  ASSUME TypeOK, OnItsWay, NEW s \in Services, NEW h \in Sockets, NEW q \in Queues,
         NEW m \in Messages, Submit(s, h, q, m)
  PROVE  OnItsWay'
  <1> DEFINE e == [to |-> "service", msg |-> m]
  <1>1. /\ submitted' = [submitted EXCEPT ![s][q] = Append(submitted[s][q], m)]
        /\ elements' = [elements EXCEPT ![s][q] = Append(elements[s][q], e)]
        /\ UNCHANGED <<held, pc, wire, inbuf, delivered>>
    BY DEF Submit, linkVars, threadVars
  <1>2. /\ From(s, q) \subseteq Range(Append(submitted[s][q], m))
        /\ m \in Range(Append(submitted[s][q], m))
    <2>1. submitted[s][q] \in Seq(Messages)
      BY DEF TypeOK, PathTypeOK
    <2>2. /\ Len(submitted[s][q]) \in Nat /\ DOMAIN submitted[s][q] = 1..Len(submitted[s][q])
          /\ DOMAIN Append(submitted[s][q], m) = 1..(Len(submitted[s][q]) + 1)
          /\ \A i \in 1..(Len(submitted[s][q]) + 1) : Append(submitted[s][q], m)[i] =
               IF i = Len(submitted[s][q]) + 1 THEN m ELSE submitted[s][q][i]
      BY <2>1, AppendIndex
    <2> QED
      BY <2>2 DEF From, Range
  <1>3. /\ \A t \in Services, o \in Queues : From(t, o) \subseteq From(t, o)'
        /\ m \in From(s, q)'
    BY <1>1, <1>2 DEF From, TypeOK, PathTypeOK
  <1>4. \A t \in Services, o \in Queues : ListOf(t, o) \subseteq ListOf(t, o)'
    BY <1>3, OtherType DEF ListOf
  <1>5. \A t \in Services : FramesTo(t) \subseteq FramesTo(t)'
    BY <1>3, OtherType, PathAssumption DEF FramesTo
  <1>6. InList'
    <2>1. \A t \in Services, o \in Queues : elements[t][o] \in Seq(ListOf(t, o)')
      BY <1>4, SeqGrows DEF OnItsWay, InList
    <2>2. e \in ListOf(s, q)'
      BY <1>3 DEF ListOf, Element
    <2>3. Append(elements[s][q], e) \in Seq(ListOf(s, q)')
      BY <2>1, <2>2, AppendProperties
    <2>4. \A t \in Services, o \in Queues :
            elements'[t][o] = IF t = s /\ o = q THEN Append(elements[s][q], e) ELSE elements[t][o]
      BY <1>1 DEF TypeOK, PathTypeOK
    <2> QED
      BY <2>1, <2>3, <2>4 DEF InList
  <1>7. InHands'
    BY <1>1, <1>3, OtherType DEF OnItsWay, InHands
  <1>8. InFrames'
    BY <1>1, <1>5, SeqGrows DEF OnItsWay, InFrames
  <1>9. AtClient'
    BY <1>1, <1>3, OtherType, SeqGrows DEF OnItsWay, AtClient
  <1> QED
    BY <1>6, <1>7, <1>8, <1>9 DEF OnItsWay

\* Where a thread lets go of its message: the others keep theirs.
LEMMA InHandsRelease ==
  ASSUME TypeOK, OnItsWay, NEW s \in Services, NEW q \in Queues, Release(s, q), submitted' = submitted
  PROVE  InHands'
  <1>1. \A t \in Services, o \in Queues :
          /\ pc'[t][o] = IF t = s /\ o = q THEN "idle" ELSE pc[t][o]
          /\ held'[t][o] = IF t = s /\ o = q THEN NoMsg ELSE held[t][o]
    BY DEF Release, TypeOK, PathTypeOK
  <1> QED
    BY <1>1, WaySame DEF OnItsWay, InHands

LEMMA OnItsWayProcessThread ==
  ASSUME TypeOK, OnItsWay, NEW s \in Services, NEW q \in Queues, ProcessThread(s, q)
  PROVE  OnItsWay'
  <1>1. submitted' = submitted /\ inbuf' = inbuf
    BY DEF ProcessThread, Take, DropUnclaimed, ReadClient, SendToClient, SendToClientFails, Forward,
           ForwardLost, ForwardFails, Requeue, linkVars, SendDone, SendLost, SendFails
  <1>2. /\ \A t, o : From(t, o)' = From(t, o) /\ ListOf(t, o)' = ListOf(t, o)
        /\ \A t : FramesTo(t)' = FramesTo(t)
    BY <1>1, WaySame
  <1>3. elements' = elements => InList'
    BY <1>2 DEF OnItsWay, InList
  <1>4. wire' = wire => InFrames'
    BY <1>1, <1>2 DEF OnItsWay, InFrames
  <1>5. delivered' = delivered => AtClient'
    BY <1>2 DEF OnItsWay, AtClient
  <1>6. CASE Take(s, q)
    <2> DEFINE e == Head(elements[s][q])
    <2>1. /\ elements[s][q] # <<>>
          /\ held' = [held EXCEPT ![s][q] = e.msg]
          /\ pc' = [pc EXCEPT ![s][q] = IF e.to = "client" THEN "toClient" ELSE "toService"]
          /\ elements' = [elements EXCEPT ![s][q] = Tail(elements[s][q])]
          /\ UNCHANGED <<wire, delivered>>
      BY <1>6 DEF Take, linkVars
    <2>2. e \in ListOf(s, q) /\ Tail(elements[s][q]) \in Seq(ListOf(s, q))
      BY <2>1, TailIndex DEF OnItsWay, InList
    <2>3. \A t \in Services, o \in Queues :
            /\ elements'[t][o] = IF t = s /\ o = q THEN Tail(elements[s][q]) ELSE elements[t][o]
            /\ held'[t][o] = IF t = s /\ o = q THEN e.msg ELSE held[t][o]
            /\ pc'[t][o] = IF t = s /\ o = q
                           THEN IF e.to = "client" THEN "toClient" ELSE "toService" ELSE pc[t][o]
      BY <2>1 DEF TypeOK, PathTypeOK
    <2>4. InList'
      BY <1>2, <2>2, <2>3 DEF OnItsWay, InList
    <2>5. /\ e.to = "client" => e.msg \in From(Other(s), q)
          /\ e.to # "client" => e.msg \in From(s, q)
      BY <2>2 DEF ListOf, Element
    <2>6. InHands'
      BY <1>2, <2>3, <2>5 DEF OnItsWay, InHands
    <2> QED
      BY <1>4, <1>5, <2>1, <2>4, <2>6 DEF OnItsWay
  <1>7. CASE DropUnclaimed(s, q) \/ SendToClientFails(s, q) \/ ForwardLost(s, q)
    <2>1. Release(s, q) /\ UNCHANGED <<elements, wire, delivered>>
      BY <1>7 DEF DropUnclaimed, SendToClientFails, ForwardLost, SendLost, linkVars
    <2> QED
      BY <1>1, <1>3, <1>4, <1>5, <2>1, InHandsRelease DEF OnItsWay
  <1>8. CASE ReadClient(s, q) \/ ForwardFails(s, q)
    <2>1. /\ UNCHANGED <<elements, wire, delivered, held>>
          /\ \/ pc[s][q] = "toClient" /\ pc' = [pc EXCEPT ![s][q] = "sendClient"]
             \/ pc[s][q] = "toService" /\ pc' = [pc EXCEPT ![s][q] = "requeue"]
      BY <1>8 DEF ReadClient, ForwardFails, SendFails, linkVars
    <2>2. \A t \in Services, o \in Queues :
            \/ pc'[t][o] = pc[t][o]
            \/ pc[t][o] = "toClient" /\ pc'[t][o] = "sendClient"
            \/ pc[t][o] = "toService" /\ pc'[t][o] = "requeue"
      <3>1. \A x, y : pc[s][q] = x /\ pc' = [pc EXCEPT ![s][q] = y]
              => \A t \in Services, o \in Queues :
                   pc'[t][o] = pc[t][o] \/ (pc[t][o] = x /\ pc'[t][o] = y)
        BY DEF TypeOK, PathTypeOK
      <3> QED
        BY <2>1, <3>1
    <2>3. InHands'
      BY <1>2, <2>1, <2>2 DEF OnItsWay, InHands
    <2> QED
      BY <1>3, <1>4, <1>5, <2>1, <2>3 DEF OnItsWay
  <1>9. CASE SendToClient(s, q)
    <2>1. /\ Release(s, q) /\ pc[s][q] = "sendClient" /\ UNCHANGED <<elements, wire>>
          /\ delivered' = [delivered EXCEPT ![s][q] = Append(delivered[s][q], held[s][q])]
      BY <1>9 DEF SendToClient, linkVars
    <2>2. held[s][q] \in From(Other(s), q)
      BY <2>1 DEF OnItsWay, InHands
    <2>3. Append(delivered[s][q], held[s][q]) \in Seq(From(Other(s), q))
      BY <2>2, AppendProperties DEF OnItsWay, AtClient
    <2>4. \A t \in Services, o \in Queues : delivered'[t][o] =
            IF t = s /\ o = q THEN Append(delivered[s][q], held[s][q]) ELSE delivered[t][o]
      BY <2>1 DEF TypeOK, PathTypeOK
    <2>5. AtClient'
      BY <1>2, <2>3, <2>4 DEF OnItsWay, AtClient
    <2> QED
      BY <1>1, <1>3, <1>4, <2>1, <2>5, InHandsRelease DEF OnItsWay
  <1>10. CASE Forward(s, q)
    <2> DEFINE f == [queue |-> q, msg |-> held[s][q]]
               t == Other(s)
               c == sock[s]
    <2>1. /\ Release(s, q) /\ pc[s][q] = "toService" /\ UNCHANGED <<elements, delivered>>
          /\ wire' = [wire EXCEPT ![t][c] = Append(wire[t][c], f)]
      BY <1>10 DEF Forward, SendDone
    <2>2. held[s][q] \in From(s, q) /\ held[s][q] \in Messages
      BY <2>1 DEF OnItsWay, InHands, TypeOK, PathTypeOK
    <2>3. t \in Services /\ Other(t) = s /\ c \in Conns
      <3>1. c \in Conns
        BY <1>10 DEF Forward, SendDone, TypeOK, LinkTypeOK
      <3> QED
        BY <3>1, OtherType
    <2>4. f \in FramesTo(t)
      BY <2>2, <2>3, PathAssumption DEF FramesTo
    <2>5. Append(wire[t][c], f) \in Seq(FramesTo(t))
      BY <2>3, <2>4, AppendProperties DEF OnItsWay, InFrames
    <2>6. \A u \in Services, d \in Conns :
            wire'[u][d] = IF u = t /\ d = c THEN Append(wire[t][c], f) ELSE wire[u][d]
      BY <2>1 DEF TypeOK, LinkTypeOK
    <2>7. InFrames'
      BY <1>1, <1>2, <2>5, <2>6 DEF OnItsWay, InFrames
    <2> QED
      BY <1>1, <1>3, <1>5, <2>1, <2>7, InHandsRelease DEF OnItsWay
  <1>11. CASE Requeue(s, q)
    <2> DEFINE e == [to |-> "service", msg |-> held[s][q]]
    <2>1. /\ Release(s, q) /\ pc[s][q] = "requeue" /\ UNCHANGED <<wire, delivered>>
          /\ elements' = [elements EXCEPT ![s][q] = Append(elements[s][q], e)]
      BY <1>11 DEF Requeue, linkVars
    <2>2. held[s][q] \in From(s, q) /\ held[s][q] \in Messages
      BY <2>1 DEF OnItsWay, InHands, TypeOK, PathTypeOK
    <2>3. e \in ListOf(s, q)
      BY <2>2 DEF ListOf, Element
    <2>4. Append(elements[s][q], e) \in Seq(ListOf(s, q))
      BY <2>3, AppendProperties DEF OnItsWay, InList
    <2>5. \A t \in Services, o \in Queues :
            elements'[t][o] = IF t = s /\ o = q THEN Append(elements[s][q], e) ELSE elements[t][o]
      BY <2>1 DEF TypeOK, PathTypeOK
    <2>6. InList'
      BY <1>2, <2>4, <2>5 DEF OnItsWay, InList
    <2> QED
      BY <1>1, <1>4, <1>5, <2>1, <2>6, InHandsRelease DEF OnItsWay
  <1> QED
    BY <1>6, <1>7, <1>8, <1>9, <1>10, <1>11 DEF ProcessThread

\* Discarding frames leaves the other connections' as they were.
LEMMA OnItsWayLoseWire ==
  ASSUME TypeOK, OnItsWay, NEW s \in Services, NEW C, wire' = Discard(s, C),
         UNCHANGED <<elements, pc, held, inbuf, submitted, delivered>>
  PROVE  OnItsWay'
  <1>1. \A t \in Services, d \in Conns : wire'[t][d] = IF t = s /\ d \in C THEN <<>> ELSE wire[t][d]
    BY DiscardType DEF TypeOK
  <1>2. \A t \in Services, d \in Conns : wire'[t][d] \in Seq(FramesTo(t))
    BY <1>1, EmptyOver DEF OnItsWay, InFrames
  <1>3. InFrames'
    BY <1>2, WaySame DEF OnItsWay, InFrames
  <1> QED
    BY <1>3, WaySame DEF OnItsWay, InList, InHands, AtClient

LEMMA OnItsWayRecv ==
  ASSUME TypeOK, OnItsWay, NEW s \in Services, PathRecv(s)
  PROVE  OnItsWay'
  <1> DEFINE c == sock[s]
             w == wire[s][c]
  <1>1. UNCHANGED <<elements, pc, held, submitted, delivered>>
    BY DEF PathRecv, threadVars
  <1>2. c \in Conns /\ w \in Seq(FramesTo(s))
    BY DEF PathRecv, RecvFrames, OnItsWay, InFrames
  <1>3. PICK k \in 1..Len(w) : /\ inbuf' = [inbuf EXCEPT ![s] = SubSeq(w, 1, k)]
                               /\ wire' = [wire EXCEPT ![s][c] = SubSeq(w, k + 1, Len(w))]
    BY DEF PathRecv, RecvFrames
  <1>4. SubSeq(w, 1, k) \in Seq(FramesTo(s)) /\ SubSeq(w, k + 1, Len(w)) \in Seq(FramesTo(s))
    <2>1. k \in 0..Len(w)
      BY <1>2, LenProperties
    <2> QED
      BY <1>2, <2>1, SplitType
  <1>5. /\ \A t \in Services : inbuf'[t] = IF t = s THEN SubSeq(w, 1, k) ELSE inbuf[t]
        /\ \A t \in Services, d \in Conns :
             wire'[t][d] = IF t = s /\ d = c THEN SubSeq(w, k + 1, Len(w)) ELSE wire[t][d]
    BY <1>3 DEF TypeOK, LinkTypeOK
  <1>6. InFrames'
    BY <1>1, <1>4, <1>5, WaySame DEF OnItsWay, InFrames
  <1> QED
    BY <1>1, <1>6, WaySame DEF OnItsWay, InList, InHands, AtClient

LEMMA OnItsWayStore ==
  ASSUME TypeOK, OnItsWay, NEW s \in Services, StoreMessage(s)
  PROVE  OnItsWay'
  <1> DEFINE f == Head(inbuf[s])
             q == f.queue
             e == [to |-> "client", msg |-> f.msg]
  <1>1. /\ rpc[s] = "handle" /\ inbuf' = [inbuf EXCEPT ![s] = Tail(inbuf[s])]
        /\ elements' = [elements EXCEPT ![s][q] = Append(elements[s][q], e)]
        /\ UNCHANGED <<held, pc, wire, submitted, delivered>>
    BY DEF StoreMessage, HandleFrame, threadVars
  <1>2. f \in FramesTo(s) /\ Tail(inbuf[s]) \in Seq(FramesTo(s))
    <2>1. inbuf[s] # <<>>
      BY <1>1 DEF TypeOK, LinkTypeOK
    <2> QED
      BY <2>1, TailIndex DEF OnItsWay, InFrames
  <1>3. q \in Queues /\ e \in ListOf(s, q)
    BY <1>2, PathAssumption DEF FramesTo, ListOf, Element
  <1>4. Append(elements[s][q], e) \in Seq(ListOf(s, q))
    BY <1>3, AppendProperties DEF OnItsWay, InList
  <1>5. /\ \A t \in Services, o \in Queues :
             elements'[t][o] = IF t = s /\ o = q THEN Append(elements[s][q], e) ELSE elements[t][o]
        /\ \A t \in Services : inbuf'[t] = IF t = s THEN Tail(inbuf[s]) ELSE inbuf[t]
    BY <1>1 DEF TypeOK, PathTypeOK, LinkTypeOK
  <1>6. InList'
    BY <1>1, <1>4, <1>5, WaySame DEF OnItsWay, InList
  <1>7. InFrames'
    BY <1>1, <1>2, <1>5, WaySame DEF OnItsWay, InFrames
  <1> QED
    BY <1>1, <1>6, <1>7, WaySame DEF OnItsWay, InHands, AtClient

LEMMA OnItsWayCrash ==
  ASSUME TypeOK, OnItsWay, NEW s \in Services, NEW k \in 0..WireCap, PathCrash(s, k)
  PROVE  OnItsWay'
  <1>1. submitted' = submitted /\ delivered' = delivered /\ k \in Nat
    BY LinkAssumption DEF PathCrash
  <1>2. /\ \A u \in Services, q \in Queues :
             /\ elements'[u][q] = IF u = s THEN <<>> ELSE elements[u][q]
             /\ held'[u][q] = IF u = s THEN NoMsg ELSE held[u][q]
             /\ pc'[u][q] = IF u = s THEN "idle" ELSE pc[u][q]
        /\ \A u \in Services : inbuf'[u] = IF u = s THEN <<>> ELSE inbuf[u]
    BY DEF PathCrash, Crash, TypeOK, PathTypeOK, LinkTypeOK
  <1>3. ASSUME NEW t \in Services, NEW c \in Conns PROVE wire'[t][c] \in Seq(FramesTo(t))
    <2> DEFINE w == wire[t][c]
    <2>1. w \in Seq(FramesTo(t)) /\ Len(w) \in Nat
      BY LenProperties DEF OnItsWay, InFrames
    <2>2. \/ wire'[t][c] = <<>>
          \/ wire'[t][c] = w
          \/ k < Len(w) /\ wire'[t][c] = SubSeq(w, 1, k)
      BY DEF PathCrash, Crash
    <2>3. k < Len(w) => SubSeq(w, 1, k) \in Seq(FramesTo(t))
      BY <1>1, <2>1, SplitType
    <2> HIDE DEF w
    <2> QED
      BY <2>1, <2>2, <2>3, EmptyOver
  <1>4. InFrames'
    <2>1. \A t \in Services : inbuf'[t] \in Seq(FramesTo(t))
      BY <1>2, EmptyOver DEF OnItsWay, InFrames
    <2> QED
      BY <1>1, <1>3, <2>1, WaySame DEF InFrames
  <1>5. InList'
    <2>1. \A t \in Services, q \in Queues : elements'[t][q] \in Seq(ListOf(t, q))
      BY <1>2, EmptyOver DEF OnItsWay, InList
    <2> QED
      BY <1>1, <2>1, WaySame DEF InList
  <1>6. InHands'
    BY <1>1, <1>2, WaySame DEF OnItsWay, InHands
  <1> QED
    BY <1>1, <1>4, <1>5, <1>6, WaySame DEF OnItsWay, AtClient

LEMMA OnItsWayNext == TypeOK /\ OnItsWay /\ [Next]_vars => OnItsWay'
  <1> SUFFICES ASSUME TypeOK, OnItsWay, [Next]_vars PROVE OnItsWay'
    OBVIOUS
  <1>1. ASSUME UNCHANGED <<elements, pc, held, wire, inbuf, submitted, delivered>> PROVE OnItsWay'
    BY <1>1, WaySame DEF OnItsWay, InList, InHands, InFrames, AtClient
  <1>2. CASE PathStart
    BY <1>1, <1>2 DEF PathStart, StartHost, StartPeer, pathVars
  <1>3. CASE PathAccept
    <2>1. HOST \in Services /\ \E C : wire' = Discard(HOST, C)
      BY <1>3 DEF PathAccept, Accept, AcceptFails, Services
    <2>2. UNCHANGED <<elements, pc, held, inbuf, submitted, delivered>>
      BY <1>3 DEF PathAccept, Accept, AcceptFails, threadVars
    <2> QED
      BY <2>1, <2>2, OnItsWayLoseWire
  <1>4. ASSUME NEW s \in Services, PathRecvThread(s) PROVE OnItsWay'
    <2>1. CASE PathSelect(s)
      BY <1>1, <2>1 DEF PathSelect, Select, RecvNothing, pathVars
    <2>2. CASE PathRecv(s)
      BY <2>2, OnItsWayRecv
    <2>3. CASE StoreMessage(s)
      BY <2>3, OnItsWayStore
    <2>4. CASE PathClose(s)
      BY <2>4, OnItsWayLoseWire DEF PathClose, CloseSock, NullSock, threadVars
    <2> QED
      BY <1>4, <2>1, <2>2, <2>3, <2>4 DEF PathRecvThread
  <1>5. ASSUME NEW s \in Services, NEW q \in Queues, ProcessThread(s, q) PROVE OnItsWay'
    BY <1>5, OnItsWayProcessThread
  <1>6. ASSUME NEW s \in Services, NEW h \in Sockets, ClientStep(s, h) PROVE OnItsWay'
    <2>1. CASE OpenClient(s, h) \/ CloseClient(s, h) \/ CleanupClient(s, h)
               \/ \E q \in Queues : ConnectToQueue(s, h, q)
      BY <1>1, <2>1 DEF OpenClient, CloseClient, CleanupClient, ConnectToQueue, linkVars, threadVars
    <2>2. ASSUME NEW q \in Queues, NEW m \in Messages, Submit(s, h, q, m) PROVE OnItsWay'
      BY <2>2, OnItsWaySubmit
    <2> QED
      BY <1>6, <2>1, <2>2 DEF ClientStep
  <1>7. ASSUME NEW s \in Services, NEW k \in 0..WireCap, PathCrash(s, k) PROVE OnItsWay'
    BY <1>7, OnItsWayCrash
  <1>8. CASE UNCHANGED vars
    BY <1>1, <1>8 DEF vars, linkVars, pathVars
  <1> QED
    BY <1>2, <1>3, <1>4, <1>5, <1>6, <1>7, <1>8 DEF Next

(***************************************************************************)
(* What waits in a list was submitted to the queue of that name, at this   *)
(* service when it waits for the other one and at the other when it waits  *)
(* for a client; clients are sent only what was submitted to the same      *)
(* queue at the other service.  Two queues never mix, although all of them *)
(* share one link and its frames do not say where they come from.          *)
(***************************************************************************)
THEOREM PathRightDestination == Spec => []RightDestination
  <1>1. Init => TypeOK /\ OnItsWay
    BY InitType, OnItsWayInit
  <1>2. TypeOK /\ OnItsWay /\ [Next]_vars => (TypeOK /\ OnItsWay)'
    BY NextType, OnItsWayNext
  <1>3. TypeOK /\ OnItsWay => RightDestination
    <2> SUFFICES ASSUME TypeOK, OnItsWay, NEW s \in Services, NEW q \in Queues
                 PROVE  /\ \A i \in DOMAIN elements[s][q] :
                             elements[s][q][i].msg \in Range(submitted[
                               IF elements[s][q][i].to = "service" THEN s ELSE Other(s)][q])
                        /\ Range(delivered[s][q]) \subseteq Range(submitted[Other(s)][q])
      BY DEF RightDestination
    <2>1. \A i \in DOMAIN elements[s][q] : elements[s][q][i] \in ListOf(s, q)
      BY ElementOfSeq, LenProperties DEF OnItsWay, InList
    <2>2. \A i \in DOMAIN delivered[s][q] : delivered[s][q][i] \in From(Other(s), q)
      BY ElementOfSeq, LenProperties DEF OnItsWay, AtClient
    <2>3. Range(delivered[s][q]) \subseteq Range(submitted[Other(s)][q])
      BY <2>2 DEF From, Range
    <2> QED
      BY <2>1, <2>3 DEF ListOf, From
  <1> QED
    BY <1>1, <1>2, <1>3, PTL DEF Spec

(***************************************************************************)
(* The message path and the link                                           *)
(*                                                                         *)
(* Every step of the message path is, for the link, one of its own steps   *)
(* or none: what is proved about the link holds with the queues and the    *)
(* process threads around it.                                              *)
(***************************************************************************)
LEMMA PathStepIsLinkStep == TypeOK /\ [Next]_vars => [LinkNext]_linkVars
  <1> SUFFICES ASSUME TypeOK, [Next]_vars PROVE [LinkNext]_linkVars
    OBVIOUS
  <1>1. CASE PathStart
    BY <1>1 DEF PathStart, LinkNext
  <1>2. CASE PathAccept
    BY <1>2 DEF PathAccept, AcceptThread, LinkNext
  <1>3. ASSUME NEW s \in Services, PathRecvThread(s) PROVE LinkNext
    <2>1. RecvThread(s)
      BY <1>3 DEF PathRecvThread, PathSelect, PathRecv, StoreMessage, PathClose, RecvThread
    <2> QED
      BY <2>1 DEF LinkNext
  <1>4. ASSUME NEW s \in Services, NEW q \in Queues, ProcessThread(s, q) PROVE [LinkNext]_linkVars
    <2>1. CASE Forward(s, q) \/ ForwardLost(s, q)
      <3>1. held[s][q] \in Messages
        BY <2>1 DEF Forward, ForwardLost, TypeOK, PathTypeOK
      <3>2. [queue |-> q, msg |-> held[s][q]] \in Frames
        BY <3>1, PathAssumption
      <3>3. Send(s, [queue |-> q, msg |-> held[s][q]])
        BY <2>1 DEF Forward, ForwardLost, Send
      <3> QED
        BY <3>2, <3>3 DEF LinkNext
    <2>2. ~Forward(s, q) /\ ~ForwardLost(s, q) => UNCHANGED linkVars
      BY <1>4 DEF ProcessThread, Take, DropUnclaimed, ReadClient, SendToClient, SendToClientFails,
                  ForwardFails, SendFails, Requeue
    <2> QED
      BY <2>1, <2>2
  <1>5. ASSUME NEW s \in Services, NEW h \in Sockets, ClientStep(s, h) PROVE UNCHANGED linkVars
    BY <1>5 DEF ClientStep, OpenClient, CloseClient, CleanupClient, ConnectToQueue, Submit
  <1>6. ASSUME NEW s \in Services, NEW k \in 0..WireCap, PathCrash(s, k) PROVE LinkNext
    BY <1>6 DEF PathCrash, LinkNext
  <1>7. CASE UNCHANGED vars
    BY <1>7 DEF vars
  <1> QED
    BY <1>1, <1>2, <1>3, <1>4, <1>5, <1>6, <1>7 DEF Next

(***************************************************************************)
(* The message path implements the link: the queues, the process threads   *)
(* and the clients make the link do nothing that ServiceLink does not      *)
(* allow, so that its theorems hold of the composed system as well.        *)
(***************************************************************************)
THEOREM PathImplementsLink == Spec => LinkSpec
  <1>1. Init => LinkInit
    BY DEF Init
  <1> QED
    BY <1>1, PathTypeCorrect, PathStepIsLinkStep, PTL DEF Spec, LinkSpec

(***************************************************************************)
(* No loss before a service first stops                                    *)
(*                                                                         *)
(* NoLossUntilRestart is not inductive: that nothing is discarded follows  *)
(* from the state of an undisturbed link (SoundInv), and that accepting    *)
(* its connection discards nothing from where messages can be (Accounted). *)
(***************************************************************************)
PathInv == TypeOK /\ Agree /\ Accounted /\ SoundInv

LEMMA PathInvInit == Init => PathInv
BY InitType, AgreeInit, AccountedInit, SoundInit DEF PathInv, Init

LEMMA PathInvNext == PathInv /\ [Next]_vars => PathInv'
BY NextType, AgreeNext, AccountedNext, PathStepIsLinkStep, SoundNext DEF PathInv, TypeOK

\* What is sent over an undisturbed link is read.
LEMMA UndisturbedReads ==
  ASSUME LinkTypeOK, Undisturbed, NEW s \in Services, sock[s] \in ends[s]
  PROVE  Reads(Other(s), sock[s])
  <1>0. HOST \in Services /\ PEER \in Services /\ HOST # PEER /\ s \in {HOST, PEER}
        /\ Other(HOST) = PEER /\ Other(PEER) = HOST
    BY DEF Services, HOST, PEER, Other
  <1>1. sock[s] \in Conns /\ sock[s] # NULL
    BY LinkAssumption DEF LinkTypeOK, Conns, NULL
  <1>2. running[PEER]
    BY <1>1 DEF Undisturbed
  <1>3. /\ sock[PEER] = 1 /\ \A t \in Services : 1 \in ends[t]
        /\ \/ backlog = <<1>> /\ sock[HOST] = NULL
           \/ backlog = <<>> /\ sock[HOST] = 1
    BY <1>2 DEF Undisturbed
  <1>4. sock[s] = 1
    BY <1>0, <1>1, <1>3
  <1>5. backlog = <<1>> => 1 \in Range(backlog)
    BY DEF Range
  <1> QED
    BY <1>0, <1>3, <1>4, <1>5 DEF Reads

LEMMA NoLossNext == PathInv /\ NoLossUntilRestart /\ [Next]_vars => NoLossUntilRestart'
  <1> SUFFICES ASSUME PathInv, NoLossUntilRestart, [Next]_vars, crashes' = 0,
                      NEW m \in Messages, place'[m] = Lost
               PROVE  FALSE
    BY DEF NoLossUntilRestart
  <1>1. LinkTypeOK /\ place \in [Messages -> Places]
    BY DEF PathInv, TypeOK, PathTypeOK
  <1>2. ~\E s \in Services, k \in 0..WireCap : Crash(s, k)
    BY <1>1 DEF Crash, LinkTypeOK
  <1>3. crashes = 0 /\ Undisturbed
    <2>1. [LinkNext]_linkVars
      BY PathStepIsLinkStep DEF PathInv
    <2>2. crashes' = crashes
      BY <1>2, <2>1 DEF LinkNext, StartHost, StartPeer, AcceptThread, Accept, AcceptFails, RecvThread,
                        Select, RecvFrames, RecvNothing, HandleFrame, CloseSock, NullSock, Send,
                        SendDone, SendLost, SendFails, linkVars
    <2> QED
      BY <2>2 DEF PathInv, SoundInv
  <1>4. place[m] # Lost
    BY <1>3 DEF NoLossUntilRestart
  <1>5. \A k, s, n : k # "lost" => At(k, s, n) # Lost
    BY AtEqual DEF Lost
  <1>6. ASSUME NEW x, NEW k, NEW t, NEW n, k # "lost",
               place' = [place EXCEPT ![x] = At(k, t, n)]
        PROVE  FALSE
    BY <1>1, <1>4, <1>5, <1>6
  <1>7. CASE place' = place
    BY <1>4, <1>7
  <1>8. CASE PathStart
    BY <1>7, <1>8 DEF PathStart, pathVars
  <1>9. CASE PathAccept
    <2>0. HOST \in Services /\ PEER \in Services /\ HOST # PEER
      BY DEF Services, HOST, PEER
    <2>1. running[PEER] /\ backlog = <<1>> /\ sock[HOST] = NULL /\ 1 \in ends[PEER]
      BY <1>3, <1>9, <2>0 DEF PathAccept, Accept, AcceptFails, Undisturbed
    <2>2. ~AcceptFails
      BY <2>1 DEF AcceptFails
    <2>3. place' = LoseWire(HOST, {NULL})
      BY <1>9, <2>1, <2>2 DEF PathAccept
    <2>4. place[m] = At("wire", HOST, NULL)
      BY <1>4, <2>3 DEF LoseWire
    <2>5. Somewhere(m) /\ NULL \notin Conns
      BY DEF PathInv, Accounted, Conns, NULL
    <2> QED
      BY <2>4, <2>5, AtEqual DEF Somewhere, Fresh, Dropped, Lost, Delivered
  <1>10. ASSUME NEW s \in Services, PathRecvThread(s) PROVE FALSE
    <2>1. CASE PathSelect(s)
      BY <1>7, <2>1 DEF PathSelect, pathVars
    <2>2. CASE PathRecv(s)
      BY <1>4, <1>5, <2>2 DEF PathRecv
    <2>3. CASE StoreMessage(s)
      BY <1>6, <2>3 DEF StoreMessage
    <2>4. CASE PathClose(s)
      BY <1>3, <2>4 DEF PathClose, CloseSock, NullSock, Undisturbed
    <2> QED
      BY <1>10, <2>1, <2>2, <2>3, <2>4 DEF PathRecvThread
  <1>11. ASSUME NEW s \in Services, NEW q \in Queues, ProcessThread(s, q) PROVE FALSE
    <2>1. ~ForwardLost(s, q)
      BY <1>1, <1>3, UndisturbedReads DEF ForwardLost, SendLost
    <2>2. CASE ReadClient(s, q) \/ ForwardFails(s, q)
      BY <1>7, <2>2 DEF ReadClient, ForwardFails
    <2>3. CASE Take(s, q)
      BY <1>6, <2>3 DEF Take
    <2>4. CASE DropUnclaimed(s, q) \/ SendToClientFails(s, q)
      <3>1. place' = [place EXCEPT ![held[s][q]] = At("dropped", HOST, NULL)]
        BY ONLY <2>4 DEF DropUnclaimed, SendToClientFails, Dropped
      <3> QED
        BY <1>6, <3>1
    <2>5. CASE SendToClient(s, q)
      BY <1>6, <2>5 DEF SendToClient, Delivered
    <2>6. CASE Forward(s, q)
      BY <1>6, <2>6 DEF Forward
    <2>7. CASE Requeue(s, q)
      <3>1. place' = [place EXCEPT ![held[s][q]] = At("queue", s, q)]
        BY <2>7 DEF Requeue
      <3> QED
        BY <1>6, <3>1
    <2> QED
      BY <1>11, <2>1, <2>2, <2>3, <2>4, <2>5, <2>6, <2>7 DEF ProcessThread
  <1>12. ASSUME NEW s \in Services, NEW h \in Sockets, ClientStep(s, h) PROVE FALSE
    <2>1. ASSUME NEW q \in Queues, NEW x \in Messages, Submit(s, h, q, x) PROVE FALSE
      <3>1. place' = [place EXCEPT ![x] = At("queue", s, q)]
        BY <2>1 DEF Submit
      <3> QED
        BY <1>6, <3>1
    <2>2. place' = place
      BY <1>12, <2>1 DEF ClientStep, OpenClient, CloseClient, CleanupClient, ConnectToQueue
    <2> QED
      BY <1>7, <2>2
  <1>13. CASE UNCHANGED vars
    BY <1>7, <1>13 DEF vars, pathVars
  <1> QED
    BY <1>2, <1>8, <1>9, <1>10, <1>11, <1>12, <1>13 DEF Next, PathCrash

(***************************************************************************)
(* Until a service first stops the link loses no message, whatever is sent *)
(* over it and however its buffers fill up: a message that is not          *)
(* delivered was dropped at its queue for want of a client.                *)
(***************************************************************************)
THEOREM PathNoLossUntilRestart == Spec => []NoLossUntilRestart
  <1>1. Init => PathInv /\ NoLossUntilRestart
    <2>1. Init => NoLossUntilRestart
      BY AtEqual DEF Init, NoLossUntilRestart, Fresh, Lost
    <2> QED
      BY <2>1, PathInvInit
  <1>2. PathInv /\ NoLossUntilRestart /\ [Next]_vars => (PathInv /\ NoLossUntilRestart)'
    BY PathInvNext, NoLossNext
  <1> QED
    BY <1>1, <1>2, PTL DEF Spec

(***************************************************************************)
(* Messages are overtaken only if they were retried                        *)
(*                                                                         *)
(* A message of channel (s, q) is at one of six stages: in the list of q   *)
(* at s, in the hands of its process thread, on a connection, received, in *)
(* the list at the other service and in the hands of the thread there.     *)
(* Staged says that one submitted later is never at a later stage than one *)
(* that leads it; InLine that at the same stage it is behind.  Once and    *)
(* PutBack are what the two need of the history variables.                 *)
(***************************************************************************)
Precedes(s, q, a, b) ==
  \E i, j \in DOMAIN submitted[s][q] : i < j /\ submitted[s][q][i] = a /\ submitted[s][q][j] = b

\* a must arrive before b, if both do.
Leading == {ab \in Messages \X Messages :
  ab[1] \notin retried /\ \E s \in Services, q \in Queues : Precedes(s, q, ab[1], ab[2])}

\* No message of seq is behind one that it leads.
Lined(seq, lead) == \A i, j \in DOMAIN seq : <<seq[i].msg, seq[j].msg>> \in lead => i < j

Stage(s, p) == IF p.kind = "queue" THEN IF p.svc = s THEN 0 ELSE 4
               ELSE IF p.kind = "held" THEN IF p.svc = s THEN 1 ELSE 5
               ELSE IF p.kind = "wire" THEN 2 ELSE 3

OnTheMove(m) == place[m].kind \in Moving

\* p is at a later stage than r, or at the same; on an older connection.
NotBehind(s, p, r) == /\ Stage(s, r) <= Stage(s, p)
                      /\ p.kind = "wire" /\ r.kind = "wire" => p.n <= r.n

Once ==
  /\ \A s, t \in Services, q, r \in Queues : \A i \in DOMAIN submitted[s][q], j \in DOMAIN submitted[t][r] :
       submitted[s][q][i] = submitted[t][r][j] => s = t /\ q = r /\ i = j
  /\ \A s \in Services, q \in Queues, m \in Messages : m \in From(s, q) => place[m] # Fresh

PutBack == \A s \in Services, q \in Queues : pc[s][q] = "requeue" => held[s][q] \in retried

Staged ==
  \A s \in Services, q \in Queues : \A a, b \in Messages :
    b \in From(s, q) /\ <<a, b>> \in Leading /\ OnTheMove(a) /\ OnTheMove(b)
      => NotBehind(s, place[a], place[b])

InLine ==
  /\ \A s \in Services, q \in Queues : Lined(elements[s][q], Leading)
  /\ \A s \in Services, c \in Conns : Lined(wire[s][c], Leading)
  /\ \A s \in Services : Lined(inbuf[s], Leading)

OrderInv == Once /\ PutBack /\ Staged /\ InLine

\* What the invariants say together of where a message of a channel is.
FateInv == TypeOK /\ Agree /\ Accounted /\ OnItsWay /\ Once

LEMMA OrderInit == Init => OrderInv
  <1> SUFFICES ASSUME Init PROVE OrderInv
    OBVIOUS
  <1>1. \A s \in Services, q \in Queues : submitted[s][q] = <<>> /\ From(s, q) = {}
    BY DEF Init, From, Range
  <1>2. Once /\ PutBack /\ Staged
    BY <1>1 DEF Init, Once, PutBack, Staged
  <1>3. InLine
    BY DEF Init, LinkInit, InLine, Lined
  <1> QED
    BY <1>2, <1>3 DEF OrderInv

\* A message belongs to one channel.
LEMMA OneChannel ==
  ASSUME TypeOK, Once
  PROVE  /\ \A s, t \in Services, q, r \in Queues : \A m :
              m \in From(s, q) /\ m \in From(t, r) => s = t /\ q = r
         /\ \A s \in Services, q \in Queues : From(s, q) \subseteq Messages
  <1>1. \A s \in Services, q \in Queues : submitted[s][q] \in Seq(Messages)
    BY DEF TypeOK, PathTypeOK
  <1>2. \A s \in Services, q \in Queues : \A i \in DOMAIN submitted[s][q] : submitted[s][q][i] \in Messages
    BY <1>1, ElementOfSeq, LenProperties
  <1> QED
    BY <1>2 DEF Once, From, Range

\* The places of its way, and what they say.
LEMMA WhereIs ==
  ASSUME FateInv, NEW s \in Services, NEW q \in Queues, NEW m \in Messages, m \in From(s, q)
  PROVE  \/ place[m] = At("queue", s, q) /\ Holds(elements[s][q], m)
         \/ place[m] = At("held", s, q) /\ held[s][q] = m
         \/ \E c \in Conns : place[m] = At("wire", Other(s), c) /\ Holds(wire[Other(s)][c], m)
         \/ place[m] = At("inbuf", Other(s), NULL) /\ Holds(inbuf[Other(s)], m)
         \/ place[m] = At("queue", Other(s), q) /\ Holds(elements[Other(s)][q], m)
         \/ place[m] = At("held", Other(s), q) /\ held[Other(s)][q] = m
         \/ place[m] = At("delivered", Other(s), q) /\ HoldsPlain(delivered[Other(s)][q], m)
         \/ place[m] \in {Dropped, Lost}
  <1>1. \A t \in Services : t = s \/ t = Other(s)
    BY DEF Services, Other
  <1>2. \A t \in Services, r \in Queues :
          /\ m \in From(t, r) => t = s /\ r = q
          /\ m \in From(Other(t), r) => t = Other(s) /\ r = q
    BY OneChannel, OtherType DEF FateInv
  <1>3. place[m] # Fresh /\ Somewhere(m)
    BY DEF FateInv, Once, Accounted
  <1>4. ASSUME NEW t \in Services, NEW r \in Queues, Holds(elements[t][r], m)
        PROVE  r = q
    <2>1. PICK i \in DOMAIN elements[t][r] : elements[t][r][i].msg = m
      BY <1>4 DEF Holds
    <2>2. elements[t][r] \in Seq(ListOf(t, r))
      BY DEF FateInv, OnItsWay, InList
    <2>3. elements[t][r][i] \in ListOf(t, r)
      BY <2>2, ElementOfSeq, LenProperties
    <2> QED
      BY <1>2, <2>1, <2>3 DEF ListOf
  <1>5. ASSUME NEW t \in Services, NEW r \in Queues, held[t][r] = m
        PROVE  r = q
    <2>1. pc[t][r] \in {"toClient", "sendClient", "toService", "requeue"}
      BY <1>5, PathAssumption DEF FateInv, TypeOK, PathTypeOK
    <2> QED
      BY <1>2, <1>5, <2>1 DEF FateInv, OnItsWay, InHands
  <1>6. \A t \in Services : \A f \in FramesTo(t) : f.msg = m => t = Other(s)
    BY <1>2, PathAssumption DEF FramesTo
  <1>7. ASSUME NEW t \in Services, NEW c \in Conns, Holds(wire[t][c], m)
        PROVE  t = Other(s)
    <2>1. PICK i \in DOMAIN wire[t][c] : wire[t][c][i].msg = m
      BY <1>7 DEF Holds
    <2>2. wire[t][c] \in Seq(FramesTo(t))
      BY DEF FateInv, OnItsWay, InFrames
    <2>3. wire[t][c][i] \in FramesTo(t)
      BY <2>2, ElementOfSeq, LenProperties
    <2> QED
      BY <1>6, <2>1, <2>3
  <1>8. ASSUME NEW t \in Services, Holds(inbuf[t], m)
        PROVE  t = Other(s)
    <2>1. PICK i \in DOMAIN inbuf[t] : inbuf[t][i].msg = m
      BY <1>8 DEF Holds
    <2>2. inbuf[t] \in Seq(FramesTo(t))
      BY DEF FateInv, OnItsWay, InFrames
    <2>3. inbuf[t][i] \in FramesTo(t)
      BY <2>2, ElementOfSeq, LenProperties
    <2> QED
      BY <1>6, <2>1, <2>3
  <1>9. ASSUME NEW t \in Services, NEW r \in Queues, HoldsPlain(delivered[t][r], m)
        PROVE  t = Other(s) /\ r = q
    <2>1. PICK i \in DOMAIN delivered[t][r] : delivered[t][r][i] = m
      BY <1>9 DEF HoldsPlain
    <2>2. delivered[t][r] \in Seq(From(Other(t), r))
      BY DEF FateInv, OnItsWay, AtClient
    <2>3. delivered[t][r][i] \in From(Other(t), r)
      BY <2>2, ElementOfSeq, LenProperties
    <2> QED
      BY <1>2, <2>1, <2>3
  <1> QED
    BY <1>1, <1>3, <1>4, <1>5, <1>7, <1>8, <1>9 DEF Somewhere

\* The stages of the places.
LEMMA StageIs ==
  ASSUME NEW s \in Services
  PROVE  /\ \A q : Stage(s, At("queue", s, q)) = 0 /\ Stage(s, At("held", s, q)) = 1
         /\ \A c : Stage(s, At("wire", Other(s), c)) = 2
         /\ Stage(s, At("inbuf", Other(s), NULL)) = 3
         /\ \A q : Stage(s, At("queue", Other(s), q)) = 4 /\ Stage(s, At("held", Other(s), q)) = 5
  <1>1. Other(s) # s
    BY OtherType
  <1> QED
    BY <1>1, AtEqual DEF Stage

\* Where a message on the move is, by its stage.
LEMMA Stations ==
  ASSUME FateInv, NEW s \in Services, NEW q \in Queues, NEW m \in Messages, m \in From(s, q),
         OnTheMove(m)
  PROVE  /\ Stage(s, place[m]) \in 0..5
         /\ Stage(s, place[m]) = 0 => place[m] = At("queue", s, q) /\ Holds(elements[s][q], m)
         /\ Stage(s, place[m]) = 1 => place[m] = At("held", s, q) /\ held[s][q] = m
         /\ Stage(s, place[m]) = 2 =>
              \E c \in Conns : place[m] = At("wire", Other(s), c) /\ Holds(wire[Other(s)][c], m)
         /\ Stage(s, place[m]) = 3 =>
              place[m] = At("inbuf", Other(s), NULL) /\ Holds(inbuf[Other(s)], m)
         /\ Stage(s, place[m]) = 4 =>
              place[m] = At("queue", Other(s), q) /\ Holds(elements[Other(s)][q], m)
         /\ Stage(s, place[m]) = 5 => place[m] = At("held", Other(s), q) /\ held[Other(s)][q] = m
  <1> DEFINE o == Other(s)
  <1>1. /\ place[m] # At("delivered", o, q)
        /\ place[m] \notin {Dropped, Lost}
    BY AtEqual DEF OnTheMove, Moving, Dropped, Lost
  <1>2. \/ place[m] = At("queue", s, q) /\ Holds(elements[s][q], m) /\ Stage(s, place[m]) = 0
        \/ place[m] = At("held", s, q) /\ held[s][q] = m /\ Stage(s, place[m]) = 1
        \/ /\ \E c \in Conns : place[m] = At("wire", o, c) /\ Holds(wire[o][c], m)
           /\ Stage(s, place[m]) = 2
        \/ place[m] = At("inbuf", o, NULL) /\ Holds(inbuf[o], m) /\ Stage(s, place[m]) = 3
        \/ place[m] = At("queue", o, q) /\ Holds(elements[o][q], m) /\ Stage(s, place[m]) = 4
        \/ place[m] = At("held", o, q) /\ held[o][q] = m /\ Stage(s, place[m]) = 5
    BY <1>1, WhereIs, StageIs
  <1> HIDE DEF o
  <1>3. /\ \A n \in 0..5 : n \in Nat /\ (n = 0 \/ n = 1 \/ n = 2 \/ n = 3 \/ n = 4 \/ n = 5)
        /\ 0 \in 0..5 /\ 1 \in 0..5 /\ 2 \in 0..5 /\ 3 \in 0..5 /\ 4 \in 0..5 /\ 5 \in 0..5
    OBVIOUS
  <1> QED
    BY <1>2, <1>3 DEF o

\* Leading only relates messages of one channel, and none to itself.
LEMMA LeadingFacts ==
  ASSUME TypeOK, Once
  PROVE  /\ \A a : <<a, a>> \notin Leading
         /\ \A a, b : <<a, b>> \in Leading =>
              /\ a \in Messages /\ b \in Messages /\ a \notin retried
              /\ \E s \in Services, q \in Queues : a \in From(s, q) /\ b \in From(s, q)
         /\ \A s \in Services, q \in Queues : \A a, b :
              <<a, b>> \in Leading => (a \in From(s, q) <=> b \in From(s, q))
  <1>1. \A s \in Services, q \in Queues : DOMAIN submitted[s][q] \subseteq Nat
    <2>1. \A s \in Services, q \in Queues : submitted[s][q] \in Seq(Messages)
      BY DEF TypeOK, PathTypeOK
    <2> QED
      BY <2>1, LenProperties
  <1>2. ASSUME NEW s \in Services, NEW q \in Queues, NEW a, NEW b, Precedes(s, q, a, b)
        PROVE  a # b /\ a \in From(s, q) /\ b \in From(s, q)
    <2>1. PICK i, j \in DOMAIN submitted[s][q] :
            i < j /\ submitted[s][q][i] = a /\ submitted[s][q][j] = b
      BY <1>2 DEF Precedes
    <2>2. i \in Nat /\ j \in Nat /\ i # j
      BY <1>1, <2>1
    <2> QED
      BY <2>1, <2>2 DEF Once, From, Range
  <1>3. \A a, b : <<a, b>> \in Leading =>
          /\ a \in Messages /\ b \in Messages /\ a \notin retried
          /\ \E s \in Services, q \in Queues : Precedes(s, q, a, b)
    BY DEF Leading
  <1> QED
    BY <1>2, <1>3, OneChannel

LEMMA LeadingShrinks ==
  ASSUME submitted' = submitted, retried \subseteq retried'
  PROVE  Leading' \subseteq Leading
BY DEF Leading, Precedes

\* How the steps change a container, and that it stays in line.
LEMMA LinedPart ==
  ASSUME NEW seq, NEW new, NEW lead, NEW less, less \subseteq lead, Lined(seq, lead),
         \A i \in DOMAIN new : i \in DOMAIN seq /\ new[i] = seq[i]
  PROVE  Lined(new, less)
BY DEF Lined

LEMMA LinedTail ==
  ASSUME NEW S, NEW seq \in Seq(S), seq # <<>>, NEW lead, Lined(seq, lead)
  PROVE  /\ Lined(Tail(seq), lead)
         /\ \A m : Holds(seq, m) => <<m, Head(seq).msg>> \notin lead
  <1>1. /\ Len(seq) \in Nat \ {0} /\ DOMAIN seq = 1..Len(seq)
        /\ DOMAIN Tail(seq) = 1..(Len(seq) - 1)
        /\ \A i \in 1..(Len(seq) - 1) : Tail(seq)[i] = seq[i + 1]
        /\ Head(seq) = seq[1]
    BY TailIndex
  <1>2. \A i \in 1..(Len(seq) - 1) : i + 1 \in 1..Len(seq) /\ i \in Nat
    BY <1>1
  <1>3. \A i, j \in 1..(Len(seq) - 1) : i + 1 < j + 1 => i < j
    BY <1>1
  <1>4. Lined(Tail(seq), lead)
    BY <1>1, <1>2, <1>3 DEF Lined
  <1>5. 1 \in DOMAIN seq /\ \A i \in DOMAIN seq : ~(i < 1)
    BY <1>1
  <1> QED
    BY <1>1, <1>4, <1>5 DEF Lined, Holds

LEMMA LinedAppend ==
  ASSUME NEW S, NEW seq \in Seq(S), NEW e \in S, NEW lead, Lined(seq, lead),
         \A i \in DOMAIN seq : <<e.msg, seq[i].msg>> \notin lead,
         <<e.msg, e.msg>> \notin lead
  PROVE  Lined(Append(seq, e), lead)
  <1>1. /\ Len(seq) \in Nat /\ DOMAIN seq = 1..Len(seq)
        /\ DOMAIN Append(seq, e) = 1..(Len(seq) + 1)
        /\ \A i \in 1..(Len(seq) + 1) : Append(seq, e)[i] = IF i = Len(seq) + 1 THEN e ELSE seq[i]
    BY AppendIndex
  <1>2. \A i \in 1..(Len(seq) + 1) : i \in 1..Len(seq) \/ i = Len(seq) + 1
    BY <1>1
  <1>3. \A i \in 1..Len(seq) : i < Len(seq) + 1
    BY <1>1
  <1> QED
    BY <1>1, <1>2, <1>3 DEF Lined

LEMMA LinedSplit ==
  ASSUME NEW S, NEW seq \in Seq(S), NEW k \in 0..Len(seq), NEW lead, Lined(seq, lead)
  PROVE  Lined(SubSeq(seq, 1, k), lead) /\ Lined(SubSeq(seq, k + 1, Len(seq)), lead)
  <1> DEFINE u == SubSeq(seq, 1, k)
             v == SubSeq(seq, k + 1, Len(seq))
  <1>1. /\ Len(seq) \in Nat /\ DOMAIN seq = 1..Len(seq) /\ k \in Nat /\ k <= Len(seq)
        /\ DOMAIN u = 1..k /\ DOMAIN v = 1..(Len(seq) - k)
        /\ \A i \in 1..k : u[i] = seq[i]
        /\ \A i \in 1..(Len(seq) - k) : v[i] = seq[k + i]
    BY SplitType, LenProperties
  <1> HIDE DEF u, v
  <1>2. /\ \A i \in 1..k : i \in DOMAIN seq
        /\ \A i \in 1..(Len(seq) - k) : k + i \in DOMAIN seq /\ i \in Nat
        /\ \A i, j \in 1..(Len(seq) - k) : k + i < k + j => i < j
    BY <1>1
  <1>3. Lined(u, lead)
    BY <1>1, <1>2 DEF Lined
  <1>4. Lined(v, lead)
    BY <1>1, <1>2 DEF Lined
  <1> QED
    BY <1>3, <1>4 DEF u, v

\* What a step does to the history: it submits a message, delivers one, puts
\* one back, or moves messages on; what is settled stays so.
LEMMA Effects ==
  ASSUME TypeOK, Agree, [Next]_vars
  PROVE  \/ \E s \in Services, h \in Sockets, q \in Queues, m \in Messages : Submit(s, h, q, m)
         \/ \E s \in Services, q \in Queues : SendToClient(s, q)
         \/ \E s \in Services, q \in Queues : ForwardFails(s, q)
         \/ /\ UNCHANGED <<submitted, delivered, retried>>
            /\ \A m \in Messages : place'[m] = place[m] \/ (OnTheMove(m) /\ place'[m].kind \in Moving \cup {"dropped", "lost"})
  <1> DEFINE Same == UNCHANGED <<submitted, delivered, retried>>
             On(m) == place'[m] = place[m] \/ (OnTheMove(m) /\ place'[m].kind \in Moving \cup {"dropped", "lost"})
             Moves == Same /\ \A m \in Messages : On(m)
  <1>1. place \in [Messages -> Places]
    BY DEF TypeOK, PathTypeOK
  <1>2. ASSUME Same, place' = place PROVE Moves
    BY <1>2
  <1>3. ASSUME Same, NEW x \in Messages, NEW r, OnTheMove(x), r.kind \in Moving \cup {"dropped", "lost"},
               place' = [place EXCEPT ![x] = r]
        PROVE  Moves
    BY <1>1, <1>3
  <1>4. /\ \A s, n : \A k \in Moving : At(k, s, n).kind \in Moving \cup {"dropped", "lost"}
        /\ \A s, n : At("wire", s, n).kind \in Moving /\ At("inbuf", s, n).kind \in Moving
                     /\ At("queue", s, n).kind \in Moving /\ At("held", s, n).kind \in Moving
        /\ {Dropped.kind, Lost.kind} \subseteq Moving \cup {"dropped", "lost"}
    BY AtEqual DEF Moving, Dropped, Lost
  <1>5. ASSUME Same, NEW s \in Services, NEW C, place' = LoseWire(s, C)
        PROVE  Moves
    BY <1>4, <1>5 DEF LoseWire, OnTheMove
  <1>6. CASE PathStart
    BY <1>2, <1>6 DEF PathStart, pathVars
  <1>7. CASE PathAccept
    <2>1. Same /\ HOST \in Services /\ \E C : place' = LoseWire(HOST, C)
      BY <1>7 DEF PathAccept, Services
    <2> QED
      BY <1>5, <2>1
  <1>8. ASSUME NEW s \in Services, PathRecvThread(s) PROVE Moves
    <2>1. CASE PathSelect(s)
      BY <1>2, <2>1 DEF PathSelect, pathVars
    <2>2. CASE PathRecv(s)
      <3>1. PICK k \in 1..Len(wire[s][sock[s]]) : inbuf' = [inbuf EXCEPT ![s] = SubSeq(wire[s][sock[s]], 1, k)]
        BY <2>2 DEF PathRecv, RecvFrames
      <3>2. sock[s] \in Conns /\ wire[s][sock[s]] \in Seq(Frames)
        BY <2>2 DEF PathRecv, RecvFrames, TypeOK, LinkTypeOK
      <3>3. k \in 0..Len(wire[s][sock[s]])
        BY <3>1
      <3>4. \A i \in DOMAIN inbuf'[s] : /\ i \in DOMAIN wire[s][sock[s]]
                                        /\ inbuf'[s][i] = wire[s][sock[s]][i]
        <4>1. inbuf'[s] = SubSeq(wire[s][sock[s]], 1, k)
          BY <3>1 DEF TypeOK, LinkTypeOK
        <4>2. /\ DOMAIN SubSeq(wire[s][sock[s]], 1, k) = 1..k
              /\ \A i \in 1..k : SubSeq(wire[s][sock[s]], 1, k)[i] = wire[s][sock[s]][i]
          BY <3>2, <3>3, SplitType, LenProperties
        <4>3. DOMAIN wire[s][sock[s]] = 1..Len(wire[s][sock[s]]) /\ Len(wire[s][sock[s]]) \in Nat
          BY <3>2, LenProperties
        <4>4. 1..k \subseteq 1..Len(wire[s][sock[s]])
          BY <3>3, <4>3
        <4> QED
          BY <4>1, <4>2, <4>3, <4>4
      <3>5. \A m \in Messages : (\E i \in DOMAIN inbuf'[s] : inbuf'[s][i].msg = m) => OnTheMove(m)
        BY <1>4, <3>2, <3>4 DEF Agree, WireAgree, Keeps, OnTheMove
      <3>6. \A m \in Messages : place'[m] = place[m] \/ (OnTheMove(m) /\ place'[m] = At("inbuf", s, NULL))
        BY <2>2, <3>5 DEF PathRecv
      <3>7. Same
        BY <2>2 DEF PathRecv
      <3> QED
        BY <1>4, <3>6, <3>7 DEF Moving
    <2>3. CASE StoreMessage(s)
      <3>1. inbuf[s] \in Seq(Frames) /\ inbuf[s] # <<>>
        BY <2>3 DEF StoreMessage, HandleFrame, TypeOK, LinkTypeOK
      <3>2. Head(inbuf[s]) = inbuf[s][1] /\ 1 \in DOMAIN inbuf[s]
        BY <3>1, TailIndex
      <3>3. OnTheMove(Head(inbuf[s]).msg) /\ Head(inbuf[s]).msg \in Messages
        BY <1>4, <3>2, EntryTypes DEF Agree, InbufAgree, Keeps, OnTheMove
      <3>4. Same /\ \E q : place' = [place EXCEPT ![Head(inbuf[s]).msg] = At("queue", s, q)]
        BY <2>3 DEF StoreMessage
      <3> QED
        BY <1>3, <1>4, <3>3, <3>4
    <2>4. CASE PathClose(s)
      BY <1>5, <2>4 DEF PathClose
    <2> QED
      BY <1>8, <2>1, <2>2, <2>3, <2>4 DEF PathRecvThread
  <1>9. ASSUME NEW s \in Services, NEW q \in Queues, ProcessThread(s, q),
               ~SendToClient(s, q), ~ForwardFails(s, q)
        PROVE  Moves
    <2>1. CASE Take(s, q)
      <3>1. elements[s][q] \in Seq(Element) /\ elements[s][q] # <<>>
        BY <2>1 DEF Take, TypeOK, PathTypeOK
      <3>2. Head(elements[s][q]) = elements[s][q][1] /\ 1 \in DOMAIN elements[s][q]
            /\ Head(elements[s][q]).msg \in Messages
        <4>1. /\ Head(elements[s][q]) = elements[s][q][1] /\ 1 \in DOMAIN elements[s][q]
              /\ Head(elements[s][q]) \in Element
          BY <3>1, TailIndex
        <4> QED
          BY <4>1 DEF Element
      <3>3. OnTheMove(Head(elements[s][q]).msg)
        BY <1>4, <3>2 DEF Agree, QueueAgree, Keeps, OnTheMove
      <3>4. Same /\ place' = [place EXCEPT ![Head(elements[s][q]).msg] = At("held", s, q)]
        BY <2>1 DEF Take
      <3> QED
        BY <1>3, <1>4, <3>2, <3>3, <3>4
    <2>2. CASE ReadClient(s, q)
      BY <1>2, <2>2 DEF ReadClient
    <2>3. CASE DropUnclaimed(s, q) \/ SendToClientFails(s, q) \/ Forward(s, q) \/ ForwardLost(s, q) \/ Requeue(s, q)
      <3>1. pc[s][q] # "idle"
        BY <2>3 DEF DropUnclaimed, SendToClientFails, Forward, ForwardLost, Requeue
      <3>2. held[s][q] \in Messages /\ held[s][q] # NoMsg
        BY <3>1 DEF TypeOK, PathTypeOK
      <3>3. OnTheMove(held[s][q])
        BY <1>4, <3>2 DEF Agree, HeldAgree, OnTheMove
      <3>4. PICK r \in {Dropped, Lost, At("wire", Other(s), sock[s]), At("queue", s, q)} :
              place' = [place EXCEPT ![held[s][q]] = r]
        BY <2>3 DEF DropUnclaimed, SendToClientFails, Forward, ForwardLost, Requeue
      <3>5. Same
        BY <2>3 DEF DropUnclaimed, SendToClientFails, Forward, ForwardLost, Requeue
      <3>6. r.kind \in Moving \cup {"dropped", "lost"}
        BY <1>4
      <3> QED
        BY <1>3, <3>2, <3>3, <3>4, <3>5, <3>6
    <2> QED
      BY <1>9, <2>1, <2>2, <2>3 DEF ProcessThread
  <1>10. ASSUME NEW s \in Services, NEW h \in Sockets, ClientStep(s, h),
                ~\E q \in Queues, m \in Messages : Submit(s, h, q, m)
         PROVE  Moves
    BY <1>2, <1>10 DEF ClientStep, OpenClient, CloseClient, CleanupClient, ConnectToQueue
  <1>11. ASSUME NEW s \in Services, NEW k \in 0..WireCap, PathCrash(s, k)
         PROVE  Moves
    <2>1. Same /\ Other(s) \in Services
      BY <1>11, OtherType DEF PathCrash
    <2>2. ends[s] \subseteq Conns
      BY DEF TypeOK, LinkTypeOK
    <2>3. \A m \in Messages : \A c \in ends[s] : \A i \in DOMAIN wire[Other(s)][c] :
            wire[Other(s)][c][i].msg = m => OnTheMove(m)
      BY <1>4, <2>1, <2>2 DEF Agree, WireAgree, Keeps, OnTheMove
    <2>4. \A m \in Messages : place'[m] = place[m] \/ (OnTheMove(m) /\ place'[m] = Lost)
      BY <1>11, <2>3 DEF PathCrash, OnTheMove
    <2> QED
      BY <1>4, <2>1, <2>4
  <1>12. CASE UNCHANGED vars
    BY <1>2, <1>12 DEF vars, pathVars
  <1> QED
    BY <1>6, <1>7, <1>8, <1>9, <1>10, <1>11, <1>12 DEF Next

LEMMA PutBackNext == TypeOK /\ PutBack /\ [Next]_vars => PutBack'
  <1> SUFFICES ASSUME TypeOK, PutBack, [Next]_vars PROVE PutBack'
    OBVIOUS
  <1>1. ASSUME retried \subseteq retried',
               \A t \in Services, r \in Queues :
                 pc'[t][r] = "requeue" => pc[t][r] = "requeue" /\ held'[t][r] = held[t][r]
        PROVE  PutBack'
    BY <1>1 DEF PutBack
  <1>2. CASE UNCHANGED <<pc, held, retried>>
    BY <1>2 DEF PutBack
  <1>3. ASSUME NEW s \in Services, NEW q \in Queues, ProcessThread(s, q) PROVE PutBack'
    <2>1. CASE ForwardFails(s, q)
      BY <2>1 DEF ForwardFails, PutBack, TypeOK, PathTypeOK
    <2>2. CASE Take(s, q)
      BY <1>1, <2>2 DEF Take, TypeOK, PathTypeOK
    <2>3. CASE ReadClient(s, q)
      BY <1>1, <2>3 DEF ReadClient, TypeOK, PathTypeOK
    <2>4. CASE Release(s, q) /\ retried' = retried
      BY <1>1, <2>4 DEF Release, TypeOK, PathTypeOK
    <2> QED
      BY <1>3, <2>1, <2>2, <2>3, <2>4
         DEF ProcessThread, DropUnclaimed, SendToClient, SendToClientFails, Forward, ForwardLost, Requeue
  <1>4. ASSUME NEW s \in Services, NEW k \in 0..WireCap, PathCrash(s, k) PROVE PutBack'
    BY <1>1, <1>4 DEF PathCrash, TypeOK, PathTypeOK
  <1>5. CASE PathStart \/ PathAccept \/ (\E s \in Services : PathRecvThread(s)) \/ UNCHANGED vars
    BY <1>2, <1>5 DEF PathStart, PathAccept, PathRecvThread, PathSelect, PathRecv, StoreMessage,
                      PathClose, pathVars, threadVars, vars
  <1>6. ASSUME NEW s \in Services, NEW h \in Sockets, ClientStep(s, h) PROVE PutBack'
    BY <1>2, <1>6 DEF ClientStep, OpenClient, CloseClient, CleanupClient, ConnectToQueue, Submit, threadVars
  <1> QED
    BY <1>3, <1>4, <1>5, <1>6 DEF Next

\* The history of its channel gets one longer, by a message that was in none.
LEMMA SubmitEffect ==
  ASSUME TypeOK, Once, NEW s \in Services, NEW h \in Sockets, NEW q \in Queues,
         NEW m \in Messages, Submit(s, h, q, m)
  PROVE  /\ \A t \in Services, r \in Queues : m \notin From(t, r)
         /\ Len(submitted[s][q]) + 1 \in DOMAIN submitted'[s][q]
         /\ submitted'[s][q][Len(submitted[s][q]) + 1] = m
         /\ \A i \in DOMAIN submitted[s][q] : i \in Nat /\ i < Len(submitted[s][q]) + 1
         /\ \A t \in Services, r \in Queues : \A i \in DOMAIN submitted'[t][r] :
              \/ t = s /\ r = q /\ i = Len(submitted[s][q]) + 1
              \/ i \in DOMAIN submitted[t][r] /\ submitted'[t][r][i] = submitted[t][r][i]
  <1> DEFINE n == Len(submitted[s][q]) + 1
  <1>1. submitted[s][q] \in Seq(Messages)
    BY DEF TypeOK, PathTypeOK
  <1>2. \A t \in Services, r \in Queues : m \notin From(t, r)
    BY DEF Submit, Once
  <1>3. submitted' = [submitted EXCEPT ![s][q] = Append(submitted[s][q], m)]
    BY DEF Submit
  <1>4. /\ submitted'[s][q] = Append(submitted[s][q], m)
        /\ \A t \in Services, r \in Queues : t # s \/ r # q => submitted'[t][r] = submitted[t][r]
    BY <1>3 DEF TypeOK, PathTypeOK
  <1>5. /\ DOMAIN submitted[s][q] = 1..Len(submitted[s][q]) /\ Len(submitted[s][q]) \in Nat
        /\ DOMAIN submitted'[s][q] = 1..n
        /\ \A i \in 1..n : submitted'[s][q][i] = IF i = n THEN m ELSE submitted[s][q][i]
    BY <1>1, <1>4, AppendIndex
  <1>6. /\ n \in 1..n /\ \A i \in 1..n : i = n \/ i \in 1..Len(submitted[s][q])
        /\ \A i \in 1..Len(submitted[s][q]) : i \in Nat /\ i < n /\ i # n
    BY <1>5
  <1> HIDE DEF n
  <1>7. \A i \in DOMAIN submitted'[s][q] :
          i = n \/ (i \in DOMAIN submitted[s][q] /\ submitted'[s][q][i] = submitted[s][q][i])
    BY <1>5, <1>6
  <1>8. n \in DOMAIN submitted'[s][q] /\ submitted'[s][q][n] = m
    BY <1>5, <1>6
  <1>9. \A t \in Services, r \in Queues : \A i \in DOMAIN submitted'[t][r] :
          \/ t = s /\ r = q /\ i = n
          \/ i \in DOMAIN submitted[t][r] /\ submitted'[t][r][i] = submitted[t][r][i]
    BY <1>4, <1>7
  <1> QED
    BY <1>2, <1>5, <1>6, <1>8, <1>9 DEF n

LEMMA OnceNext == TypeOK /\ Agree /\ Once /\ [Next]_vars => Once'
  <1> SUFFICES ASSUME TypeOK, Agree, Once, [Next]_vars PROVE Once'
    OBVIOUS
  <1>1. \A k, s, n : k # "fresh" => At(k, s, n) # Fresh
    BY AtEqual DEF Fresh
  <1>2. \A s \in Services, q \in Queues : \A i \in DOMAIN submitted[s][q] : submitted[s][q][i] \in From(s, q)
    BY DEF From, Range
  <1>3. ASSUME NEW s \in Services, NEW h \in Sockets, NEW q \in Queues, NEW m \in Messages,
               Submit(s, h, q, m)
        PROVE  Once'
    <2> DEFINE n == Len(submitted[s][q]) + 1
    <2>1. /\ n \in DOMAIN submitted'[s][q] /\ submitted'[s][q][n] = m
          /\ \A t \in Services, r \in Queues : \A i \in DOMAIN submitted'[t][r] :
               \/ t = s /\ r = q /\ i = n /\ submitted'[t][r][i] = m
               \/ i \in DOMAIN submitted[t][r] /\ submitted'[t][r][i] = submitted[t][r][i]
      <3>1. /\ Len(submitted[s][q]) + 1 \in DOMAIN submitted'[s][q]
            /\ submitted'[s][q][Len(submitted[s][q]) + 1] = m
            /\ \A t \in Services, r \in Queues : \A i \in DOMAIN submitted'[t][r] :
                 \/ t = s /\ r = q /\ i = Len(submitted[s][q]) + 1
                 \/ i \in DOMAIN submitted[t][r] /\ submitted'[t][r][i] = submitted[t][r][i]
        BY <1>3, SubmitEffect
      <3> QED
        BY <3>1
    <2>2. \A t \in Services, r \in Queues : m \notin From(t, r)
      BY <1>3, SubmitEffect
    <2> HIDE DEF n
    <2>3. \A t, u \in Services, r, p \in Queues :
            \A i \in DOMAIN submitted'[t][r], j \in DOMAIN submitted'[u][p] :
              submitted'[t][r][i] = submitted'[u][p][j] => t = u /\ r = p /\ i = j
      BY <1>2, <2>1, <2>2 DEF Once
    <2>4. \A t \in Services, r \in Queues, x \in Messages : x \in From(t, r)' => place'[x] # Fresh
      <3>1. \A t \in Services, r \in Queues, x \in Messages : x \in From(t, r)' => x = m \/ x \in From(t, r)
        BY <2>1 DEF From, Range
      <3>2. \A x \in Messages : place'[x] = IF x = m THEN At("queue", s, q) ELSE place[x]
        BY <1>3 DEF Submit, TypeOK, PathTypeOK
      <3> QED
        BY <1>1, <3>1, <3>2 DEF Once
    <2> QED
      BY <2>3, <2>4 DEF Once
  <1>4. ASSUME submitted' = submitted,
               \A m \in Messages : place'[m] = place[m] \/ place'[m].kind # "fresh"
        PROVE  Once'
    BY <1>4, AtEqual DEF Once, From, Fresh
  <1>5. ASSUME NEW s \in Services, NEW q \in Queues, SendToClient(s, q) \/ ForwardFails(s, q)
        PROVE  Once'
    <2>1. submitted' = submitted
      BY <1>5 DEF SendToClient, ForwardFails
    <2>2. \A m \in Messages : place'[m] = place[m] \/ place'[m] = At("delivered", s, q)
      BY <1>5 DEF SendToClient, ForwardFails, Delivered, TypeOK, PathTypeOK
    <2> QED
      BY <1>4, <2>1, <2>2, AtEqual
  <1>6. CASE /\ submitted' = submitted
             /\ \A m \in Messages : place'[m] = place[m] \/ place'[m].kind \in Moving \cup {"dropped", "lost"}
    BY <1>4, <1>6 DEF Moving
  <1> QED
    BY <1>3, <1>5, <1>6, Effects

LEMMA StageNumber ==
  \A s, p : Stage(s, p) \in 0..5 /\ (p.kind = "wire" => Stage(s, p) = 2)
BY DEF Stage

\* A message goes on to a later stage, and what leads it is not behind it there.
LEMMA StagedForward ==
  ASSUME FateInv, Staged, submitted' = submitted, retried \subseteq retried',
         NEW t \in Services, NEW p \in Queues, NEW x \in Messages, x \in From(t, p), OnTheMove(x),
         NEW r, place' = [place EXCEPT ![x] = r], Stage(t, place[x]) < Stage(t, r),
         \A a \in Messages : <<a, x>> \in Leading /\ OnTheMove(a) => NotBehind(t, place[a], r)
  PROVE  Staged'
  <1> SUFFICES ASSUME NEW s \in Services, NEW q \in Queues, NEW a \in Messages, NEW b \in Messages,
                      b \in From(s, q)', (<<a, b>> \in Leading)', OnTheMove(a)', OnTheMove(b)'
               PROVE  NotBehind(s, place'[a], place'[b])
    BY DEF Staged, NotBehind, Stage
  <1>1. /\ TypeOK /\ Once
        /\ \A m \in Messages : place'[m] = IF m = x THEN r ELSE place[m]
    BY DEF FateInv, TypeOK, PathTypeOK
  <1>2. b \in From(s, q) /\ <<a, b>> \in Leading
    BY LeadingShrinks DEF From
  <1>3. a # b /\ a \in From(s, q)
    BY <1>1, <1>2, LeadingFacts
  <1>4. OnTheMove(a) /\ OnTheMove(b)
    BY <1>1 DEF OnTheMove
  <1>5. NotBehind(s, place[a], place[b])
    BY <1>2, <1>4 DEF Staged
  <1>6. x \in From(s, q) => s = t /\ q = p
    BY <1>1, OneChannel
  <1>7. CASE a # x /\ b # x
    BY <1>1, <1>5, <1>7
  <1>8. CASE a = x
    <2>1. place'[a] = r /\ place'[b] = place[b] /\ s = t
      BY <1>1, <1>3, <1>6, <1>8
    <2>2. Stage(t, place[b]) <= Stage(t, place[x])
      BY <1>5, <1>8, <2>1 DEF NotBehind
    <2>3. Stage(t, place[b]) < Stage(t, r)
      <3>1. \A i, j, k \in 0..5 : i <= j /\ j < k => i < k
        OBVIOUS
      <3> QED
        BY <2>2, <3>1, StageNumber
    <2>4. Stage(t, place[b]) <= Stage(t, r) /\ ~(place[b].kind = "wire" /\ r.kind = "wire")
      BY <2>3, StageNumber
    <2> QED
      BY <2>1, <2>4 DEF NotBehind
  <1>9. CASE b = x
    BY <1>1, <1>2, <1>3, <1>4, <1>6, <1>9
  <1> QED
    BY <1>3, <1>7, <1>8, <1>9

\* The sequences stay in line if those that change are in line afterwards.
LEMMA InLineStep ==
  ASSUME InLine, Leading' \subseteq Leading,
         \A s \in Services, q \in Queues :
           elements'[s][q] = elements[s][q] \/ Lined(elements'[s][q], Leading),
         \A s \in Services, c \in Conns : wire'[s][c] = wire[s][c] \/ Lined(wire'[s][c], Leading),
         \A s \in Services : inbuf'[s] = inbuf[s] \/ Lined(inbuf'[s], Leading)
  PROVE  InLine'
  <1>1. \A seq : Lined(seq, Leading) => Lined(seq, Leading')
    BY DEF Lined
  <1> QED
    BY <1>1 DEF InLine

\* Steps that move no message on, and that may cut off the ends of sequences.
LEMMA OrderKeep ==
  ASSUME FateInv, Staged, InLine, submitted' = submitted, retried \subseteq retried',
         \A m \in Messages : place'[m] = place[m] \/ place'[m].kind \notin Moving,
         \A s \in Services, q \in Queues : \A i \in DOMAIN elements'[s][q] :
           i \in DOMAIN elements[s][q] /\ elements'[s][q][i] = elements[s][q][i],
         \A s \in Services, c \in Conns : \A i \in DOMAIN wire'[s][c] :
           i \in DOMAIN wire[s][c] /\ wire'[s][c][i] = wire[s][c][i],
         \A s \in Services : \A i \in DOMAIN inbuf'[s] :
           i \in DOMAIN inbuf[s] /\ inbuf'[s][i] = inbuf[s][i]
  PROVE  Staged' /\ InLine'
  <1>1. Leading' \subseteq Leading
    BY LeadingShrinks
  <1>2. Staged'
    <2> SUFFICES ASSUME NEW s \in Services, NEW q \in Queues, NEW a \in Messages, NEW b \in Messages,
                        b \in From(s, q)', (<<a, b>> \in Leading)', OnTheMove(a)', OnTheMove(b)'
                 PROVE  NotBehind(s, place'[a], place'[b])
      BY DEF Staged, NotBehind, Stage
    <2>1. b \in From(s, q) /\ <<a, b>> \in Leading
      BY <1>1 DEF From
    <2>2. place'[a] = place[a] /\ place'[b] = place[b] /\ OnTheMove(a) /\ OnTheMove(b)
      BY DEF OnTheMove
    <2> QED
      BY <2>1, <2>2 DEF Staged
  <1>3. \A s \in Services, q \in Queues : Lined(elements'[s][q], Leading)
    BY LinedPart DEF InLine
  <1>4. \A s \in Services, c \in Conns : Lined(wire'[s][c], Leading)
    BY LinedPart DEF InLine
  <1>5. \A s \in Services : Lined(inbuf'[s], Leading)
    BY LinedPart DEF InLine
  <1> QED
    BY <1>1, <1>2, <1>3, <1>4, <1>5, InLineStep

\* A submitted message leads none; those of its channel lead it.
LEMMA LeadingSubmit ==
  ASSUME TypeOK, Once, NEW s \in Services, NEW h \in Sockets, NEW q \in Queues,
         NEW m \in Messages, Submit(s, h, q, m)
  PROVE  /\ \A a, b : <<a, b>> \in Leading' => <<a, b>> \in Leading \/ (b = m /\ a # m)
         /\ \A b : <<m, b>> \notin Leading'
         /\ \A t \in Services, r \in Queues : \A x : x \in From(t, r)' => x = m \/ x \in From(t, r)
  <1> DEFINE n == Len(submitted[s][q]) + 1
  <1>1. /\ submitted'[s][q][n] = m
        /\ \A t \in Services, r \in Queues : \A i \in DOMAIN submitted'[t][r] :
             \/ t = s /\ r = q /\ i = n
             \/ i \in DOMAIN submitted[t][r] /\ submitted'[t][r][i] = submitted[t][r][i]
    BY SubmitEffect
  <1>2. \A i \in DOMAIN submitted[s][q] : i \in Nat /\ i < n
    BY SubmitEffect
  <1>3. \A t \in Services, r \in Queues : m \notin From(t, r)
    BY SubmitEffect
  <1>4. \A t \in Services, r \in Queues : \A i \in DOMAIN submitted[t][r] : submitted[t][r][i] # m
    BY <1>3 DEF From, Range
  <1>5. n \in Nat
    BY LenProperties DEF TypeOK, PathTypeOK
  <1>6. retried' = retried
    BY DEF Submit
  <1> HIDE DEF n
  <1>7. ASSUME NEW t \in Services, NEW r \in Queues, NEW a, NEW b, Precedes(t, r, a, b)'
        PROVE  a # m /\ (b = m \/ Precedes(t, r, a, b))
    <2>1. PICK i, j \in DOMAIN submitted'[t][r] :
            i < j /\ submitted'[t][r][i] = a /\ submitted'[t][r][j] = b
      BY <1>7 DEF Precedes
    <2>2. CASE t = s /\ r = q /\ i = n
      <3>1. CASE j = n
        BY <2>1, <2>2, <3>1, <1>5
      <3>2. CASE j \in DOMAIN submitted[s][q]
        <4>1. j \in Nat /\ j < n
          BY <1>2, <3>2
        <4> QED
          BY <1>5, <2>1, <2>2, <4>1
      <3> QED
        BY <1>1, <2>1, <2>2, <3>1, <3>2
    <2>3. CASE i \in DOMAIN submitted[t][r] /\ submitted'[t][r][i] = submitted[t][r][i]
      <3>1. a # m
        BY <1>4, <2>1, <2>3
      <3>2. CASE t = s /\ r = q /\ j = n
        BY <1>1, <2>1, <3>1, <3>2
      <3>3. CASE j \in DOMAIN submitted[t][r] /\ submitted'[t][r][j] = submitted[t][r][j]
        BY <2>1, <2>3, <3>1, <3>3 DEF Precedes
      <3> QED
        BY <1>1, <2>1, <3>2, <3>3
    <2> QED
      BY <1>1, <2>1, <2>2, <2>3
  <1>8. \A t \in Services, r \in Queues : \A x : x \in From(t, r)' => x = m \/ x \in From(t, r)
    BY <1>1 DEF From, Range
  <1>9. \A a, b : <<a, b>> \in Leading' => a # m /\ (b = m \/ <<a, b>> \in Leading)
    BY <1>6, <1>7 DEF Leading
  <1> QED
    BY <1>8, <1>9

LEMMA OrderSubmit ==
  ASSUME FateInv, Staged, InLine, NEW s \in Services, NEW h \in Sockets, NEW q \in Queues,
         NEW m \in Messages, Submit(s, h, q, m)
  PROVE  Staged' /\ InLine'
  <1> DEFINE e == [to |-> "service", msg |-> m]
  <1>1. /\ TypeOK /\ Once /\ Agree /\ place[m] = Fresh
        /\ wire' = wire /\ inbuf' = inbuf
        /\ elements' = [elements EXCEPT ![s][q] = Append(elements[s][q], e)]
        /\ \A x \in Messages : place'[x] = IF x = m THEN At("queue", s, q) ELSE place[x]
    BY DEF FateInv, Submit, linkVars, TypeOK, PathTypeOK
  <1>2. /\ \A a, b : <<a, b>> \in Leading' => <<a, b>> \in Leading \/ (b = m /\ a # m)
        /\ \A b : <<m, b>> \notin Leading'
        /\ \A t \in Services, r \in Queues : \A x : x \in From(t, r)' => x = m \/ x \in From(t, r)
    BY <1>1, LeadingSubmit
  <1>3. Staged'
    <2> SUFFICES ASSUME NEW t \in Services, NEW r \in Queues, NEW a \in Messages, NEW b \in Messages,
                        b \in From(t, r)', (<<a, b>> \in Leading)', OnTheMove(a)', OnTheMove(b)'
                 PROVE  NotBehind(t, place'[a], place'[b])
      BY DEF Staged, NotBehind, Stage
    <2>1. a # m
      BY <1>2
    <2>2. CASE b # m
      BY <1>1, <1>2, <2>1, <2>2 DEF Staged, OnTheMove
    <2>3. CASE b = m
      <3>1. b \in From(s, q)' /\ t = s
        <4>1. m \in From(s, q)'
          BY <1>1, SubmitEffect DEF From, Range
        <4>2. TypeOK' /\ Once'
          BY <1>1, OnceNext, NextType DEF Next, ClientStep
        <4>3. \A u, v \in Services, o, p \in Queues : m \in From(u, o)' /\ m \in From(v, p)' => u = v
          BY <4>2 DEF Once, From, Range
        <4> QED
          BY <2>3, <4>1, <4>3
      <3>2. place'[b] = At("queue", s, q)
        BY <1>1, <2>3
      <3>3. Stage(t, place'[b]) = 0 /\ place'[b].kind # "wire"
        BY <3>1, <3>2, StageIs, AtEqual
      <3>4. \A i \in 0..5 : 0 <= i
        OBVIOUS
      <3> QED
        BY <3>3, <3>4, StageNumber DEF NotBehind
    <2> QED
      BY <2>2, <2>3
  <1>4. ASSUME NEW seq, NEW p, Lined(seq, Leading), Keeps(seq, place, p), p # Fresh
        PROVE  Lined(seq, Leading') /\ \A i \in DOMAIN seq : seq[i].msg # m
    <2>1. \A i \in DOMAIN seq : seq[i].msg # m
      BY <1>1, <1>4 DEF Keeps
    <2>2. \A i, j \in DOMAIN seq : <<seq[i].msg, seq[j].msg>> \in Leading'
            => <<seq[i].msg, seq[j].msg>> \in Leading
      BY <1>2, <2>1
    <2> QED
      BY <1>4, <2>1, <2>2 DEF Lined
  <1>5. /\ \A t \in Services, r \in Queues : Lined(elements[t][r], Leading')
        /\ \A t \in Services, c \in Conns : Lined(wire[t][c], Leading')
        /\ \A t \in Services : Lined(inbuf[t], Leading')
    <2>1. \A t, r : /\ At("queue", t, r) # Fresh /\ At("wire", t, r) # Fresh
                   /\ At("inbuf", t, r) # Fresh
      BY AtEqual DEF Fresh
    <2> QED
      BY <1>1, <1>4, <2>1 DEF InLine, Agree, QueueAgree, WireAgree, InbufAgree
  <1>6. Lined(Append(elements[s][q], e), Leading')
    <2>1. elements[s][q] \in Seq(Element) /\ e \in Element /\ e.msg = m
      BY <1>1, EntryTypes DEF Element
    <2> QED
      BY <1>2, <1>5, <2>1, LinedAppend
  <1>7. \A t \in Services, r \in Queues : Lined(elements'[t][r], Leading')
    BY <1>1, <1>5, <1>6 DEF TypeOK, PathTypeOK
  <1> QED
    BY <1>1, <1>3, <1>5, <1>7 DEF InLine

\* What leads a message is at no earlier stage, on its own channel.
LEMMA LeaderAhead ==
  ASSUME FateInv, Staged, NEW s \in Services, NEW q \in Queues, NEW x \in Messages, x \in From(s, q),
         OnTheMove(x), NEW a \in Messages, <<a, x>> \in Leading, OnTheMove(a)
  PROVE  /\ a \in From(s, q)
         /\ NotBehind(s, place[a], place[x])
         /\ Stage(s, place[a]) \in 0..5 /\ Stage(s, place[x]) \in 0..5
         /\ Stage(s, place[x]) <= Stage(s, place[a])
  <1>1. a \in From(s, q)
    BY LeadingFacts DEF FateInv
  <1>2. NotBehind(s, place[a], place[x])
    BY DEF Staged
  <1> QED
    BY <1>1, <1>2, StageNumber DEF NotBehind

LEMMA OrderTake ==
  ASSUME FateInv, Staged, InLine, NEW s \in Services, NEW q \in Queues, Take(s, q)
  PROVE  Staged' /\ InLine'
  <1> DEFINE e == Head(elements[s][q])
             m == e.msg
             r == At("held", s, q)
  <1>1. /\ elements[s][q] # <<>> /\ elements[s][q] \in Seq(ListOf(s, q))
        /\ place' = [place EXCEPT ![m] = r]
        /\ elements' = [elements EXCEPT ![s][q] = Tail(elements[s][q])]
        /\ UNCHANGED <<submitted, retried, wire, inbuf>>
    BY DEF Take, linkVars, FateInv, OnItsWay, InList
  <1>2. e \in ListOf(s, q)
    BY <1>1, TailIndex
  <1>3. m \in Messages /\ (m \in From(s, q) \/ m \in From(Other(s), q))
    BY <1>2 DEF ListOf, Element
  <1>4. place[m] = At("queue", s, q) /\ OnTheMove(m)
    <2>1. Keeps(elements[s][q], place, At("queue", s, q))
      BY DEF FateInv, Agree, QueueAgree
    <2>2. e = elements[s][q][1] /\ 1 \in DOMAIN elements[s][q]
      BY <1>1, TailIndex
    <2>3. place[m] = At("queue", s, q)
      BY <2>1, <2>2 DEF Keeps
    <2> QED
      BY <2>3, AtEqual DEF OnTheMove, Moving
  <1>5. /\ Lined(Tail(elements[s][q]), Leading)
        /\ \A a : Holds(elements[s][q], a) => <<a, m>> \notin Leading
    BY <1>1, LinedTail DEF InLine
  <1> HIDE DEF m, e
  <1>6. ASSUME NEW t \in Services, m \in From(t, q), t = s \/ s = Other(t)
        PROVE  Staged'
    <2>1. /\ t = s => Stage(t, place[m]) = 0 /\ Stage(t, r) = 1
          /\ t # s => Stage(t, place[m]) = 4 /\ Stage(t, r) = 5
      BY <1>4, <1>6, StageIs
    <2>2. r.kind # "wire"
      BY AtEqual
    <2>3. ASSUME NEW a \in Messages, <<a, m>> \in Leading, OnTheMove(a)
          PROVE  NotBehind(t, place[a], r)
      <3>1. /\ a \in From(t, q)
            /\ Stage(t, place[a]) \in 0..5
            /\ Stage(t, place[m]) <= Stage(t, place[a])
        BY <1>3, <1>4, <1>6, <2>3, LeaderAhead
      <3>2. ~Holds(elements[s][q], a)
        BY <1>5, <2>3
      <3>3. Stage(t, place[a]) # Stage(t, place[m])
        BY <1>6, <2>1, <2>3, <3>1, <3>2, Stations
      <3>4. Stage(t, r) <= Stage(t, place[a])
        BY <2>1, <3>1, <3>3
      <3> QED
        BY <2>2, <3>4 DEF NotBehind
    <2>4. Stage(t, place[m]) < Stage(t, r)
      BY <2>1
    <2> HIDE DEF r
    <2> QED
      BY <1>1, <1>3, <1>4, <1>6, <2>3, <2>4, StagedForward
  <1>7. Staged'
    BY <1>3, <1>6, OtherType
  <1>8. Leading' \subseteq Leading
    BY <1>1, LeadingShrinks
  <1>9. \A t \in Services, o \in Queues :
          elements'[t][o] = elements[t][o] \/ Lined(elements'[t][o], Leading)
    BY <1>1, <1>5 DEF FateInv, TypeOK, PathTypeOK
  <1> QED
    BY <1>1, <1>7, <1>8, <1>9, InLineStep

LEMMA OrderForward ==
  ASSUME FateInv, LinkInv, TurnInv, Staged, InLine, NEW s \in Services, NEW q \in Queues, Forward(s, q)
  PROVE  Staged' /\ InLine'
  <1> DEFINE m == held[s][q]
             f == [queue |-> q, msg |-> m]
             t == Other(s)
             c == sock[s]
             r == At("wire", t, c)
  <1>1. /\ pc[s][q] = "toService"
        /\ place' = [place EXCEPT ![m] = r]
        /\ wire' = [wire EXCEPT ![t][c] = Append(wire[t][c], f)]
        /\ UNCHANGED <<submitted, retried, elements, inbuf>>
        /\ TypeOK /\ LinkTypeOK /\ Once
    BY DEF Forward, SendDone, FateInv, TypeOK
  <1>2. m \in Messages /\ m \in From(s, q) /\ place[m] = At("held", s, q) /\ OnTheMove(m)
    <2>1. m \in Messages /\ m # NoMsg
      BY <1>1 DEF TypeOK, PathTypeOK
    <2>2. m \in From(s, q)
      BY <1>1 DEF FateInv, OnItsWay, InHands
    <2>3. place[m] = At("held", s, q)
      BY <2>1 DEF FateInv, Agree, HeldAgree
    <2> QED
      BY <2>1, <2>2, <2>3, AtEqual DEF OnTheMove, Moving
  <1>3. t \in Services /\ c \in Conns /\ c = opened
    <2>1. sock[s] \in ends[s] /\ Reads(Other(s), sock[s])
      BY DEF Forward, SendDone
    <2>2. c \in Conns
      BY <1>1, <2>1 DEF LinkTypeOK
    <2>3. c = opened
      BY <1>1, <2>1, TurnFacts
    <2> QED
      BY <2>2, <2>3, OtherType
  <1>4. wire[t][c] \in Seq(Frames) /\ f \in Frames
    BY <1>1, <1>2, <1>3, EntryTypes, PathAssumption
  <1>5. Stage(s, place[m]) = 1 /\ Stage(s, r) = 2 /\ r.kind = "wire" /\ r.n = c
    BY <1>2, StageIs, AtEqual
  <1>6. ASSUME NEW a \in Messages, <<a, m>> \in Leading, OnTheMove(a)
        PROVE  NotBehind(s, place[a], r)
    <2>1. /\ a \in From(s, q)
          /\ Stage(s, place[a]) \in 0..5
          /\ Stage(s, place[m]) <= Stage(s, place[a])
      BY <1>2, <1>6, LeaderAhead
    <2>2. a # m
      BY <1>1, <1>6, LeadingFacts
    <2>3. Stage(s, place[a]) # 1
      BY <1>6, <2>1, <2>2, Stations
    <2>4. Stage(s, r) <= Stage(s, place[a])
      BY <1>5, <2>1, <2>3
    <2>5. place[a].kind = "wire" => place[a].n <= c
      <3>1. SUFFICES ASSUME place[a].kind = "wire" PROVE place[a].n <= c
        OBVIOUS
      <3>2. PICK d \in Conns : place[a] = At("wire", t, d) /\ Holds(wire[t][d], a)
        BY <1>6, <2>1, <3>1, StageNumber, Stations
      <3>3. wire[t][d] # <<>>
        BY <3>2 DEF Holds
      <3>4. d <= opened
        BY <1>1, <1>3, <3>3, TurnFacts
      <3> QED
        BY <1>3, <3>2, <3>4, AtEqual
    <2> QED
      BY <1>5, <2>4, <2>5 DEF NotBehind
  <1>7. Staged'
    <2>1. Stage(s, place[m]) < Stage(s, r)
      BY <1>5
    <2> HIDE DEF m, r
    <2> QED
      BY <1>1, <1>2, <1>6, <2>1, StagedForward
  <1>8. Lined(Append(wire[t][c], f), Leading)
    <2>1. ASSUME NEW i \in DOMAIN wire[t][c] PROVE <<m, wire[t][c][i].msg>> \notin Leading
      <3> DEFINE x == wire[t][c][i].msg
      <3>1. SUFFICES ASSUME <<m, x>> \in Leading PROVE FALSE
        OBVIOUS
      <3>2. wire[t][c][i] \in Frames
        BY <1>4, ElementOfSeq, LenProperties
      <3>3. x \in Messages
        <4>1. \A g \in Frames : g.msg \in Messages
          BY PathAssumption
        <4> QED
          BY <3>2, <4>1
      <3>4. place[x] = At("wire", t, c)
        BY <1>3 DEF FateInv, Agree, WireAgree, Keeps
      <3>5. Stage(s, place[x]) = 2 /\ OnTheMove(x)
        BY <3>4, StageIs, AtEqual DEF OnTheMove, Moving
      <3>6. x \in From(s, q)
        BY <1>1, <1>2, <3>1, LeadingFacts
      <3>7. Stage(s, place[x]) <= Stage(s, place[m])
        BY <1>2, <3>1, <3>3, <3>5, <3>6, LeaderAhead
      <3> QED
        BY <1>5, <3>5, <3>7
    <2>2. <<m, m>> \notin Leading
      BY <1>1, LeadingFacts
    <2>3. Lined(wire[t][c], Leading) /\ f.msg = m
      BY <1>3 DEF InLine
    <2> QED
      BY <1>4, <2>1, <2>2, <2>3, LinedAppend
  <1>9. Leading' \subseteq Leading
    BY <1>1, LeadingShrinks
  <1>10. \A u \in Services, d \in Conns :
           wire'[u][d] = wire[u][d] \/ Lined(wire'[u][d], Leading)
    BY <1>1, <1>3, <1>8 DEF LinkTypeOK
  <1> QED
    BY <1>1, <1>7, <1>9, <1>10, InLineStep

\* A message that is put back leads none.
LEMMA OrderRequeue ==
  ASSUME FateInv, PutBack, Staged, InLine, NEW s \in Services, NEW q \in Queues, Requeue(s, q)
  PROVE  Staged' /\ InLine'
  <1> DEFINE m == held[s][q]
             e == [to |-> "service", msg |-> m]
             r == At("queue", s, q)
  <1>1. /\ pc[s][q] = "requeue"
        /\ elements' = [elements EXCEPT ![s][q] = Append(elements[s][q], e)]
        /\ place' = [place EXCEPT ![m] = r]
        /\ UNCHANGED <<submitted, retried, wire, inbuf>>
        /\ TypeOK /\ Once
    BY DEF Requeue, linkVars, FateInv
  <1>2. m \in Messages /\ m \in From(s, q) /\ place[m] = At("held", s, q) /\ OnTheMove(m)
    <2>1. m \in Messages /\ m # NoMsg
      BY <1>1 DEF TypeOK, PathTypeOK
    <2>2. m \in From(s, q)
      BY <1>1 DEF FateInv, OnItsWay, InHands
    <2>3. place[m] = At("held", s, q)
      BY <2>1 DEF FateInv, Agree, HeldAgree
    <2> QED
      BY <2>1, <2>2, <2>3, AtEqual DEF OnTheMove, Moving
  <1>3. Leading' \subseteq Leading
    BY <1>1, LeadingShrinks
  <1>4. \A b : <<m, b>> \notin Leading
    BY <1>1 DEF PutBack, Leading
  <1>5. Staged'
    <2> SUFFICES ASSUME NEW t \in Services, NEW o \in Queues, NEW a \in Messages, NEW b \in Messages,
                        b \in From(t, o)', (<<a, b>> \in Leading)', OnTheMove(a)', OnTheMove(b)'
                 PROVE  NotBehind(t, place'[a], place'[b])
      BY DEF Staged, NotBehind, Stage
    <2>1. <<a, b>> \in Leading /\ a # m /\ b \in From(t, o)
      BY <1>1, <1>3, <1>4 DEF From
    <2>2. \A x \in Messages : place'[x] = IF x = m THEN r ELSE place[x]
      BY <1>1 DEF TypeOK, PathTypeOK
    <2>3. CASE b # m
      BY <2>1, <2>2, <2>3 DEF Staged, OnTheMove
    <2>4. CASE b = m
      <3>1. t = s
        BY <1>1, <1>2, <2>1, <2>4, OneChannel
      <3>2. Stage(t, place'[b]) = 0 /\ place'[b].kind # "wire"
        BY <2>2, <2>4, <3>1, StageIs, AtEqual
      <3>3. \A i \in 0..5 : 0 <= i
        OBVIOUS
      <3> QED
        BY <3>2, <3>3, StageNumber DEF NotBehind
    <2> QED
      BY <2>3, <2>4
  <1>6. Lined(Append(elements[s][q], e), Leading)
    <2>1. elements[s][q] \in Seq(Element) /\ e \in Element /\ e.msg = m
      BY <1>1, <1>2, EntryTypes DEF Element
    <2>2. Lined(elements[s][q], Leading)
      BY DEF InLine
    <2> QED
      BY <1>4, <2>1, <2>2, LinedAppend
  <1>7. \A t \in Services, o \in Queues :
          elements'[t][o] = elements[t][o] \/ Lined(elements'[t][o], Leading)
    BY <1>1, <1>6 DEF TypeOK, PathTypeOK
  <1> QED
    BY <1>1, <1>3, <1>5, <1>7, InLineStep

LEMMA OrderStore ==
  ASSUME FateInv, Staged, InLine, NEW s \in Services, StoreMessage(s)
  PROVE  Staged' /\ InLine'
  <1> DEFINE f == Head(inbuf[s])
             m == f.msg
             q == f.queue
             e == [to |-> "client", msg |-> m]
             t == Other(s)
             r == At("queue", s, q)
  <1>1. /\ rpc[s] = "handle" /\ inbuf' = [inbuf EXCEPT ![s] = Tail(inbuf[s])]
        /\ elements' = [elements EXCEPT ![s][q] = Append(elements[s][q], e)]
        /\ place' = [place EXCEPT ![m] = r]
        /\ UNCHANGED <<submitted, retried, wire>>
        /\ TypeOK /\ LinkTypeOK /\ Once
    BY DEF StoreMessage, HandleFrame, threadVars, FateInv, TypeOK
  <1>2. inbuf[s] # <<>> /\ inbuf[s] \in Seq(FramesTo(s))
    BY <1>1 DEF LinkTypeOK, FateInv, OnItsWay, InFrames
  <1>3. f \in FramesTo(s) /\ f = inbuf[s][1] /\ 1 \in DOMAIN inbuf[s]
    BY <1>2, TailIndex
  <1>4. m \in Messages /\ q \in Queues /\ m \in From(t, q) /\ t \in Services /\ Other(t) = s
    BY <1>3, PathAssumption, OtherType DEF FramesTo
  <1>5. place[m] = At("inbuf", s, NULL) /\ OnTheMove(m)
    <2>1. place[m] = At("inbuf", s, NULL)
      BY <1>3 DEF FateInv, Agree, InbufAgree, Keeps
    <2> QED
      BY <2>1, AtEqual DEF OnTheMove, Moving
  <1>6. /\ Lined(Tail(inbuf[s]), Leading)
        /\ \A a : Holds(inbuf[s], a) => <<a, m>> \notin Leading
    BY <1>2, LinedTail DEF InLine
  <1>7. elements[s][q] \in Seq(Element) /\ e \in Element /\ e.msg = m
    BY <1>1, <1>4, EntryTypes DEF Element
  <1> HIDE DEF m, q, f
  <1>8. Stage(t, place[m]) = 3 /\ Stage(t, r) = 4 /\ r.kind # "wire"
    BY <1>4, <1>5, StageIs, AtEqual
  <1>9. Staged'
    <2>1. ASSUME NEW a \in Messages, <<a, m>> \in Leading, OnTheMove(a)
          PROVE  NotBehind(t, place[a], r)
      <3>1. /\ a \in From(t, q)
            /\ Stage(t, place[a]) \in 0..5
            /\ Stage(t, place[m]) <= Stage(t, place[a])
        BY <1>4, <1>5, <2>1, LeaderAhead
      <3>2. ~Holds(inbuf[s], a)
        BY <1>6, <2>1
      <3>3. Stage(t, place[a]) # 3
        BY <1>4, <2>1, <3>1, <3>2, Stations
      <3>4. Stage(t, r) <= Stage(t, place[a])
        BY <1>8, <3>1, <3>3
      <3> QED
        BY <1>8, <3>4 DEF NotBehind
    <2>2. Stage(t, place[m]) < Stage(t, r)
      BY <1>8
    <2> HIDE DEF r, t
    <2> QED
      BY <1>1, <1>4, <1>5, <2>1, <2>2, StagedForward
  <1>10. Lined(Append(elements[s][q], e), Leading)
    <2>1. ASSUME NEW i \in DOMAIN elements[s][q] PROVE <<m, elements[s][q][i].msg>> \notin Leading
      <3> DEFINE x == elements[s][q][i].msg
      <3>1. SUFFICES ASSUME <<m, x>> \in Leading PROVE FALSE
        OBVIOUS
      <3>2. elements[s][q][i] \in Element
        BY <1>7, ElementOfSeq, LenProperties
      <3>3. x \in Messages
        BY <3>2 DEF Element
      <3>4. place[x] = At("queue", s, q)
        BY <1>4 DEF FateInv, Agree, QueueAgree, Keeps
      <3>5. Stage(t, place[x]) = 4 /\ OnTheMove(x)
        BY <1>4, <3>4, StageIs, AtEqual DEF OnTheMove, Moving
      <3>6. x \in From(t, q)
        BY <1>1, <1>4, <3>1, LeadingFacts
      <3>7. Stage(t, place[x]) <= Stage(t, place[m])
        BY <1>4, <1>5, <3>1, <3>3, <3>5, <3>6, LeaderAhead
      <3> QED
        BY <1>8, <3>5, <3>7
    <2>2. <<m, m>> \notin Leading
      BY <1>1, LeadingFacts
    <2>3. Lined(elements[s][q], Leading)
      BY <1>4 DEF InLine
    <2> QED
      BY <1>7, <2>1, <2>2, <2>3, LinedAppend
  <1>11. Leading' \subseteq Leading
    BY <1>1, LeadingShrinks
  <1>12. \A u \in Services, o \in Queues :
           elements'[u][o] = elements[u][o] \/ Lined(elements'[u][o], Leading)
    BY <1>1, <1>4, <1>10 DEF TypeOK, PathTypeOK
  <1>13. \A u \in Services : inbuf'[u] = inbuf[u] \/ Lined(inbuf'[u], Leading)
    BY <1>1, <1>6 DEF LinkTypeOK
  <1> QED
    BY <1>1, <1>9, <1>11, <1>12, <1>13, InLineStep

LEMMA OrderRecv ==
  ASSUME FateInv, LinkInv, TurnInv, Staged, InLine, NEW s \in Services, PathRecv(s)
  PROVE  Staged' /\ InLine'
  <1> DEFINE c == sock[s]
             w == wire[s][c]
             t == Other(s)
             here == At("inbuf", s, NULL)
  <1>1. /\ c \in Conns /\ w \in Seq(FramesTo(s)) /\ t \in Services /\ Other(t) = s
        /\ TypeOK /\ LinkTypeOK /\ Once
        /\ UNCHANGED <<submitted, retried, elements>>
    BY OtherType DEF PathRecv, RecvFrames, FateInv, TypeOK, OnItsWay, InFrames
  <1>2. PICK k \in 1..Len(w) : /\ inbuf' = [inbuf EXCEPT ![s] = SubSeq(w, 1, k)]
                               /\ wire' = [wire EXCEPT ![s][c] = SubSeq(w, k + 1, Len(w))]
    BY DEF PathRecv, RecvFrames
  <1>3. /\ Len(w) \in Nat /\ k \in 0..Len(w) /\ k \in Nat /\ DOMAIN w = 1..Len(w) /\ w # <<>>
    BY <1>1, <1>2, LenProperties
  <1>4. /\ DOMAIN SubSeq(w, 1, k) = 1..k
        /\ \A i \in 1..k : SubSeq(w, 1, k)[i] = w[i]
    BY <1>1, <1>3, SplitType
  <1>5. inbuf'[s] = SubSeq(w, 1, k)
    BY <1>1, <1>2 DEF LinkTypeOK
  <1> DEFINE Read(m) == \E i \in 1..k : w[i].msg = m
  <1>6. \A m \in Messages : place'[m] = IF Read(m) THEN here ELSE place[m]
    BY <1>4, <1>5 DEF PathRecv
  <1>7. \A i \in 1..k : i \in DOMAIN w
    BY <1>3
  <1>8. ASSUME NEW m \in Messages, Read(m)
        PROVE  /\ place[m] = At("wire", s, c) /\ Holds(w, m) /\ OnTheMove(m)
               /\ \A u \in Services, q \in Queues : m \in From(u, q) => u = t
    <2>1. PICK i \in 1..k : w[i].msg = m
      BY <1>8
    <2>2. i \in DOMAIN w /\ w[i] \in FramesTo(s)
      BY <1>1, <1>7, ElementOfSeq, LenProperties
    <2>3. place[m] = At("wire", s, c)
      BY <1>1, <2>1, <2>2 DEF FateInv, Agree, WireAgree, Keeps
    <2>4. m \in From(t, w[i].queue) /\ w[i].queue \in Queues
      BY <2>1, <2>2, PathAssumption DEF FramesTo
    <2>5. \A u \in Services, q \in Queues : m \in From(u, q) => u = t
      BY <1>1, <2>4, OneChannel
    <2> QED
      BY <2>1, <2>2, <2>3, <2>5, AtEqual DEF Holds, OnTheMove, Moving
  <1>9. Leading' \subseteq Leading
    BY <1>1, LeadingShrinks
  <1>10. Stage(t, here) = 3 /\ Stage(t, At("wire", s, c)) = 2 /\ here.kind # "wire"
    BY <1>1, StageIs, AtEqual
  <1>11. Staged'
    <2> SUFFICES ASSUME NEW u \in Services, NEW q \in Queues, NEW a \in Messages, NEW b \in Messages,
                        b \in From(u, q)', (<<a, b>> \in Leading)', OnTheMove(a)', OnTheMove(b)'
                 PROVE  NotBehind(u, place'[a], place'[b])
      BY DEF Staged, NotBehind, Stage
    <2>1. b \in From(u, q) /\ <<a, b>> \in Leading /\ OnTheMove(a) /\ OnTheMove(b)
      BY <1>1, <1>6, <1>8, <1>9 DEF From, OnTheMove
    <2>2. /\ a \in From(u, q) /\ NotBehind(u, place[a], place[b])
          /\ Stage(u, place[a]) \in 0..5 /\ Stage(u, place[b]) \in 0..5
          /\ Stage(u, place[b]) <= Stage(u, place[a])
      BY <2>1, LeaderAhead
    <2>3. CASE ~Read(a) /\ ~Read(b)
      BY <1>6, <2>2, <2>3
    <2>4. CASE Read(a) /\ ~Read(b)
      <3>1. place'[a] = here /\ place'[b] = place[b] /\ u = t /\ Stage(u, place[a]) = 2
        BY <1>6, <1>8, <1>10, <2>2, <2>4
      <3>2. Stage(u, place[b]) <= Stage(u, here)
        BY <1>10, <2>2, <3>1
      <3> QED
        BY <1>10, <3>1, <3>2 DEF NotBehind
    <2>5. CASE Read(a) /\ Read(b)
      <3>1. place'[a] = here /\ place'[b] = here /\ u = t
        BY <1>6, <1>8, <2>1, <2>5
      <3>2. Stage(u, here) <= Stage(u, here)
        BY <1>10, <3>1
      <3> QED
        BY <1>10, <3>1, <3>2 DEF NotBehind
    <2>6. CASE ~Read(a) /\ Read(b)
      <3>1. place'[a] = place[a] /\ place'[b] = here /\ u = t /\ place[b] = At("wire", s, c)
        BY <1>6, <1>8, <2>1, <2>6
      <3>2. Stage(t, place[a]) # 2
        <4>1. SUFFICES ASSUME Stage(t, place[a]) = 2 PROVE FALSE
          OBVIOUS
        <4>2. PICK d \in Conns : place[a] = At("wire", s, d) /\ Holds(wire[s][d], a)
          BY <1>1, <2>1, <2>2, <3>1, <4>1, Stations
        <4>3. d <= c
          BY <2>2, <3>1, <4>2, AtEqual DEF NotBehind
        <4>4. c <= d
          <5>1. wire[s][d] # <<>>
            BY <4>2 DEF Holds
          <5> QED
            BY <1>1, <1>3, <5>1, TurnFacts
        <4>5. d = c
          BY <1>1, <4>3, <4>4, BacklogFacts
        <4>6. PICK i \in DOMAIN w : w[i].msg = a
          BY <4>2, <4>5 DEF Holds
        <4>7. PICK j \in 1..k : w[j].msg = b
          BY <2>6
        <4>8. i < j
          BY <1>1, <1>7, <2>1, <4>6, <4>7 DEF InLine, Lined
        <4>9. i \in 1..k
          BY <1>3, <4>6, <4>7, <4>8
        <4> QED
          BY <2>6, <4>6, <4>9
      <3>3. Stage(u, here) <= Stage(u, place[a])
        BY <1>10, <2>2, <3>1, <3>2
      <3> QED
        BY <1>10, <3>1, <3>3 DEF NotBehind
    <2> QED
      BY <2>3, <2>4, <2>5, <2>6
  <1>12. Lined(SubSeq(w, 1, k), Leading) /\ Lined(SubSeq(w, k + 1, Len(w)), Leading)
    <2>1. Lined(w, Leading)
      BY <1>1 DEF InLine
    <2> QED
      BY <1>1, <1>3, <2>1, LinedSplit
  <1>13. \A u \in Services, d \in Conns :
           wire'[u][d] = wire[u][d] \/ Lined(wire'[u][d], Leading)
    BY <1>1, <1>2, <1>12 DEF LinkTypeOK
  <1>14. \A u \in Services : inbuf'[u] = inbuf[u] \/ Lined(inbuf'[u], Leading)
    BY <1>1, <1>2, <1>12 DEF LinkTypeOK
  <1> QED
    BY <1>1, <1>9, <1>11, <1>13, <1>14, InLineStep

LEMMA OrderDiscard ==
  ASSUME FateInv, Staged, InLine, NEW s \in Services, NEW C,
         place' = LoseWire(s, C), wire' = Discard(s, C),
         UNCHANGED <<elements, inbuf, submitted, retried>>
  PROVE  Staged' /\ InLine'
  <1>1. \A m \in Messages : place'[m] = place[m] \/ place'[m].kind \notin Moving
    BY AtEqual DEF LoseWire, Lost, Moving
  <1>2. \A t \in Services, c \in Conns : \A i \in DOMAIN wire'[t][c] :
          i \in DOMAIN wire[t][c] /\ wire'[t][c][i] = wire[t][c][i]
    <2>1. \A t \in Services, c \in Conns : wire'[t][c] = wire[t][c] \/ wire'[t][c] = <<>>
      BY DEF Discard, FateInv, TypeOK, LinkTypeOK
    <2> QED
      BY <2>1
  <1> QED
    BY <1>1, <1>2, OrderKeep

LEMMA OrderCrash ==
  ASSUME FateInv, Staged, InLine, NEW s \in Services, NEW k \in 0..WireCap, PathCrash(s, k)
  PROVE  Staged' /\ InLine'
  <1>1. \A m \in Messages : place'[m] = place[m] \/ place'[m].kind \notin Moving
    BY AtEqual DEF PathCrash, Lost, Moving
  <1>2. \A t \in Services, c \in Conns : \A i \in DOMAIN wire'[t][c] :
          i \in DOMAIN wire[t][c] /\ wire'[t][c][i] = wire[t][c][i]
    <2> SUFFICES ASSUME NEW t \in Services, NEW c \in Conns, NEW i \in DOMAIN wire'[t][c]
                 PROVE  i \in DOMAIN wire[t][c] /\ wire'[t][c][i] = wire[t][c][i]
      OBVIOUS
    <2>1. /\ wire[t][c] \in Seq(Frames)
          /\ \/ wire'[t][c] = <<>> \/ wire'[t][c] = wire[t][c]
             \/ k < Len(wire[t][c]) /\ wire'[t][c] = SubSeq(wire[t][c], 1, k)
      BY DEF PathCrash, Crash, FateInv, TypeOK, LinkTypeOK
    <2>2. CASE k < Len(wire[t][c]) /\ wire'[t][c] = SubSeq(wire[t][c], 1, k)
      <3>1. Len(wire[t][c]) \in Nat /\ DOMAIN wire[t][c] = 1..Len(wire[t][c])
        BY <2>1, LenProperties
      <3>2. k \in 0..Len(wire[t][c]) /\ 1..k \subseteq 1..Len(wire[t][c])
        BY <2>2, <3>1, LinkAssumption
      <3>3. /\ DOMAIN SubSeq(wire[t][c], 1, k) = 1..k
            /\ \A j \in 1..k : SubSeq(wire[t][c], 1, k)[j] = wire[t][c][j]
        BY <2>1, <3>2, SplitType
      <3> QED
        BY <2>2, <3>1, <3>2, <3>3
    <2> QED
      BY <2>1, <2>2
  <1>3. /\ \A t \in Services, q \in Queues : elements'[t][q] = elements[t][q] \/ elements'[t][q] = <<>>
        /\ \A t \in Services : inbuf'[t] = inbuf[t] \/ inbuf'[t] = <<>>
        /\ submitted' = submitted /\ retried' = retried
    BY DEF PathCrash, Crash, FateInv, TypeOK, LinkTypeOK, PathTypeOK
  <1> QED
    BY <1>1, <1>2, <1>3, OrderKeep

LEMMA OrderNext ==
  ASSUME FateInv, LinkInv, TurnInv, PutBack, Staged, InLine, [Next]_vars
  PROVE  Staged' /\ InLine'
  <1>1. ASSUME submitted' = submitted, retried \subseteq retried', UNCHANGED <<elements, wire, inbuf>>,
               \A m \in Messages : place'[m] = place[m] \/ place'[m].kind \notin Moving
        PROVE  Staged' /\ InLine'
    BY <1>1, OrderKeep
  <1>2. CASE PathStart \/ UNCHANGED vars
    BY <1>1, <1>2 DEF PathStart, StartHost, StartPeer, vars, linkVars, pathVars
  <1>3. CASE PathAccept
    <2>1. /\ HOST \in Services /\ \E C : place' = LoseWire(HOST, C) /\ wire' = Discard(HOST, C)
          /\ UNCHANGED <<elements, inbuf, submitted, retried>>
      BY <1>3 DEF PathAccept, Accept, AcceptFails, Services
    <2> QED
      BY <2>1, OrderDiscard
  <1>4. ASSUME NEW s \in Services, PathRecvThread(s) PROVE Staged' /\ InLine'
    <2>1. CASE PathSelect(s)
      BY <1>1, <2>1 DEF PathSelect, Select, RecvNothing, pathVars
    <2>2. CASE PathClose(s)
      <3>1. /\ place' = LoseWire(s, {sock[s]}) /\ wire' = Discard(s, {sock[s]})
            /\ UNCHANGED <<elements, inbuf, submitted, retried>>
        BY <2>2 DEF PathClose, CloseSock, NullSock
      <3> QED
        BY <3>1, OrderDiscard
    <2> QED
      BY <1>4, <2>1, <2>2, OrderRecv, OrderStore DEF PathRecvThread
  <1>5. ASSUME NEW s \in Services, NEW q \in Queues, ProcessThread(s, q) PROVE Staged' /\ InLine'
    <2>1. CASE DropUnclaimed(s, q) \/ SendToClientFails(s, q) \/ ForwardLost(s, q) \/ SendToClient(s, q)
      <3>1. PICK r \in {Dropped, Lost, Delivered(s, q)} : place' = [place EXCEPT ![held[s][q]] = r]
        BY <2>1 DEF DropUnclaimed, SendToClientFails, ForwardLost, SendToClient
      <3>2. \A m \in Messages : place'[m] = place[m] \/ place'[m] = r
        BY <3>1 DEF FateInv, TypeOK, PathTypeOK
      <3>3. r.kind \notin Moving
        BY AtEqual DEF Dropped, Lost, Delivered, Moving
      <3> QED
        BY <1>1, <2>1, <3>2, <3>3 DEF DropUnclaimed, SendToClientFails, ForwardLost, SendToClient, SendLost, linkVars
    <2>2. CASE ReadClient(s, q) \/ ForwardFails(s, q)
      BY <1>1, <2>2 DEF ReadClient, ForwardFails, SendFails, linkVars
    <2> QED
      BY <1>5, <2>1, <2>2, OrderTake, OrderForward, OrderRequeue DEF ProcessThread
  <1>6. ASSUME NEW s \in Services, NEW h \in Sockets, ClientStep(s, h) PROVE Staged' /\ InLine'
    <2>1. CASE OpenClient(s, h) \/ CloseClient(s, h) \/ CleanupClient(s, h)
               \/ \E q \in Queues : ConnectToQueue(s, h, q)
      BY <1>1, <2>1 DEF OpenClient, CloseClient, CleanupClient, ConnectToQueue, linkVars
    <2> QED
      BY <1>6, <2>1, OrderSubmit DEF ClientStep
  <1> QED
    BY <1>2, <1>3, <1>4, <1>5, <1>6, OrderCrash DEF Next

\* Everything the refinement rests on.
DeliveryInv == FateInv /\ LinkInv /\ TurnInv /\ OrderInv

LEMMA DeliveryInvInit == Init => DeliveryInv
BY InitType, AgreeInit, AccountedInit, OnItsWayInit, OrderInit, LinkInvInit, TurnInit
   DEF DeliveryInv, FateInv, OrderInv, Init

LEMMA DeliveryInvNext == DeliveryInv /\ [Next]_vars => DeliveryInv'
  <1> SUFFICES ASSUME DeliveryInv, [Next]_vars PROVE DeliveryInv'
    OBVIOUS
  <1>1. /\ TypeOK /\ LinkTypeOK /\ Agree /\ Accounted /\ OnItsWay /\ LinkInv /\ TurnInv
        /\ Once /\ PutBack /\ Staged /\ InLine /\ FateInv
    BY DEF DeliveryInv, FateInv, OrderInv, TypeOK
  <1>2. FateInv'
    BY <1>1, NextType, AgreeNext, AccountedNext, OnItsWayNext, OnceNext DEF FateInv
  <1>3. LinkInv' /\ TurnInv'
    BY <1>1, PathStepIsLinkStep, LinkInvNext, TurnNext
  <1>4. OrderInv'
    BY <1>1, OnceNext, PutBackNext, OrderNext DEF OrderInv
  <1> QED
    BY <1>2, <1>3, <1>4 DEF DeliveryInv

(***************************************************************************)
(* The two services implement the delivery service                         *)
(***************************************************************************)

\* What the abstract sets are here.
LEMMA AbstractSets ==
  /\ \A m : m \in D!AcceptedSet <=> \E s \in Services, q \in Queues : m \in From(s, q)
  /\ \A m : m \in D!ReceivedSet <=> \E s \in Services, q \in Queues : m \in Range(delivered[s][q])
  <1>1. \A s \in Services : Other(s) \in Services /\ Other(Other(s)) = s
    BY OtherType
  <1> DEFINE A == [ch \in Services \X Queues |-> submitted[ch[1]][ch[2]]]
             R == [ch \in Services \X Queues |-> delivered[Other(ch[1])][ch[2]]]
  <1>2. \A f : D!Range(f) = Range(f)
    BY DEF D!Range, Range
  <1>3. /\ \A s \in Services, q \in Queues : <<s, q>> \in Services \X Queues
        /\ \A ch \in Services \X Queues : ch[1] \in Services /\ ch[2] \in Queues
        /\ \A ch \in Services \X Queues :
             A[ch] = submitted[ch[1]][ch[2]] /\ R[ch] = delivered[Other(ch[1])][ch[2]]
        /\ \A s \in Services, q \in Queues :
             A[<<s, q>>] = submitted[s][q] /\ R[<<s, q>>] = delivered[Other(s)][q]
    OBVIOUS
  <1>4. /\ D!AcceptedSet = UNION {Range(A[ch]) : ch \in Services \X Queues}
        /\ D!ReceivedSet = UNION {Range(R[ch]) : ch \in Services \X Queues}
    BY <1>2 DEF D!AcceptedSet, D!ReceivedSet
  <1> HIDE DEF A, R
  <1>5. /\ \A m : m \in D!AcceptedSet <=> \E ch \in Services \X Queues : m \in Range(A[ch])
        /\ \A m : m \in D!ReceivedSet <=> \E ch \in Services \X Queues : m \in Range(R[ch])
    BY <1>4
  <1>6. \A m : m \in D!AcceptedSet <=> \E s \in Services, q \in Queues : m \in From(s, q)
    <2> SUFFICES ASSUME NEW m
                 PROVE  (\E ch \in Services \X Queues : m \in Range(A[ch]))
                          <=> \E s \in Services, q \in Queues : m \in From(s, q)
      BY <1>5
    <2>1. \A ch \in Services \X Queues : A[ch] = submitted[ch[1]][ch[2]]
      BY <1>3
    <2>2. \A s \in Services, q \in Queues : A[<<s, q>>] = submitted[s][q]
      BY <1>3
    <2> QED
      BY <1>3, <2>1, <2>2 DEF From
  <1>7. \A m : m \in D!ReceivedSet <=> \E s \in Services, q \in Queues : m \in Range(delivered[Other(s)][q])
    <2> SUFFICES ASSUME NEW m
                 PROVE  (\E ch \in Services \X Queues : m \in Range(R[ch]))
                          <=> \E s \in Services, q \in Queues : m \in Range(delivered[Other(s)][q])
      BY <1>5
    <2> QED
      BY <1>3
  <1> QED
    BY <1>1, <1>6, <1>7

\* A message on the move was accepted and has been neither received nor dropped.
LEMMA MovingAccepted ==
  ASSUME FateInv, NEW m \in Messages, OnTheMove(m)
  PROVE  m \in D!AcceptedSet /\ m \notin D!ReceivedSet
  <1>1. \E s \in Services, q \in Queues : m \in From(s, q)
    <2>1. Somewhere(m) /\ place[m] \notin {Fresh, Dropped, Lost}
          /\ \A s, q : place[m] # At("delivered", s, q)
      BY AtEqual DEF FateInv, Accounted, OnTheMove, Moving, Fresh, Dropped, Lost
    <2>2. ASSUME NEW s \in Services, NEW q \in Queues, Holds(elements[s][q], m)
          PROVE  \E t \in Services, r \in Queues : m \in From(t, r)
      <3>1. PICK i \in DOMAIN elements[s][q] : elements[s][q][i].msg = m
        BY <2>2 DEF Holds
      <3>2. elements[s][q][i] \in ListOf(s, q)
        BY ElementOfSeq, LenProperties DEF FateInv, OnItsWay, InList
      <3> QED
        BY <3>1, <3>2, OtherType DEF ListOf
    <2>3. ASSUME NEW s \in Services, NEW q \in Queues, held[s][q] = m
          PROVE  \E t \in Services, r \in Queues : m \in From(t, r)
      <3>1. pc[s][q] \in {"toClient", "sendClient", "toService", "requeue"}
        BY <2>3, PathAssumption DEF FateInv, TypeOK, PathTypeOK
      <3> QED
        BY <2>3, <3>1, OtherType DEF FateInv, OnItsWay, InHands
    <2>4. ASSUME NEW s \in Services, NEW seq \in Seq(FramesTo(s)), Holds(seq, m)
          PROVE  \E t \in Services, r \in Queues : m \in From(t, r)
      <3>1. PICK i \in DOMAIN seq : seq[i].msg = m
        BY <2>4 DEF Holds
      <3>2. seq[i] \in FramesTo(s)
        BY ElementOfSeq, LenProperties
      <3> QED
        BY <3>1, <3>2, OtherType, PathAssumption DEF FramesTo
    <2> QED
      BY <2>1, <2>2, <2>3, <2>4 DEF Somewhere, FateInv, OnItsWay, InFrames
  <1>2. \A s \in Services, q \in Queues : m \notin Range(delivered[s][q])
    <2>1. ASSUME NEW s \in Services, NEW q \in Queues, m \in Range(delivered[s][q])
          PROVE  FALSE
      <3>1. place[m] = At("delivered", s, q)
        BY <2>1 DEF FateInv, Agree, ClientAgree, KeepsPlain, Range
      <3> QED
        BY <3>1, AtEqual DEF OnTheMove, Moving
    <2> QED
      BY <2>1
  <1> QED
    BY <1>1, <1>2, AbstractSets

LEMMA SubmitAccepts ==
  ASSUME FateInv, NEW s \in Services, NEW h \in Sockets, NEW q \in Queues,
         NEW m \in Messages, Submit(s, h, q, m)
  PROVE  D!Next
  <1>1. /\ TypeOK /\ Once /\ place[m] = Fresh
        /\ submitted' = [submitted EXCEPT ![s][q] = Append(submitted[s][q], m)]
        /\ place' = [place EXCEPT ![m] = At("queue", s, q)]
        /\ UNCHANGED <<delivered, retried>>
    BY DEF FateInv, Submit
  <1>2. m \notin D!AcceptedSet
    BY <1>1, AbstractSets DEF Once
  <1>3. {x \in Messages : place'[x].kind \in {"dropped", "lost"}}
          = {x \in Messages : place[x].kind \in {"dropped", "lost"}}
    <2>1. \A x \in Messages : place'[x] = IF x = m THEN At("queue", s, q) ELSE place[x]
      BY <1>1 DEF TypeOK, PathTypeOK
    <2>2. Fresh.kind \notin {"dropped", "lost"} /\ At("queue", s, q).kind \notin {"dropped", "lost"}
      BY AtEqual DEF Fresh
    <2> QED
      BY <1>1, <2>1, <2>2
  <1>4. [ch \in Services \X Queues |-> submitted'[ch[1]][ch[2]]]
          = [[ch \in Services \X Queues |-> submitted[ch[1]][ch[2]]]
               EXCEPT ![<<s, q>>] = Append([ch \in Services \X Queues |-> submitted[ch[1]][ch[2]]][<<s, q>>], m)]
    <2>1. \A ch \in Services \X Queues :
            submitted'[ch[1]][ch[2]] = IF ch = <<s, q>> THEN Append(submitted[s][q], m)
                                       ELSE submitted[ch[1]][ch[2]]
      BY <1>1 DEF TypeOK, PathTypeOK
    <2> QED
      BY <2>1
  <1>5. D!Accept(<<s, q>>, m)
    BY <1>1, <1>2, <1>3, <1>4 DEF D!Accept
  <1> QED
    BY <1>5 DEF D!Next

LEMMA SendReceives ==
  ASSUME FateInv, Staged, NEW s \in Services, NEW q \in Queues, SendToClient(s, q)
  PROVE  D!Next
  <1> DEFINE m == held[s][q]
             t == Other(s)
             A == [ch \in Services \X Queues |-> submitted[ch[1]][ch[2]]]
             R == [ch \in Services \X Queues |-> delivered[Other(ch[1])][ch[2]]]
             Gone == {x \in Messages : place[x].kind \in {"dropped", "lost"}}
  <1>1. /\ TypeOK /\ Once /\ pc[s][q] = "sendClient"
        /\ delivered' = [delivered EXCEPT ![s][q] = Append(delivered[s][q], m)]
        /\ place' = [place EXCEPT ![m] = At("delivered", s, q)]
        /\ UNCHANGED <<submitted, retried>>
        /\ t \in Services /\ Other(t) = s
    BY OtherType DEF FateInv, SendToClient, Delivered
  <1>2. m \in Messages /\ m \in From(t, q) /\ place[m] = At("held", s, q) /\ OnTheMove(m)
    <2>1. m \in Messages /\ m # NoMsg
      BY <1>1 DEF TypeOK, PathTypeOK
    <2>2. m \in From(t, q)
      BY <1>1 DEF FateInv, OnItsWay, InHands
    <2>3. place[m] = At("held", s, q)
      BY <2>1 DEF FateInv, Agree, HeldAgree
    <2> QED
      BY <2>1, <2>2, <2>3, AtEqual DEF OnTheMove, Moving
  <1>3. PICK i \in DOMAIN submitted[t][q] : submitted[t][q][i] = m
    BY <1>2 DEF From, Range
  <1>4. DOMAIN submitted[t][q] = 1..Len(submitted[t][q]) /\ Len(submitted[t][q]) \in Nat
    BY <1>1, LenProperties DEF TypeOK, PathTypeOK
  <1>5. ASSUME NEW j \in 1..(i - 1)
        PROVE  submitted[t][q][j] \in Range(delivered[s][q]) \cup Gone \cup retried
    <2> DEFINE a == submitted[t][q][j]
    <2>1. j \in DOMAIN submitted[t][q] /\ j < i
      BY <1>3, <1>4
    <2>2. a \in From(t, q) /\ a \in Messages
      BY <1>1, <2>1, OneChannel DEF From, Range
    <2>3. CASE a \in retried
      BY <2>3
    <2>4. CASE a \notin retried
      <3>1. <<a, m>> \in Leading
        <4>1. Precedes(t, q, a, m)
          BY <1>3, <2>1 DEF Precedes
        <4> QED
          BY <1>1, <1>2, <2>2, <2>4, <4>1 DEF Leading
      <3>2. ~OnTheMove(a)
        <4>1. SUFFICES ASSUME OnTheMove(a) PROVE FALSE
          OBVIOUS
        <4>2. Stage(t, place[m]) = 5
          BY <1>1, <1>2, StageIs
        <4>3. Stage(t, place[a]) = 5
          BY <1>1, <1>2, <2>2, <3>1, <4>1, <4>2, LeaderAhead
        <4>4. a = m
          BY <1>1, <2>2, <4>1, <4>3, Stations
        <4> QED
          BY <1>1, <3>1, <4>4, LeadingFacts
      <3>3. \/ place[a] = At("delivered", s, q) /\ HoldsPlain(delivered[s][q], a)
            \/ place[a] \in {Dropped, Lost}
        BY <1>1, <2>2, <3>2, WhereIs, AtEqual DEF OnTheMove, Moving
      <3> QED
        BY <2>2, <3>3, AtEqual DEF HoldsPlain, Range, Dropped, Lost
    <2> QED
      BY <2>3, <2>4
  <1>6. /\ <<t, q>> \in Services \X Queues
        /\ A[<<t, q>>] = submitted[t][q] /\ R[<<t, q>>] = delivered[s][q]
    BY <1>1
  <1>7. m \notin D!ReceivedSet \cup Gone
    BY <1>2, MovingAccepted, AtEqual
  <1>8. {x \in Messages : place'[x].kind \in {"dropped", "lost"}} = Gone
    <2>1. \A x \in Messages : place'[x] = IF x = m THEN At("delivered", s, q) ELSE place[x]
      BY <1>1 DEF TypeOK, PathTypeOK
    <2> QED
      BY <1>2, <2>1, AtEqual
  <1>9. [ch \in Services \X Queues |-> delivered'[Other(ch[1])][ch[2]]]
          = [R EXCEPT ![<<t, q>>] = Append(R[<<t, q>>], m)]
    <2>1. \A u \in Services : Other(u) \in Services /\ (Other(u) = s <=> u = t)
      BY <1>1, OtherType
    <2>2. \A u \in Services, o \in Queues :
            delivered'[u][o] = IF u = s /\ o = q THEN Append(delivered[s][q], m) ELSE delivered[u][o]
      BY <1>1 DEF TypeOK, PathTypeOK
    <2>3. \A ch \in Services \X Queues :
            /\ ch[1] \in Services /\ ch[2] \in Queues
            /\ ch = <<t, q>> <=> ch[1] = t /\ ch[2] = q
      OBVIOUS
    <2>4. \A ch \in Services \X Queues :
            delivered'[Other(ch[1])][ch[2]]
              = IF ch = <<t, q>> THEN Append(delivered[s][q], m) ELSE delivered[Other(ch[1])][ch[2]]
      BY <2>1, <2>2, <2>3
    <2> QED
      BY <1>6, <2>4
  <1>10. \A f : D!Range(f) = Range(f)
    BY DEF D!Range, Range
  <1>11. [ch \in Services \X Queues |-> submitted'[ch[1]][ch[2]]] = A
    BY <1>1
  <1>12. D!Receive(<<t, q>>, i)
    BY <1>1, <1>3, <1>5, <1>6, <1>7, <1>8, <1>9, <1>10, <1>11 DEF D!Receive
  <1> QED
    BY <1>3, <1>6, <1>12 DEF D!Next

LEMMA FailureRetries ==
  ASSUME FateInv, NEW s \in Services, NEW q \in Queues, ForwardFails(s, q)
  PROVE  D!Next
  <1> DEFINE m == held[s][q]
  <1>1. /\ pc[s][q] = "toService" /\ retried' = retried \cup {m}
        /\ UNCHANGED <<submitted, delivered, place>>
    BY DEF ForwardFails
  <1>2. m \in Messages /\ place[m] = At("held", s, q)
    BY <1>1 DEF FateInv, TypeOK, PathTypeOK, Agree, HeldAgree
  <1>3. OnTheMove(m) /\ place[m].kind \notin {"dropped", "lost"}
    BY <1>2, AtEqual DEF OnTheMove, Moving
  <1>4. m \in D!AcceptedSet \ (D!ReceivedSet \cup {x \in Messages : place[x].kind \in {"dropped", "lost"}})
    BY <1>2, <1>3, MovingAccepted
  <1>5. D!Retry(m)
    BY <1>1, <1>4 DEF D!Retry
  <1> QED
    BY <1>2, <1>5 DEF D!Next

\* Every other step drops the messages it loses, if any.
LEMMA OthersDrop ==
  ASSUME FateInv, UNCHANGED <<submitted, delivered, retried>>,
         \A m \in Messages : place'[m] = place[m] \/ (OnTheMove(m) /\ place'[m].kind \in Moving \cup {"dropped", "lost"})
  PROVE  D!Next
  <1> DEFINE Gone == {m \in Messages : place[m].kind \in {"dropped", "lost"}}
             More == {m \in Messages : OnTheMove(m) /\ place'[m].kind \in {"dropped", "lost"}}
  <1>1. PICK M : M = More
    OBVIOUS
  <1>2. {m \in Messages : place'[m].kind \in {"dropped", "lost"}} = Gone \cup M
    BY <1>1 DEF OnTheMove, Moving
  <1>3. M \in SUBSET D!AcceptedSet /\ M \cap D!ReceivedSet = {}
    BY <1>1, MovingAccepted
  <1>4. D!Drop(M)
    BY <1>2, <1>3 DEF D!Drop
  <1> QED
    BY <1>3, <1>4 DEF D!Next

(***************************************************************************)
(* Every behaviour of the two services, with any crashes, restarts, lost   *)
(* connections and failed attempts to forward, is one of the abstract      *)
(* delivery service (DeliverySpec): a message goes at most once from a     *)
(* queue to the client of the queue of the same name, and in the order of  *)
(* submission unless it was put back.  Every step is an abstract one.      *)
(***************************************************************************)
THEOREM PathImplementsDelivery == Spec => DeliverySpec
  <1>1. Init => D!Init
    <2> SUFFICES ASSUME Init PROVE D!Init
      OBVIOUS
    <2>1. /\ \A s \in Services, q \in Queues : submitted[s][q] = <<>> /\ delivered[s][q] = <<>>
          /\ \A m \in Messages : place[m] = Fresh
          /\ retried = {}
      BY DEF Init
    <2>2. \A ch \in Services \X Queues : ch[1] \in Services /\ Other(ch[1]) \in Services /\ ch[2] \in Queues
      BY OtherType
    <2>3. {m \in Messages : place[m].kind \in {"dropped", "lost"}} = {}
      BY <2>1, AtEqual DEF Fresh
    <2> QED
      BY <2>1, <2>2, <2>3 DEF D!Init
  <1>2. DeliveryInv /\ [Next]_vars => D!Next
    <2> SUFFICES ASSUME DeliveryInv, [Next]_vars PROVE D!Next
      OBVIOUS
    <2>1. FateInv /\ Staged /\ TypeOK /\ Agree
      BY DEF DeliveryInv, FateInv, OrderInv
    <2> QED
      BY <2>1, Effects, SubmitAccepts, SendReceives, FailureRetries, OthersDrop
  <1> QED
    BY <1>1, <1>2, DeliveryInvInit, DeliveryInvNext, PTL DEF Spec, DeliverySpec, D!Spec
=============================================================================
