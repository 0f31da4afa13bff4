------------------------- MODULE ServiceLinkProofs -------------------------
(***************************************************************************)
(* Proofs about the link: its type invariant, that the receive thread      *)
(* never selects on a handle it has closed, that connections are read in   *)
(* the order they were opened, and that a link is sound until a service    *)
(* first stops; for any bounds and any kind of frame.                      *)
(***************************************************************************)
EXTENDS ServiceLink, SequenceTheorems, TLAPS

(***************************************************************************)
(* Lemmas on the operators the link is built from                          *)
(***************************************************************************)

\* Only the wires towards s on C change when their frames are discarded.
LEMMA DiscardType ==
  ASSUME LinkTypeOK, NEW s \in Services, NEW C
  PROVE  /\ Discard(s, C) \in [Services -> [Conns -> Seq(Frames)]]
         /\ \A t \in Services, d \in Conns :
              Discard(s, C)[t][d] = IF t = s /\ d \in C THEN <<>> ELSE wire[t][d]
  <1>1. [d \in Conns |-> IF d \in C THEN <<>> ELSE wire[s][d]] \in [Conns -> Seq(Frames)]
    BY DEF LinkTypeOK
  <1> QED
    BY <1>1 DEF Discard, LinkTypeOK

\* A prefix and the rest of a sequence are sequences over the same set.
LEMMA SplitType ==
  ASSUME NEW S, NEW seq \in Seq(S), NEW k \in 0..Len(seq)
  PROVE  /\ SubSeq(seq, 1, k) \in Seq(S)
         /\ SubSeq(seq, k + 1, Len(seq)) \in Seq(S)
         /\ Len(SubSeq(seq, 1, k)) = k
         /\ k # 0 => SubSeq(seq, 1, k) # <<>>
         /\ Len(SubSeq(seq, k + 1, Len(seq))) = Len(seq) - k
         /\ \A i \in 1..k : SubSeq(seq, 1, k)[i] = seq[i]
         /\ \A i \in 1..(Len(seq) - k) : SubSeq(seq, k + 1, Len(seq))[i] = seq[k + i]
  <1>1. Len(seq) \in Nat /\ \A i \in 1..Len(seq) : seq[i] \in S
    BY LenProperties
  <1>2. /\ SubSeq(seq, 1, k) \in Seq(S)
        /\ Len(SubSeq(seq, 1, k)) = k
        /\ \A i \in 1..k : SubSeq(seq, 1, k)[i] = seq[i]
    BY <1>1, SubSeqProperties
  <1>3. /\ SubSeq(seq, k + 1, Len(seq)) \in Seq(S)
        /\ Len(SubSeq(seq, k + 1, Len(seq))) = Len(seq) - k
        /\ \A i \in 1..(Len(seq) - k) : SubSeq(seq, k + 1, Len(seq))[i] = seq[k + i]
    BY <1>1, SubSeqProperties
  <1>4. k # 0 => SubSeq(seq, 1, k) # <<>>
    BY <1>2, EmptySeq
  <1> QED
    BY <1>2, <1>3, <1>4

\* The entries of a sequence after an append.
LEMMA AppendIndex ==
  ASSUME NEW S, NEW seq \in Seq(S), NEW e \in S
  PROVE  /\ Append(seq, e) \in Seq(S)
         /\ Len(seq) \in Nat /\ DOMAIN seq = 1..Len(seq)
         /\ DOMAIN Append(seq, e) = 1..(Len(seq) + 1)
         /\ \A i \in 1..(Len(seq) + 1) :
              Append(seq, e)[i] = IF i = Len(seq) + 1 THEN e ELSE seq[i]
  <1>1. Len(seq) \in Nat /\ DOMAIN seq = 1..Len(seq)
    BY LenProperties
  <1>2. Append(seq, e) \in Seq(S) /\ Len(Append(seq, e)) = Len(seq) + 1
    BY AppendProperties
  <1>3. DOMAIN Append(seq, e) = 1..(Len(seq) + 1)
    BY <1>2, LenProperties
  <1>4. \A i \in 1..(Len(seq) + 1) :
          Append(seq, e)[i] = IF i = Len(seq) + 1 THEN e ELSE seq[i]
    BY <1>1, AppendProperties
  <1> QED
    BY <1>1, <1>2, <1>3, <1>4

\* The entries of a sequence after its head was taken off.
LEMMA TailIndex ==
  ASSUME NEW S, NEW seq \in Seq(S), seq # <<>>
  PROVE  /\ Head(seq) \in S /\ Head(seq) = seq[1]
         /\ Tail(seq) \in Seq(S)
         /\ Len(seq) \in Nat \ {0} /\ DOMAIN seq = 1..Len(seq)
         /\ DOMAIN Tail(seq) = 1..(Len(seq) - 1)
         /\ \A i \in 1..(Len(seq) - 1) : Tail(seq)[i] = seq[i + 1]
  <1>1. Len(seq) \in Nat \ {0} /\ DOMAIN seq = 1..Len(seq)
    BY LenProperties, EmptySeq
  <1>2. /\ Head(seq) \in S /\ Tail(seq) \in Seq(S)
        /\ Len(Tail(seq)) = Len(seq) - 1
        /\ \A i \in 1..(Len(seq) - 1) : Tail(seq)[i] = seq[i + 1]
    BY HeadTailProperties
  <1>3. DOMAIN Tail(seq) = 1..(Len(seq) - 1)
    BY <1>2, LenProperties
  <1>4. Head(seq) = seq[1]
    OBVIOUS
  <1> QED
    BY <1>1, <1>2, <1>3, <1>4

(***************************************************************************)
(* Type correctness                                                        *)
(***************************************************************************)

LEMMA LinkInitType == LinkInit => LinkTypeOK
BY LinkAssumption DEF LinkInit, LinkTypeOK, Conns, NULL, Services

LEMMA StartType == LinkTypeOK /\ (StartHost \/ StartPeer) => LinkTypeOK'
  <1> SUFFICES ASSUME LinkTypeOK, StartHost \/ StartPeer PROVE LinkTypeOK'
    OBVIOUS
  <1>1. CASE StartHost
    BY <1>1 DEF StartHost, LinkTypeOK
  <1>2. CASE StartPeer
    <2>1. opened' \in Conns
      BY <1>2, LinkAssumption DEF StartPeer, LinkTypeOK, Conns
    <2>2. backlog' \in Seq(Conns)
      BY <1>2, <2>1, AppendProperties DEF StartPeer, LinkTypeOK
    <2>3. /\ running' \in [Services -> BOOLEAN]
          /\ sock' \in [Services -> Conns \cup {NULL, INVALID}]
          /\ ends' \in [Services -> SUBSET Conns]
      BY <1>2, <2>1 DEF StartPeer, LinkTypeOK
    <2>5. opened' \in 0..MaxConn
      BY <2>1, LinkAssumption DEF Conns
    <2>4. \A s \in Services : rpc'[s] # "loop" => sock'[s] # NULL
      BY <1>2, <2>1, LinkAssumption DEF StartPeer, LinkTypeOK, Conns, NULL
    <2> QED
      BY <1>2, <2>2, <2>3, <2>4, <2>5 DEF StartPeer, LinkTypeOK
  <1> QED
    BY <1>1, <1>2

LEMMA AcceptType == LinkTypeOK /\ AcceptThread => LinkTypeOK'
  <1> SUFFICES ASSUME LinkTypeOK, AcceptThread PROVE LinkTypeOK'
    OBVIOUS
  <1>0. NULL \notin Conns /\ INVALID # NULL
    BY LinkAssumption DEF Conns, NULL, INVALID
  <1>1. Head(backlog) \in Conns /\ Tail(backlog) \in Seq(Conns)
    BY TailIndex DEF AcceptThread, Accept, AcceptFails, LinkTypeOK
  <1>2. wire' \in [Services -> [Conns -> Seq(Frames)]]
    <2>1. HOST \in Services /\ \E C : wire' = Discard(HOST, C)
      BY DEF AcceptThread, Accept, AcceptFails, Services
    <2> QED
      BY <2>1, DiscardType
  <1>3. CASE Accept
    BY <1>0, <1>1, <1>2, <1>3 DEF Accept, LinkTypeOK
  <1>4. CASE AcceptFails
    BY <1>0, <1>1, <1>2, <1>4 DEF AcceptFails, LinkTypeOK
  <1> QED
    BY <1>3, <1>4 DEF AcceptThread

LEMMA RecvThreadType ==
  ASSUME LinkTypeOK, NEW s \in Services, RecvThread(s)
  PROVE  LinkTypeOK'
  <1>1. CASE Select(s)
    BY <1>1, LinkAssumption DEF Select, LinkTypeOK, Conns, NULL
  <1>2. CASE RecvFrames(s)
    <2>1. sock[s] \in Conns /\ wire[s][sock[s]] \in Seq(Frames)
      BY <1>2 DEF RecvFrames, LinkTypeOK
    <2>2. PICK k \in 1..Len(wire[s][sock[s]]) :
            /\ inbuf' = [inbuf EXCEPT ![s] = SubSeq(wire[s][sock[s]], 1, k)]
            /\ wire' = [wire EXCEPT ![s][sock[s]] =
                          SubSeq(wire[s][sock[s]], k + 1, Len(wire[s][sock[s]]))]
      BY <1>2 DEF RecvFrames
    <2>3. /\ SubSeq(wire[s][sock[s]], 1, k) \in Seq(Frames)
          /\ SubSeq(wire[s][sock[s]], 1, k) # <<>>
          /\ SubSeq(wire[s][sock[s]], k + 1, Len(wire[s][sock[s]])) \in Seq(Frames)
      <3> DEFINE w == wire[s][sock[s]]
      <3>1. w \in Seq(Frames) /\ Len(w) \in Nat
        BY <2>1, LenProperties
      <3>2. k \in 0..Len(w) /\ k # 0
        BY <3>1
      <3> HIDE DEF w
      <3>3. /\ SubSeq(w, 1, k) \in Seq(Frames) /\ SubSeq(w, 1, k) # <<>>
            /\ SubSeq(w, k + 1, Len(w)) \in Seq(Frames)
        BY ONLY <3>1, <3>2, SplitType
      <3> QED
        BY <3>3 DEF w
    <2> QED
      BY <1>2, <2>1, <2>2, <2>3 DEF RecvFrames, LinkTypeOK
  <1>3. CASE RecvNothing(s)
    BY <1>3 DEF RecvNothing, LinkTypeOK
  <1>4. CASE HandleFrame(s)
    <2>1. inbuf[s] \in Seq(Frames) /\ inbuf[s] # <<>>
      BY <1>4 DEF HandleFrame, LinkTypeOK
    <2>2. /\ Tail(inbuf[s]) \in Seq(Frames)
          /\ Len(Tail(inbuf[s])) = Len(inbuf[s]) - 1
          /\ Len(inbuf[s]) \in Nat
      BY <2>1, HeadTailProperties, LenProperties
    <2>3. Tail(inbuf[s]) # <<>> <=> Len(inbuf[s]) > 1
      <3>1. \A seq \in Seq(Frames) : seq # <<>> <=> Len(seq) # 0
        BY EmptySeq
      <3>2. Tail(inbuf[s]) # <<>> <=> Len(Tail(inbuf[s])) # 0
        BY <2>2, <3>1
      <3>3. Len(inbuf[s]) # 0
        BY <2>1, <3>1
      <3> QED
        BY ONLY <2>2, <3>2, <3>3
    <2>4. \A t \in Services :
            /\ inbuf'[t] = IF t = s THEN Tail(inbuf[s]) ELSE inbuf[t]
            /\ rpc'[t] = IF t # s THEN rpc[t] ELSE IF Len(inbuf[s]) > 1 THEN "handle" ELSE "loop"
      BY <1>4 DEF HandleFrame, LinkTypeOK
    <2>5. /\ inbuf' \in [Services -> Seq(Frames)]
          /\ rpc' \in [Services -> {"loop", "ready", "handle", "close", "null"}]
      BY <1>4, <2>2 DEF HandleFrame, LinkTypeOK
    <2>6. UNCHANGED <<running, sock, ends, backlog, opened, wire, crashes, unread>> /\ sock[s] # NULL
      BY <1>4 DEF HandleFrame, LinkTypeOK
    <2>7. \A t \in Services : /\ rpc'[t] # "loop" => sock'[t] # NULL
                              /\ rpc'[t] = "handle" <=> inbuf'[t] # <<>>
      BY <2>3, <2>4, <2>6 DEF LinkTypeOK
    <2> QED
      BY <2>5, <2>6, <2>7 DEF LinkTypeOK
  <1>5. CASE CloseSock(s)
    BY <1>5, DiscardType DEF CloseSock, LinkTypeOK
  <1>6. CASE NullSock(s)
    BY <1>6, DiscardType DEF NullSock, LinkTypeOK
  <1> QED
    BY <1>1, <1>2, <1>3, <1>4, <1>5, <1>6 DEF RecvThread

LEMMA SendType ==
  ASSUME LinkTypeOK, NEW s \in Services, NEW f \in Frames, Send(s, f)
  PROVE  LinkTypeOK'
  <1>1. CASE SendDone(s, f)
    <2>1. Other(s) \in Services /\ sock[s] \in Conns
      BY <1>1 DEF SendDone, LinkTypeOK, Other, Services
    <2>2. Append(wire[Other(s)][sock[s]], f) \in Seq(Frames)
      BY <2>1, AppendProperties DEF LinkTypeOK
    <2> QED
      BY <1>1, <2>1, <2>2 DEF SendDone, LinkTypeOK
  <1>2. CASE SendLost(s)
    <2>1. unread' \in [Conns -> 0..WireCap]
      <3>1. CASE sock[s] \notin ends[Other(s)]
        BY <1>2, <3>1 DEF SendLost, LinkTypeOK
      <3>2. CASE sock[s] \in ends[Other(s)]
        <4>1. unread[sock[s]] < WireCap
              /\ unread' = [unread EXCEPT ![sock[s]] = unread[sock[s]] + 1]
          BY <1>2, <3>2 DEF SendLost
        <4>2. \A c \in Conns : unread[c] \in 0..WireCap /\ (unread[c] < WireCap => unread[c] + 1 \in 0..WireCap)
          BY LinkAssumption DEF LinkTypeOK
        <4> QED
          BY <4>1, <4>2 DEF LinkTypeOK
      <3> QED
        BY <3>1, <3>2
    <2> QED
      BY <1>2, <2>1 DEF SendLost, LinkTypeOK
  <1>3. CASE SendFails(s)
    BY <1>3 DEF SendFails, linkVars, LinkTypeOK
  <1> QED
    BY <1>1, <1>2, <1>3 DEF Send

LEMMA CrashType ==
  ASSUME LinkTypeOK, NEW s \in Services, NEW k \in 0..WireCap, Crash(s, k)
  PROVE  LinkTypeOK'
  <1>1. ASSUME NEW t \in Services, NEW c \in Conns, k < Len(wire[t][c])
        PROVE  SubSeq(wire[t][c], 1, k) \in Seq(Frames)
    <2>1. wire[t][c] \in Seq(Frames) /\ Len(wire[t][c]) \in Nat
      BY LenProperties DEF LinkTypeOK
    <2>2. k \in 0..Len(wire[t][c])
      BY <1>1, <2>1, LinkAssumption
    <2> QED
      BY <2>1, <2>2, SplitType
  <1>2. wire' \in [Services -> [Conns -> Seq(Frames)]]
    BY <1>1 DEF Crash, LinkTypeOK
  <1>3. crashes' \in 0..MaxCrashes
    BY LinkAssumption DEF Crash, LinkTypeOK
  <1>4. backlog' \in Seq(Conns)
    BY DEF Crash, LinkTypeOK
  <1> QED
    BY <1>2, <1>3, <1>4 DEF Crash, LinkTypeOK

LEMMA LinkNextType == LinkTypeOK /\ [LinkNext]_linkVars => LinkTypeOK'
  <1> SUFFICES ASSUME LinkTypeOK, [LinkNext]_linkVars PROVE LinkTypeOK'
    OBVIOUS
  <1>1. CASE StartHost \/ StartPeer
    BY <1>1, StartType
  <1>2. CASE AcceptThread
    BY <1>2, AcceptType
  <1>3. ASSUME NEW s \in Services, RecvThread(s) PROVE LinkTypeOK'
    BY <1>3, RecvThreadType
  <1>4. ASSUME NEW s \in Services, NEW f \in Frames, Send(s, f) PROVE LinkTypeOK'
    BY <1>4, SendType
  <1>5. ASSUME NEW s \in Services, NEW k \in 0..WireCap, Crash(s, k) PROVE LinkTypeOK'
    BY <1>5, CrashType
  <1>6. CASE UNCHANGED linkVars
    BY <1>6 DEF linkVars, LinkTypeOK
  <1> QED
    BY <1>1, <1>2, <1>3, <1>4, <1>5, <1>6 DEF LinkNext

(***************************************************************************)
(* The variables of the link always have their types; in particular the    *)
(* receive thread never touches a NULL socket and never handles a frame    *)
(* it has not received.                                                    *)
(***************************************************************************)
THEOREM LinkTypeCorrect == LinkSpec => []LinkTypeOK
  <1> QED
    BY LinkInitType, LinkNextType, PTL DEF LinkSpec

(***************************************************************************)
(* The receive thread and the accept thread                                *)
(***************************************************************************)

\* The connections that wait to be accepted are open, all different, and not
\* the one in use; and the socket variable names an open connection except
\* between closesocket and the assignment of NULL.
LinkInv ==
  /\ \A i \in DOMAIN backlog :
       /\ backlog[i] \in ends[HOST]
       /\ backlog[i] <= opened
       /\ backlog[i] # sock[HOST]
       /\ \A j \in DOMAIN backlog : backlog[i] = backlog[j] => i = j
  /\ sock[HOST] # INVALID => sock[HOST] <= opened
  /\ \A s \in Services : rpc[s] # "null" /\ sock[s] \in Conns => sock[s] \in ends[s]

LEMMA LinkInvInit == LinkInit => LinkInv
BY LinkAssumption DEF LinkInit, LinkInv, Conns, NULL, Services, HOST

LEMMA LinkInvStart ==
  ASSUME LinkTypeOK, LinkInv, StartHost \/ StartPeer
  PROVE  LinkInv'
  <1>1. CASE StartHost
    BY <1>1 DEF StartHost, LinkInv
  <1>2. CASE StartPeer
    <2>1. /\ opened \in Nat /\ opened' = opened + 1 /\ opened' \in Conns
          /\ opened' # INVALID
          /\ sock[HOST] \in Nat
      <3>1. /\ opened \in Nat /\ opened' = opened + 1 /\ opened < MaxConn /\ MaxConn \in Nat
        BY <1>2, LinkAssumption DEF StartPeer, LinkTypeOK
      <3>2. opened' \in Conns /\ opened' # INVALID
        BY <3>1 DEF Conns, INVALID
      <3>3. sock[HOST] \in Conns \cup {NULL, INVALID}
        BY DEF LinkTypeOK, Services
      <3> QED
        BY <3>1, <3>2, <3>3 DEF Conns, NULL, INVALID
    <2>2. /\ \A i \in DOMAIN backlog' : backlog'[i] = IF i = Len(backlog) + 1 THEN opened' ELSE backlog[i]
          /\ DOMAIN backlog' = 1..(Len(backlog) + 1)
          /\ DOMAIN backlog = 1..Len(backlog)
          /\ Len(backlog) \in Nat
          /\ \A i \in DOMAIN backlog : backlog[i] \in Nat
      <3>1. backlog \in Seq(Conns) /\ backlog' = Append(backlog, opened')
        BY <1>2 DEF StartPeer, LinkTypeOK
      <3>2. \A i \in DOMAIN backlog : backlog[i] \in Conns
        BY <3>1, ElementOfSeq, LenProperties
      <3> QED
        BY <2>1, <3>1, <3>2, AppendIndex DEF Conns
    <2>3. sock'[HOST] = sock[HOST] /\ sock'[PEER] = opened'
      BY <1>2 DEF StartPeer, LinkTypeOK, Services, HOST, PEER
    <2>4. \A s \in Services : ends'[s] = ends[s] \cup {opened'}
      BY <1>2 DEF StartPeer
    <2>5. HOST \in Services /\ \A s \in Services : s = HOST \/ s = PEER
      BY DEF Services
    <2>6. \A i \in DOMAIN backlog' :
             /\ backlog'[i] \in ends'[HOST]
             /\ backlog'[i] <= opened'
             /\ backlog'[i] # sock'[HOST]
             /\ \A j \in DOMAIN backlog' : backlog'[i] = backlog'[j] => i = j
      BY <2>1, <2>2, <2>3, <2>4, <2>5 DEF LinkInv
    <2>7. sock'[HOST] # INVALID => sock'[HOST] <= opened'
      BY <2>1, <2>3 DEF LinkInv
    <2>8. \A s \in Services : rpc'[s] # "null" /\ sock'[s] \in Conns => sock'[s] \in ends'[s]
      BY <1>2, <2>3, <2>4, <2>5 DEF StartPeer, LinkInv
    <2> QED
      BY <2>6, <2>7, <2>8 DEF LinkInv
  <1> QED
    BY <1>1, <1>2

LEMMA LinkInvAccept ==
  ASSUME LinkTypeOK, LinkInv, AcceptThread
  PROVE  LinkInv'
  <1>1. /\ backlog \in Seq(Conns) /\ backlog # <<>> /\ backlog' = Tail(backlog)
        /\ UNCHANGED <<opened, rpc>>
    BY DEF AcceptThread, Accept, AcceptFails, LinkTypeOK
  <1>2. /\ Len(backlog) \in Nat \ {0} /\ DOMAIN backlog = 1..Len(backlog)
        /\ DOMAIN backlog' = 1..(Len(backlog) - 1)
        /\ \A i \in 1..(Len(backlog) - 1) : backlog'[i] = backlog[i + 1]
        /\ Head(backlog) = backlog[1]
        /\ \A i \in DOMAIN backlog' : i + 1 \in DOMAIN backlog /\ i + 1 # 1
    <2>1. /\ Len(backlog) \in Nat \ {0} /\ DOMAIN backlog = 1..Len(backlog)
          /\ DOMAIN backlog' = 1..(Len(backlog) - 1)
          /\ \A i \in 1..(Len(backlog) - 1) : backlog'[i] = backlog[i + 1]
          /\ Head(backlog) = backlog[1]
      BY <1>1, TailIndex
    <2>2. \A i \in 1..(Len(backlog) - 1) : i + 1 \in 1..Len(backlog) /\ i + 1 # 1
      BY <2>1
    <2> QED
      BY <2>1, <2>2
  <1>3. HOST \in Services /\ PEER \in Services /\ \A s \in Services : s = HOST \/ s = PEER
    BY DEF Services
  <1>4. \A i \in DOMAIN backlog' :
          /\ backlog'[i] \in ends[HOST] \ {backlog[1]}
          /\ backlog'[i] <= opened
          /\ \A j \in DOMAIN backlog' : backlog'[i] = backlog'[j] => i = j
    BY <1>2 DEF LinkInv
  <1>5. CASE Accept
    <2>1. sock' = [sock EXCEPT ![HOST] = backlog[1]] /\ ends' = ends
      BY <1>2, <1>5 DEF Accept
    <2>2. sock'[HOST] = backlog[1] /\ backlog[1] \in ends[HOST] /\ backlog[1] <= opened
      <3>1. 1 \in DOMAIN backlog
        BY <1>2
      <3> QED
        BY <1>3, <2>1, <3>1 DEF LinkInv, LinkTypeOK
    <2>3. \A s \in Services : rpc'[s] # "null" /\ sock'[s] \in Conns => sock'[s] \in ends'[s]
      BY <1>1, <1>3, <2>1, <2>2 DEF LinkInv, LinkTypeOK
    <2> QED
      BY <1>1, <1>4, <2>1, <2>2, <2>3 DEF LinkInv
  <1>6. CASE AcceptFails
    <2>1. /\ sock' = [sock EXCEPT ![HOST] = INVALID]
          /\ ends' = [ends EXCEPT ![HOST] = @ \ {backlog[1]}]
      BY <1>2, <1>6 DEF AcceptFails
    <2>2. sock'[HOST] = INVALID /\ ends'[HOST] = ends[HOST] \ {backlog[1]} /\ INVALID \notin Conns
      BY <1>3, <2>1, LinkAssumption DEF LinkTypeOK, Conns, INVALID
    <2>3. \A s \in Services : rpc'[s] # "null" /\ sock'[s] \in Conns => sock'[s] \in ends'[s]
      BY <1>1, <1>3, <2>1, <2>2 DEF LinkInv, LinkTypeOK
    <2>4. \A i \in DOMAIN backlog' : backlog'[i] # sock'[HOST]
      BY <1>2, <1>4, <1>3, <2>2 DEF LinkTypeOK
    <2> QED
      BY <1>1, <1>4, <2>2, <2>3, <2>4 DEF LinkInv
  <1> QED
    BY <1>5, <1>6 DEF AcceptThread

LEMMA LinkInvRecvThread ==
  ASSUME LinkTypeOK, LinkInv, NEW s \in Services, RecvThread(s)
  PROVE  LinkInv'
  <1>1. CASE Select(s) \/ RecvFrames(s) \/ RecvNothing(s) \/ HandleFrame(s)
    BY <1>1 DEF Select, RecvFrames, RecvNothing, HandleFrame, LinkInv, LinkTypeOK
  <1>2. CASE CloseSock(s)
    BY <1>2 DEF CloseSock, LinkInv, LinkTypeOK, Services
  <1>3. CASE NullSock(s)
    <2>1. /\ backlog \in Seq(Conns)
          /\ \A i \in DOMAIN backlog : backlog[i] # NULL
          /\ opened \in Nat
      <3>1. backlog \in Seq(Conns) /\ opened \in Nat
        BY LinkAssumption DEF LinkTypeOK
      <3>2. \A i \in DOMAIN backlog : backlog[i] \in Conns
        BY <3>1, ElementOfSeq, LenProperties
      <3> QED
        BY <3>1, <3>2 DEF Conns, NULL
    <2>2. /\ \A t \in Services : sock'[t] = IF t = s THEN NULL ELSE sock[t]
          /\ \A t \in Services : rpc'[t] = IF t = s THEN "loop" ELSE rpc[t]
          /\ UNCHANGED <<ends, backlog, opened>>
      BY <1>3 DEF NullSock, LinkTypeOK
    <2>3. HOST \in Services /\ NULL \notin Conns /\ NULL <= opened
      BY <2>1 DEF Services, Conns, NULL
    <2> QED
      BY <2>1, <2>2, <2>3 DEF LinkInv
  <1> QED
    BY <1>1, <1>2, <1>3 DEF RecvThread

LEMMA LinkInvCrash ==
  ASSUME LinkTypeOK, LinkInv, NEW s \in Services, NEW k \in 0..WireCap, Crash(s, k)
  PROVE  LinkInv'
  <1>1. opened \in Nat /\ backlog \in Seq(Conns)
    BY LinkAssumption DEF LinkTypeOK
  <1>2. \A i \in DOMAIN backlog : backlog[i] # NULL
    BY <1>1, ElementOfSeq, LenProperties, LinkAssumption DEF Conns, NULL
  <1>3. /\ sock' = [sock EXCEPT ![s] = NULL]
        /\ ends' = [ends EXCEPT ![s] = {}]
        /\ rpc' = [rpc EXCEPT ![s] = "loop"]
        /\ backlog' = IF s = HOST THEN <<>> ELSE backlog
        /\ opened' = opened
    BY DEF Crash
  <1>4. /\ HOST \in Services /\ sock \in [Services -> Conns \cup {NULL, INVALID}]
        /\ ends \in [Services -> SUBSET Conns] /\ DOMAIN rpc = Services
        /\ NULL \notin Conns
    BY LinkAssumption DEF LinkTypeOK, Services, Conns, NULL
  <1>5. CASE s = HOST
    BY <1>1, <1>3, <1>4, <1>5 DEF LinkInv, NULL
  <1>6. CASE s # HOST
    BY <1>1, <1>3, <1>4, <1>6 DEF LinkInv
  <1> QED
    BY <1>5, <1>6

\* The steps of a send touch neither connections nor socket variables.
LEMMA LinkInvSend ==
  ASSUME LinkInv, NEW s \in Services, NEW f \in Frames, Send(s, f)
  PROVE  LinkInv'
BY DEF Send, SendDone, SendLost, SendFails, linkVars, LinkInv

LEMMA LinkInvNext == LinkTypeOK /\ LinkInv /\ [LinkNext]_linkVars => LinkInv'
  <1> SUFFICES ASSUME LinkTypeOK, LinkInv, [LinkNext]_linkVars PROVE LinkInv'
    OBVIOUS
  <1>1. CASE StartHost \/ StartPeer
    BY <1>1, LinkInvStart
  <1>2. CASE AcceptThread
    BY <1>2, LinkInvAccept
  <1>3. ASSUME NEW s \in Services, RecvThread(s) PROVE LinkInv'
    BY <1>3, LinkInvRecvThread
  <1>4. ASSUME NEW s \in Services, NEW f \in Frames, Send(s, f) PROVE LinkInv'
    BY <1>4, LinkInvSend
  <1>5. ASSUME NEW s \in Services, NEW k \in 0..WireCap, Crash(s, k) PROVE LinkInv'
    BY <1>5, LinkInvCrash
  <1>6. CASE UNCHANGED linkVars
    BY <1>6 DEF linkVars, LinkInv
  <1> QED
    BY <1>1, <1>2, <1>3, <1>4, <1>5, <1>6 DEF LinkNext

(***************************************************************************)
(* Although the accept thread overwrites the socket variable and the       *)
(* receive thread closes whatever it finds in it, with no lock between     *)
(* them, the receive thread never goes back to select on a closed handle.  *)
(***************************************************************************)
THEOREM LinkNeverSelectsClosed == LinkSpec => []NeverSelectsClosed
  <1>1. LinkInit => LinkTypeOK /\ LinkInv
    BY LinkInitType, LinkInvInit
  <1>2. LinkTypeOK /\ LinkInv /\ [LinkNext]_linkVars => (LinkTypeOK /\ LinkInv)'
    BY LinkNextType, LinkInvNext
  <1>3. LinkInv => NeverSelectsClosed
    BY DEF LinkInv, NeverSelectsClosed
  <1> QED
    BY <1>1, <1>2, <1>3, PTL DEF LinkSpec

(***************************************************************************)
(* Connections are read in the order they were opened                      *)
(*                                                                         *)
(* Frames wait on connections that are read, or accepted later, only; the  *)
(* peer sends on the newest connection and the host reads the oldest one   *)
(* of these.                                                               *)
(***************************************************************************)

\* The peer has the newest connection open at most.
PeerNewest ==
  /\ \A c \in ends[PEER] : c = opened /\ c = sock[PEER]
  /\ rpc[PEER] = "null" \/ ~running[PEER] => ends[PEER] = {}
  /\ ~running[PEER] => rpc[PEER] = "loop"

\* Those that wait to be accepted are newer than the one in use.
InTurn ==
  /\ \A i, j \in DOMAIN backlog : j < i => backlog[j] < backlog[i]
  /\ sock[HOST] # INVALID => \A i \in DOMAIN backlog : sock[HOST] < backlog[i]

FramesRead == \A s \in Services, c \in Conns : wire[s][c] # <<>> => Reads(s, c)

TurnInv == PeerNewest /\ InTurn /\ FramesRead

LEMMA TurnInit == LinkInit => TurnInv
BY DEF LinkInit, TurnInv, PeerNewest, InTurn, FramesRead, Services, PEER

\* The backlog as numbers, and the two services.
LEMMA BacklogFacts ==
  ASSUME LinkTypeOK
  PROVE  /\ HOST \in Services /\ PEER \in Services /\ HOST # PEER
         /\ \A s \in Services : s = HOST \/ s = PEER
         /\ opened \in Nat /\ Len(backlog) \in Nat /\ DOMAIN backlog = 1..Len(backlog)
         /\ \A i \in DOMAIN backlog : backlog[i] \in Conns
         /\ \A c \in Conns : c \in Nat /\ c # NULL /\ c # INVALID /\ 0 < c
         /\ \A c : c \in Range(backlog) <=> \E i \in DOMAIN backlog : backlog[i] = c
  <1>1. backlog \in Seq(Conns) /\ opened \in Nat
    BY LinkAssumption DEF LinkTypeOK
  <1>2. \A i \in DOMAIN backlog : backlog[i] \in Conns
    BY <1>1, ElementOfSeq, LenProperties
  <1>3. \A c \in Conns : c \in Nat /\ c # NULL /\ c # INVALID /\ 0 < c
    BY LinkAssumption DEF Conns, NULL, INVALID
  <1> QED
    BY <1>1, <1>2, <1>3, LenProperties DEF Services, HOST, PEER, Range

LEMMA TurnStart ==
  ASSUME LinkTypeOK, LinkInv, TurnInv, StartHost \/ StartPeer
  PROVE  TurnInv'
  <1>1. CASE StartHost
    BY <1>1, BacklogFacts DEF StartHost, TurnInv, PeerNewest, InTurn, FramesRead, Reads, LinkTypeOK
  <1>2. CASE StartPeer
    <2>1. /\ opened' = opened + 1 /\ opened' \in Conns
          /\ sock'[HOST] = sock[HOST] /\ sock'[PEER] = opened'
          /\ \A s \in Services : ends'[s] = ends[s] \cup {opened'}
          /\ running'[PEER] /\ rpc' = rpc /\ wire' = wire
          /\ ends[PEER] = {} /\ rpc[PEER] = "loop"
          /\ sock[HOST] \in Nat
      <3>1. opened' = opened + 1 /\ opened' \in Conns /\ ~running[PEER]
        BY <1>2, BacklogFacts, LinkAssumption DEF StartPeer, LinkTypeOK, Conns
      <3>2. sock' = [sock EXCEPT ![PEER] = opened'] /\ running' = [running EXCEPT ![PEER] = TRUE]
            /\ ends' = [s \in Services |-> ends[s] \cup {opened'}] /\ rpc' = rpc /\ wire' = wire
        BY <1>2 DEF StartPeer
      <3>3. sock[HOST] \in Nat
        <4>1. sock[HOST] \in Conns \cup {NULL, INVALID}
          BY BacklogFacts DEF LinkTypeOK
        <4> QED
          BY <4>1, BacklogFacts, LinkAssumption DEF NULL, INVALID
      <3>4. ends[PEER] = {} /\ rpc[PEER] = "loop"
        BY <3>1 DEF TurnInv, PeerNewest
      <3> QED
        BY <3>1, <3>2, <3>3, <3>4, BacklogFacts DEF LinkTypeOK
    <2>2. /\ DOMAIN backlog' = 1..(Len(backlog) + 1)
          /\ \A i \in 1..(Len(backlog) + 1) :
               backlog'[i] = IF i = Len(backlog) + 1 THEN opened' ELSE backlog[i]
      BY <1>2, <2>1, AppendIndex DEF StartPeer, LinkTypeOK
    <2>3. PeerNewest'
      BY <2>1, BacklogFacts DEF PeerNewest
    <2>4. InTurn'
      <3>1. \A i \in DOMAIN backlog : backlog[i] < opened'
        BY <2>1, BacklogFacts DEF LinkInv
      <3>2. sock[HOST] # INVALID => sock[HOST] < opened'
        BY <2>1, BacklogFacts DEF LinkInv
      <3>3. Len(backlog) \in Nat /\ DOMAIN backlog = 1..Len(backlog)
        BY LenProperties DEF LinkTypeOK
      <3>4. ASSUME NEW i \in DOMAIN backlog', NEW j \in DOMAIN backlog', j < i
            PROVE  backlog'[j] < backlog'[i]
        <4>1. j \in DOMAIN backlog /\ backlog'[j] = backlog[j]
          BY ONLY <2>2, <3>3, <3>4
        <4>2. CASE i \in DOMAIN backlog
          <5>1. backlog'[i] = backlog[i]
            BY ONLY <2>2, <3>3, <4>2
          <5> QED
            BY <3>4, <4>1, <4>2, <5>1 DEF TurnInv, InTurn
        <4>3. CASE i \notin DOMAIN backlog
          <5>1. backlog'[i] = opened'
            BY ONLY <2>2, <3>3, <3>4, <4>3
          <5> QED
            BY <3>1, <4>1, <5>1
        <4> QED
          BY <4>2, <4>3
      <3>5. ASSUME sock[HOST] # INVALID, NEW i \in DOMAIN backlog'
            PROVE  sock[HOST] < backlog'[i]
        <4>1. CASE i \in DOMAIN backlog
          <5>1. backlog'[i] = backlog[i]
            BY ONLY <2>2, <3>3, <4>1
          <5> QED
            BY <3>5, <4>1, <5>1 DEF TurnInv, InTurn
        <4>2. CASE i \notin DOMAIN backlog
          <5>1. backlog'[i] = opened'
            BY ONLY <2>2, <3>3, <3>5, <4>2
          <5> QED
            BY <3>2, <3>5, <5>1
        <4> QED
          BY <4>1, <4>2
      <3>6. INVALID' = INVALID /\ sock'[HOST] = sock[HOST]
        BY <2>1, BacklogFacts DEF INVALID
      <3> QED
        BY <3>4, <3>5, <3>6 DEF InTurn
    <2>5. FramesRead'
      <3> SUFFICES ASSUME NEW s \in Services, NEW c \in Conns, wire[s][c] # <<>>
                   PROVE  Reads(s, c)'
        BY <2>1 DEF FramesRead
      <3>1. c \in ends[s] /\ s = HOST /\ (sock[HOST] = c \/ c \in Range(backlog))
        BY <2>1, BacklogFacts DEF TurnInv, FramesRead, Reads
      <3>2. c \in Range(backlog) => \E i \in DOMAIN backlog' : backlog'[i] = c
        BY <2>2, BacklogFacts
      <3> QED
        BY <2>1, <3>1, <3>2 DEF Reads, Range
    <2> QED
      BY <2>3, <2>4, <2>5 DEF TurnInv
  <1> QED
    BY <1>1, <1>2

LEMMA TurnAccept ==
  ASSUME LinkTypeOK, LinkInv, TurnInv, AcceptThread
  PROVE  TurnInv'
  <1>1. /\ backlog \in Seq(Conns) /\ backlog # <<>> /\ backlog' = Tail(backlog)
        /\ UNCHANGED <<opened, rpc, running>>
    BY DEF AcceptThread, Accept, AcceptFails, LinkTypeOK
  <1>2. /\ Len(backlog) \in Nat \ {0} /\ DOMAIN backlog = 1..Len(backlog)
        /\ DOMAIN backlog' = 1..(Len(backlog) - 1)
        /\ \A i \in 1..(Len(backlog) - 1) : backlog'[i] = backlog[i + 1]
        /\ Head(backlog) = backlog[1]
        /\ \A i \in DOMAIN backlog' : i \in Nat /\ i + 1 \in DOMAIN backlog /\ 1 < i + 1
    BY <1>1, TailIndex
  <1>3. /\ sock'[PEER] = sock[PEER] /\ ends'[PEER] = ends[PEER]
        /\ sock'[HOST] \in {backlog[1], INVALID}
        /\ \A c : c \in ends[HOST] /\ c # backlog[1] => c \in ends'[HOST]
    BY <1>2, BacklogFacts DEF AcceptThread, Accept, AcceptFails, LinkTypeOK
  <1>4. /\ \A c \in Conns : wire'[HOST][c] # <<>> => wire[HOST][c] # <<>> /\ c # sock[HOST]
        /\ \A c \in Conns : wire'[PEER][c] = wire[PEER][c]
        /\ Accept \/ \A c \in Conns : wire'[HOST][c] # <<>> => c # backlog[1]
    <2>1. \A C : \A t \in Services, c \in Conns :
            Discard(HOST, C)[t][c] = IF t = HOST /\ c \in C THEN <<>> ELSE wire[t][c]
      BY BacklogFacts, DiscardType
    <2>2. CASE Accept
      <3>1. wire' = Discard(HOST, {sock[HOST]})
        BY <2>2 DEF Accept
      <3> QED
        BY <2>1, <2>2, <3>1, BacklogFacts
    <2>3. CASE AcceptFails
      <3>1. wire' = Discard(HOST, {sock[HOST], backlog[1]})
        BY <1>2, <2>3 DEF AcceptFails
      <3> QED
        BY <2>1, <3>1, BacklogFacts
    <2> QED
      BY <2>2, <2>3 DEF AcceptThread
  <1>5. PeerNewest'
    BY <1>1, <1>3 DEF TurnInv, PeerNewest
  <1>6. InTurn'
    <2>1. \A i, j \in DOMAIN backlog' : j < i => j + 1 < i + 1
      BY <1>2
    <2>2. \A i, j \in DOMAIN backlog' : j < i => backlog'[j] < backlog'[i]
      BY <1>2, <2>1 DEF TurnInv, InTurn
    <2>3. 1 \in DOMAIN backlog /\ \A i \in DOMAIN backlog' : backlog[1] < backlog'[i]
      BY <1>2 DEF TurnInv, InTurn
    <2> QED
      BY <1>3, <2>2, <2>3 DEF InTurn, INVALID
  <1>7. FramesRead'
    <2>1. ASSUME NEW c \in Conns, wire'[PEER][c] # <<>> PROVE Reads(PEER, c)'
      BY <1>3, <1>4, <2>1, BacklogFacts DEF TurnInv, FramesRead, PeerNewest, Reads
    <2>2. ASSUME NEW c \in Conns, wire'[HOST][c] # <<>> PROVE Reads(HOST, c)'
      <3>1. c \in ends[HOST] /\ \E i \in DOMAIN backlog : backlog[i] = c
        BY <1>4, <2>2, BacklogFacts DEF TurnInv, FramesRead, Reads
      <3>2. CASE c = backlog[1]
        <4>1. Accept
          BY <1>4, <2>2, <3>2
        <4>2. sock'[HOST] = c /\ ends' = ends
          BY <1>2, <3>2, <4>1, BacklogFacts DEF Accept, LinkTypeOK
        <4> QED
          BY <3>1, <4>2 DEF Reads
      <3>3. CASE c # backlog[1]
        <4>1. PICK i \in DOMAIN backlog : backlog[i] = c /\ i # 1
          BY <3>1, <3>3
        <4>2. i - 1 \in DOMAIN backlog' /\ backlog'[i - 1] = c
          BY <1>2, <4>1
        <4> QED
          BY <1>3, <3>1, <3>3, <4>2 DEF Reads, Range
      <3> QED
        BY <3>2, <3>3
    <2> QED
      BY <2>1, <2>2, BacklogFacts DEF FramesRead
  <1> QED
    BY <1>5, <1>6, <1>7 DEF TurnInv

LEMMA TurnRecvThread ==
  ASSUME LinkTypeOK, TurnInv, NEW s \in Services, RecvThread(s)
  PROVE  TurnInv'
  <1>1. CASE Select(s) \/ RecvNothing(s) \/ HandleFrame(s) \/ RecvFrames(s)
    <2>1. /\ UNCHANGED <<running, sock, ends, backlog, opened>>
          /\ \A t \in Services : rpc'[t] = "null" => rpc[t] = "null"
      BY <1>1 DEF Select, RecvNothing, HandleFrame, RecvFrames, LinkTypeOK
    <2>2. ~running[PEER] => rpc'[PEER] = "loop"
      BY <1>1, BacklogFacts DEF Select, RecvNothing, HandleFrame, RecvFrames, LinkTypeOK, TurnInv, PeerNewest
    <2>3. \A t \in Services, c \in Conns : wire'[t][c] # <<>> => wire[t][c] # <<>>
      <3>1. CASE RecvFrames(s)
        <4>1. PICK k \in 1..Len(wire[s][sock[s]]) :
                wire' = [wire EXCEPT ![s][sock[s]] = SubSeq(wire[s][sock[s]], k + 1, Len(wire[s][sock[s]]))]
          BY <3>1 DEF RecvFrames
        <4>2. Len(wire[s][sock[s]]) # 0
          BY <4>1
        <4>3. sock[s] \in Conns /\ wire[s][sock[s]] # <<>>
          BY <3>1, <4>2 DEF RecvFrames
        <4> QED
          BY <4>1, <4>3 DEF LinkTypeOK
      <3> QED
        BY <1>1, <3>1 DEF Select, RecvNothing, HandleFrame
    <2> QED
      BY <2>1, <2>2, <2>3, BacklogFacts DEF TurnInv, PeerNewest, InTurn, FramesRead, Reads
  <1>2. CASE CloseSock(s)
    <2>1. /\ UNCHANGED <<running, sock, backlog, opened>>
          /\ \A t \in Services : ends'[t] = IF t = s THEN ends[t] \ {sock[s]} ELSE ends[t]
          /\ \A t \in Services : rpc'[t] = IF t = s THEN "null" ELSE rpc[t]
          /\ rpc[s] = "close"
      BY <1>2 DEF CloseSock, LinkTypeOK
    <2>2. \A t \in Services, c \in Conns :
            wire'[t][c] # <<>> => wire[t][c] # <<>> /\ ~(t = s /\ c = sock[s])
      BY <1>2, DiscardType DEF CloseSock
    <2>3. PeerNewest'
      BY <2>1, BacklogFacts DEF TurnInv, PeerNewest
    <2>4. InTurn'
      BY <2>1 DEF TurnInv, InTurn
    <2>5. FramesRead'
      BY <2>1, <2>2 DEF TurnInv, FramesRead, Reads
    <2> QED
      BY <2>3, <2>4, <2>5 DEF TurnInv
  <1>3. CASE NullSock(s)
    <2>1. /\ UNCHANGED <<running, ends, backlog, opened>>
          /\ \A t \in Services : sock'[t] = IF t = s THEN NULL ELSE sock[t]
          /\ \A t \in Services : rpc'[t] = IF t = s THEN "loop" ELSE rpc[t]
          /\ rpc[s] = "null"
      BY <1>3 DEF NullSock, LinkTypeOK
    <2>2. \A t \in Services, c \in Conns :
            wire'[t][c] # <<>> => wire[t][c] # <<>> /\ ~(t = s /\ c = sock[s])
      BY <1>3, DiscardType DEF NullSock
    <2>3. PeerNewest'
      BY <2>1, BacklogFacts DEF TurnInv, PeerNewest
    <2>4. InTurn'
      BY <2>1, BacklogFacts DEF TurnInv, InTurn, NULL
    <2>5. FramesRead'
      BY <2>1, <2>2 DEF TurnInv, FramesRead, Reads
    <2> QED
      BY <2>3, <2>4, <2>5 DEF TurnInv
  <1> QED
    BY <1>1, <1>2, <1>3 DEF RecvThread

LEMMA TurnSend ==
  ASSUME LinkTypeOK, TurnInv, NEW s \in Services, NEW f \in Frames, Send(s, f)
  PROVE  TurnInv'
  <1>1. CASE SendDone(s, f)
    <2>1. /\ UNCHANGED <<running, sock, ends, backlog, opened, rpc>>
          /\ Reads(Other(s), sock[s])
          /\ \A t \in Services, c \in Conns :
               wire'[t][c] # wire[t][c] => t = Other(s) /\ c = sock[s]
      BY <1>1 DEF SendDone, LinkTypeOK
    <2>2. FramesRead'
      BY <2>1 DEF TurnInv, FramesRead, Reads
    <2> QED
      BY <2>1, <2>2 DEF TurnInv, PeerNewest, InTurn
  <1>2. CASE SendLost(s) \/ SendFails(s)
    BY <1>2 DEF SendLost, SendFails, linkVars, TurnInv, PeerNewest, InTurn, FramesRead, Reads
  <1> QED
    BY <1>1, <1>2 DEF Send

LEMMA TurnCrash ==
  ASSUME LinkTypeOK, TurnInv, NEW s \in Services, NEW k \in 0..WireCap, Crash(s, k)
  PROVE  TurnInv'
  <1>1. /\ opened' = opened
        /\ backlog' = IF s = HOST THEN <<>> ELSE backlog
        /\ \A t \in Services :
             /\ running'[t] = IF t = s THEN FALSE ELSE running[t]
             /\ sock'[t] = IF t = s THEN NULL ELSE sock[t]
             /\ ends'[t] = IF t = s THEN {} ELSE ends[t]
             /\ rpc'[t] = IF t = s THEN "loop" ELSE rpc[t]
    BY DEF Crash, LinkTypeOK
  <1>2. \A t \in Services, c \in Conns : wire'[t][c] # <<>> => wire[t][c] # <<>> /\ t # s
    <2> SUFFICES ASSUME NEW t \in Services, NEW c \in Conns, wire'[t][c] # <<>>
                 PROVE  wire[t][c] # <<>> /\ t # s
      OBVIOUS
    <2>1. wire'[t][c] = IF t = s THEN <<>>
                        ELSE IF c \in ends[s] /\ k < Len(wire[t][c]) THEN SubSeq(wire[t][c], 1, k)
                        ELSE wire[t][c]
      BY DEF Crash
    <2>2. wire[t][c] = <<>> => ~(k < Len(wire[t][c]))
      BY LinkAssumption
    <2> QED
      BY <2>1, <2>2
  <1>3. PeerNewest'
    BY <1>1, BacklogFacts DEF TurnInv, PeerNewest
  <1>4. InTurn'
    <2>1. CASE s = HOST
      BY <1>1, <2>1, BacklogFacts DEF InTurn
    <2>2. CASE s # HOST
      BY <1>1, <2>2, BacklogFacts DEF TurnInv, InTurn
    <2> QED
      BY <2>1, <2>2
  <1>5. FramesRead'
    <2> SUFFICES ASSUME NEW t \in Services, NEW c \in Conns, wire'[t][c] # <<>>
                 PROVE  Reads(t, c)'
      BY DEF FramesRead
    <2>1. t # s /\ c \in ends[t] /\ (sock[t] = c \/ c \in Range(backlog))
      BY <1>2 DEF TurnInv, FramesRead, Reads
    <2>2. s = HOST => sock[t] = c
      BY <2>1, BacklogFacts DEF TurnInv, PeerNewest
    <2> QED
      BY <1>1, <2>1, <2>2 DEF Reads
  <1> QED
    BY <1>3, <1>4, <1>5 DEF TurnInv

LEMMA TurnNext == LinkTypeOK /\ LinkInv /\ TurnInv /\ [LinkNext]_linkVars => TurnInv'
  <1> SUFFICES ASSUME LinkTypeOK, LinkInv, TurnInv, [LinkNext]_linkVars PROVE TurnInv'
    OBVIOUS
  <1>1. CASE StartHost \/ StartPeer
    BY <1>1, TurnStart
  <1>2. CASE AcceptThread
    BY <1>2, TurnAccept
  <1>3. ASSUME NEW s \in Services, RecvThread(s) PROVE TurnInv'
    BY <1>3, TurnRecvThread
  <1>4. ASSUME NEW s \in Services, NEW f \in Frames, Send(s, f) PROVE TurnInv'
    BY <1>4, TurnSend
  <1>5. ASSUME NEW s \in Services, NEW k \in 0..WireCap, Crash(s, k) PROVE TurnInv'
    BY <1>5, TurnCrash
  <1>6. CASE UNCHANGED linkVars
    BY <1>6 DEF linkVars, TurnInv, PeerNewest, InTurn, FramesRead, Reads
  <1> QED
    BY <1>1, <1>2, <1>3, <1>4, <1>5, <1>6 DEF LinkNext

\* What a service sends goes on the newest connection, and what it receives
\* comes from the oldest that has frames for it.
LEMMA TurnFacts ==
  ASSUME LinkTypeOK, LinkInv, TurnInv
  PROVE  /\ \A s \in Services, c \in Conns : wire[s][c] # <<>> => c <= opened
         /\ \A s \in Services, c \in Conns :
              sock[s] \in Conns /\ wire[s][sock[s]] # <<>> /\ wire[s][c] # <<>> => sock[s] <= c
         /\ \A s \in Services :
              sock[s] \in ends[s] /\ Reads(Other(s), sock[s]) => sock[s] = opened
  <1>1. ASSUME NEW s \in Services, NEW c \in Conns, wire[s][c] # <<>>
        PROVE  /\ c <= opened
               /\ s = PEER => c = opened
               /\ s = HOST /\ sock[HOST] \in Conns => sock[HOST] <= c
    <2>1. c \in ends[s] /\ (sock[s] = c \/ \E i \in DOMAIN backlog : backlog[i] = c)
      BY <1>1, BacklogFacts DEF TurnInv, FramesRead, Reads
    <2>2. CASE s = PEER
      <3>1. c = opened
        BY <2>1, <2>2 DEF TurnInv, PeerNewest
      <3> QED
        BY <2>2, <3>1, BacklogFacts
    <2>3. CASE s = HOST
      BY <2>1, <2>3, BacklogFacts DEF TurnInv, InTurn, LinkInv
    <2> QED
      BY <2>2, <2>3, BacklogFacts
  <1>2. ASSUME NEW s \in Services, sock[s] \in ends[s], Reads(Other(s), sock[s])
        PROVE  sock[s] = opened
    BY <1>2, BacklogFacts DEF TurnInv, PeerNewest, Reads, Other
  <1>3. ASSUME NEW s \in Services, NEW c \in Conns,
               sock[s] \in Conns, wire[s][sock[s]] # <<>>, wire[s][c] # <<>>
        PROVE  sock[s] <= c
    BY <1>1, <1>3, BacklogFacts
  <1> QED
    BY <1>1, <1>2, <1>3

(***************************************************************************)
(* The link until a service first stops                                    *)
(***************************************************************************)

\* Before the peer starts there is no connection; afterwards the only one,
\* number 1, is open at both ends, used by the peer, and on its way through
\* the backlog into the variable of the host.  No receive thread is about to
\* read from a connection without data, so none comes to close it.
Undisturbed ==
  /\ \A s \in Services : rpc[s] \notin {"close", "null"}
  /\ \A s \in Services : rpc[s] = "ready" => sock[s] \in Conns /\ wire[s][sock[s]] # <<>>
  /\ ~running[PEER] => opened = 0 /\ backlog = <<>> /\ \A s \in Services : sock[s] = NULL
  /\ running[PEER] =>
       /\ running[HOST] /\ opened = 1 /\ sock[PEER] = 1
       /\ \A s \in Services : 1 \in ends[s]
       /\ \/ backlog = <<1>> /\ sock[HOST] = NULL
          \/ backlog = <<>> /\ sock[HOST] = 1

SoundInv == crashes = 0 => Undisturbed

LEMMA SoundInit == LinkInit => SoundInv
BY DEF LinkInit, SoundInv, Undisturbed, Services, HOST, PEER

LEMMA SoundStart ==
  ASSUME LinkTypeOK, Undisturbed, StartHost \/ StartPeer
  PROVE  Undisturbed'
  <1>0. HOST \in Services /\ PEER \in Services /\ HOST # PEER
    BY DEF Services, HOST, PEER
  <1>1. CASE StartHost
    BY <1>0, <1>1 DEF StartHost, Undisturbed, LinkTypeOK
  <1>2. CASE StartPeer
    <2>1. /\ opened = 0 /\ opened' = 1 /\ backlog = <<>> /\ backlog' = Append(backlog, opened')
          /\ \A s \in Services : sock[s] = NULL
          /\ sock' = [sock EXCEPT ![PEER] = 1]
          /\ running' = [running EXCEPT ![PEER] = TRUE] /\ running[HOST]
          /\ UNCHANGED <<wire, rpc>>
      <3>1. opened = 0 /\ backlog = <<>> /\ \A s \in Services : sock[s] = NULL
        BY <1>2 DEF StartPeer, Undisturbed
      <3>2. opened' = 1
        BY <1>2, <3>1 DEF StartPeer
      <3> QED
        BY <1>2, <3>1, <3>2 DEF StartPeer
    <2>2. backlog' = <<1>>
      BY <2>1
    <2>3. \A s \in Services : rpc[s] # "ready"
      BY <2>1 DEF LinkTypeOK
    <2>4. \A s \in Services : 1 \in ends'[s]
      BY <1>2, <2>1 DEF StartPeer
    <2>5. /\ running'[PEER] /\ running'[HOST]
          /\ sock'[PEER] = 1 /\ sock'[HOST] = NULL
      BY <1>0, <2>1 DEF LinkTypeOK
    <2> QED
      BY <2>1, <2>2, <2>3, <2>4, <2>5 DEF Undisturbed
  <1> QED
    BY <1>1, <1>2

LEMMA SoundAccept ==
  ASSUME LinkTypeOK, Undisturbed, AcceptThread
  PROVE  Undisturbed'
  <1>0. HOST \in Services /\ PEER \in Services /\ HOST # PEER
        /\ \A s \in Services : s = HOST \/ s = PEER
    BY DEF Services, HOST, PEER
  <1>1. /\ running[PEER] /\ backlog = <<1>> /\ sock[HOST] = NULL /\ sock[PEER] = 1
    BY DEF AcceptThread, Accept, AcceptFails, Undisturbed
  <1>2. Accept
    BY <1>0, <1>1 DEF AcceptThread, AcceptFails, Undisturbed
  <1>5. /\ backlog' = <<>> /\ sock'[HOST] = 1 /\ sock'[PEER] = 1
        /\ UNCHANGED <<running, ends, opened, rpc>>
    BY <1>0, <1>1, <1>2 DEF Accept, LinkTypeOK
  <1>3. rpc[HOST] # "ready"
    BY <1>0, <1>1 DEF LinkTypeOK
  <1>4. wire'[PEER] = wire[PEER]
    BY <1>0, <1>2 DEF Accept, Discard, LinkTypeOK
  <1> QED
    BY <1>0, <1>1, <1>3, <1>4, <1>5 DEF Undisturbed

LEMMA SoundRecvThread ==
  ASSUME LinkTypeOK, Undisturbed, NEW s \in Services, RecvThread(s)
  PROVE  Undisturbed'
  <1>1. CASE Select(s)
    <2>1. sock[s] \in ends[Other(s)]
      BY <1>1, LinkAssumption DEF Select, Undisturbed, Other, Services, Conns, NULL
    <2> QED
      BY <1>1, <2>1 DEF Select, Undisturbed, LinkTypeOK
  <1>2. CASE RecvFrames(s)
    <2>1. \A t \in Services : t # s => wire'[t] = wire[t]
      BY <1>2 DEF RecvFrames, LinkTypeOK
    <2> QED
      BY <1>2, <2>1 DEF RecvFrames, Undisturbed, LinkTypeOK
  <1>3. CASE HandleFrame(s)
    BY <1>3 DEF HandleFrame, Undisturbed, LinkTypeOK
  <1>4. CASE RecvNothing(s) \/ CloseSock(s) \/ NullSock(s)
    BY <1>4 DEF RecvNothing, CloseSock, NullSock, Undisturbed
  <1> QED
    BY <1>1, <1>2, <1>3, <1>4 DEF RecvThread

LEMMA SoundSend ==
  ASSUME LinkTypeOK, Undisturbed, NEW s \in Services, NEW f \in Frames, Send(s, f)
  PROVE  Undisturbed'
  <1>1. CASE SendDone(s, f)
    <2>1. /\ Other(s) \in Services /\ sock[s] \in Conns
          /\ wire' = [wire EXCEPT ![Other(s)][sock[s]] = Append(wire[Other(s)][sock[s]], f)]
          /\ UNCHANGED <<running, sock, ends, backlog, opened, rpc>>
      BY <1>1 DEF SendDone, LinkTypeOK, Other, Services
    <2>2. Append(wire[Other(s)][sock[s]], f) # <<>>
      <3>1. wire[Other(s)][sock[s]] \in Seq(Frames)
        BY <2>1 DEF LinkTypeOK
      <3> QED
        BY <3>1, AppendProperties
    <2>3. \A t \in Services : rpc'[t] = "ready" => sock'[t] \in Conns /\ wire'[t][sock'[t]] # <<>>
      BY <2>1, <2>2 DEF Undisturbed, LinkTypeOK
    <2> QED
      BY <2>1, <2>3 DEF Undisturbed
  <1>2. CASE SendLost(s) \/ SendFails(s)
    BY <1>2 DEF SendLost, SendFails, linkVars, Undisturbed
  <1> QED
    BY <1>1, <1>2 DEF Send

LEMMA SoundNext == LinkTypeOK /\ SoundInv /\ [LinkNext]_linkVars => SoundInv'
  <1> SUFFICES ASSUME LinkTypeOK, SoundInv, [LinkNext]_linkVars, crashes' = 0
               PROVE  Undisturbed'
    BY DEF SoundInv
  <1>0. ~(\E s \in Services, k \in 0..WireCap : Crash(s, k))
    BY DEF Crash, LinkTypeOK
  <1>1. crashes = 0 /\ Undisturbed
    <2>1. crashes' = crashes
      BY <1>0 DEF LinkNext, StartHost, StartPeer, AcceptThread, Accept, AcceptFails, RecvThread, Select, RecvFrames,
                  RecvNothing, HandleFrame, CloseSock, NullSock, Send, SendDone, SendLost,
                  SendFails, linkVars
    <2> QED
      BY <2>1 DEF SoundInv
  <1>2. CASE StartHost \/ StartPeer
    BY <1>1, <1>2, SoundStart
  <1>3. CASE AcceptThread
    BY <1>1, <1>3, SoundAccept
  <1>4. ASSUME NEW s \in Services, RecvThread(s) PROVE Undisturbed'
    BY <1>1, <1>4, SoundRecvThread
  <1>5. ASSUME NEW s \in Services, NEW f \in Frames, Send(s, f) PROVE Undisturbed'
    BY <1>1, <1>5, SoundSend
  <1>6. CASE UNCHANGED linkVars
    BY <1>1, <1>6 DEF linkVars, Undisturbed
  <1> QED
    BY <1>0, <1>2, <1>3, <1>4, <1>5, <1>6 DEF LinkNext

(***************************************************************************)
(* Until a service first stops, the one connection is open at both ends,   *)
(* used by the peer and read, or about to be, by the host: whatever the    *)
(* two services send, no thread closes or overwrites a healthy link.       *)
(***************************************************************************)
THEOREM LinkSoundUntilRestart == LinkSpec => []SoundUntilRestart
  <1>1. LinkInit => LinkTypeOK /\ SoundInv
    BY LinkInitType, SoundInit
  <1>2. LinkTypeOK /\ SoundInv /\ [LinkNext]_linkVars => (LinkTypeOK /\ SoundInv)'
    BY LinkNextType, SoundNext
  <1>3. SoundInv => SoundUntilRestart
    <2> SUFFICES ASSUME SoundInv, crashes = 0, running[PEER]
                 PROVE  \E c \in ends[HOST] \cap ends[PEER] : sock[PEER] = c /\ Reads(HOST, c)
      BY DEF SoundUntilRestart
    <2>1. /\ 1 \in ends[HOST] \cap ends[PEER] /\ sock[PEER] = 1
          /\ sock[HOST] = 1 \/ backlog = <<1>>
      BY DEF SoundInv, Undisturbed, Services
    <2>2. Reads(HOST, 1)
      BY <2>1 DEF Reads, Range
    <2> QED
      BY <2>1, <2>2
  <1> QED
    BY <1>1, <1>2, <1>3, PTL DEF LinkSpec
=============================================================================
