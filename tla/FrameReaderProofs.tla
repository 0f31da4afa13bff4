-------------------------- MODULE FrameReaderProofs -------------------------
(***************************************************************************)
(* Proofs about the wire format: that the loops which take frames out of a *)
(* receive buffer keep in step with what serialize_message wrote as long   *)
(* as recv ends where frames do, and how they can lose their place; for    *)
(* any buffer, any sizes of text and any number of frames.                 *)
(***************************************************************************)
EXTENDS FrameReader, SequenceTheorems, WellFoundedInduction, TLAPS

(***************************************************************************)
(* Offsets in the stream                                                   *)
(*                                                                         *)
(* Start is a recursive function: that there is one, and that it increases *)
(* from frame to frame, follows from the least number for which it fails.  *)
(***************************************************************************)

\* A nonempty set of natural numbers has a least element.
LEMMA LeastNat ==
  ASSUME NEW S, S \subseteq Nat, S # {}
  PROVE  \E x \in S : \A y \in S : x <= y
  <1> DEFINE R == {ss \in Nat \X Nat : ss[1] < ss[2]}
  <1>1. IsWellFoundedOn(R, Nat)
    BY NatLessThanWellFounded DEF OpToRel
  <1>2. \E x \in S : \A y \in S : <<y, x>> \notin R
    <2> HIDE DEF R
    <2> QED
      BY <1>1, WFMin
  <1>3. PICK x \in S : \A y \in S : <<y, x>> \notin R
    BY <1>2
  <1>4. \A y \in S : ~(y < x)
    BY <1>3
  <1> QED
    BY <1>4

\* Where the frames of s start.
Offset(s) == CHOOSE w : w = [i \in Nat |-> IF i <= 1 THEN 0 ELSE w[i - 1] + Written(s[i - 1])]

LEMMA StartOffset == Start = Offset(sent) /\ Start' = Offset(sent')
BY DEF Start, Offset

\* What the recursion yields.
LEMMA OffsetDef ==
  ASSUME NEW s
  PROVE  \A i \in Nat : Offset(s)[i] = IF i <= 1 THEN 0 ELSE Offset(s)[i - 1] + Written(s[i - 1])
  <1> DEFINE Good(g, n) == g = [i \in 0..n |-> IF i <= 1 THEN 0 ELSE g[i - 1] + Written(s[i - 1])]
  <1>1. \A g : \A n \in Nat : Good(g, n) =>
          \A i \in 0..n : g[i] = IF i <= 1 THEN 0 ELSE g[i - 1] + Written(s[i - 1])
    OBVIOUS
  <1>2. \A n \in Nat : \E g : Good(g, n)
    <2> DEFINE Bad == {n \in Nat : ~\E g : Good(g, n)}
    <2> SUFFICES ASSUME Bad # {} PROVE FALSE
      OBVIOUS
    <2>1. PICK m \in Bad : \A n \in Bad : m <= n
      <3>1. Bad \subseteq Nat
        OBVIOUS
      <3> HIDE DEF Bad
      <3> QED
        BY <3>1, LeastNat
    <2>2. m \in Nat
      OBVIOUS
    <2>3. CASE m = 0
      <3> DEFINE g == [i \in 0..0 |-> 0]
      <3>1. Good(g, 0)
        OBVIOUS
      <3> QED
        BY <2>3, <3>1
    <2>4. CASE m # 0
      <3>1. m - 1 \in Nat /\ ~(m <= m - 1)
        BY <2>2, <2>4
      <3>2. PICK g : Good(g, m - 1)
        BY <2>1, <3>1
      <3> DEFINE h == [i \in 0..m |-> IF i = m THEN (IF m <= 1 THEN 0 ELSE g[m - 1] + Written(s[m - 1]))
                                      ELSE g[i]]
      <3>3. \A i \in 0..m : h[i] = IF i <= 1 THEN 0 ELSE h[i - 1] + Written(s[i - 1])
        <4>1. \A i \in 0..(m - 1) : g[i] = IF i <= 1 THEN 0 ELSE g[i - 1] + Written(s[i - 1])
          BY <1>1, <3>1, <3>2
        <4>2. \A i \in 0..m : i # 0 => i - 1 \in 0..m /\ i - 1 # m
          BY <2>2
        <4>3. \A i \in 0..m : i # m => i \in 0..(m - 1)
          BY <2>2
        <4>4. \A i \in 0..m : i <= 1 \/ i # 0
          BY <2>2
        <4> HIDE DEF Good
        <4> QED
          BY <2>2, <2>4, <4>1, <4>2, <4>3, <4>4
      <3>4. Good(h, m)
        <4>1. h = [i \in 0..m |-> h[i]]
          OBVIOUS
        <4> HIDE DEF h
        <4> QED
          BY <3>3, <4>1
      <3> QED
        BY <3>4
    <2> QED
      BY <2>3, <2>4
  <1>3. \A g, h : \A m, n \in Nat : Good(g, m) /\ Good(h, n) => \A i \in 0..m : i \in 0..n => g[i] = h[i]
    <2> HIDE DEF Good
    <2> SUFFICES ASSUME NEW g, NEW h, NEW m \in Nat, NEW n \in Nat, Good(g, m), Good(h, n)
                 PROVE  \A i \in 0..m : i \in 0..n => g[i] = h[i]
      OBVIOUS
    <2> DEFINE Bad == {i \in 0..m : i \in 0..n /\ g[i] # h[i]}
    <2> SUFFICES ASSUME Bad # {} PROVE FALSE
      OBVIOUS
    <2>1. PICK k \in Bad : \A i \in Bad : k <= i
      <3>1. Bad \subseteq Nat
        OBVIOUS
      <3> HIDE DEF Bad
      <3> QED
        BY <3>1, LeastNat
    <2>2. k \in 0..m /\ k \in 0..n /\ g[k] # h[k]
      OBVIOUS
    <2>3. /\ g[k] = IF k <= 1 THEN 0 ELSE g[k - 1] + Written(s[k - 1])
          /\ h[k] = IF k <= 1 THEN 0 ELSE h[k - 1] + Written(s[k - 1])
      BY <1>1, <2>2
    <2>4. ~(k <= 1)
      BY <2>2, <2>3
    <2>5. k - 1 \in 0..m /\ k - 1 \in 0..n /\ ~(k <= k - 1)
      BY <2>2, <2>4
    <2>6. g[k - 1] = h[k - 1]
      BY <2>1, <2>5
    <2> QED
      BY <2>2, <2>3, <2>6
  <1> DEFINE G(n) == CHOOSE g : Good(g, n)
             W == [n \in Nat |-> G(n)[n]]
  <1>4. \A n \in Nat : Good(G(n), n)
    BY <1>2
  <1>5. \A n \in Nat : W[n] = IF n <= 1 THEN 0 ELSE W[n - 1] + Written(s[n - 1])
    <2> SUFFICES ASSUME NEW n \in Nat
                 PROVE  W[n] = IF n <= 1 THEN 0 ELSE W[n - 1] + Written(s[n - 1])
      OBVIOUS
    <2>1. G(n)[n] = IF n <= 1 THEN 0 ELSE G(n)[n - 1] + Written(s[n - 1])
      <3>1. n \in 0..n
        OBVIOUS
      <3> HIDE DEF G, Good
      <3> QED
        BY <1>1, <1>4, <3>1
    <2>2. ~(n <= 1) => G(n)[n - 1] = G(n - 1)[n - 1]
      <3>1. ~(n <= 1) => n - 1 \in Nat /\ n - 1 \in 0..n /\ n - 1 \in 0..(n - 1)
        OBVIOUS
      <3> HIDE DEF G, Good
      <3> QED
        BY <1>3, <1>4, <3>1
    <2>3. W[n] = G(n)[n] /\ (~(n <= 1) => W[n - 1] = G(n - 1)[n - 1])
      <3> HIDE DEF G
      <3> QED
        OBVIOUS
    <2> HIDE DEF W, G
    <2> QED
      BY <2>1, <2>2, <2>3
  <1>6. W = [n \in Nat |-> IF n <= 1 THEN 0 ELSE W[n - 1] + Written(s[n - 1])]
    <2>1. W = [n \in Nat |-> W[n]]
      OBVIOUS
    <2> HIDE DEF W
    <2> QED
      BY <1>5, <2>1
  <1>7. Offset(s) = [i \in Nat |-> IF i <= 1 THEN 0 ELSE Offset(s)[i - 1] + Written(s[i - 1])]
    <2> HIDE DEF W
    <2> QED
      BY <1>6 DEF Offset
  <1> QED
    BY <1>7

\* The frames that were sent start where they did when another one follows.
LEMMA OffsetKept ==
  ASSUME NEW s, NEW t, NEW n \in Nat, \A i \in 1..n : s[i] = t[i]
  PROVE  \A i \in 1..(n + 1) : Offset(s)[i] = Offset(t)[i]
  <1> DEFINE v == Offset(s)
             w == Offset(t)
             Bad == {i \in 1..(n + 1) : v[i] # w[i]}
  <1>1. \A i \in Nat : /\ v[i] = IF i <= 1 THEN 0 ELSE v[i - 1] + Written(s[i - 1])
                       /\ w[i] = IF i <= 1 THEN 0 ELSE w[i - 1] + Written(t[i - 1])
    BY OffsetDef
  <1> HIDE DEF v, w
  <1> SUFFICES ASSUME Bad # {} PROVE FALSE
    BY DEF v, w
  <1>2. PICK k \in Bad : \A i \in Bad : k <= i
    <2>1. Bad \subseteq Nat
      OBVIOUS
    <2> HIDE DEF Bad
    <2> QED
      BY <2>1, LeastNat
  <1>3. k \in 1..(n + 1) /\ k \in Nat /\ v[k] # w[k]
    OBVIOUS
  <1>4. ~(k <= 1)
    BY <1>1, <1>3
  <1>5. k - 1 \in 1..(n + 1) /\ ~(k <= k - 1) /\ k - 1 \in 1..n
    BY <1>3, <1>4
  <1>6. v[k - 1] = w[k - 1]
    BY <1>2, <1>5
  <1> QED
    BY <1>1, <1>3, <1>4, <1>5, <1>6

(***************************************************************************)
(* The writer and the readers                                              *)
(***************************************************************************)

\* Counting modulo m does nothing to a number below m.
LEMMA Below == \A a, m \in Nat : a < m => a % m = a
OBVIOUS

\* A size that is no longer than the buffer fits into the short in the header.
LEMMA FitsShort ==
  ASSUME NEW n \in Nat
  PROVE  AsShort(n) \in Int /\ (n <= BUFFER => AsShort(n) = n)
  <1>1. HALF \in Nat /\ BUFFER \in Nat /\ BUFFER < HALF
    BY ReaderAssumption
  <1>2. 2 * HALF \in Nat /\ 2 * HALF = HALF + HALF /\ 2 * HALF > 0 /\ n + HALF \in Nat
    BY <1>1
  <1>3. PICK m : m = 2 * HALF
    OBVIOUS
  <1>4. (n + HALF) % m \in Nat
    <2>1. \A a, b \in Nat : b > 0 => a % b \in Nat
      OBVIOUS
    <2> QED
      BY <1>2, <1>3, <2>1
  <1>5. n <= BUFFER => (n + HALF) % m = n + HALF
    <2>1. n <= BUFFER => n + HALF < m
      BY <1>1, <1>2, <1>3
    <2> QED
      BY <1>2, <1>3, <2>1, Below
  <1>6. AsShort(n) = ((n + HALF) % m) - HALF
    BY <1>3 DEF AsShort
  <1>7. n <= BUFFER => AsShort(n) = (n + HALF) - HALF
    BY <1>5, <1>6
  <1> QED
    BY <1>1, <1>4, <1>6, <1>7

\* Each loop reads as many bytes of data as serialize_message wrote, for every
\* command and type it is sent, though each of them works it out by itself; if
\* the frame is no longer than the buffer.
LEMMA ReadAsWritten ==
  ASSUME NEW r \in Readers, NEW f \in Frames(r)
  PROVE  /\ DataRead(f) \in Int /\ DataWritten(f) \in Nat /\ DataWritten(f) > 0
         /\ Written(f) <= BUFFER => DataRead(f) = DataWritten(f)
         /\ Written(f) = HEADER + DataWritten(f) /\ HEADER = 6
         /\ f.command = "ctos_send_message" => r = "server"
  <1> DEFINE Agree == /\ DataRead(f) \in Int /\ DataWritten(f) \in Nat /\ DataWritten(f) > 0
                      /\ Written(f) <= BUFFER => DataRead(f) = DataWritten(f)
  <1>1. HEADER = 6 /\ Written(f) = HEADER + DataWritten(f)
    BY DEF HEADER, SHORT, Written
  <1>2. ASSUME NEW C, f \in Texts(C)
        PROVE  f.command \in C /\ f.type = "char" /\ f.text \in Nat /\ f.text > 0
    <2>1. f.command \in C /\ f.type \in {"char"} /\ f.text \in TextSizes
      BY <1>2 DEF Texts
    <2>2. \A x \in TextSizes : x \in Nat /\ x > 0
      BY ReaderAssumption
    <2> QED
      BY <2>1, <2>2
  <1>3. ASSUME NEW C, NEW T, f \in Plain(C, T)
        PROVE  f.command \in C /\ f.type \in T
    BY <1>3 DEF Plain
  <1>4. /\ SizeOf["int"] = 4 /\ SizeOf["float"] = 4 /\ SizeOf["double"] = 8
        /\ SizeOf["short"] = 2 /\ SizeOf["bool"] = 1
    BY DEF SizeOf, SHORT
  <1>5. ASSUME f.type = "char", f.text \in Nat, f.text > 0, DataRead(f) = LengthField(f)
        PROVE  Agree
    <2>1. DataRead(f) = AsShort(f.text) /\ DataWritten(f) = f.text
      BY <1>5 DEF LengthField, DataWritten
    <2>2. AsShort(f.text) \in Int /\ (f.text <= BUFFER => AsShort(f.text) = f.text)
      BY <1>5, FitsShort
    <2>3. Written(f) <= BUFFER => f.text <= BUFFER
      BY <1>1, <1>5, <2>1, ReaderAssumption
    <2> QED
      BY <1>5, <2>1, <2>2, <2>3
  <1>6. ASSUME f.type \in {"int", "float", "double", "short", "bool"}, DataRead(f) = SizeOf[f.type]
        PROVE  Agree
    BY <1>4, <1>6 DEF DataWritten
  <1>7. ASSUME NEW c, f \in Messages(c), c \in {"ctos_send_message", "stos_send_message", "stoc_send_message"}
        PROVE  f.command = c /\ Agree
    <2>1. CASE f \in Texts({c})
      <3>1. f.command = c /\ f.type = "char" /\ f.text \in Nat /\ f.text > 0
        BY <1>2, <2>1
      <3>2. DataRead(f) = LengthField(f)
        BY <1>7, <3>1 DEF DataRead
      <3> QED
        BY <1>5, <3>1, <3>2
    <2>2. CASE f \in Plain({c}, {"int", "float", "double", "short"})
      <3>1. f.command = c /\ f.type \in {"int", "float", "double", "short"}
        BY <1>3, <2>2
      <3>2. DataRead(f) = SizeOf[f.type]
        BY <1>7, <3>1 DEF DataRead
      <3> QED
        BY <1>6, <3>1, <3>2
    <2> QED
      BY <1>7, <2>1, <2>2 DEF Messages
  <1>8. CASE r = "server"
    <2>1. f \in Messages("ctos_send_message") \/ f \in Texts({"ctos_connect_to_queue", "ctos_queue_client_exists"})
      BY <1>8 DEF Frames
    <2>2. CASE f \in Texts({"ctos_connect_to_queue", "ctos_queue_client_exists"})
      <3>1. /\ f.command \in {"ctos_connect_to_queue", "ctos_queue_client_exists"}
            /\ f.type = "char" /\ f.text \in Nat /\ f.text > 0
        BY <1>2, <2>2
      <3>2. DataRead(f) = LengthField(f)
        BY <3>1 DEF DataRead
      <3> QED
        BY <1>1, <1>5, <1>8, <3>1, <3>2
    <2> QED
      BY <1>1, <1>7, <1>8, <2>1, <2>2
  <1>9. CASE r = "service"
    <2>1. \/ f \in Messages("stos_send_message")
          \/ f \in Plain({"stos_client_connected_to_queue", "stos_client_disconnected_from_queue"}, {"short"})
      BY <1>9 DEF Frames
    <2>2. CASE f \in Plain({"stos_client_connected_to_queue", "stos_client_disconnected_from_queue"}, {"short"})
      <3>1. /\ f.command \in {"stos_client_connected_to_queue", "stos_client_disconnected_from_queue"}
            /\ f.type = "short"
        BY <1>3, <2>2
      <3>2. DataRead(f) = SizeOf[f.type]
        BY <1>4, <3>1 DEF DataRead, SHORT
      <3> QED
        BY <1>1, <1>6, <3>1, <3>2
    <2> QED
      BY <1>1, <1>7, <2>1, <2>2
  <1>10. CASE r = "client"
    <2>1. \/ f \in Messages("stoc_send_message")
          \/ f \in Plain({"stoc_connect_to_queue", "stoc_queue_client_exists"}, {"bool"})
      BY <1>10 DEF Frames
    <2>2. CASE f \in Plain({"stoc_connect_to_queue", "stoc_queue_client_exists"}, {"bool"})
      <3>1. /\ f.command \in {"stoc_connect_to_queue", "stoc_queue_client_exists"}
            /\ f.type = "bool"
        BY <1>3, <2>2
      <3>2. DataRead(f) = SizeOf[f.type]
        BY <3>1 DEF DataRead
      <3> QED
        BY <1>1, <1>6, <3>1, <3>2
    <2> QED
      BY <1>1, <1>7, <2>1, <2>2
  <1> QED
    BY <1>1, <1>8, <1>9, <1>10 DEF Readers

(***************************************************************************)
(* The inductive invariant                                                 *)
(***************************************************************************)

\* Frames are dealt with once and in order.
Progress ==
  /\ Len(done) <= Len(sent)
  /\ \A i \in 1..Len(done) : done[i] = sent[i]

\* Nothing is received that was not sent.
Boundary == filled <= received /\ received <= Start[Len(sent) + 1]

\* The pointer stands where the next frame starts; behind a refused message, it
\* stands in the data of the message and no frame starts there.
Place ==
  /\ mode = "waiting" \/ (mode = "reading" /\ left = 0) => received = Start[Len(done) + 1] /\ ~skipped
  /\ mode = "reading" /\ left # 0 /\ ~skipped => pos + left = filled /\ Here = Start[Len(done) + 1]
  /\ mode = "reading" /\ left # 0 /\ skipped =>
       /\ reader = "server" /\ Len(done) > 0
       /\ Start[Len(done)] < Here /\ Here < Start[Len(done) + 1]

ReadInv == Progress /\ Boundary /\ Place /\ AstrayOnlyIf

\* The frames of s start one behind the other.
LEMMA OffsetFacts ==
  ASSUME NEW r \in Readers, NEW s \in Seq(Frames(r))
  PROVE  /\ Len(s) \in Nat /\ Offset(s)[1] = 0
         /\ \A i \in 1..Len(s) : /\ s[i] \in Frames(r) /\ Written(s[i]) \in Nat
                                    /\ Written(s[i]) > 0
                                    /\ Offset(s)[i + 1] = Offset(s)[i] + Written(s[i])
         /\ \A i \in 1..(Len(s) + 1) : Offset(s)[i] \in Nat
         /\ \A i, j \in 1..(Len(s) + 1) : i < j => Offset(s)[i] < Offset(s)[j]
  <1>1. Len(s) \in Nat /\ \A i \in 1..Len(s) : s[i] \in Frames(r)
    OBVIOUS
  <1>2. \A i \in 1..Len(s) : Written(s[i]) \in Nat /\ Written(s[i]) > 0
    <2> SUFFICES ASSUME NEW i \in 1..Len(s) PROVE Written(s[i]) \in Nat /\ Written(s[i]) > 0
      OBVIOUS
    <2>1. s[i] \in Frames(r) /\ r \in Readers
      BY <1>1
    <2>2. /\ Written(s[i]) = HEADER + DataWritten(s[i]) /\ HEADER = 6
          /\ DataWritten(s[i]) \in Nat /\ DataWritten(s[i]) > 0
      BY <2>1, ReadAsWritten
    <2> QED
      BY <2>2
  <1> DEFINE n == Len(s)
             w == Offset(s)
  <1>3. \A i \in Nat : w[i] = IF i <= 1 THEN 0 ELSE w[i - 1] + Written(s[i - 1])
    BY OffsetDef
  <1>4. w[1] = 0 /\ n \in Nat
    BY <1>1, <1>3
  <1> HIDE DEF w, n
  <1>5. \A i \in 1..n : w[i + 1] = w[i] + Written(s[i])
    <2>1. \A i \in 1..n : i + 1 \in Nat /\ ~(i + 1 <= 1) /\ (i + 1) - 1 = i
      BY <1>4
    <2> QED
      BY <1>3, <2>1
  <1>6. \A i \in 1..n : Written(s[i]) \in Nat /\ Written(s[i]) > 0
    BY <1>2 DEF n
  <1>7. \A i \in 1..(n + 1) : w[i] \in Nat
    <2> DEFINE Bad == {i \in 1..(n + 1) : w[i] \notin Nat}
    <2> SUFFICES ASSUME Bad # {} PROVE FALSE
      OBVIOUS
    <2>1. PICK k \in Bad : \A i \in Bad : k <= i
      <3>1. Bad \subseteq Nat
        BY <1>4
      <3> HIDE DEF Bad
      <3> QED
        BY <3>1, LeastNat
    <2>2. k \in 1..(n + 1) /\ w[k] \notin Nat
      OBVIOUS
    <2>3. k # 1
      BY <1>4, <2>2
    <2>4. k - 1 \in 1..n /\ k - 1 \in 1..(n + 1) /\ ~(k <= k - 1) /\ (k - 1) + 1 = k
      BY <1>4, <2>2, <2>3
    <2>5. w[k - 1] \in Nat
      BY <2>1, <2>4
    <2>6. w[k] = w[k - 1] + Written(s[k - 1])
      BY <1>5, <2>4
    <2> QED
      BY <1>6, <2>2, <2>4, <2>5, <2>6
  <1>8. ASSUME NEW i \in 1..(n + 1), NEW j \in 1..(n + 1), i < j PROVE w[i] < w[j]
    <2> DEFINE Bad == {k \in 1..(n + 1) : i < k /\ ~(w[i] < w[k])}
    <2> SUFFICES ASSUME Bad # {} PROVE FALSE
      BY <1>8
    <2>1. PICK k \in Bad : \A l \in Bad : k <= l
      <3>1. Bad \subseteq Nat
        BY <1>4
      <3> HIDE DEF Bad
      <3> QED
        BY <3>1, LeastNat
    <2>2. k \in 1..(n + 1) /\ i < k /\ ~(w[i] < w[k])
      OBVIOUS
    <2>3. k - 1 \in 1..n /\ k - 1 \in 1..(n + 1) /\ ~(k <= k - 1) /\ (k - 1) + 1 = k /\ i <= k - 1
      BY <1>4, <2>2
    <2>4. w[k] = w[k - 1] + Written(s[k - 1]) /\ Written(s[k - 1]) \in Nat /\ Written(s[k - 1]) > 0
      <3>1. w[(k - 1) + 1] = w[k - 1] + Written(s[k - 1])
        BY <1>5, <2>3
      <3> QED
        BY <1>6, <2>3, <3>1
    <2>5. w[i] \in Nat /\ w[k] \in Nat /\ w[k - 1] \in Nat
      BY <1>7, <2>2, <2>3
    <2>6. i = k - 1 \/ w[i] < w[k - 1]
      BY <1>4, <2>1, <2>3
    <2>7. w[i] = w[k - 1] \/ w[i] < w[k - 1]
      BY <2>6
    <2>8. w[i] < w[k - 1] + Written(s[k - 1])
      BY <2>4, <2>5, <2>7
    <2> QED
      BY <2>2, <2>4, <2>8
  <1> QED
    BY <1>1, <1>4, <1>5, <1>6, <1>7, <1>8 DEF w, n

LEMMA StartFacts ==
  ASSUME TypeOK
  PROVE  /\ Len(sent) \in Nat /\ Start[1] = 0
         /\ \A i \in 1..Len(sent) : /\ sent[i] \in Frames(reader) /\ Written(sent[i]) \in Nat
                                    /\ Written(sent[i]) > 0
                                    /\ Start[i + 1] = Start[i] + Written(sent[i])
         /\ \A i \in 1..(Len(sent) + 1) : Start[i] \in Nat
         /\ \A i, j \in 1..(Len(sent) + 1) : i < j => Start[i] < Start[j]
  <1>1. reader \in Readers /\ sent \in Seq(Frames(reader))
    BY DEF TypeOK
  <1> QED
    BY <1>1, StartOffset, OffsetFacts

\* ... and after a step.
LEMMA StartFactsAfter ==
  ASSUME TypeOK'
  PROVE  /\ \A i \in 1..(Len(sent') + 1) : Start'[i] \in Nat
         /\ \A i, j \in 1..(Len(sent') + 1) : i < j => Start'[i] < Start'[j]
  <1>1. PICK r, s : r = reader' /\ s = sent'
    OBVIOUS
  <1>2. r \in Readers /\ s \in Seq(Frames(r))
    BY <1>1 DEF TypeOK
  <1>3. /\ \A i \in 1..(Len(s) + 1) : Offset(s)[i] \in Nat
        /\ \A i, j \in 1..(Len(s) + 1) : i < j => Offset(s)[i] < Offset(s)[j]
    BY <1>2, OffsetFacts
  <1> QED
    BY <1>1, <1>3, StartOffset

\* A frame that starts where the next one should is the next one.
LEMMA OnlyNext ==
  ASSUME TypeOK, NEW n \in 1..(Len(sent) + 1), NEW i \in 1..Len(sent), Start[i] = Start[n]
  PROVE  i = n
  <1>1. i \in 1..(Len(sent) + 1) /\ Len(sent) \in Nat
    BY StartFacts
  <1>2. Start[i] \in Nat /\ Start[n] \in Nat
    BY <1>1, StartFacts
  <1>3. ~(i < n) /\ ~(n < i)
    BY <1>1, <1>2, StartFacts
  <1> QED
    BY <1>1, <1>3

\* No frame starts between two that follow each other.
LEMMA NoneBetween ==
  ASSUME TypeOK, NEW n \in 1..Len(sent), NEW h \in Int, Start[n] < h, h < Start[n + 1], NEW i \in 1..Len(sent)
  PROVE  Start[i] # h
  <1>1. i \in 1..(Len(sent) + 1) /\ n \in 1..(Len(sent) + 1) /\ n + 1 \in 1..(Len(sent) + 1)
        /\ Len(sent) \in Nat
    BY StartFacts
  <1>2. Start[i] \in Nat /\ Start[n] \in Nat /\ Start[n + 1] \in Nat
    BY <1>1, StartFacts
  <1>3. i <= n \/ n + 1 <= i
    BY <1>1
  <1>4. i <= n => Start[i] <= Start[n]
    <2>1. i < n => Start[i] < Start[n]
      BY <1>1, StartFacts
    <2> QED
      BY <1>1, <1>2, <2>1
  <1>5. n + 1 <= i => Start[n + 1] <= Start[i]
    <2>1. n + 1 < i => Start[n + 1] < Start[i]
      BY <1>1, StartFacts
    <2> QED
      BY <1>1, <1>2, <2>1
  <1> QED
    BY <1>2, <1>3, <1>4, <1>5

\* While bytes are left and nothing was refused, the next frame starts at the
\* pointer; and unless recv ended inside a frame, all of it is there.
LEMMA NextIsHere ==
  ASSUME TypeOK, ReadInv, mode = "reading", left # 0, ~skipped
  PROVE  /\ Len(done) + 1 \in DOMAIN sent
         /\ FramesHere = {Len(done) + 1}
         /\ Start[Len(done) + 1] + left = received
         /\ Whole(Len(done) + 1) => Counted(Len(done) + 1) = Written(sent[Len(done) + 1])
         /\ Whole(Len(done) + 1) \/ CutInside
  <1> DEFINE n == Len(done) + 1
             m == Len(sent)
  <1>1. m \in Nat /\ n \in 1..(m + 1) /\ DOMAIN sent = 1..m /\ left \in Nat /\ left > 0
    BY DEF TypeOK, ReadInv, Progress
  <1>2. pos + left = filled /\ Here = Start[n] /\ received <= Start[m + 1] /\ pos \in Nat
    BY DEF ReadInv, Place, Boundary, TypeOK
  <1>3. Start[n] \in Nat /\ Start[m + 1] \in Nat /\ received \in Nat /\ filled \in Nat
    <2>1. m + 1 \in 1..(m + 1)
      BY <1>1
    <2> QED
      BY <1>1, <2>1, StartFacts DEF TypeOK
  <1>4. Start[n] + left = received
    BY <1>1, <1>2, <1>3 DEF Here
  <1>5. n # m + 1
    BY <1>1, <1>2, <1>3, <1>4
  <1>6. n \in 1..m
    BY <1>1, <1>5
  <1>7. FramesHere = {n}
    <2>1. \A i \in 1..m : Start[i] = Start[n] => i = n
      BY <1>1, OnlyNext
    <2> QED
      BY <1>1, <1>2, <1>6, <2>1 DEF FramesHere
  <1>8. sent[n] \in Frames(reader) /\ Start[n + 1] = Start[n] + Written(sent[n])
    BY <1>6, StartFacts
  <1>9. Written(sent[n]) \in Nat /\ (Whole(n) => Counted(n) = Written(sent[n]))
    <2>1. reader \in Readers /\ sent[n] \in Frames(reader)
      BY <1>8 DEF TypeOK
    <2>2. left <= BUFFER
      BY <1>1, <1>2, ReaderAssumption DEF TypeOK
    <2>3. /\ Written(sent[n]) = HEADER + DataWritten(sent[n]) /\ HEADER = 6
          /\ DataWritten(sent[n]) \in Nat
          /\ Written(sent[n]) <= BUFFER => DataRead(sent[n]) = DataWritten(sent[n])
      BY <2>1, ReadAsWritten
    <2>4. Written(sent[n]) \in Nat
      BY <2>3
    <2>5. Whole(n) => Written(sent[n]) <= BUFFER
      <3> HIDE DEF n
      <3> QED
        BY <1>1, <2>2, <2>4, ReaderAssumption DEF Whole
    <2> HIDE DEF n
    <2> QED
      BY <2>3, <2>4, <2>5 DEF Counted
  <1>10. ASSUME ~CutInside PROVE Written(sent[n]) <= left
    <2>1. PICK k \in 0..m : received = Start[k + 1]
      BY <1>10 DEF CutInside
    <2>2. k + 1 \in 1..(m + 1) /\ n + 1 \in 1..(m + 1)
      BY <1>1, <1>6, <2>1
    <2>3. Start[k + 1] \in Nat /\ Start[n + 1] \in Nat
      BY <2>2, StartFacts
    <2>4. Start[n] < Start[k + 1]
      BY <1>1, <1>3, <1>4, <2>1
    <2>5. ~(k + 1 <= n)
      <3>1. k + 1 < n => Start[k + 1] < Start[n]
        BY <1>1, <2>2, StartFacts
      <3>2. k + 1 = n => Start[k + 1] = Start[n]
        OBVIOUS
      <3>3. ~(k + 1 < n) /\ k + 1 # n
        <4> HIDE DEF n
        <4> QED
          BY <1>3, <2>3, <2>4, <3>1, <3>2
      <3> QED
        BY <1>1, <2>2, <3>3
    <2>6. Start[n + 1] <= Start[k + 1]
      <3>1. n + 1 < k + 1 => Start[n + 1] < Start[k + 1]
        BY <2>2, StartFacts
      <3> QED
        BY <1>1, <2>1, <2>2, <2>3, <2>5, <3>1
    <2>7. Start[n] + Written(sent[n]) <= Start[n] + left
      BY <1>4, <1>8, <2>1, <2>6
    <2> HIDE DEF n
    <2> QED
      BY <1>1, <1>3, <1>9, <2>7
  <1> QED
    BY <1>1, <1>4, <1>6, <1>7, <1>9, <1>10 DEF Whole

\* Behind a refused message, the bytes read as a header are not one.
LEMMA NoneHere ==
  ASSUME TypeOK, ReadInv, mode = "reading", left # 0, skipped
  PROVE  FramesHere = {} /\ reader = "server"
  <1>1. Len(done) \in 1..Len(sent) /\ Here \in Int /\ DOMAIN sent = 1..Len(sent)
    BY DEF TypeOK, ReadInv, Progress, Place, Here
  <1>2. Start[Len(done)] < Here /\ Here < Start[Len(done) + 1] /\ reader = "server"
    BY DEF ReadInv, Place
  <1>3. \A i \in 1..Len(sent) : Start[i] # Here
    BY <1>1, <1>2, NoneBetween
  <1> QED
    BY <1>1, <1>2, <1>3 DEF FramesHere

(***************************************************************************)
(* Every step keeps the types and the invariant                            *)
(***************************************************************************)

LEMMA ReaderInit == Init => TypeOK /\ ReadInv
  <1> SUFFICES ASSUME Init PROVE TypeOK /\ ReadInv
    OBVIOUS
  <1>1. TypeOK
    <2>1. <<>> \in Seq(Frames(reader))
      OBVIOUS
    <2>2. 0 \in 0..BUFFER /\ 0 \in 0..(WORD - 1) /\ 0 \in Nat
      BY ReaderAssumption
    <2> QED
      BY <2>1, <2>2 DEF Init, TypeOK
  <1>2. Start[1] = 0 /\ Len(sent) = 0 /\ Len(done) = 0
    BY <1>1, StartFacts DEF Init
  <1>3. Boundary
    BY <1>2 DEF Init, Boundary
  <1>4. Progress /\ Place /\ AstrayOnlyIf
    BY <1>2 DEF Init, Progress, Place, AstrayOnlyIf
  <1> QED
    BY <1>1, <1>3, <1>4 DEF ReadInv

LEMMA SendStep ==
  ASSUME TypeOK, ReadInv, NEW f \in Frames(reader), Send(f)
  PROVE  TypeOK' /\ ReadInv'
  <1> DEFINE m == Len(sent)
  <1>1. /\ sent' = Append(sent, f) /\ sent \in Seq(Frames(reader))
        /\ UNCHANGED <<reader, received, filled, pos, left, mode, done, skipped>>
    BY DEF Send, TypeOK
  <1>2. /\ sent' \in Seq(Frames(reader)) /\ Len(sent') = m + 1 /\ m \in Nat
        /\ \A i \in 1..m : sent'[i] = sent[i]
    BY <1>1, AppendProperties
  <1>3. TypeOK'
    BY <1>1, <1>2 DEF TypeOK
  <1>4. \A i \in 1..(m + 1) : Start'[i] = Start[i]
    BY <1>2, StartOffset, OffsetKept
  <1>5. Len(done) \in 0..m /\ Len(done) + 1 \in 1..(m + 1) /\ Len(done) \in Nat
    BY <1>2 DEF TypeOK, ReadInv, Progress
  <1>6. Progress'
    BY <1>1, <1>2, <1>5 DEF ReadInv, Progress
  <1>7. received <= Start'[m + 2] /\ received # Start'[m + 2]
    <2>1. Start'[m + 1] = Start[m + 1] /\ m + 1 \in 1..(m + 1)
      BY <1>2, <1>4
    <2>2. Start[m + 1] \in Nat /\ Start'[m + 2] \in Nat /\ Start'[m + 1] < Start'[m + 2]
      <3>1. m + 1 \in 1..(Len(sent') + 1) /\ m + 2 \in 1..(Len(sent') + 1) /\ m + 1 < m + 2
        BY <1>2
      <3>2. /\ \A i \in 1..(Len(sent') + 1) : Start'[i] \in Nat
            /\ \A i, j \in 1..(Len(sent') + 1) : i < j => Start'[i] < Start'[j]
        BY <1>3, StartFactsAfter
      <3> QED
        BY <2>1, <3>1, <3>2
    <2>3. received <= Start[m + 1] /\ received \in Nat
      BY DEF ReadInv, Boundary, TypeOK
    <2> QED
      BY <2>1, <2>2, <2>3
  <1>8. Boundary'
    <2>1. Len(sent') + 1 = m + 2
      BY <1>2
    <2> QED
      BY <1>1, <1>7, <2>1 DEF ReadInv, Boundary
  <1>9. Place'
    <2>1. Start'[Len(done) + 1] = Start[Len(done) + 1]
      BY <1>4, <1>5
    <2>2. Len(done) > 0 => Start'[Len(done)] = Start[Len(done)]
      <3>1. Len(done) > 0 => Len(done) \in 1..(m + 1)
        BY <1>5
      <3> QED
        BY <1>4, <3>1
    <2>3. Here' = Here
      BY <1>1 DEF Here
    <2> QED
      BY <1>1, <2>1, <2>2, <2>3 DEF ReadInv, Place
  <1>10. CutInside => CutInside'
    <2> SUFFICES ASSUME CutInside, NEW k \in 0..(m + 1) PROVE received # Start'[k + 1]
      BY <1>1, <1>2 DEF CutInside
    <2>1. CASE k = m + 1
      BY <1>2, <1>7, <2>1
    <2>2. CASE k # m + 1
      <3>1. k \in 0..m /\ k + 1 \in 1..(m + 1)
        BY <1>2, <2>2
      <3> QED
        BY <1>4, <3>1 DEF CutInside
    <2> QED
      BY <2>1, <2>2
  <1>11. AstrayOnlyIf'
    BY <1>1, <1>10 DEF ReadInv, AstrayOnlyIf
  <1> QED
    BY <1>3, <1>6, <1>8, <1>9, <1>11 DEF ReadInv

LEMMA RecvStep ==
  ASSUME TypeOK, ReadInv, Recv
  PROVE  TypeOK' /\ ReadInv'
  <1> DEFINE m == Len(sent)
  <1>1. /\ mode = "waiting" /\ filled' \in 1..BUFFER /\ filled' <= Available
        /\ received' = received + filled' /\ pos' = 0 /\ left' = filled' /\ mode' = "reading"
        /\ UNCHANGED <<reader, sent, done, skipped>>
    BY DEF Recv
  <1>2. /\ m \in Nat /\ Start[m + 1] \in Nat /\ received \in Nat
        /\ Available = Start[m + 1] - received /\ BUFFER \in Nat /\ BUFFER > 0 /\ WORD \in Nat /\ BUFFER < WORD
    <2>1. m \in Nat /\ m + 1 \in 1..(m + 1)
      BY DEF TypeOK
    <2> QED
      BY <2>1, StartFacts, ReaderAssumption DEF TypeOK, Available
  <1>3. /\ filled' \in 0..BUFFER /\ filled' \in Nat /\ received' \in Nat
        /\ left' \in 0..(WORD - 1) /\ left' # 0
    <2>1. filled' \in 0..BUFFER /\ filled' > 0 /\ filled' \in Nat /\ filled' \in 0..(WORD - 1)
      BY <1>1, <1>2
    <2>2. received' \in Nat
      <3>1. \A x, y \in Nat : x + y \in Nat
        OBVIOUS
      <3>2. received' = received + filled'
        BY <1>1
      <3> QED
        BY <1>2, <2>1, <3>1, <3>2
    <2>3. left' = filled'
      BY <1>1
    <2> QED
      BY <2>1, <2>2, <2>3
  <1>4. TypeOK'
    BY <1>1, <1>3 DEF TypeOK
  <1>5. Start' = Start
    BY <1>1, StartOffset
  <1>6. Progress'
    BY <1>1 DEF ReadInv, Progress
  <1>7. Boundary'
    <2>1. \A x, y, f \in Nat : f <= x - y => f <= y + f /\ y + f <= x
      OBVIOUS
    <2>2. filled' <= received' /\ received' <= Start[m + 1]
      <3> HIDE DEF m
      <3> QED
        BY <1>1, <1>2, <1>3, <2>1
    <2> QED
      BY <1>1, <1>5, <2>2 DEF Boundary
  <1>8. Place'
    <2>1. received = Start[Len(done) + 1] /\ ~skipped
      BY <1>1 DEF ReadInv, Place
    <2>2. Here' = Start[Len(done) + 1]
      <3>1. Here' = received' - filled' + 0 /\ received' = received + filled'
        BY <1>1 DEF Here
      <3>2. \A x, y \in Nat : (x + y) - y + 0 = x
        OBVIOUS
      <3>3. Here' = received
        BY <1>2, <1>3, <3>1, <3>2
      <3> QED
        BY <2>1, <3>3
    <2>3. pos' + left' = filled'
      <3>1. \A x \in Nat : 0 + x = x
        OBVIOUS
      <3>2. pos' = 0 /\ left' = filled'
        BY <1>1
      <3> QED
        BY <1>3, <3>1, <3>2
    <2> QED
      BY <1>1, <1>3, <1>5, <2>1, <2>2, <2>3 DEF Place
  <1>9. AstrayOnlyIf'
    BY <1>1 DEF AstrayOnlyIf
  <1> QED
    BY <1>4, <1>6, <1>7, <1>8, <1>9 DEF ReadInv

\* What ReadFrame and RefuseMessage have in common: the frame is the next one,
\* and it is counted.
LEMMA FrameDone ==
  ASSUME TypeOK, ReadInv, mode = "reading", left # 0, ~skipped, NEW i \in FramesHere,
         Whole(i), left' = (left - Counted(i)) % WORD, done' = Append(done, sent[i]),
         UNCHANGED <<reader, sent, received, filled, mode>>
  PROVE  /\ i = Len(done) + 1 /\ i \in 1..Len(sent) /\ left' \in 0..(WORD - 1)
         /\ done' \in Seq(Frames(reader)) /\ Len(done') = i
         /\ Progress' /\ Boundary' /\ Start' = Start
         /\ Counted(i) = Written(sent[i]) /\ left' = left - Written(sent[i])
         /\ Written(sent[i]) \in Nat /\ Start[i] \in Nat
         /\ Start[i + 1] = Start[i] + Written(sent[i]) /\ received = Start[i] + left
         /\ pos + left = filled /\ Here = Start[i]
  <1>1. /\ i = Len(done) + 1 /\ i \in DOMAIN sent /\ Start[i] + left = received
        /\ Counted(i) = Written(sent[i])
    BY NextIsHere
  <1>2. DOMAIN sent = 1..Len(sent) /\ Len(sent) \in Nat /\ Len(done) \in Nat /\ done \in Seq(Frames(reader))
        /\ left \in 0..(WORD - 1) /\ WORD \in Nat
    BY ReaderAssumption DEF TypeOK
  <1>3. i \in 1..Len(sent) /\ i \in 1..(Len(sent) + 1)
    BY <1>1, <1>2
  <1>4. /\ sent[i] \in Frames(reader) /\ Written(sent[i]) \in Nat /\ Start[i] \in Nat
        /\ Start[i + 1] = Start[i] + Written(sent[i])
    BY <1>3, StartFacts
  <1>5. left - Written(sent[i]) \in 0..(WORD - 1)
    BY <1>2, <1>4 DEF Whole
  <1>6. left' = left - Written(sent[i]) /\ left' \in 0..(WORD - 1)
    <2>1. left' = (left - Written(sent[i])) % WORD
      BY <1>1
    <2>2. (left - Written(sent[i])) % WORD = left - Written(sent[i])
      <3>1. left - Written(sent[i]) \in Nat /\ WORD \in Nat /\ left - Written(sent[i]) < WORD
        BY <1>2, <1>5
      <3> QED
        BY <3>1, Below
    <2> QED
      BY <1>5, <2>1, <2>2
  <1>7. /\ done' \in Seq(Frames(reader)) /\ Len(done') = i
        /\ \A j \in 1..Len(done) : done'[j] = done[j]
        /\ done'[i] = sent[i]
    BY <1>1, <1>2, <1>4, AppendProperties
  <1>8. Progress'
    <2>1. \A j \in 1..Len(done') : j \in 1..Len(done) \/ j = i
      BY <1>1, <1>2, <1>7
    <2>2. Len(done') <= Len(sent')
      BY <1>3, <1>7
    <2> QED
      BY <1>7, <2>1, <2>2 DEF ReadInv, Progress
  <1>9. Start' = Start
    BY StartOffset
  <1>10. Boundary'
    BY <1>9 DEF ReadInv, Boundary
  <1>11. pos + left = filled /\ Here = Start[i]
    BY <1>1 DEF ReadInv, Place
  <1>12. received = Start[i] + left
    BY <1>1
  <1> QED
    BY <1>1, <1>3, <1>4, <1>5, <1>6, <1>7, <1>8, <1>9, <1>10, <1>11, <1>12

\* The pointer moves on by w bytes.
LEMMA MoveOn == \A r, f, p, w \in Nat : r - f + (p + w) = (r - f + p) + w
OBVIOUS

LEMMA ReadStep ==
  ASSUME TypeOK, ReadInv, NEW i \in FramesHere, ReadFrame(i) \/ RefuseMessage(i)
  PROVE  TypeOK' /\ ReadInv'
  <1>1. /\ mode = "reading" /\ left # 0 /\ Whole(i)
        /\ left' = (left - Counted(i)) % WORD /\ done' = Append(done, sent[i])
        /\ UNCHANGED <<reader, sent, received, filled, mode>>
    BY DEF ReadFrame, RefuseMessage
  <1>2. ~skipped
    BY <1>1, NoneHere
  <1>3. /\ i = Len(done) + 1 /\ i \in 1..Len(sent) /\ left' \in 0..(WORD - 1)
        /\ done' \in Seq(Frames(reader)) /\ Len(done') = i
        /\ Progress' /\ Boundary' /\ Start' = Start
        /\ Counted(i) = Written(sent[i]) /\ left' = left - Written(sent[i])
        /\ Written(sent[i]) \in Nat /\ Start[i] \in Nat
        /\ Start[i + 1] = Start[i] + Written(sent[i]) /\ received = Start[i] + left
        /\ pos + left = filled /\ Here = Start[i]
    BY <1>1, <1>2, FrameDone
  <1>4. pos \in Nat /\ left \in Nat /\ filled \in Nat /\ received \in Nat /\ HEADER = 6
        /\ Here = received - filled + pos /\ Here' = received - filled + pos'
    BY <1>1 DEF TypeOK, HEADER, SHORT, Here
  <1>5. AstrayOnlyIf'
    BY <1>1 DEF AstrayOnlyIf
  <1>6. left' = left - Written(sent[i]) /\ (left' = 0 => received = Start[i + 1])
    <2>1. left' = left - Written(sent[i])
      BY <1>3
    <2>2. \A l, w, b, r \in Nat : l - w = 0 /\ r = b + l => r = b + w
      OBVIOUS
    <2> QED
      BY <1>3, <1>4, <2>1, <2>2
  <1>7. CASE ReadFrame(i)
    <2>1. pos' = pos + Written(sent[i]) /\ skipped' = skipped
      BY <1>3, <1>4, <1>7 DEF ReadFrame
    <2>2. pos' \in Nat /\ pos' + left' = filled
      <3>1. \A p, l, w, f \in Nat : p + l = f => p + w \in Nat /\ (p + w) + (l - w) = f
        OBVIOUS
      <3>2. pos + left = filled /\ Written(sent[i]) \in Nat /\ pos \in Nat /\ left \in Nat /\ filled \in Nat
        BY <1>3, <1>4
      <3>3. pos + Written(sent[i]) \in Nat /\ (pos + Written(sent[i])) + (left - Written(sent[i])) = filled
        BY <3>1, <3>2
      <3> QED
        BY <1>6, <2>1, <3>3
    <2>3. Here' = Here + Written(sent[i])
      <3>1. received \in Nat /\ filled \in Nat /\ pos \in Nat /\ Written(sent[i]) \in Nat
        BY <1>3, <1>4
      <3>2. received - filled + (pos + Written(sent[i])) = (received - filled + pos) + Written(sent[i])
        BY <3>1, MoveOn
      <3>3. /\ Here = received - filled + pos /\ Here' = received - filled + pos'
            /\ pos' = pos + Written(sent[i])
        BY <1>4, <2>1
      <3> QED
        BY ONLY <3>2, <3>3
    <2>4. Here' = Start[i + 1]
      BY <1>3, <2>3
    <2>5. TypeOK'
      BY <1>1, <1>3, <2>1, <2>2 DEF TypeOK
    <2>6. Place'
      BY <1>1, <1>2, <1>3, <1>6, <2>1, <2>2, <2>4 DEF Place
    <2> QED
      BY <1>3, <1>5, <2>5, <2>6 DEF ReadInv
  <1>8. CASE RefuseMessage(i)
    <2>1. pos' = pos + HEADER /\ skipped' = (skipped \/ left' # 0) /\ sent[i].command = "ctos_send_message"
      BY <1>8 DEF RefuseMessage
    <2>2. sent[i] \in Frames(reader) /\ reader \in Readers
      BY <1>3, StartFacts DEF TypeOK
    <2>3. reader = "server" /\ Written(sent[i]) > 6
      BY <1>4, <2>1, <2>2, ReadAsWritten
    <2>4. pos' \in Nat /\ Here' = Start[i] + 6
      <3>1. pos' = pos + 6 /\ 6 \in Nat
        BY <1>4, <2>1
      <3>2. Here' = Here + 6
        BY <1>4, <3>1, MoveOn
      <3>3. pos' \in Nat
        BY <1>4, <3>1
      <3> QED
        BY <1>3, <3>2, <3>3
    <2>5. Start[i] < Here' /\ Here' < Start[i + 1] /\ i > 0
      BY <1>3, <2>3, <2>4
    <2>6. skipped' \in BOOLEAN
      BY <2>1
    <2>7. TypeOK'
      BY <1>1, <1>3, <2>4, <2>6 DEF TypeOK
    <2>8. Place'
      BY <1>1, <1>2, <1>3, <1>6, <2>1, <2>3, <2>5 DEF Place
    <2> QED
      BY <1>3, <1>5, <2>7, <2>8 DEF ReadInv
  <1> QED
    BY <1>7, <1>8

LEMMA CutStep ==
  ASSUME TypeOK, ReadInv, NEW i \in FramesHere, ReadCutFrame(i)
  PROVE  TypeOK' /\ ReadInv'
  <1>1. /\ mode = "reading" /\ left # 0 /\ ~Whole(i)
        /\ left' = (left - Counted(i)) % WORD
        /\ mode' = "astray"
        /\ UNCHANGED <<reader, sent, received, filled, pos, done, skipped>>
    BY DEF ReadCutFrame
  <1>2. ~skipped
    BY <1>1, NoneHere
  <1>3. i = Len(done) + 1 /\ i \in DOMAIN sent /\ CutInside
    BY <1>1, <1>2, NextIsHere
  <1>4. sent[i] \in Frames(reader) /\ reader \in Readers
    BY <1>3 DEF TypeOK
  <1>5. Counted(i) \in Int /\ left \in Nat /\ WORD \in Nat /\ WORD > 0
    <2>1. HEADER = 6 /\ DataRead(sent[i]) \in Int
      BY <1>4, ReadAsWritten
    <2> QED
      BY <2>1, ReaderAssumption DEF TypeOK, Counted
  <1>6. left' \in 0..(WORD - 1)
    <2>1. left - Counted(i) \in Int
      BY <1>5
    <2>2. \A a \in Int : \A b \in Nat : b > 0 => a % b \in 0..(b - 1)
      OBVIOUS
    <2> QED
      BY <1>1, <1>5, <2>1, <2>2
  <1>7. TypeOK'
    BY <1>1, <1>6 DEF TypeOK
  <1>8. Start' = Start
    BY <1>1, StartOffset
  <1>9. Progress' /\ Boundary'
    BY <1>1, <1>8 DEF ReadInv, Progress, Boundary
  <1>10. Place' /\ AstrayOnlyIf'
    BY <1>1, <1>3, <1>8 DEF Place, AstrayOnlyIf, CutInside
  <1> QED
    BY <1>7, <1>9, <1>10 DEF ReadInv

LEMMA NoHeaderStep ==
  ASSUME TypeOK, ReadInv, ReadNoHeader
  PROVE  TypeOK' /\ ReadInv'
  <1>1. /\ mode = "reading" /\ left # 0 /\ FramesHere = {} /\ mode' = "astray"
        /\ UNCHANGED <<reader, sent, received, filled, pos, left, done, skipped>>
    BY DEF ReadNoHeader
  <1>2. skipped
    BY <1>1, NextIsHere
  <1>3. reader = "server"
    BY <1>1, <1>2, NoneHere
  <1>4. Start' = Start
    BY <1>1, StartOffset
  <1>5. TypeOK'
    BY <1>1 DEF TypeOK
  <1>6. Progress' /\ Boundary' /\ Place' /\ AstrayOnlyIf'
    BY <1>1, <1>2, <1>3, <1>4 DEF ReadInv, Progress, Boundary, Place, AstrayOnlyIf, CutInside
  <1> QED
    BY <1>5, <1>6 DEF ReadInv

LEMMA EndStep ==
  ASSUME TypeOK, ReadInv, EndOfBuffer
  PROVE  TypeOK' /\ ReadInv'
  <1>1. /\ mode = "reading" /\ left = 0 /\ mode' = "waiting"
        /\ UNCHANGED <<reader, sent, received, filled, pos, left, done, skipped>>
    BY DEF EndOfBuffer
  <1>2. Start' = Start
    BY <1>1, StartOffset
  <1>3. TypeOK'
    BY <1>1 DEF TypeOK
  <1>4. Progress' /\ Boundary' /\ Place' /\ AstrayOnlyIf'
    BY <1>1, <1>2 DEF ReadInv, Progress, Boundary, Place, AstrayOnlyIf, CutInside
  <1> QED
    BY <1>3, <1>4 DEF ReadInv

LEMMA ReaderInductive == Spec => [](TypeOK /\ ReadInv)
  <1>1. TypeOK /\ ReadInv /\ [Next]_vars => TypeOK' /\ ReadInv'
    <2> SUFFICES ASSUME TypeOK, ReadInv, [Next]_vars PROVE TypeOK' /\ ReadInv'
      OBVIOUS
    <2>1. CASE \E f \in Frames(reader) : Send(f)
      BY <2>1, SendStep
    <2>2. CASE Recv
      BY <2>2, RecvStep
    <2>3. CASE \E i \in FramesHere : ReadFrame(i) \/ RefuseMessage(i)
      BY <2>3, ReadStep
    <2>4. CASE \E i \in FramesHere : ReadCutFrame(i)
      BY <2>4, CutStep
    <2>5. CASE ReadNoHeader
      BY <2>5, NoHeaderStep
    <2>6. CASE EndOfBuffer
      BY <2>6, EndStep
    <2>7. CASE UNCHANGED vars
      <3>1. UNCHANGED <<reader, sent, received, filled, pos, left, mode, done, skipped>>
        BY <2>7 DEF vars
      <3>2. Start' = Start
        BY <3>1, StartOffset
      <3> QED
        BY <3>1, <3>2 DEF TypeOK, ReadInv, Progress, Boundary, Place, Here, AstrayOnlyIf, CutInside
    <2> QED
      BY <2>1, <2>2, <2>3, <2>4, <2>5, <2>6, <2>7 DEF Next, Turn
  <1> QED
    BY <1>1, ReaderInit, PTL DEF Spec

(***************************************************************************)
(* The theorems                                                            *)
(***************************************************************************)

\* The count of the bytes left never leaves the range of an unsigned int, and
\* only frames of the kinds this loop knows are dealt with.
THEOREM ReaderTypeCorrect == Spec => []TypeOK
BY ReaderInductive, PTL

\* Frames are dealt with once, in order, and the pointer agrees with the count.
THEOREM ReaderInStep == Spec => []InStep
  <1>1. TypeOK /\ ReadInv => InStep
    <2> SUFFICES ASSUME TypeOK, ReadInv PROVE InStep
      OBVIOUS
    <2> DEFINE n == Len(done)
               part == SubSeq(sent, 1, n)
    <2>1. n \in Nat /\ n <= Len(sent) /\ Len(sent) \in Nat /\ \A i \in 1..n : done[i] = sent[i]
      BY DEF TypeOK, ReadInv, Progress
    <2>2. done \in Seq(Frames(reader)) /\ \A i \in 1..n : sent[i] \in Frames(reader)
      BY <2>1 DEF TypeOK
    <2>3. done = part
      <3>1. 1 \in Int /\ n \in Int
        BY <2>1
      <3>2. /\ part \in Seq(Frames(reader)) /\ Len(part) = IF 1 <= n THEN n - 1 + 1 ELSE 0
            /\ \A i \in 1..(n - 1 + 1) : part[i] = sent[1 + i - 1]
        <4> HIDE DEF n
        <4> QED
          BY <2>2, <3>1, SubSeqProperties
      <3> HIDE DEF part
      <3>3. Len(part) = n /\ \A i \in 1..n : part[i] = sent[i]
        BY <2>1, <3>2
      <3> QED
        BY <2>1, <2>2, <3>2, <3>3, SeqEqual
    <2>4. /\ mode = "reading" /\ ~skipped /\ left # 0 => pos + left = filled /\ Here = Start[n + 1]
          /\ mode = "waiting" => received = Start[n + 1]
      BY DEF ReadInv, Place
    <2> QED
      BY <2>1, <2>3, <2>4 DEF InStep
  <1> QED
    BY <1>1, ReaderInductive, PTL

\* A loop loses its place only when recv ended inside a frame, or behind a
\* client's message that was refused with more behind it in the same buffer.
THEOREM ReaderAstrayOnlyIf == Spec => []AstrayOnlyIf
  <1>1. ReadInv => AstrayOnlyIf
    BY DEF ReadInv
  <1> QED
    BY <1>1, ReaderInductive, PTL
=============================================================================
