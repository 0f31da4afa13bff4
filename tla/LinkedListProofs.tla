-------------------------- MODULE LinkedListProofs --------------------------
(***************************************************************************)
(* Proofs about common::linked_list: that head, tail, length and links     *)
(* always agree, that exactly the nodes of the list are allocated, and     *)
(* that the list implements ItemList, the plain sequence the other models  *)
(* use; for any finite heap and any values.                                *)
(***************************************************************************)
EXTENDS LinkedList, FiniteSetTheorems, SequenceTheorems, WellFoundedInduction, TLAPS

(***************************************************************************)
(* Walks along the links                                                   *)
(*                                                                         *)
(* NodeAt is a recursive function: that there is one, and what it yields   *)
(* on a chain of nodes, follows from the least number for which it fails.  *)
(***************************************************************************)

\* A nonempty set of natural numbers has a least element.
LEMMA LeastNat ==
  ASSUME NEW S, S \subseteq Nat, S # {}
  PROVE  \E x \in S : \A y \in S : x <= y
  <1> DEFINE R == {ss \in Nat \X Nat : ss[1] < ss[2]}
  <1>1. IsWellFoundedOn(R, Nat)
    BY NatLessThanWellFounded DEF OpToRel
  <1>2. \E x \in S : \A y \in S : <<y, x>> \notin R
    <2> HIDE DEF R
    <2> QED
      BY <1>1, WFMin
  <1>3. PICK x \in S : \A y \in S : <<y, x>> \notin R
    BY <1>2
  <1>4. \A y \in S : ~(y < x)
    BY <1>3
  <1> QED
    BY <1>4

\* The node i links from the first one.
Walk(nx, first) == CHOOSE w : w = [i \in Nat |-> IF i = 0 THEN first ELSE nx[w[i - 1]]]

LEMMA NodeAtWalk == NodeAt = Walk(next, head) /\ NodeAt' = Walk(next', head')
BY DEF NodeAt, Walk

LEMMA WalkDef ==
  ASSUME NEW nx, NEW first
  PROVE  \A i \in Nat : Walk(nx, first)[i] = IF i = 0 THEN first ELSE nx[Walk(nx, first)[i - 1]]
  <1> DEFINE Good(g, n) == g = [i \in 0..n |-> IF i = 0 THEN first ELSE nx[g[i - 1]]]
  <1>1. \A g : \A n \in Nat : Good(g, n) => \A i \in 0..n : g[i] = IF i = 0 THEN first ELSE nx[g[i - 1]]
    OBVIOUS
  <1>2. \A n \in Nat : \E g : Good(g, n)
    <2> DEFINE Bad == {n \in Nat : ~\E g : Good(g, n)}
    <2> SUFFICES ASSUME Bad # {} PROVE FALSE
      OBVIOUS
    <2>1. PICK m \in Bad : \A n \in Bad : m <= n
      <3>1. Bad \subseteq Nat
        OBVIOUS
      <3> HIDE DEF Bad
      <3> QED
        BY <3>1, LeastNat
    <2>2. m \in Nat
      OBVIOUS
    <2>3. CASE m = 0
      <3> DEFINE g == [i \in 0..0 |-> first]
      <3>1. Good(g, 0)
        OBVIOUS
      <3> QED
        BY <2>3, <3>1
    <2>4. CASE m # 0
      <3>1. m - 1 \in Nat /\ ~(m <= m - 1)
        BY <2>2, <2>4
      <3>2. PICK g : Good(g, m - 1)
        BY <2>1, <3>1
      <3> DEFINE h == [i \in 0..m |-> IF i = m THEN nx[g[m - 1]] ELSE g[i]]
      <3>3. \A i \in 0..m : h[i] = IF i = 0 THEN first ELSE nx[h[i - 1]]
        <4>1. \A i \in 0..(m - 1) : g[i] = IF i = 0 THEN first ELSE nx[g[i - 1]]
          BY <1>1, <3>1, <3>2
        <4>2. \A i \in 0..m : i # 0 => i - 1 \in 0..m /\ i - 1 # m
          BY <2>2
        <4>3. \A i \in 0..m : i # m => i \in 0..(m - 1)
          BY <2>2
        <4> HIDE DEF Good
        <4> QED
          BY <2>2, <2>4, <4>1, <4>2, <4>3
      <3>4. Good(h, m)
        <4>1. h = [i \in 0..m |-> h[i]]
          OBVIOUS
        <4> HIDE DEF h
        <4> QED
          BY <3>3, <4>1
      <3> QED
        BY <3>4
    <2> QED
      BY <2>3, <2>4
  <1>3. \A g, h : \A m, n \in Nat : Good(g, m) /\ Good(h, n) => \A i \in 0..m : i \in 0..n => g[i] = h[i]
    <2> HIDE DEF Good
    <2> SUFFICES ASSUME NEW g, NEW h, NEW m \in Nat, NEW n \in Nat, Good(g, m), Good(h, n)
                 PROVE  \A i \in 0..m : i \in 0..n => g[i] = h[i]
      OBVIOUS
    <2> DEFINE Bad == {i \in 0..m : i \in 0..n /\ g[i] # h[i]}
    <2> SUFFICES ASSUME Bad # {} PROVE FALSE
      OBVIOUS
    <2>1. PICK k \in Bad : \A i \in Bad : k <= i
      <3>1. Bad \subseteq Nat
        OBVIOUS
      <3> HIDE DEF Bad
      <3> QED
        BY <3>1, LeastNat
    <2>2. k \in 0..m /\ k \in 0..n /\ g[k] # h[k]
      OBVIOUS
    <2>3. /\ g[k] = IF k = 0 THEN first ELSE nx[g[k - 1]]
          /\ h[k] = IF k = 0 THEN first ELSE nx[h[k - 1]]
      BY <1>1, <2>2
    <2>4. k # 0
      BY <2>2, <2>3
    <2>5. k - 1 \in 0..m /\ k - 1 \in 0..n /\ ~(k <= k - 1)
      BY <2>2, <2>4
    <2>6. g[k - 1] = h[k - 1]
      BY <2>1, <2>5
    <2> QED
      BY <2>2, <2>3, <2>6
  <1> DEFINE G(n) == CHOOSE g : Good(g, n)
             W == [n \in Nat |-> G(n)[n]]
  <1>4. \A n \in Nat : Good(G(n), n)
    BY <1>2
  <1>5. \A n \in Nat : W[n] = IF n = 0 THEN first ELSE nx[W[n - 1]]
    <2> SUFFICES ASSUME NEW n \in Nat PROVE W[n] = IF n = 0 THEN first ELSE nx[W[n - 1]]
      OBVIOUS
    <2>1. G(n)[n] = IF n = 0 THEN first ELSE nx[G(n)[n - 1]]
      <3>1. n \in 0..n
        OBVIOUS
      <3> HIDE DEF G, Good
      <3> QED
        BY <1>1, <1>4, <3>1
    <2>2. n # 0 => G(n)[n - 1] = G(n - 1)[n - 1]
      <3>1. n # 0 => n - 1 \in Nat /\ n - 1 \in 0..n /\ n - 1 \in 0..(n - 1)
        OBVIOUS
      <3> HIDE DEF G, Good
      <3> QED
        BY <1>3, <1>4, <3>1
    <2>3. W[n] = G(n)[n] /\ (n # 0 => W[n - 1] = G(n - 1)[n - 1])
      <3> HIDE DEF G
      <3> QED
        OBVIOUS
    <2> HIDE DEF W, G
    <2> QED
      BY <2>1, <2>2, <2>3
  <1>6. W = [n \in Nat |-> IF n = 0 THEN first ELSE nx[W[n - 1]]]
    <2>1. W = [n \in Nat |-> W[n]]
      OBVIOUS
    <2> HIDE DEF W
    <2> QED
      BY <1>5, <2>1
  <1>7. Walk(nx, first) = [i \in Nat |-> IF i = 0 THEN first ELSE nx[Walk(nx, first)[i - 1]]]
    <2> HIDE DEF W
    <2> QED
      BY <1>6 DEF Walk
  <1> QED
    BY <1>7

\* A chain of n nodes is what a walk along it meets.
LEMMA WalkChain ==
  ASSUME NEW nx, NEW first, NEW n \in Nat, NEW s,
         s[0] = first, \A i \in 1..n : s[i] = nx[s[i - 1]]
  PROVE  \A i \in 0..n : Walk(nx, first)[i] = s[i]
  <1> DEFINE w == Walk(nx, first)
             Bad == {i \in 0..n : w[i] # s[i]}
  <1>1. \A i \in Nat : w[i] = IF i = 0 THEN first ELSE nx[w[i - 1]]
    BY WalkDef
  <1> HIDE DEF w
  <1> SUFFICES ASSUME Bad # {} PROVE FALSE
    BY DEF w
  <1>2. PICK k \in Bad : \A i \in Bad : k <= i
    <2>1. Bad \subseteq Nat
      OBVIOUS
    <2> HIDE DEF Bad
    <2> QED
      BY <2>1, LeastNat
  <1>3. k \in 0..n /\ k \in Nat /\ w[k] # s[k]
    OBVIOUS
  <1>4. k # 0
    BY <1>1, <1>3
  <1>5. k - 1 \in 0..n /\ ~(k <= k - 1) /\ k \in 1..n
    BY <1>3, <1>4
  <1>6. w[k - 1] = s[k - 1]
    BY <1>2, <1>5
  <1> QED
    BY <1>1, <1>3, <1>4, <1>5, <1>6

\* NodeAt, before and after a step.
LEMMA NodeAtDef ==
  /\ \A i \in Nat : NodeAt[i] = IF i = 0 THEN head ELSE next[NodeAt[i - 1]]
  /\ \A i \in Nat : NodeAt'[i] = IF i = 0 THEN head' ELSE next'[NodeAt'[i - 1]]
  <1>1. NodeAt = Walk(next, head) /\ NodeAt' = Walk(next', head')
    BY NodeAtWalk
  <1>2. \A i \in Nat : Walk(next, head)[i] = IF i = 0 THEN head ELSE next[Walk(next, head)[i - 1]]
    BY WalkDef
  <1>3. \A i \in Nat : Walk(next', head')[i] = IF i = 0 THEN head' ELSE next'[Walk(next', head')[i - 1]]
    BY WalkDef
  <1> QED
    BY <1>1, <1>2, <1>3

\* A step that leads from the head along s makes NodeAt s.
LEMMA NodeAtAfter ==
  ASSUME NEW n \in Nat, NEW s, s[0] = head', \A i \in 1..n : s[i] = next'[s[i - 1]]
  PROVE  \A i \in 0..n : NodeAt'[i] = s[i]
  <1>1. \A i \in 0..n : Walk(next', head')[i] = s[i]
    BY WalkChain
  <1> QED
    BY <1>1, NodeAtWalk

(***************************************************************************)
(* The inductive invariant                                                 *)
(***************************************************************************)

\* length different nodes lead from the head to Nil.
Chain ==
  /\ \A i \in 0..(length - 1) : NodeAt[i] \in Nodes
  /\ NodeAt[length] = Nil
  /\ \A i, j \in 0..(length - 1) : NodeAt[i] = NodeAt[j] => i = j

\* While the list is in use, the tail is the last of them and the heap holds
\* them all, and no others.
Live == mutex \in {"free", "search"}
Whole ==
  /\ tail = IF length = 0 THEN Nil ELSE NodeAt[length - 1]
  /\ allocated = {NodeAt[i] : i \in 0..(length - 1)}
  /\ Cardinality(allocated) = length

\* remove_item_by_value stands on a node of the list; from the second one on,
\* no item up to there has the value it looks for.
SearchInv ==
  mutex = "search" =>
    /\ wanted \in Values
    /\ \E c \in 0..length :
         /\ curr = NodeAt[c]
         /\ c = length => c = 0
         /\ c > 0 => \A j \in 0..c : data[NodeAt[j]] # wanted

\* The destructor has deleted the nodes before curr.
DestroyInv ==
  /\ mutex = "destructor" =>
       \E c \in 0..length : curr = NodeAt[c] /\ allocated = {NodeAt[i] : i \in c..(length - 1)}
  /\ mutex = "gone" => allocated = {}

ListInv == Chain /\ (Live => Whole) /\ SearchInv /\ DestroyInv

\* The links of a list, spelt out.
LEMMA ChainFacts ==
  ASSUME TypeOK, Chain
  PROVE  /\ length \in Nat
         /\ NodeAt[0] = head
         /\ \A i \in 0..(length - 1) : next[NodeAt[i]] = NodeAt[i + 1]
         /\ length = 0 <=> head = Nil
         /\ \A i \in 0..length : NodeAt[i] \in Nodes \cup {Nil}
         /\ \A i \in 0..length : NodeAt[i] = Nil <=> i = length
  <1>1. length \in Nat
    BY ListAssumption, FS_CardinalityType DEF TypeOK
  <1>2. NodeAt[0] = head
    BY NodeAtDef
  <1>3. \A i \in Nat : (i + 1) - 1 = i /\ i + 1 # 0 /\ i + 1 \in Nat
    OBVIOUS
  <1>4. \A i \in 0..(length - 1) : next[NodeAt[i]] = NodeAt[i + 1]
    BY <1>1, <1>3, NodeAtDef
  <1>5. \A i \in 0..length : i = length \/ i \in 0..(length - 1)
    BY <1>1
  <1>6. \A i \in 0..length : /\ NodeAt[i] \in Nodes \cup {Nil}
                             /\ NodeAt[i] = Nil <=> i = length
    BY <1>1, <1>5, ListAssumption DEF Chain
  <1>7. length = 0 <=> head = Nil
    BY <1>1, <1>2, <1>6
  <1> QED
    BY <1>1, <1>2, <1>4, <1>6, <1>7

(***************************************************************************)
(* How the list changes                                                    *)
(***************************************************************************)

\* The n nodes of s are a list with this head, these links, this tail and
\* this heap.
IsList(s, n, hd, nx, tl, heap) ==
  /\ s[0] = hd /\ (\A i \in 1..n : s[i] = nx[s[i - 1]]) /\ s[n] = Nil
  /\ \A i \in 0..(n - 1) : s[i] \in Nodes
  /\ \A i, j \in 0..(n - 1) : s[i] = s[j] => i = j
  /\ tl = IF n = 0 THEN Nil ELSE s[n - 1]
  /\ heap = {s[i] : i \in 0..(n - 1)} /\ Cardinality(heap) = n

\* What a step has to do to leave the list s behind.
LEMMA Rebuilt ==
  ASSUME NEW n \in Nat, NEW s, length' = n, IsList(s, n, head', next', tail', allocated')
  PROVE  Chain' /\ Whole' /\ \A i \in 0..n : NodeAt'[i] = s[i]
  <1>1. \A i \in 0..n : NodeAt'[i] = s[i]
    BY NodeAtAfter DEF IsList
  <1>2. n \in 0..n /\ (n # 0 => n - 1 \in 0..n) /\ \A i \in 0..(n - 1) : i \in 0..n
    OBVIOUS
  <1>3. Chain'
    BY <1>1, <1>2 DEF Chain, IsList
  <1>4. {NodeAt'[i] : i \in 0..(n - 1)} = {s[i] : i \in 0..(n - 1)}
    BY <1>1, <1>2
  <1>5. Whole'
    BY <1>1, <1>2, <1>4 DEF Whole, IsList
  <1> QED
    BY <1>1, <1>3, <1>5

\* A node is added at the end.
LEMMA AddedLast ==
  ASSUME TypeOK, Chain, Whole, NEW n \in Heap,
         head' = IF IsEmpty THEN n ELSE head,
         next' = IF IsEmpty THEN [next EXCEPT ![n] = Nil] ELSE [next EXCEPT ![tail] = n, ![n] = Nil],
         tail' = n, allocated' = allocated \cup {n}, length' = length + 1
  PROVE  /\ Chain' /\ Whole'
         /\ \A i \in 0..length : NodeAt'[i] = IF i < length THEN NodeAt[i] ELSE n
  <1>1. /\ length \in Nat /\ NodeAt[0] = head
        /\ \A i \in 0..(length - 1) : next[NodeAt[i]] = NodeAt[i + 1]
        /\ length = 0 <=> head = Nil
    BY ChainFacts
  <1>2. /\ \A i \in 0..(length - 1) : NodeAt[i] \in Nodes
        /\ \A i, j \in 0..(length - 1) : NodeAt[i] = NodeAt[j] => i = j
    BY DEF Chain
  <1>3. n \in Nodes /\ n # Nil /\ \A i \in 0..(length - 1) : NodeAt[i] # n
    BY ListAssumption DEF Heap, Whole
  <1>4. length # 0 => tail = NodeAt[length - 1] /\ length - 1 \in 0..(length - 1) /\ ~IsEmpty
    BY <1>1 DEF Whole, IsEmpty
  <1>5. \A x \in Nodes : next'[x] = IF x = n THEN Nil ELSE IF length # 0 /\ x = tail THEN n ELSE next[x]
    <2>1. CASE length = 0
      BY <1>1, <2>1 DEF IsEmpty, TypeOK
    <2>2. CASE length # 0
      <3>1. tail \in Nodes /\ next' = [next EXCEPT ![tail] = n, ![n] = Nil]
        BY <1>2, <1>4, <2>2
      <3> QED
        BY <1>3, <2>2, <3>1 DEF TypeOK
    <2> QED
      BY <2>1, <2>2
  <1> DEFINE s == [i \in 0..(length + 1) |-> IF i < length THEN NodeAt[i] ELSE IF i = length THEN n ELSE Nil]
  <1>6. s[0] = head'
    <2>1. s[0] = IF 0 < length THEN NodeAt[0] ELSE n
      BY <1>1
    <2> QED
      BY <1>1, <2>1 DEF IsEmpty
  <1>7. ASSUME NEW i \in 1..(length + 1) PROVE s[i] = next'[s[i - 1]]
    <2>1. i \in 0..(length + 1) /\ i - 1 \in 0..(length + 1) /\ i \in Nat
      BY <1>1
    <2>2. CASE i = length + 1
      <3>1. s[i] = Nil /\ s[i - 1] = n
        BY <1>1, <2>1, <2>2
      <3> QED
        BY <1>3, <1>5, <3>1
    <2>3. CASE i = length
      <3>1. s[i] = n /\ s[i - 1] = NodeAt[length - 1] /\ length # 0
        BY <1>1, <2>1, <2>3
      <3>2. NodeAt[length - 1] \in Nodes /\ NodeAt[length - 1] # n /\ tail = NodeAt[length - 1]
        BY <1>2, <1>3, <1>4, <3>1
      <3> QED
        BY <1>5, <3>1, <3>2
    <2>4. CASE i < length
      <3>1. s[i] = NodeAt[i] /\ s[i - 1] = NodeAt[i - 1] /\ i - 1 \in 0..(length - 1) /\ length # 0
        BY <1>1, <2>1, <2>4
      <3>2. NodeAt[i - 1] \in Nodes /\ NodeAt[i - 1] # n /\ NodeAt[i - 1] # tail
        BY <1>1, <1>2, <1>3, <1>4, <2>4, <3>1
      <3>3. next[NodeAt[i - 1]] = NodeAt[i]
        BY <1>1, <2>1, <3>1
      <3> QED
        BY <1>5, <3>1, <3>2, <3>3
    <2> QED
      BY <1>1, <2>1, <2>2, <2>3, <2>4
  <1>8. \A i \in 0..(length + 1) : NodeAt'[i] = s[i]
    <2>1. length + 1 \in Nat
      BY <1>1
    <2> HIDE DEF s
    <2>2. \A i \in 1..(length + 1) : s[i] = next'[s[i - 1]]
      BY <1>7
    <2> QED
      BY <1>6, <2>1, <2>2, NodeAtAfter
  <1>9. \A i \in 0..(length + 1) :
          NodeAt'[i] = IF i < length THEN NodeAt[i] ELSE IF i = length THEN n ELSE Nil
    BY <1>8
  <1>10. Chain'
    <2>1. \A i \in 0..(length' - 1) : i \in 0..(length + 1) /\ (i \in 0..(length - 1) \/ i = length)
      BY <1>1
    <2>2. NodeAt'[length'] = Nil
      BY <1>1, <1>9
    <2>3. \A i \in 0..(length' - 1) : NodeAt'[i] \in Nodes
      BY <1>1, <1>2, <1>3, <1>9, <2>1
    <2>4. \A i, j \in 0..(length' - 1) : NodeAt'[i] = NodeAt'[j] => i = j
      <3> SUFFICES ASSUME NEW i \in 0..(length' - 1), NEW j \in 0..(length' - 1), NodeAt'[i] = NodeAt'[j]
                   PROVE  i = j
        OBVIOUS
      <3>1. /\ i = length => NodeAt'[i] = n
            /\ j = length => NodeAt'[j] = n
            /\ i # length => i \in 0..(length - 1) /\ NodeAt'[i] = NodeAt[i]
            /\ j # length => j \in 0..(length - 1) /\ NodeAt'[j] = NodeAt[j]
        BY <1>1, <1>9, <2>1
      <3> QED
        BY <1>2, <1>3, <3>1
    <2> QED
      BY <2>2, <2>3, <2>4 DEF Chain
  <1>11. Whole'
    <2>1. tail' = IF length' = 0 THEN Nil ELSE NodeAt'[length' - 1]
      BY <1>1, <1>9
    <2>2. allocated' = {NodeAt'[i] : i \in 0..(length' - 1)}
      <3>1. \A i \in 0..(length' - 1) : (i \in 0..(length - 1) /\ NodeAt'[i] = NodeAt[i]) \/ NodeAt'[i] = n
        BY <1>1, <1>9
      <3>2. \A i \in 0..(length - 1) : i \in 0..(length' - 1) /\ NodeAt'[i] = NodeAt[i]
        BY <1>1, <1>9
      <3>3. length \in 0..(length' - 1) /\ NodeAt'[length] = n
        BY <1>1, <1>9
      <3> QED
        BY <3>1, <3>2, <3>3 DEF Whole
    <2>3. Cardinality(allocated') = length'
      <3>1. IsFiniteSet(allocated) /\ n \notin allocated
        BY ListAssumption, FS_Subset DEF TypeOK, Heap
      <3> QED
        BY <3>1, FS_AddElement DEF Whole
    <2> QED
      BY <2>1, <2>2, <2>3 DEF Whole
  <1> QED
    BY <1>1, <1>9, <1>10, <1>11

\* A node is added at the head.
LEMMA AddedFirst ==
  ASSUME TypeOK, Chain, Whole, NEW n \in Heap,
         head' = n, next' = [next EXCEPT ![n] = head],
         tail' = IF IsEmpty THEN n ELSE tail,
         allocated' = allocated \cup {n}, length' = length + 1
  PROVE  /\ Chain' /\ Whole'
         /\ \A i \in 0..length : NodeAt'[i] = IF i = 0 THEN n ELSE NodeAt[i - 1]
  <1>1. /\ length \in Nat /\ NodeAt[0] = head
        /\ \A i \in 0..(length - 1) : next[NodeAt[i]] = NodeAt[i + 1]
        /\ length = 0 <=> head = Nil
    BY ChainFacts
  <1>2. /\ \A i \in 0..(length - 1) : NodeAt[i] \in Nodes
        /\ \A i, j \in 0..(length - 1) : NodeAt[i] = NodeAt[j] => i = j
        /\ NodeAt[length] = Nil
    BY DEF Chain
  <1>3. n \in Nodes /\ \A i \in 0..(length - 1) : NodeAt[i] # n
    BY DEF Heap, Whole
  <1>4. \A x \in Nodes : next'[x] = IF x = n THEN head ELSE next[x]
    BY <1>3 DEF TypeOK
  <1> DEFINE m == length + 1
             s == [i \in 0..m |-> IF i = 0 THEN n ELSE NodeAt[i - 1]]
  <1>5. m \in Nat /\ length' = m /\ m - 1 = length /\ m # 0
    BY <1>1
  <1>6. \A i \in 0..m : s[i] = IF i = 0 THEN n ELSE NodeAt[i - 1]
    OBVIOUS
  <1>7. \A i \in 1..m : i \in 0..m /\ i - 1 \in 0..m /\ i - 1 \in 0..length /\ i # 0
    BY <1>1
  <1>8. \A i \in 0..(m - 1) : i \in 0..m /\ (i # 0 => i - 1 \in 0..(length - 1))
    BY <1>1
  <1> HIDE DEF s
  <1>9. \A i \in 1..m : s[i] = next'[s[i - 1]]
    <2> SUFFICES ASSUME NEW i \in 1..m PROVE s[i] = next'[s[i - 1]]
      OBVIOUS
    <2>1. CASE i = 1
      <3>1. s[i] = NodeAt[0] /\ s[i - 1] = n
        BY <1>6, <1>7, <2>1
      <3> QED
        BY <1>1, <1>3, <1>4, <3>1
    <2>2. CASE i # 1
      <3>1. s[i] = NodeAt[i - 1] /\ s[i - 1] = NodeAt[i - 2] /\ i - 2 \in 0..(length - 1)
        BY <1>1, <1>6, <1>7, <2>2
      <3>2. next[NodeAt[i - 2]] = NodeAt[i - 1]
        BY <1>1, <3>1
      <3> QED
        BY <1>2, <1>3, <1>4, <3>1, <3>2
    <2> QED
      BY <2>1, <2>2
  <1>10. s[0] = head' /\ s[m] = Nil
    BY <1>2, <1>5, <1>6
  <1>11. \A i \in 0..(m - 1) : s[i] \in Nodes
    BY <1>2, <1>3, <1>6, <1>8
  <1>12. \A i, j \in 0..(m - 1) : s[i] = s[j] => i = j
    <2> SUFFICES ASSUME NEW i \in 0..(m - 1), NEW j \in 0..(m - 1), s[i] = s[j] PROVE i = j
      OBVIOUS
    <2>1. i = 0 \/ (i - 1 \in 0..(length - 1) /\ s[i] = NodeAt[i - 1] /\ i # 0)
      BY <1>6, <1>8
    <2>2. j = 0 \/ (j - 1 \in 0..(length - 1) /\ s[j] = NodeAt[j - 1] /\ j # 0)
      BY <1>6, <1>8
    <2>3. s[0] = n
      BY <1>5, <1>6
    <2>4. i # 0 /\ j # 0 => i - 1 = j - 1
      BY <1>2, <2>1, <2>2
    <2> QED
      BY <1>3, <2>1, <2>2, <2>3, <2>4
  <1>13. tail' = IF m = 0 THEN Nil ELSE s[m - 1]
    <2>1. s[m - 1] = IF length = 0 THEN n ELSE NodeAt[length - 1]
      BY <1>1, <1>5, <1>6
    <2> QED
      BY <1>1, <1>5, <2>1 DEF Whole, IsEmpty
  <1>14. allocated' = {s[i] : i \in 0..(m - 1)}
    <2>1. \A i \in 0..(length - 1) : i + 1 \in 0..(m - 1) /\ s[i + 1] = NodeAt[i]
      BY <1>1, <1>6
    <2>2. 0 \in 0..(m - 1) /\ s[0] = n
      BY <1>1, <1>6
    <2>3. \A i \in 0..(m - 1) : s[i] = n \/ (s[i] = NodeAt[i - 1] /\ i - 1 \in 0..(length - 1))
      BY <1>6, <1>8
    <2> QED
      BY <2>1, <2>2, <2>3 DEF Whole
  <1>15. Cardinality(allocated') = m
    <2>1. IsFiniteSet(allocated) /\ n \notin allocated
      BY ListAssumption, FS_Subset DEF TypeOK, Heap
    <2> QED
      BY <2>1, FS_AddElement DEF Whole
  <1> HIDE DEF m
  <1>16. Chain' /\ Whole' /\ \A i \in 0..m : NodeAt'[i] = s[i]
    <2>1. IsList(s, m, head', next', tail', allocated')
      BY <1>9, <1>10, <1>11, <1>12, <1>13, <1>14, <1>15 DEF IsList
    <2> QED
      BY <1>5, <2>1, Rebuilt
  <1> QED
    BY <1>1, <1>6, <1>16 DEF m

\* The node k is unlinked and deleted.
Removes(k) ==
  /\ head' = IF k = 0 THEN next[head] ELSE head
  /\ next' = IF k = 0 THEN next ELSE [next EXCEPT ![NodeAt[k - 1]] = next[NodeAt[k]]]
  /\ tail' = IF k = length - 1 THEN IF k = 0 THEN Nil ELSE NodeAt[k - 1] ELSE tail
  /\ allocated' = allocated \ {NodeAt[k]}
  /\ length' = length - 1
  /\ data' = data

LEMMA RemovedAt ==
  ASSUME TypeOK, Chain, Whole, NEW k \in 0..(length - 1), Removes(k)
  PROVE  /\ Chain' /\ Whole'
         /\ \A i \in 0..(length - 1) : NodeAt'[i] = IF i < k THEN NodeAt[i] ELSE NodeAt[i + 1]
  <1> USE DEF Removes
  <1>1. /\ length \in Nat /\ NodeAt[0] = head
        /\ \A i \in 0..(length - 1) : next[NodeAt[i]] = NodeAt[i + 1]
    BY ChainFacts
  <1>2. /\ \A i \in 0..(length - 1) : NodeAt[i] \in Nodes
        /\ \A i, j \in 0..(length - 1) : NodeAt[i] = NodeAt[j] => i = j
        /\ NodeAt[length] = Nil
    BY DEF Chain
  <1> DEFINE m == length - 1
             s == [i \in 0..m |-> IF i < k THEN NodeAt[i] ELSE NodeAt[i + 1]]
  <1>3. m \in Nat /\ length' = m /\ length = m + 1 /\ k \in 0..m /\ k \in Nat
    BY <1>1
  <1>4. \A i \in 0..m : s[i] = IF i < k THEN NodeAt[i] ELSE NodeAt[i + 1]
    OBVIOUS
  <1> HIDE DEF m, s
  <1>5. \A i \in 0..m : NodeAt[i] \in Nodes /\ next[NodeAt[i]] = NodeAt[i + 1]
    BY <1>1, <1>2 DEF m
  <1>6. \A i, j \in 0..m : NodeAt[i] = NodeAt[j] => i = j
    BY <1>2 DEF m
  <1>7. \A x \in Nodes : next'[x] = IF k # 0 /\ x = NodeAt[k - 1] THEN NodeAt[k + 1] ELSE next[x]
    <2>1. k # 0 => k - 1 \in 0..m /\ NodeAt[k - 1] \in Nodes
      BY <1>3, <1>5
    <2>2. next[NodeAt[k]] = NodeAt[k + 1]
      BY <1>3, <1>5
    <2> QED
      BY <2>1, <2>2 DEF TypeOK
  <1>8. ASSUME NEW i \in 1..m PROVE s[i] = next'[s[i - 1]]
    <2>1. i \in 0..m /\ i - 1 \in 0..m /\ (i - 1) + 1 = i
      BY <1>3
    <2>2. CASE i < k
      <3>1. s[i] = NodeAt[i] /\ s[i - 1] = NodeAt[i - 1]
        BY <1>3, <1>4, <2>1, <2>2
      <3>2. k - 1 \in 0..m /\ i - 1 # k - 1
        BY <1>3, <2>1, <2>2
      <3>3. NodeAt[i - 1] # NodeAt[k - 1]
        BY <1>6, <2>1, <3>2
      <3>4. NodeAt[i - 1] \in Nodes /\ next[NodeAt[i - 1]] = NodeAt[i]
        BY <1>5, <2>1
      <3> QED
        BY <1>7, <3>1, <3>3, <3>4
    <2>3. CASE i = k
      <3>1. s[i] = NodeAt[k + 1] /\ s[i - 1] = NodeAt[k - 1] /\ k # 0
        BY <1>3, <1>4, <2>1, <2>3
      <3>2. NodeAt[k - 1] \in Nodes
        BY <1>5, <2>1, <2>3
      <3> QED
        BY <1>7, <3>1, <3>2
    <2>4. CASE i > k
      <3>1. s[i] = NodeAt[i + 1] /\ s[i - 1] = NodeAt[i]
        BY <1>3, <1>4, <2>1, <2>4
      <3>2. NodeAt[i] \in Nodes /\ next[NodeAt[i]] = NodeAt[i + 1]
        BY <1>5, <2>1
      <3>3. k # 0 => k - 1 \in 0..m /\ i # k - 1
        BY <1>3, <2>4
      <3>4. k # 0 => NodeAt[i] # NodeAt[k - 1]
        BY <1>6, <2>1, <3>3
      <3> QED
        BY <1>7, <3>1, <3>2, <3>4
    <2> QED
      BY <1>3, <2>1, <2>2, <2>3, <2>4
  <1>9. s[0] = head'
    <2>1. 0 \in 0..m /\ 0 + 1 = 1 /\ s[0] = IF 0 < k THEN NodeAt[0] ELSE NodeAt[0 + 1]
      BY <1>3, <1>4
    <2>2. next[NodeAt[0]] = NodeAt[0 + 1]
      BY <1>5, <2>1
    <2> QED
      BY <1>1, <1>3, <2>1, <2>2
  <1>10. s[m] = Nil
    BY <1>2, <1>3, <1>4
  <1>11. \A i \in 0..(m - 1) : i \in 0..m /\ i + 1 \in 0..m
    BY <1>3
  <1>12. \A i \in 0..(m - 1) : s[i] \in Nodes
    BY <1>4, <1>5, <1>11
  <1>13. \A i, j \in 0..(m - 1) : s[i] = s[j] => i = j
    <2> SUFFICES ASSUME NEW i \in 0..(m - 1), NEW j \in 0..(m - 1), s[i] = s[j] PROVE i = j
      OBVIOUS
    <2> DEFINE a == IF i < k THEN i ELSE i + 1
               b == IF j < k THEN j ELSE j + 1
    <2>1. a \in 0..m /\ b \in 0..m /\ s[i] = NodeAt[a] /\ s[j] = NodeAt[b]
      BY <1>4, <1>11
    <2>2. a = b
      <3> HIDE DEF a, b
      <3> QED
        BY <1>6, <2>1
    <2> QED
      BY <1>3, <2>2
  <1>14. tail' = IF m = 0 THEN Nil ELSE s[m - 1]
    <2>1. tail = NodeAt[m]
      BY <1>3 DEF Whole
    <2>2. m # 0 => m - 1 \in 0..m /\ s[m - 1] = IF m - 1 < k THEN NodeAt[m - 1] ELSE NodeAt[m]
      BY <1>3, <1>4
    <2>3. m - 1 < k <=> k = m
      BY <1>3
    <2>4. k = length - 1 <=> k = m
      BY DEF m
    <2> QED
      BY <1>3, <2>1, <2>2, <2>3, <2>4
  <1>15. allocated' = {s[i] : i \in 0..(m - 1)}
    <2>1. allocated = {NodeAt[i] : i \in 0..m}
      BY DEF Whole, m
    <2>2. ASSUME NEW i \in 0..(m - 1) PROVE s[i] \in allocated \ {NodeAt[k]}
      <3>1. \E a \in 0..m : s[i] = NodeAt[a] /\ a # k
        BY <1>3, <1>4, <1>11
      <3> QED
        BY <1>3, <1>6, <2>1, <3>1
    <2>3. ASSUME NEW x \in allocated \ {NodeAt[k]} PROVE x \in {s[i] : i \in 0..(m - 1)}
      <3>1. PICK a \in 0..m : x = NodeAt[a] /\ a # k
        BY <2>1
      <3>2. CASE a < k
        <4>1. a \in 0..(m - 1) /\ a \in 0..m /\ s[a] = NodeAt[a]
          BY <1>3, <1>4, <3>2
        <4> QED
          BY <3>1, <4>1
      <3>3. CASE ~(a < k)
        <4>1. a - 1 \in 0..(m - 1) /\ s[a - 1] = NodeAt[a]
          BY <1>3, <1>4, <3>1, <3>3
        <4> QED
          BY <3>1, <4>1
      <3> QED
        BY <3>2, <3>3
    <2> QED
      BY <2>2, <2>3
  <1>16. Cardinality(allocated') = m
    <2>1. IsFiniteSet(allocated) /\ NodeAt[k] \in allocated
      BY <1>3, ListAssumption, FS_Subset DEF TypeOK, Whole
    <2>2. Cardinality(allocated \ {NodeAt[k]}) = Cardinality(allocated) - 1
      BY <2>1, FS_RemoveElement
    <2> QED
      BY <2>2 DEF Whole, m
  <1>17. Chain' /\ Whole' /\ \A i \in 0..m : NodeAt'[i] = s[i]
    <2>1. \A i \in 1..m : s[i] = next'[s[i - 1]]
      BY <1>8
    <2>2. IsList(s, m, head', next', tail', allocated')
      BY <1>9, <1>10, <1>12, <1>13, <1>14, <1>15, <1>16, <2>1 DEF IsList
    <2> QED
      BY <1>3, <2>2, Rebuilt
  <1> QED
    BY <1>4, <1>17 DEF m

(***************************************************************************)
(* What the methods do to the list                                         *)
(***************************************************************************)

\* p_remove_item_at_index removes the node it is asked for.
LEMMA UnlinkRemoves ==
  ASSUME TypeOK, Chain, NEW k \in 0..(length - 1), Unlink(k)
  PROVE  Removes(k)
  <1>1. /\ length \in Nat /\ NodeAt[0] = head
        /\ \A i \in 0..(length - 1) : next[NodeAt[i]] = NodeAt[i + 1]
        /\ \A i \in 0..length : NodeAt[i] = Nil <=> i = length
    BY ChainFacts
  <1>2. CASE k = 0
    <2>1. next[head] = Nil <=> k = length - 1
      <3>1. 0 \in 0..(length - 1) /\ 1 \in 0..length /\ 0 + 1 = 1
        BY <1>1, <1>2
      <3>2. next[head] = NodeAt[1] /\ (NodeAt[1] = Nil <=> 1 = length)
        BY <1>1, <3>1
      <3> QED
        BY <1>1, <1>2, <3>2
    <2> QED
      BY <1>1, <1>2, <2>1 DEF Unlink, Removes
  <1>3. CASE k # 0
    <2>1. next[NodeAt[k - 1]] = NodeAt[k]
      <3>1. k - 1 \in 0..(length - 1) /\ (k - 1) + 1 = k
        BY <1>1, <1>3
      <3> QED
        BY <1>1, <3>1
    <2> QED
      BY <1>3, <2>1 DEF Unlink, Removes
  <1> QED
    BY <1>2, <1>3

\* remove_item_by_value finds what it looks for at the head.
LEMMA HitsHeadRemoves ==
  ASSUME TypeOK, Chain, SearchHitsHead
  PROVE  0 \in 0..(length - 1) /\ Removes(0) /\ data[NodeAt[0]] = wanted
  <1>1. /\ length \in Nat /\ NodeAt[0] = head
        /\ \A i \in 0..(length - 1) : next[NodeAt[i]] = NodeAt[i + 1]
        /\ length = 0 <=> head = Nil
        /\ \A i \in 0..length : NodeAt[i] = Nil <=> i = length
    BY ChainFacts
  <1>2. 0 \in 0..(length - 1) /\ 1 \in 0..length /\ 0 + 1 = 1
    BY <1>1 DEF SearchHitsHead, IsEmpty
  <1>3. next[head] = NodeAt[1] /\ (NodeAt[1] = Nil <=> 1 = length)
    BY <1>1, <1>2
  <1>4. next[head] = Nil <=> 0 = length - 1
    BY <1>1, <1>3
  <1> QED
    BY <1>1, <1>2, <1>4 DEF SearchHitsHead, Removes

\* Where the loop of remove_item_by_value is.
LEMMA SearchingAt ==
  ASSUME TypeOK, Chain, SearchInv, Searching
  PROVE  \E c \in 0..(length - 1) : /\ curr = NodeAt[c] /\ next[curr] = NodeAt[c + 1]
                                    /\ next[curr] = Nil <=> c = length - 1
                                    /\ \A j \in 0..c : data[NodeAt[j]] # wanted
  <1>1. /\ length \in Nat /\ NodeAt[0] = head
        /\ \A i \in 0..(length - 1) : next[NodeAt[i]] = NodeAt[i + 1]
        /\ length = 0 <=> head = Nil
        /\ \A i \in 0..length : NodeAt[i] = Nil <=> i = length
    BY ChainFacts
  <1>2. PICK c \in 0..length : /\ curr = NodeAt[c]
                               /\ c = length => c = 0
                               /\ c > 0 => \A j \in 0..c : data[NodeAt[j]] # wanted
    BY DEF SearchInv, Searching
  <1>3. c \in 0..(length - 1) /\ c + 1 \in 0..length /\ (c + 1 = length <=> c = length - 1)
    BY <1>1, <1>2 DEF Searching, IsEmpty
  <1>4. next[curr] = NodeAt[c + 1] /\ (NodeAt[c + 1] = Nil <=> c + 1 = length)
    BY <1>1, <1>2, <1>3
  <1>5. \A j \in 0..c : data[NodeAt[j]] # wanted
    <2>1. CASE c = 0
      BY <1>1, <1>2, <2>1 DEF Searching
    <2>2. CASE c # 0
      BY <1>2, <1>3, <2>2
    <2> QED
      BY <2>1, <2>2
  <1> QED
    BY <1>2, <1>3, <1>4, <1>5

\* ... and what it removes: the first node with the value.
LEMMA HitsRemoves ==
  ASSUME TypeOK, Chain, SearchInv, SearchHits
  PROVE  \E k \in 0..(length - 1) : /\ Removes(k) /\ data[NodeAt[k]] = wanted
                                    /\ \A j \in 0..(k - 1) : data[NodeAt[j]] # wanted
  <1>1. /\ length \in Nat
        /\ \A i \in 0..(length - 1) : NodeAt[i] \in Nodes
        /\ \A i \in 0..(length - 1) : next[NodeAt[i]] = NodeAt[i + 1]
        /\ \A i \in 0..length : NodeAt[i] = Nil <=> i = length
    BY ChainFacts DEF Chain
  <1>2. Searching
    BY DEF SearchHits
  <1>3. PICK c \in 0..(length - 1) : /\ curr = NodeAt[c] /\ next[curr] = NodeAt[c + 1]
                                     /\ next[curr] = Nil <=> c = length - 1
                                     /\ \A j \in 0..c : data[NodeAt[j]] # wanted
    BY <1>2, SearchingAt
  <1> DEFINE k == c + 1
  <1>4. k \in 0..(length - 1) /\ k - 1 = c /\ k # 0 /\ k + 1 \in 0..length
    BY <1>1, <1>3 DEF SearchHits
  <1>5. next[NodeAt[k]] = NodeAt[k + 1] /\ (NodeAt[k + 1] = Nil <=> k + 1 = length)
    BY <1>1, <1>4
  <1>6. k + 1 = length <=> k = length - 1
    BY <1>1
  <1>7. next' = [next EXCEPT ![curr] = next[NodeAt[k]]] /\ next'[curr] = next[NodeAt[k]]
    BY <1>1, <1>3 DEF SearchHits, TypeOK
  <1> HIDE DEF k
  <1>8. Removes(k)
    BY <1>3, <1>4, <1>5, <1>6, <1>7 DEF SearchHits, Removes, k
  <1>9. data[NodeAt[k]] = wanted
    BY <1>3 DEF SearchHits, k
  <1> QED
    BY <1>3, <1>4, <1>8, <1>9

\* A search that ends without a hit leaves the list alone.
LEMMA MissesNothing ==
  ASSUME TypeOK, Chain, Whole, SearchInv, SearchMisses
  PROVE  UNCHANGED nodeVars /\ \A j \in 0..(length - 1) : data[NodeAt[j]] # wanted
  <1>1. length \in Nat /\ (length = 0 <=> head = Nil)
    BY ChainFacts
  <1>2. UNCHANGED nodeVars
    BY <1>1 DEF SearchMisses, nodeVars, Whole, IsEmpty
  <1>3. CASE IsEmpty
    BY <1>1, <1>2, <1>3 DEF IsEmpty
  <1>4. CASE Searching /\ next[curr] = Nil
    BY <1>2, <1>4, SearchingAt
  <1> QED
    BY <1>2, <1>3, <1>4 DEF SearchMisses

(***************************************************************************)
(* Type correctness                                                        *)
(***************************************************************************)

LEMMA InitType == Init => TypeOK
  <1> SUFFICES ASSUME Init PROVE TypeOK
    OBVIOUS
  <1>1. (CHOOSE v \in Values : TRUE) \in Values
    BY ListAssumption
  <1>2. 0 \in 0..Cardinality(Nodes)
    BY ListAssumption, FS_CardinalityType
  <1>3. last \in Calls
    BY DEF Init, Call, Calls, Operations
  <1>4. data \in [Nodes -> Values]
    BY <1>1 DEF Init
  <1> QED
    BY <1>2, <1>3, <1>4 DEF Init, TypeOK

\* As long as the list is whole, it is no longer than the heap is large.
LEMMA LengthInHeap ==
  ASSUME NEW S, S \subseteq Nodes, NEW n, Cardinality(S) = n
  PROVE  n \in 0..Cardinality(Nodes)
BY ListAssumption, FS_Subset, FS_CardinalityType

LEMMA CallType ==
  ASSUME NEW op \in Operations, NEW i \in Nat, NEW v \in Values \cup {NoValue}, Returns(op, i, v)
  PROVE  last' \in Calls
BY DEF Returns, Call, Calls

\* The nodes of a list removed from keep their types.
LEMMA RemovesType ==
  ASSUME TypeOK, Chain, Whole, NEW k \in 0..(length - 1), Removes(k)
  PROVE  /\ head' \in Nodes \cup {Nil} /\ tail' \in Nodes \cup {Nil}
         /\ length' \in 0..Cardinality(Nodes)
         /\ data' \in [Nodes -> Values]
         /\ next' \in [Nodes -> Nodes \cup {Nil}]
         /\ allocated' \in SUBSET Nodes
  <1>1. /\ length \in Nat /\ NodeAt[0] = head
        /\ \A i \in 0..(length - 1) : NodeAt[i] \in Nodes
    BY ChainFacts DEF Chain
  <1>2. NodeAt[k] \in Nodes /\ next[NodeAt[k]] \in Nodes \cup {Nil}
    BY <1>1 DEF TypeOK
  <1>3. k # 0 => NodeAt[k - 1] \in Nodes
    BY <1>1
  <1>4. allocated' \in SUBSET Nodes
    BY DEF Removes, TypeOK
  <1>5. Whole'
    BY RemovedAt
  <1>6. length' \in 0..Cardinality(Nodes)
    BY <1>4, <1>5, LengthInHeap DEF Whole
  <1>7. head' \in Nodes \cup {Nil} /\ tail' \in Nodes \cup {Nil}
    BY <1>1, <1>2, <1>3 DEF Removes, TypeOK
  <1>8. next' \in [Nodes -> Nodes \cup {Nil}] /\ data' \in [Nodes -> Values]
    BY <1>2, <1>3 DEF Removes, TypeOK
  <1> QED
    BY <1>4, <1>6, <1>7, <1>8

\* A step that leaves the nodes alone leaves the list alone.
LEMMA SameNodes ==
  ASSUME UNCHANGED nodeVars
  PROVE  NodeAt' = NodeAt /\ Chain' = Chain /\ Whole' = Whole
  <1>1. NodeAt' = NodeAt
    BY NodeAtWalk DEF nodeVars
  <1> QED
    BY <1>1 DEF Chain, Whole, nodeVars

\* Nothing more is to be seen to when the mutex is free after a step.
LEMMA FreeAfter == mutex' = "free" => SearchInv' /\ DestroyInv'
BY DEF SearchInv, DestroyInv

LEMMA AppendStep ==
  ASSUME TypeOK, ListInv, NEW v \in Values, AppendNode(v)
  PROVE  TypeOK' /\ ListInv'
  <1>1. PICK n \in Heap :
          /\ head' = IF IsEmpty THEN n ELSE head
          /\ next' = IF IsEmpty THEN [next EXCEPT ![n] = Nil] ELSE [next EXCEPT ![tail] = n, ![n] = Nil]
          /\ data' = [data EXCEPT ![n] = v]
          /\ tail' = n
          /\ allocated' = allocated \cup {n}
    BY DEF AppendNode
  <1>2. mutex = "free" /\ UNCHANGED callVars /\ length' = length + 1 /\ Returns("append", 0, v)
    BY DEF AppendNode
  <1>3. Chain /\ Whole
    BY <1>2 DEF ListInv, Live
  <1>4. Chain' /\ Whole'
    BY <1>1, <1>2, <1>3, AddedLast
  <1>5. ListInv'
    BY <1>2, <1>4, FreeAfter DEF ListInv, callVars
  <1>6. n \in Nodes /\ allocated' \in SUBSET Nodes
    BY <1>1 DEF Heap, TypeOK
  <1>7. length' \in 0..Cardinality(Nodes)
    BY <1>4, <1>6, LengthInHeap DEF Whole
  <1>8. last' \in Calls
    BY <1>2, CallType DEF Operations
  <1>9. data' \in [Nodes -> Values] /\ next' \in [Nodes -> Nodes \cup {Nil}]
    BY <1>1, <1>6 DEF TypeOK
  <1>10. head' \in Nodes \cup {Nil} /\ tail' \in Nodes \cup {Nil}
    BY <1>1, <1>6 DEF TypeOK
  <1> QED
    BY <1>2, <1>5, <1>6, <1>7, <1>8, <1>9, <1>10 DEF TypeOK, callVars

LEMMA PrependStep ==
  ASSUME TypeOK, ListInv, NEW v \in Values, PrependNode(v)
  PROVE  TypeOK' /\ ListInv'
  <1>1. PICK n \in Heap :
          /\ next' = [next EXCEPT ![n] = head]
          /\ data' = [data EXCEPT ![n] = v]
          /\ tail' = IF IsEmpty THEN n ELSE tail
          /\ head' = n
          /\ allocated' = allocated \cup {n}
    BY DEF PrependNode
  <1>2. mutex = "free" /\ UNCHANGED callVars /\ length' = length + 1 /\ Returns("prepend", 0, v)
    BY DEF PrependNode
  <1>3. Chain /\ Whole
    BY <1>2 DEF ListInv, Live
  <1>4. Chain' /\ Whole'
    BY <1>1, <1>2, <1>3, AddedFirst
  <1>5. ListInv'
    BY <1>2, <1>4, FreeAfter DEF ListInv, callVars
  <1>6. n \in Nodes /\ allocated' \in SUBSET Nodes
    BY <1>1 DEF Heap, TypeOK
  <1>7. length' \in 0..Cardinality(Nodes)
    BY <1>4, <1>6, LengthInHeap DEF Whole
  <1>8. last' \in Calls
    BY <1>2, CallType DEF Operations
  <1>9. data' \in [Nodes -> Values] /\ next' \in [Nodes -> Nodes \cup {Nil}]
    BY <1>1, <1>6 DEF TypeOK
  <1>10. head' \in Nodes \cup {Nil} /\ tail' \in Nodes \cup {Nil}
    BY <1>1, <1>6 DEF TypeOK
  <1> QED
    BY <1>2, <1>5, <1>6, <1>7, <1>8, <1>9, <1>10 DEF TypeOK, callVars

\* A method that removes the node k and leaves the mutex free.
LEMMA RemovalStep ==
  ASSUME TypeOK, ListInv, Live, NEW k \in 0..(length - 1), Removes(k),
         mutex' = "free", curr' \in Nodes \cup {Nil}, wanted' \in Values \cup {NoValue},
         last' \in Calls
  PROVE  TypeOK' /\ ListInv'
  <1>1. Chain /\ Whole
    BY DEF ListInv
  <1>2. Chain' /\ Whole'
    BY <1>1, RemovedAt
  <1>3. ListInv'
    BY <1>2, FreeAfter DEF ListInv
  <1> QED
    BY <1>1, <1>3, RemovesType DEF TypeOK

\* ... and one that leaves the list alone.
LEMMA QuietStep ==
  ASSUME TypeOK, ListInv, Live, UNCHANGED nodeVars,
         mutex' = "free", curr' \in Nodes \cup {Nil}, wanted' \in Values \cup {NoValue},
         last' \in Calls
  PROVE  TypeOK' /\ ListInv'
  <1>1. Chain' /\ Whole'
    BY SameNodes DEF ListInv
  <1>2. ListInv'
    BY <1>1, FreeAfter DEF ListInv
  <1> QED
    BY <1>2 DEF TypeOK, nodeVars

\* The values get_item_at_index and take_first_item yield.
LEMMA ItemType ==
  ASSUME TypeOK, Chain
  PROVE  \A i \in 0..(length - 1) : data[NodeAt[i]] \in Values
BY DEF TypeOK, Chain

LEMMA MethodStep ==
  ASSUME TypeOK, ListInv,
         \/ \E i \in 0..length : RemoveItemAtIndex(i) \/ GetItemAtIndex(i)
         \/ TakeFirstItem \/ Length
  PROVE  TypeOK' /\ ListInv'
  <1>1. mutex = "free" /\ UNCHANGED callVars /\ Live
    BY DEF RemoveItemAtIndex, GetItemAtIndex, TakeFirstItem, Length, Live
  <1>2. mutex' = "free" /\ curr' \in Nodes \cup {Nil} /\ wanted' \in Values \cup {NoValue}
    BY <1>1 DEF callVars, TypeOK
  <1>3. Chain /\ length \in Nat /\ NodeAt[0] = head /\ (length = 0 <=> head = Nil)
    BY ChainFacts DEF ListInv
  <1>4. NoValue \in Values \cup {NoValue} /\ \A i \in 0..length : i \in Nat
    BY <1>3
  <1>5. ASSUME NEW i \in 0..length, RemoveItemAtIndex(i) PROVE TypeOK' /\ ListInv'
    <2>1. last' \in Calls
      BY <1>4, <1>5, CallType DEF Operations, RemoveItemAtIndex
    <2>2. CASE i < length
      <3>1. i \in 0..(length - 1) /\ Unlink(i)
        BY <1>3, <1>5, <2>2 DEF RemoveItemAtIndex
      <3> QED
        BY <1>1, <1>2, <1>3, <2>1, <3>1, UnlinkRemoves, RemovalStep
    <2>3. CASE ~(i < length)
      <3>1. UNCHANGED nodeVars
        BY <1>5, <2>3 DEF RemoveItemAtIndex
      <3> QED
        BY <1>1, <1>2, <2>1, <3>1, QuietStep
    <2> QED
      BY <2>2, <2>3
  <1>6. ASSUME NEW i \in 0..length, GetItemAtIndex(i) PROVE TypeOK' /\ ListInv'
    <2>1. (IF i < length THEN data[NodeAt[i]] ELSE NoValue) \in Values \cup {NoValue}
      <3>1. i < length => i \in 0..(length - 1)
        BY <1>3
      <3> QED
        BY <1>3, <3>1, ItemType
    <2>2. last' \in Calls
      BY <1>4, <1>6, <2>1, CallType DEF Operations, GetItemAtIndex
    <2>3. UNCHANGED nodeVars
      BY <1>6 DEF GetItemAtIndex
    <2> QED
      BY <1>1, <1>2, <2>2, <2>3, QuietStep
  <1>7. CASE TakeFirstItem
    <2>1. 0 \in 0..(length - 1) /\ Unlink(0)
      BY <1>3, <1>7 DEF TakeFirstItem, IsEmpty
    <2>2. data[head] \in Values \cup {NoValue}
      BY <1>3, <2>1, ItemType
    <2>3. last' \in Calls
      BY <1>7, <2>2, CallType DEF Operations, TakeFirstItem
    <2> QED
      BY <1>1, <1>2, <1>3, <2>1, <2>3, UnlinkRemoves, RemovalStep
  <1>8. CASE Length
    <2>1. last' \in Calls
      BY <1>3, <1>4, <1>8, CallType DEF Operations, Length
    <2>2. UNCHANGED nodeVars
      BY <1>8 DEF Length
    <2> QED
      BY <1>1, <1>2, <2>1, <2>2, QuietStep
  <1> QED
    BY <1>5, <1>6, <1>7, <1>8

LEMMA SearchStep ==
  ASSUME TypeOK, ListInv, Search \/ \E v \in Values : SearchBegin(v)
  PROVE  TypeOK' /\ ListInv'
  <1>1. Chain /\ length \in Nat /\ NodeAt[0] = head /\ SearchInv
    BY ChainFacts DEF ListInv
  <1>2. SearchEnd => /\ mutex' = "free" /\ curr' \in Nodes \cup {Nil} /\ wanted' \in Values \cup {NoValue}
                     /\ last' \in Calls
    <2> SUFFICES ASSUME SearchEnd PROVE last' \in Calls
      BY DEF SearchEnd
    <2>1. Returns("remove", 0, wanted) /\ wanted \in Values \cup {NoValue}
      BY DEF SearchEnd, TypeOK
    <2> QED
      BY <2>1, CallType DEF Operations
  <1>3. ASSUME NEW v \in Values, SearchBegin(v) PROVE TypeOK' /\ ListInv'
    <2>1. NodeAt' = NodeAt /\ Chain' /\ Whole'
      BY <1>3, SameNodes DEF SearchBegin, ListInv, Live
    <2>2. SearchInv'
      <3>1. 0 \in 0..length' /\ curr' = NodeAt'[0]
        BY <1>1, <1>3, <2>1 DEF SearchBegin, nodeVars
      <3>2. wanted' \in Values
        BY <1>3 DEF SearchBegin
      <3> QED
        BY <3>1, <3>2 DEF SearchInv
    <2>3. DestroyInv'
      BY <1>3 DEF SearchBegin, DestroyInv
    <2> QED
      BY <1>3, <2>1, <2>2, <2>3 DEF ListInv, TypeOK, SearchBegin, nodeVars
  <1>4. CASE SearchHitsHead
    <2>1. SearchEnd /\ Live
      BY <1>4 DEF SearchHitsHead, Live
    <2> QED
      BY <1>1, <1>2, <1>4, <2>1, HitsHeadRemoves, RemovalStep
  <1>5. CASE SearchHits
    <2>1. SearchEnd /\ Live
      BY <1>5 DEF SearchHits, Searching, Live
    <2>2. PICK k \in 0..(length - 1) : Removes(k)
      BY <1>1, <1>5, HitsRemoves
    <2> QED
      BY <1>2, <2>1, <2>2, RemovalStep
  <1>6. CASE SearchMovesOn
    <2>1. NodeAt' = NodeAt /\ Chain' /\ Whole'
      BY <1>6, SameNodes DEF SearchMovesOn, Searching, ListInv, Live
    <2>2. Searching /\ next[curr] # Nil /\ data[next[curr]] # wanted /\ curr' = next[curr]
      BY <1>6 DEF SearchMovesOn
    <2>3. PICK c \in 0..(length - 1) : /\ curr = NodeAt[c] /\ next[curr] = NodeAt[c + 1]
                                       /\ next[curr] = Nil <=> c = length - 1
                                       /\ \A j \in 0..c : data[NodeAt[j]] # wanted
      BY <1>1, <2>2, SearchingAt
    <2>4. c + 1 \in 0..(length - 1) /\ c + 1 # length /\ c + 1 \in 0..length
      BY <1>1, <2>2, <2>3
    <2>5. \A j \in 0..(c + 1) : data[NodeAt[j]] # wanted
      <3>1. \A j \in 0..(c + 1) : j \in 0..c \/ j = c + 1
        BY <2>3
      <3> QED
        BY <2>2, <2>3, <3>1
    <2>6. SearchInv'
      <3>1. curr' = NodeAt'[c + 1] /\ wanted' = wanted /\ data' = data /\ length' = length
        BY <1>6, <2>1, <2>3 DEF SearchMovesOn, nodeVars
      <3>2. wanted \in Values
        BY <1>1, <2>2 DEF SearchInv, Searching
      <3> QED
        BY <2>1, <2>4, <2>5, <3>1, <3>2 DEF SearchInv
    <2>7. DestroyInv'
      BY <1>6 DEF SearchMovesOn, Searching, DestroyInv
    <2>8. curr' \in Nodes
      BY <1>1, <2>2, <2>3, <2>4 DEF Chain
    <2> QED
      BY <1>6, <2>1, <2>6, <2>7, <2>8 DEF ListInv, TypeOK, SearchMovesOn, nodeVars
  <1>7. CASE SearchMisses
    <2>1. SearchEnd /\ Live
      BY <1>7 DEF SearchMisses, Live
    <2>2. UNCHANGED nodeVars
      BY <1>1, <1>7, <2>1, MissesNothing DEF ListInv
    <2> QED
      BY <1>2, <2>1, <2>2, QuietStep
  <1> QED
    BY <1>3, <1>4, <1>5, <1>6, <1>7 DEF Search

LEMMA DestroyStep ==
  ASSUME TypeOK, ListInv, DestroyBegin \/ Destroy
  PROVE  TypeOK' /\ ListInv'
  <1>1. /\ Chain /\ length \in Nat /\ NodeAt[0] = head
        /\ \A i \in 0..(length - 1) : NodeAt[i] \in Nodes /\ next[NodeAt[i]] = NodeAt[i + 1]
        /\ \A i, j \in 0..(length - 1) : NodeAt[i] = NodeAt[j] => i = j
        /\ NodeAt[length] = Nil
    BY ChainFacts DEF ListInv, Chain
  <1>2. NodeAt' = NodeAt /\ Chain' /\ length' = length
    <2>1. head' = head /\ next' = next /\ length' = length
      BY DEF DestroyBegin, Destroy, DestroyNode, DestroyEnd, nodeVars
    <2>2. NodeAt' = NodeAt
      BY <2>1, NodeAtWalk
    <2> QED
      BY <1>1, <2>1, <2>2 DEF Chain
  <1>3. ~Live' /\ SearchInv'
    BY DEF DestroyBegin, Destroy, DestroyNode, DestroyEnd, Live, SearchInv
  <1>4. CASE DestroyBegin
    <2>1. 0 \in 0..length /\ Whole
      BY <1>1, <1>4 DEF DestroyBegin, ListInv, Live
    <2>2. DestroyInv'
      BY <1>1, <1>2, <1>4, <2>1 DEF DestroyBegin, DestroyInv, Whole, nodeVars
    <2> QED
      BY <1>2, <1>3, <1>4, <2>2 DEF DestroyBegin, TypeOK, ListInv, nodeVars
  <1>5. CASE DestroyNode
    <2>1. mutex = "destructor" /\ curr # Nil /\ curr' = next[curr] /\ allocated' = allocated \ {curr}
      BY <1>5 DEF DestroyNode
    <2>2. PICK c \in 0..length : curr = NodeAt[c] /\ allocated = {NodeAt[i] : i \in c..(length - 1)}
      BY <2>1 DEF ListInv, DestroyInv
    <2>3. c \in 0..(length - 1) /\ c + 1 \in 0..length
      BY <1>1, <2>1, <2>2
    <2>4. curr \in Nodes /\ curr' = NodeAt[c + 1]
      BY <1>1, <2>1, <2>2, <2>3
    <2>5. allocated' = {NodeAt[i] : i \in (c + 1)..(length - 1)}
      <3>1. \A i \in c..(length - 1) : i \in 0..(length - 1) /\ (i = c \/ i \in (c + 1)..(length - 1))
        BY <2>3
      <3>2. \A i \in (c + 1)..(length - 1) : i \in c..(length - 1) /\ i # c
        BY <2>3
      <3>3. \A i \in (c + 1)..(length - 1) : NodeAt[i] # NodeAt[c]
        BY <1>1, <2>3, <3>1, <3>2
      <3> QED
        BY <2>1, <2>2, <3>1, <3>2, <3>3
    <2>6. DestroyInv'
      <3>1. mutex' = "destructor"
        BY <1>5 DEF DestroyNode
      <3>2. \E d \in 0..length' : curr' = NodeAt'[d] /\ allocated' = {NodeAt'[i] : i \in d..(length' - 1)}
        BY <1>2, <2>3, <2>4, <2>5
      <3> QED
        BY <3>1, <3>2 DEF DestroyInv
    <2>7. curr' \in Nodes \cup {Nil} /\ allocated' \in SUBSET Nodes
      BY <2>1, <2>4 DEF TypeOK
    <2> QED
      BY <1>2, <1>3, <1>5, <2>6, <2>7 DEF DestroyNode, TypeOK, ListInv
  <1>6. CASE DestroyEnd
    <2>1. mutex = "destructor" /\ curr = Nil /\ mutex' = "gone"
      BY <1>6 DEF DestroyEnd
    <2>2. PICK c \in 0..length : curr = NodeAt[c] /\ allocated = {NodeAt[i] : i \in c..(length - 1)}
      BY <2>1 DEF ListInv, DestroyInv
    <2>3. c = length
      <3>1. c \in 0..(length - 1) => NodeAt[c] # Nil
        BY <1>1, ListAssumption
      <3> QED
        BY <1>1, <2>1, <2>2, <3>1
    <2>4. allocated = {}
      BY <1>1, <2>2, <2>3
    <2>5. DestroyInv'
      BY <1>6, <2>1, <2>4 DEF DestroyInv, DestroyEnd, nodeVars
    <2> QED
      BY <1>2, <1>3, <1>6, <2>5 DEF DestroyEnd, TypeOK, ListInv, nodeVars
  <1> QED
    BY <1>4, <1>5, <1>6 DEF Destroy

(***************************************************************************)
(* The theorems                                                            *)
(***************************************************************************)

LEMMA ListInductive == Spec => [](TypeOK /\ ListInv)
  <1>1. Init => TypeOK /\ ListInv
    <2> SUFFICES ASSUME Init PROVE ListInv
      BY InitType
    <2>1. length = 0 /\ NodeAt[0] = Nil
      BY NodeAtDef DEF Init
    <2>2. Chain
      BY <2>1 DEF Chain
    <2>3. Whole
      BY <2>1, FS_EmptySet DEF Init, Whole
    <2> QED
      BY <2>2, <2>3 DEF Init, ListInv, SearchInv, DestroyInv
  <1>2. TypeOK /\ ListInv /\ [Next]_vars => TypeOK' /\ ListInv'
    <2> SUFFICES ASSUME TypeOK, ListInv, [Next]_vars PROVE TypeOK' /\ ListInv'
      OBVIOUS
    <2>1. CASE \E v \in Values : AppendNode(v) \/ PrependNode(v)
      BY <2>1, AppendStep, PrependStep
    <2>2. CASE (\E i \in 0..length : RemoveItemAtIndex(i) \/ GetItemAtIndex(i)) \/ TakeFirstItem \/ Length
      BY <2>2, MethodStep
    <2>3. CASE Search \/ \E v \in Values : SearchBegin(v)
      BY <2>3, SearchStep
    <2>4. CASE DestroyBegin \/ Destroy
      BY <2>4, DestroyStep
    <2>5. CASE UNCHANGED vars
      <3>1. UNCHANGED nodeVars /\ UNCHANGED callVars /\ UNCHANGED last
        BY <2>5 DEF vars
      <3>2. NodeAt' = NodeAt /\ Chain' = Chain /\ Whole' = Whole
        BY <3>1, SameNodes
      <3> QED
        BY <3>1, <3>2 DEF nodeVars, callVars, TypeOK, ListInv, Live, SearchInv, DestroyInv
    <2> QED
      BY <2>1, <2>2, <2>3, <2>4, <2>5 DEF Next
  <1> QED
    BY <1>1, <1>2, PTL DEF Spec

\* Every variable of the list keeps its type; in particular the length never
\* drops below zero, nor exceeds the nodes there are.
THEOREM ListTypeCorrect == Spec => []TypeOK
BY ListInductive, PTL

\* m_head, m_tail, m_length and the links agree after every method.
THEOREM ListLinked == Spec => []Linked
  <1>1. TypeOK /\ ListInv => Linked
    <2> SUFFICES ASSUME TypeOK, ListInv, Live PROVE Linked
      BY DEF Linked, Live
    <2>1. /\ Chain /\ length \in Nat /\ (length = 0 <=> head = Nil)
          /\ \A i \in 0..(length - 1) : NodeAt[i] \in Nodes /\ next[NodeAt[i]] = NodeAt[i + 1]
          /\ NodeAt[length] = Nil
      BY ChainFacts DEF ListInv, Chain
    <2>2. tail = IF length = 0 THEN Nil ELSE NodeAt[length - 1]
      BY DEF ListInv, Whole
    <2>3. length > 0 => NodeAt[length - 1] \in Nodes /\ next[NodeAt[length - 1]] = Nil
      <3>1. length > 0 => length - 1 \in 0..(length - 1) /\ (length - 1) + 1 = length
        BY <2>1
      <3> QED
        BY <2>1, <3>1
    <2>4. (length = 0) <=> (tail = Nil)
      BY <2>1, <2>2, <2>3, ListAssumption
    <2>5. \A i, j \in 0..(length - 1) : NodeAt[i] = NodeAt[j] => i = j
      BY <2>1 DEF Chain
    <2>6. length > 0 => NodeAt[length - 1] = tail /\ next[tail] = Nil
      BY <2>2, <2>3
    <2> QED
      BY <2>1, <2>4, <2>5, <2>6 DEF Linked
  <1> QED
    BY <1>1, ListInductive, PTL

\* new and delete are in balance, at every step of every method.
THEOREM ListHeapExact == Spec => []HeapExact
  <1>1. TypeOK /\ ListInv => HeapExact
    <2> SUFFICES ASSUME TypeOK, ListInv PROVE HeapExact
      OBVIOUS
    <2>1. Live => allocated = {NodeAt[i] : i \in 0..(length - 1)}
      BY DEF ListInv, Whole
    <2>2. mutex = "search" /\ curr # Nil => curr \in allocated
      <3> SUFFICES ASSUME mutex = "search", curr # Nil PROVE curr \in allocated
        OBVIOUS
      <3>1. PICK c \in 0..length : curr = NodeAt[c]
        BY DEF ListInv, SearchInv
      <3>2. NodeAt[length] = Nil /\ length \in Nat
        BY ChainFacts DEF ListInv, Chain
      <3>3. c \in 0..(length - 1)
        BY <3>1, <3>2
      <3> QED
        BY <2>1, <3>1, <3>3 DEF Live
    <2> QED
      BY <2>1, <2>2 DEF HeapExact, ListInv, DestroyInv, Live
  <1> QED
    BY <1>1, ListInductive, PTL

(***************************************************************************)
(* The list implements ItemList                                            *)
(***************************************************************************)

\* The values of the n nodes of w, as a sequence.
Contents(d, w, n) == [k \in 1..n |-> d[w[k - 1]]]

LEMMA ContentsSeq ==
  ASSUME NEW d, NEW w, NEW n \in Nat, \A i \in 0..(n - 1) : d[w[i]] \in Values
  PROVE  /\ Contents(d, w, n) \in Seq(Values) /\ Len(Contents(d, w, n)) = n
         /\ \A i \in 0..(n - 1) : Contents(d, w, n)[i + 1] = d[w[i]]
  <1>1. \A k \in 1..n : k - 1 \in 0..(n - 1)
    OBVIOUS
  <1>2. \A k \in 1..n : d[w[k - 1]] \in Values
    BY <1>1
  <1>3. Contents(d, w, n) \in [1..n -> Values]
    BY <1>2 DEF Contents
  <1>4. \A i \in 0..(n - 1) : i + 1 \in 1..n /\ (i + 1) - 1 = i
    OBVIOUS
  <1>5. \A i \in 0..(n - 1) : Contents(d, w, n)[i + 1] = d[w[i]]
    BY <1>4 DEF Contents
  <1> QED
    BY <1>3, <1>5

\* Before a step, and after it.
LEMMA ItemsSeq ==
  ASSUME TypeOK, Chain, Live
  PROVE  /\ Items \in Seq(Values) /\ Len(Items) = length
         /\ \A i \in 0..(length - 1) : Items[i + 1] = data[NodeAt[i]]
  <1>1. length \in Nat /\ \A i \in 0..(length - 1) : data[NodeAt[i]] \in Values
    BY ChainFacts, ItemType
  <1>2. Items = Contents(data, NodeAt, length)
    BY DEF Items, Contents, Live
  <1> QED
    BY <1>1, <1>2, ContentsSeq

LEMMA ItemsSeqAfter ==
  ASSUME TypeOK', Chain', Live'
  PROVE  /\ Items' \in Seq(Values) /\ Len(Items') = length'
         /\ \A i \in 0..(length' - 1) : Items'[i + 1] = data'[NodeAt'[i]]
  <1>1. length' \in Nat
    BY ListAssumption, FS_CardinalityType DEF TypeOK
  <1>2. \A i \in 0..(length' - 1) : data'[NodeAt'[i]] \in Values
    BY DEF TypeOK, Chain
  <1>3. PICK d, w, n : d = data' /\ w = NodeAt' /\ n = length'
    OBVIOUS
  <1>4. n \in Nat /\ \A i \in 0..(n - 1) : d[w[i]] \in Values
    BY <1>1, <1>2, <1>3
  <1>5. /\ Contents(d, w, n) \in Seq(Values) /\ Len(Contents(d, w, n)) = n
        /\ \A i \in 0..(n - 1) : Contents(d, w, n)[i + 1] = d[w[i]]
    BY <1>4, ContentsSeq
  <1>6. Items' = Contents(data', NodeAt', length')
    BY DEF Items, Contents, Live
  <1> QED
    BY <1>3, <1>5, <1>6

\* Sequences are equal when they have the same elements, counted from 0.
LEMMA SameItems ==
  ASSUME NEW s \in Seq(Values), NEW t \in Seq(Values), Len(s) = Len(t),
         \A i \in 0..(Len(s) - 1) : s[i + 1] = t[i + 1]
  PROVE  s = t
  <1>1. \A k \in 1..Len(s) : k - 1 \in 0..(Len(s) - 1) /\ (k - 1) + 1 = k
    OBVIOUS
  <1>2. \A k \in 1..Len(s) : s[k] = t[k]
    BY <1>1
  <1> QED
    BY <1>2, SeqEqual

\* A sequence without its element k + 1.
LEMMA RemoveAtIs ==
  ASSUME NEW s \in Seq(Values), NEW t \in Seq(Values), NEW k \in 0..(Len(s) - 1),
         Len(t) = Len(s) - 1,
         \A i \in 0..(Len(t) - 1) : t[i + 1] = IF i < k THEN s[i + 1] ELSE s[i + 2]
  PROVE  t = L!RemoveAt(s, k + 1)
  <1> DEFINE n == Len(s)
             a == SubSeq(s, 1, k)
             b == SubSeq(s, k + 2, n)
  <1>1. n \in Nat /\ k \in Nat /\ k < n /\ (k + 1) - 1 = k /\ (k + 1) + 1 = k + 2
    OBVIOUS
  <1>2. L!RemoveAt(s, k + 1) = a \o b
    BY <1>1 DEF L!RemoveAt
  <1>3. a \in Seq(Values) /\ Len(a) = k /\ \A i \in 1..k : a[i] = s[i]
    <2>1. \A i \in 1..k : s[i] \in Values
      BY <1>1
    <2>2. 1 \in Int /\ k \in Int
      BY <1>1
    <2> HIDE DEF a
    <2>3. /\ a \in Seq(Values) /\ Len(a) = IF 1 <= k THEN k - 1 + 1 ELSE 0
          /\ \A i \in 1..(k - 1 + 1) : a[i] = s[1 + i - 1]
      BY <2>1, <2>2, SubSeqProperties DEF a
    <2> QED
      BY <1>1, <2>3
  <1>4. b \in Seq(Values) /\ Len(b) = n - (k + 1) /\ \A i \in 1..(n - (k + 1)) : b[i] = s[(k + 1) + i]
    <2>1. \A i \in (k + 2)..n : s[i] \in Values
      BY <1>1
    <2>2. k + 2 \in Int /\ n \in Int
      BY <1>1
    <2> HIDE DEF b, n
    <2>3. /\ b \in Seq(Values) /\ Len(b) = IF k + 2 <= n THEN n - (k + 2) + 1 ELSE 0
          /\ \A i \in 1..(n - (k + 2) + 1) : b[i] = s[(k + 2) + i - 1]
      BY <2>1, <2>2, SubSeqProperties DEF b
    <2> QED
      BY <1>1, <2>3
  <1> HIDE DEF a, b
  <1>5. /\ a \o b \in Seq(Values) /\ Len(a \o b) = Len(t)
        /\ \A i \in 1..Len(t) : (a \o b)[i] = IF i <= k THEN a[i] ELSE b[i - k]
    <2>1. /\ a \o b \in Seq(Values) /\ Len(a \o b) = Len(a) + Len(b)
          /\ \A i \in 1..(Len(a) + Len(b)) : (a \o b)[i] = IF i <= Len(a) THEN a[i] ELSE b[i - Len(a)]
      BY <1>3, <1>4, ConcatProperties
    <2>2. Len(a) + Len(b) = Len(t)
      BY <1>1, <1>3, <1>4
    <2> QED
      BY <1>3, <2>1, <2>2
  <1>6. ASSUME NEW i \in 0..(Len(t) - 1) PROVE (a \o b)[i + 1] = t[i + 1]
    <2>1. i + 1 \in 1..Len(t) /\ i \in Nat /\ i < n - 1
      BY <1>1
    <2>2. CASE i < k
      <3>1. (a \o b)[i + 1] = a[i + 1] /\ a[i + 1] = s[i + 1]
        BY <1>1, <1>3, <1>5, <2>1, <2>2
      <3> QED
        BY <2>2, <3>1
    <2>3. CASE ~(i < k)
      <3>1. (a \o b)[i + 1] = b[(i + 1) - k] /\ (i + 1) - k \in 1..(n - (k + 1))
        BY <1>1, <1>5, <2>1, <2>3
      <3>2. b[(i + 1) - k] = s[i + 2]
        BY <1>1, <1>4, <2>1, <3>1
      <3> QED
        BY <2>3, <3>1, <3>2
    <2> QED
      BY <2>2, <2>3
  <1>7. a \o b = t
    <2>1. \A i \in 0..(Len(a \o b) - 1) : (a \o b)[i + 1] = t[i + 1]
      BY <1>5, <1>6
    <2> QED
      BY <1>5, <2>1, SameItems
  <1> QED
    BY <1>2, <1>7

\* The first element with the value v.
LEMMA RemoveFirstIs ==
  ASSUME NEW s \in Seq(Values), NEW v, NEW k \in 0..(Len(s) - 1), s[k + 1] = v,
         \A j \in 0..(k - 1) : s[j + 1] # v
  PROVE  L!RemoveFirst(s, v) = L!RemoveAt(s, k + 1)
  <1> DEFINE I == {i \in 1..Len(s) : s[i] = v}
  <1>1. k + 1 \in I
    OBVIOUS
  <1>2. \A i \in I : k + 1 <= i
    <2> SUFFICES ASSUME NEW i \in I, ~(k + 1 <= i) PROVE FALSE
      OBVIOUS
    <2>1. i - 1 \in 0..(k - 1) /\ (i - 1) + 1 = i /\ s[i] = v
      OBVIOUS
    <2> QED
      BY <2>1
  <1>3. I \subseteq Nat
    OBVIOUS
  <1>4. L!SelectInSeq(s, LAMBDA x : x = v) = IF I # {} THEN L!Min(I) ELSE 0
    BY DEF L!SelectInSeq
  <1> HIDE DEF I
  <1>5. L!Min(I) = k + 1
    <2>1. L!Min(I) \in I /\ \A i \in I : L!Min(I) <= i
      BY <1>1, <1>2 DEF L!Min
    <2>2. L!Min(I) <= k + 1 /\ k + 1 <= L!Min(I) /\ L!Min(I) \in Nat /\ k + 1 \in Nat
      BY <1>1, <1>2, <1>3, <2>1
    <2> QED
      BY <2>2
  <1>6. L!SelectInSeq(s, LAMBDA x : x = v) = k + 1
    BY <1>1, <1>4, <1>5
  <1>7. \E i \in 1..Len(s) : s[i] = v
    BY <1>1 DEF I
  <1> QED
    BY <1>6, <1>7 DEF L!RemoveFirst

\* What a removal does to the items.
LEMMA RemovedItems ==
  ASSUME TypeOK, Chain, Whole, Live, NEW k \in 0..(length - 1), Removes(k), TypeOK', Live'
  PROVE  Items' = L!RemoveAt(Items, k + 1)
  <1>1. /\ Items \in Seq(Values) /\ Len(Items) = length
        /\ \A i \in 0..(length - 1) : Items[i + 1] = data[NodeAt[i]]
    BY ItemsSeq
  <1>2. /\ Chain'
        /\ \A i \in 0..(length - 1) : NodeAt'[i] = IF i < k THEN NodeAt[i] ELSE NodeAt[i + 1]
    BY RemovedAt
  <1>3. /\ Items' \in Seq(Values) /\ Len(Items') = length'
        /\ \A i \in 0..(length' - 1) : Items'[i + 1] = data'[NodeAt'[i]]
    BY <1>2, ItemsSeqAfter
  <1>4. length' = length - 1 /\ data' = data /\ length \in Nat
    BY ChainFacts DEF Removes
  <1>5. ASSUME NEW i \in 0..(length' - 1)
        PROVE  Items'[i + 1] = IF i < k THEN Items[i + 1] ELSE Items[i + 2]
    <2>1. i \in 0..(length - 1) /\ i + 1 \in 0..(length - 1) /\ (i + 1) + 1 = i + 2
      BY <1>4
    <2>2. Items[i + 2] = data[NodeAt[i + 1]] /\ Items[i + 1] = data[NodeAt[i]]
      BY <1>1, <2>1
    <2> QED
      BY <1>2, <1>3, <1>4, <2>1, <2>2
  <1>6. PICK s, t : s = Items /\ t = Items'
    OBVIOUS
  <1>7. s \in Seq(Values) /\ t \in Seq(Values) /\ k \in 0..(Len(s) - 1) /\ Len(t) = Len(s) - 1
    BY <1>1, <1>3, <1>4, <1>6
  <1>8. \A i \in 0..(Len(t) - 1) : t[i + 1] = IF i < k THEN s[i + 1] ELSE s[i + 2]
    BY <1>3, <1>5, <1>6
  <1>9. t = L!RemoveAt(s, k + 1)
    BY <1>7, <1>8, RemoveAtIs
  <1> QED
    BY <1>6, <1>9

\* To remove the first element of a sequence is to take its tail.
LEMMA RemoveAtOne ==
  ASSUME NEW s \in Seq(Values), s # <<>>
  PROVE  Tail(s) = L!RemoveAt(s, 1) /\ Head(s) = s[1]
  <1>1. /\ Tail(s) \in Seq(Values) /\ Len(Tail(s)) = Len(s) - 1
        /\ \A i \in 1..Len(Tail(s)) : Tail(s)[i] = s[i + 1]
    BY HeadTailProperties
  <1>2. Len(s) \in Nat /\ Len(s) # 0 /\ 0 \in 0..(Len(s) - 1) /\ 0 + 1 = 1
    OBVIOUS
  <1>3. \A i \in 0..(Len(Tail(s)) - 1) : Tail(s)[i + 1] = IF i < 0 THEN s[i + 1] ELSE s[i + 2]
    <2>1. \A i \in 0..(Len(Tail(s)) - 1) : i + 1 \in 1..Len(Tail(s)) /\ (i + 1) + 1 = i + 2 /\ ~(i < 0)
      BY <1>1, <1>2
    <2> QED
      BY <1>1, <2>1
  <1>4. Tail(s) = L!RemoveAt(s, 0 + 1)
    BY <1>1, <1>2, <1>3, RemoveAtIs
  <1> QED
    BY <1>2, <1>4

\* A value that is not in the sequence.
LEMMA RemoveFirstNone ==
  ASSUME NEW s, NEW v, Len(s) \in Nat, \A j \in 0..(Len(s) - 1) : s[j + 1] # v
  PROVE  L!RemoveFirst(s, v) = s
  <1>1. \A k \in 1..Len(s) : k - 1 \in 0..(Len(s) - 1) /\ (k - 1) + 1 = k
    OBVIOUS
  <1>2. ~\E k \in 1..Len(s) : s[k] = v
    BY <1>1
  <1> QED
    BY <1>2 DEF L!RemoveFirst

\* A step that leaves the nodes alone, and the list in use, leaves the items.
LEMMA SameItemsAfter ==
  ASSUME UNCHANGED nodeVars, Live, Live'
  PROVE  Items' = Items
BY SameNodes DEF Items, Live, nodeVars

LEMMA AppendItems ==
  ASSUME TypeOK, ListInv, TypeOK', ListInv', NEW v \in Values, AppendNode(v)
  PROVE  L!AddLast(v)
  <1>1. PICK n \in Heap :
          /\ head' = IF IsEmpty THEN n ELSE head
          /\ next' = IF IsEmpty THEN [next EXCEPT ![n] = Nil] ELSE [next EXCEPT ![tail] = n, ![n] = Nil]
          /\ data' = [data EXCEPT ![n] = v]
          /\ tail' = n
          /\ allocated' = allocated \cup {n}
    BY DEF AppendNode
  <1>2. Live /\ Live' /\ length' = length + 1 /\ Returns("append", 0, v)
    BY DEF AppendNode, callVars, Live
  <1>3. Chain /\ Whole /\ Chain' /\ length \in Nat
    BY <1>2, ChainFacts DEF ListInv
  <1>4. \A i \in 0..length : NodeAt'[i] = IF i < length THEN NodeAt[i] ELSE n
    BY <1>1, <1>2, <1>3, AddedLast
  <1>5. n \in Nodes /\ \A i \in 0..(length - 1) : NodeAt[i] \in Nodes /\ NodeAt[i] # n
    BY <1>3 DEF Heap, Whole, Chain
  <1>6. /\ Items \in Seq(Values) /\ Len(Items) = length
        /\ \A i \in 0..(length - 1) : Items[i + 1] = data[NodeAt[i]]
    BY <1>2, <1>3, ItemsSeq
  <1>7. /\ Items' \in Seq(Values) /\ Len(Items') = length'
        /\ \A i \in 0..(length' - 1) : Items'[i + 1] = data'[NodeAt'[i]]
    BY <1>2, <1>3, ItemsSeqAfter
  <1>8. ASSUME NEW i \in 0..(length' - 1) PROVE Items'[i + 1] = IF i = length THEN v ELSE Items[i + 1]
    <2>1. i \in 0..length /\ (i # length => i \in 0..(length - 1) /\ i < length)
      BY <1>2, <1>3
    <2>2. data'[n] = v /\ \A x \in Nodes : x # n => data'[x] = data[x]
      BY <1>1, <1>5 DEF TypeOK
    <2>3. CASE i = length
      BY <1>3, <1>4, <1>7, <2>1, <2>2, <2>3
    <2>4. CASE i # length
      <3>1. NodeAt'[i] = NodeAt[i] /\ NodeAt[i] \in Nodes /\ NodeAt[i] # n
        BY <1>4, <1>5, <2>1, <2>4
      <3> QED
        BY <1>6, <1>7, <2>1, <2>2, <2>4, <3>1
    <2> QED
      BY <2>3, <2>4
  <1>9. PICK s, t : s = Items /\ t = Items'
    OBVIOUS
  <1>10. /\ s \in Seq(Values) /\ t \in Seq(Values) /\ Len(t) = Len(s) + 1
         /\ \A i \in 0..(Len(t) - 1) : t[i + 1] = IF i = Len(s) THEN v ELSE s[i + 1]
    BY <1>2, <1>6, <1>7, <1>8, <1>9
  <1>11. t = Append(s, v)
    <2>1. /\ Append(s, v) \in Seq(Values) /\ Len(Append(s, v)) = Len(s) + 1
          /\ \A i \in 1..Len(s) : Append(s, v)[i] = s[i]
          /\ Append(s, v)[Len(s) + 1] = v
      BY <1>10, AppendProperties
    <2>2. \A i \in 0..(Len(t) - 1) : i = Len(s) \/ i + 1 \in 1..Len(s)
      BY <1>10
    <2>3. \A i \in 0..(Len(t) - 1) : t[i + 1] = Append(s, v)[i + 1]
      BY <1>10, <2>1, <2>2
    <2> QED
      BY <1>10, <2>1, <2>3, SameItems
  <1> QED
    BY <1>2, <1>9, <1>11 DEF L!AddLast, L!Returns, L!Call, Returns, Call

LEMMA PrependItems ==
  ASSUME TypeOK, ListInv, TypeOK', ListInv', NEW v \in Values, PrependNode(v)
  PROVE  L!AddFirst(v)
  <1>1. PICK n \in Heap :
          /\ next' = [next EXCEPT ![n] = head]
          /\ data' = [data EXCEPT ![n] = v]
          /\ tail' = IF IsEmpty THEN n ELSE tail
          /\ head' = n
          /\ allocated' = allocated \cup {n}
    BY DEF PrependNode
  <1>2. Live /\ Live' /\ length' = length + 1 /\ Returns("prepend", 0, v)
    BY DEF PrependNode, callVars, Live
  <1>3. Chain /\ Whole /\ Chain' /\ length \in Nat
    BY <1>2, ChainFacts DEF ListInv
  <1>4. \A i \in 0..length : NodeAt'[i] = IF i = 0 THEN n ELSE NodeAt[i - 1]
    BY <1>1, <1>2, <1>3, AddedFirst
  <1>5. n \in Nodes /\ \A i \in 0..(length - 1) : NodeAt[i] \in Nodes /\ NodeAt[i] # n
    BY <1>3 DEF Heap, Whole, Chain
  <1>6. /\ Items \in Seq(Values) /\ Len(Items) = length
        /\ \A i \in 0..(length - 1) : Items[i + 1] = data[NodeAt[i]]
    BY <1>2, <1>3, ItemsSeq
  <1>7. /\ Items' \in Seq(Values) /\ Len(Items') = length'
        /\ \A i \in 0..(length' - 1) : Items'[i + 1] = data'[NodeAt'[i]]
    BY <1>2, <1>3, ItemsSeqAfter
  <1>8. ASSUME NEW i \in 0..(length' - 1) PROVE Items'[i + 1] = IF i = 0 THEN v ELSE Items[i]
    <2>1. i \in 0..length /\ (i # 0 => i - 1 \in 0..(length - 1) /\ (i - 1) + 1 = i)
      BY <1>2, <1>3
    <2>2. data'[n] = v /\ \A x \in Nodes : x # n => data'[x] = data[x]
      BY <1>1, <1>5 DEF TypeOK
    <2>3. CASE i = 0
      BY <1>4, <1>7, <2>1, <2>2, <2>3
    <2>4. CASE i # 0
      <3>1. NodeAt'[i] = NodeAt[i - 1] /\ NodeAt[i - 1] \in Nodes /\ NodeAt[i - 1] # n
        BY <1>4, <1>5, <2>1, <2>4
      <3>2. Items[i] = data[NodeAt[i - 1]]
        BY <1>6, <2>1, <2>4
      <3> QED
        BY <1>7, <2>2, <2>4, <3>1, <3>2
    <2> QED
      BY <2>3, <2>4
  <1>9. PICK s, t : s = Items /\ t = Items'
    OBVIOUS
  <1>10. /\ s \in Seq(Values) /\ t \in Seq(Values) /\ Len(t) = Len(s) + 1
         /\ \A i \in 0..(Len(t) - 1) : t[i + 1] = IF i = 0 THEN v ELSE s[i]
    BY <1>2, <1>6, <1>7, <1>8, <1>9
  <1>11. t = <<v>> \o s
    <2>1. <<v>> \in Seq(Values) /\ Len(<<v>>) = 1 /\ <<v>>[1] = v
      OBVIOUS
    <2> DEFINE one == <<v>>
    <2>2. one \in Seq(Values) /\ Len(one) = 1 /\ one[1] = v
      BY <2>1
    <2> HIDE DEF one
    <2>3. /\ one \o s \in Seq(Values) /\ Len(one \o s) = 1 + Len(s)
          /\ \A i \in 1..(1 + Len(s)) : (one \o s)[i] = IF i <= 1 THEN one[i] ELSE s[i - 1]
      BY <1>10, <2>2, ConcatProperties
    <2>4. \A i \in 0..(Len(t) - 1) : i + 1 \in 1..(1 + Len(s)) /\ (i + 1 <= 1 <=> i = 0) /\ (i + 1) - 1 = i
      BY <1>10
    <2>5. \A i \in 0..(Len(t) - 1) : t[i + 1] = (one \o s)[i + 1]
      BY <1>10, <2>2, <2>3, <2>4
    <2>6. Len(t) = Len(one \o s)
      BY <1>10, <2>3
    <2>7. t = one \o s
      BY <1>10, <2>3, <2>5, <2>6, SameItems
    <2> QED
      BY <2>7 DEF one
  <1> QED
    BY <1>2, <1>9, <1>11 DEF L!AddFirst, L!Returns, L!Call, Returns, Call

LEMMA MethodItems ==
  ASSUME TypeOK, ListInv, TypeOK', ListInv',
         \/ \E i \in 0..length : RemoveItemAtIndex(i) \/ GetItemAtIndex(i)
         \/ TakeFirstItem \/ Length
  PROVE  L!Next
  <1>1. mutex = "free" /\ Live /\ Live'
    BY DEF RemoveItemAtIndex, GetItemAtIndex, TakeFirstItem, Length, Live, callVars
  <1>2. /\ Chain /\ Whole /\ length \in Nat /\ NodeAt[0] = head
        /\ length = 0 <=> head = Nil
    BY <1>1, ChainFacts DEF ListInv
  <1>3. /\ Items \in Seq(Values) /\ Len(Items) = length
        /\ \A i \in 0..(length - 1) : Items[i + 1] = data[NodeAt[i]]
    BY <1>1, <1>2, ItemsSeq
  <1>4. ASSUME NEW i \in 0..length, RemoveItemAtIndex(i) PROVE L!Next
    <2>1. Items' = IF i < Len(Items) THEN L!RemoveAt(Items, i + 1) ELSE Items
      <3>1. CASE i < length
        <4>1. i \in 0..(length - 1) /\ Unlink(i)
          BY <1>2, <1>4, <3>1 DEF RemoveItemAtIndex
        <4>2. Items' = L!RemoveAt(Items, i + 1)
          BY <1>1, <1>2, <4>1, UnlinkRemoves, RemovedItems
        <4> QED
          BY <1>3, <3>1, <4>2
      <3>2. CASE ~(i < length)
        <4>1. UNCHANGED nodeVars
          BY <1>4, <3>2 DEF RemoveItemAtIndex
        <4> QED
          BY <1>1, <1>3, <3>2, <4>1, SameItemsAfter
      <3> QED
        BY <3>1, <3>2
    <2>2. L!RemoveAtIndex(i)
      BY <1>4, <2>1 DEF RemoveItemAtIndex, L!RemoveAtIndex, L!Returns, L!Call, Returns, Call
    <2> QED
      BY <1>3, <2>2 DEF L!Next
  <1>5. ASSUME NEW i \in 0..length, GetItemAtIndex(i) PROVE L!Next
    <2>1. Items' = Items
      BY <1>1, <1>5, SameItemsAfter DEF GetItemAtIndex
    <2>2. (IF i < length THEN data[NodeAt[i]] ELSE NoValue) = IF i < Len(Items) THEN Items[i + 1] ELSE NoValue
      <3>1. i < length => i \in 0..(length - 1)
        BY <1>2
      <3> QED
        BY <1>3, <3>1
    <2>3. L!GetItem(i)
      BY <1>5, <2>1, <2>2 DEF GetItemAtIndex, L!GetItem, L!Returns, L!Call, Returns, Call
    <2> QED
      BY <1>3, <2>3 DEF L!Next
  <1>6. CASE TakeFirstItem
    <2>1. 0 \in 0..(length - 1) /\ Unlink(0) /\ Returns("take", 0, data[head])
      BY <1>2, <1>6 DEF TakeFirstItem, IsEmpty
    <2>2. Items' = L!RemoveAt(Items, 0 + 1)
      BY <1>1, <1>2, <2>1, UnlinkRemoves, RemovedItems
    <2>3. Items # <<>>
      BY <1>2, <1>3, <2>1
    <2>4. Tail(Items) = L!RemoveAt(Items, 1) /\ Head(Items) = Items[1]
      BY <1>3, <2>3, RemoveAtOne
    <2>5. Items[1] = data[head] /\ 0 + 1 = 1
      BY <1>2, <1>3, <2>1
    <2>6. L!TakeFirst
      BY <2>1, <2>2, <2>3, <2>4, <2>5 DEF L!TakeFirst, L!Returns, L!Call, Returns, Call
    <2> QED
      BY <2>6 DEF L!Next
  <1>7. CASE Length
    <2>1. Items' = Items
      BY <1>1, <1>7, SameItemsAfter DEF Length
    <2>2. L!GetLength
      BY <1>3, <1>7, <2>1 DEF Length, L!GetLength, L!Returns, L!Call, Returns, Call
    <2> QED
      BY <2>2 DEF L!Next
  <1> QED
    BY <1>4, <1>5, <1>6, <1>7

\* All of remove_item_by_value is one step, the one in which it finds the item
\* or the end of the list.
LEMMA SearchItems ==
  ASSUME TypeOK, ListInv, TypeOK', ListInv', Search \/ \E v \in Values : SearchBegin(v)
  PROVE  L!Next \/ UNCHANGED <<Items, last>>
  <1>1. Live /\ Live' /\ Chain /\ Whole /\ SearchInv /\ length \in Nat
    <2>1. Live /\ Live'
      BY DEF Search, SearchBegin, SearchHitsHead, SearchHits, SearchMovesOn, SearchMisses, Searching,
             SearchEnd, Live
    <2> QED
      BY <2>1, ChainFacts DEF ListInv
  <1>2. /\ Items \in Seq(Values) /\ Len(Items) = length
        /\ \A i \in 0..(length - 1) : Items[i + 1] = data[NodeAt[i]]
    BY <1>1, ItemsSeq
  <1>3. SearchEnd /\ mutex = "search" /\ Items' = L!RemoveFirst(Items, wanted) => L!Next
    <2> SUFFICES ASSUME SearchEnd, mutex = "search", Items' = L!RemoveFirst(Items, wanted)
                 PROVE  L!RemoveByValue(wanted) /\ wanted \in Values
      BY DEF L!Next
    <2>1. wanted \in Values
      BY <1>1 DEF SearchInv
    <2> QED
      BY <2>1 DEF SearchEnd, L!RemoveByValue, L!Returns, L!Call, Returns, Call
  <1>4. ASSUME NEW k \in 0..(length - 1), Removes(k), data[NodeAt[k]] = wanted,
               \A j \in 0..(k - 1) : data[NodeAt[j]] # wanted
        PROVE  Items' = L!RemoveFirst(Items, wanted)
    <2>1. Items' = L!RemoveAt(Items, k + 1)
      BY <1>1, <1>4, RemovedItems
    <2>2. k \in 0..(Len(Items) - 1) /\ Items[k + 1] = wanted
      BY <1>2, <1>4
    <2>3. \A j \in 0..(k - 1) : j \in 0..(length - 1)
      BY <1>1
    <2>4. \A j \in 0..(k - 1) : Items[j + 1] # wanted
      BY <1>2, <1>4, <2>3
    <2>5. L!RemoveFirst(Items, wanted) = L!RemoveAt(Items, k + 1)
      BY <1>2, <2>2, <2>4, RemoveFirstIs
    <2> QED
      BY <2>1, <2>5
  <1>5. CASE \E v \in Values : SearchBegin(v)
    BY <1>1, <1>5, SameItemsAfter DEF SearchBegin
  <1>6. CASE SearchHitsHead
    <2>1. 0 \in 0..(length - 1) /\ Removes(0) /\ data[NodeAt[0]] = wanted
      BY <1>1, <1>6, HitsHeadRemoves
    <2>2. \A j \in 0..(0 - 1) : data[NodeAt[j]] # wanted
      OBVIOUS
    <2>3. Items' = L!RemoveFirst(Items, wanted)
      BY <1>4, <2>1, <2>2
    <2> QED
      BY <1>3, <1>6, <2>3 DEF SearchHitsHead
  <1>7. CASE SearchHits
    <2>1. \E k \in 0..(length - 1) : /\ Removes(k) /\ data[NodeAt[k]] = wanted
                                     /\ \A j \in 0..(k - 1) : data[NodeAt[j]] # wanted
      BY <1>1, <1>7, HitsRemoves
    <2>2. Items' = L!RemoveFirst(Items, wanted)
      BY <1>4, <2>1
    <2> QED
      BY <1>3, <1>7, <2>2 DEF SearchHits, Searching
  <1>8. CASE SearchMovesOn
    BY <1>1, <1>8, SameItemsAfter DEF SearchMovesOn
  <1>9. CASE SearchMisses
    <2>1. UNCHANGED nodeVars /\ \A j \in 0..(length - 1) : data[NodeAt[j]] # wanted
      BY <1>1, <1>9, MissesNothing
    <2>2. \A j \in 0..(Len(Items) - 1) : Items[j + 1] # wanted
      BY <1>2, <2>1
    <2>3. L!RemoveFirst(Items, wanted) = Items
      BY <1>1, <1>2, <2>2, RemoveFirstNone
    <2>4. Items' = Items
      BY <1>1, <2>1, SameItemsAfter
    <2> QED
      BY <1>3, <1>9, <2>3, <2>4 DEF SearchMisses
  <1> QED
    BY <1>5, <1>6, <1>7, <1>8, <1>9 DEF Search

\* The destructor empties the list with its first step.
LEMMA DestroyItems ==
  ASSUME DestroyBegin \/ Destroy
  PROVE  L!Next \/ UNCHANGED <<Items, last>>
  <1>1. Items' = <<>> /\ UNCHANGED last
    BY DEF DestroyBegin, Destroy, DestroyNode, DestroyEnd, Items
  <1> QED
    BY <1>1 DEF L!Next, L!Clear

\* common::linked_list implements a plain sequence whose operations are atomic:
\* each method, the two that walk the list in many steps included, has the
\* result and the effect of the one operation of ItemList it stands for.
THEOREM ListImplementsItemList == Spec => ListSpec
  <1>1. Init => L!Init
    <2> SUFFICES ASSUME Init PROVE L!Init
      OBVIOUS
    <2>1. Items = <<>>
      BY DEF Init, Items
    <2> QED
      BY <2>1 DEF Init, Call, L!Init, L!Call
  <1>2. TypeOK /\ ListInv /\ TypeOK' /\ ListInv' /\ [Next]_vars => [L!Next]_<<Items, last>>
    <2> SUFFICES ASSUME TypeOK, ListInv, TypeOK', ListInv', [Next]_vars
                 PROVE  L!Next \/ UNCHANGED <<Items, last>>
      OBVIOUS
    <2>1. ASSUME NEW v \in Values, AppendNode(v) PROVE L!Next
      BY <2>1, AppendItems DEF L!Next
    <2>2. ASSUME NEW v \in Values, PrependNode(v) PROVE L!Next
      BY <2>2, PrependItems DEF L!Next
    <2>3. CASE (\E i \in 0..length : RemoveItemAtIndex(i) \/ GetItemAtIndex(i)) \/ TakeFirstItem \/ Length
      BY <2>3, MethodItems
    <2>4. CASE Search \/ \E v \in Values : SearchBegin(v)
      BY <2>4, SearchItems
    <2>5. CASE DestroyBegin \/ Destroy
      BY <2>5, DestroyItems
    <2>6. CASE UNCHANGED vars
      BY <2>6, SameNodes DEF vars, nodeVars, callVars, Items
    <2> QED
      BY <2>1, <2>2, <2>3, <2>4, <2>5, <2>6 DEF Next
  <1> QED
    BY <1>1, <1>2, ListInductive, PTL DEF Spec, ListSpec, L!Spec
=============================================================================
