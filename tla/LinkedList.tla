----------------------------- MODULE LinkedList -----------------------------
(***************************************************************************)
(* common::linked_list: nodes on the heap, a head, a tail and a length,    *)
(* guarded by one mutex.  Each public method is one critical section; the  *)
(* two that walk and change the list as they go, remove_item_by_value and  *)
(* the destructor, take one step per turn of their loop while they hold    *)
(* the mutex, and every other method has to wait for them.                 *)
(***************************************************************************)
EXTENDS Naturals, FiniteSets, Sequences

CONSTANTS Nodes,     \* addresses the heap can give to a node
          Nil,       \* nullptr
          Values, NoValue

ASSUME ListAssumption ==
  /\ IsFiniteSet(Nodes) /\ Nil \notin Nodes
  /\ Values # {} /\ NoValue \notin Values

VARIABLES
  head, tail, length,  \* m_head, m_tail, m_length
  data, next,          \* the fields of every node; stale in one not allocated
  allocated,           \* nodes that new returned and delete did not get yet
  mutex,               \* "free", held by the "search" or by the "destructor";
                       \* "gone" after it
  curr,                \* local variable of the loop that holds the mutex
  wanted,              \* argument of remove_item_by_value
  last                 \* history: the last call, its arguments and its result

nodeVars == <<head, tail, length, data, next, allocated>>
callVars == <<mutex, curr, wanted>>
vars == <<nodeVars, callVars, last>>

Call(op, i, v) == [op |-> op, index |-> i, value |-> v]
Returns(op, i, v) == last' = Call(op, i, v)

Operations == {"new", "append", "prepend", "remove_at", "take", "length", "get", "remove"}
Calls == [op : Operations, index : Nat, value : Values \cup {NoValue}]

TypeOK ==
  /\ head \in Nodes \cup {Nil} /\ tail \in Nodes \cup {Nil}
  /\ length \in 0..Cardinality(Nodes)
  /\ data \in [Nodes -> Values]
  /\ next \in [Nodes -> Nodes \cup {Nil}]
  /\ allocated \in SUBSET Nodes
  /\ mutex \in {"free", "search", "destructor", "gone"}
  /\ curr \in Nodes \cup {Nil}
  /\ wanted \in Values \cup {NoValue}
  /\ last \in Calls

\* The constructor.  What the heap holds before is of no importance.
Init ==
  /\ head = Nil /\ tail = Nil /\ length = 0
  /\ data = [n \in Nodes |-> CHOOSE v \in Values : TRUE]
  /\ next = [n \in Nodes |-> Nil]
  /\ allocated = {}
  /\ mutex = "free" /\ curr = Nil /\ wanted = NoValue
  /\ last = Call("new", 0, NoValue)

Heap == Nodes \ allocated

\* p_is_empty
IsEmpty == head = Nil

(***************************************************************************)
(* The node a walk of i steps from the head arrives at.                    *)
(***************************************************************************)
NodeAt[i \in Nat] == IF i = 0 THEN head ELSE next[NodeAt[i - 1]]

AppendNode(v) ==
  /\ mutex = "free"
  /\ \E n \in Heap :
       /\ head' = IF IsEmpty THEN n ELSE head
       /\ next' = IF IsEmpty THEN [next EXCEPT ![n] = Nil]
                  ELSE [next EXCEPT ![tail] = n, ![n] = Nil]
       /\ data' = [data EXCEPT ![n] = v]
       /\ tail' = n
       /\ allocated' = allocated \cup {n}
  /\ length' = length + 1
  /\ Returns("append", 0, v)
  /\ UNCHANGED callVars

PrependNode(v) ==
  /\ mutex = "free"
  /\ \E n \in Heap :
       /\ next' = [next EXCEPT ![n] = head]
       /\ data' = [data EXCEPT ![n] = v]
       /\ tail' = IF IsEmpty THEN n ELSE tail
       /\ head' = n
       /\ allocated' = allocated \cup {n}
  /\ length' = length + 1
  /\ Returns("prepend", 0, v)
  /\ UNCHANGED callVars

(***************************************************************************)
(* p_remove_item_at_index: the node is unlinked from its predecessor, or   *)
(* from the head, and deleted.                                             *)
(***************************************************************************)
Unlink(i) ==
  IF i = 0
  THEN /\ head' = next[head]
       /\ tail' = IF head' = Nil THEN Nil ELSE tail
       /\ allocated' = allocated \ {head}
       /\ length' = length - 1
       /\ UNCHANGED <<data, next>>
  ELSE LET node == NodeAt[i - 1]
           gone == next[node]
       IN /\ next' = [next EXCEPT ![node] = next[gone]]
          /\ allocated' = allocated \ {gone}
          /\ tail' = IF i = length - 1 THEN node ELSE tail
          /\ length' = length - 1
          /\ UNCHANGED <<head, data>>

RemoveItemAtIndex(i) ==
  /\ mutex = "free"
  /\ IF i < length THEN Unlink(i) ELSE UNCHANGED nodeVars
  /\ Returns("remove_at", i, NoValue)
  /\ UNCHANGED callVars

\* A variant that does not lock the mutex.
TakeFirstUnlocked ==
  /\ mutex \in {"free", "search"} /\ ~IsEmpty
  /\ Returns("take", 0, data[head])
  /\ Unlink(0)
  /\ UNCHANGED callVars

\* Its callers see to it that the list is not empty: m_head is dereferenced.
TakeFirstItem ==
  /\ mutex = "free" /\ ~IsEmpty
  /\ Returns("take", 0, data[head])
  /\ Unlink(0)
  /\ UNCHANGED callVars

\* length, and is_empty
Length ==
  /\ mutex = "free"
  /\ Returns("length", length, NoValue)
  /\ UNCHANGED <<nodeVars, callVars>>

\* The value behind the pointer it returns.
GetItemAtIndex(i) ==
  /\ mutex = "free"
  /\ Returns("get", i, IF i < length THEN data[NodeAt[i]] ELSE NoValue)
  /\ UNCHANGED <<nodeVars, callVars>>

(***************************************************************************)
(* remove_item_by_value                                                    *)
(***************************************************************************)

\* The mutex is locked; curr is the head.
SearchBegin(v) ==
  /\ mutex = "free"
  /\ mutex' = "search" /\ curr' = head /\ wanted' = v
  /\ UNCHANGED <<nodeVars, last>>

SearchEnd ==
  /\ mutex' = "free" /\ curr' = Nil /\ wanted' = NoValue
  /\ Returns("remove", 0, wanted)

\* The first item is the one: it is found before the loop.
SearchHitsHead ==
  /\ mutex = "search" /\ ~IsEmpty /\ curr = head /\ data[curr] = wanted
  /\ head' = next[curr]
  /\ allocated' = allocated \ {curr}
  /\ length' = length - 1
  /\ tail' = IF head' = Nil THEN Nil ELSE tail
  /\ SearchEnd
  /\ UNCHANGED <<data, next>>

\* A variant that goes into the loop without a look at the first item.
SearchingPastHead == mutex = "search" /\ ~IsEmpty

\* The loop looks at the successor of curr, so curr itself is not the one.
Searching == mutex = "search" /\ ~IsEmpty /\ ~(curr = head /\ data[curr] = wanted)

\* A variant in which the tail still names the node that was deleted.
SearchHitsTailStays ==
  /\ Searching /\ next[curr] # Nil /\ data[next[curr]] = wanted
  /\ next' = [next EXCEPT ![curr] = next[next[curr]]]
  /\ allocated' = allocated \ {next[curr]}
  /\ length' = length - 1
  /\ SearchEnd
  /\ UNCHANGED <<head, tail, data>>

SearchHits ==
  /\ Searching /\ next[curr] # Nil /\ data[next[curr]] = wanted
  /\ next' = [next EXCEPT ![curr] = next[next[curr]]]
  /\ allocated' = allocated \ {next[curr]}
  /\ length' = length - 1
  /\ tail' = IF next'[curr] = Nil THEN curr ELSE tail
  /\ SearchEnd
  /\ UNCHANGED <<head, data>>

\* A variant that forgets to move on when the value differs.
SearchStays ==
  /\ Searching /\ next[curr] # Nil /\ data[next[curr]] # wanted
  /\ UNCHANGED vars

SearchMovesOn ==
  /\ Searching /\ next[curr] # Nil /\ data[next[curr]] # wanted
  /\ curr' = next[curr]
  /\ UNCHANGED <<nodeVars, mutex, wanted, last>>

\* A variant that counts an item less though it found none.
SearchMissesCounts ==
  /\ mutex = "search"
  /\ IsEmpty \/ (Searching /\ next[curr] = Nil)
  /\ tail' = IF IsEmpty THEN Nil ELSE tail
  /\ length' = length - 1
  /\ SearchEnd
  /\ UNCHANGED <<head, data, next, allocated>>

\* The end of the list, or an empty list.
SearchMisses ==
  /\ mutex = "search"
  /\ IsEmpty \/ (Searching /\ next[curr] = Nil)
  /\ tail' = IF IsEmpty THEN Nil ELSE tail
  /\ SearchEnd
  /\ UNCHANGED <<head, length, data, next, allocated>>

Search == SearchHitsHead \/ SearchHits \/ SearchMovesOn \/ SearchMisses

(***************************************************************************)
(* The destructor; head, tail and length keep what they held.              *)
(***************************************************************************)
DestroyBegin ==
  /\ mutex = "free"
  /\ mutex' = "destructor" /\ curr' = head
  /\ UNCHANGED <<nodeVars, wanted, last>>

DestroyNode ==
  /\ mutex = "destructor" /\ curr # Nil
  /\ curr' = next[curr]
  /\ allocated' = allocated \ {curr}
  /\ UNCHANGED <<head, tail, length, data, next, mutex, wanted, last>>

DestroyEnd ==
  /\ mutex = "destructor" /\ curr = Nil
  /\ mutex' = "gone"
  /\ UNCHANGED <<nodeVars, curr, wanted, last>>

Destroy == DestroyNode \/ DestroyEnd

Next ==
  \/ \E v \in Values : AppendNode(v) \/ PrependNode(v) \/ SearchBegin(v)
  \/ \E i \in 0..length : RemoveItemAtIndex(i) \/ GetItemAtIndex(i)
  \/ TakeFirstItem \/ Length
  \/ Search
  \/ DestroyBegin \/ Destroy

Spec == Init /\ [][Next]_vars

(***************************************************************************)
(* The thread that holds the mutex goes on.                                *)
(***************************************************************************)
FairSpec == Spec /\ WF_vars(Search) /\ WF_vars(Destroy)

-----------------------------------------------------------------------------
(***************************************************************************)
(* head, tail, length and the links always agree: a walk from the head     *)
(* meets length different nodes, the last of which is the tail and has no  *)
(* successor.  A tail or a length left behind by one method would lose     *)
(* items in a later append_node or remove_item_at_index.                   *)
(***************************************************************************)
Linked ==
  mutex \in {"free", "search"} =>
    /\ (length = 0) <=> (head = Nil)
    /\ (length = 0) <=> (tail = Nil)
    /\ length > 0 => /\ NodeAt[length - 1] = tail
                     /\ next[tail] = Nil
    /\ \A i, j \in 0..(length - 1) : NodeAt[i] = NodeAt[j] => i = j

(***************************************************************************)
(* The heap holds exactly the nodes of the list: what new returned is      *)
(* deleted once and in time, nothing that is still linked, or that the     *)
(* loop of another thread stands on, is deleted under it.                  *)
(***************************************************************************)
HeapExact ==
  /\ mutex \in {"free", "search"} => allocated = {NodeAt[i] : i \in 0..(length - 1)}
  /\ mutex = "search" /\ curr # Nil => curr \in allocated
  /\ mutex = "gone" => allocated = {}

(***************************************************************************)
(* The list implements a plain sequence, with the results one gets from a  *)
(* sequence: remove_item_by_value removes the first item with that value,  *)
(* in one step as far as the other threads can see.                        *)
(***************************************************************************)
Items == IF mutex \in {"free", "search"}
         THEN [k \in 1..length |-> data[NodeAt[k - 1]]] ELSE <<>>

L == INSTANCE ItemList WITH items <- Items

ListSpec == L!Spec

(***************************************************************************)
(* Whoever locks the mutex unlocks it again, so the service's threads      *)
(* never wait on a list for ever: the searching loop reaches its end.      *)
(***************************************************************************)
Unlocked == (mutex = "search") ~> (mutex = "free")
=============================================================================
