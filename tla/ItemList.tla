------------------------------ MODULE ItemList ------------------------------
(***************************************************************************)
(* What common::linked_list promises its users, the queues of messages and *)
(* the list of client sockets: a sequence of values with two ends, whose   *)
(* operations are atomic.  The other models use it as such a sequence.     *)
(***************************************************************************)
EXTENDS Naturals, Sequences, SequencesExt

CONSTANTS Values, NoValue

VARIABLES items, \* the values in the list, first one first
          last   \* the last call, with its arguments and its result

Call(op, i, v) == [op |-> op, index |-> i, value |-> v]
Returns(op, i, v) == last' = Call(op, i, v)

Init == items = <<>> /\ last = Call("new", 0, NoValue)

AddLast(v) == items' = Append(items, v) /\ Returns("append", 0, v)

AddFirst(v) == items' = <<v>> \o items /\ Returns("prepend", 0, v)

TakeFirst ==
  /\ items # <<>>
  /\ items' = Tail(items)
  /\ Returns("take", 0, Head(items))

\* Positions count from 0; one that is not in the list is ignored.
RemoveAtIndex(i) ==
  /\ items' = IF i < Len(items) THEN RemoveAt(items, i + 1) ELSE items
  /\ Returns("remove_at", i, NoValue)

RemoveByValue(v) == items' = RemoveFirst(items, v) /\ Returns("remove", 0, v)

GetLength == Returns("length", Len(items), NoValue) /\ UNCHANGED items

GetItem(i) ==
  /\ Returns("get", i, IF i < Len(items) THEN items[i + 1] ELSE NoValue)
  /\ UNCHANGED items

\* The destructor.
Clear == items' = <<>> /\ UNCHANGED last

Next ==
  \/ TakeFirst \/ GetLength \/ Clear
  \/ \E v \in Values : AddLast(v) \/ AddFirst(v) \/ RemoveByValue(v)
  \/ \E i \in 0..Len(items) : RemoveAtIndex(i) \/ GetItem(i)

Spec == Init /\ [][Next]_<<items, last>>
=============================================================================
