---------------------------- MODULE MCLinkedList ----------------------------
(***************************************************************************)
(* LinkedList for TLC: a heap of four nodes, so that a list has a head,   *)
(* a middle and a tail, and memory of a deleted node is used again.        *)
(***************************************************************************)
EXTENDS LinkedList
=============================================================================
