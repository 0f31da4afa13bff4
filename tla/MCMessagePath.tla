--------------------------- MODULE MCMessagePath ---------------------------
(***************************************************************************)
(* MessagePath for TLC.  Messages are interchangeable until submitted and  *)
(* so are socket values; both sets are symmetric in the safety runs.       *)
(***************************************************************************)
EXTENDS MessagePath, TLC
MCFrames == [queue : Queues, msg : Messages]
Symmetry == Permutations(Messages) \cup Permutations(Sockets)
=============================================================================
