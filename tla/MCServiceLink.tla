--------------------------- MODULE MCServiceLink ---------------------------
(***************************************************************************)
(* ServiceLink for TLC: one kind of frame, as its receive thread treats    *)
(* all of them alike.                                                      *)
(***************************************************************************)
EXTENDS ServiceLink
CONSTANT frame
MCFrames == {frame}
=============================================================================
