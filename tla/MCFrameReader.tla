--------------------------- MODULE MCFrameReader ---------------------------
(***************************************************************************)
(* FrameReader for TLC: a buffer that holds two frames of most kinds, may  *)
(* be filled exactly, and is too small for the longer texts; the size of   *)
(* the longest does not fit into a short.                                  *)
(***************************************************************************)
EXTENDS FrameReader
MCTextSizes == {2, 16, 66}
=============================================================================
