----------------------------- MODULE MCShutdown -----------------------------
(***************************************************************************)
(* Shutdown for TLC: two workers, so that one may wait while the other     *)
(* runs; the five threads and queues of a service are alike, one is here.  *)
(***************************************************************************)
EXTENDS Shutdown
=============================================================================
