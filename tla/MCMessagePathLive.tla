------------------------- MODULE MCMessagePathLive -------------------------
(***************************************************************************)
(* MessagePath for TLC's liveness run.  The clients are bounded so that a  *)
(* second connection fits in: they stay once they have come, and only the  *)
(* messages of ToHost are submitted at the peer, those of ToPeer at the    *)
(* host.  The services and their threads are not restricted.               *)
(***************************************************************************)
EXTENDS MCMessagePath

CONSTANTS ToHost, ToPeer

Clients ==
  /\ \A s \in Services, h \in Sockets : session'[s][h] # "gone"
  /\ \A q \in Queues : /\ Range(submitted'[PEER][q]) \subseteq ToHost
                       /\ Range(submitted'[HOST][q]) \subseteq ToPeer

LiveSpec == Init /\ [][Next /\ Clients]_vars /\ Fairness
=============================================================================
