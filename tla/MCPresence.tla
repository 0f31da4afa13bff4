----------------------------- MODULE MCPresence -----------------------------
(***************************************************************************)
(* Presence for TLC: the frames are the notifications about the queues.    *)
(* The peer serves two clients, whose notifications may cross; the host    *)
(* one, whose notifications meet those of the peer.                        *)
(***************************************************************************)
EXTENDS Presence

CONSTANTS h1, h2

MCFrames == [queue : Queues, on : BOOLEAN]

OneAtHost == \A q \in Queues : connected'[HOST][q] # h2

MCSpec == Init /\ [][Next /\ OneAtHost]_vars /\ Fairness
=============================================================================
