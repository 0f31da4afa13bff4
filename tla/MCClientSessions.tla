-------------------------- MODULE MCClientSessions --------------------------
(***************************************************************************)
(* ClientSessions for TLC.  The second client may get the socket value the *)
(* first one had, or be served at the same time under the other value.     *)
(***************************************************************************)
EXTENDS ClientSessions

CONSTANTS c1, c2, h1, h2, w1, w2

(***************************************************************************)
(* Clients are interchangeable, and so are socket values: the first client *)
(* to connect may be called c1, and its socket h1.  Symmetry sets would    *)
(* say the same, but are unsound for liveness.                             *)
(***************************************************************************)
Named ==
  /\ state'[c2] # "new" => state'[c1] # "new"
  /\ owner'[h2] # c1

(***************************************************************************)
(* A worker treats the question whether a client exists as it does a       *)
(* connect that is refused, which is among the requests.                   *)
(***************************************************************************)
OtherThanExists == \A c \in Clients : \A i \in DOMAIN asked'[c] : asked'[c][i].op # "exists"

MCSpec == Init /\ [][Next /\ Named /\ OtherThanExists]_vars /\ Fairness
=============================================================================
