------------------------------ MODULE Delivery ------------------------------
(***************************************************************************)
(* What the queueing service promises about the messages of one channel,   *)
(* that is, of one queue in one direction: a client's message is accepted  *)
(* once, and the client of the same queue at the other service receives it *)
(* at most once.  A message may be dropped.  Messages are received in the  *)
(* order they were accepted, except that one whose forwarding had to be    *)
(* tried again may be overtaken.                                           *)
(***************************************************************************)
EXTENDS Naturals, Sequences, Functions

CONSTANTS Messages, Channels

VARIABLES
  accepted,  \* accepted[ch]: messages the service took over, in order
  received,  \* received[ch]: messages handed to the client at the other end
  dropped,   \* messages that will never be received
  retried    \* messages that were put back after a failed attempt to forward

vars == <<accepted, received, dropped, retried>>

AcceptedSet == UNION {Range(accepted[ch]) : ch \in Channels}
ReceivedSet == UNION {Range(received[ch]) : ch \in Channels}

Init ==
  /\ accepted = [ch \in Channels |-> <<>>]
  /\ received = [ch \in Channels |-> <<>>]
  /\ dropped = {}
  /\ retried = {}

Accept(ch, m) ==
  /\ m \notin AcceptedSet
  /\ accepted' = [accepted EXCEPT ![ch] = Append(@, m)]
  /\ UNCHANGED <<received, dropped, retried>>

Retry(m) ==
  /\ m \in AcceptedSet \ (ReceivedSet \cup dropped)
  /\ retried' = retried \cup {m}
  /\ UNCHANGED <<accepted, received, dropped>>

\* The i-th message accepted on ch is received: what was accepted before it
\* has been received or dropped, or is being retried.
Receive(ch, i) ==
  /\ accepted[ch][i] \notin ReceivedSet \cup dropped
  /\ \A j \in 1..(i - 1) : accepted[ch][j] \in Range(received[ch]) \cup dropped \cup retried
  /\ received' = [received EXCEPT ![ch] = Append(@, accepted[ch][i])]
  /\ UNCHANGED <<accepted, dropped, retried>>

Drop(M) ==
  /\ M \cap ReceivedSet = {}
  /\ dropped' = dropped \cup M
  /\ UNCHANGED <<accepted, received, retried>>

Next ==
  \/ \E ch \in Channels, m \in Messages : Accept(ch, m)
  \/ \E m \in Messages : Retry(m)
  \/ \E ch \in Channels : \E i \in DOMAIN accepted[ch] : Receive(ch, i)
  \/ \E M \in SUBSET AcceptedSet : Drop(M)

Spec == Init /\ [][Next]_vars
=============================================================================
