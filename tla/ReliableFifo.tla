----------------------------- MODULE ReliableFifo -----------------------------
(***************************************************************************)
(* What reliable packets on one channel promise: they are received in the  *)
(* order in which they were sent, each once, and none that was not sent.   *)
(***************************************************************************)
EXTENDS Naturals, Sequences

VARIABLES sent, received

Init == sent = << >> /\ received = << >>

\* Packets are told apart by their place in the order of sending.
Send == sent' = Append(sent, Len(sent) + 1) /\ UNCHANGED received

\* Several packets become receivable at once when a gap is filled.
Receive ==
    /\ UNCHANGED sent
    /\ \E n \in Len(received) + 1 .. Len(sent) : received' = SubSeq(sent, 1, n)

Next == Send \/ Receive

Spec == Init /\ [][Next]_<<sent, received>>
=============================================================================
