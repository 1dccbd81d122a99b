------------------------------ MODULE MCHandshake ------------------------------
(***************************************************************************)
(* Handshake for TLC: the worlds in which the hosts meet.                  *)
(***************************************************************************)
EXTENDS Handshake

World(slots, duplicates, connects, endings, restarts, configures, packets) ==
    [callers |-> {1}, peerCount |-> slots, duplicatePeers |-> 2, duplicates |-> duplicates,
     connects |-> connects, endings |-> endings, restarts |-> restarts,
     configures |-> configures, packets |-> packets, resends |-> 0, answers |-> 2]

Repeating == World(2, TRUE, 2, 2, 0, 0, 0)
\* With commands that are sent again.
Reordering == [World(1, FALSE, 3, 3, 0, 0, 1) EXCEPT !.resends = 1]
Restarting == World(2, TRUE, 2, 1, 1, 0, 0)
\* The throttle is configured at any time, and what waits for an answer is sent again.
Configuring == [World(1, FALSE, 2, 2, 0, 1, 0) EXCEPT !.resends = 1]
\* Both hosts call.
Mutual == [World(2, FALSE, 2, 2, 0, 0, 0) EXCEPT !.callers = {1, 2}]
Worlds == {Repeating, Reordering, Restarting, Configuring, Mutual}
===============================================================================
