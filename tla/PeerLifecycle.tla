---------------------------- MODULE PeerLifecycle ----------------------------
(***************************************************************************)
(* What an ENet host promises its application about the slots of its peer  *)
(* table: the events of a slot come in the order CONNECT, RECEIVE*,        *)
(* DISCONNECT, and nothing is received from a peer after the application   *)
(* has asked for the disconnection.                                        *)
(***************************************************************************)
CONSTANTS Peers, NoPeer

VARIABLES
    view,       \* what the application knows of each slot
    event       \* the event the last call returned

View == {"FREE", "CONNECTING", "CONNECTED", "CLOSING", "ABANDONED"}
NoEvent == [type |-> "NONE", peer |-> NoPeer]

Init == view = [p \in Peers |-> "FREE"] /\ event = NoEvent

\* A call that returns no event may move the slot p from one of `from` to `to`.
Ask(p, from, to) ==
    /\ view[p] \in from
    /\ view' = [view EXCEPT ![p] = to]
    /\ event' = NoEvent

Request(p) == Ask(p, {"FREE", "ABANDONED"}, "CONNECTING")   \* enet_host_connect
Close(p)   == Ask(p, {"CONNECTED", "CLOSING"}, "CLOSING")   \* enet_peer_disconnect
Abandon(p) == Ask(p, {"CONNECTING"}, "ABANDONED")           \* ... while connecting
Release(p) == Ask(p, View, "FREE")                          \* enet_peer_reset

Report(p, type, from, to) ==
    /\ view[p] \in from
    /\ view' = [view EXCEPT ![p] = to]
    /\ event' = [type |-> type, peer |-> p]

\* An event for a slot the application has not asked for is a remote host's.
ReportConnect(p)    == Report(p, "CONNECT", {"FREE", "ABANDONED", "CONNECTING"}, "CONNECTED")
ReportReceive(p)    == Report(p, "RECEIVE", {"CONNECTED"}, "CONNECTED")
ReportDisconnect(p) == Report(p, "DISCONNECT", {"CONNECTING", "CONNECTED", "CLOSING"}, "FREE")

\* A call that has nothing to report.
Quiet == event' = NoEvent /\ UNCHANGED view

Next ==
    \/ Quiet
    \/ \E p \in Peers :
          \/ Request(p) \/ Close(p) \/ Abandon(p) \/ Release(p)
          \/ ReportConnect(p) \/ ReportReceive(p) \/ ReportDisconnect(p)

Spec == Init /\ [][Next]_<<view, event>>
=============================================================================
