------------------------------ MODULE EnetHost ------------------------------
(***************************************************************************)
(* One ENet host: its peers, the queue of peers that have an event to      *)
(* report, the phases of enet_host_service, the application's calls, and   *)
(* remote hosts that may send any command an ENet host can send.           *)
(*                                                                         *)
(* What is kept of the data: a command is one of six kinds, and the        *)
(* lists of a peer are the sets of kinds they hold.  RELIABLE stands for   *)
(* every acknowledged command that there can be several of (packets,       *)
(* fragments, pings, bandwidth limits, throttle settings), UNRELIABLE for  *)
(* every packet command that is not acknowledged; removing one of several  *)
(* may therefore leave the kind in the set.                                *)
(***************************************************************************)
EXTENDS Integers, FiniteSets, Sequences, SequencesExt

CONSTANTS
    PeerCount,      \* host->peerCount
    EventModes,     \* {TRUE}: every call passes an event (index.ts);
                    \* FALSE \in EventModes: event == NULL is used as well
    Packets         \* the kinds of packet the application sends

ASSUME PeerCountAssumption == PeerCount \in Nat \ {0}
ASSUME EventModesAssumption == EventModes \subseteq BOOLEAN
ASSUME PacketsAssumption == Packets \subseteq {"RELIABLE", "UNRELIABLE"}

Peers == 0 .. PeerCount - 1
NoPeer == PeerCount         \* one past the end of host->peers

State == {"DISCONNECTED", "CONNECTING", "ACKNOWLEDGING_CONNECT",
          "CONNECTION_PENDING", "CONNECTION_SUCCEEDED", "CONNECTED",
          "DISCONNECT_LATER", "DISCONNECTING", "ACKNOWLEDGING_DISCONNECT",
          "ZOMBIE"}
Active == {"CONNECTED", "DISCONNECT_LATER"}

\* NOTICE is the unsequenced DISCONNECT of a peer that is given up at once.
Command == {"CONNECT", "VERIFY_CONNECT", "DISCONNECT", "NOTICE",
            "RELIABLE", "UNRELIABLE"}
Acknowledged == Command \ {"NOTICE", "UNRELIABLE"}

\* What the application knows of a slot.  ABANDONED: it asked for the end of a
\* connection attempt it has been told nothing about.
View == {"FREE", "CONNECTING", "CONNECTED", "CLOSING", "ABANDONED"}

Event == [type : {"NONE", "CONNECT", "DISCONNECT", "RECEIVE"},
          peer : Peers \cup {NoPeer}]
NoEvent == [type |-> "NONE", peer |-> NoPeer]

Phase == {"idle", "check", "dispatch", "throttle", "send", "receive",
          "datagram", "resend", "deliver", "wait", "flush"}

VARIABLES
    host,       \* the host and its peers, see HostType
    phase,      \* where the call in progress is
    current,    \* the peer a loop or a datagram is at, or NoPeer
    event,      \* *event of the last call
    withEvent,  \* event # NULL in the call in progress
    closing,    \* the peer to reset once the flush is over, or NoPeer
    app         \* what the application knows of each slot

vars == <<host, phase, current, event, withEvent, closing, app>>

HostType ==
    [state                : [Peers -> State],
     needsDispatch        : SUBSET Peers,    \* ENET_PEER_FLAG_NEEDS_DISPATCH
     dispatchQueue        : Seq(Peers),
     outgoing             : [Peers -> SUBSET Command],      \* both outgoing lists
     unacked              : [Peers -> SUBSET Acknowledged], \* sentReliableCommands
     first                : [Peers -> Acknowledged \cup {"NOTICE", "NONE"}],
                            \* the command numbered 1 on channel 0xFF
     acknowledgements     : SUBSET Peers,    \* a DISCONNECT is to be acknowledged
     dispatched           : SUBSET Peers,    \* dispatchedCommands is not empty
     limited              : SUBSET Peers,    \* incomingBandwidth # 0
     connectedPeers       : Int,
     bandwidthLimitedPeers: Int]

-----------------------------------------------------------------------------
(* Functions of peer.c and protocol.c that change a peer, from host to host. *)

HasOutgoing(h, p) == h.outgoing[p] # {} \/ h.unacked[p] # {}

\* What a peer adds to bandwidthLimitedPeers while it is connected.
Limit(h, p) == IF p \in h.limited THEN 1 ELSE 0

OnConnect(h, p) ==
    IF h.state[p] \in Active THEN h
    ELSE [h EXCEPT !.connectedPeers = @ + 1,
                   !.bandwidthLimitedPeers = @ + Limit(h, p)]

OnDisconnect(h, p) ==
    IF h.state[p] \notin Active THEN h
    ELSE [h EXCEPT !.connectedPeers = @ - 1,
                   !.bandwidthLimitedPeers = @ - Limit(h, p)]

ChangeState(h, p, s) ==
    [(IF s \in Active THEN OnConnect(h, p) ELSE OnDisconnect(h, p))
        EXCEPT !.state[p] = s]

\* Faulty: linked without a look at the flag.
NeedsDispatchAlways(h, p) ==
    [h EXCEPT !.dispatchQueue = Append(@, p), !.needsDispatch = @ \cup {p}]

\* Link the peer at the end of the dispatch queue unless its flag says it is there.
\* dispatchQueue is the nodes in the order they were linked in; while none is in
\* it twice, that is the list of list.c.
NeedsDispatch(h, p) ==
    IF p \in h.needsDispatch THEN h
    ELSE [h EXCEPT !.dispatchQueue = Append(@, p), !.needsDispatch = @ \cup {p}]

\* incomingBandwidth as a remote host states it: limited or not.
SetLimit(h, p, l) == [h EXCEPT !.limited = IF l THEN @ \cup {p} ELSE @ \ {p}]

\* Faulty: the state is changed, the peer is not linked.
DispatchStateUnlinked(h, p, s) == ChangeState(h, p, s)

DispatchState(h, p, s) == NeedsDispatch(ChangeState(h, p, s), p)

\* No node is linked again while it is in the queue.
LinkedOnce(q) == \A i, j \in 1 .. Len(q) : q[i] = q[j] => i = j

\* The peers a walk from the head of the queue meets.  A node that is linked
\* again gets new pointers: the one in front of its old place now leads to the
\* end, so that what stood behind the old place is met no more (list.c:21-32).
Reached(q) ==
    {q[j] : j \in {j \in 1 .. Len(q) :
                       \A k \in 1 .. j - 1, l \in j + 1 .. Len(q) : q[k] # q[l]}}

\* enet_list_remove of the peer's one dispatchList node.
Unlink(q, p) ==
    IF \E i \in 1 .. Len(q) : q[i] = p
    THEN RemoveAt(q, CHOOSE i \in 1 .. Len(q) : q[i] = p)
    ELSE q

ResetQueues(h, p) ==
    [h EXCEPT !.dispatchQueue = IF p \in h.needsDispatch THEN Unlink(@, p) ELSE @,
              !.needsDispatch = @ \ {p},
              !.acknowledgements = @ \ {p},
              !.unacked[p] = {},
              !.outgoing[p] = {},
              !.dispatched = @ \ {p}]

\* Faulty: enet_peer_on_disconnect is not called.
ResetUncounted(h, p) ==
    ResetQueues([h EXCEPT !.state[p] = "DISCONNECTED",
                          !.limited = @ \ {p},
                          !.first[p] = "NONE",
                          !.needsDispatch = @ \ {p}], p)

\* enet_peer_reset clears the flags before it resets the queues, so a peer that
\* is in the dispatch queue stays in it, unflagged.
Reset(h, p) ==
    ResetQueues([OnDisconnect(h, p) EXCEPT !.state[p] = "DISCONNECTED",
                                           !.limited = @ \ {p},
                                           !.first[p] = "NONE",
                                           !.needsDispatch = @ \ {p}], p)

\* enet_peer_queue_outgoing_command.  Packets go to channels with numbers of
\* their own; no peer has a channel before its channel 0xFF has used number 1.
Queue(h, p, c) ==
    [h EXCEPT !.outgoing[p] = @ \cup {c},
              !.first[p] = IF @ = "NONE" /\ c # "UNRELIABLE" THEN c ELSE @]

PingPeer(h, p) == IF h.state[p] = "CONNECTED" THEN Queue(h, p, "RELIABLE") ELSE h

\* Faulty: the DISCONNECT is queued before the queues are reset.
BeginDisconnectUnsent(h, p) ==
    [OnDisconnect(ResetQueues(Queue(h, p, "DISCONNECT"), p), p)
        EXCEPT !.state[p] = "DISCONNECTING"]

\* enet_peer_disconnect of a connected peer.
BeginDisconnect(h, p) ==
    [OnDisconnect(Queue(ResetQueues(h, p), p, "DISCONNECT"), p)
        EXCEPT !.state[p] = "DISCONNECTING"]

NotifyConnect(h, p, e) ==
    IF e THEN ChangeState(h, p, "CONNECTED")
    ELSE DispatchState(h, p, IF h.state[p] = "CONNECTING" THEN "CONNECTION_SUCCEEDED"
                                                         ELSE "CONNECTION_PENDING")

\* Faulty: the test for CONNECTING is missing in front of < CONNECTION_SUCCEEDED.
EndsSilentlyConnecting(h, p) ==
    h.state[p] \in {"DISCONNECTED", "CONNECTING", "ACKNOWLEDGING_CONNECT",
                    "CONNECTION_PENDING"}

\* A peer the application has not been told about goes without an event.
EndsSilently(h, p) ==
    h.state[p] \in {"DISCONNECTED", "ACKNOWLEDGING_CONNECT", "CONNECTION_PENDING"}

NotifyDisconnect(h, p, e) ==
    IF EndsSilently(h, p) \/ e THEN Reset(h, p) ELSE DispatchState(h, p, "ZOMBIE")

\* One command c for each peer in one of the states S.
QueueAll(h, S, c) ==
    [h EXCEPT !.outgoing = [p \in Peers |-> IF h.state[p] \in S THEN @[p] \cup {c}
                                                                ELSE @[p]]]

\* enet_host_bandwidth_throttle when the limits are to be recalculated.
LimitBandwidth(h) == QueueAll(h, Active, "RELIABLE")

\* The acknowledged command c leaves the list it waits in; of several RELIABLE
\* ones some may stay, and one that is to be sent again waits in outgoing.
Acknowledge(h, p, c) ==
    IF c # "RELIABLE" THEN {[h EXCEPT !.unacked[p] = @ \ {c}]}
    ELSE {h} \cup {[h EXCEPT !.unacked[p] = @ \ {c}]}
             \cup (IF c \in h.unacked[p] THEN {[h EXCEPT !.outgoing[p] = @ \ {c}]} ELSE {})

-----------------------------------------------------------------------------
(* The application: calls on a host that is not inside a call.             *)

Free(h) == {p \in Peers : h.state[p] = "DISCONNECTED"}
FirstFree(h, p) == p \in Free(h) /\ \A q \in Free(h) : p <= q

Call(h) ==
    /\ phase = "idle"
    /\ host' = h
    /\ event' = NoEvent
    /\ UNCHANGED <<phase, current, withEvent, closing>>

Connect ==
    \E p \in Peers :
        /\ FirstFree(host, p)
        /\ Call(Queue([host EXCEPT !.state[p] = "CONNECTING"], p, "CONNECT"))
        /\ app' = [app EXCEPT ![p] = "CONNECTING"]

Send(p, c) ==
    /\ host.state[p] = "CONNECTED"
    /\ Call(Queue(host, p, c))
    /\ UNCHANGED app

Broadcast(c) ==
    /\ \E p \in Peers : host.state[p] = "CONNECTED"
    /\ Call(QueueAll(host, {"CONNECTED"}, c))
    /\ UNCHANGED app

Ping(p) ==
    /\ Call(PingPeer(host, p))
    /\ UNCHANGED app

\* There is no test of the state: any slot takes the command.
ConfigureThrottle(p) ==
    /\ Call(Queue(host, p, "RELIABLE"))
    /\ UNCHANGED app

\* It does nothing within a second of the last time.
BandwidthThrottle ==
    /\ \E h \in {host, LimitBandwidth(host)} : Call(h)
    /\ UNCHANGED app

\* The peer is told without waiting for an answer: flush, then reset.
GiveUp(p) ==
    /\ phase = "idle"
    /\ host' = Queue(ResetQueues(host, p), p, "NOTICE")
    /\ phase' = "flush"
    /\ current' = 0
    /\ event' = NoEvent
    /\ withEvent' = FALSE
    /\ closing' = p

Disconnect(p) ==
    \/ /\ host.state[p] \in Active
       /\ Call(BeginDisconnect(host, p))
       /\ app' = [app EXCEPT ![p] = "CLOSING"]
    \/ /\ host.state[p] \in {"CONNECTING", "ACKNOWLEDGING_CONNECT",
                             "CONNECTION_PENDING", "CONNECTION_SUCCEEDED"}
       /\ GiveUp(p)
       /\ app' = [app EXCEPT ![p] = IF @ = "CONNECTING" THEN "ABANDONED" ELSE @]

DisconnectLater(p) ==
    \/ /\ host.state[p] \in Active
       /\ HasOutgoing(host, p)
       /\ Call([host EXCEPT !.state[p] = "DISCONNECT_LATER"])
       /\ app' = [app EXCEPT ![p] = "CLOSING"]
    \/ /\ ~ (host.state[p] \in Active /\ HasOutgoing(host, p))
       /\ Disconnect(p)

DisconnectNow(p) ==
    /\ host.state[p] # "DISCONNECTED"
    /\ app' = [app EXCEPT ![p] = "FREE"]
    /\ IF host.state[p] \in {"ZOMBIE", "DISCONNECTING"}
       THEN Call(Reset(host, p))
       ELSE GiveUp(p)

ResetPeer(p) ==
    /\ Call(Reset(host, p))
    /\ app' = [app EXCEPT ![p] = "FREE"]

Enter(ph, e) ==
    /\ phase = "idle"
    /\ phase' = ph
    /\ current' = 0
    /\ event' = NoEvent
    /\ withEvent' = e
    /\ UNCHANGED <<host, closing, app>>

Flush == Enter("flush", FALSE)
CheckEvents == Enter("check", TRUE)
Service(e) == Enter(IF e THEN "dispatch" ELSE "throttle", e)

AppCall ==
    \/ Connect \/ BandwidthThrottle \/ Flush \/ CheckEvents
    \/ \E e \in EventModes : Service(e)
    \/ \E c \in Packets : Broadcast(c)
    \/ \E p \in Peers :
          \/ \E c \in Packets : Send(p, c)
          \/ Ping(p) \/ ConfigureThrottle(p)
          \/ Disconnect(p) \/ DisconnectLater(p) \/ DisconnectNow(p) \/ ResetPeer(p)

-----------------------------------------------------------------------------
(* Leaving a call, and going from phase to phase.                          *)

\* The call returns; the application reads the event.
Return(ev) ==
    /\ phase' = "idle"
    /\ current' = NoPeer
    /\ event' = ev
    /\ withEvent' = FALSE
    /\ closing' = NoPeer
    /\ app' = CASE ev.type = "CONNECT"    -> [app EXCEPT ![ev.peer] = "CONNECTED"]
                [] ev.type = "DISCONNECT" -> [app EXCEPT ![ev.peer] = "FREE"]
                [] OTHER                  -> app

Goto(ph, p) ==
    /\ phase' = ph
    /\ current' = p
    /\ UNCHANGED <<event, withEvent, closing, app>>

Stay == UNCHANGED <<phase, current, event, withEvent, closing, app>>

-----------------------------------------------------------------------------
(* enet_protocol_dispatch_incoming_commands: one peer of the queue a step. *)

Dispatching == phase \in {"check", "dispatch", "deliver"}

\* The host with the first peer taken off the queue.
Popped == [host EXCEPT !.dispatchQueue = Tail(@),
                       !.needsDispatch = @ \ {Head(host.dispatchQueue)}]

\* Faulty: packets are delivered to a peer that is to be disconnected later.
DispatchLate(p) ==
    /\ host.state[p] \in Active
    /\ p \in host.dispatched
    /\ host' = [Popped EXCEPT !.dispatched = @ \ {p}]
    /\ Return([type |-> "RECEIVE", peer |-> p])

Dispatch(p) ==
    \/ /\ host.state[p] \in {"CONNECTION_PENDING", "CONNECTION_SUCCEEDED"}
       /\ host' = ChangeState(Popped, p, "CONNECTED")
       /\ Return([type |-> "CONNECT", peer |-> p])
    \/ /\ host.state[p] = "ZOMBIE"
       /\ host' = Reset(Popped, p)
       /\ Return([type |-> "DISCONNECT", peer |-> p])
    \/ /\ host.state[p] = "CONNECTED"
       /\ p \in host.dispatched
       /\ \/ host' = [Popped EXCEPT !.dispatched = @ \ {p}]
          \/ host' = NeedsDispatch(Popped, p)
       /\ Return([type |-> "RECEIVE", peer |-> p])
    \/ /\ \/ host.state[p] = "CONNECTED" /\ p \notin host.dispatched
          \/ host.state[p] \notin {"CONNECTION_PENDING", "CONNECTION_SUCCEEDED",
                                   "ZOMBIE", "CONNECTED"}
       /\ host' = Popped
       /\ Stay

DispatchIncoming ==
    /\ Dispatching
    /\ \/ /\ host.dispatchQueue # << >>
          /\ Dispatch(Head(host.dispatchQueue))
       \/ /\ host.dispatchQueue = << >>
          /\ UNCHANGED host
          /\ CASE phase = "check"    -> Return(NoEvent)
               [] phase = "dispatch" -> Goto("throttle", NoPeer)
               [] phase = "deliver"  -> Goto("wait", NoPeer)

\* The top of the service loop: once a second the bandwidth is shared anew.
ThrottlePhase ==
    /\ phase = "throttle"
    /\ host' \in {host, LimitBandwidth(host)}
    /\ Goto("send", 0)

-----------------------------------------------------------------------------
(* enet_protocol_send_outgoing_commands: one peer a step.                  *)

Sending == phase \in {"send", "resend", "flush"}

\* enet_protocol_send_acknowledgements.
SendAcknowledgements(h, p) ==
    IF p \notin h.acknowledgements THEN h
    ELSE [DispatchState(h, p, "ZOMBIE") EXCEPT !.acknowledgements = @ \ {p}]

\* Faulty: nobody looks whether the last command is gone.
FinishDisconnectLaterNever(h, p) == h

\* A peer that is to be disconnected later is disconnected when nothing is left.
FinishDisconnectLater(h, p) ==
    IF h.state[p] = "DISCONNECT_LATER" /\ ~ HasOutgoing(h, p)
    THEN BeginDisconnect(h, p) ELSE h

\* Faulty: every command that is sent is kept for its acknowledgement.
TransmitKeepingAll(h, p, held) ==
    FinishDisconnectLater(
        [h EXCEPT !.outgoing[p] = held, !.unacked[p] = @ \cup h.outgoing[p]], p)

\* enet_protocol_check_outgoing_commands and the removal of the unreliable
\* commands sent: all goes out but what the windows hold back.
Transmit(h, p, held) ==
    FinishDisconnectLater(
        [h EXCEPT !.outgoing[p] = held,
                  !.unacked[p] = @ \cup (h.outgoing[p] \cap Acknowledged)], p)

\* Packets are held back only while others are on their way.
Holdable(h, p) == {{}, (h.outgoing[p] \cup h.unacked[p]) \cap {"RELIABLE"}}

\* The peer has been quiet for pingInterval and nothing that would be
\* acknowledged is on its way.
PingIfQuiet(h0, h, p) ==
    IF h0.outgoing[p] \cap Acknowledged = {} /\ h.unacked[p] = {}
    THEN {h, Transmit(PingPeer(h, p), p, {})} ELSE {h}

SkipPeer(p) ==
    /\ host.state[p] \in {"DISCONNECTED", "ZOMBIE"}
    /\ UNCHANGED host
    /\ Goto(phase, p + 1)

\* check_timeouts gives the peer up.
TimeOut(p) ==
    LET h == SendAcknowledgements(host, p)
    IN  /\ host.state[p] \notin {"DISCONNECTED", "ZOMBIE"}
        /\ phase # "flush"
        /\ h.unacked[p] # {}
        /\ host' = NotifyDisconnect(h, p, withEvent)
        /\ IF withEvent /\ ~ EndsSilently(h, p)
           THEN Return([type |-> "DISCONNECT", peer |-> p])
           ELSE Goto(phase, p + 1)

\* The commands whose timeout has come may be among those held back.
TransmitTo(p) ==
    LET h == SendAcknowledgements(host, p)
    IN  /\ host.state[p] \notin {"DISCONNECTED", "ZOMBIE"}
        /\ IF ~ HasOutgoing(h, p) THEN host' \in PingIfQuiet(h, h, p)
           ELSE \E held \in Holdable(h, p) :
                    host' \in PingIfQuiet(h, Transmit(h, p, held), p)

\* The socket may refuse the datagram, which ends the pass.
SendTo(p) ==
    \/ SkipPeer(p)
    \/ TimeOut(p)
    \/ TransmitTo(p) /\ Goto(phase, p + 1)
    \/ TransmitTo(p) /\ phase # "flush" /\ Return(NoEvent)
    \/ TransmitTo(p) /\ phase = "flush" /\ Goto(phase, NoPeer)

SendDone ==
    CASE phase = "send"   -> Goto("receive", NoPeer) /\ UNCHANGED host
      [] phase = "resend" -> /\ Goto(IF withEvent THEN "deliver" ELSE "wait", NoPeer)
                             /\ UNCHANGED host
      [] phase = "flush"  -> /\ host' = IF closing = NoPeer THEN host
                                        ELSE Reset(host, closing)
                             /\ Return(NoEvent)

SendOutgoing ==
    /\ Sending
    /\ IF current = NoPeer THEN SendDone ELSE SendTo(current)

-----------------------------------------------------------------------------
(* enet_protocol_receive_incoming_commands: one command of a datagram a    *)
(* step.  The remote hosts may send whatever they like.                    *)

ReceiveDatagram(p) ==
    /\ phase = "receive"
    /\ p # NoPeer => host.state[p] \notin {"DISCONNECTED", "ZOMBIE"}
    /\ Goto("datagram", p)
    /\ UNCHANGED host

\* The socket is empty, or 256 datagrams have been read.
ReceiveDone ==
    /\ phase = "receive"
    /\ Goto("resend", 0)
    /\ UNCHANGED host

ReceiveFailed ==
    /\ phase = "receive"
    /\ Return(NoEvent)
    /\ UNCHANGED host

Continue == Stay

\* Next datagram, or return when this one has produced an event.
End(ev) ==
    IF ev.type # "NONE" THEN Return(ev)
    ELSE Goto("receive", NoPeer)

EndDatagram ==
    /\ phase = "datagram"
    /\ End(event)
    /\ UNCHANGED host

Report(ev) ==
    /\ event' = ev
    /\ UNCHANGED <<phase, current, withEvent, closing, app>>

\* The event notify_connect leaves behind.
ConnectEvent(p) == IF withEvent THEN [type |-> "CONNECT", peer |-> p] ELSE event

HandleConnect ==
    \E p \in Peers, l \in BOOLEAN :
        /\ phase = "datagram"
        /\ current = NoPeer
        /\ FirstFree(host, p)
        /\ host' = Queue([SetLimit(host, p, l) EXCEPT !.state[p] = "ACKNOWLEDGING_CONNECT"],
                         p, "VERIFY_CONNECT")
        /\ Goto("datagram", p)

\* Faulty: the CONNECT stays in the list of commands to be acknowledged.
HandleVerifyConnectKeeping(p) ==
    /\ host.state[p] = "CONNECTING"
    /\ \E l \in BOOLEAN : host' = NotifyConnect(SetLimit(host, p, l), p, withEvent)
    /\ Report(ConnectEvent(p))

\* An answer to another attempt, or one with other settings, ends this one.
HandleVerifyConnect(p) ==
    /\ host.state[p] = "CONNECTING"
    /\ \/ /\ host' = DispatchState(host, p, "ZOMBIE")
          /\ End(event)
       \/ /\ \E l \in BOOLEAN, h \in Acknowledge(host, p, host.first[p]) :
                host' = NotifyConnect(SetLimit(h, p, l), p, withEvent)
          /\ Report(ConnectEvent(p))

\* Faulty: the disconnection is reported at once.
HandleDisconnectAtOnce(p) ==
    /\ host.state[p] \in Active
    /\ host' = Reset(host, p)
    /\ Report([type |-> "DISCONNECT", peer |-> p])

HandleDisconnect(p) ==
    LET h == ResetQueues(host, p)
    IN  /\ host.state[p] \notin {"DISCONNECTED", "ZOMBIE", "ACKNOWLEDGING_DISCONNECT"}
        /\ \/ /\ host.state[p] \in {"CONNECTION_SUCCEEDED", "DISCONNECTING", "CONNECTING"}
              /\ host' = DispatchState(h, p, "ZOMBIE")
           \/ /\ host.state[p] \in {"ACKNOWLEDGING_CONNECT", "CONNECTION_PENDING"}
              /\ host' = Reset(h, p)
           \/ /\ host.state[p] \in Active
              /\ host' \in {DispatchState(h, p, "ZOMBIE"),
                            [ChangeState(h, p, "ACKNOWLEDGING_DISCONNECT")
                                EXCEPT !.acknowledgements = @ \cup {p}]}
        /\ Continue

\* An acknowledgement of command c, or (NONE) of no command that waits for one.
\* No ENet host acknowledges a CONNECT: the peer it creates is in
\* ACKNOWLEDGING_CONNECT, and for an existing peer the command is an error.
HandleAcknowledge(p, c) ==
    /\ host.state[p] \notin {"DISCONNECTED", "ZOMBIE"}
    /\ c \in (host.unacked[p] \ {"CONNECT"}) \cup {"NONE"}
    /\ \E h \in Acknowledge(host, p, c) :
          CASE h.state[p] = "ACKNOWLEDGING_CONNECT" ->
                   IF c # "VERIFY_CONNECT"
                   THEN host' = h /\ End(event)
                   ELSE /\ host' = NotifyConnect(h, p, withEvent)
                        /\ Report(ConnectEvent(p))
            [] h.state[p] = "DISCONNECTING" ->
                   IF c # "DISCONNECT"
                   THEN host' = h /\ End(event)
                   ELSE /\ host' = NotifyDisconnect(h, p, withEvent)
                        /\ Report(IF withEvent THEN [type |-> "DISCONNECT", peer |-> p]
                                               ELSE event)
            [] OTHER -> host' = FinishDisconnectLater(h, p) /\ Continue

HandleBandwidthLimit(p) ==
    /\ host.state[p] \in Active
    /\ \E l \in BOOLEAN :
          LET h == SetLimit(host, p, l)
          IN  host' = [h EXCEPT !.bandwidthLimitedPeers = @ - Limit(host, p) + Limit(h, p)]
    /\ Continue

\* A packet command that completes a packet; one that does not changes nothing
\* here.  A peer that is to be disconnected later takes no new packet, but a
\* fragment may complete one it has begun (protocol.c:627-642, 745-759).
HandlePacket(p) ==
    /\ host.state[p] \in Active
    /\ host' = NeedsDispatch([host EXCEPT !.dispatched = @ \cup {p}], p)
    /\ Continue

HandleCommand(p) ==
    \/ HandleVerifyConnect(p)
    \/ HandleDisconnect(p)
    \/ \E c \in (Acknowledged \ {"CONNECT"}) \cup {"NONE"} : HandleAcknowledge(p, c)
    \/ HandleBandwidthLimit(p)
    \/ HandlePacket(p)

HandleIncoming ==
    \/ HandleConnect
    \/ /\ phase = "datagram"
       /\ current # NoPeer
       /\ HandleCommand(current)

\* The timeout of enet_host_service, or a datagram to read.
Wait ==
    /\ phase = "wait"
    /\ UNCHANGED host
    /\ \/ Return(NoEvent)
       \/ Goto("throttle", NoPeer)

-----------------------------------------------------------------------------
Init ==
    /\ host = [state                 |-> [p \in Peers |-> "DISCONNECTED"],
               needsDispatch         |-> {},
               dispatchQueue         |-> << >>,
               outgoing              |-> [p \in Peers |-> {}],
               unacked               |-> [p \in Peers |-> {}],
               first                 |-> [p \in Peers |-> "NONE"],
               acknowledgements      |-> {},
               dispatched            |-> {},
               limited               |-> {},
               connectedPeers        |-> 0,
               bandwidthLimitedPeers |-> 0]
    /\ phase = "idle"
    /\ current = NoPeer
    /\ event = NoEvent
    /\ withEvent = FALSE
    /\ closing = NoPeer
    /\ app = [p \in Peers |-> "FREE"]

\* The model ends where a node was linked a second time: from there on list.c
\* follows pointers that dispatchQueue does not have.
Next ==
    /\ LinkedOnce(host.dispatchQueue)
    /\ \/ AppCall
       \/ DispatchIncoming
       \/ ThrottlePhase
       \/ SendOutgoing
       \/ \E p \in Peers \cup {NoPeer} : ReceiveDatagram(p)
       \/ ReceiveDone \/ ReceiveFailed
       \/ HandleIncoming
       \/ EndDatagram
       \/ Wait

Spec == Init /\ [][Next]_vars

(* The application keeps calling enet_host_service, and a call ends: a pass of *)
(* receive_incoming_commands reads at most 256 datagrams, the wait ends at     *)
(* the timeout.  A CONNECT or DISCONNECT that stays unanswered is given up     *)
(* after timeoutMaximum, so the pass that finds it so comes.                   *)
UnansweredTimeOut(p) ==
    /\ Sending
    /\ current = p
    /\ host.state[p] \in {"CONNECTING", "DISCONNECTING"}
    /\ TimeOut(p)

WaitTimeOut == Wait /\ phase' = "idle"

Fairness ==
    /\ WF_vars(DispatchIncoming) /\ WF_vars(ThrottlePhase) /\ WF_vars(SendOutgoing)
    /\ WF_vars(EndDatagram)
    /\ SF_vars(ReceiveDone)
    /\ SF_vars(WaitTimeOut)
    /\ SF_vars(Service(TRUE))
    /\ \A p \in Peers : SF_vars(UnansweredTimeOut(p))

FairSpec == Spec /\ Fairness
-----------------------------------------------------------------------------
TypeOK ==
    /\ host \in HostType
    /\ phase \in Phase
    /\ current \in Peers \cup {NoPeer}
    /\ event \in Event
    /\ withEvent \in BOOLEAN
    /\ closing \in Peers \cup {NoPeer}
    /\ app \in [Peers -> View]

Connected(h) == {p \in Peers : h.state[p] \in Active}

\* The counters that share out the bandwidth count the connected peers and the
\* ones among them whose incoming bandwidth is limited (peer.c:352-374).
Counted(h) ==
    /\ h.connectedPeers = Cardinality(Connected(h))
    /\ h.bandwidthLimitedPeers = Cardinality(Connected(h) \cap h.limited)

CountersMatch == Counted(host)

\* A peer's one list node is never linked twice into the dispatch queue, though
\* enet_peer_reset may leave it there unflagged (peer.c:431), and a flagged
\* peer is linked, so that enet_list_remove finds it.
QueuedOnce ==
    /\ LinkedOnce(host.dispatchQueue)
    /\ host.needsDispatch \subseteq ToSet(host.dispatchQueue)

\* protocol.c:1759: enet_host_check_events "checks for any queued events on the
\* host and dispatches one if available".  A peer with something to report is
\* where the walk over the dispatch queue meets it, whatever order the datagrams,
\* timeouts and calls came in; the peer being given up is exempt.
NoLostEvent ==
    \A p \in Peers \ {closing} :
        (\/ host.state[p] \in {"ZOMBIE", "CONNECTION_PENDING", "CONNECTION_SUCCEEDED"}
         \/ host.state[p] = "CONNECTED" /\ p \in host.dispatched)
        => p \in Reached(host.dispatchQueue)

\* A peer that waits for its remote host has the command outstanding whose
\* timeout or acknowledgement ends the wait.
NoStrandedPeer ==
    \A p \in Peers \ {closing} :
        LET pending == host.outgoing[p] \cup host.unacked[p]
        IN  CASE host.state[p] = "CONNECTING"               -> "CONNECT" \in pending
              [] host.state[p] = "ACKNOWLEDGING_CONNECT"    -> "VERIFY_CONNECT" \in pending
              [] host.state[p] = "DISCONNECT_LATER"         -> pending # {}
              [] host.state[p] = "DISCONNECTING"            -> "DISCONNECT" \in pending
              [] host.state[p] = "ACKNOWLEDGING_DISCONNECT" -> p \in host.acknowledgements
              [] OTHER                                      -> TRUE

\* The CONNECT of a connection that is up is not sent again, or its timeout would
\* end the connection: VERIFY_CONNECT settles it (protocol.c:972).
ConnectSettled ==
    \A p \in Peers :
        host.state[p] \in Active \cup {"CONNECTION_SUCCEEDED"} /\ host.first[p] = "CONNECT"
        => "CONNECT" \notin host.outgoing[p] \cup host.unacked[p]

\* Between calls the state of a peer is one the application's view allows: the
\* events it was given have told it of every connection and every end.
ViewAgrees ==
    phase = "idle" =>
        \A p \in Peers :
            host.state[p] \in
                CASE app[p] = "CONNECTING" -> {"CONNECTING", "CONNECTION_SUCCEEDED", "ZOMBIE"}
                  [] app[p] = "CONNECTED"  -> {"CONNECTED", "ACKNOWLEDGING_DISCONNECT", "ZOMBIE"}
                  [] app[p] = "CLOSING"    -> {"DISCONNECT_LATER", "DISCONNECTING",
                                               "ACKNOWLEDGING_DISCONNECT", "ZOMBIE"}
                  [] OTHER                 -> {"DISCONNECTED", "ACKNOWLEDGING_CONNECT",
                                               "CONNECTION_PENDING"}

\* The host keeps what PeerLifecycle promises; the application sees the event
\* when the call returns.
Lifecycle == INSTANCE PeerLifecycle
                WITH view <- app, event <- IF phase = "idle" THEN event ELSE NoEvent

ImplementsLifecycle == Lifecycle!Spec

\* An event found while a datagram is read is the one the call returns: no later
\* command of the datagram replaces it.
EventKept ==
    [][phase = "datagram" /\ event.type # "NONE" => event' = event]_vars

\* peer.c:534: a DISCONNECT event is generated once the disconnection that
\* enet_peer_disconnect requested is complete.
DisconnectIsReported ==
    [][\A p \in Peers :
          /\ app[p] \in {"CLOSING", "ABANDONED"}
          /\ app'[p] = app[p]
          /\ host.state[p] # "DISCONNECTED"
          /\ host'.state[p] = "DISCONNECTED"
          => event' = [type |-> "DISCONNECT", peer |-> p]]_vars

\* A connection attempt is answered by an event or ended by the application,
\* whatever the remote host does (host.c:179).
ConnectAnswered == \A p \in Peers : app[p] = "CONNECTING" ~> app[p] # "CONNECTING"

\* A disconnection that has begun is reported or cut short by the application.
DisconnectCompletes ==
    \A p \in Peers :
        app[p] = "CLOSING" /\ host.state[p] # "DISCONNECT_LATER" ~> app[p] = "FREE"
=============================================================================
