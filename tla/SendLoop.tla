-------------------------------- MODULE SendLoop --------------------------------
(***************************************************************************)
(* The two loops of enet_protocol_send_outgoing_commands over the peers of *)
(* a host, a peer a step: one datagram for each peer in a pass, another    *)
(* pass for those that have more.  A pass ends early when the socket       *)
(* refuses a datagram, and when a peer is given up and there is an event.  *)
(***************************************************************************)
EXTENDS Integers

CONSTANTS
    PeerCount,      \* host->peerCount
    Refused,        \* peers whose address the socket refuses
    MaxBacklog      \* bound: datagrams that wait for a peer

Peers == 1 .. PeerCount

ASSUME PeersAssumption == PeerCount \in Nat \ {0} /\ Refused \subseteq Peers
ASSUME BacklogAssumption == MaxBacklog \in Nat \ {0}

VARIABLES
    backlog,        \* datagrams that the queues of a peer fill
    flagged,        \* peers with ENET_PEER_FLAG_CONTINUE_SENDING
    connected,      \* peers that are neither DISCONNECTED nor ZOMBIE
    call,           \* the loops: turn 0 outside of them
    sent            \* peers that a datagram went to since the call began

loopVars == <<backlog, flagged, connected, call, sent>>

Idle == [turn |-> 0, sendPass |-> 0, continueSending |-> 0]

LoopTypeOK ==
    /\ backlog \in [Peers -> 0 .. MaxBacklog]
    /\ flagged \subseteq Peers /\ connected \subseteq Peers /\ sent \subseteq Peers
    /\ call.turn \in 0 .. PeerCount
    /\ call.sendPass \in 0 .. MaxBacklog /\ call.continueSending \in 0 .. MaxBacklog

LoopInit ==
    /\ backlog \in [Peers -> 0 .. MaxBacklog]
    /\ flagged = {}
    /\ connected = Peers
    /\ call = Idle
    /\ sent = {}

\* The application sends, to anyone it is connected to.
Queue(p) ==
    /\ call = Idle
    /\ p \in connected
    /\ backlog[p] < MaxBacklog
    /\ backlog' = [backlog EXCEPT ![p] = @ + 1]
    /\ UNCHANGED <<flagged, connected, call, sent>>

Begin ==
    /\ call = Idle
    /\ call' = [Idle EXCEPT !.turn = 1]
    /\ sent' = {}
    /\ UNCHANGED <<backlog, flagged, connected>>

\* Faulty: the pass that follows is not counted.
NextPeerSamePass(c) ==
    IF c.turn < PeerCount THEN [c EXCEPT !.turn = @ + 1]
    ELSE IF c.sendPass < c.continueSending THEN [c EXCEPT !.turn = 1] ELSE Idle

\* The next peer, or the first one in the next pass, or the end.
NextPeer(c) ==
    IF c.turn < PeerCount THEN [c EXCEPT !.turn = @ + 1]
    ELSE IF c.sendPass < c.continueSending
    THEN [c EXCEPT !.turn = 1, !.sendPass = @ + 1]
    ELSE Idle

Serves(p) ==
    /\ call.turn = p
    /\ p \in connected
    /\ call.sendPass > 0 => p \in flagged

Skip(p) ==
    /\ call.turn = p
    /\ ~ Serves(p)
    /\ call' = NextPeer(call)
    /\ UNCHANGED <<backlog, flagged, connected, sent>>

\* check_timeouts: the peer is reset and its disconnection returned as the event; with
\* event == NULL, or a peer never reported as connected, the loop goes on.
GiveUp(p, withEvent) ==
    /\ Serves(p)
    /\ p \in Refused
    /\ connected' = connected \ {p}
    /\ backlog' = [backlog EXCEPT ![p] = 0]
    /\ flagged' = flagged \ {p}
    /\ call' = IF withEvent THEN Idle ELSE NextPeer(call)
    /\ UNCHANGED sent

Nothing(p) ==
    /\ Serves(p)
    /\ backlog[p] = 0
    /\ flagged' = flagged \ {p}
    /\ call' = NextPeer(call)
    /\ UNCHANGED <<backlog, connected, sent>>

\* What goes into a datagram has left the queues whether the socket takes it or not.
Transmit(p) ==
    /\ Serves(p)
    /\ backlog[p] > 0
    /\ backlog' = [backlog EXCEPT ![p] = @ - 1]
    /\ flagged' = IF backlog[p] > 1 THEN flagged \cup {p} ELSE flagged \ {p}
    /\ sent' = sent \cup {p}
    /\ call' = IF p \in Refused THEN Idle
               ELSE NextPeer(IF backlog[p] > 1
                            THEN [call EXCEPT !.continueSending = call.sendPass + 1]
                            ELSE call)
    /\ UNCHANGED connected

Turn(p) == Skip(p) \/ Nothing(p) \/ Transmit(p)

LoopNext ==
    \/ Begin
    \/ \E p \in Peers :
        \/ Queue(p)
        \/ Turn(p)
        \/ \E withEvent \in BOOLEAN : GiveUp(p, withEvent)

\* The host is serviced again and again, a call goes on, and a peer that is refused
\* has its timeouts.
LoopFairness ==
    /\ WF_loopVars(Begin)
    /\ \A p \in Peers :
        /\ WF_loopVars(Turn(p))
        /\ SF_loopVars(\E withEvent \in BOOLEAN : GiveUp(p, withEvent))

LoopSpec == LoopInit /\ [][LoopNext]_loopVars /\ LoopFairness

-----------------------------------------------------------------------------
(* Properties.                                                             *)

\* A call that runs to the end, without a refusal or an event, leaves no peer with
\* something to send (protocol.c:1610-1739).
CallSendsAll ==
    [][call.turn = PeerCount /\ call' = Idle /\ connected' = connected
       /\ (PeerCount \in Refused => PeerCount \notin sent') =>
        \A p \in connected' : backlog'[p] = 0]_loopVars

\* A call ends: the passes stop although each of them may ask for another
\* (protocol.c:1610, 1738).
CallReturns == []<>(call = Idle)

\* A peer that the socket refuses does not keep the ones after it in the table from
\* being served (protocol.c:1731): once it has been given up, the others have their turn.
AllServed == \A p \in Peers \ Refused : (backlog[p] = MaxBacklog) ~> (p \in sent)

\* Every call comes to an end, having sent what there was, and refusals keep none of the
\* other peers waiting for ever (protocol.c:1610-1739).
CallsServe == CallSendsAll /\ CallReturns /\ AllServed
================================================================================
