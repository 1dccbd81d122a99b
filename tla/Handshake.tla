-------------------------------- MODULE Handshake --------------------------------
(***************************************************************************)
(* Two hosts make and lose connections over a network that delays,         *)
(* duplicates, reorders and loses datagrams: the connect ids, peer ids and *)
(* session ids that tell the connections of a slot apart.  Hosts are       *)
(* serviced with an event record, so that a connection is reported in the  *)
(* datagram that completes it (EnetHost has the other ways, and            *)
(* enet_peer_disconnect_later).                                            *)
(***************************************************************************)
EXTENDS Naturals, FiniteSetsExt, SequencesExt

CONSTANTS
    SessionCount,       \* session ids in a header, 4
    Settings            \* hosts, network and bounds, a record for each part of a run

ASSUME CountsAssumption == SessionCount \in Nat \ {0, 1}
ASSUME SettingsAssumption ==
    \A s \in Settings :
        /\ s.callers \subseteq {1, 2} /\ s.duplicates \in BOOLEAN
        /\ s.peerCount \in Nat \ {0} /\ s.duplicatePeers \in Nat
        /\ {s.connects, s.endings, s.restarts, s.configures, s.packets, s.resends} \subseteq Nat
        /\ s.answers \in Nat

VARIABLES
    peers,      \* host->peers of either host
    net,        \* every datagram that was sent: any of them may arrive, again and again
    done,       \* how many of the bounded calls were made
    agreed,     \* connect ids whose VERIFY_CONNECT the caller has taken
    answers,    \* how many times each CONNECT was given a slot
    setting     \* the one of Settings that holds

vars == <<peers, net, done, agreed, answers, setting>>

Callers == setting.callers                  \* hosts that connect to the other one
DuplicatePeers == setting.duplicatePeers    \* host->duplicatePeers
Duplicates == setting.duplicates            \* whether a datagram may arrive more than once
MaxConnects == setting.connects             \* bound: calls of enet_host_connect
MaxEndings == setting.endings               \* bound: disconnects by the application and timeouts
MaxRestarts == setting.restarts             \* bound: hosts that are created anew on their address
MaxConfigures == setting.configures         \* bound: calls of enet_peer_throttle_configure
MaxPackets == setting.packets               \* bound: packets that are sent
MaxResends == setting.resends               \* bound: commands that are sent again after a timeout
MaxAnswers == setting.answers               \* bound: slots that are given to the same CONNECT

Hosts == {1, 2}
Other(h) == 3 - h
Slots == 1 .. setting.peerCount             \* host->peers

NoSlot == 0                         \* ENET_PROTOCOL_MAXIMUM_PEER_ID
NoSession == 255
Sessions == 0 .. SessionCount - 1
Throttles == {0, 1}                 \* packetThrottleInterval and its like; 0 stands for the defaults

\* A connection is known by its connect id and by which answer to the CONNECT it comes from.
\* "before" is the one that ended here last with its other end known: these two fields are
\* not in the code, they are what the properties speak of.
Fresh == [state |-> "DISCONNECTED", connectID |-> 0, outgoingPeerID |-> NoSlot,
          incomingSession |-> NoSession, outgoingSession |-> NoSession, number |-> 0,
          acks |-> {}, queue |-> << >>, sent |-> {}, throttle |-> 0, answer |-> 0,
          before |-> <<0, 0>>]
Connection(p) == <<p.connectID, p.answer>>

Init ==
    /\ setting \in Settings
    /\ peers = [h \in Hosts |-> [i \in Slots |-> Fresh]]
    /\ net = {}
    /\ done = [connects |-> 0, endings |-> 0, restarts |-> 0, configures |-> 0, packets |-> 0,
               resends |-> 0]
    /\ agreed = {}
    /\ answers = [c \in 1 .. MaxConnects |-> 0]

\* The session ids outlive a connection.
Reset(p) ==
    [Fresh EXCEPT !.incomingSession = p.incomingSession, !.outgoingSession = p.outgoingSession,
                  !.before = IF p.outgoingPeerID = NoSlot THEN p.before ELSE Connection(p)]

ResetQueues(p) == [p EXCEPT !.acks = {}, !.queue = << >>, !.sent = {}]

\* A reliable command of channel 0xFF gets the next number of the peer.
Queue(p, c) ==
    [p EXCEPT !.number = @ + 1, !.queue = Append(@, [c EXCEPT !.number = p.number + 1])]

Command(kind) == [kind |-> kind, number |-> 0, answers |-> 0, connectID |-> 0, peerID |-> NoSlot,
                  incomingSession |-> NoSession, outgoingSession |-> NoSession,
                  throttle |-> 0, answer |-> 0]

-----------------------------------------------------------------------------
(* The application.                                                        *)

Free(slots) == {i \in Slots : slots[i].state = "DISCONNECTED"}

Connect(h) ==
    /\ h \in Callers
    /\ done.connects < MaxConnects
    /\ Free(peers[h]) # {}
    /\ LET i == Min(Free(peers[h]))
           id == done.connects + 1
           p == [peers[h][i] EXCEPT !.state = "CONNECTING", !.connectID = id]
           c == [Command("connect") EXCEPT
                    !.connectID = id, !.peerID = i, !.throttle = p.throttle,
                    !.incomingSession = p.incomingSession, !.outgoingSession = p.outgoingSession]
       IN  peers' = [peers EXCEPT ![h][i] = Queue(p, c)]
    /\ done' = [done EXCEPT !.connects = @ + 1]
    /\ UNCHANGED <<net, agreed, answers>>

Datagram(h, p, commands) ==
    [from |-> h, peerID |-> p.outgoingPeerID, of |-> Connection(p),
     session |-> IF p.outgoingPeerID = NoSlot THEN NoSession ELSE p.outgoingSession,
     commands |-> commands]

\* enet_peer_disconnect_now, and enet_peer_disconnect of a peer that is not connected.
\* What is flushed for other peers is a Send of theirs.
DisconnectNow(h, i) ==
    LET p == peers[h][i]
    IN  /\ p.state # "DISCONNECTED"
        /\ done.endings < MaxEndings
        /\ net' = IF p.state \in {"ZOMBIE", "DISCONNECTING"} THEN net
                  ELSE net \cup {Datagram(h, p, <<Command("disconnect")>>)}
        /\ peers' = [peers EXCEPT ![h][i] = Reset(p)]
        /\ done' = [done EXCEPT !.endings = @ + 1]
        /\ UNCHANGED <<agreed, answers>>

\* enet_peer_disconnect of a peer that is connected: what waits and what was not yet
\* acknowledged is dropped, and a reliable DISCONNECT has to be acknowledged.
Disconnect(h, i) ==
    LET p == peers[h][i]
    IN  /\ p.state = "CONNECTED"
        /\ done.endings < MaxEndings
        /\ peers' = [peers EXCEPT ![h][i] =
                        [Queue(ResetQueues(p), Command("disconnect")) EXCEPT
                            !.state = "DISCONNECTING"]]
        /\ done' = [done EXCEPT !.endings = @ + 1]
        /\ UNCHANGED <<net, agreed, answers>>

\* Of a peer in any state.
ThrottleConfigure(h, i) ==
    /\ done.configures < MaxConfigures
    /\ \E throttle \in Throttles :
        peers' = [peers EXCEPT ![h][i] =
                    Queue([@ EXCEPT !.throttle = throttle],
                          [Command("throttle") EXCEPT !.throttle = throttle])]
    /\ done' = [done EXCEPT !.configures = @ + 1]
    /\ UNCHANGED <<net, agreed, answers>>

\* An unsequenced packet.
SendPacket(h, i) ==
    /\ peers[h][i].state = "CONNECTED"
    /\ done.packets < MaxPackets
    /\ peers' = [peers EXCEPT ![h][i].queue = Append(@, Command("packet"))]
    /\ done' = [done EXCEPT !.packets = @ + 1]
    /\ UNCHANGED <<net, agreed, answers>>

\* The process ends; another one creates a host on the same address.
Restart(h) ==
    /\ done.restarts < MaxRestarts
    /\ peers' = [peers EXCEPT ![h] = [i \in Slots |-> Fresh]]
    /\ done' = [done EXCEPT !.restarts = @ + 1]
    /\ UNCHANGED <<net, agreed, answers>>

-----------------------------------------------------------------------------
(* Sending and timeouts.                                                   *)

\* Acknowledgements first, then a command whose timeout passed, then what waits: all of it
\* under the slot and the session that are known by now.  A DISCONNECT is done with when its
\* acknowledgement goes out.
Send(h, i) ==
    \E again \in {{}} \cup {{c} : c \in peers[h][i].sent} :
        LET p == peers[h][i]
            commands == SetToSeq(p.acks) \o SetToSeq(again) \o p.queue
        IN  /\ p.state \notin {"DISCONNECTED", "ZOMBIE"}
            /\ commands # << >>
            /\ again # {} => done.resends < MaxResends
            /\ net' = net \cup {Datagram(h, p, commands)}
            /\ peers' = [peers EXCEPT ![h][i] =
                    [p EXCEPT !.acks = {}, !.queue = << >>,
                              !.sent = @ \cup {c \in Range(p.queue) : c.number > 0},
                              !.state = IF @ = "ACKNOWLEDGING_DISCONNECT" /\ p.acks # {}
                                        THEN "ZOMBIE" ELSE @]]
            /\ done' = [done EXCEPT !.resends = @ + Cardinality(again)]
            /\ UNCHANGED <<agreed, answers>>

\* A command, or a ping of a peer that is connected, was not answered for too long.
TimeOut(h, i) ==
    /\ \/ peers[h][i].state = "CONNECTED"
       \/ /\ peers[h][i].state \in {"CONNECTING", "ACKNOWLEDGING_CONNECT", "DISCONNECTING"}
          /\ peers[h][i].sent # {}
    /\ done.endings < MaxEndings
    /\ peers' = [peers EXCEPT ![h][i] = Reset(@)]
    /\ done' = [done EXCEPT !.endings = @ + 1]
    /\ UNCHANGED <<net, agreed, answers>>

\* The disconnection of a ZOMBIE is reported.
Report(h, i) ==
    /\ peers[h][i].state = "ZOMBIE"
    /\ peers' = [peers EXCEPT ![h][i] = Reset(@)]
    /\ UNCHANGED <<net, done, agreed, answers>>

-----------------------------------------------------------------------------
(* Receiving.  The handlers take and return the slots of the host, the     *)
(* peer of the datagram, and whether the datagram is done with.            *)

\* Faulty: the session id may be the one this slot used last.
NextSessionReused(asked, own) == ((IF asked = NoSession THEN own ELSE asked) + 1) % SessionCount

NextSession(asked, own) ==
    LET next == ((IF asked = NoSession THEN own ELSE asked) + 1) % SessionCount
    IN  IF next = own THEN (next + 1) % SessionCount ELSE next

\* Faulty: a CONNECT that comes again is taken for another one.
AcceptableAgain(slots, c) ==
    LET others == {i \in Slots : slots[i].state \notin {"DISCONNECTED", "CONNECTING"}}
    IN  Free(slots) # {} /\ Cardinality(others) < DuplicatePeers

Acceptable(slots, c) ==
    LET others == {i \in Slots : slots[i].state \notin {"DISCONNECTED", "CONNECTING"}}
    IN  /\ \A i \in others : slots[i].connectID # c.connectID
        /\ Free(slots) # {}
        /\ Cardinality(others) < DuplicatePeers

HandleConnect(s, c) ==
    LET i == Min(Free(s.slots))
        p == s.slots[i]
        incoming == NextSession(c.incomingSession, p.outgoingSession)
        outgoing == NextSession(c.outgoingSession, p.incomingSession)
        q == [p EXCEPT !.state = "ACKNOWLEDGING_CONNECT", !.connectID = c.connectID,
                       !.outgoingPeerID = c.peerID, !.throttle = c.throttle,
                       !.outgoingSession = incoming, !.incomingSession = outgoing,
                       !.answer = answers[c.connectID] + 1]
        verify == [Command("verify") EXCEPT
                      !.connectID = c.connectID, !.peerID = i, !.throttle = q.throttle,
                      !.incomingSession = incoming, !.outgoingSession = outgoing,
                      !.answer = q.answer]
    IN  IF s.slot = NoSlot /\ Acceptable(s.slots, c)
        THEN [s EXCEPT !.slots[i] = Queue(q, verify), !.slot = i]
        ELSE [s EXCEPT !.stop = TRUE]

RemoveSent(p, number) == [p EXCEPT !.sent = {c \in @ : c.number # number}]

\* What the application configured since the CONNECT was sent makes the answer fail, too.
Verifies(p, c) == c.connectID = p.connectID /\ c.throttle = p.throttle

HandleVerifyConnect(s, c) ==
    LET p == s.slots[s.slot]
    IN  IF p.state # "CONNECTING" THEN s
        ELSE IF Verifies(p, c)
        THEN [s EXCEPT !.slots[s.slot] =
                 [RemoveSent(p, 1) EXCEPT
                     !.state = "CONNECTED", !.outgoingPeerID = c.peerID,
                     !.incomingSession = c.incomingSession,
                     !.outgoingSession = c.outgoingSession, !.answer = c.answer]]
        ELSE [s EXCEPT !.slots[s.slot].state = "ZOMBIE", !.stop = TRUE]

Acknowledged(p, kind, number) == \E c \in p.sent : c.number = number /\ c.kind = kind

HandleAcknowledge(s, number) ==
    LET p == s.slots[s.slot]
        r == RemoveSent(p, number)
    IN  CASE p.state \in {"DISCONNECTED", "ZOMBIE"} -> s
          [] p.state = "ACKNOWLEDGING_CONNECT" /\ Acknowledged(p, "verify", number) ->
                [s EXCEPT !.slots[s.slot] = [r EXCEPT !.state = "CONNECTED"]]
          [] p.state = "DISCONNECTING" /\ Acknowledged(p, "disconnect", number) ->
                [s EXCEPT !.slots[s.slot] = Reset(r)]
          [] p.state \in {"CONNECTING", "CONNECTED", "ACKNOWLEDGING_DISCONNECT"} ->
                [s EXCEPT !.slots[s.slot] = r]
          [] OTHER -> [s EXCEPT !.slots[s.slot] = r, !.stop = TRUE]

\* A DISCONNECT that is to be acknowledged leaves a slot that does so before it is reported.
HandleDisconnect(s, c) ==
    LET p == s.slots[s.slot]
        Ends(state) == [s EXCEPT !.slots[s.slot] = [ResetQueues(p) EXCEPT !.state = state]]
    IN  CASE p.state \in {"DISCONNECTED", "ZOMBIE", "ACKNOWLEDGING_DISCONNECT"} -> s
          [] p.state = "CONNECTED" /\ c.number > 0 -> Ends("ACKNOWLEDGING_DISCONNECT")
          [] p.state = "ACKNOWLEDGING_CONNECT" -> [s EXCEPT !.slots[s.slot] = Reset(p)]
          [] OTHER -> Ends("ZOMBIE")

HandleThrottleConfigure(s, c) ==
    IF s.slots[s.slot].state = "CONNECTED" THEN [s EXCEPT !.slots[s.slot].throttle = c.throttle]
    ELSE [s EXCEPT !.stop = TRUE]

\* Packets are for a peer that is connected.
NeedsConnected(s) ==
    IF s.slots[s.slot].state = "CONNECTED" THEN s ELSE [s EXCEPT !.stop = TRUE]

Handle(s, c) ==
    IF s.stop \/ (s.slot = NoSlot /\ c.kind # "connect") THEN [s EXCEPT !.stop = TRUE]
    ELSE CASE c.kind = "connect" -> HandleConnect(s, c)
           [] c.kind = "verify" -> HandleVerifyConnect(s, c)
           [] c.kind = "ack" -> HandleAcknowledge(s, c.answers)
           [] c.kind = "disconnect" -> HandleDisconnect(s, c)
           [] c.kind = "throttle" -> HandleThrottleConfigure(s, c)
           [] c.kind = "packet" -> NeedsConnected(s)

IsAcknowledged(p, c) ==
    \/ p.state \in {"CONNECTING", "CONNECTED"}
    \/ p.state = "ACKNOWLEDGING_DISCONNECT" /\ c.kind = "disconnect"

\* A reliable command is acknowledged unless handling it failed or its peer is not up.
HandleCommand(s, c) ==
    LET r == Handle(s, c)
        ack == [Command("ack") EXCEPT !.answers = c.number]
    IN  IF ~ r.stop /\ c.number > 0 /\ IsAcknowledged(r.slots[r.slot], c)
        THEN [r EXCEPT !.slots[r.slot].acks = @ \cup {ack}]
        ELSE r

\* Faulty: the session id is not looked at.
SessionFitsAny(p, d) == TRUE

SessionFits(p, d) == p.outgoingPeerID # NoSlot => d.session = p.incomingSession

Takes(d) ==
    d.peerID # NoSlot =>
        LET p == peers[Other(d.from)][d.peerID]
        IN  p.state \notin {"DISCONNECTED", "ZOMBIE"} /\ SessionFits(p, d)

Receive(d) ==
    LET h == Other(d.from)
        s == FoldLeft(HandleCommand, [slots |-> peers[h], slot |-> d.peerID, stop |-> FALSE],
                      d.commands)
        verified == {i \in Slots : /\ peers[h][i].state = "CONNECTING"
                                   /\ s.slots[i].state = "CONNECTED"}
    IN  /\ Takes(d)
        /\ d.peerID = NoSlot => answers[d.of[1]] < MaxAnswers
        /\ peers' = [peers EXCEPT ![h] = s.slots]
        /\ agreed' = agreed \cup {peers[h][i].connectID : i \in verified}
        /\ answers' = IF d.peerID = NoSlot /\ s.slot # NoSlot
                      THEN [answers EXCEPT ![d.of[1]] = @ + 1] ELSE answers
        /\ net' = IF Duplicates THEN net ELSE net \ {d}
        /\ UNCHANGED done

Step ==
    \/ \E h \in Hosts :
        \/ Connect(h)
        \/ Restart(h)
        \/ \E i \in Slots :
            \/ DisconnectNow(h, i) \/ Disconnect(h, i) \/ ThrottleConfigure(h, i)
            \/ SendPacket(h, i) \/ Send(h, i) \/ TimeOut(h, i) \/ Report(h, i)
    \/ \E d \in net : Receive(d)

Next == Step /\ UNCHANGED setting

Spec == Init /\ [][Next]_vars

-----------------------------------------------------------------------------
(* Properties.                                                             *)

\* The other end is known.
Known == {"ACKNOWLEDGING_CONNECT", "CONNECTED", "DISCONNECTING", "ACKNOWLEDGING_DISCONNECT"}
PeerStates == {"DISCONNECTED", "CONNECTING", "ZOMBIE"} \cup Known

TypeOK ==
    /\ \A h \in Hosts, i \in Slots :
        LET p == peers[h][i]
        IN  /\ p.state \in PeerStates
            /\ p.connectID \in 0 .. MaxConnects /\ p.before[1] \in 0 .. MaxConnects
            /\ p.outgoingPeerID \in Slots \cup {NoSlot}
            /\ {p.incomingSession, p.outgoingSession} \subseteq Sessions \cup {NoSession}
            /\ p.state = "CONNECTING" \/ p.state \in Known => p.connectID > 0
            /\ p.state \in Known =>
                /\ p.outgoingPeerID # NoSlot
                /\ {p.incomingSession, p.outgoingSession} \subseteq Sessions
    /\ agreed \subseteq 1 .. MaxConnects

\* A host that is created anew starts with the same sessions, so that what is still under
\* way for the one before it can pass for its own: the other properties are about hosts
\* that stay.
Stayed == done.restarts = 0

Ends == {e \in Hosts \X Slots : peers[e[1]][e[2]].state = "CONNECTED"}

\* Both ends of a connection that is up know each other by slot, and each sends with the
\* session id that the other one looks for (protocol.c:353-363, 977-979).
EndsAgree ==
    Stayed => \A e, f \in Ends :
        LET p == peers[e[1]][e[2]]
            q == peers[f[1]][f[2]]
        IN  e[1] # f[1] /\ p.connectID = q.connectID =>
            /\ p.outgoingPeerID = f[2] /\ q.outgoingPeerID = e[2]
            /\ p.outgoingSession = q.incomingSession /\ q.outgoingSession = p.incomingSession

\* An attempt to connect has one slot of the host it is made to, however often the
\* CONNECT arrives, and whether or not a host was created anew (protocol.c:322-325).
OneSlotEach ==
    \A h \in Hosts, i, j \in Slots :
        /\ i # j /\ peers[h][i].connectID = peers[h][j].connectID
        /\ peers[h][i].connectID # 0
        => "CONNECTING" \in {peers[h][i].state, peers[h][j].state}

\* Neither end is up before the caller has taken the answer to this very attempt, and
\* with it the slot and the sessions (protocol.c:919-925, 963-979).
CallerFirst == Stayed => \A e \in Ends : peers[e[1]][e[2]].connectID \in agreed

\* A datagram of the connection that ended in this slot last is not taken for one of the
\* connection it has, once the other end of that is known: two connections that follow one
\* another in a slot never look for the same session (protocol.c:352-363, 1049-1050).  It
\* says nothing of a second answer to an old CONNECT, which is another connection and one
\* that never comes up at the caller: the session of such an answer can be the one the
\* slot looks for now, and a notice of disconnection from it ends what the slot has.
OldOnesRefused ==
    Stayed => \A d \in net :
        d.peerID # NoSlot =>
        LET p == peers[Other(d.from)][d.peerID]
        IN  Takes(d) /\ p.outgoingPeerID # NoSlot => d.of # p.before

\* The state of a slot always has what belongs to it, and a connection that is up is the
\* same connection on both sides (protocol.c:353-363, 919-925, 963-979).
Agreement == TypeOK /\ CallerFirst /\ EndsAgree
=================================================================================
