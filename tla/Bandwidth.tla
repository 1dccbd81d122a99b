------------------------------- MODULE Bandwidth -------------------------------
(***************************************************************************)
(* How a host shares its bandwidth among its peers, once in an interval:   *)
(* enet_host_bandwidth_throttle limits the packet throttle of the peers it *)
(* sends to, and tells those it receives from how much they may send.  The *)
(* loops are steps, one for each walk over the peers.  Bandwidths are what *)
(* fits in the interval that has passed.                                   *)
(***************************************************************************)
EXTENDS Integers, FiniteSets, FiniteSetsExt

CONSTANTS
    Clients,        \* the peers of the host
    ShareScale,     \* ENET_PEER_PACKET_THROTTLE_SCALE
    Deceleration,   \* packetThrottleDeceleration, and packetThrottleAcceleration
    Rates,          \* bandwidths of hosts; 0 is no limit
    Loads,          \* values of outgoingDataTotal
    MaxChanges      \* bound: connections, disconnections and changes of limits and loads

ASSUME ClientsAssumption == IsFiniteSet(Clients)
ASSUME RatesAssumption == Rates \cup Loads \subseteq Nat /\ 0 \in Rates \cap Loads
ASSUME ScaleAssumption == ShareScale \in Nat \ {0} /\ Deceleration \in Nat /\ MaxChanges \in Nat

VARIABLES
    clients,    \* host->peers
    limits,     \* the fields of the host
    share,      \* the variables of the call that is running
    changes

bandwidthVars == <<clients, limits, share, changes>>

NoLimit == 10000        \* ~0
Untold == -1

Quiet == [phase |-> "idle", bandwidth |-> 0, total |-> 0, remaining |-> 0, needs |-> FALSE,
          limit |-> 0, loads |-> [i \in Clients |-> 0]]

Down == [up |-> FALSE, incoming |-> 0, outgoing |-> 0, load |-> 0, throttle |-> ShareScale,
         limit |-> ShareScale, capped |-> FALSE, settled |-> FALSE, told |-> Untold]

Up == {i \in Clients : clients[i].up}
Total(f, S) == MapThenSumSet(LAMBDA i : f[i], S)
Incoming == [i \in Clients |-> clients[i].incoming]
Outgoing == [i \in Clients |-> clients[i].outgoing]
Loaded == [i \in Clients |-> clients[i].load]
Idling == share.phase = "idle"

NewHost(in, out) ==
    [incoming |-> in, outgoing |-> out, recalculate |-> FALSE, connected |-> 0, limited |-> 0]

BeforeConnections(in, out) ==
    /\ changes = 0
    /\ clients = [i \in Clients |-> Down]
    /\ limits = NewHost(in, out)

AfterConnections(in, out) ==
    /\ changes = MaxChanges
    /\ \E incoming, outgoing \in [Clients -> Rates], load \in [Clients -> Loads] :
        /\ \/ \A i \in Clients : outgoing[i] = 0
           \/ out = 0 /\ \A i \in Clients : incoming[i] = 0 /\ load[i] = 0
        /\ clients = [i \in Clients |->
                [Down EXCEPT !.up = TRUE, !.incoming = incoming[i],
                             !.outgoing = outgoing[i], !.load = load[i]]]
        /\ limits = [NewHost(in, out) EXCEPT
                !.recalculate = TRUE, !.connected = Cardinality(Clients),
                !.limited = Cardinality({i \in Clients : incoming[i] # 0})]

\* The host as it is after any history, or before its first connection.
BandwidthInit ==
    /\ share = Quiet
    /\ \E in, out \in Rates : BeforeConnections(in, out) \/ AfterConnections(in, out)

Change ==
    /\ Idling
    /\ changes < MaxChanges
    /\ changes' = changes + 1
    /\ UNCHANGED share

Limited(rate) == IF rate = 0 THEN 0 ELSE 1

\* enet_peer_on_connect, with the limits that the other host gave in the handshake.
OnConnect(i, in, out) ==
    /\ Change
    /\ i \notin Up
    /\ clients' = [clients EXCEPT ![i] = [Down EXCEPT !.up = TRUE, !.incoming = in, !.outgoing = out]]
    /\ limits' = [limits EXCEPT !.recalculate = TRUE, !.connected = @ + 1,
                                !.limited = @ + Limited(in)]

\* enet_peer_on_disconnect and the reset of the slot; a disconnection that was noticed, and not
\* made by the application, makes the host divide its bandwidth anew.
OnDisconnect(i, noticed) ==
    /\ Change
    /\ i \in Up
    /\ clients' = [clients EXCEPT ![i] = Down]
    /\ limits' = [limits EXCEPT !.recalculate = @ \/ noticed, !.connected = @ - 1,
                                !.limited = @ - Limited(clients[i].incoming)]

HandleBandwidthLimit(i, in, out) ==
    /\ Change
    /\ i \in Up
    /\ clients' = [clients EXCEPT ![i].incoming = in, ![i].outgoing = out]
    /\ limits' = [limits EXCEPT !.limited = @ - Limited(clients[i].incoming) + Limited(in)]

BandwidthLimit(in, out) ==
    /\ Change
    /\ limits' = [limits EXCEPT !.incoming = in, !.outgoing = out, !.recalculate = TRUE]
    /\ UNCHANGED clients

\* What is queued for a peer counts as data for it.
QueueData(i, load) ==
    /\ Change
    /\ i \in Up /\ clients[i].load < load
    /\ clients' = [clients EXCEPT ![i].load = load]
    /\ UNCHANGED limits

\* enet_peer_throttle, with a round trip that is good, bad, or measured on a steady line.
PeerThrottle(i, trip) ==
    LET c == clients[i]
    IN  /\ Change
        /\ i \in Up
        /\ clients' = [clients EXCEPT ![i].throttle =
                CASE trip = "steady" -> c.limit
                  [] trip = "good" -> Min({c.throttle + Deceleration, c.limit})
                  [] trip = "bad" -> Max({c.throttle - Deceleration, 0})]
        /\ UNCHANGED limits

NeedsAdjustment == limits.limited > 0

\* Faulty: peers without a limit do not count.
DataTotalLimited == Total(Loaded, {i \in Up : clients[i].incoming # 0})

DataTotal == Total(Loaded, Up)

Start ==
    /\ Idling
    /\ Up # {}
    /\ share' = [Quiet EXCEPT
            !.phase = "cap", !.remaining = limits.connected, !.needs = NeedsAdjustment,
            !.bandwidth = IF limits.outgoing = 0 THEN NoLimit ELSE limits.outgoing,
            !.total = IF limits.outgoing = 0 THEN NoLimit
                      ELSE DataTotal,
            !.loads = [i \in Clients |-> clients[i].load]]
    /\ UNCHANGED <<clients, limits, changes>>

Throttle ==
    IF share.total <= share.bandwidth THEN ShareScale
    ELSE (share.bandwidth * ShareScale) \div share.total

Lowered(c, limit) == [c EXCEPT !.limit = limit, !.throttle = Min({@, limit}), !.load = 0]

\* The peers that their part of the bandwidth would be too much for.
Exceeded ==
    {i \in Up : /\ clients[i].incoming # 0 /\ ~ clients[i].capped
                /\ (Throttle * clients[i].load) \div ShareScale > clients[i].incoming}

CapLimit(c) == Max({(c.incoming * ShareScale) \div c.load, 1})

Looping == share.remaining > 0 /\ share.needs

CapPass ==
    LET used == Total(Incoming, Exceeded)
    IN  /\ share.phase = "cap" /\ Looping
        /\ clients' = [i \in Clients |->
                IF i \in Exceeded
                THEN [Lowered(clients[i], CapLimit(clients[i])) EXCEPT !.capped = TRUE]
                ELSE clients[i]]
        /\ share' = [share EXCEPT !.needs = Exceeded # {},
                                  !.remaining = @ - Cardinality(Exceeded),
                                  !.bandwidth = @ - used, !.total = @ - used]
        /\ UNCHANGED <<limits, changes>>

\* The rest of the peers have one limit.
Rest ==
    /\ share.phase = "cap" /\ ~ Looping
    /\ clients' = [i \in Clients |->
            IF i \in Up /\ ~ clients[i].capped THEN Lowered(clients[i], Throttle)
            ELSE clients[i]]
    /\ share' = [share EXCEPT !.phase = "divide", !.remaining = limits.connected, !.needs = TRUE,
                              !.bandwidth = limits.incoming]
    /\ UNCHANGED <<limits, changes>>

Portion == share.bandwidth \div share.remaining

\* Peers that do not use an equal portion.
Modest == {i \in Up : ~ clients[i].settled
                      /\ (clients[i].outgoing = 0 \/ clients[i].outgoing < Portion)}

Dividing == limits.recalculate /\ limits.incoming # 0 /\ Looping

Left(S) == share.bandwidth - Total(Outgoing, S)

DividePass ==
    /\ share.phase = "divide" /\ Dividing
    /\ clients' = [i \in Clients |-> [clients[i] EXCEPT !.settled = @ \/ i \in Modest]]
    /\ share' = [share EXCEPT !.needs = Modest # {}, !.limit = Portion,
                              !.remaining = @ - Cardinality(Modest), !.bandwidth = Left(Modest)]
    /\ UNCHANGED <<limits, changes>>

\* BANDWIDTH_LIMIT goes out to every peer; the epochs are those of this call.
Tell ==
    /\ share.phase = "divide" /\ ~ Dividing
    /\ clients' = [i \in Clients |->
            [clients[i] EXCEPT
                !.capped = FALSE, !.settled = FALSE,
                !.told = IF ~ limits.recalculate \/ i \notin Up THEN @
                         ELSE IF clients[i].settled THEN clients[i].outgoing ELSE share.limit]]
    /\ limits' = [limits EXCEPT !.recalculate = FALSE]
    /\ share' = Quiet
    /\ UNCHANGED changes

BandwidthNext ==
    \/ \E in, out \in Rates :
        \/ BandwidthLimit(in, out)
        \/ \E i \in Clients : OnConnect(i, in, out) \/ HandleBandwidthLimit(i, in, out)
    \/ \E i \in Clients :
        \/ \E noticed \in BOOLEAN : OnDisconnect(i, noticed)
        \/ \E load \in Loads : QueueData(i, load)
        \/ \E trip \in {"steady", "good", "bad"} : PeerThrottle(i, trip)
    \/ Start \/ CapPass \/ Rest \/ DividePass \/ Tell

BandwidthSpec == BandwidthInit /\ [][BandwidthNext]_bandwidthVars

-----------------------------------------------------------------------------
(* Properties.                                                             *)

BandwidthTypeOK ==
    /\ \A i \in Clients :
        /\ {clients[i].throttle, clients[i].limit} \subseteq 0 .. ShareScale
        /\ {clients[i].incoming, clients[i].outgoing} \subseteq Rates
        /\ clients[i].load \in Loads /\ clients[i].told \in Nat \cup {Untold}
    /\ {share.bandwidth, share.total, share.remaining, share.limit} \subseteq Nat
    /\ changes \in 0 .. MaxChanges

\* The host knows how many of its peers have limits, through every change of them: the
\* loop over the peers is not entered without (peer.c:353-373, protocol.c:780-787).
LimitsCounted ==
    /\ limits.connected = Cardinality(Up)
    /\ limits.limited = Cardinality({i \in Up : clients[i].incoming # 0})

\* The throttle never gets above its limit, whichever of the two changes (peer.c:61-95,
\* host.c:404-441).
ThrottleLimited == \A i \in Up : clients[i].throttle <= clients[i].limit

Shared == share.phase = "divide"
Sent == [i \in Clients |-> clients[i].limit * share.loads[i]]
Told == [i \in Clients |-> IF clients[i].told = Untold THEN 0 ELSE clients[i].told]

\* What the limits let through in the next interval fits in the bandwidth of the host, but
\* for peers that are left the smallest limit there is (host.c:372-441).
HostNotOverwhelmed ==
    Shared /\ limits.outgoing # 0 =>
    Total(Sent, {i \in Up : clients[i].limit > 1}) <= limits.outgoing * ShareScale

\* Nor is any peer sent more than it can take, though the limits depend on each other
\* (host.c:379-420).
PeerNotOverwhelmed ==
    Shared => \A i \in Up :
        \/ clients[i].incoming = 0
        \/ clients[i].limit = 1
        \/ Sent[i] \div ShareScale <= clients[i].incoming

\* What the peers are told adds up to no more than the host can receive, those without a
\* limit of their own aside (host.c:455-483).
PortionsFit ==
    Idling /\ ~ limits.recalculate /\ limits.incoming # 0 =>
    Total(Told, {i \in Up : clients[i].outgoing # 0}) <= limits.incoming

\* Neither the host nor a peer is overwhelmed in either direction, by limits that rest on
\* counters kept right and hold the throttles down (host.c:338-503, peer.c:353-373).
NotOverwhelmed ==
    /\ LimitsCounted /\ ThrottleLimited
    /\ HostNotOverwhelmed /\ PeerNotOverwhelmed /\ PortionsFit

\* The documentation of enet_host_create: "ENet will strategically drop packets on specific
\* sides of a connection between hosts to ensure the host's bandwidth is not overwhelmed"
\* (host.c:22-23).  A peer that is told 0 may send without limit.
NoneUnlimited ==
    limits.incoming # 0 => \A i \in Up : clients[i].told # 0
==============================================================================
