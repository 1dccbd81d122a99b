------------------------------ MODULE SenderQueue ------------------------------
(***************************************************************************)
(* What a connected peer still has to send: the two outgoing lists, the    *)
(* list of reliable commands sent and not acknowledged, their timeouts,    *)
(* the flow control window, the reliable windows of the channels and the   *)
(* throttle that drops unreliable packets.  Time is host->serviceTime.     *)
(*                                                                         *)
(* The remote host acknowledges any command it was sent, at any time, or   *)
(* nothing.                                                                *)
(***************************************************************************)
EXTENDS Integers, FiniteSets, Sequences, SequencesExt

CONSTANTS
    Channels,        \* the channels of the peer, numbers below 255
    WindowSize,      \* ENET_PEER_RELIABLE_WINDOW_SIZE, 0x1000
    Windows,         \* ENET_PEER_RELIABLE_WINDOWS, 16
    FreeWindows,     \* ENET_PEER_FREE_RELIABLE_WINDOWS, 8
    Capacity,        \* peer->mtu: what a datagram holds, a command taking 1 + its data
    FlowWindow,      \* peer->windowSize
    Scale,           \* ENET_PEER_PACKET_THROTTLE_SCALE, 32
    ThrottleStep,    \* ENET_PEER_PACKET_THROTTLE_COUNTER, 7
    Settings         \* parameters of the peer, inputs and bounds, a record for each run

Control == 255       \* channelID 0xFF

Kind == {"reliable", "unreliable", "unsequenced", "ping"}
Packet == [kind : Kind, channel : Channels \cup {Control}, lengths : Seq(Nat)]

ASSUME ChannelsAssumption == Channels \subseteq 0 .. Control - 1
ASSUME WindowsAssumption ==
    /\ {WindowSize, Windows, FreeWindows} \subseteq Nat \ {0}
    /\ FreeWindows + 2 <= Windows
ASSUME FlowAssumption ==
    /\ {Capacity, FlowWindow, Scale, ThrottleStep} \subseteq Nat \ {0}
ASSUME SettingsAssumption ==
    \A s \in Settings :
        /\ s.throttles \subseteq 0 .. Scale
        /\ s.roundTrips \subseteq Nat \ {0}
        /\ {s.timeoutLimit, s.timeoutMinimum, s.timeoutMaximum, s.pingInterval}
             \subseteq Nat \ {0}
        \* enet_peer_send splits a packet so that each part fits a datagram of its own.
        /\ \A p \in s.packets : p \in Packet /\ \A i \in DOMAIN p.lengths : p.lengths[i] < Capacity
        \* A packet goes to a channel of the peer, a ping has no data and no channel.
        /\ \A p \in s.packets : IF p.kind = "ping" THEN p.channel = Control /\ p.lengths = <<0>>
                                ELSE p.channel \in Channels
        /\ s.prompt \in BOOLEAN /\ s.maxTime \in Nat \ {0} /\ s.maxQueued \in Nat

VARIABLES
    now,        \* host->serviceTime
    peer,       \* the ENetPeer
    pass,       \* the place in send_outgoing_commands: idle, service or flush
    serviced,   \* the host was serviced at this time, or need not be
    setting     \* the one of Settings that holds

vars == <<now, peer, pass, serviced, setting>>

Throttles == setting.throttles            \* values peer->packetThrottle takes
RoundTrips == setting.roundTrips          \* values roundTripTime + 4 * roundTripTimeVariance takes
TimeoutLimit == setting.timeoutLimit
TimeoutMinimum == setting.timeoutMinimum
TimeoutMaximum == setting.timeoutMaximum
PingInterval == setting.pingInterval
Packets == setting.packets                \* what the application may send
Prompt == setting.prompt                  \* the host is serviced at least once a unit of time
MaxTime == setting.maxTime                \* bound: last time looked at
MaxQueued == setting.maxQueued            \* bound: commands queued

-----------------------------------------------------------------------------
(* Commands.                                                               *)

Never == 0                  \* earliestTimeout when there is none
Modulus == WindowSize * Windows

Reliable(c) == c.kind \in {"reliable", "ping"}      \* COMMAND_FLAG_ACKNOWLEDGE
HasPacket(c) == c.kind # "ping"
Window(c) == c.number \div WindowSize
Numbers(c) == <<c.number, c.unreliable>>

\* Faulty: every part of an unreliable packet gets a number of its own.
SetupEachPart(p, c, first) ==
    IF c.kind = "unreliable"
    THEN [peer |-> [p EXCEPT !.unreliable[c.channel] = @ + 1],
          number |-> p.number[c.channel],
          unreliable |-> p.unreliable[c.channel] + 1]
    ELSE IF c.kind = "unsequenced"
    THEN [peer |-> p, number |-> 0, unreliable |-> 0]
    ELSE LET n == (p.number[c.channel] + 1) % Modulus
         IN  [peer |-> [p EXCEPT !.number[c.channel] = n, !.unreliable[c.channel] = 0],
              number |-> n, unreliable |-> 0]

\* The numbers a command takes.  Only the first part of an unreliable packet
\* counts, and unsequenced packets all have the numbers 0 and 0.
Setup(p, c, first) ==
    IF c.kind = "unreliable"
    THEN LET u == p.unreliable[c.channel] + (IF first THEN 1 ELSE 0)
         IN  [peer |-> [p EXCEPT !.unreliable[c.channel] = u],
              number |-> p.number[c.channel], unreliable |-> u]
    ELSE IF c.kind = "unsequenced"
    THEN [peer |-> p, number |-> 0, unreliable |-> 0]
    ELSE LET n == (p.number[c.channel] + 1) % Modulus
         IN  [peer |-> [p EXCEPT !.number[c.channel] = n, !.unreliable[c.channel] = 0],
              number |-> n, unreliable |-> 0]

\* setup_outgoing_command for the i-th part of packet k.  A queue time is one
\* more than the one before.
QueuePart(p, k, i, id) ==
    LET s == Setup(p, k, i = 1)
        time == p.totalQueued + 1
        c == [kind |-> k.kind, channel |-> k.channel, length |-> k.lengths[i],
              packet |-> id, first |-> i = 1, number |-> s.number,
              unreliable |-> s.unreliable, queueTime |-> time, attempts |-> 0,
              sentTime |-> 0, timeout |-> 0, since |-> 0]
        q == [s.peer EXCEPT !.totalQueued = time]
    IN  IF Reliable(c) /\ HasPacket(c)
        THEN [q EXCEPT !.sendReliable = Append(@, c)]
        ELSE [q EXCEPT !.outgoing = Append(@, c)]

\* enet_peer_send, and enet_peer_ping and the like for commands without packet.
QueuePacket(p, k) ==
    FoldLeftDomain(LAMBDA acc, i : QueuePart(acc, k, i, p.totalQueued + 1), p, k.lengths)

Ping == [kind |-> "ping", channel |-> Control, lengths |-> <<0>>]

-----------------------------------------------------------------------------
(* Timeouts.                                                               *)

Expired(c) == now - c.sentTime >= c.timeout

\* 1 << (sendAttempts - 1)
Backoff(c) == 2 ^ (c.attempts - 1)

Earlier(c, p) ==
    IF p.earliest = Never \/ c.sentTime < p.earliest THEN c.sentTime ELSE p.earliest

\* Faulty: the limit of attempts has to be reached in either case.
GivesUpAtLimit(c, earliest) ==
    /\ earliest # Never
    /\ Backoff(c) >= TimeoutLimit
    /\ now - earliest >= TimeoutMinimum

GivesUp(c, earliest) ==
    /\ earliest # Never
    /\ \/ now - earliest >= TimeoutMaximum
       \/ Backoff(c) >= TimeoutLimit /\ now - earliest >= TimeoutMinimum

\* Faulty: a command without packet is not queued again.
RetryPackets(s, c) ==
    LET r == [c EXCEPT !.timeout = 2 * @]
    IN  IF HasPacket(c)
        THEN [s EXCEPT !.sendReliable = Append(@, r), !.inTransit = @ - c.length]
        ELSE s

\* The command goes to the front of its list, behind those retried before it in
\* this pass.
Retry(s, c) ==
    LET r == [c EXCEPT !.timeout = 2 * @]
    IN  IF HasPacket(c)
        THEN [s EXCEPT !.sendReliable = Append(@, r), !.inTransit = @ - c.length]
        ELSE [s EXCEPT !.outgoing = Append(@, r)]

\* The front of the list has gone, what is behind it is the front now.
NextTimeout(s, i, sent) ==
    IF s.sent = << >> /\ i < Len(sent)
    THEN [s EXCEPT !.nextTimeout = sent[i + 1].sentTime + sent[i + 1].timeout]
    ELSE s

\* One turn of the loop of check_timeouts, at the i-th sent command; s has what
\* stays in sent and, in the other two lists, only what is retried.
CheckTimeout(s, i, sent) ==
    LET c == sent[i]
        earliest == Earlier(c, s)
    IN  IF s.state # "connected" THEN s
        ELSE IF ~ Expired(c) THEN [s EXCEPT !.sent = Append(@, c)]
        ELSE IF GivesUp(c, earliest) THEN [s EXCEPT !.state = "timed out"]
        ELSE NextTimeout(Retry([s EXCEPT !.earliest = earliest], c), i, sent)

\* Faulty: what is retried waits behind what was never sent.
CheckTimeoutsLast(p) ==
    LET s == FoldLeftDomain(LAMBDA acc, i : CheckTimeout(acc, i, p.sent),
                            [p EXCEPT !.sent = << >>, !.outgoing = << >>,
                                      !.sendReliable = << >>],
                            p.sent)
    IN  IF s.state # "connected"
        THEN [s EXCEPT !.sent = << >>, !.outgoing = << >>, !.sendReliable = << >>]
        ELSE [s EXCEPT !.outgoing = p.outgoing \o @,
                       !.sendReliable = p.sendReliable \o @]

\* notify_disconnect leads to a reset of the peer, which empties the lists.
CheckTimeouts(p) ==
    LET s == FoldLeftDomain(LAMBDA acc, i : CheckTimeout(acc, i, p.sent),
                            [p EXCEPT !.sent = << >>, !.outgoing = << >>,
                                      !.sendReliable = << >>],
                            p.sent)
    IN  IF s.state # "connected"
        THEN [s EXCEPT !.sent = << >>, !.outgoing = << >>, !.sendReliable = << >>]
        ELSE [s EXCEPT !.outgoing = @ \o p.outgoing,
                       !.sendReliable = @ \o p.sendReliable]

-----------------------------------------------------------------------------
(* Filling a datagram.  A walk w has the two lists split into what it      *)
(* passed over (kept) and what is still ahead of it.                       *)

Walk(p) ==
    [peer |-> [p EXCEPT !.outgoing = << >>, !.sendReliable = << >>],
     outgoing |-> p.outgoing, sendReliable |-> p.sendReliable,
     wrap |-> FALSE, canPing |-> TRUE, size |-> 0, full |-> FALSE,
     datagram |-> << >>, dropped |-> << >>]

\* The next command is the one queued first.
TakesReliable(w) ==
    /\ w.sendReliable # << >>
    /\ \/ w.outgoing = << >>
       \/ Head(w.sendReliable).queueTime < Head(w.outgoing).queueTime

Take(w) ==
    IF TakesReliable(w) THEN [w EXCEPT !.sendReliable = Tail(@)]
    ELSE [w EXCEPT !.outgoing = Tail(@)]

\* Faulty: the list is chosen by the kind of command alone.
KeepReliable(w, c) ==
    IF Reliable(c)
    THEN [w EXCEPT !.peer.sendReliable = Append(@, c)]
    ELSE [w EXCEPT !.peer.outgoing = Append(@, c)]

Keep(w, c) ==
    IF Reliable(c) /\ HasPacket(c)
    THEN [w EXCEPT !.peer.sendReliable = Append(@, c)]
    ELSE [w EXCEPT !.peer.outgoing = Append(@, c)]

\* The reliable packets that are left stay for another pass.
HoldReliable(w) ==
    [w EXCEPT !.peer.sendReliable = @ \o w.sendReliable, !.sendReliable = << >>]

\* The windows that have to be free before window n is begun.
Ahead(n) == {(n + i) % Windows : i \in 0 .. FreeWindows + 1}

\* A command that begins a window waits while the window before is full or one of
\* those ahead is in use.
WindowWrap(p, c) ==
    LET n == Window(c)
    IN  /\ c.attempts < 1
        /\ c.number % WindowSize = 0
        /\ \/ p.windows[c.channel][(n + Windows - 1) % Windows] >= WindowSize
           \/ \E m \in Ahead(n) : p.windows[c.channel][m] > 0

Larger(a, b) == IF a < b THEN b ELSE a

FlowLimit(p) == Larger((p.throttle * FlowWindow) \div Scale, Capacity)

FlowBlocked(p, c) == HasPacket(c) /\ p.inTransit + c.length > FlowLimit(p)

Fits(w, c) == w.size + 1 + c.length <= Capacity

Put(w, c) ==
    [w EXCEPT !.datagram = Append(@, c), !.size = @ + 1 + c.length]

\* Faulty: nextTimeout follows every command that is sent.
SendReliableLatest(w, c) ==
    LET p == w.peer
        timeout == IF c.timeout = 0 THEN p.roundTrip ELSE c.timeout
        r == [c EXCEPT !.attempts = @ + 1, !.timeout = timeout, !.sentTime = now,
                       !.since = IF @ = 0 THEN now ELSE @]
        first == c.channel \in Channels /\ c.attempts < 1
        q == [p EXCEPT
                !.windows = IF first THEN [p.windows EXCEPT ![c.channel][Window(c)] = @ + 1] ELSE @,
                !.nextTimeout = now + timeout,
                !.sent = Append(@, r),
                !.inTransit = @ + c.length]
    IN  Put([w EXCEPT !.peer = q], r)

\* The first attempt takes its place in the window of the channel.
SendReliable(w, c) ==
    LET p == w.peer
        timeout == IF c.timeout = 0 THEN p.roundTrip ELSE c.timeout
        r == [c EXCEPT !.attempts = @ + 1, !.timeout = timeout, !.sentTime = now,
                       !.since = IF @ = 0 THEN now ELSE @]
        first == c.channel \in Channels /\ c.attempts < 1
        q == [p EXCEPT
                !.windows = IF first THEN [p.windows EXCEPT ![c.channel][Window(c)] = @ + 1] ELSE @,
                !.nextTimeout = IF p.sent = << >> THEN now + timeout ELSE @,
                !.sent = Append(@, r),
                !.inTransit = @ + c.length]
    IN  Put([w EXCEPT !.peer = q], r)

\* The commands behind c, in the same list, that share its numbers.
SameNumbers(w, c) ==
    LET n == CHOOSE n \in 0 .. Len(w.outgoing) :
                /\ \A i \in 1 .. n : Numbers(w.outgoing[i]) = Numbers(c)
                /\ n < Len(w.outgoing) => Numbers(w.outgoing[n + 1]) # Numbers(c)
    IN  SubSeq(w.outgoing, 1, n)

\* What is dropped gives its packet back; a command without one has none to give.
Drop(w, c) ==
    LET all == <<c>> \o SameNumbers(w, c)
        v == [w EXCEPT !.outgoing = SubSeq(@, Len(all), Len(@)),
                       !.dropped = Append(@, all)]
    IN  IF \A i \in DOMAIN all : HasPacket(all[i]) THEN v
        ELSE [v EXCEPT !.peer.state = "crashed"]

\* The throttle decides at the first part of a packet.
SendUnreliable(w, c) ==
    LET counter == (w.peer.counter + ThrottleStep) % Scale
        v == IF c.first THEN [w EXCEPT !.peer.counter = counter] ELSE w
    IN  IF c.first /\ counter > w.peer.throttle THEN Drop(v, c) ELSE Put(v, c)

\* One turn of the loop of check_outgoing_commands.
CheckCommand(w) ==
    LET c == IF TakesReliable(w) THEN Head(w.sendReliable) ELSE Head(w.outgoing)
        v == Take(w)
        u == IF Reliable(c) THEN [v EXCEPT !.canPing = FALSE] ELSE v
    IN  IF Reliable(c) /\ c.channel \in Channels /\ w.wrap THEN Keep(v, c)
        ELSE IF Reliable(c) /\ c.channel \in Channels /\ WindowWrap(w.peer, c)
             THEN HoldReliable(Keep([v EXCEPT !.wrap = TRUE], c))
        ELSE IF Reliable(c) /\ FlowBlocked(w.peer, c) THEN HoldReliable(Keep(v, c))
        ELSE IF ~ Fits(w, c)
             THEN [Keep(u, c) EXCEPT !.full = TRUE, !.peer.continue = TRUE]
        ELSE IF Reliable(c) THEN SendReliable(u, c)
        ELSE SendUnreliable(v, c)

\* check_outgoing_commands on from w, a turn for every command there is.
CheckOutgoing(w) ==
    LET end == FoldLeft(LAMBDA acc, c : IF acc.full \/ acc.peer.state # "connected"
                                             \/ acc.outgoing \o acc.sendReliable = << >>
                                        THEN acc ELSE CheckCommand(acc),
                        w, w.outgoing \o w.sendReliable)
    IN  HoldReliable([end EXCEPT !.peer.outgoing = @ \o end.outgoing, !.outgoing = << >>])

\* A quiet peer with nothing in transit is pinged.
WantsPing(w) ==
    /\ w.peer.state = "connected" /\ w.canPing
    /\ w.peer.sent = << >>
    /\ now - w.peer.lastReceive >= PingInterval
    /\ w.size < Capacity

PingIfQuiet(w) ==
    IF ~ WantsPing(w) THEN w
    ELSE LET p == QueuePacket(w.peer, Ping)
         IN  CheckOutgoing([w EXCEPT !.peer = [p EXCEPT !.outgoing = << >>, !.sendReliable = << >>],
                                     !.outgoing = p.outgoing, !.sendReliable = p.sendReliable,
                                     !.wrap = FALSE, !.full = FALSE])

\* The turn of the send pass that serves this peer, with or without timeouts.
SendPass(p, checkForTimeouts) ==
    LET q == [p EXCEPT !.continue = FALSE]
        r == IF checkForTimeouts /\ p.sent # << >> /\ now >= p.nextTimeout
             THEN CheckTimeouts(q) ELSE q
    IN  IF r.state # "connected" THEN Walk(r) ELSE PingIfQuiet(CheckOutgoing(Walk(r)))

-----------------------------------------------------------------------------
(* Acknowledgements.                                                       *)

Matches(list, number, channel) ==
    {i \in DOMAIN list : list[i].number = number /\ list[i].channel = channel}

\* The first of a list with these numbers, 0 if there is none.
FindSent(list, number, channel) ==
    LET M == Matches(list, number, channel)
    IN  IF M = {} THEN 0 ELSE CHOOSE i \in M : \A j \in M : i <= j

\* Among the commands to be sent again the search passes over unreliable ones and
\* ends at the first reliable one that was never sent.
FindRetried(list, number, channel) ==
    LET M == {i \in Matches(list, number, channel) :
                /\ Reliable(list[i])
                /\ \A j \in 1 .. i : Reliable(list[j]) => list[j].attempts >= 1}
    IN  IF M = {} THEN 0 ELSE CHOOSE i \in M : \A j \in M : i <= j

\* The window of a channel loses the command.
Release(p, number, channel) ==
    LET n == number \div WindowSize
    IN  IF channel \in Channels /\ p.windows[channel][n] > 0
        THEN [p EXCEPT !.windows[channel][n] = @ - 1] ELSE p

NextFront(p) ==
    IF p.sent = << >> THEN p
    ELSE [p EXCEPT !.nextTimeout = Head(p.sent).sentTime + Head(p.sent).timeout]

\* Faulty: a command that waits to be sent again is taken out of transit once more.
RemoveSentTwice(p, number, channel) ==
    LET i == FindSent(p.sent, number, channel)
        j == FindRetried(p.outgoing, number, channel)
        k == FindRetried(p.sendReliable, number, channel)
        q == Release(p, number, channel)
    IN  IF i # 0
        THEN NextFront([q EXCEPT !.sent = RemoveAt(@, i), !.inTransit = @ - p.sent[i].length])
        ELSE IF j # 0 THEN NextFront([q EXCEPT !.outgoing = RemoveAt(@, j)])
        ELSE IF k # 0
        THEN NextFront([q EXCEPT !.sendReliable = RemoveAt(@, k),
                             !.inTransit = @ - p.sendReliable[k].length])
        ELSE p

\* remove_sent_reliable_command: only what is in the sent list counts as in transit.
RemoveSent(p, number, channel) ==
    LET i == FindSent(p.sent, number, channel)
        j == FindRetried(p.outgoing, number, channel)
        k == FindRetried(p.sendReliable, number, channel)
        q == Release(p, number, channel)
    IN  IF i # 0
        THEN NextFront([q EXCEPT !.sent = RemoveAt(@, i), !.inTransit = @ - p.sent[i].length])
        ELSE IF j # 0 THEN NextFront([q EXCEPT !.outgoing = RemoveAt(@, j)])
        ELSE IF k # 0 THEN NextFront([q EXCEPT !.sendReliable = RemoveAt(@, k)])
        ELSE p

\* Faulty: the time of the first timeout is kept.
HeardKeeping(p, roundTrip, throttle) ==
    [p EXCEPT !.roundTrip = roundTrip, !.throttle = throttle, !.lastReceive = now]

\* What any acknowledgement changes before its command is looked for.
Heard(p, roundTrip, throttle) ==
    [p EXCEPT !.roundTrip = roundTrip, !.throttle = throttle, !.lastReceive = now,
              !.earliest = Never]

-----------------------------------------------------------------------------
(* Actions.                                                                *)

Connected == peer.state = "connected" /\ pass = "idle"

Queue(k) ==
    /\ Connected
    /\ peer.totalQueued + Len(k.lengths) <= MaxQueued
    /\ peer' = QueuePacket(peer, k)
    /\ UNCHANGED <<now, pass, serviced>>

\* One datagram of a call; another pass follows while commands are left that only
\* did not fit.
Transmit(checkForTimeouts, caller) ==
    LET w == SendPass(peer, checkForTimeouts)
    IN  /\ peer' = w.peer
        /\ pass' = IF w.peer.continue /\ w.peer.state = "connected" THEN caller ELSE "idle"
        /\ serviced' = (serviced \/ checkForTimeouts)
        /\ UNCHANGED now

Service == Connected /\ Transmit(TRUE, "service")
Flush == Connected /\ Transmit(FALSE, "flush")

Continue ==
    /\ pass # "idle"
    /\ peer.state = "connected"
    /\ Transmit(pass = "service", pass)

Sent(p) == ToSet(p.sent) \cup {c \in ToSet(p.outgoing) \cup ToSet(p.sendReliable) : c.attempts > 0}

\* An acknowledgement of one of the commands sent.
Acknowledge(c, roundTrip, throttle) ==
    /\ Connected
    /\ peer' = RemoveSent(Heard(peer, roundTrip, throttle), c.number, c.channel)
    /\ UNCHANGED <<now, pass, serviced>>

\* The acknowledgement of a command that was acknowledged before.
AcknowledgeAgain ==
    /\ Connected
    /\ peer' = Heard(peer, peer.roundTrip, peer.throttle)
    /\ peer' # peer
    /\ UNCHANGED <<now, pass, serviced>>

Tick ==
    /\ Connected
    /\ now < MaxTime
    /\ serviced
    /\ now' = now + 1
    /\ serviced' = ~ Prompt
    /\ UNCHANGED <<peer, pass>>

Init ==
    /\ setting \in Settings
    /\ now = 1
    /\ pass = "idle"
    /\ serviced = ~ Prompt
    /\ \E roundTrip \in RoundTrips, throttle \in Throttles :
        peer = [state |-> "connected", outgoing |-> << >>, sendReliable |-> << >>,
                sent |-> << >>, number |-> [c \in Channels \cup {Control} |-> 0],
                unreliable |-> [c \in Channels \cup {Control} |-> 0],
                windows |-> [c \in Channels |-> [n \in 0 .. Windows - 1 |-> 0]],
                totalQueued |-> 0, nextTimeout |-> 0, earliest |-> Never, inTransit |-> 0,
                throttle |-> throttle, counter |-> 0, roundTrip |-> roundTrip,
                lastReceive |-> 1, continue |-> FALSE]

Step ==
    \/ \E k \in Packets : Queue(k)
    \/ Service
    \/ Flush
    \/ Continue
    \/ \E c \in Sent(peer), roundTrip \in RoundTrips, throttle \in Throttles :
        Acknowledge(c, roundTrip, throttle)
    \/ AcknowledgeAgain
    \/ Tick

Next == Step /\ UNCHANGED setting

Spec == Init /\ [][Next]_vars
-----------------------------------------------------------------------------
(* Properties.                                                             *)

Lists(p) == <<p.outgoing, p.sendReliable, p.sent>>
Listed(p) == p.outgoing \o p.sendReliable \o p.sent

\* Every variable keeps its type, and what takes part in a timeout was sent before.
TypeOK ==
    /\ setting \in Settings
    /\ now \in 1 .. MaxTime
    /\ pass \in {"idle", "service", "flush"} /\ serviced \in BOOLEAN
    /\ peer.state \in {"connected", "timed out", "crashed"}
    /\ \A c \in ToSet(peer.sent) : Reliable(c) /\ c.attempts > 0 /\ c.timeout > 0
    /\ \A c \in ToSet(peer.sendReliable) : Reliable(c) /\ HasPacket(c)
    /\ \A c \in ToSet(Listed(peer)) : c.sentTime \in 0 .. now /\ c.queueTime \in 1 .. peer.totalQueued
    /\ peer.throttle \in 0 .. Scale /\ peer.counter \in 0 .. Scale - 1

\* What is in transit is counted right, however often commands timed out and in whichever
\* list an acknowledgement found them: reliableDataInTransit is the data of the commands in
\* the sent list and stays within the window, or one datagram where that is larger, and
\* each window of each channel counts its commands that were sent and not acknowledged
\* (protocol.c:251-270, 1390, 1468-1518).
InTransitCounted ==
    peer.state = "connected" =>
        /\ peer.inTransit = FoldLeft(LAMBDA acc, c : acc + c.length, 0, peer.sent)
        /\ peer.inTransit <= Larger(FlowWindow, Capacity)
        /\ \A ch \in Channels : \A n \in 0 .. Windows - 1 :
              peer.windows[ch][n] =
                  Cardinality({c \in Sent(peer) : c.channel = ch /\ Window(c) = n})

\* nextTimeout is the timeout of the first sent command at any time, though several
\* places change the list (protocol.c:289, 1402, 1509).  A pass that
\* looks only at nextTimeout thus never sleeps through that command's timeout.
NextTimeoutOfFirst ==
    peer.sent # << >> => peer.nextTimeout = Head(peer.sent).sentTime + Head(peer.sent).timeout

\* An acknowledgement finds the command it is for in whichever of the three lists it
\* waits (protocol.c:229-249), and takes away no other.
Findable ==
    \A c \in Sent(peer) :
        ToSet(Listed(RemoveSent(peer, c.number, c.channel))) = ToSet(Listed(peer)) \ {c}

\* What the next pass, with or without timeouts, makes of the peer.
Passes == IF peer.state = "connected" THEN {SendPass(peer, check) : check \in BOOLEAN} ELSE {}

Waiting(p) == {c.queueTime : c \in {d \in ToSet(Listed(p)) : Reliable(d)}}

\* A pass loses no reliable command: each is in one of the three lists after it, once
\* (protocol.c:1361-1404, 1424-1582).
PassKeepsReliable ==
    [][(Service \/ Flush \/ Continue) /\ peer'.state = "connected" =>
        /\ Waiting(peer) \subseteq Waiting(peer')
        /\ Len(Listed(peer')) = Cardinality(ToSet(Listed(peer')))]_vars

\* The throttle drops a packet as a whole, so that no part of it is sent or stays in the
\* queue (protocol.c:1527-1552), and none when it is fully open (peer.c:27-29).
WholePackets ==
    \A w \in Passes :
        /\ \A d \in ToSet(FlattenSeq(w.dropped)) :
              \A c \in ToSet(w.datagram) \cup ToSet(Listed(w.peer)) : c.packet # d.packet
        /\ peer.throttle = Scale => w.dropped = << >>

\* A peer is given up only while a command waits for its acknowledgement that was first
\* sent at least timeoutMaximum ago, or timeoutMinimum ago where the timeout of a command,
\* this one or another, was doubled up to the limit (peer.c:476-483).
GivenUpForSilence ==
    [][peer.state = "connected" /\ peer'.state = "timed out" =>
        \E c \in Sent(peer) :
            \/ now - c.since >= TimeoutMaximum
            \/ /\ now - c.since >= TimeoutMinimum
               /\ \E d \in ToSet(peer.sent) : Backoff(d) >= TimeoutLimit]_vars

\* How long a peer has owed an acknowledgement for something without sending any.
Silence ==
    LET S == {Larger(c.since, peer.lastReceive) : c \in Sent(peer)}
    IN  IF S = {} THEN 0 ELSE now - (CHOOSE t \in S : \A u \in S : t <= u)

\* A host that is serviced all the time gives up a silent peer before three times
\* timeoutMaximum: the timeout that was running when the last acknowledgement came and
\* the doubled one after it (protocol.c:1366-1385).
GivenUpInTime == Prompt /\ serviced /\ pass = "idle" => Silence < 3 * TimeoutMaximum
================================================================================
