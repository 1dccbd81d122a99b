------------------------------ MODULE IncomingQueue ------------------------------
(***************************************************************************)
(* The receiving side of one channel: reliable, unreliable and unsequenced *)
(* packets, whole and in fragments, that arrive in any order, again and    *)
(* again, or never.  Reliable packets wait for those before them,          *)
(* unreliable ones for the reliable one they were sent behind, fragments   *)
(* for the rest of their packet.                                           *)
(***************************************************************************)
EXTENDS Naturals, FiniteSetsExt, SequencesExt

CONSTANTS
    Kinds,              \* the kinds of packet that are sent
    Windows,            \* ENET_PEER_RELIABLE_WINDOWS
    WindowSize,         \* ENET_PEER_RELIABLE_WINDOW_SIZE
    FreeWindows,        \* ENET_PEER_FREE_RELIABLE_WINDOWS
    UnreliableLimit,    \* the largest unreliable sequence number
    MaximumWaiting,     \* host->maximumWaitingData
    Start,              \* the reliable sequence number that was delivered last
    MaxPackets          \* bound: packets that are sent

Modulus == Windows * WindowSize
AllKinds == {"reliable", "unreliable", "unsequenced", "fragment", "unreliableFragment"}

ASSUME KindsAssumption == Kinds \subseteq AllKinds
ASSUME WindowsAssumption ==
    /\ Windows \in Nat \ {0} /\ WindowSize \in Nat \ {0} /\ UnreliableLimit \in Nat \ {0}
    /\ FreeWindows \in 1 .. Windows /\ Start \in 0 .. Modulus - 1
ASSUME BoundsAssumption == MaximumWaiting \in Nat /\ MaxPackets \in Nat

VARIABLES
    sender,     \* numbers of the sending channel, and the kinds that were sent
    net,        \* commands that may arrive, once or more, or never
    receiver,   \* the channel, dispatchedCommands and totalWaitingData of the receiving peer
    delivered,  \* packets that the application took, in order
    refused     \* the last command found no room in totalWaitingData

vars == <<sender, net, receiver, delivered, refused>>

Reliable(kind) == kind \in {"reliable", "fragment"}

Parts(kind) == IF kind \in {"fragment", "unreliableFragment"} THEN 2 ELSE 1

Init ==
    /\ sender = [reliable |-> Start, unreliable |-> 0, packets |-> << >>]
    /\ net = {}
    /\ receiver = [reliable |-> Start, unreliable |-> 0, reliables |-> << >>,
                   unreliables |-> << >>, groups |-> {}, dispatched |-> << >>,
                   waiting |-> 0, leaving |-> FALSE]
    /\ delivered = << >>
    /\ refused = FALSE

\* Packets are known by their place among all that were sent.
Sequence(kind, reliable, unreliable) ==
    LET id == Len(sender.packets) + 1
        command(part) == [id |-> id, kind |-> kind, reliable |-> reliable,
                          unreliable |-> unreliable, part |-> part]
    IN  /\ sender' = [sender EXCEPT !.packets = Append(@, kind),
                                    !.reliable = IF Reliable(kind)
                                                 THEN (@ + Parts(kind)) % Modulus ELSE @,
                                    !.unreliable = IF Reliable(kind) THEN 0
                                                   ELSE IF kind = "unsequenced" THEN @
                                                   ELSE @ + 1]
        /\ net' = net \cup {command(part) : part \in 1 .. Parts(kind)}

\* enet_peer_send and the numbers of enet_peer_setup_outgoing_command.  Where the
\* unreliable numbers end, an unreliable packet is sent as a reliable one.
Send(kind) ==
    LET turned == CASE kind = "unreliable" -> "reliable"
                    [] kind = "unreliableFragment" -> "fragment"
                    [] OTHER -> kind
        k == IF sender.unreliable >= UnreliableLimit THEN turned ELSE kind
    IN  IF Reliable(k) THEN Sequence(k, (sender.reliable + 1) % Modulus, 0)
        ELSE IF k = "unsequenced" THEN Sequence(k, 0, 0)
        ELSE Sequence(k, sender.reliable, sender.unreliable + 1)

SendPacket(kind) ==
    /\ Len(sender.packets) < MaxPackets
    /\ Send(kind)
    /\ UNCHANGED <<receiver, delivered, refused>>

-----------------------------------------------------------------------------
(* The receiving side, as functions on its record r.  An entry e of a list  *)
(* is a packet; got holds the parts that arrived.                          *)

InWindow(current, reliable) ==
    LET window == reliable \div WindowSize + IF reliable < current THEN Windows ELSE 0
    IN  window \in current \div WindowSize .. current \div WindowSize + FreeWindows - 2

Complete(e) == e.got = 1 .. Parts(e.kind)

\* The search from the end of a list passes over e on its way to these numbers.
PassesReliable(current, e, reliable) ==
    IF reliable >= current THEN e.reliable < current \/ e.reliable > reliable
    ELSE e.reliable < current /\ e.reliable > reliable
PassesUnreliable(current, e, reliable, unreliable) ==
    \/ PassesReliable(current, e, reliable)
    \/ e.reliable = reliable /\ e.unreliable > unreliable

\* Where the search stops; 0 in front of the list.
StopReliable(r, c) ==
    LET q == r.reliables
    IN  Max({0} \cup {i \in DOMAIN q : ~ PassesReliable(r.reliable, q[i], c.reliable)})
StopUnreliable(r, c) ==
    LET q == r.unreliables
    IN  Max({0} \cup {i \in DOMAIN q :
                        ~ PassesUnreliable(r.reliable, q[i], c.reliable, c.unreliable)})

\* enet_peer_dispatch_incoming_unreliable_commands.  The walk w knows where the run that
\* is ready starts, the first command that is not dropped, and which were moved.
Move(w, i) == [w EXCEPT !.moved = @ \cup w.start .. i - 1]

WalkUnreliable(r, w, i) ==
    LET e == r.unreliables[i]
        ready == w.start # i
        kept == Max({0} \cup {k \in 1 .. i - 1 : k \notin w.moved})
    IN  IF w.stop > 0 \/ e.kind = "unsequenced" THEN w
        ELSE IF e.reliable = r.reliable /\ Complete(e)
        THEN [w EXCEPT !.unreliable = e.unreliable]
        ELSE IF e.reliable = r.reliable
        THEN [Move(w, i) EXCEPT
                 !.dropped = IF ready THEN i ELSE IF @ # i THEN kept ELSE @,
                 !.start = i + 1]
        ELSE IF InWindow(r.reliable, e.reliable) THEN [w EXCEPT !.stop = i]
        ELSE [Move(w, i) EXCEPT !.dropped = i + 1, !.start = i + 1]

WalkStart(r) ==
    [start |-> 1, dropped |-> 1, moved |-> {}, stop |-> 0, unreliable |-> r.unreliable]

\* The last run is moved behind the loop.
WalkOver(r) ==
    LET w == FoldLeftDomain(LAMBDA acc, i : WalkUnreliable(r, acc, i), WalkStart(r), r.unreliables)
        end == IF w.stop > 0 THEN w.stop ELSE Len(r.unreliables) + 1
    IN  IF w.start # end THEN [Move(w, end) EXCEPT !.dropped = end] ELSE w

\* The entries of q at the positions in K.
Selected(q, K) ==
    FoldLeftDomain(LAMBDA acc, i : IF i \in K THEN Append(acc, q[i]) ELSE acc, << >>, q)

DispatchUnreliable(r, queued) ==
    LET q == r.unreliables
        w == WalkOver(r)
        stays == {i \in DOMAIN q : i \notin w.moved /\ (i >= w.dropped \/ q[i].id = queued)}
    IN  [r EXCEPT !.unreliable = w.unreliable,
                  !.dispatched = @ \o Selected(q, w.moved),
                  !.unreliables = Selected(q, stays)]

NextInLine(reliable, e) == Complete(e) /\ e.reliable = (reliable + 1) % Modulus

\* enet_peer_dispatch_incoming_reliable_commands.
DispatchReliable(r, queued) ==
    LET q == r.reliables
        LastOf(i) == IF i = 0 THEN r.reliable
                     ELSE (q[i].reliable + Parts(q[i].kind) - 1) % Modulus
        n == Max({i \in 0 .. Len(q) : \A k \in 1 .. i : NextInLine(LastOf(k - 1), q[k])})
        moved == [r EXCEPT !.reliable = LastOf(n), !.unreliable = 0,
                           !.dispatched = @ \o SubSeq(q, 1, n),
                           !.reliables = SubSeq(q, n + 1, Len(q))]
    IN  IF n = 0 THEN r
        ELSE IF r.unreliables = << >> THEN moved ELSE DispatchUnreliable(moved, queued)

Dispatch(r, kind, queued) ==
    IF Reliable(kind) THEN DispatchReliable(r, queued) ELSE DispatchUnreliable(r, queued)

\* The place in its list behind which c belongs.  Unsequenced commands go to the front.
Stop(r, c) == CASE Reliable(c.kind) -> StopReliable(r, c)
                [] c.kind = "unsequenced" -> 0
                [] OTHER -> StopUnreliable(r, c)
Queue(r, c) == IF Reliable(c.kind) THEN r.reliables ELSE r.unreliables

\* The search came upon a command with the numbers of c.
Same(r, c) ==
    LET s == Stop(r, c)
    IN  s > 0 /\ Queue(r, c)[s].reliable = c.reliable
              /\ Queue(r, c)[s].unreliable = c.unreliable

\* Faulty: only the list knows what was here before.
CurrentAny(r, c) == Reliable(c.kind) => c.reliable # r.reliable

\* What was handed over last does not come again.
Current(r, c) ==
    IF Reliable(c.kind) THEN c.reliable # r.reliable
    ELSE ~ (c.reliable = r.reliable /\ c.unreliable <= r.unreliable)

Discarded(r, c) ==
    \/ r.leaving
    \/ c.kind # "unsequenced" /\ (\/ ~ InWindow(r.reliable, c.reliable)
                                 \/ ~ Current(r, c)
                                 \/ Same(r, c))

\* Faulty: one packet more.
FullAbove(r) == r.waiting > MaximumWaiting

Full(r) == r.waiting >= MaximumWaiting

\* enet_peer_queue_incoming_command, past what it discards and refuses.  The parts of a
\* packet in fragments are still to be marked.
QueueIncoming(r, c) ==
    LET e == [id |-> c.id, kind |-> c.kind, reliable |-> c.reliable,
              unreliable |-> c.unreliable, got |-> IF Parts(c.kind) = 1 THEN {1} ELSE {}]
        q == InsertAt(Queue(r, c), Stop(r, c) + 1, e)
        longer == [r EXCEPT !.waiting = @ + Parts(c.kind)]
    IN  Dispatch(IF Reliable(c.kind) THEN [longer EXCEPT !.reliables = q]
                 ELSE [longer EXCEPT !.unreliables = q], c.kind, c.id)

\* Faulty: fragments come in order.
CompletedByLast(r, c) == c.part = Parts(c.kind)

\* The packet of c has all its parts.
CompletedBy(r, c) ==
    \E i \in DOMAIN Queue(r, c) : Queue(r, c)[i].id = c.id /\ Complete(Queue(r, c)[i])

\* One part arrived of a packet whose command is in the list.
MarkPart(r, c) ==
    LET Got(q) == [i \in DOMAIN q |-> IF q[i].id = c.id THEN [q[i] EXCEPT !.got = @ \cup {c.part}]
                                      ELSE q[i]]
        marked == [r EXCEPT !.reliables = Got(@), !.unreliables = Got(@)]
    IN  IF marked # r /\ CompletedBy(marked, c) THEN Dispatch(marked, c.kind, 0) ELSE marked

\* enet_protocol_handle_send_reliable, _unreliable and _unsequenced.
ReceiveWhole(c) ==
    LET again == c.kind = "unsequenced" /\ c.id \in receiver.groups
        kept == ~ again /\ ~ Discarded(receiver, c) /\ ~ Full(receiver)
        noted == IF c.kind = "unsequenced" /\ ~ again /\ (kept \/ receiver.leaving)
                 THEN {c.id} ELSE {}
        r == IF kept THEN QueueIncoming(receiver, c) ELSE receiver
    IN  /\ Parts(c.kind) = 1
        /\ receiver' = [r EXCEPT !.groups = @ \cup noted]
        /\ refused' = (~ again /\ ~ Discarded(receiver, c) /\ Full(receiver))

\* enet_protocol_handle_send_fragment and enet_protocol_handle_send_unreliable_fragment.
ReceiveFragment(c) ==
    LET r == receiver
        looked == InWindow(r.reliable, c.reliable) /\ (Reliable(c.kind) \/ Current(r, c))
        new == looked /\ ~ Same(r, c)
    IN  /\ Parts(c.kind) > 1
        /\ receiver' = IF ~ looked THEN r
                       ELSE IF ~ new THEN MarkPart(r, c)
                       ELSE IF Discarded(r, c) \/ Full(r) THEN r
                       ELSE MarkPart(QueueIncoming(r, c), c)
        /\ refused' = (new /\ ~ Discarded(r, c) /\ Full(r))

Receive(c) ==
    /\ ReceiveWhole(c) \/ ReceiveFragment(c)
    /\ UNCHANGED <<sender, net, delivered>>

\* enet_peer_receive.
ApplicationReceive ==
    /\ receiver.dispatched # << >>
    /\ delivered' = Append(delivered, Head(receiver.dispatched).id)
    /\ receiver' = [receiver EXCEPT !.dispatched = Tail(@),
                                    !.waiting = @ - Parts(Head(receiver.dispatched).kind)]
    /\ UNCHANGED <<sender, net, refused>>

\* The application of the receiver called enet_peer_disconnect_later.
DisconnectLater ==
    /\ ~ receiver.leaving
    /\ receiver' = [receiver EXCEPT !.leaving = TRUE]
    /\ UNCHANGED <<sender, net, delivered, refused>>

Next ==
    \/ \E kind \in Kinds : SendPacket(kind)
    \/ \E c \in net : Receive(c)
    \/ ApplicationReceive
    \/ DisconnectLater

Spec == Init /\ [][Next]_vars

-----------------------------------------------------------------------------
Commands == [id : 1 .. MaxPackets, kind : AllKinds, reliable : 0 .. Modulus - 1,
             unreliable : Nat, part : 1 .. 2]
Entries == [id : 1 .. MaxPackets, kind : AllKinds, reliable : 0 .. Modulus - 1,
            unreliable : Nat, got : SUBSET (1 .. 2)]

\* Every variable keeps its type; numbers stay within their width.
TypeOK ==
    /\ sender \in [reliable : 0 .. Modulus - 1, unreliable : 0 .. UnreliableLimit,
                   packets : Seq(AllKinds)]
    /\ net \subseteq Commands
    /\ receiver \in [reliable : 0 .. Modulus - 1, unreliable : Nat, reliables : Seq(Entries),
                     unreliables : Seq(Entries), groups : SUBSET (1 .. MaxPackets),
                     dispatched : Seq(Entries), waiting : Nat, leaving : BOOLEAN]
    /\ delivered \in Seq(1 .. MaxPackets)
    /\ refused \in BOOLEAN

\* Packets in the order in which the application takes or will take them.
Arrivals == delivered \o [i \in DOMAIN receiver.dispatched |-> receiver.dispatched[i].id]
Kind(id) == sender.packets[id]
Sequenced(id) == Kind(id) # "unsequenced"

\* However commands are reordered and repeated, sequenced packets of a channel reach the
\* application in the order they were sent, and no packet reaches it twice
\* (peer.c:862-985, 718-842).
InOrderOnce ==
    /\ IsInjective(Arrivals)
    /\ \A i, j \in DOMAIN Arrivals :
          i < j /\ Sequenced(Arrivals[i]) /\ Sequenced(Arrivals[j]) => Arrivals[i] < Arrivals[j]

\* A sequenced packet does not overtake a reliable one: all reliable packets that were sent
\* before it have been handed over (peer.c:806-842, 755-765).
NothingSkipped ==
    \A i \in DOMAIN Arrivals : \A id \in 1 .. Arrivals[i] - 1 :
        Sequenced(Arrivals[i]) /\ Reliable(Kind(id)) => \E j \in 1 .. i : Arrivals[j] = id

\* A packet in fragments is handed over with every fragment in it, whatever came twice
\* (protocol.c:630-646, 740-756).
Whole ==
    \A i \in DOMAIN receiver.dispatched :
        receiver.dispatched[i].got = 1 .. Parts(receiver.dispatched[i].kind)

\* What the application gets is what was sent: whole packets, once, in order and with
\* nothing reliable missing before them (peer.c:718-842, 862-985, protocol.c:630-646).
FaithfulDelivery == TypeOK /\ InOrderOnce /\ NothingSkipped /\ Whole

\* Nothing is left in the lists that could be handed over: no call comes back to them
\* until a later command of the channel arrives (peer.c:812-826, 723-800).
NothingReadyWaits ==
    LET q == receiver.reliables
        u == receiver.unreliables
    IN  /\ q # << >> => ~ (Complete(q[1]) /\ q[1].reliable = (receiver.reliable + 1) % Modulus)
        /\ \A i \in DOMAIN u : /\ u[i].kind # "unsequenced"
                              /\ ~ (Complete(u[i]) /\ u[i].reliable = receiver.reliable)

Size(q) == FoldLeft(LAMBDA n, e : n + Parts(e.kind), 0, q)
Held == Size(receiver.reliables) + Size(receiver.unreliables) + Size(receiver.dispatched)

\* What a peer holds for its application is counted in totalWaitingData, so that the limit
\* bounds it (peer.c:956-957, 988-993): by one packet at most.
HeldIsBounded == Held <= receiver.waiting /\ Held < MaximumWaiting + 2

\* "the maximum aggregate amount of buffer space a peer may use waiting for packets to be
\* delivered" (enet.h:402): a packet is refused only where that much is in use.
RefusedWhenFull == refused => Held >= MaximumWaiting
=============================================================================
