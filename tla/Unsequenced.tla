------------------------------- MODULE Unsequenced -------------------------------
(***************************************************************************)
(* The filter in front of unsequenced packets.  Every one has a group      *)
(* number of 16 bits; the receiver keeps one window of them as a bit field *)
(* and knows nothing but its place among the others.  The network repeats, *)
(* reorders and loses packets, and forgets each after a while.             *)
(***************************************************************************)
EXTENDS Naturals, FiniteSets

CONSTANTS
    Windows,        \* ENET_PEER_UNSEQUENCED_WINDOWS
    WindowSize,     \* ENET_PEER_UNSEQUENCED_WINDOW_SIZE
    FreeWindows,    \* ENET_PEER_FREE_UNSEQUENCED_WINDOWS
    Lifetime,       \* no copy arrives once this many more packets have been sent
    Burst,          \* the most packets in a row of which no copy arrives
    MaxSent         \* bound: packets that are sent

Groups == Windows * WindowSize

ASSUME FilterAssumption ==
    /\ Windows \in Nat \ {0} /\ WindowSize \in Nat \ {0} /\ FreeWindows \in 1 .. Windows
    /\ Lifetime \in Nat \ {0} /\ Burst \in Nat /\ MaxSent \in Nat

\* What the filter needs of the network.  A number that is behind by the windows that are
\* not free looks as if it were ahead, and so does one that is ahead by more than the free
\* ones look as if it were behind: with one more of either the properties fail.
ASSUME NetworkAssumption ==
    /\ Lifetime <= (Windows - FreeWindows) * WindowSize + 1
    /\ Burst <= (FreeWindows - 1) * WindowSize

VARIABLES
    sentCount,  \* packets sent; the n-th has group n modulo 2^16
    incoming,   \* peer->incomingUnsequencedGroup
    window,     \* bits of peer->unsequencedWindow that are set
    copies,     \* how often each packet of which copies are about was queued for the application
    newest      \* the last packet, in the order of sending, that the filter looked at

filterVars == <<sentCount, incoming, window, copies, newest>>

Group(n) == n % Groups

\* What may still be under way, an assumption about the network.
AliveAt(s) == {n \in 1 .. s : s - n < Lifetime}

FilterInit ==
    /\ sentCount = 0
    /\ incoming = 0
    /\ window = {}
    /\ copies = [n \in {} |-> 0]
    /\ newest = 0

SendGroup ==
    /\ sentCount < MaxSent /\ sentCount - newest < Burst
    /\ sentCount' = sentCount + 1
    /\ copies' = [n \in AliveAt(sentCount + 1) |-> IF n \in DOMAIN copies THEN copies[n] ELSE 0]
    /\ UNCHANGED <<incoming, window, newest>>

\* Faulty: group numbers do not wrap.
InRangeFlat(group) == group >= incoming /\ group < incoming + FreeWindows * WindowSize

InRange(group) ==
    group + (IF group < incoming THEN Groups ELSE 0) < incoming + FreeWindows * WindowSize

Cleared(base) == IF base # incoming THEN {} ELSE window

Index(group) == group % WindowSize

\* Faulty: packets of a window that is current are not looked up.
AcceptsAgain(group) == InRange(group)

\* Neither too far ahead, or behind, nor seen before.
Accepts(group) == InRange(group) /\ Index(group) \notin Cleared(group - Index(group))

\* enet_protocol_handle_send_unsequenced.  room says whether
\* enet_peer_queue_incoming_command found room for the packet.
ReceiveGroup(n, room) ==
    LET group == Group(n)
        base == group - Index(group)
        new == Accepts(group) /\ room
    IN  /\ incoming' = IF InRange(group) THEN base ELSE incoming
        /\ window' = IF ~ InRange(group) THEN window
                     ELSE IF new THEN Cleared(base) \cup {Index(group)} ELSE Cleared(base)
        /\ copies' = IF new THEN [copies EXCEPT ![n] = @ + 1] ELSE copies
        /\ newest' = IF InRange(group) /\ n > newest THEN n ELSE newest
        /\ UNCHANGED sentCount

FilterNext ==
    \/ SendGroup
    \/ \E n \in DOMAIN copies, room \in BOOLEAN : ReceiveGroup(n, room)

FilterSpec == FilterInit /\ [][FilterNext]_filterVars

-----------------------------------------------------------------------------
\* Every variable keeps its type; the window starts at a multiple of its size.
FilterTypeOK ==
    /\ sentCount \in 0 .. MaxSent
    /\ incoming \in {w * WindowSize : w \in 0 .. Windows - 1}
    /\ window \subseteq 0 .. WindowSize - 1
    /\ copies \in [AliveAt(sentCount) -> Nat]
    /\ newest \in 0 .. sentCount

\* A copy is told from a packet that is wanted, though the bits are forgotten with every
\* window and the numbers are used again: what was queued once is not queued a second time
\* while copies of it are about (protocol.c:488-505).
NeverTwice == \A n \in DOMAIN copies : copies[n] <= 1

\* The receiver does not lose its place: a packet newer than all before it is taken, however
\* many were lost in between, up to what the free windows hold (protocol.c:491-497).
NewestTaken == \A n \in DOMAIN copies : n > newest => Accepts(Group(n))

\* The window is where the newest packet belongs: no late copy sets it back or ahead, after
\* which the packets of the present would be refused (protocol.c:494-503).
AtNewest == incoming = Group(newest - (newest % WindowSize))

\* However many packets are lost or late, the window stays at the newest one and the next
\* one is taken (protocol.c:488-503).
PlaceKept == AtNewest /\ NewestTaken
=============================================================================
