---------------------------- MODULE ReliableChannel ----------------------------
(***************************************************************************)
(* The reliable packets of one channel from one host to another: the       *)
(* sender's lists and windows, a network of datagrams, the receiver's list *)
(* and its acknowledgements.                                               *)
(*                                                                         *)
(* Packet n is the n-th sent on the channel; the hosts see only its        *)
(* sequence number SeqNo(n).  Each packet fits one SEND_RELIABLE command.  *)
(* The connection is up on both sides; the sender does not give it up.     *)
(***************************************************************************)
EXTENDS Integers, FiniteSets, Sequences, SequencesExt

CONSTANTS
    WindowSize,     \* ENET_PEER_RELIABLE_WINDOW_SIZE, 0x1000
    Windows,        \* ENET_PEER_RELIABLE_WINDOWS, 16
    FreeWindows,    \* ENET_PEER_FREE_RELIABLE_WINDOWS, 8
    Lifetime,       \* a datagram is gone once Lifetime newer packets are sent
    MaxPackets,     \* bound: packets sent on the channel
    Backlog,        \* bound: packets queued and never sent yet
    MaxLosses       \* bound: copies the network drops; 0 is enough for safety,
                    \* since nothing has to arrive

ASSUME WindowSizeAssumption == WindowSize \in Nat \ {0}
ASSUME WindowsAssumption == Windows \in Nat /\ FreeWindows + 2 <= Windows
ASSUME FreeWindowsAssumption == FreeWindows \in Nat /\ 3 <= FreeWindows
ASSUME LifetimeAssumption == Lifetime \in 1 .. (Windows - FreeWindows + 1) * WindowSize
ASSUME BoundsAssumption == MaxPackets \in Nat /\ Backlog \in Nat /\ MaxLosses \in Nat

Packet == 1 .. MaxPackets
WindowIndex == 0 .. Windows - 1
Modulus == WindowSize * Windows

\* enet_uint16: the number of packet n, and the window a number is in.
SeqNo(n) == n % Modulus
Window(s) == s \div WindowSize

VARIABLES
    queued,     \* how many packets the application has sent
    outgoing,   \* outgoingSendReliableCommands
    unacked,    \* sentReliableCommands
    attempted,  \* the commands of both with sendAttempts >= 1
    windows,    \* channel->reliableWindows
    used,       \* channel->usedReliableWindows
    newest,     \* the newest packet ever put on the network
    data,       \* packets the network holds a copy of
    acks,       \* packets the network holds an acknowledgement of
    losses,     \* copies and acknowledgements the network has dropped
    incoming,   \* channel->incomingReliableSequenceNumber of the receiver
    held,       \* channel->incomingReliableCommands
    delivered,  \* packets that went to dispatchedCommands
    leaving     \* the receiver is in DISCONNECT_LATER

sender == <<queued, outgoing, unacked, attempted, windows, used>>
receiver == <<incoming, held, delivered, leaving>>
vars == <<sender, newest, data, acks, losses, receiver>>

-----------------------------------------------------------------------------
(* The sender.                                                             *)

Unsent == SelectSeq(outgoing, LAMBDA n : n \notin attempted)

Send ==
    /\ queued < MaxPackets
    /\ Len(Unsent) < Backlog
    /\ queued' = queued + 1
    /\ outgoing' = Append(outgoing, queued + 1)
    /\ UNCHANGED <<unacked, attempted, windows, used, newest, data, acks, losses, receiver>>

\* The windows that must be free before window w is begun.
Ahead(w) == {(w + i) % Windows : i \in 0 .. FreeWindows + 1}

\* The first command of a window has to wait while the window before is full or
\* one of the windows ahead is in use.
WindowWrap(n) ==
    LET w == Window(SeqNo(n))
    IN  /\ n \notin attempted
        /\ SeqNo(n) % WindowSize = 0
        /\ \/ windows[(w + Windows - 1) % Windows] >= WindowSize
           \/ used \cap Ahead(w) # {}

\* Datagrams that are Lifetime packets old are gone from the network.
Alive(S, n) == {m \in S : m > n - Lifetime}

Newest(n) == IF n > newest THEN n ELSE newest

\* check_outgoing_commands, one command of its loop.  The flow control window and
\* the size of the datagram may end the loop after any command.
Transmit ==
    /\ outgoing # << >>
    /\ LET n == Head(outgoing)
           w == Window(SeqNo(n))
       IN  /\ ~ WindowWrap(n)
           /\ windows' = IF n \in attempted THEN windows
                         ELSE [windows EXCEPT ![w] = @ + 1]
           /\ used' = IF n \in attempted THEN used ELSE used \cup {w}
           /\ attempted' = attempted \cup {n}
           /\ unacked' = Append(unacked, n)
           /\ outgoing' = Tail(outgoing)
           /\ newest' = Newest(n)
           /\ data' = Alive(data \cup {n}, Newest(n))
           /\ acks' = Alive(acks, Newest(n))
    /\ UNCHANGED <<queued, losses, receiver>>

\* The members of S that list has, in their order there.
Selected(list, S) ==
    LET I == {i \in DOMAIN list : list[i] \in S}
    IN  [k \in 1 .. Cardinality(I) |->
            list[CHOOSE i \in I : Cardinality({j \in I : j <= i}) = k]]

\* The commands S go back in front of the list, in their order.
Requeue(S) ==
    /\ outgoing' = Selected(unacked, S) \o outgoing
    /\ unacked' = Selected(unacked, ToSet(unacked) \ S)

\* check_timeouts: the timeouts of the commands S have come.
TimeOut(S) ==
    /\ S # {}
    /\ Requeue(S)
    /\ UNCHANGED <<queued, attempted, windows, used, newest, data, acks, losses, receiver>>

\* The places in a list where a command with number s is looked for.
Sent(s) == {i \in DOMAIN unacked : SeqNo(unacked[i]) = s}
Retried(s) ==
    {i \in DOMAIN outgoing :
        /\ SeqNo(outgoing[i]) = s
        /\ \A j \in 1 .. i : outgoing[j] \in attempted}

First(I) == CHOOSE i \in I : \A j \in I : i <= j

\* Faulty: the window is not given back.
ReleaseNever(n, w) ==
    /\ attempted' = attempted \ {n}
    /\ UNCHANGED <<windows, used>>

\* The command n of window w is acknowledged.
Release(n, w) ==
    /\ attempted' = attempted \ {n}
    /\ windows' = IF windows[w] > 0 THEN [windows EXCEPT ![w] = @ - 1] ELSE windows
    /\ used' = IF windows[w] = 1 THEN used \ {w} ELSE used

\* handle_acknowledge: the command is removed from the list it is in.
ReceiveAck(m) ==
    LET s == SeqNo(m)
    IN  /\ m \in acks
        /\ \/ /\ Sent(s) # {}
              /\ unacked' = RemoveAt(unacked, First(Sent(s)))
              /\ UNCHANGED outgoing
              /\ Release(unacked[First(Sent(s))], Window(s))
           \/ /\ Sent(s) = {}
              /\ Retried(s) # {}
              /\ outgoing' = RemoveAt(outgoing, First(Retried(s)))
              /\ UNCHANGED unacked
              /\ Release(outgoing[First(Retried(s))], Window(s))
        /\ UNCHANGED <<queued, newest, data, acks, losses, receiver>>

-----------------------------------------------------------------------------
(* The receiver.                                                           *)

\* How many windows number s is ahead of number c.
WindowsAhead(s, c) == Window(s) + (IF s < c THEN Windows ELSE 0) - Window(c)

InWindow(s) == WindowsAhead(s, incoming) \in 0 .. FreeWindows - 2

\* Whether a held number q stays in front of s: numbers below incoming are beyond
\* the wrap.
StaysInFront(q, s) == IF q < incoming <=> s < incoming THEN q <= s ELSE s < incoming

\* Where the search from the end of the list stops; 0 when it finds nothing.
Place(s) ==
    LET I == {i \in DOMAIN held : StaysInFront(SeqNo(held[i]), s)}
    IN  IF I = {} THEN 0 ELSE CHOOSE i \in I : \A j \in I : j <= i

\* Faulty: the search stops at a number that is behind, not at one that differs.
InOrderLoosely(list) ==
    CHOOSE k \in 0 .. Len(list) :
        /\ \A i \in 1 .. k : SeqNo(list[i]) >= (incoming + i) % Modulus
        /\ k < Len(list) => SeqNo(list[k + 1]) < (incoming + k + 1) % Modulus

\* dispatch_incoming_reliable_commands: what is in order leaves the list.
InOrder(list) ==
    CHOOSE k \in 0 .. Len(list) :
        /\ \A i \in 1 .. k : SeqNo(list[i]) = (incoming + i) % Modulus
        /\ k < Len(list) => SeqNo(list[k + 1]) # (incoming + k + 1) % Modulus

Store(n) ==
    LET list == InsertAt(held, Place(SeqNo(n)) + 1, n)
        k == InOrder(list)
    IN  /\ incoming' = (incoming + k) % Modulus
        /\ delivered' = delivered \o SubSeq(list, 1, k)
        /\ held' = SubSeq(list, k + 1, Len(list))

\* enet_peer_queue_incoming_command keeps the packet.
Wanted(s) ==
    /\ ~ leaving
    /\ InWindow(s)
    /\ s # incoming
    /\ Place(s) > 0 => SeqNo(held[Place(s)]) # s

\* Faulty: whatever is received is acknowledged.
QueueAcknowledgementAlways(n) == acks' = acks \cup {n}

\* enet_peer_queue_acknowledgement, after the packet was taken or discarded, and
\* the next send: what is too far ahead to be kept is not acknowledged.
QueueAcknowledgement(n) ==
    acks' = IF WindowsAhead(SeqNo(n), incoming') \in {FreeWindows - 1, FreeWindows}
            THEN acks ELSE acks \cup {n}

\* Faulty: a duplicate is an error, after which no acknowledgement is queued.
ReceiveStrictly(n) ==
    /\ n \in data
    /\ Wanted(SeqNo(n))
    /\ Store(n)
    /\ QueueAcknowledgement(n)
    /\ UNCHANGED <<sender, newest, data, losses, leaving>>

\* handle_send_reliable of a copy of packet n, which the network may keep.
Receive(n) ==
    /\ n \in data
    /\ \/ Wanted(SeqNo(n)) /\ Store(n)
       \/ ~ Wanted(SeqNo(n)) /\ UNCHANGED <<incoming, held, delivered>>
    /\ QueueAcknowledgement(n)
    /\ UNCHANGED <<sender, newest, data, losses, leaving>>

\* enet_peer_disconnect_later of the receiving host: packets are discarded, and
\* acknowledged all the same.
DisconnectLater ==
    /\ leaving' = TRUE
    /\ UNCHANGED <<sender, newest, data, acks, losses, incoming, held, delivered>>

-----------------------------------------------------------------------------
(* The network loses copies and acknowledgements.                          *)

Lose(n) ==
    /\ losses < MaxLosses
    /\ losses' = losses + 1
    /\ \/ n \in data /\ data' = data \ {n} /\ UNCHANGED acks
       \/ n \in acks /\ acks' = acks \ {n} /\ UNCHANGED data
    /\ UNCHANGED <<sender, newest, receiver>>

-----------------------------------------------------------------------------
Init ==
    /\ queued = 0 /\ outgoing = << >> /\ unacked = << >> /\ attempted = {}
    /\ windows = [w \in WindowIndex |-> 0] /\ used = {}
    /\ newest = 0 /\ data = {} /\ acks = {} /\ losses = 0
    /\ incoming = 0 /\ held = << >> /\ delivered = << >> /\ leaving = FALSE

TimeOuts == \E S \in SUBSET ToSet(unacked) : TimeOut(S)

Step ==
    \/ Send \/ Transmit \/ DisconnectLater
    \/ \E n \in Packet : Receive(n) \/ ReceiveAck(n) \/ Lose(n)

Next == Step \/ TimeOuts

Spec == Init /\ [][Next]_vars

\* Nothing is left that the reliable windows allow to be sent.
Drained == IF outgoing = << >> THEN TRUE ELSE WindowWrap(Head(outgoing))

\* A pass looks for timeouts, then sends what it may; when the flow control window
\* and the datagrams are large enough, that is all there is.
DrainingNext == Step \/ (Drained /\ TimeOuts)

(* Both hosts keep calling enet_host_service: what may be sent is sent, and    *)
(* the timeout of every command that stays unanswered comes; what the network  *)
(* does not drop, it delivers.                                                 *)
Fairness ==
    /\ WF_vars(Transmit)
    /\ \A n \in Packet :
          /\ SF_vars(Drained /\ \E S \in SUBSET ToSet(unacked) : n \in S /\ TimeOut(S))
          /\ WF_vars(Receive(n))
          /\ WF_vars(ReceiveAck(n))

FairSpec == Init /\ [][DrainingNext]_vars /\ Fairness
-----------------------------------------------------------------------------
Outstanding == ToSet(unacked) \cup ToSet(outgoing)

TypeOK ==
    /\ queued \in 0 .. MaxPackets
    /\ outgoing \in Seq(Packet) /\ unacked \in Seq(Packet)
    /\ attempted \subseteq Packet
    /\ windows \in [WindowIndex -> 0 .. WindowSize]
    /\ used \subseteq WindowIndex
    /\ newest \in 0 .. MaxPackets
    /\ data \subseteq Packet /\ acks \subseteq Packet /\ losses \in 0 .. MaxLosses
    /\ incoming \in 0 .. Modulus - 1
    /\ held \in Seq(Packet) /\ delivered \in Seq(Packet)
    /\ leaving \in BOOLEAN

\* reliableWindows counts the commands of each window that were sent and are not
\* acknowledged, and usedReliableWindows has the bits of the windows in use; the
\* two are kept apart in check_outgoing_commands and remove_sent_reliable_command
\* (protocol.c:1497, 255), through any number of retransmissions.
WindowsCount ==
    /\ \A w \in WindowIndex :
          windows[w] = Cardinality({n \in Outstanding \cap attempted : Window(SeqNo(n)) = w})
    /\ used = {w \in WindowIndex : windows[w] > 0}

\* A command that is to be sent again is in front of those never sent, where the
\* search for an acknowledged command stops (protocol.c:209); and no command is in
\* two lists, or twice in one.
RetriesFirst ==
    /\ \A i, j \in DOMAIN outgoing :
          i < j /\ outgoing[j] \in attempted => outgoing[i] \in attempted
    /\ Len(outgoing) + Len(unacked) = Cardinality(Outstanding)

\* A packet that the sender has forgotten, since an acknowledgement came, was
\* delivered or is held by the receiver: no sequence number that wrapped around
\* made the receiver acknowledge what it discarded, or the sender take one
\* acknowledgement for another.
NothingForgotten ==
    ~ leaving => \A n \in 1 .. queued : n \in Outstanding \cup ToSet(delivered) \cup ToSet(held)

\* The receiver's list is in the order of sending, without duplicates, and begins
\* after a gap (peer.c:881-903).
HeldInOrder ==
    \A i \in DOMAIN held :
        /\ held[i] > Len(delivered) + 1
        /\ i > 1 => held[i - 1] < held[i]

\* What the two ends keep about the packets under way agrees with the packets, on its
\* own side and with regard to the other: windows, the order of what is sent again, and
\* the order of what is held (protocol.c:209, 255, 1497, peer.c:881).
ListsAgree == TypeOK /\ WindowsCount /\ RetriesFirst /\ HeldInOrder

\* The channel is a fifo of its packets.
Fifo == INSTANCE ReliableFifo WITH sent <- [n \in 1 .. queued |-> n], received <- delivered

ImplementsFifo == Fifo!Spec

\* When the application pauses, every packet it sent is delivered and the sender
\* learns of it, as long as the receiver is not about to leave: a window that is
\* full empties again, and an acknowledgement that was lost comes again.
ChannelDrains ==
    Outstanding # {} ~> leaving \/ (Outstanding = {} /\ Len(delivered) = queued)
=============================================================================
