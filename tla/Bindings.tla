-------------------------------- MODULE Bindings --------------------------------
(***************************************************************************)
(* Who owns a packet.  ENet counts the commands that hold one and frees it *)
(* with the last of them; index.ts wraps pointers to packets in objects    *)
(* that free theirs once, unless they gave it to ENet, and events wrap the *)
(* packets they bring.  Freed memory is used again for the next packet.    *)
(*                                                                         *)
(* The application uses the methods of Packet, Event, Host and the handle  *)
(* of initialize in any order, on any object it has seen, as often as it   *)
(* likes; Peer objects it uses as long as their host is there.  What       *)
(* release returned it gives to fromPointer once: a pointer that it never  *)
(* wraps again, wraps twice or has from elsewhere is its own to free, and  *)
(* nothing of that is modelled.                                            *)
(***************************************************************************)
EXTENDS Naturals, FiniteSets

CONSTANTS
    Memory,         \* where the allocator puts packets
    Objects,        \* Packet objects
    Events,         \* Event objects
    PeerSlots,      \* the peers of the host
    Runtimes,       \* handles that initialize returns
    MaxParts,       \* fragments of a packet
    MaxHeld         \* bound: commands of a peer for one packet

None == "none"
Disposed == "disposed"

ASSUME HeldAssumption ==
    /\ MaxParts \in Nat \ {0} /\ MaxHeld \in Nat
    /\ IsFiniteSet(PeerSlots)
    /\ {None, Disposed} \cap Objects = {}

VARIABLES
    heap,       \* packets that are allocated, with their reference counts
    objects,    \* Packet objects: pointer, and #disposed
    events,     \* the packet that an event still has; Disposed after its dispose
    taken,      \* Packet objects the application took from their events
    outgoing,   \* how many commands of each peer hold each packet
    arrived,    \* packets of the incoming and dispatched commands of each peer
    host,       \* peers that are connected, and whether the host is destroyed
    runtime     \* handles, runtimeRefs, and what initialize made of it

bindingsVars == <<heap, objects, events, taken, outgoing, arrived, host, runtime>>

BindingsInit ==
    /\ heap = [a \in {} |-> 0]
    /\ objects = [o \in Objects |-> [pointer |-> None, disposed |-> TRUE]]
    /\ events = [e \in Events |-> Disposed]
    /\ taken = {}
    /\ outgoing = [s \in PeerSlots |-> [a \in Memory |-> 0]]
    /\ arrived = [s \in PeerSlots |-> {}]
    /\ host = [connected |-> {}, alive |-> TRUE]
    /\ runtime = [open |-> {}, closed |-> {}, refs |-> 0, initialized |-> FALSE]

Allocated == DOMAIN heap
Live(o) == ~ objects[o].disposed
Pointer(o) == objects[o].pointer

\* Where a new object may be put: nothing refers to the one before it.
Unused(o) == ~ Live(o) /\ \A e \in Events : events[e] # o
Wrap(o, a) == [objects EXCEPT ![o] = [pointer |-> a, disposed |-> FALSE]]
Released(o) == [objects EXCEPT ![o].disposed = TRUE]
Rewrapped(o, q) == [Released(o) EXCEPT ![q] = [pointer |-> Pointer(o), disposed |-> FALSE]]

With(a, refs) == [b \in Allocated \cup {a} |-> IF b = a THEN refs ELSE heap[b]]
Freed(S) == [a \in Allocated \ S |-> heap[a]]

\* The references held are given back; a packet goes with the last of them.
Drop(held) ==
    LET gone == {a \in Allocated : held[a] > 0 /\ heap[a] = held[a]}
    IN  [a \in Allocated \ gone |-> heap[a] - held[a]]

HeldBy(s) == [a \in Memory |-> outgoing[s][a] + (IF a \in arrived[s] THEN 1 ELSE 0)]
Holders(a) == UNION {{s} \X (1 .. HeldBy(s)[a]) : s \in PeerSlots}
HeldByAll == [a \in Memory |-> Cardinality(Holders(a))]
One(a) == [b \in Memory |-> IF b = a THEN 1 ELSE 0]

-----------------------------------------------------------------------------
(* Packets the application makes.                                          *)

\* Packet.fromBytes and Packet.fromString.
FromBytes(o, a) ==
    /\ Unused(o)
    /\ a \notin Allocated
    /\ heap' = With(a, 0)
    /\ objects' = Wrap(o, a)
    /\ UNCHANGED <<events, taken, outgoing, arrived, host, runtime>>

DisposePacket(o) ==
    /\ Live(o)
    /\ heap' = Freed({Pointer(o)})
    /\ objects' = Released(o)
    /\ taken' = taken \ {o}
    /\ UNCHANGED <<events, outgoing, arrived, host, runtime>>

\* Packet.release and Packet.fromPointer of what it returned: between the two nothing else
\* can reach the packet.
Rewrap(o, q) ==
    /\ Live(o)
    /\ Unused(q)
    /\ objects' = Rewrapped(o, q)
    /\ taken' = taken \ {o}
    /\ UNCHANGED <<heap, events, outgoing, arrived, host, runtime>>

\* Faulty: the caller is to free what was refused, but its object is released.
RejectedKept(o) == heap

\* What ENet did not take.
Rejected(o) == Freed({Pointer(o)})

HeldMore(o, parts, peers) == With(Pointer(o), heap[Pointer(o)] + parts * Cardinality(peers))

Queued(o, parts, peers) ==
    [s \in PeerSlots |->
        IF s \in peers THEN [outgoing[s] EXCEPT ![Pointer(o)] = @ + parts] ELSE outgoing[s]]

\* The object lets go of the packet, and the commands for those peers hold it.
GiveTo(o, parts, peers) ==
    /\ host.alive
    /\ Live(o)
    /\ \A s \in peers : outgoing[s][Pointer(o)] + parts <= MaxHeld
    /\ objects' = Released(o)
    /\ taken' = taken \ {o}
    /\ heap' = IF peers = {} THEN Rejected(o) ELSE HeldMore(o, parts, peers)
    /\ outgoing' = Queued(o, parts, peers)
    /\ UNCHANGED <<events, arrived, host, runtime>>

\* Peer.send: enet_peer_send refuses unless the peer is connected, and then if it has no
\* such channel or the packet is too long for it or for memory.
SendTo(o, s, parts) == \E takers \in SUBSET ({s} \cap host.connected) : GiveTo(o, parts, takers)

\* enet_host_broadcast passes over the peers that refuse, and frees what all of them did.
Broadcast(o, parts) == \E takers \in SUBSET host.connected : GiveTo(o, parts, takers)

-----------------------------------------------------------------------------
(* ENet.                                                                   *)

\* A command was acknowledged, dropped, or sent and need not be acknowledged.
CommandDone(s, a) ==
    /\ outgoing[s][a] > 0
    /\ outgoing' = [outgoing EXCEPT ![s][a] = @ - 1]
    /\ heap' = Drop(One(a))
    /\ UNCHANGED <<objects, events, taken, arrived, host, runtime>>

\* enet_peer_queue_incoming_command, where it finds room.
Arrive(s, a) ==
    /\ s \in host.connected
    /\ a \notin Allocated
    /\ heap' = With(a, 1)
    /\ arrived' = [arrived EXCEPT ![s] = @ \cup {a}]
    /\ UNCHANGED <<objects, events, taken, outgoing, host, runtime>>

ConnectPeer(s) ==
    /\ host.alive
    /\ s \notin host.connected
    /\ host' = [host EXCEPT !.connected = @ \cup {s}]
    /\ UNCHANGED <<heap, objects, events, taken, outgoing, arrived, runtime>>

\* enet_peer_reset_queues: a disconnection, a timeout, or a method of Peer.
ResetPeer(s) ==
    /\ s \in host.connected
    /\ heap' = Drop(HeldBy(s))
    /\ outgoing' = [outgoing EXCEPT ![s] = [a \in Memory |-> 0]]
    /\ arrived' = [arrived EXCEPT ![s] = {}]
    /\ host' = [host EXCEPT !.connected = @ \ {s}]
    /\ UNCHANGED <<objects, events, taken, runtime>>

\* Host.dispose.
DestroyHost ==
    /\ host.alive
    /\ heap' = Drop(HeldByAll)
    /\ outgoing' = [s \in PeerSlots |-> [a \in Memory |-> 0]]
    /\ arrived' = [s \in PeerSlots |-> {}]
    /\ host' = [connected |-> {}, alive |-> FALSE]
    /\ UNCHANGED <<objects, events, taken, runtime>>

-----------------------------------------------------------------------------
(* Events.                                                                 *)

\* Host.service and Host.checkEvents with a packet, into an event nobody needs any more.
Receive(s, a, e, o) ==
    /\ host.alive
    /\ a \in arrived[s]
    /\ events[e] \in Objects => ~ Live(events[e])
    /\ Unused(o)
    /\ heap' = [heap EXCEPT ![a] = @ - 1]
    /\ arrived' = [arrived EXCEPT ![s] = @ \ {a}]
    /\ objects' = Wrap(o, a)
    /\ events' = [events EXCEPT ![e] = o]
    /\ UNCHANGED <<taken, outgoing, host, runtime>>

TakePacket(e) ==
    /\ events[e] \in Objects
    /\ taken' = IF Live(events[e]) THEN taken \cup {events[e]} ELSE taken
    /\ events' = [events EXCEPT ![e] = None]
    /\ UNCHANGED <<heap, objects, outgoing, arrived, host, runtime>>

\* The packet may have been sent or disposed of already, through the event's packet.
DisposeEvent(e) ==
    /\ events[e] # Disposed
    /\ events' = [events EXCEPT ![e] = Disposed]
    /\ IF events[e] \in Objects /\ Live(events[e])
       THEN heap' = Freed({Pointer(events[e])}) /\ objects' = Released(events[e])
       ELSE UNCHANGED <<heap, objects>>
    /\ UNCHANGED <<taken, outgoing, arrived, host, runtime>>

-----------------------------------------------------------------------------
(* The runtime.                                                            *)

\* enet_initialize may fail; then there is no handle.
Initialize(r) ==
    /\ r \notin runtime.open \cup runtime.closed
    /\ runtime' = [runtime EXCEPT !.open = @ \cup {r}, !.refs = @ + 1, !.initialized = TRUE]
    /\ UNCHANGED <<heap, objects, events, taken, outgoing, arrived, host>>

\* Another close of the same handle does nothing.
Close(r) ==
    /\ r \in runtime.open
    /\ runtime' = [open |-> runtime.open \ {r}, closed |-> runtime.closed \cup {r},
                   refs |-> runtime.refs - 1,
                   initialized |-> runtime.initialized /\ runtime.refs # 1]
    /\ UNCHANGED <<heap, objects, events, taken, outgoing, arrived, host>>

PacketsNext ==
    \/ \E o \in Objects :
        \/ DisposePacket(o)
        \/ \E a \in Memory : FromBytes(o, a)
        \/ \E q \in Objects : Rewrap(o, q)
        \/ \E parts \in 1 .. MaxParts :
            Broadcast(o, parts) \/ \E s \in PeerSlots : SendTo(o, s, parts)
    \/ \E s \in PeerSlots :
        \/ ConnectPeer(s) \/ ResetPeer(s)
        \/ \E a \in Memory :
            \/ CommandDone(s, a) \/ Arrive(s, a)
            \/ \E e \in Events, o \in Objects : Receive(s, a, e, o)
    \/ \E e \in Events : TakePacket(e) \/ DisposeEvent(e)
    \/ DestroyHost

RuntimeNext == \E r \in Runtimes : Initialize(r) \/ Close(r)

BindingsNext == PacketsNext \/ RuntimeNext

BindingsSpec == BindingsInit /\ [][BindingsNext]_bindingsVars

-----------------------------------------------------------------------------
(* Properties.                                                             *)

BindingsTypeOK ==
    /\ Allocated \subseteq Memory /\ \A a \in Allocated : heap[a] \in Nat
    /\ objects \in [Objects -> [pointer : Memory \cup {None}, disposed : BOOLEAN]]
    /\ events \in [Events -> Objects \cup {None, Disposed}]
    /\ taken \subseteq Objects
    /\ outgoing \in [PeerSlots -> [Memory -> Nat]]
    /\ arrived \in [PeerSlots -> SUBSET Memory]
    /\ host.connected \subseteq PeerSlots

\* The reference count of a packet is the number of commands that hold it, in all the
\* queues of all the peers (packet.c:44, peer.c:187, 717, 990).
Counted == \A a \in Allocated : heap[a] = HeldByAll[a]

\* Every packet has one owner: the commands that hold it or one Packet object that will
\* free it.  Nobody holds one that was freed, whose memory may be another packet by now,
\* and none is left without an owner (index.ts:408-421, 488-499, 811-829,
\* host.c:276-287).
Owned ==
    /\ \A o \in Objects : Live(o) => Pointer(o) \in Allocated
    /\ \A s \in PeerSlots : \A a \in Memory : HeldBy(s)[a] > 0 => a \in Allocated
    /\ \A a \in Allocated :
        Cardinality({o \in Objects : Live(o) /\ Pointer(o) = a}) = IF heap[a] = 0 THEN 1 ELSE 0

\* The library is initialized exactly while some handle is open, however often handles are
\* closed (index.ts:288-319).
InitializedWhileOpen ==
    runtime.initialized = (runtime.open # {}) /\ runtime.refs = Cardinality(runtime.open)

\* A packet that was taken from its event outlives it, until it is sent or disposed of
\* (index.ts:811-829).
TakenOutlivesEvent == \A o \in taken : Live(o)

\* What the binding and the library count is what is there: every packet has its one owner
\* and every handle its place (index.ts:288-319, 408-421, packet.c:44).
OwnedOnce == Counted /\ Owned /\ TakenOutlivesEvent /\ InitializedWhileOpen
================================================================================
