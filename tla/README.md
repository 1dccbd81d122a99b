# bun-enet in TLA+

bun-enet binds ENet 1.3.18, a UDP library with connections, reliable and
unreliable channels and bandwidth management, to Bun. The repository carries
ENet's C sources (`src/enet-1.3.18/`), a thin C wrapper
(`src/native/enet_wrapper.c`) and the TypeScript interface (`src/index.ts`).
What can go wrong here is in ENet's protocol code: one thread, but a peer table
that the application's calls, the timers and the datagrams of any number of
remote hosts change in any order, over a network that loses, repeats, delays
and reorders.

## 1. The system

| part | state it keeps | operations | what makes it correct |
|---|---|---|---|
| **peer state machine and service loop** (`protocol.c` 35-193, 294-444, 774-1349, 1599-1918; `peer.c` 256-602; `host.c` 173-288) | ten states per peer, flags, the dispatch queue of peers with something to report, `connectedPeers`, `bandwidthLimitedPeers`, `event` | `enet_host_service`, `check_events`, `flush`, `connect`, `enet_peer_disconnect*`, `reset`, `ping`, one handler per command | no event is lost or reported twice, CONNECT before RECEIVE before DISCONNECT, counters match, every wait ends |
| **reliable channel** (`protocol.c` 195-292, 1351-1530; `peer.c` 604-722, 807-1025) | outgoing and sent lists, 16 windows of 4096 numbers, receiver's list and counter | queue, send, time out, acknowledge, receive | a fifo, in spite of 16-bit numbers; nothing acknowledged that was not kept |
| **outgoing queues, timeouts, flow control** (same lines) | `nextTimeout`, `earliestTimeout`, `sendAttempts`, `reliableDataInTransit`, `queueTime` | the send pass | a timeout comes, the window is neither leaked nor exceeded |
| **unreliable queue** (`peer.c` 278-307, 724-805, 906-980) | `incomingUnreliableCommands`, `totalWaitingData` | dispatch, drop | sequenced order, dropped packets give their memory back |
| **fragments** (`protocol.c` 536-763) | bitmap and count of a start command | receive a fragment | complete exactly when each fragment came once |
| **unsequenced packets** (`protocol.c` 468-512) | group number, 1024-bit window | receive | no duplicate inside the window |
| **handshake** (`protocol.c` 294-444, 948-1008, 1026-1111) | connect id, session ids, peer ids, negotiated parameters, `duplicatePeers` | CONNECT, VERIFY_CONNECT, ACK | both sides agree, old datagrams are ignored |
| **throttle and bandwidth** (`peer.c` 61-90; `host.c` 290-501) | throttle values, data totals, `recalculateBandwidthLimits` | `enet_peer_throttle`, `enet_host_bandwidth_throttle` | limits are respected, no division by zero, no wrap |
| **lists** (`list.c`, `list.h`) | linked nodes | insert, remove, move | a node is in one list |
| **time** (`time.h`) | none | comparisons modulo 2^32 | a total order over less than a day |
| **packets** (`packet.c`) | `referenceCount` | create, destroy | destroyed once, after its last use |
| **Bun binding** (`index.ts`, `enet_wrapper.c`) | handles, `released`/`disposed` flags, `runtimeRefs` | every exported call | no use of what is gone, each packet freed once |
| range coder, checksum, sockets, clock, build scripts, example, test | | | see "Not modelled" |

How they interact. The application calls into the host; nothing runs between
calls. `enet_host_service` first reports what waits in the dispatch queue, then
loops: share the bandwidth once a second, send (one pass over the peers:
acknowledgements, timeouts, commands), receive up to 256 datagrams (each a
sequence of commands), send again, report, wait for the socket. It returns as
soon as it has an event. Handlers do not report by themselves: they either fill
the caller's event or put the peer in a state to be reported and link it in the
dispatch queue. `index.ts` always passes an event; ENet's own interface allows
NULL.

The hard behaviours are listed, each at its line, under "hazards" in
`PROJECT.json`: datagrams going on after a peer was reset, one event for a whole
datagram, a flag that says whether a list node is linked, timeouts that cross
late answers, sequence numbers that wrap under retransmission, acknowledgements
that are lost, and things that must eventually happen.

## 2. The modules

| module | what it is |
|---|---|
| `EnetHost` | the host: peer state machine, service loop, calls, commands of remote hosts; its properties |
| `PeerLifecycle` | what the host promises its application: the order of events per slot |
| `EnetHost_proofs` | TLAPS proofs about `EnetHost`: types, counters, events, the dispatch queue, the refinement of `PeerLifecycle` |
| `Handshake`, `MCHandshake`, `Handshake_proofs` | two hosts that connect, lose and repeat connections over a network; the worlds TLC looks at; TLAPS proofs |
| `ReliableChannel`, `ReliableFifo`, `ReliableChannel_proofs` | one channel: sender, network, receiver; what it promises, a fifo; TLAPS proofs |
| `SenderQueue`, `MCSenderQueue`, `SenderQueue_proofs` | what one peer still has to send, with a clock; the settings TLC looks at; TLAPS proofs |
| `IncomingQueue`, `IncomingQueue_proofs` | the receiving side of one channel, all kinds of packet; TLAPS proofs |
| `Unsequenced` | the filter of duplicate unsequenced packets |
| `NumberLemmas` | lemmas of several proofs: numbers counted modulo a size, their windows, induction for folds, sums over finite sets and sequences, what sequences contain |
| `SendLoop` | the loop over the peers in a send pass |
| `Bandwidth` | sharing bandwidth among the peers |
| `EnetTime` | wrapping clocks, timeouts and round trips |
| `EnetList`, `ListOrder` | linked nodes, write by write; the sequences they stand for |
| `Basics_proofs` | TLAPS proofs about the small mechanisms: `EnetList`, `EnetTime`, `Unsequenced`, `Bandwidth` |
| `Bindings`, `Bindings_proofs` | who owns a packet, from `index.ts` down to the reference count; the runtime handles; TLAPS proofs |
| `MCParts` | `Unsequenced`, `SendLoop`, `Bandwidth`, `EnetTime`, `EnetList` and `Bindings` side by side, for TLC |

How they fit together. `EnetHost` is the frame: everything a host does, with
queues and packets abstracted to kinds of command. `SendLoop` and `SenderQueue`
open up its send pass, the first over all peers with queues as numbers, the
second for one peer command by command. `IncomingQueue` and `Unsequenced` open
up the handlers of packets, `Handshake` puts two hosts in the place of the
arbitrary remote one, and `ReliableChannel` joins the two ends of a channel.
`EnetTime` and `EnetList` are what all of them take for granted: times that can
be subtracted, and sequences.

Definitions headed `Faulty:` are not part of any specification. Each stands in
front of the definition it is a wrong version of and keeps, beside the model, a
mistake that the property named with it in `PROJECT.json` ("mutants") detects.

### EnetHost

The variable `host` is the record of everything the C structures hold that the
properties can see; functions from `host` to `host` are the functions of
`peer.c` and `protocol.c` that change a peer (`OnConnect`, `ChangeState`,
`DispatchState`, `ResetQueues`, `Reset`, `Queue`, `NotifyConnect`,
`NotifyDisconnect`, ...), composed as the C code calls them. `phase` is the
place in `enet_host_service` (or `check_events`, `flush`) the call has reached,
`current` the peer that the send loop or the datagram is at, `event` the
caller's event, `withEvent` whether there is one, `closing` the peer to reset
after the flush inside `enet_peer_disconnect` and `enet_peer_disconnect_now`
(their state change is done by `GiveUp`, the flush by the send phase, the reset
by `SendDone`). `app` is what the application can know from its calls and the
events it got.

| phase | code | actions |
|---|---|---|
| idle | between calls | `Connect`, `Send`, `Broadcast`, `Ping`, `ConfigureThrottle`, `BandwidthThrottle`, `Disconnect`, `DisconnectLater`, `DisconnectNow`, `ResetPeer`, `Flush`, `CheckEvents`, `Service` |
| check, dispatch, deliver | `enet_protocol_dispatch_incoming_commands` from its three callers | `DispatchIncoming`, a peer a step |
| throttle | `enet_host_bandwidth_throttle` | `ThrottlePhase` |
| send, resend, flush | `enet_protocol_send_outgoing_commands` | `SendOutgoing`, a peer a step |
| receive | `enet_protocol_receive_incoming_commands` | `ReceiveDatagram`, `ReceiveDone`, `ReceiveFailed` |
| datagram | `enet_protocol_handle_incoming_commands` | `HandleIncoming`, a command a step, `EndDatagram` |
| wait | `enet_socket_wait` | `Wait` |

Abstractions.

* Commands are six kinds and lists are sets of kinds. RELIABLE stands for
  packets, fragments, pings, bandwidth limits and throttle settings, of which
  there can be many, so acknowledging one may leave the kind there. `first` is
  the kind that carries number 1 on channel 0xFF, since `handle_verify_connect`
  removes "number 1", whatever that is.
* A remote host is arbitrary: a datagram holds any commands in any order, an
  acknowledgement may be of any outstanding command or of none, and limits
  change at will. Two restrictions come from ENet itself: a CONNECT is
  never acknowledged, and acknowledged commands come with a sent time.
* Time is nondeterministic: any outstanding command may be found timed out for
  good in a pass, may be sent again (no change here), or neither.
* The passes with `ENET_PEER_FLAG_CONTINUE_SENDING` are merged into the first;
  of what is to be sent everything goes out but packets the windows hold back.
  A socket error ends the pass.
* `dispatchQueue` is a sequence, which is what a chain of nodes stands for as
  long as no node is linked twice (`LinkedOnce`). The first state in which one
  is has no steps any more; `Reached` says which peers a walk from the head of
  the list still meets there, by what `enet_list_insert` has written.
* A packet command completes a packet or does not, a free choice. A peer in
  DISCONNECT_LATER takes no new packets, but a fragment may complete one that
  was begun before (`protocol.c:627-642`, `745-759`).
* Allocation failures, the compressor, the checksum and the intercept callback
  are left out (the binding installs none of the callbacks).

### ReliableChannel

One channel, one direction, connection up. Packets are numbered 1, 2, ... for
the properties; the two hosts only see `SeqNo(n)`, the number modulo
`WindowSize * Windows` (2^16 in ENet). `outgoing`, `unacked`, `windows`, `used`
are `outgoingSendReliableCommands`, `sentReliableCommands`, `reliableWindows`
and `usedReliableWindows`; `held` is `incomingReliableCommands`. Every
comparison of numbers is the code's own, with its additions for the wrap.

The network keeps a datagram until it is dropped or too old: it may deliver it
any number of times, in any order. `Lifetime` says how many newer packets may
be sent while a datagram is still under way. ENet depends on such a bound: a
copy of a packet that arrives 65536 packets later cannot be told from a new
one. The assumption `LifetimeAssumption` states the bound that the windows give,
`Windows - FreeWindows + 1` windows (36864 packets with ENet's constants).

Flow control, throttle and datagram size are a free choice (any prefix of the
list may be sent). A packet refused because of `maximumWaitingData` would be one
not delivered. The acknowledgement is put on the network at once, which an
arbitrary delay covers. `DisconnectLater` lets the receiving application ask for
a late disconnect at any time, from which on ENet discards and still
acknowledges (`peer.c:858`).

### SenderQueue

`peer` holds `outgoingCommands`, `outgoingSendReliableCommands` and
`sentReliableCommands` as sequences, and the fields that go with them. A command
carries its numbers, queue time, attempts, timeout and the packet it is a part
of; `since` (when it was first sent) is only for the properties. `SendPass` is
the turn of a peer in `enet_protocol_send_outgoing_commands`: `CheckTimeouts`,
then `CheckOutgoing`, a fold of `CheckCommand` over both lists merged by queue
time, then a ping if the peer is quiet and `CheckOutgoing` again. A datagram
holds `Capacity` units, a command taking one more than its data. `Continue` is
the next pass of a peer whose datagram was full. An acknowledgement may come for
any command that was sent and brings a new round trip time and throttle, free
choices from small sets (`Settings`). A peer that is given up is reset, which
ends the behaviour.

### IncomingQueue

A sender numbers packets as `enet_peer_setup_outgoing_command` does and the
network delivers any of their commands at any time, any number of times.
`QueueIncoming` is `enet_peer_queue_incoming_command` with its early returns
(leaving, out of the window, behind, already there, no room), its two searches
from the end of a list, and the dispatch that follows, `WalkUnreliable` being
the walk of `enet_peer_dispatch_incoming_unreliable_commands` with the run it
moves and what it drops. Fragments fill the start command (`MarkPart`), which
the first of them creates, whichever it is. `delivered` is what the application
received.

### Handshake

Each slot has its connect id, peer id of the other end, both session ids, the
number of its next reliable command, its throttle settings, the commands it
still sends and those it may send again. `net` keeps every datagram, so that any
old one may arrive at any time; connect ids are numbers that are never used
twice, where the code takes 32 random bits. A datagram is taken or not by peer
id and session id (`Takes`), its commands by the state of the slot. A command
that is sent again goes out under the peer id and the session that its slot has
by then (`protocol.c:1704-1706`). A VERIFY_CONNECT must bring back the connect id
and the throttle settings of its slot, which the application may have changed
meanwhile (`ThrottleConfigure`); if it does not, the attempt is over. A slot that
is up can be ended at once (`DisconnectNow`) or with a DISCONNECT that the other
end acknowledges before it reports (`Disconnect`, DISCONNECTING and
ACKNOWLEDGING_DISCONNECT). `Restart` creates a host anew on its address, which
forgets everything. Left out are `enet_peer_disconnect_later`, the pending states
of calls without event (both are in `EnetHost`), the channel count that
VERIFY_CONNECT must have in range, and all packets but unsequenced ones.
`before` and `answer` in a slot are not in the code: they name the connection the
slot had last and which answer to its CONNECT a connection comes from.

Whether datagrams may repeat, how many calls are made and who makes them differ
between the five worlds of `MCHandshake`.

### The small mechanisms

`MCParts` puts `EnetTime`, `EnetList`, `Unsequenced`, `SendLoop`, `Bandwidth`
and `Bindings` side by side; none touches the variables of another and each
behaviour is about one of them, so that their states add up and do not
multiply. `Bindings` has two parts, packets and the runtime, that are treated in
the same way.

* `EnetTime`: counters modulo `Modulus` with the comparisons of `time.h`, one
  command and its timeout, and the round trip restored from the 16 bits of a
  time. `age`, `idle` and `measured.true` are the times that really went by.
* `EnetList`: `next` and `previous` of every node, assigned in the order in which
  `list.c` writes them; a variable `linked` for what the callers believe.
* `Unsequenced`: packets have group numbers that wrap; the receiver has one
  window of bits. `Lifetime` and `Burst` bound what the network does, as for
  `ReliableChannel`: `NetworkAssumption` is what the windows can cope with, a
  packet under way while `Windows - FreeWindows` windows of newer ones are sent,
  and no more than `FreeWindows - 1` windows lost in a row.
* `SendLoop`: peers with a number of datagrams to send, `sendPass` and
  `continueSending`, refusals of the socket, peers given up.
* `Bandwidth`: `enet_host_bandwidth_throttle` with one step for each walk over
  the peers, in units of what fits in the interval. One constant stands for
  `packetThrottleAcceleration` and `packetThrottleDeceleration`, which have the
  same default.
* `Bindings`: memory with reference counts, `Packet` objects with their pointer
  and flag, events, the queues of each peer. Freed memory may be allocated
  again. A packet that is sent or broadcast is taken by any of the connected
  peers it is for, since `enet_peer_send` may refuse for its channel or size; if
  none takes it, it is freed. `Rewrap` is `Packet.release` and one
  `Packet.fromPointer` of what it returned.

## 3. What is checked

| run | instance | properties |
|---|---|---|
| `host_pair` | two peers, an event in every call, reliable packets | `TypeOK`, `CountersMatch`, `QueuedOnce`, `NoLostEvent`, `NoStrandedPeer`, `ViewAgrees`, `ImplementsLifecycle`, `EventKept` |
| `host_live` | one peer, `FairSpec`, both kinds of packet | `ConnectSettled`, `ConnectAnswered`, `DisconnectCompletes` |
| `null_event` | two peers, calls with and without event | `NoLostEvent`, violated |
| `disconnect_reported` | one peer | `DisconnectIsReported`, violated |
| `handshake` | two hosts, five worlds | `Agreement`, `OneSlotEach`, `OldOnesRefused` |
| `channel_wrap` | 6 windows of 2 numbers, 15 packets | `ListsAgree`, `NothingForgotten`, `ImplementsFifo` |
| `channel_live` | the same windows, 4 packets, 2 losses, `FairSpec` | `ChannelDrains` |
| `sender_flow` | one channel, 4 windows of 2 numbers, two settings | `TypeOK`, `InTransitCounted`, `NextTimeoutOfFirst`, `Findable`, `WholePackets`, `GivenUpInTime`, `PassKeepsReliable`, `GivenUpForSilence` |
| `incoming_queue` | 6 windows of 3 numbers, 4 packets of any kind | `FaithfulDelivery`, `NothingReadyWaits`, `HeldIsBounded` |
| `waiting_leak` | unreliable fragments only | `RefusedWhenFull`, violated |
| `mechanisms` | the six small modules | `TypeOK`, `TimeoutsOnTime`, `RoundTripExact`, `Threaded`, `Ordered`, `NeverTwice`, `PlaceKept`, `CallsServe`, `NotOverwhelmed`, `OwnedOnce` |
| `bandwidth_unlimited` | three peers | `NoneUnlimited`, violated |

Several of these are conjunctions of named parts; the parts say what each is
about.

* `host_pair` explores 1.6 million states: everything two slots can do. Two are
  needed for the order of the dispatch queue, for a datagram of one peer between
  two steps of another, for one peer being given up while the flush serves the
  other, and for counters above one. Nothing in `EnetHost` grows, so no bound is
  put on the length of a behaviour. Peers influence one another only through the
  queue, the counters and the single event; a third adds no new kind of step.
* `null_event` is where CONNECTION_PENDING, CONNECTION_SUCCEEDED and timed-out
  ZOMBIEs occur. In it a peer's node can be linked twice (below), which takes one
  peer; that the event of another is lost by it takes a second, linked between
  the two places.
* `channel_wrap`: with 2 numbers a window and 6 windows the numbers wrap after
  packet 11; 15 packets go past the wrap by more than a window, so windows are
  used a second time. 3 free windows keep the proportion of ENet (8 of 16) and
  satisfy the assumption `FreeWindows + 2 <= Windows`. `Lifetime = 8` is the
  largest that `LifetimeAssumption` allows. `Backlog = 1` only limits how far the
  application runs ahead of the first sending, and no loss is needed: a network
  that need not deliver may as well never do so. (8 windows with 20 packets and
  4 free windows have been run as well, with the same result.)
* `channel_live`: two losses are enough to lose a packet and the acknowledgement
  of its retransmission. Wraps are left to `channel_wrap`.

* `handshake`: one world for each way in which connections get mixed up. Two
  attempts into two slots with every datagram repeated without limit
  (`Repeating`); three attempts through one slot, one more than it takes to meet
  a datagram of the connection before the last, with packets and a command that
  is sent again (`Reordering`); a host created anew (`Restarting`);
  THROTTLE_CONFIGURE at any time with a command that is sent again
  (`Configuring`); both hosts calling (`Mutual`). Two bits of session id
  (`SessionCount = 4`) as in ENet. A CONNECT gets at most two slots
  (`answers = 2`): once while its connection lives, and once more after that
  has ended.

  What `OldOnesRefused` promises is narrow, and on purpose: the datagrams of the
  connection that a slot had last, both ends known, are not taken for those of
  the one it has. A copy of an old CONNECT that arrives after its connection
  ended is answered again (`protocol.c:322-332`), and the answer is a connection
  of its own, which never comes up at the caller. Its session id can be the one a
  newer connection in that slot looks for, and then its VERIFY_CONNECT passes
  `protocol.c:1049-1050` and is acknowledged, and its DISCONNECT ends the newer
  connection. And a slot that is still CONNECTING looks at no session: a late
  VERIFY_CONNECT of an earlier attempt ends the attempt. The worlds have such behaviours; no text of the repository promises
  that they cannot be, and `Agreement` and `OneSlotEach` hold in spite of them.
* `sender_flow`, first setting: up to four commands of packets of every kind, one
  of two reliable fragments, one of two unreliable ones, over windows of two
  numbers, a flow control window of 6 and datagrams of 5 units, so that each of
  the three reasons to hold a packet back occurs, and occurs together with
  timeouts. Second setting: two commands over fifteen units of time with the
  real back-off, limits 3 and 4 and round trips that change, for the properties
  about giving up.
* `incoming_queue`: numbers start at 16 of 18, so that four packets, two numbers
  for a fragmented one, cross the wrap; `UnreliableLimit = 2` is where a sender
  would have to send something reliable first; 5 units of waiting data are less
  than four packets can fill.
* `mechanisms`: a clock of 24 with half range 10 in which a timeout of 2 and a
  pause of 10 wrap everywhere; 2 lists and 3 nodes, which makes runs of every
  length in, before and behind every position; 34 packets over 16 groups, twice
  around, with the largest `Lifetime` (9) and `Burst` (6) that
  `NetworkAssumption` allows (with one more of either, TLC finds `PlaceKept`
  violated); 3 peers of which one is refused, in front of the others; 3 clients
  with rates of none, small and large; 2 packets' memory, 3 objects, 2 peers.

The bounded runs stop when their calls or packets are used up, all is
acknowledged and the datagrams are gone, hence `CHECK_DEADLOCK FALSE` there. The host never stops: the
application can always call.

### Fairness

`EnetHost!Fairness`: the application keeps calling `enet_host_service` with an
event (strong, since other calls may come in between); inside a call each phase
goes on (weak: it is one thread); the receive loop ends, for it reads at most
256 datagrams; the wait ends at its timeout; and a CONNECT or DISCONNECT without
an answer is given up, for `check_timeouts` compares with `timeoutMaximum`. No
fairness is assumed of the remote host or the network, nor of timeouts in other
states, so nothing is claimed for how long DISCONNECT_LATER lasts.

`ReliableChannel!Fairness`: both hosts keep servicing: what may be sent is sent,
every timeout comes, what is not lost arrives. `DrainingNext` lets a timeout
come only when nothing that the windows allow is left to send, which is the
order of a send pass whose flow control window and datagrams are large enough.
It is needed: when they are not, a packet that the receiver is not yet willing
to keep can time out again and again in front of the older packet the receiver
waits for.

`SendLoop!LoopFairness`: the application keeps servicing, a call goes on (weak),
and a peer whose datagrams are refused is given up in the end, since its
commands are never acknowledged and their timeouts come at its turns (strong: a
turn that is taken before need not be one with a timeout).

### What the checks found

* **A disconnect without its event** (`disconnect_reported`). The comment on
  `enet_peer_disconnect` (`peer.c:534`) promises a DISCONNECT event. For a peer
  that is not yet connected, or connected but not yet reported, the function
  sends one unsequenced DISCONNECT and resets the slot (`peer.c:567-571`): no
  event comes.
* **An event that is never reported** (`null_event`), with `event == NULL` only.
  `enet_peer_reset` clears the flags (`peer.c:431`) before
  `enet_peer_reset_queues` tests `NEEDS_DISPATCH` (`peer.c:320`), so a peer that is
  in the dispatch queue stays in it; the next time it has something to report
  its node is linked again. In the run one peer times out in a call without
  event and is reset by the application, connects again, and ends again after the
  other peer was linked behind it. `enet_list_insert` writes new pointers into the
  one node: what stood between its two places is cut off, and taking the node
  out does not even move the head of the list on. `enet_host_check_events`, which
  "checks for any queued events" (`protocol.c:1759`), no longer finds the other
  peer. `host_pair` shows (`QueuedOnce`) that this does not happen through
  `index.ts`, whose calls all pass an event: a peer that stays behind is taken off
  the queue by the dispatch loop before anything can link it again.
* **Waiting data that is never given back** (`waiting_leak`). `enet.h:402` calls
  `maximumWaitingData` the buffer space for packets "waiting ... to be
  delivered", but what `enet_peer_remove_incoming_commands` drops stays counted:
  only `enet_peer_receive` subtracts (`peer.c:252`). Each incomplete unreliable
  packet in fragments that is dropped costs its size until the connection ends,
  and after enough of them every packet is refused.
* **Peers told that there is no limit** (`bandwidth_unlimited`). A peer without
  an outgoing limit of its own counts as one that uses nothing of the host's
  incoming bandwidth (`host.c:466`) and is then told its own value, 0, which
  stands for no limit (`host.c:497`).

Seen while modelling, without a run of their own:

* `enet_peer_throttle_configure` on a free slot (`peer.c:42-59`) takes sequence
  number 1 and sits in front of the CONNECT; the other host ends the datagram at
  a command for no peer, so the attempt times out. That is why `ConnectSettled`
  speaks only of connections whose CONNECT is number 1.
* A packet that closes a gap is refused while what waits behind the gap fills
  `maximumWaitingData` (`peer.c:956`): the channel stands still until the sender
  gives the connection up.
* `timeoutMaximum` is looked at only when a command's own timeout comes: a silent
  peer lives up to three times as long (`GivenUpInTime` is that bound).
* With `packetThrottle` 0 still one unreliable packet in 32 is sent, since the
  counter is compared after it wrapped (`protocol.c:1524-1527`). All unsequenced
  packets have the numbers 0 and 0 and are taken for parts of one another: a
  drop takes all that follow in the list. A command of channel 0xFF would be
  taken for one too once its number has wrapped to 0; it has no packet, and
  `protocol.c:1533` reads through a null pointer. `Drop` has this as the state
  `crashed`, which the small runs do not reach.
* The session ids do not survive a restart: datagrams for the process before
  may be taken by the new one. `Stayed` excludes it from the properties.
* More than a day without a call of `enet_host_service` turns comparisons of
  times around (`MaxPause` is that bound), and bandwidth times the time passed
  overflows 32 bits from about 4.29 MB/s on (`host.c:363`, `host.c:396`).

## 4. What is proved

Every theorem is about its module's specification with constants of any value
that satisfies the module's assumptions: any number of peers, packets, windows,
slots, calls, clocks of any width. They are the results of `PROJECT.json`
("theorems"); what the runs check on small instances for the same property is
section 3.

### EnetHost

For every number of peers (`PeerCountAssumption`), every choice of event modes
(`EventModesAssumption`) and packets (`PacketsAssumption`).

* `TypeCorrect`: `Spec => []TypeOK`. One lemma per host function (`UnlinkType`,
  `ResetType`, `TransmitType`, ...), one per action, combined in the step lemma.
  It rules out that the event of a returning call names no peer, that the send
  loop leaves the table, and that an unacknowledged command is kept for an
  acknowledgement.
* `CountersCorrect`: `Spec => []CountersMatch`. The inductive invariant is
  `Sound(host)`, that is `host \in HostType /\ Counted(host)`. `CountersMatch`
  alone is not inductive because cardinalities change by one only for finite
  sets of peers with states of the right type. The heart is that the five
  primitive changes keep it: `OnConnect` and `OnDisconnect` followed by the
  change of state move one peer into or out of `Connected` and change both
  counters accordingly; a change of `limited` while a peer is connected is
  matched by `HandleBandwidthLimit`, and `SetLimit` is otherwise used only on
  peers that are not connected; queue operations touch neither. Each larger
  function and each action is then a composition.
* `EventsQueued`, `PeersAttended`, `ConnectsSettled`: `NoLostEvent` (if every call
  asks for an event), `NoStrandedPeer` and `ConnectSettled`. They share the
  invariant `SlotsInv`,
  which is stated slot by slot so that a step that is about one slot leaves the
  others alone: a peer flagged for dispatch is in the queue, a peer with
  something to report is flagged (`Kept`), and one that waits for an answer has
  the command for it outstanding (`Attended`). `Attended` has an exception, the
  peer that `enet_peer_disconnect` is about to reset, which exists only during
  the flush inside the call. `ConnectSettled` rests
  on `Unsent`: a CONNECT stands in the outgoing list only until the call's first
  send pass has come to its peer, and datagrams are read after that pass, so
  that the VERIFY_CONNECT finds it among the sent commands.
* `LostOnlyByDoubleLink`: calls without event included, `NoLostEvent` holds as long
  as no node was linked twice. `null_event` shows that it can be, and what then
  happens.
* `QueueIsList`: `QueuedOnce`, if every call asks for an event
  (`FALSE \notin EventModes`), as `index.ts` does. Without the hypothesis the
  property is false ("What the checks found"). `enet_peer_reset` leaves a peer
  in the queue with its flag cleared; the invariant `LinksInv` says that such a
  node (`Stale`) belongs to a slot that no handler links, and that it is there
  only in the phases before the dispatch loop has emptied the queue.
* `EventsKept`: `Spec => EventKept`, an action property. Nothing in
  `handle_incoming_commands` looks at the event before it handles the next
  command, so the property rests on the states: the inductive invariant
  `OneEvent` says that inside a call an event exists only while the rest of its
  datagram is read, and that the datagram's peer is then in one of the four
  states `Told`, from which no command produces an event. The two handlers that
  report (`HandleVerifyConnect`, `HandleAcknowledge`) need a state outside of
  `Told` and leave the peer in it; no other handler leads out of it.
* `ViewsAgree`: `ViewAgrees`. The property is about the moments between calls;
  inside a call the state is ahead of the application by the event that is on
  its way. `ViewInv` therefore relates a peer's state to what the application
  will know once it has that event (`Known`), and says that the event is one the
  application is ready for.
* `LifecycleImplemented`: `Spec => ImplementsLifecycle`, the refinement of
  `PeerLifecycle`. With `ViewInv` and `OneEvent` every step is one of
  `PeerLifecycle` or a stutter; the steps that matter are those at which a call
  returns its event.

### ReliableChannel

For windows of every size, every number of them and of packets, under the
assumptions of the module.

* `ListsCorrect`, `NothingLost`, `FifoImplemented`: `ListsAgree`,
  `NothingForgotten` and the refinement of `ReliableFifo`. The hosts see numbers
  modulo 65536, the invariant speaks of the packets: `Abs(n)` is the window of
  packet n before the wrap. `Inv` has six parts. `OutInv`: the lists hold each
  packet once, the new ones in order behind those that are sent again.
  `CountInv`: `reliableWindows` are cardinalities. `SpanInv`: what is not
  acknowledged lies within `Windows - FreeWindows - 2` windows, because
  `protocol.c:1455-1459` starts a window only if the one before is not full of
  commands never acknowledged and the windows ahead are unused.
  `NetInv`: nothing is older than `Lifetime`. `RecvInv`: what the receiver holds
  is ahead of what it delivered and within its free windows. `AckInv`: what was
  acknowledged was kept, and the sender is at most `FreeWindows - 1` windows
  ahead of the receiver. This last part is the heart: a sender that starts a
  window must have had an acknowledgement for a packet of an earlier one, which
  the receiver had within its own free windows. From the six parts follows that
  every number the receiver compares belongs to one packet only, so that its
  tests modulo 65536 decide as if numbers never wrapped.

### SenderQueue

For any number of channels, windows and numbers, any size of datagrams and of the
flow control window, any timeouts and limits, and settings with any packets,
round trips and throttles (the assumptions of the module).

* `TypesHold`, `CountsHold`, `FirstTimeoutHolds`: `TypeOK`, `InTransitCounted`
  and `NextTimeoutOfFirst`. None of them is inductive: that an acknowledged
  command gives back exactly its data and its place in a window needs that it
  stands in one place, and that is a matter of all lists together. The
  inductive invariant `Inv` is therefore a balance, `Accounted`: the three lists
  have as many places as there are commands in them and no two commands have the
  same queue time, so that nothing is there twice; the window counters are
  the cardinalities of what was sent (`InUse`), and `inTransit` is the sum of
  the data in the sent list and within the window (`Transit`). To it belong that
  `nextTimeout` is the one of the first sent command (`FirstTimed`), that queue
  times are handed out in order (`Dated`), and that `earliestTimeout` is no
  earlier than the first sending of some command that is still unacknowledged.
* The work is inside the pass, which is one action with two loops over lists that
  it changes. Both are folds, and by `FoldRuns` of `NumberLemmas` a fold is a
  run of turns. `Checked` is the balance in the middle of `check_timeouts`:
  what was retried stands in front of what waited, and the rest of the sent
  list is still to come. `WalkGood` is the balance between two turns of
  `check_outgoing_commands`, with what was held back in lists of its own, and
  `InHand` the one with a command taken off and not yet put anywhere. The step
  with content is a retry: the command leaves the sent list with
  its data, so that `inTransit` goes down, and keeps its place in the window, so
  that `reliableWindows` stays; sent again it adds its data and no place.
* `PassesKeepReliable`: `PassKeepsReliable`. The balance carries a set K of
  queue times that must not go missing; the theorem is the balance of a pass
  with what waits before it as K. What the throttle drops is unreliable, and so
  never in K.
* `GivenUpAfterSilence`: `GivenUpForSilence`. `check_timeouts` gives a peer up
  by `earliestTimeout`, which the pass finds as a minimum and which survives
  from pass to pass. The proof shows that a command as old as that is among the
  sent ones. It is not always the command whose timeout came: the back-off that
  `protocol.c:1373-1376` looks at may be another's, and the property says so
  (attempts that tried to prove it for one command failed for that reason).
* `SentIsFound`: `Findable`, while pings are told apart by their numbers
  (`PingsApart`). The search of `protocol.c:196-218` through what waits to be sent
  again ends at the first reliable command that was never sent, and takes the
  first with the right number. Both are right only because of the order of the
  lists, and that is the part `Ordered` of the invariant: in each list what was sent
  stands in front of what was not (`RetriedFirst`), and of what was sent no two
  have the same channel and number (`Apart`). `Apart` is not inductive: a number
  comes round after all windows. It follows from what the check of the
  windows at `protocol.c:1455-1460` is for. What was not yet sent to a channel has
  consecutive numbers that end with the last one given (`Chain`), and the first
  of them either begins a window or is larger than all that were sent of its own
  (`Fresh`). A window is begun only while `reliableWindows` counts nobody in it, so
  that within a window numbers only go up (`OrderedFirst`). All this is
  shown through the two loops, where a command in hand stands between what was
  passed over and what is ahead (`Outs`, `Rels`, `HandOrdered`), and needs that a
  pass which passes over one reliable packet passes over all behind it (`Parted`).
  Channels thus need no hypothesis. Pings do, because channel 0xFF has no windows:
  after 65536 pings, all without an answer, two have the same number, and the
  acknowledgement of one removes the other (TLC shows it with 3 numbers and 4
  pings). Both are pings and leave one behind, so that it does no harm.

### IncomingQueue

For any number of packets, any windows and any limit on the waiting data.

* `TypesHold`, `HeldBounded`: `TypeOK` and `HeldIsBounded`. The inductive
  invariant `HeldInv` says that what the three lists hold is counted in `waiting`
  and that `waiting` is at most one packet in fragments above the limit. The work
  is in the walk over the unreliable list, a fold whose record names positions:
  what it moves and what it leaves are different positions of one list
  (`WalkOverIs`), so that together they weigh no more than the list did
  (`SelectedSums`), whatever is dropped between them. Insertion and the reliable
  walk cut a sequence in two and put it together again (`Inserted`, `Parted`).
* `NothingReady`, `DeliveredFaithfully`: `NothingReadyWaits` and
  `FaithfulDelivery`, under `Distinct`: no number is used twice, nor comes back
  into the window of those that may arrive. This is the one hypothesis that is
  not an assumption of the module; it holds for the constants of the run
  (8 < 12), and for ENet's 16 windows of 4096, 8 of them free, as long as fewer than
  36864 numbers are sent. The network of the module keeps a datagram for good, so
  that without it `FaithfulDelivery` is false: with three windows of one number,
  four packets are enough for a datagram of the last round to be taken for a
  new one. `NothingReadyWaits` needs the lists to be sorted, which it gives. The
  invariant `ChannelInv` has three parts. `SenderInv`: a packet has
  a place on a line, the distance of its number from the first (`Off`), and of
  two sequenced packets the one sent first lies `Below` the other. `Good`: the
  reliable list ascends above the channel's number and its head is not in line;
  the unreliable list ascends in the `Future` of the channel's two numbers, and
  none in it is ready; what waits for the application is whole. `History`: what
  the application got or will get is the `Past` of those numbers, each packet
  once, in order, every reliable one up to there among it. All that is past was
  sent before all that is to come (`PastBeforeFuture`), so what a dispatch adds
  goes behind what was there (`HistoryGrows`). A search that stops where the
  code's comparisons tell it to puts a command at the place of its packet
  (`StopIs`, `InsertedAscending`): the comparisons of wrapped numbers agree with
  distances. The walk over the unreliable list has an invariant of its own,
  `WalkInv`: all that is ready up to here was moved or belongs to the run that
  is to be moved, what is kept waits for fragments, the channel's number is that
  of the last that was moved (`WalkOverRight`).

### Unsequenced

* `NeverQueuedTwice`, `KeepsItsPlace`, `FilterTyped`, under `NetworkAssumption`.
  `FilterInv` says that the window is the one of the newest packet, with a bit
  for each packet in it that was queued, and nothing newer was queued. The work
  is to show that the two comparisons of `protocol.c:486-495`, in wrapped
  numbers, tell a packet of an older window from one ahead; the assumption is
  what they need, and both of its bounds are tight.

### Handshake

* `OneSlotPerAttempt`, `HandshakeTyped`: `OneSlotEach` and `TypeOK`, with any
  number of restarts, calls and repetitions. `HandshakeInv` says of each slot
  what belongs to its state (`Held`), that no two slots of a host have the same
  connect id, and that the attempts of the two hosts have different ids,
  wherever these still are: in a slot, a queue or an old datagram. A datagram is
  a fold of its commands, so that its lemma is an induction over them. A command
  may be sent again any number of times, and a CONNECT be given a slot again each
  time its connection has ended.

### Bindings

* `EveryPacketOwnedOnce`, `BindingsTyped`, for every number of objects, events,
  peers and handles. `PacketInv` says that the reference count of a packet is
  the number of commands that hold it, that a packet held by none has exactly
  one object and every other packet none, and that two events never share an
  object; `RuntimeInv` that the library is initialized while a handle is open.
  Resets and a host's end drop all the commands of a peer, or of all peers, at
  once: `enet_packet_destroy` is called for exactly the packets whose last
  holders these were.

### Lists and time

* `ListsThreaded`: `ListSpec => []Threaded`, for every set of lists and nodes.
  The inductive invariant adds the types. Each function of `list.c` is shown to
  write what the textbook says it writes, and then, cell by cell, that the two
  directions agree. The step with content is `enet_list_move`: the node in front
  of the position is read after the run was taken out, which is another node
  than before exactly where the position is the run's own successor; and no
  other neighbour is in the run, since `previous` undoes `next`.
* `TimeoutsExact`: `TimeSpec => []TimeoutsOnTime`, for every modulus, overflow
  threshold, timeout and pause with `MaxTimeout` and `MaxPause` at most
  `Overflow` and `2 * MaxTimeout + MaxPause` at most `Modulus`
  (`TimesAssumption`). The inductive invariant `TimeInv` says that while the
  command is outstanding, `sentTime` is `now - age` and `nextTimeout` is
  `sentTime + timeout`, both modulo the clock, and that `age` is below
  `timeout` plus the pause since the host was last serviced. From it follows
  `DueExact`: the test of `protocol.c:1632` and `1367` in wrapped times is
  `age >= timeout`, no matter where the clock wraps in between.
* `RoundTripsExact`: `RoundTripExact`, for every width of the clock and of the
  stamp: a round trip is measured as long as it was or the acknowledgement is
  ignored, which happens to none within half the range of a stamp.

### Bandwidth

* `NeverOverwhelmed`: `BandwidthSpec => []NotOverwhelmed`, for every finite set
  of peers and all bandwidths, loads and throttle settings, with any number of
  connections, disconnections and changes between two calls. `Total` is a fold
  of the library; `TotalIsSum` shows that it is the sum that `NumberLemmas`
  reasons about. The inductive invariant `BandwidthInv` has a part for each
  phase of a call. While peers are capped (`CapInv`), what is left of the
  bandwidth and of the data is what the host has minus the bandwidths of the
  capped peers, and `peersRemaining` counts the others. A peer is capped when
  the throttle lets through more than it can take, so what one walk takes off
  is at most the throttle's share of the data of these peers, and the bandwidth,
  which is unsigned, does not wrap (`host.c:416`); no more data is taken off
  than there is because a capped peer has at least as much data as bandwidth
  (`host.c:417`). After the walks (`LimitsHold`) the capped peers use what they
  can take and the rest share what is left: together no more than the host's
  bandwidth. While portions are settled (`DivideInv`), a peer is settled for
  less than an equal portion of what is left, so there is enough for the rest,
  and when no peer is settled any more the portion times the number of the rest
  is what is left. `ToldInv` keeps this between calls: a change that could
  break it sets `recalculateBandwidthLimits`, and a peer that goes takes its
  part with it.

### Where the proofs stand

`NumberLemmas` has the arithmetic the proofs share: quotients and remainders by
a number of unknown value, distances modulo a size, windows; and induction, for
which sets take the place of predicates: a set of numbers with 0 and the
successors of its members has them all, by the well-foundedness of the numbers,
and so the recursive function inside a fold exists and can be reasoned about.
The same for finite sets gives sums, which do not depend on the order of the
summands, add up over disjoint sets, and are bounded as their summands are.
Assumptions on constants are those of the modules; each is checked by TLC for
the constants of the runs.

Only model-checked are

* of `IncomingQueue`, nothing of the run; beyond one round of numbers its
  theorems do not go (`Distinct`, above).
* of `SenderQueue`, `WholePackets`, which needs an order of its own (the parts of a
  packet side by side, the first in front, through both loops), and
  `GivenUpInTime`, a bound that depends on how the timeouts of the run add up.
* of `Handshake`, `Agreement` and `OldOnesRefused`: session ids have two bits, and
  one that comes round makes an old datagram look like a new one. They hold for
  the number of attempts that the run has.
* `Ordered` of `EnetList`, which needs the sequences that a chain of pointers
  stands for, an induction over data; and `TypeOK` of `MCParts`, the types of
  its parts side by side.
* liveness, which is out of the prover's reach, as is ENABLED: `ConnectAnswered`,
  `DisconnectCompletes`, `ChannelDrains`, `CallsServe` and the fairness they
  need.

## 5. Not modelled

* The range coder and the checksum transform bytes and keep no state between
  datagrams. `unix.c`, `win32.c` and `callbacks.c` are system calls and
  allocation. Scripts, example and smoke test have no state of the program.
* Of the handshake, the numbers that are negotiated (channel count, MTU, window
  sizes) and addresses: both need no interleaving to be right or wrong; and
  `enet_peer_disconnect_later`, which is in `EnetHost`.
* Of the binding, getters and setters, `Peer` objects that are used after their
  host is gone (a bare pointer, nothing checks it), packets over memory of the
  caller (`NO_ALLOCATE`), deinitializing with hosts alive, and pointers that
  `Packet.fromPointer` gets twice or from elsewhere, or that nobody wraps again
  after `Packet.release`: these are the application's own.
* Allocation failures, the intercept callback, IPv6 and broadcast.
* 32-bit arithmetic of bandwidths and of the window a BANDWIDTH_LIMIT sets.

## 6. Plan

Extending the model:

1. A third host in `Handshake`, for addresses and `duplicatePeers`, and the
   negotiated numbers.
2. `SenderQueue` and `IncomingQueue` joined over one network, with
   `ReliableFifo` as the abstract specification, flow control and
   `totalWaitingData` in it; the standstill behind a gap as a liveness question.
3. `Bandwidth` in words of 32 bits.

Proving more:

1. `FaithfulDelivery` of `IncomingQueue` for any number of rounds, over a network
   that gives a datagram a lifetime, as `ReliableChannel` does.
2. `WholePackets` of `SenderQueue`, along the same loops as `Findable`.
