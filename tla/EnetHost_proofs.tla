--------------------------- MODULE EnetHost_proofs ---------------------------
(***************************************************************************)
(* For every number of peers.  First the types of EnetHost, and the        *)
(* counters of connected and of bandwidth limited peers.  Then, resting on *)
(* what a step does to the one slot it is about: no event is lost, no peer *)
(* waits for ever for a command that nobody sends, no node is linked       *)
(* twice, and the events of every slot come in the order PeerLifecycle     *)
(* promises.                                                               *)
(***************************************************************************)
EXTENDS EnetHost, FiniteSetTheorems, SequenceTheorems, TLAPS

\* Taking a peer out of the dispatch queue leaves a queue of peers.
LEMMA UnlinkType ==
    ASSUME NEW q \in Seq(Peers), NEW p \in Peers
    PROVE  Unlink(q, p) \in Seq(Peers)
<1>1. CASE ~ \E i \in 1 .. Len(q) : q[i] = p
  BY <1>1 DEF Unlink
<1>2. CASE \E i \in 1 .. Len(q) : q[i] = p
  <2> DEFINE k == CHOOSE i \in 1 .. Len(q) : q[i] = p
  <2>1. k \in 1 .. Len(q)
    BY <1>2
  <2>2. Unlink(q, p) = SubSeq(q, 1, k - 1) \o SubSeq(q, k + 1, Len(q))
    BY <1>2 DEF Unlink, RemoveAt
  <2> HIDE DEF k
  <2>3. \A i \in 1 .. Len(q) : q[i] \in Peers
    BY ElementOfSeq
  <2>4. SubSeq(q, 1, k - 1) \in Seq(Peers)
    BY <2>1, <2>3, SubSeqProperties
  <2>5. SubSeq(q, k + 1, Len(q)) \in Seq(Peers)
    BY <2>1, <2>3, SubSeqProperties
  <2> QED BY <2>2, <2>4, <2>5, ConcatProperties
<1> QED BY <1>1, <1>2

LEMMA LimitType ==
    ASSUME NEW h, NEW p
    PROVE  Limit(h, p) \in Int
  BY DEF Limit

LEMMA OnConnectType ==
    ASSUME NEW h \in HostType, NEW p \in Peers
    PROVE  OnConnect(h, p) \in HostType
<1> DEFINE n == h.connectedPeers + 1
           b == h.bandwidthLimitedPeers + Limit(h, p)
<1>1. n \in Int /\ b \in Int
  BY LimitType DEF HostType
<1> HIDE DEF n, b
<1>2. [h EXCEPT !.connectedPeers = n, !.bandwidthLimitedPeers = b] \in HostType
  BY <1>1 DEF HostType
<1> QED BY <1>2 DEF OnConnect, n, b

LEMMA OnDisconnectType ==
    ASSUME NEW h \in HostType, NEW p \in Peers
    PROVE  OnDisconnect(h, p) \in HostType
<1> DEFINE n == h.connectedPeers - 1
           b == h.bandwidthLimitedPeers - Limit(h, p)
<1>1. n \in Int /\ b \in Int
  BY LimitType DEF HostType
<1> HIDE DEF n, b
<1>2. [h EXCEPT !.connectedPeers = n, !.bandwidthLimitedPeers = b] \in HostType
  BY <1>1 DEF HostType
<1> QED BY <1>2 DEF OnDisconnect, n, b

LEMMA ChangeStateType ==
    ASSUME NEW h \in HostType, NEW p \in Peers, NEW s \in State
    PROVE  ChangeState(h, p, s) \in HostType
<1> DEFINE g == IF s \in Active THEN OnConnect(h, p) ELSE OnDisconnect(h, p)
<1>1. g \in HostType
  BY OnConnectType, OnDisconnectType
<1> HIDE DEF g
<1>2. [g EXCEPT !.state[p] = s] \in HostType
  BY <1>1 DEF HostType
<1> QED BY <1>2 DEF ChangeState, g

LEMMA ResetQueuesType ==
    ASSUME NEW h \in HostType, NEW p \in Peers
    PROVE  ResetQueues(h, p) \in HostType
  BY UnlinkType DEF ResetQueues, HostType

LEMMA NeedsDispatchType ==
    ASSUME NEW h \in HostType, NEW p \in Peers
    PROVE  NeedsDispatch(h, p) \in HostType
<1>1. Append(h.dispatchQueue, p) \in Seq(Peers)
  BY AppendProperties DEF HostType
<1> QED BY <1>1 DEF NeedsDispatch, HostType

LEMMA SetLimitType ==
    ASSUME NEW h \in HostType, NEW p \in Peers, NEW l \in BOOLEAN
    PROVE  SetLimit(h, p, l) \in HostType
  BY DEF SetLimit, HostType

LEMMA QueueType ==
    ASSUME NEW h \in HostType, NEW p \in Peers, NEW c \in Command
    PROVE  Queue(h, p, c) \in HostType
  BY DEF Queue, HostType, Command, Acknowledged

LEMMA QueueAllType ==
    ASSUME NEW h \in HostType, NEW S, NEW c \in Command
    PROVE  QueueAll(h, S, c) \in HostType
  BY DEF QueueAll, HostType

LEMMA DispatchStateType ==
    ASSUME NEW h \in HostType, NEW p \in Peers, NEW s \in State
    PROVE  DispatchState(h, p, s) \in HostType
  BY ChangeStateType, NeedsDispatchType DEF DispatchState

LEMMA ResetType ==
    ASSUME NEW h \in HostType, NEW p \in Peers
    PROVE  Reset(h, p) \in HostType
<1> DEFINE g == [OnDisconnect(h, p) EXCEPT !.state[p] = "DISCONNECTED",
                                           !.limited = @ \ {p},
                                           !.first[p] = "NONE",
                                           !.needsDispatch = @ \ {p}]
<1>1. g \in HostType
  BY OnDisconnectType DEF HostType, State
<1> QED BY <1>1, ResetQueuesType DEF Reset

LEMMA BeginDisconnectType ==
    ASSUME NEW h \in HostType, NEW p \in Peers
    PROVE  BeginDisconnect(h, p) \in HostType
<1> DEFINE g == OnDisconnect(Queue(ResetQueues(h, p), p, "DISCONNECT"), p)
<1>1. g \in HostType
  BY ResetQueuesType, QueueType, OnDisconnectType DEF Command
<1>2. [g EXCEPT !.state[p] = "DISCONNECTING"] \in HostType
  BY <1>1 DEF HostType, State
<1> QED BY <1>2 DEF BeginDisconnect

LEMMA AcknowledgeType ==
    ASSUME NEW h \in HostType, NEW p \in Peers, NEW c, NEW g \in Acknowledge(h, p, c)
    PROVE  g \in HostType
  BY DEF Acknowledge, HostType

LEMMA NotifyConnectType ==
    ASSUME NEW h \in HostType, NEW p \in Peers, NEW e
    PROVE  NotifyConnect(h, p, e) \in HostType
  BY ChangeStateType, DispatchStateType DEF NotifyConnect, State

LEMMA NotifyDisconnectType ==
    ASSUME NEW h \in HostType, NEW p \in Peers, NEW e
    PROVE  NotifyDisconnect(h, p, e) \in HostType
  BY ResetType, DispatchStateType DEF NotifyDisconnect, State

LEMMA PingPeerType ==
    ASSUME NEW h \in HostType, NEW p \in Peers
    PROVE  PingPeer(h, p) \in HostType
  BY QueueType DEF PingPeer, Command

LEMMA SendAcknowledgementsType ==
    ASSUME NEW h \in HostType, NEW p \in Peers
    PROVE  SendAcknowledgements(h, p) \in HostType
<1>1. DispatchState(h, p, "ZOMBIE") \in HostType
  BY DispatchStateType DEF State
<1>2. [DispatchState(h, p, "ZOMBIE") EXCEPT !.acknowledgements = @ \ {p}] \in HostType
  BY <1>1 DEF HostType
<1> QED BY <1>2 DEF SendAcknowledgements

LEMMA FinishDisconnectLaterType ==
    ASSUME NEW h \in HostType, NEW p \in Peers
    PROVE  FinishDisconnectLater(h, p) \in HostType
  BY BeginDisconnectType DEF FinishDisconnectLater

LEMMA TransmitType ==
    ASSUME NEW h \in HostType, NEW p \in Peers, NEW held \in SUBSET Command
    PROVE  Transmit(h, p, held) \in HostType
<1> DEFINE u == h.unacked[p] \cup (h.outgoing[p] \cap Acknowledged)
           g == [h EXCEPT !.outgoing[p] = held, !.unacked[p] = u]
<1>1. u \in SUBSET Acknowledged
  BY DEF HostType
<1> HIDE DEF u
<1>2. g \in HostType
  BY <1>1 DEF HostType
<1> QED BY <1>2, FinishDisconnectLaterType DEF Transmit, u

LEMMA PingIfQuietType ==
    ASSUME NEW h0 \in HostType, NEW h \in HostType, NEW p \in Peers,
           NEW g \in PingIfQuiet(h0, h, p)
    PROVE  g \in HostType
  BY PingPeerType, TransmitType DEF PingIfQuiet

LEMMA TransmitToType ==
    ASSUME TypeOK, NEW p \in Peers, TransmitTo(p)
    PROVE  host' \in HostType
<1> DEFINE h == SendAcknowledgements(host, p)
<1>1. h \in HostType
  BY SendAcknowledgementsType DEF TypeOK
<1>2. \A held \in Holdable(h, p) : Transmit(h, p, held) \in HostType
  BY <1>1, TransmitType DEF Holdable, Command
<1>3. \E g \in HostType : host' \in PingIfQuiet(h, g, p)
  BY <1>1, <1>2 DEF TransmitTo
<1> HIDE DEF h
<1> QED BY <1>1, <1>3, PingIfQuietType

LEMMA ReturnType ==
    ASSUME TypeOK, host' \in HostType, NEW ev \in Event, Return(ev)
    PROVE  TypeOK'
<1>1. app' \in [Peers -> View]
  BY DEF TypeOK, Return, View, Event
<1> QED BY <1>1 DEF TypeOK, Return, Phase

LEMMA GotoType ==
    ASSUME TypeOK, host' \in HostType, NEW ph \in Phase,
           NEW p \in Peers \cup {NoPeer}, Goto(ph, p)
    PROVE  TypeOK'
  BY DEF TypeOK, Goto

LEMMA StayType ==
    ASSUME TypeOK, host' \in HostType, Stay
    PROVE  TypeOK'
  BY DEF TypeOK, Stay

LEMMA CallType ==
    ASSUME TypeOK, NEW h \in HostType, Call(h), app' \in [Peers -> View]
    PROVE  TypeOK'
  BY DEF TypeOK, Call, Event, NoEvent

LEMMA ReportType ==
    ASSUME TypeOK, host' \in HostType, NEW ev \in Event, Report(ev)
    PROVE  TypeOK'
  BY DEF TypeOK, Report

\* Every peer number has a successor among the peers or is the last one.
LEMMA SuccessorType ==
    ASSUME NEW p \in Peers
    PROVE  p + 1 \in Peers \cup {NoPeer}
  BY PeerCountAssumption DEF Peers, NoPeer

LEMMA EndType ==
    ASSUME TypeOK, host' \in HostType, NEW ev \in Event, End(ev)
    PROVE  TypeOK'
  BY ReturnType, GotoType DEF End, Phase

LEMMA NoEventType == NoEvent \in Event
  BY DEF NoEvent, Event

LEMMA EventType ==
    ASSUME NEW p \in Peers, NEW t \in {"CONNECT", "DISCONNECT", "RECEIVE"}
    PROVE  [type |-> t, peer |-> p] \in Event
  BY DEF Event

-----------------------------------------------------------------------------
(* One lemma per part of Next.                                             *)

LEMMA GiveUpType ==
    ASSUME TypeOK, NEW p \in Peers, GiveUp(p), app' \in [Peers -> View]
    PROVE  TypeOK'
<1>1. Queue(ResetQueues(host, p), p, "NOTICE") \in HostType
  BY ResetQueuesType, QueueType DEF TypeOK, Command
<1>2. 0 \in Peers
  BY PeerCountAssumption DEF Peers
<1> QED BY <1>1, <1>2, NoEventType DEF TypeOK, GiveUp, Phase

LEMMA EnterType ==
    ASSUME TypeOK, NEW ph \in Phase, NEW e \in BOOLEAN, Enter(ph, e)
    PROVE  TypeOK'
<1>1. 0 \in Peers
  BY PeerCountAssumption DEF Peers
<1> QED BY <1>1, NoEventType DEF TypeOK, Enter

LEMMA DisconnectType ==
    ASSUME TypeOK, NEW p \in Peers, Disconnect(p)
    PROVE  TypeOK'
<1>1. app' \in [Peers -> View]
  BY DEF TypeOK, Disconnect, View
<1>2. CASE Call(BeginDisconnect(host, p))
  BY <1>1, <1>2, CallType, BeginDisconnectType DEF TypeOK
<1>3. CASE GiveUp(p)
  BY <1>1, <1>3, GiveUpType
<1> QED BY <1>2, <1>3 DEF Disconnect

LEMMA AppCallType ==
    ASSUME TypeOK, AppCall
    PROVE  TypeOK'
<1> USE DEF TypeOK
<1>1. CASE Connect
  <2>1. PICK p \in Peers :
          /\ Call(Queue([host EXCEPT !.state[p] = "CONNECTING"], p, "CONNECT"))
          /\ app' = [app EXCEPT ![p] = "CONNECTING"]
    BY <1>1 DEF Connect
  <2>2. [host EXCEPT !.state[p] = "CONNECTING"] \in HostType
    BY DEF HostType, State
  <2>3. Queue([host EXCEPT !.state[p] = "CONNECTING"], p, "CONNECT") \in HostType
    BY <2>2, QueueType DEF Command
  <2> QED BY <2>1, <2>3, CallType DEF View
<1>2. CASE BandwidthThrottle
  BY <1>2, CallType, QueueAllType DEF BandwidthThrottle, LimitBandwidth, Command
<1>3. CASE Flush \/ CheckEvents
  BY <1>3, EnterType DEF Flush, CheckEvents, Phase
<1>4. CASE \E e \in EventModes : Service(e)
  BY <1>4, EnterType, EventModesAssumption DEF Service, Phase
<1>5. CASE \E c \in Packets : Broadcast(c)
  BY <1>5, CallType, QueueAllType, PacketsAssumption DEF Broadcast, Command
<1>6. ASSUME NEW p \in Peers, NEW c \in Packets, Send(p, c)
      PROVE  TypeOK'
  BY <1>6, CallType, QueueType, PacketsAssumption DEF Send, Command
<1>7. ASSUME NEW p \in Peers, Ping(p) \/ ConfigureThrottle(p)
      PROVE  TypeOK'
  BY <1>7, CallType, QueueType, PingPeerType DEF Ping, ConfigureThrottle, Command
<1>8. ASSUME NEW p \in Peers, Disconnect(p)
      PROVE  TypeOK'
  BY <1>8, DisconnectType
<1>9. ASSUME NEW p \in Peers, DisconnectLater(p)
      PROVE  TypeOK'
  <2>1. CASE Disconnect(p)
    BY <2>1, DisconnectType
  <2>2. CASE /\ Call([host EXCEPT !.state[p] = "DISCONNECT_LATER"])
             /\ app' = [app EXCEPT ![p] = "CLOSING"]
    <3>1. [host EXCEPT !.state[p] = "DISCONNECT_LATER"] \in HostType
      BY DEF HostType, State
    <3> QED BY <2>2, <3>1, CallType DEF View
  <2> QED BY <1>9, <2>1, <2>2 DEF DisconnectLater
<1>10. ASSUME NEW p \in Peers, DisconnectNow(p)
       PROVE  TypeOK'
  <2>1. app' \in [Peers -> View]
    BY <1>10 DEF DisconnectNow, View
  <2>2. CASE Call(Reset(host, p))
    BY <2>1, <2>2, CallType, ResetType
  <2>3. CASE GiveUp(p)
    BY <2>1, <2>3, GiveUpType
  <2> QED BY <1>10, <2>2, <2>3 DEF DisconnectNow
<1>11. ASSUME NEW p \in Peers, ResetPeer(p)
       PROVE  TypeOK'
  BY <1>11, CallType, ResetType DEF ResetPeer, View
<1> QED
  BY <1>1, <1>2, <1>3, <1>4, <1>5, <1>6, <1>7, <1>8, <1>9, <1>10, <1>11 DEF AppCall

LEMMA PoppedType ==
    ASSUME TypeOK, host.dispatchQueue # << >>
    PROVE  Popped \in HostType /\ Head(host.dispatchQueue) \in Peers
<1>1. host.dispatchQueue \in Seq(Peers)
  BY DEF TypeOK, HostType
<1>2. Head(host.dispatchQueue) \in Peers /\ Tail(host.dispatchQueue) \in Seq(Peers)
  BY <1>1, HeadTailProperties
<1> QED BY <1>2 DEF Popped, TypeOK, HostType

LEMMA DispatchIncomingType ==
    ASSUME TypeOK, DispatchIncoming
    PROVE  TypeOK'
<1>1. CASE host.dispatchQueue # << >> /\ Dispatch(Head(host.dispatchQueue))
  <2> DEFINE p == Head(host.dispatchQueue)
  <2>1. Popped \in HostType /\ p \in Peers
    BY <1>1, PoppedType
  <2> HIDE DEF p
  <2>2. CASE /\ host' = ChangeState(Popped, p, "CONNECTED")
             /\ Return([type |-> "CONNECT", peer |-> p])
    BY <2>1, <2>2, ChangeStateType, ReturnType, EventType DEF State
  <2>3. CASE host' = Reset(Popped, p) /\ Return([type |-> "DISCONNECT", peer |-> p])
    BY <2>1, <2>3, ResetType, ReturnType, EventType
  <2>4. CASE /\ \/ host' = [Popped EXCEPT !.dispatched = @ \ {p}]
                \/ host' = NeedsDispatch(Popped, p)
             /\ Return([type |-> "RECEIVE", peer |-> p])
    <3>1. [Popped EXCEPT !.dispatched = @ \ {p}] \in HostType
      BY <2>1 DEF HostType
    <3> QED BY <2>1, <2>4, <3>1, NeedsDispatchType, ReturnType, EventType
  <2>5. CASE host' = Popped /\ Stay
    BY <2>1, <2>5, StayType
  <2> QED BY <1>1, <2>2, <2>3, <2>4, <2>5 DEF Dispatch, p
<1>2. CASE /\ UNCHANGED host
           /\ \/ Return(NoEvent)
              \/ Goto("throttle", NoPeer)
              \/ Goto("wait", NoPeer)
  BY <1>2, ReturnType, GotoType, NoEventType DEF Phase, TypeOK
<1> QED BY <1>1, <1>2 DEF DispatchIncoming, Dispatching

LEMMA ThrottlePhaseType ==
    ASSUME TypeOK, ThrottlePhase
    PROVE  TypeOK'
<1>1. host' \in HostType
  BY QueueAllType DEF ThrottlePhase, LimitBandwidth, TypeOK, Command
<1>2. 0 \in Peers
  BY PeerCountAssumption DEF Peers
<1> QED BY <1>1, <1>2, GotoType DEF ThrottlePhase, Phase

LEMMA SendOutgoingType ==
    ASSUME TypeOK, SendOutgoing
    PROVE  TypeOK'
<1>1. CASE current = NoPeer /\ SendDone
  <2>1. host' \in HostType
    <3>1. CASE host' = host
      BY <3>1 DEF TypeOK
    <3>2. CASE host' = Reset(host, closing) /\ closing \in Peers
      BY <3>2, ResetType DEF TypeOK
    <3> QED BY <1>1, <3>1, <3>2 DEF SendDone, SendOutgoing, Sending, TypeOK, Goto
  <2>2. \/ Goto("receive", NoPeer)
        \/ Goto(IF withEvent THEN "deliver" ELSE "wait", NoPeer)
        \/ Return(NoEvent)
    BY <1>1 DEF SendDone, SendOutgoing, Sending
  <2> QED BY <2>1, <2>2, GotoType, ReturnType, NoEventType DEF Phase
<1>2. CASE current \in Peers /\ SendTo(current)
  <2> DEFINE p == current
  <2>1. p \in Peers /\ p + 1 \in Peers \cup {NoPeer} /\ phase \in Phase
    BY <1>2, SuccessorType DEF TypeOK
  <2> HIDE DEF p
  <2>2. CASE SkipPeer(p)
    BY <2>1, <2>2, GotoType DEF SkipPeer, TypeOK
  <2>3. CASE TimeOut(p)
    <3>1. host' \in HostType
      BY <2>1, <2>3, SendAcknowledgementsType, NotifyDisconnectType DEF TimeOut, TypeOK
    <3>2. Return([type |-> "DISCONNECT", peer |-> p]) \/ Goto(phase, p + 1)
      BY <2>3 DEF TimeOut
    <3> QED BY <2>1, <3>1, <3>2, ReturnType, EventType, GotoType
  <2>4. CASE TransmitTo(p) /\ (\/ Goto(phase, p + 1) \/ Return(NoEvent) \/ Goto(phase, NoPeer))
    <3>1. host' \in HostType
      BY <2>1, <2>4, TransmitToType
    <3> QED BY <2>1, <2>4, <3>1, GotoType, ReturnType, NoEventType
  <2> QED BY <1>2, <2>2, <2>3, <2>4 DEF SendTo, p
<1> QED BY <1>1, <1>2 DEF SendOutgoing, TypeOK

LEMMA ConnectEventType ==
    ASSUME TypeOK, NEW p \in Peers
    PROVE  ConnectEvent(p) \in Event
  BY EventType DEF ConnectEvent, TypeOK

LEMMA HandleConnectType ==
    ASSUME TypeOK, HandleConnect
    PROVE  TypeOK'
<1>1. PICK p \in Peers, l \in BOOLEAN :
        /\ host' = Queue([SetLimit(host, p, l) EXCEPT !.state[p] = "ACKNOWLEDGING_CONNECT"],
                         p, "VERIFY_CONNECT")
        /\ Goto("datagram", p)
  BY DEF HandleConnect
<1> DEFINE h == SetLimit(host, p, l)
<1>2. h \in HostType
  BY SetLimitType DEF TypeOK
<1> HIDE DEF h
<1>3. [h EXCEPT !.state[p] = "ACKNOWLEDGING_CONNECT"] \in HostType
  BY <1>2 DEF HostType, State
<1>4. host' \in HostType
  BY <1>1, <1>3, QueueType DEF Command, h
<1> QED BY <1>1, <1>4, GotoType DEF Phase

LEMMA HandleVerifyConnectType ==
    ASSUME TypeOK, NEW p \in Peers, HandleVerifyConnect(p)
    PROVE  TypeOK'
<1>1. CASE host' = DispatchState(host, p, "ZOMBIE") /\ End(event)
  BY <1>1, DispatchStateType, EndType DEF TypeOK, State
<1>2. CASE /\ \E l \in BOOLEAN, h \in Acknowledge(host, p, host.first[p]) :
                 host' = NotifyConnect(SetLimit(h, p, l), p, withEvent)
           /\ Report(ConnectEvent(p))
  <2>1. host' \in HostType
    BY <1>2, AcknowledgeType, SetLimitType, NotifyConnectType DEF TypeOK
  <2> QED BY <1>2, <2>1, ConnectEventType, ReportType
<1> QED BY <1>1, <1>2 DEF HandleVerifyConnect

LEMMA HandleDisconnectType ==
    ASSUME TypeOK, NEW p \in Peers, HandleDisconnect(p)
    PROVE  TypeOK'
<1> DEFINE h == ResetQueues(host, p)
           k == ChangeState(h, p, "ACKNOWLEDGING_DISCONNECT")
           g == [k EXCEPT !.acknowledgements = @ \cup {p}]
<1>1. h \in HostType /\ k \in HostType
  BY ResetQueuesType, ChangeStateType DEF TypeOK, State
<1>2. host' \in {DispatchState(h, p, "ZOMBIE"), Reset(h, p), g} /\ Stay
  BY DEF HandleDisconnect, Continue
<1> HIDE DEF h, k
<1>3. g \in HostType
  BY <1>1 DEF HostType
<1>4. host' \in HostType
  BY <1>1, <1>2, <1>3, DispatchStateType, ResetType DEF State
<1> QED BY <1>2, <1>4, StayType

LEMMA HandleAcknowledgeType ==
    ASSUME TypeOK, NEW p \in Peers, NEW c, HandleAcknowledge(p, c)
    PROVE  TypeOK'
<1>1. PICK h \in Acknowledge(host, p, c) :
        \/ host' = h /\ End(event)
        \/ host' = NotifyConnect(h, p, withEvent) /\ Report(ConnectEvent(p))
        \/ /\ host' = NotifyDisconnect(h, p, withEvent)
           /\ Report(IF withEvent THEN [type |-> "DISCONNECT", peer |-> p] ELSE event)
        \/ host' = FinishDisconnectLater(h, p) /\ Stay
  BY DEF HandleAcknowledge, Continue
<1>2. h \in HostType
  BY <1>1, AcknowledgeType DEF TypeOK
<1>3. host' \in HostType
  BY <1>1, <1>2, NotifyConnectType, NotifyDisconnectType, FinishDisconnectLaterType
<1>4. event \in Event /\ ConnectEvent(p) \in Event
      /\ [type |-> "DISCONNECT", peer |-> p] \in Event
  BY ConnectEventType, EventType DEF TypeOK
<1> QED BY <1>1, <1>3, <1>4, EndType, ReportType, StayType

LEMMA HandleBandwidthLimitType ==
    ASSUME TypeOK, NEW p \in Peers, HandleBandwidthLimit(p)
    PROVE  TypeOK'
<1>1. PICK l \in BOOLEAN :
        host' = [SetLimit(host, p, l) EXCEPT
                   !.bandwidthLimitedPeers = @ - Limit(host, p) + Limit(SetLimit(host, p, l), p)]
  BY DEF HandleBandwidthLimit
<1> DEFINE h == SetLimit(host, p, l)
           b == h.bandwidthLimitedPeers - Limit(host, p) + Limit(h, p)
<1>2. h \in HostType
  BY SetLimitType DEF TypeOK
<1> HIDE DEF h
<1>3. b \in Int
  BY <1>2, LimitType DEF HostType
<1> HIDE DEF b
<1>4. [h EXCEPT !.bandwidthLimitedPeers = b] \in HostType
  BY <1>2, <1>3 DEF HostType
<1>5. host' \in HostType
  BY <1>1, <1>4 DEF h, b
<1> QED BY <1>5, StayType DEF HandleBandwidthLimit, Continue

LEMMA HandlePacketType ==
    ASSUME TypeOK, NEW p \in Peers, HandlePacket(p)
    PROVE  TypeOK'
<1>1. [host EXCEPT !.dispatched = @ \cup {p}] \in HostType
  BY DEF TypeOK, HostType
<1> QED BY <1>1, NeedsDispatchType, StayType DEF HandlePacket, Continue

LEMMA HandleIncomingType ==
    ASSUME TypeOK, HandleIncoming
    PROVE  TypeOK'
<1>1. CASE HandleConnect
  BY <1>1, HandleConnectType
<1>2. CASE current \in Peers /\ HandleCommand(current)
  BY <1>2, HandleVerifyConnectType, HandleDisconnectType, HandleAcknowledgeType,
     HandleBandwidthLimitType, HandlePacketType DEF HandleCommand
<1> QED BY <1>1, <1>2 DEF HandleIncoming, TypeOK

LEMMA ReceiveType ==
    ASSUME TypeOK,
           \/ \E p \in Peers \cup {NoPeer} : ReceiveDatagram(p)
           \/ ReceiveDone \/ ReceiveFailed \/ EndDatagram \/ Wait
    PROVE  TypeOK'
<1>1. 0 \in Peers
  BY PeerCountAssumption DEF Peers
<1> QED BY <1>1, GotoType, ReturnType, EndType, NoEventType
        DEF ReceiveDatagram, ReceiveDone, ReceiveFailed, EndDatagram, Wait, Phase, TypeOK

-----------------------------------------------------------------------------
LEMMA InitType == Init => TypeOK
<1> SUFFICES ASSUME Init PROVE TypeOK
  OBVIOUS
<1>1. << >> \in Seq(Peers)
  OBVIOUS
<1>2. host \in HostType
  BY <1>1 DEF Init, HostType, State
<1>3. app \in [Peers -> View] /\ event \in Event
  BY NoEventType DEF Init, View
<1> QED BY <1>2, <1>3 DEF Init, TypeOK, Phase

\* The variables always have their types, however many peers there are.
THEOREM TypeCorrect == Spec => []TypeOK
<1>1. Init => TypeOK
  BY InitType
<1>2. TypeOK /\ [Next]_vars => TypeOK'
  <2> SUFFICES ASSUME TypeOK, [Next]_vars PROVE TypeOK'
    OBVIOUS
  <2>1. CASE AppCall
    BY <2>1, AppCallType
  <2>2. CASE DispatchIncoming
    BY <2>2, DispatchIncomingType
  <2>3. CASE ThrottlePhase
    BY <2>3, ThrottlePhaseType
  <2>4. CASE SendOutgoing
    BY <2>4, SendOutgoingType
  <2>5. CASE HandleIncoming
    BY <2>5, HandleIncomingType
  <2>6. CASE \/ \E p \in Peers \cup {NoPeer} : ReceiveDatagram(p)
             \/ ReceiveDone \/ ReceiveFailed \/ EndDatagram \/ Wait
    BY <2>6, ReceiveType
  <2>7. CASE UNCHANGED vars
    BY <2>7 DEF vars, TypeOK
  <2> QED BY <2>1, <2>2, <2>3, <2>4, <2>5, <2>6, <2>7 DEF Next
<1> QED BY <1>1, <1>2, PTL DEF Spec

-----------------------------------------------------------------------------
(* The counters.  Most steps leave alone which peers are connected; a peer *)
(* enters the count in ChangeState and leaves it in ChangeState, Reset and *)
(* BeginDisconnect, each time through OnConnect or OnDisconnect.           *)

Sound(h) == h \in HostType /\ Counted(h)

LEMMA PeersFinite == IsFiniteSet(Peers)
  BY FS_Interval, PeerCountAssumption DEF Peers

LEMMA ConnectedFinite ==
    ASSUME NEW h
    PROVE  /\ IsFiniteSet(Connected(h)) /\ IsFiniteSet(Connected(h) \cap h.limited)
           /\ Cardinality(Connected(h)) \in Nat
           /\ Cardinality(Connected(h) \cap h.limited) \in Nat
<1>1. Connected(h) \subseteq Peers /\ Connected(h) \cap h.limited \subseteq Peers
  BY DEF Connected
<1>2. IsFiniteSet(Connected(h)) /\ IsFiniteSet(Connected(h) \cap h.limited)
  BY <1>1, PeersFinite, FS_Subset
<1> QED BY <1>2, FS_CardinalityType

\* A step that changes neither who is connected, nor the limits of those who
\* are, nor the counters.
LEMMA CountKept ==
    ASSUME NEW h, NEW g, Counted(h),
           Connected(g) = Connected(h),
           Connected(h) \cap g.limited = Connected(h) \cap h.limited,
           g.connectedPeers = h.connectedPeers,
           g.bandwidthLimitedPeers = h.bandwidthLimitedPeers
    PROVE  Counted(g)
  BY DEF Counted

\* A step that touches neither states, nor limits, nor counters.
LEMMA QueuesOnlySound ==
    ASSUME NEW h, Sound(h), NEW g \in HostType,
           g.state = h.state, g.limited = h.limited,
           g.connectedPeers = h.connectedPeers,
           g.bandwidthLimitedPeers = h.bandwidthLimitedPeers
    PROVE  Sound(g)
<1>1. Connected(g) = Connected(h)
  BY DEF Connected
<1> QED BY <1>1, CountKept DEF Sound

LEMMA EnterCounted ==
    ASSUME NEW h, Sound(h), NEW p \in Peers, NEW s \in Active
    PROVE  Counted(ChangeState(h, p, s))
<1> DEFINE g == ChangeState(h, p, s)
<1>1. CASE h.state[p] \in Active
  <2>1. g = [h EXCEPT !.state[p] = s]
    BY <1>1 DEF ChangeState, OnConnect
  <2>2. Connected(g) = Connected(h)
    BY <1>1, <2>1 DEF Connected, Sound, HostType
  <2> QED BY <2>1, <2>2, CountKept DEF Sound, HostType
<1>2. CASE h.state[p] \notin Active
  <2>1. g = [h EXCEPT !.connectedPeers = h.connectedPeers + 1,
                      !.bandwidthLimitedPeers = h.bandwidthLimitedPeers + Limit(h, p),
                      !.state[p] = s]
    BY <1>2 DEF ChangeState, OnConnect
  <2>2. /\ g.connectedPeers = h.connectedPeers + 1
        /\ g.bandwidthLimitedPeers = h.bandwidthLimitedPeers + Limit(h, p)
        /\ g.limited = h.limited
    BY <2>1 DEF Sound, HostType
  <2>3. Connected(g) = Connected(h) \cup {p} /\ p \notin Connected(h)
    BY <1>2, <2>1 DEF Connected, Sound, HostType
  <2> HIDE DEF g
  <2>4. Cardinality(Connected(g)) = Cardinality(Connected(h)) + 1
    BY <2>3, ConnectedFinite, FS_AddElement
  <2> DEFINE before == Connected(h) \cap h.limited
             after == Connected(g) \cap g.limited
  <2>5. Cardinality(after) = Cardinality(before) + Limit(h, p)
    <3>0. IsFiniteSet(before) /\ Cardinality(before) \in Nat
      BY ConnectedFinite
    <3>1. CASE p \in h.limited
      <4>1. after = before \cup {p}
        BY <2>2, <2>3, <3>1
      <4>2. p \notin before
        BY <2>3
      <4>3. Limit(h, p) = 1
        BY <3>1 DEF Limit
      <4> HIDE DEF before, after
      <4> QED BY <3>0, <4>1, <4>2, <4>3, FS_AddElement
    <3>2. CASE p \notin h.limited
      <4>1. after = before
        BY <2>2, <2>3, <3>2
      <4>2. Limit(h, p) = 0
        BY <3>2 DEF Limit
      <4> HIDE DEF before, after
      <4> QED BY <3>0, <4>1, <4>2
    <3> QED BY <3>1, <3>2
  <2> QED BY <2>2, <2>4, <2>5 DEF Sound, Counted, g
<1> QED BY <1>1, <1>2

\* enet_peer_on_disconnect and the state of a peer that is no longer connected.
LEMMA LeaveCounted ==
    ASSUME NEW h, Sound(h), NEW p \in Peers, NEW s \in State \ Active
    PROVE  Counted([OnDisconnect(h, p) EXCEPT !.state[p] = s])
<1> DEFINE g == [OnDisconnect(h, p) EXCEPT !.state[p] = s]
<1>1. CASE h.state[p] \notin Active
  <2>1. g = [h EXCEPT !.state[p] = s]
    BY <1>1 DEF OnDisconnect
  <2>2. Connected(g) = Connected(h)
    BY <1>1, <2>1 DEF Connected, Sound, HostType
  <2> QED BY <2>1, <2>2, CountKept DEF Sound, HostType
<1>2. CASE h.state[p] \in Active
  <2>1. g = [h EXCEPT !.connectedPeers = h.connectedPeers - 1,
                      !.bandwidthLimitedPeers = h.bandwidthLimitedPeers - Limit(h, p),
                      !.state[p] = s]
    BY <1>2 DEF OnDisconnect
  <2>2. /\ g.connectedPeers = h.connectedPeers - 1
        /\ g.bandwidthLimitedPeers = h.bandwidthLimitedPeers - Limit(h, p)
        /\ g.limited = h.limited
    BY <2>1 DEF Sound, HostType
  <2>3. Connected(g) = Connected(h) \ {p} /\ p \in Connected(h)
    <3>1. g.state = [h.state EXCEPT ![p] = s]
      BY <2>1 DEF Sound, HostType
    <3>2. h.state \in [Peers -> State]
      BY DEF Sound, HostType
    <3> HIDE DEF g
    <3> QED BY <1>2, <3>1, <3>2 DEF Connected
  <2> HIDE DEF g
  <2>4. Cardinality(Connected(g)) = Cardinality(Connected(h)) - 1
    BY <2>3, ConnectedFinite, FS_RemoveElement
  <2> DEFINE before == Connected(h) \cap h.limited
             after == Connected(g) \cap g.limited
  <2>5. Cardinality(after) = Cardinality(before) - Limit(h, p)
    <3>0. IsFiniteSet(before) /\ Cardinality(before) \in Nat
      BY ConnectedFinite
    <3>1. CASE p \in h.limited
      <4>1. after = before \ {p}
        BY <2>2, <2>3
      <4>2. p \in before
        BY <2>3, <3>1
      <4>3. Limit(h, p) = 1
        BY <3>1 DEF Limit
      <4> HIDE DEF before, after
      <4> QED BY <3>0, <4>1, <4>2, <4>3, FS_RemoveElement
    <3>2. CASE p \notin h.limited
      <4>1. after = before
        BY <2>2, <2>3, <3>2
      <4>2. Limit(h, p) = 0
        BY <3>2 DEF Limit
      <4> HIDE DEF before, after
      <4> QED BY <3>0, <4>1, <4>2
    <3> QED BY <3>1, <3>2
  <2> QED BY <2>2, <2>4, <2>5 DEF Sound, Counted, g
<1> QED BY <1>1, <1>2

LEMMA ChangeStateSound ==
    ASSUME NEW h, Sound(h), NEW p \in Peers, NEW s \in State
    PROVE  Sound(ChangeState(h, p, s))
<1>1. ChangeState(h, p, s) \in HostType
  BY ChangeStateType DEF Sound
<1>2. CASE s \in Active
  BY <1>1, <1>2, EnterCounted DEF Sound
<1>3. CASE s \notin Active
  <2>1. ChangeState(h, p, s) = [OnDisconnect(h, p) EXCEPT !.state[p] = s]
    BY <1>3 DEF ChangeState
  <2> QED BY <1>1, <1>3, <2>1, LeaveCounted DEF Sound
<1> QED BY <1>2, <1>3

LEMMA ResetQueuesSound ==
    ASSUME NEW h, Sound(h), NEW p \in Peers
    PROVE  Sound(ResetQueues(h, p))
<1> DEFINE g == ResetQueues(h, p)
<1>1. /\ g.state = h.state /\ g.limited = h.limited
      /\ g.connectedPeers = h.connectedPeers
      /\ g.bandwidthLimitedPeers = h.bandwidthLimitedPeers
  BY DEF ResetQueues, Sound, HostType
<1> QED BY <1>1, QueuesOnlySound, ResetQueuesType DEF Sound

LEMMA NeedsDispatchSound ==
    ASSUME NEW h, Sound(h), NEW p \in Peers
    PROVE  Sound(NeedsDispatch(h, p))
<1> DEFINE g == NeedsDispatch(h, p)
<1>1. /\ g.state = h.state /\ g.limited = h.limited
      /\ g.connectedPeers = h.connectedPeers
      /\ g.bandwidthLimitedPeers = h.bandwidthLimitedPeers
  BY DEF NeedsDispatch, Sound, HostType
<1> QED BY <1>1, QueuesOnlySound, NeedsDispatchType DEF Sound

LEMMA QueueSound ==
    ASSUME NEW h, Sound(h), NEW p \in Peers, NEW c \in Command
    PROVE  Sound(Queue(h, p, c))
<1> DEFINE g == Queue(h, p, c)
<1>1. /\ g.state = h.state /\ g.limited = h.limited
      /\ g.connectedPeers = h.connectedPeers
      /\ g.bandwidthLimitedPeers = h.bandwidthLimitedPeers
  BY DEF Queue, Sound, HostType
<1> QED BY <1>1, QueuesOnlySound, QueueType DEF Sound

LEMMA QueueAllSound ==
    ASSUME NEW h, Sound(h), NEW S, NEW c \in Command
    PROVE  Sound(QueueAll(h, S, c))
<1> DEFINE g == QueueAll(h, S, c)
<1>1. /\ g.state = h.state /\ g.limited = h.limited
      /\ g.connectedPeers = h.connectedPeers
      /\ g.bandwidthLimitedPeers = h.bandwidthLimitedPeers
  BY DEF QueueAll, Sound, HostType
<1> QED BY <1>1, QueuesOnlySound, QueueAllType DEF Sound

LEMMA AcknowledgeSound ==
    ASSUME NEW h, Sound(h), NEW p \in Peers, NEW c, NEW g \in Acknowledge(h, p, c)
    PROVE  Sound(g) /\ g.state = h.state
<1>1. /\ g.state = h.state /\ g.limited = h.limited
      /\ g.connectedPeers = h.connectedPeers
      /\ g.bandwidthLimitedPeers = h.bandwidthLimitedPeers
  BY DEF Acknowledge, Sound, HostType
<1> QED BY <1>1, QueuesOnlySound, AcknowledgeType DEF Sound

\* The limit of a peer that is not connected is not counted.
LEMMA SetLimitSound ==
    ASSUME NEW h, Sound(h), NEW p \in Peers, NEW l \in BOOLEAN,
           h.state[p] \notin Active
    PROVE  Sound(SetLimit(h, p, l)) /\ SetLimit(h, p, l).state = h.state
<1> DEFINE g == SetLimit(h, p, l)
<1>1. /\ g.state = h.state
      /\ g.limited = IF l THEN h.limited \cup {p} ELSE h.limited \ {p}
      /\ g.connectedPeers = h.connectedPeers
      /\ g.bandwidthLimitedPeers = h.bandwidthLimitedPeers
  BY DEF SetLimit, Sound, HostType
<1>2. Connected(g) = Connected(h) /\ p \notin Connected(h)
  BY <1>1 DEF Connected
<1> HIDE DEF g
<1>3. Connected(h) \cap g.limited = Connected(h) \cap h.limited
  BY <1>1, <1>2
<1>4. Counted(g)
  BY <1>1, <1>2, <1>3, CountKept DEF Sound
<1> QED BY <1>1, <1>4, SetLimitType DEF Sound, g

LEMMA DispatchStateSound ==
    ASSUME NEW h, Sound(h), NEW p \in Peers, NEW s \in State
    PROVE  Sound(DispatchState(h, p, s))
  BY ChangeStateSound, NeedsDispatchSound DEF DispatchState

LEMMA ResetSound ==
    ASSUME NEW h, Sound(h), NEW p \in Peers
    PROVE  Sound(Reset(h, p))
<1> DEFINE d == OnDisconnect(h, p)
           k == [d EXCEPT !.state[p] = "DISCONNECTED"]
           g == [d EXCEPT !.state[p] = "DISCONNECTED",
                          !.limited = @ \ {p},
                          !.first[p] = "NONE",
                          !.needsDispatch = @ \ {p}]
<1>1. Counted(k)
  BY LeaveCounted DEF State, Active
<1>2. d \in HostType
  BY OnDisconnectType DEF Sound
<1> HIDE DEF d
<1>3. /\ g.state = k.state
      /\ g.limited = k.limited \ {p}
      /\ g.connectedPeers = k.connectedPeers
      /\ g.bandwidthLimitedPeers = k.bandwidthLimitedPeers
      /\ k.state[p] = "DISCONNECTED"
  BY <1>2 DEF HostType
<1>4. g \in HostType
  BY <1>2 DEF HostType, State
<1> HIDE DEF g, k
<1>5. Connected(g) = Connected(k) /\ p \notin Connected(k)
  BY <1>3 DEF Connected, Active
<1>6. Sound(g)
  BY <1>1, <1>3, <1>4, <1>5, CountKept DEF Sound
<1> QED BY <1>6, ResetQueuesSound DEF Reset, g, d

LEMMA BeginDisconnectSound ==
    ASSUME NEW h, Sound(h), NEW p \in Peers
    PROVE  Sound(BeginDisconnect(h, p))
<1> DEFINE g == Queue(ResetQueues(h, p), p, "DISCONNECT")
<1>1. Sound(g)
  BY ResetQueuesSound, QueueSound DEF Command
<1>2. Counted([OnDisconnect(g, p) EXCEPT !.state[p] = "DISCONNECTING"])
  BY <1>1, LeaveCounted DEF State, Active
<1>3. Counted(BeginDisconnect(h, p))
  BY <1>2 DEF BeginDisconnect
<1> QED BY <1>3, BeginDisconnectType DEF Sound

LEMMA NotifyConnectSound ==
    ASSUME NEW h, Sound(h), NEW p \in Peers, NEW e
    PROVE  Sound(NotifyConnect(h, p, e))
  BY ChangeStateSound, DispatchStateSound DEF NotifyConnect, State

LEMMA NotifyDisconnectSound ==
    ASSUME NEW h, Sound(h), NEW p \in Peers, NEW e
    PROVE  Sound(NotifyDisconnect(h, p, e))
  BY ResetSound, DispatchStateSound DEF NotifyDisconnect, State

LEMMA FinishDisconnectLaterSound ==
    ASSUME NEW h, Sound(h), NEW p \in Peers
    PROVE  Sound(FinishDisconnectLater(h, p))
  BY BeginDisconnectSound DEF FinishDisconnectLater

LEMMA SendAcknowledgementsSound ==
    ASSUME NEW h, Sound(h), NEW p \in Peers
    PROVE  Sound(SendAcknowledgements(h, p))
<1> DEFINE k == DispatchState(h, p, "ZOMBIE")
           g == [k EXCEPT !.acknowledgements = @ \ {p}]
<1>1. Sound(k)
  BY DispatchStateSound DEF State
<1> HIDE DEF k
<1>2. /\ g \in HostType /\ g.state = k.state /\ g.limited = k.limited
      /\ g.connectedPeers = k.connectedPeers
      /\ g.bandwidthLimitedPeers = k.bandwidthLimitedPeers
  BY <1>1 DEF Sound, HostType
<1>3. Sound(g)
  BY <1>1, <1>2, QueuesOnlySound
<1> QED BY <1>3 DEF SendAcknowledgements, k

LEMMA TransmitSound ==
    ASSUME NEW h, Sound(h), NEW p \in Peers, NEW held \in SUBSET Command
    PROVE  Sound(Transmit(h, p, held))
<1> DEFINE u == h.unacked[p] \cup (h.outgoing[p] \cap Acknowledged)
           g == [h EXCEPT !.outgoing[p] = held, !.unacked[p] = u]
<1>1. u \in SUBSET Acknowledged
  BY DEF Sound, HostType
<1> HIDE DEF u
<1>2. /\ g \in HostType /\ g.state = h.state /\ g.limited = h.limited
      /\ g.connectedPeers = h.connectedPeers
      /\ g.bandwidthLimitedPeers = h.bandwidthLimitedPeers
  BY <1>1 DEF Sound, HostType
<1>3. Sound(g)
  BY <1>2, QueuesOnlySound
<1> QED BY <1>3, FinishDisconnectLaterSound DEF Transmit, u

LEMMA TransmitToSound ==
    ASSUME Sound(host), NEW p \in Peers, TransmitTo(p)
    PROVE  Sound(host')
<1> DEFINE h == SendAcknowledgements(host, p)
<1>1. Sound(h)
  BY SendAcknowledgementsSound
<1>2. \A held \in Holdable(h, p) : Sound(Transmit(h, p, held))
  BY <1>1, TransmitSound DEF Holdable, Command
<1>3. PICK g : Sound(g) /\ host' \in PingIfQuiet(h, g, p)
  BY <1>1, <1>2 DEF TransmitTo
<1>4. Sound(PingPeer(g, p))
  BY <1>3, QueueSound DEF PingPeer, Command
<1>5. Sound(Transmit(PingPeer(g, p), p, {}))
  BY <1>4, TransmitSound DEF Command
<1> HIDE DEF h
<1> QED BY <1>3, <1>5 DEF PingIfQuiet

-----------------------------------------------------------------------------
(* Every step keeps the host sound.                                        *)

LEMMA AppCallSound ==
    ASSUME Sound(host), AppCall
    PROVE  Sound(host')
<1>1. CASE Connect
  <2>1. PICK p \in Peers :
          /\ FirstFree(host, p)
          /\ Call(Queue([host EXCEPT !.state[p] = "CONNECTING"], p, "CONNECT"))
    BY <1>1 DEF Connect
  <2> DEFINE g == [host EXCEPT !.state[p] = "CONNECTING"]
  <2>2. g \in HostType
    BY DEF Sound, HostType, State
  <2>3. Connected(g) = Connected(host)
    BY <2>1 DEF Connected, Active, FirstFree, Free, Sound, HostType
  <2>4. Sound(g)
    BY <2>2, <2>3, CountKept DEF Sound, HostType
  <2> QED BY <2>1, <2>4, QueueSound DEF Call, Command
<1>2. CASE BandwidthThrottle
  BY <1>2, QueueAllSound DEF BandwidthThrottle, LimitBandwidth, Call, Command
<1>3. CASE Flush \/ CheckEvents
  BY <1>3 DEF Flush, CheckEvents, Enter
<1>4. CASE \E e \in EventModes : Service(e)
  BY <1>4 DEF Service, Enter
<1>5. CASE \E c \in Packets : Broadcast(c)
  BY <1>5, QueueAllSound, PacketsAssumption DEF Broadcast, Call, Command
<1>6. ASSUME NEW p \in Peers, NEW c \in Packets, Send(p, c)
      PROVE  Sound(host')
  BY <1>6, QueueSound, PacketsAssumption DEF Send, Call, Command
<1>7. ASSUME NEW p \in Peers, Ping(p) \/ ConfigureThrottle(p)
      PROVE  Sound(host')
  BY <1>7, QueueSound DEF Ping, PingPeer, ConfigureThrottle, Call, Command
<1>8. ASSUME NEW p \in Peers, GiveUp(p)
      PROVE  Sound(host')
  BY <1>8, ResetQueuesSound, QueueSound DEF GiveUp, Command
<1>9. ASSUME NEW p \in Peers, Disconnect(p)
      PROVE  Sound(host')
  BY <1>8, <1>9, BeginDisconnectSound DEF Disconnect, Call
<1>10. ASSUME NEW p \in Peers, DisconnectLater(p)
       PROVE  Sound(host')
  <2>1. CASE host.state[p] \in Active /\ Call([host EXCEPT !.state[p] = "DISCONNECT_LATER"])
    <3> DEFINE g == [host EXCEPT !.state[p] = "DISCONNECT_LATER"]
    <3>1. g \in HostType
      BY DEF Sound, HostType, State
    <3>2. Connected(g) = Connected(host)
      BY <2>1 DEF Connected, Active, Sound, HostType
    <3>3. Sound(g)
      BY <3>1, <3>2, CountKept DEF Sound, HostType
    <3> QED BY <2>1, <3>3 DEF Call
  <2> QED BY <1>9, <1>10, <2>1 DEF DisconnectLater
<1>11. ASSUME NEW p \in Peers, DisconnectNow(p) \/ ResetPeer(p)
       PROVE  Sound(host')
  BY <1>8, <1>11, ResetSound DEF DisconnectNow, ResetPeer, Call
<1> QED
  BY <1>1, <1>2, <1>3, <1>4, <1>5, <1>6, <1>7, <1>9, <1>10, <1>11 DEF AppCall

LEMMA DispatchIncomingSound ==
    ASSUME Sound(host), TypeOK, DispatchIncoming
    PROVE  Sound(host')
<1>1. CASE host.dispatchQueue # << >> /\ Dispatch(Head(host.dispatchQueue))
  <2> DEFINE p == Head(host.dispatchQueue)
             g == [Popped EXCEPT !.dispatched = @ \ {p}]
  <2>1. Popped \in HostType /\ p \in Peers
    BY <1>1, PoppedType
  <2>2. /\ Popped.state = host.state /\ Popped.limited = host.limited
        /\ Popped.connectedPeers = host.connectedPeers
        /\ Popped.bandwidthLimitedPeers = host.bandwidthLimitedPeers
    BY DEF Popped, Sound, HostType
  <2>3. Sound(Popped)
    BY <2>1, <2>2, QueuesOnlySound
  <2>4. /\ g \in HostType /\ g.state = Popped.state /\ g.limited = Popped.limited
        /\ g.connectedPeers = Popped.connectedPeers
        /\ g.bandwidthLimitedPeers = Popped.bandwidthLimitedPeers
    BY <2>1 DEF HostType
  <2>5. Sound(g)
    BY <2>3, <2>4, QueuesOnlySound
  <2>6. host' \in {ChangeState(Popped, p, "CONNECTED"), Reset(Popped, p), g,
                   NeedsDispatch(Popped, p), Popped}
    BY <1>1 DEF Dispatch
  <2> HIDE DEF p, g
  <2> QED BY <2>1, <2>3, <2>5, <2>6, ChangeStateSound, ResetSound, NeedsDispatchSound DEF State
<1>2. CASE UNCHANGED host
  BY <1>2
<1> QED BY <1>1, <1>2 DEF DispatchIncoming

LEMMA SendOutgoingSound ==
    ASSUME Sound(host), TypeOK, SendOutgoing
    PROVE  Sound(host')
<1>1. CASE current = NoPeer /\ SendDone
  <2>1. host' = host \/ (closing \in Peers /\ host' = Reset(host, closing))
    BY <1>1 DEF SendDone, SendOutgoing, Sending, TypeOK, Goto
  <2> QED BY <2>1, ResetSound
<1>2. CASE current \in Peers /\ SendTo(current)
  <2>1. CASE SkipPeer(current)
    BY <2>1 DEF SkipPeer
  <2>2. CASE TimeOut(current)
    BY <1>2, <2>2, SendAcknowledgementsSound, NotifyDisconnectSound DEF TimeOut
  <2>3. CASE TransmitTo(current)
    BY <1>2, <2>3, TransmitToSound
  <2> QED BY <1>2, <2>1, <2>2, <2>3 DEF SendTo
<1> QED BY <1>1, <1>2 DEF SendOutgoing, TypeOK

\* A connected peer that becomes limited or unlimited is counted anew.
LEMMA HandleBandwidthLimitSound ==
    ASSUME Sound(host), NEW p \in Peers, HandleBandwidthLimit(p)
    PROVE  Sound(host')
<1>1. PICK l \in BOOLEAN :
        host' = [SetLimit(host, p, l) EXCEPT
                    !.bandwidthLimitedPeers = @ - Limit(host, p) + Limit(SetLimit(host, p, l), p)]
  BY DEF HandleBandwidthLimit
<1> DEFINE h == SetLimit(host, p, l)
<1>2. /\ h \in HostType /\ h.state = host.state
      /\ h.connectedPeers = host.connectedPeers
      /\ h.bandwidthLimitedPeers = host.bandwidthLimitedPeers
      /\ h.limited = IF l THEN host.limited \cup {p} ELSE host.limited \ {p}
  BY DEF SetLimit, Sound, HostType
<1> HIDE DEF h
<1>3. Limit(host, p) \in Int /\ Limit(h, p) \in Int
  BY LimitType
<1>4. /\ host' \in HostType /\ host'.state = host.state /\ host'.limited = h.limited
      /\ host'.connectedPeers = host.connectedPeers
      /\ host'.bandwidthLimitedPeers
            = host.bandwidthLimitedPeers - Limit(host, p) + Limit(h, p)
  <2>1. host' = [h EXCEPT !.bandwidthLimitedPeers
                    = host.bandwidthLimitedPeers - Limit(host, p) + Limit(h, p)]
    BY <1>1, <1>2 DEF h
  <2>2. host.bandwidthLimitedPeers - Limit(host, p) + Limit(h, p) \in Int
    BY <1>3 DEF Sound, HostType
  <2> DEFINE n == host.bandwidthLimitedPeers - Limit(host, p) + Limit(h, p)
  <2> HIDE DEF n
  <2>3. host' = [h EXCEPT !.bandwidthLimitedPeers = n] /\ n \in Int
    BY <2>1, <2>2 DEF n
  <2>4. /\ host' \in HostType /\ host'.state = h.state /\ host'.limited = h.limited
        /\ host'.connectedPeers = h.connectedPeers /\ host'.bandwidthLimitedPeers = n
    BY <1>2, <2>3 DEF HostType
  <2> QED BY <1>2, <2>4 DEF n
<1>5. Connected(host') = Connected(host) /\ p \in Connected(host)
  BY <1>4 DEF Connected, HandleBandwidthLimit
<1> DEFINE before == Connected(host) \cap host.limited
           after == Connected(host) \cap h.limited
<1>6. IsFiniteSet(before) /\ Cardinality(before) \in Nat
  BY ConnectedFinite
<1>7. Cardinality(after) = Cardinality(before) - Limit(host, p) + Limit(h, p)
  <2>1. CASE (l /\ p \in host.limited) \/ (~l /\ p \notin host.limited)
    <3>1. h.limited = host.limited
      BY <1>2, <2>1
    <3>2. after = before /\ Limit(h, p) = Limit(host, p)
      BY <3>1 DEF Limit
    <3> HIDE DEF before, after
    <3> QED BY <1>3, <1>6, <3>2
  <2>2. CASE l /\ p \notin host.limited
    <3>1. after = before \cup {p} /\ p \notin before
      BY <1>2, <1>5, <2>2
    <3>2. Limit(host, p) = 0 /\ Limit(h, p) = 1
      BY <1>2, <2>2 DEF Limit
    <3> HIDE DEF before, after
    <3>3. Cardinality(after) = Cardinality(before) + 1
      BY <1>6, <3>1, FS_AddElement
    <3> QED BY <1>6, <3>2, <3>3
  <2>3. CASE ~l /\ p \in host.limited
    <3>1. after = before \ {p} /\ p \in before
      BY <1>2, <1>5, <2>3
    <3>2. Limit(host, p) = 1 /\ Limit(h, p) = 0
      BY <1>2, <2>3 DEF Limit
    <3> HIDE DEF before, after
    <3>3. Cardinality(after) = Cardinality(before) - 1
      BY <1>6, <3>1, FS_RemoveElement
    <3> QED BY <1>6, <3>2, <3>3
  <2> HIDE DEF before, after
  <2> QED BY <2>1, <2>2, <2>3
<1> QED BY <1>4, <1>5, <1>7 DEF Sound, Counted

LEMMA HandleIncomingSound ==
    ASSUME Sound(host), TypeOK, HandleIncoming
    PROVE  Sound(host')
<1>1. CASE HandleConnect
  <2>1. PICK p \in Peers, l \in BOOLEAN :
          /\ FirstFree(host, p)
          /\ host' = Queue([SetLimit(host, p, l) EXCEPT !.state[p] = "ACKNOWLEDGING_CONNECT"],
                           p, "VERIFY_CONNECT")
    BY <1>1 DEF HandleConnect
  <2> DEFINE h == SetLimit(host, p, l)
             g == [h EXCEPT !.state[p] = "ACKNOWLEDGING_CONNECT"]
  <2>2. host.state[p] = "DISCONNECTED"
    BY <2>1 DEF FirstFree, Free
  <2>3. Sound(h) /\ h.state = host.state
    BY <2>2, SetLimitSound DEF Active
  <2> HIDE DEF h
  <2>4. g \in HostType
    BY <2>3 DEF Sound, HostType, State
  <2>5. Connected(g) = Connected(h)
    BY <2>2, <2>3 DEF Connected, Active, Sound, HostType
  <2>6. Sound(g)
    BY <2>3, <2>4, <2>5, CountKept DEF Sound, HostType
  <2> QED BY <2>1, <2>6, QueueSound DEF Command, h
<1>2. ASSUME NEW p \in Peers, HandleVerifyConnect(p)
      PROVE  Sound(host')
  <2>1. CASE host' = DispatchState(host, p, "ZOMBIE")
    BY <2>1, DispatchStateSound DEF State
  <2>2. CASE \E l \in BOOLEAN, h \in Acknowledge(host, p, host.first[p]) :
               host' = NotifyConnect(SetLimit(h, p, l), p, withEvent)
    <3>1. PICK l \in BOOLEAN, h \in Acknowledge(host, p, host.first[p]) :
               host' = NotifyConnect(SetLimit(h, p, l), p, withEvent)
      BY <2>2
    <3>2. Sound(h) /\ h.state = host.state
      BY AcknowledgeSound
    <3>3. h.state[p] \notin Active
      BY <1>2, <3>2 DEF HandleVerifyConnect, Active
    <3>4. Sound(SetLimit(h, p, l))
      BY <3>2, <3>3, SetLimitSound
    <3> QED BY <3>1, <3>4, NotifyConnectSound
  <2> QED BY <1>2, <2>1, <2>2 DEF HandleVerifyConnect
<1>3. ASSUME NEW p \in Peers, HandleDisconnect(p)
      PROVE  Sound(host')
  <2> DEFINE h == ResetQueues(host, p)
             k == ChangeState(h, p, "ACKNOWLEDGING_DISCONNECT")
             g == [k EXCEPT !.acknowledgements = @ \cup {p}]
  <2>1. Sound(h) /\ Sound(k)
    BY ResetQueuesSound, ChangeStateSound DEF State
  <2>2. host' \in {DispatchState(h, p, "ZOMBIE"), Reset(h, p), g}
    BY <1>3 DEF HandleDisconnect
  <2> HIDE DEF h, k
  <2>3. /\ g \in HostType /\ g.state = k.state /\ g.limited = k.limited
        /\ g.connectedPeers = k.connectedPeers
        /\ g.bandwidthLimitedPeers = k.bandwidthLimitedPeers
    BY <2>1 DEF Sound, HostType
  <2>4. Sound(g)
    BY <2>1, <2>3, QueuesOnlySound
  <2> HIDE DEF g
  <2> QED BY <2>1, <2>2, <2>4, DispatchStateSound, ResetSound DEF State
<1>4. ASSUME NEW p \in Peers, NEW c, HandleAcknowledge(p, c)
      PROVE  Sound(host')
  <2>1. PICK h \in Acknowledge(host, p, c) :
          host' \in {h, NotifyConnect(h, p, withEvent), NotifyDisconnect(h, p, withEvent),
                     FinishDisconnectLater(h, p)}
    BY <1>4 DEF HandleAcknowledge
  <2>2. Sound(h)
    BY AcknowledgeSound
  <2> QED BY <2>1, <2>2, NotifyConnectSound, NotifyDisconnectSound, FinishDisconnectLaterSound
<1>5. ASSUME NEW p \in Peers, HandleBandwidthLimit(p)
      PROVE  Sound(host')
  BY <1>5, HandleBandwidthLimitSound
<1>6. ASSUME NEW p \in Peers, HandlePacket(p)
      PROVE  Sound(host')
  <2> DEFINE g == [host EXCEPT !.dispatched = @ \cup {p}]
  <2>1. /\ g \in HostType /\ g.state = host.state /\ g.limited = host.limited
        /\ g.connectedPeers = host.connectedPeers
        /\ g.bandwidthLimitedPeers = host.bandwidthLimitedPeers
    BY DEF Sound, HostType
  <2>2. Sound(g)
    BY <2>1, QueuesOnlySound
  <2> QED BY <1>6, <2>2, NeedsDispatchSound DEF HandlePacket
<1>7. CASE current \in Peers /\ HandleCommand(current)
  BY <1>2, <1>3, <1>4, <1>5, <1>6, <1>7 DEF HandleCommand
<1> QED BY <1>1, <1>7 DEF HandleIncoming, TypeOK

\* However many peers there are, connectedPeers and bandwidthLimitedPeers count
\* the peers they are named for, through every call, datagram and timeout.
THEOREM CountersCorrect == Spec => []CountersMatch
<1>1. Init => Sound(host)
  <2> SUFFICES ASSUME Init PROVE Counted(host)
    BY InitType DEF Sound, TypeOK
  <2>1. Connected(host) = {} /\ Connected(host) \cap host.limited = {}
    BY DEF Init, Connected, Active
  <2> QED BY <2>1, FS_EmptySet DEF Init, Counted
<1>2. Sound(host) /\ TypeOK /\ [Next]_vars => Sound(host)'
  <2> SUFFICES ASSUME Sound(host), TypeOK, [Next]_vars PROVE Sound(host)'
    OBVIOUS
  <2>1. CASE AppCall
    BY <2>1, AppCallSound
  <2>2. CASE DispatchIncoming
    BY <2>2, DispatchIncomingSound
  <2>3. CASE ThrottlePhase
    BY <2>3, QueueAllSound DEF ThrottlePhase, LimitBandwidth, Command
  <2>4. CASE SendOutgoing
    BY <2>4, SendOutgoingSound
  <2>5. CASE HandleIncoming
    BY <2>5, HandleIncomingSound
  <2>6. CASE UNCHANGED host
    BY <2>6
  <2> QED BY <2>1, <2>2, <2>3, <2>4, <2>5, <2>6
          DEF Next, vars, ReceiveDatagram, ReceiveDone, ReceiveFailed, EndDatagram, Wait
<1>3. Sound(host) => CountersMatch
  BY DEF Sound, CountersMatch
<1> QED BY <1>1, <1>2, <1>3, TypeCorrect, PTL DEF Spec

-----------------------------------------------------------------------------
(* The dispatch queue as a sequence.                                       *)

LEMMA ToSetOf ==
    ASSUME NEW q \in Seq(Peers), NEW r
    PROVE  r \in ToSet(q) <=> \E i \in 1 .. Len(q) : q[i] = r
<1>1. DOMAIN q = 1 .. Len(q)
  BY LenProperties
<1> QED BY <1>1 DEF ToSet

LEMMA LinkedLast ==
    ASSUME NEW q \in Seq(Peers), NEW p \in Peers
    PROVE  /\ Append(q, p) \in Seq(Peers)
           /\ \A r : r \in ToSet(Append(q, p)) <=> r \in ToSet(q) \/ r = p
           /\ LinkedOnce(q) /\ p \notin ToSet(q) => LinkedOnce(Append(q, p))
<1> DEFINE a == Append(q, p)
<1>1. /\ a \in Seq(Peers) /\ Len(a) = Len(q) + 1 /\ Len(q) \in Nat
      /\ \A i \in 1 .. Len(q) : a[i] = q[i]
      /\ a[Len(q) + 1] = p
  BY AppendProperties, LenProperties
<1> HIDE DEF a
<1>2. ASSUME NEW r PROVE r \in ToSet(a) <=> r \in ToSet(q) \/ r = p
  <2>1. r \in ToSet(a) <=> \E i \in 1 .. Len(a) : a[i] = r
    BY <1>1, ToSetOf
  <2>2. r \in ToSet(q) <=> \E i \in 1 .. Len(q) : q[i] = r
    BY ToSetOf
  <2> QED BY <1>1, <2>1, <2>2
<1>3. LinkedOnce(q) /\ p \notin ToSet(q) => LinkedOnce(a)
  BY <1>1, ToSetOf DEF LinkedOnce
<1> QED BY <1>1, <1>2, <1>3 DEF a

LEMMA FirstTakenOff ==
    ASSUME NEW q \in Seq(Peers), q # << >>
    PROVE  /\ Head(q) \in Peers /\ Tail(q) \in Seq(Peers)
           /\ \A r : r \in ToSet(q) <=> r \in ToSet(Tail(q)) \/ r = Head(q)
           /\ LinkedOnce(q) => LinkedOnce(Tail(q)) /\ Head(q) \notin ToSet(Tail(q))
<1> DEFINE t == Tail(q)
<1>1. /\ t \in Seq(Peers) /\ Len(t) = Len(q) - 1 /\ Len(q) \in Nat \ {0} /\ Len(t) \in Nat
      /\ Head(q) = q[1] /\ Head(q) \in Peers
      /\ \A i \in 1 .. Len(t) : t[i] = q[i + 1]
  BY HeadTailProperties, LenProperties, EmptySeq
<1> HIDE DEF t
<1>2. ASSUME NEW r PROVE r \in ToSet(q) <=> r \in ToSet(t) \/ r = Head(q)
  <2>1. r \in ToSet(t) <=> \E i \in 1 .. Len(t) : t[i] = r
    BY <1>1, ToSetOf
  <2>2. r \in ToSet(q) <=> \E i \in 1 .. Len(q) : q[i] = r
    BY ToSetOf
  <2>3. ASSUME NEW i \in 1 .. Len(q), q[i] = r, r # Head(q) PROVE r \in ToSet(t)
    <3>1. i - 1 \in 1 .. Len(t) /\ t[i - 1] = q[i]
      BY <1>1, <2>3
    <3> QED BY <2>1, <2>3, <3>1
  <2>4. r \in ToSet(t) => r \in ToSet(q)
    BY <1>1, <2>1, <2>2
  <2> QED BY <1>1, <2>2, <2>3, <2>4
<1>3. LinkedOnce(q) => LinkedOnce(t) /\ Head(q) \notin ToSet(t)
  <2> SUFFICES ASSUME LinkedOnce(q) PROVE LinkedOnce(t) /\ Head(q) \notin ToSet(t)
    OBVIOUS
  <2>1. LinkedOnce(t)
    BY <1>1 DEF LinkedOnce
  <2>2. \A i \in 1 .. Len(t) : t[i] # Head(q)
    BY <1>1 DEF LinkedOnce
  <2> QED BY <1>1, <2>1, <2>2, ToSetOf
<1> QED BY <1>1, <1>2, <1>3 DEF t

LEMMA TakenOut ==
    ASSUME NEW q \in Seq(Peers), NEW p \in Peers
    PROVE  /\ Unlink(q, p) \in Seq(Peers)
           /\ \A r : r # p => (r \in ToSet(Unlink(q, p)) <=> r \in ToSet(q))
           /\ p \in ToSet(Unlink(q, p)) => p \in ToSet(q)
           /\ LinkedOnce(q) => LinkedOnce(Unlink(q, p)) /\ p \notin ToSet(Unlink(q, p))
<1>1. CASE p \notin ToSet(q)
  <2>1. Unlink(q, p) = q
    BY <1>1, ToSetOf DEF Unlink
  <2> QED BY <1>1, <2>1
<1>2. CASE p \in ToSet(q)
  <2> DEFINE k == CHOOSE i \in 1 .. Len(q) : q[i] = p
             u == Unlink(q, p)
             a == SubSeq(q, 1, k - 1)
             b == SubSeq(q, k + 1, Len(q))
  <2>1. k \in 1 .. Len(q) /\ q[k] = p /\ Len(q) \in Nat
    BY <1>2, ToSetOf, LenProperties
  <2>2. u = a \o b
    BY <1>2, ToSetOf DEF Unlink, RemoveAt
  <2> HIDE DEF k, u
  <2>3. \A i \in 1 .. Len(q) : q[i] \in Peers
    BY ElementOfSeq
  <2>4. /\ a \in Seq(Peers) /\ Len(a) = k - 1
        /\ \A i \in 1 .. k - 1 : a[i] = q[i]
    BY <2>1, <2>3, SubSeqProperties
  <2>5. /\ b \in Seq(Peers) /\ Len(b) = Len(q) - k
        /\ \A i \in 1 .. Len(q) - k : b[i] = q[k + i]
    BY <2>1, <2>3, SubSeqProperties
  <2> HIDE DEF a, b
  <2>6. /\ u \in Seq(Peers) /\ Len(u) = Len(q) - 1
        /\ \A i \in 1 .. Len(q) - 1 : u[i] = IF i < k THEN q[i] ELSE q[i + 1]
    <3>1. /\ u \in Seq(Peers) /\ Len(u) = Len(a) + Len(b)
          /\ \A i \in 1 .. Len(a) + Len(b) : u[i] = IF i <= Len(a) THEN a[i] ELSE b[i - Len(a)]
      BY <2>2, <2>4, <2>5, ConcatProperties
    <3>2. Len(u) = Len(q) - 1
      BY <2>1, <2>4, <2>5, <3>1
    <3>3. ASSUME NEW i \in 1 .. Len(q) - 1, i < k PROVE u[i] = q[i]
      <4>1. i \in 1 .. Len(a) + Len(b) /\ i <= Len(a) /\ i \in 1 .. k - 1
        BY <2>1, <2>4, <2>5, <3>3
      <4> QED BY <2>4, <3>1, <4>1
    <3>4. ASSUME NEW i \in 1 .. Len(q) - 1, ~ (i < k) PROVE u[i] = q[i + 1]
      <4>1. i \in 1 .. Len(a) + Len(b) /\ ~ (i <= Len(a)) /\ i - Len(a) = i - k + 1
        BY <2>1, <2>4, <2>5, <3>4
      <4>2. i - k + 1 \in 1 .. Len(q) - k /\ k + (i - k + 1) = i + 1
        BY <2>1, <3>4
      <4> QED BY <2>5, <3>1, <4>1, <4>2
    <3> QED BY <3>1, <3>2, <3>3, <3>4
  <2>7. ASSUME NEW r, r # p PROVE r \in ToSet(u) <=> r \in ToSet(q)
    <3>1. r \in ToSet(u) <=> \E i \in 1 .. Len(u) : u[i] = r
      BY <2>6, ToSetOf
    <3>2. r \in ToSet(q) <=> \E i \in 1 .. Len(q) : q[i] = r
      BY ToSetOf
    <3>3. ASSUME NEW i \in 1 .. Len(q), q[i] = r PROVE r \in ToSet(u)
      <4> DEFINE j == IF i < k THEN i ELSE i - 1
      <4>1. i # k
        BY <2>1, <2>7, <3>3
      <4>2. j \in 1 .. Len(u) /\ u[j] = q[i]
        BY <2>1, <2>6, <4>1
      <4> QED BY <3>1, <3>3, <4>2
    <3>4. ASSUME NEW i \in 1 .. Len(u), u[i] = r PROVE r \in ToSet(q)
      BY <2>1, <2>6, <3>2, <3>4
    <3> QED BY <3>1, <3>2, <3>3, <3>4
  <2>8. LinkedOnce(q) => LinkedOnce(u) /\ p \notin ToSet(u)
    <3> SUFFICES ASSUME LinkedOnce(q) PROVE LinkedOnce(u) /\ p \notin ToSet(u)
      OBVIOUS
    <3>1. LinkedOnce(u)
      BY <2>1, <2>6 DEF LinkedOnce
    <3>2. \A i \in 1 .. Len(u) : u[i] # p
      BY <2>1, <2>6 DEF LinkedOnce
    <3> QED BY <2>6, <3>1, <3>2, ToSetOf
  <2> QED BY <1>2, <2>6, <2>7, <2>8 DEF u
<1> QED BY <1>1, <1>2

-----------------------------------------------------------------------------
(* What the functions of EnetHost do to the slot p, and that they leave     *)
(* the others alone.                                                       *)

SameLists(g, h, q) ==
    /\ g.outgoing[q] = h.outgoing[q]
    /\ g.unacked[q] = h.unacked[q]
    /\ g.first[q] = h.first[q]
    /\ q \in g.acknowledgements <=> q \in h.acknowledgements
    /\ q \in g.dispatched <=> q \in h.dispatched

SameLinks(g, h, q) ==
    /\ q \in g.needsDispatch <=> q \in h.needsDispatch
    /\ q \in ToSet(g.dispatchQueue) <=> q \in ToSet(h.dispatchQueue)

Untouched(g, h, q) ==
    /\ g.state[q] = h.state[q]
    /\ SameLists(g, h, q)
    /\ SameLinks(g, h, q)

Elsewhere(g, h, p) == \A q \in Peers \ {p} : Untouched(g, h, q)

\* The lists of a peer whose queues were reset.
Cleared(g, p) ==
    /\ g.outgoing[p] = {}
    /\ g.unacked[p] = {}
    /\ p \notin g.acknowledgements
    /\ p \notin g.dispatched
    /\ p \notin g.needsDispatch

LEMMA ElsewhereTwice ==
    ASSUME NEW f, NEW g, NEW h, NEW p, Elsewhere(f, g, p), Elsewhere(g, h, p)
    PROVE  Elsewhere(f, h, p)
  BY DEF Elsewhere, Untouched, SameLists, SameLinks

LEMMA ElsewhereSame ==
    ASSUME NEW h, NEW p
    PROVE  Elsewhere(h, h, p)
  BY DEF Elsewhere, Untouched, SameLists, SameLinks

\* Counters and limits are no part of a slot here.
LEMMA CountingEffect ==
    ASSUME NEW h \in HostType, NEW p \in Peers, NEW g \in {OnConnect(h, p), OnDisconnect(h, p)}
    PROVE  /\ g.state = h.state /\ g.limited = h.limited
           /\ g.outgoing = h.outgoing /\ g.unacked = h.unacked /\ g.first = h.first
           /\ g.acknowledgements = h.acknowledgements /\ g.dispatched = h.dispatched
           /\ g.needsDispatch = h.needsDispatch /\ g.dispatchQueue = h.dispatchQueue
<1> DEFINE Same(f) ==
                /\ f.state = h.state /\ f.limited = h.limited
                /\ f.outgoing = h.outgoing /\ f.unacked = h.unacked /\ f.first = h.first
                /\ f.acknowledgements = h.acknowledgements /\ f.dispatched = h.dispatched
                /\ f.needsDispatch = h.needsDispatch /\ f.dispatchQueue = h.dispatchQueue
<1> DEFINE Counting(c, b) == [h EXCEPT !.connectedPeers = c, !.bandwidthLimitedPeers = b]
<1>1. ASSUME NEW c, NEW b PROVE Same(Counting(c, b))
  BY DEF HostType
<1>2. Same(h)
  OBVIOUS
<1>3. \/ g = h
      \/ g = Counting(h.connectedPeers + 1, h.bandwidthLimitedPeers + Limit(h, p))
      \/ g = Counting(h.connectedPeers - 1, h.bandwidthLimitedPeers - Limit(h, p))
  BY Zenon DEF OnConnect, OnDisconnect
<1>4. Same(g)
  <2> HIDE DEF Same, Counting
  <2> QED BY <1>1, <1>2, <1>3
<1> QED BY <1>4

LEMMA ChangeStateEffect ==
    ASSUME NEW h \in HostType, NEW p \in Peers, NEW s \in State
    PROVE  LET g == ChangeState(h, p, s)
           IN  /\ Elsewhere(g, h, p) /\ SameLists(g, h, p)
               /\ g.state[p] = s
               /\ g.needsDispatch = h.needsDispatch /\ g.dispatchQueue = h.dispatchQueue
<1> DEFINE d == IF s \in Active THEN OnConnect(h, p) ELSE OnDisconnect(h, p)
           g == [d EXCEPT !.state[p] = s]
<1>1. d \in HostType
  BY OnConnectType, OnDisconnectType
<1>2. /\ d.state = h.state
      /\ d.outgoing = h.outgoing /\ d.unacked = h.unacked /\ d.first = h.first
      /\ d.acknowledgements = h.acknowledgements /\ d.dispatched = h.dispatched
      /\ d.needsDispatch = h.needsDispatch /\ d.dispatchQueue = h.dispatchQueue
  BY CountingEffect
<1>3. ChangeState(h, p, s) = g
  BY DEF ChangeState
<1> HIDE DEF d
<1>4. /\ g.state = [h.state EXCEPT ![p] = s]
      /\ g.outgoing = h.outgoing /\ g.unacked = h.unacked /\ g.first = h.first
      /\ g.acknowledgements = h.acknowledgements /\ g.dispatched = h.dispatched
      /\ g.needsDispatch = h.needsDispatch /\ g.dispatchQueue = h.dispatchQueue
  BY <1>1, <1>2 DEF HostType
<1> HIDE DEF g
<1> QED BY <1>3, <1>4 DEF Elsewhere, Untouched, SameLists, SameLinks, HostType

LEMMA NeedsDispatchEffect ==
    ASSUME NEW h \in HostType, NEW p \in Peers
    PROVE  LET g == NeedsDispatch(h, p)
           IN  /\ Elsewhere(g, h, p) /\ SameLists(g, h, p)
               /\ g.state[p] = h.state[p]
               /\ p \in g.needsDispatch
               /\ (p \in h.needsDispatch => p \in ToSet(h.dispatchQueue))
                    => p \in ToSet(g.dispatchQueue)
               /\ LinkedOnce(h.dispatchQueue) /\ (p \in ToSet(h.dispatchQueue) => p \in h.needsDispatch)
                    => LinkedOnce(g.dispatchQueue)
<1> DEFINE g == NeedsDispatch(h, p)
<1>1. /\ g.state = h.state
      /\ g.outgoing = h.outgoing /\ g.unacked = h.unacked /\ g.first = h.first
      /\ g.acknowledgements = h.acknowledgements /\ g.dispatched = h.dispatched
      /\ g.needsDispatch = h.needsDispatch \cup {p}
      /\ g.dispatchQueue = IF p \in h.needsDispatch THEN h.dispatchQueue
                                                    ELSE Append(h.dispatchQueue, p)
  BY DEF NeedsDispatch, HostType
<1> HIDE DEF g
<1>2. \A r : r \in ToSet(Append(h.dispatchQueue, p)) <=> r \in ToSet(h.dispatchQueue) \/ r = p
  BY LinkedLast DEF HostType
<1>3. LinkedOnce(h.dispatchQueue) /\ p \notin ToSet(h.dispatchQueue)
      => LinkedOnce(Append(h.dispatchQueue, p))
  BY LinkedLast DEF HostType
<1>4. Elsewhere(g, h, p) /\ SameLists(g, h, p)
  BY <1>1, <1>2 DEF Elsewhere, Untouched, SameLists, SameLinks
<1> QED BY <1>1, <1>2, <1>3, <1>4 DEF g

LEMMA SetLimitEffect ==
    ASSUME NEW h \in HostType, NEW p \in Peers, NEW l \in BOOLEAN
    PROVE  LET g == SetLimit(h, p, l)
           IN  /\ g.state = h.state
               /\ g.outgoing = h.outgoing /\ g.unacked = h.unacked /\ g.first = h.first
               /\ g.acknowledgements = h.acknowledgements /\ g.dispatched = h.dispatched
               /\ g.needsDispatch = h.needsDispatch /\ g.dispatchQueue = h.dispatchQueue
  BY DEF SetLimit, HostType

LEMMA ResetQueuesEffect ==
    ASSUME NEW h \in HostType, NEW p \in Peers
    PROVE  LET g == ResetQueues(h, p)
           IN  /\ Elsewhere(g, h, p) /\ Cleared(g, p)
               /\ g.state = h.state /\ g.first = h.first
               /\ p \in ToSet(g.dispatchQueue) => p \in ToSet(h.dispatchQueue)
               /\ p \notin h.needsDispatch => g.dispatchQueue = h.dispatchQueue
               /\ LinkedOnce(h.dispatchQueue) =>
                    /\ LinkedOnce(g.dispatchQueue)
                    /\ p \in h.needsDispatch => p \notin ToSet(g.dispatchQueue)
<1> DEFINE g == ResetQueues(h, p)
<1>1. /\ g.state = h.state /\ g.first = h.first
      /\ g.outgoing = [h.outgoing EXCEPT ![p] = {}] /\ g.unacked = [h.unacked EXCEPT ![p] = {}]
      /\ g.acknowledgements = h.acknowledgements \ {p} /\ g.dispatched = h.dispatched \ {p}
      /\ g.needsDispatch = h.needsDispatch \ {p}
      /\ g.dispatchQueue = IF p \in h.needsDispatch THEN Unlink(h.dispatchQueue, p)
                                                    ELSE h.dispatchQueue
  BY DEF ResetQueues, HostType
<1> HIDE DEF g
<1>2. /\ \A r : r # p => (r \in ToSet(Unlink(h.dispatchQueue, p)) <=> r \in ToSet(h.dispatchQueue))
      /\ p \in ToSet(Unlink(h.dispatchQueue, p)) => p \in ToSet(h.dispatchQueue)
      /\ LinkedOnce(h.dispatchQueue) => /\ LinkedOnce(Unlink(h.dispatchQueue, p))
                                  /\ p \notin ToSet(Unlink(h.dispatchQueue, p))
  BY TakenOut DEF HostType
<1>3. Elsewhere(g, h, p) /\ Cleared(g, p)
  BY <1>1, <1>2 DEF Elsewhere, Untouched, SameLists, SameLinks, Cleared, HostType
<1> QED BY <1>1, <1>2, <1>3 DEF g

\* A waiting peer is linked, if its flag told the truth before.
LEMMA DispatchStateEffect ==
    ASSUME NEW h \in HostType, NEW p \in Peers, NEW s \in State
    PROVE  LET g == DispatchState(h, p, s)
           IN  /\ Elsewhere(g, h, p) /\ SameLists(g, h, p)
               /\ g.state[p] = s
               /\ p \in g.needsDispatch
               /\ (p \in h.needsDispatch => p \in ToSet(h.dispatchQueue))
                    => p \in ToSet(g.dispatchQueue)
               /\ LinkedOnce(h.dispatchQueue) /\ (p \in ToSet(h.dispatchQueue) => p \in h.needsDispatch)
                    => LinkedOnce(g.dispatchQueue)
<1> DEFINE k == ChangeState(h, p, s)
           g == NeedsDispatch(k, p)
<1>1. /\ k \in HostType
      /\ Elsewhere(k, h, p) /\ SameLists(k, h, p) /\ k.state[p] = s
      /\ k.needsDispatch = h.needsDispatch /\ k.dispatchQueue = h.dispatchQueue
  BY ChangeStateType, ChangeStateEffect
<1> HIDE DEF k
<1>2. /\ Elsewhere(g, k, p) /\ SameLists(g, k, p) /\ g.state[p] = k.state[p]
      /\ p \in g.needsDispatch
      /\ (p \in k.needsDispatch => p \in ToSet(k.dispatchQueue))
            => p \in ToSet(g.dispatchQueue)
      /\ LinkedOnce(k.dispatchQueue) /\ (p \in ToSet(k.dispatchQueue) => p \in k.needsDispatch)
            => LinkedOnce(g.dispatchQueue)
  BY <1>1, NeedsDispatchEffect
<1> HIDE DEF g
<1>3. Elsewhere(g, h, p) /\ SameLists(g, h, p)
  BY <1>1, <1>2, ElsewhereTwice DEF SameLists
<1> QED BY <1>1, <1>2, <1>3 DEF DispatchState, g, k

\* A peer that is reset stays linked where it was.
LEMMA ResetEffect ==
    ASSUME NEW h \in HostType, NEW p \in Peers
    PROVE  LET g == Reset(h, p)
           IN  /\ Elsewhere(g, h, p) /\ Cleared(g, p)
               /\ g.state[p] = "DISCONNECTED" /\ g.first[p] = "NONE"
               /\ g.dispatchQueue = h.dispatchQueue
<1> DEFINE d == OnDisconnect(h, p)
           k == [d EXCEPT !.state[p] = "DISCONNECTED",
                          !.limited = @ \ {p},
                          !.first[p] = "NONE",
                          !.needsDispatch = @ \ {p}]
           g == ResetQueues(k, p)
<1>1. /\ d \in HostType
      /\ d.state = h.state /\ d.limited = h.limited
      /\ d.outgoing = h.outgoing /\ d.unacked = h.unacked /\ d.first = h.first
      /\ d.acknowledgements = h.acknowledgements /\ d.dispatched = h.dispatched
      /\ d.needsDispatch = h.needsDispatch /\ d.dispatchQueue = h.dispatchQueue
  BY OnDisconnectType, CountingEffect
<1> HIDE DEF d
<1>2. /\ k \in HostType
      /\ k.state = [h.state EXCEPT ![p] = "DISCONNECTED"]
      /\ k.outgoing = h.outgoing /\ k.unacked = h.unacked
      /\ k.first = [h.first EXCEPT ![p] = "NONE"]
      /\ k.acknowledgements = h.acknowledgements /\ k.dispatched = h.dispatched
      /\ k.needsDispatch = h.needsDispatch \ {p} /\ k.dispatchQueue = h.dispatchQueue
  BY <1>1 DEF HostType, State
<1> HIDE DEF k
<1>3. Elsewhere(k, h, p)
  BY <1>2 DEF Elsewhere, Untouched, SameLists, SameLinks, HostType
<1>4. k.state[p] = "DISCONNECTED" /\ k.first[p] = "NONE"
  BY <1>2 DEF HostType
<1>5. /\ Elsewhere(g, k, p) /\ Cleared(g, p)
      /\ g.state = k.state /\ g.first = k.first
      /\ g.dispatchQueue = k.dispatchQueue
  BY <1>2, ResetQueuesEffect
<1> HIDE DEF g
<1>6. Elsewhere(g, h, p)
  BY <1>3, <1>5, ElsewhereTwice
<1> QED BY <1>2, <1>4, <1>5, <1>6 DEF Reset, g, k, d

LEMMA QueueEffect ==
    ASSUME NEW h \in HostType, NEW p \in Peers, NEW c
    PROVE  LET g == Queue(h, p, c)
           IN  /\ Elsewhere(g, h, p)
               /\ g.state = h.state
               /\ g.outgoing[p] = h.outgoing[p] \cup {c}
               /\ g.unacked[p] = h.unacked[p]
               /\ g.first[p] = h.first[p] \/ (h.first[p] = "NONE" /\ g.first[p] = c)
               /\ g.acknowledgements = h.acknowledgements /\ g.dispatched = h.dispatched
               /\ g.needsDispatch = h.needsDispatch /\ g.dispatchQueue = h.dispatchQueue
<1> DEFINE g == Queue(h, p, c)
<1>1. /\ g.state = h.state
      /\ g.outgoing = [h.outgoing EXCEPT ![p] = @ \cup {c}] /\ g.unacked = h.unacked
      /\ g.first = [h.first EXCEPT ![p] = IF @ = "NONE" /\ c # "UNRELIABLE" THEN c ELSE @]
      /\ g.acknowledgements = h.acknowledgements /\ g.dispatched = h.dispatched
      /\ g.needsDispatch = h.needsDispatch /\ g.dispatchQueue = h.dispatchQueue
  BY DEF Queue, HostType
<1> HIDE DEF g
<1>2. Elsewhere(g, h, p)
  BY <1>1 DEF Elsewhere, Untouched, SameLists, SameLinks, HostType
<1>3. /\ g.outgoing[p] = h.outgoing[p] \cup {c} /\ g.unacked[p] = h.unacked[p]
      /\ g.first[p] = h.first[p] \/ (h.first[p] = "NONE" /\ g.first[p] = c)
  BY <1>1 DEF HostType
<1> QED BY <1>1, <1>2, <1>3 DEF g

\* The disconnection of p has begun: the DISCONNECT is all that is left in the lists, but
\* for a ping, and the peer is in no queue it was flagged for.
Disconnecting(g, h, p) ==
    /\ Elsewhere(g, h, p)
    /\ g.state[p] = "DISCONNECTING"
    /\ "DISCONNECT" \in g.outgoing[p] \cup g.unacked[p]
    /\ g.outgoing[p] \cup g.unacked[p] \subseteq {"DISCONNECT", "RELIABLE"}
    /\ g.first[p] = h.first[p] \/ (h.first[p] = "NONE" /\ g.first[p] # "CONNECT")
    /\ p \notin g.acknowledgements /\ p \notin g.dispatched
    /\ p \notin g.needsDispatch
    /\ p \in ToSet(g.dispatchQueue) => p \in ToSet(h.dispatchQueue)
    /\ LinkedOnce(h.dispatchQueue) =>
         /\ LinkedOnce(g.dispatchQueue)
         /\ p \in h.needsDispatch => p \notin ToSet(g.dispatchQueue)

LEMMA BeginDisconnectEffect ==
    ASSUME NEW h \in HostType, NEW p \in Peers
    PROVE  Disconnecting(BeginDisconnect(h, p), h, p)
<1> DEFINE k == ResetQueues(h, p)
           l == Queue(k, p, "DISCONNECT")
           d == OnDisconnect(l, p)
           g == [d EXCEPT !.state[p] = "DISCONNECTING"]
<1>1. k \in HostType
  BY ResetQueuesType
<1>2. /\ Elsewhere(k, h, p) /\ Cleared(k, p) /\ k.first = h.first
      /\ p \in ToSet(k.dispatchQueue) => p \in ToSet(h.dispatchQueue)
      /\ LinkedOnce(h.dispatchQueue) =>
           /\ LinkedOnce(k.dispatchQueue)
           /\ p \in h.needsDispatch => p \notin ToSet(k.dispatchQueue)
  BY ResetQueuesEffect
<1> HIDE DEF k
<1>3. l \in HostType
  BY <1>1, QueueType DEF Command
<1>4. /\ Elsewhere(l, k, p)
      /\ l.outgoing[p] = k.outgoing[p] \cup {"DISCONNECT"} /\ l.unacked[p] = k.unacked[p]
      /\ l.first[p] = k.first[p] \/ (k.first[p] = "NONE" /\ l.first[p] = "DISCONNECT")
      /\ l.acknowledgements = k.acknowledgements /\ l.dispatched = k.dispatched
      /\ l.needsDispatch = k.needsDispatch /\ l.dispatchQueue = k.dispatchQueue
  BY <1>1, QueueEffect
<1> HIDE DEF l
<1>5. d \in HostType
  BY <1>3, OnDisconnectType
<1>6. /\ d.state = l.state
      /\ d.outgoing = l.outgoing /\ d.unacked = l.unacked /\ d.first = l.first
      /\ d.acknowledgements = l.acknowledgements /\ d.dispatched = l.dispatched
      /\ d.needsDispatch = l.needsDispatch /\ d.dispatchQueue = l.dispatchQueue
  BY <1>3, CountingEffect
<1> HIDE DEF d
<1>7. /\ g.state = [l.state EXCEPT ![p] = "DISCONNECTING"]
      /\ g.outgoing = l.outgoing /\ g.unacked = l.unacked /\ g.first = l.first
      /\ g.acknowledgements = l.acknowledgements /\ g.dispatched = l.dispatched
      /\ g.needsDispatch = l.needsDispatch /\ g.dispatchQueue = l.dispatchQueue
  BY <1>5, <1>6 DEF HostType
<1> HIDE DEF g
<1>8. Elsewhere(g, l, p) /\ g.state[p] = "DISCONNECTING"
  BY <1>3, <1>7 DEF Elsewhere, Untouched, SameLists, SameLinks, HostType
<1>9. Elsewhere(g, h, p)
  BY <1>2, <1>4, <1>8, ElsewhereTwice
<1>10. g.outgoing[p] = {"DISCONNECT"}
  BY <1>2, <1>4, <1>7 DEF Cleared
<1> QED BY <1>2, <1>4, <1>7, <1>8, <1>9, <1>10 DEF BeginDisconnect, Disconnecting, g, d, l, k, Cleared

\* What an acknowledgement takes away is c.
LEMMA AcknowledgeEffect ==
    ASSUME NEW h \in HostType, NEW p \in Peers, NEW c, NEW g \in Acknowledge(h, p, c)
    PROVE  /\ Elsewhere(g, h, p)
           /\ g.state = h.state /\ g.first = h.first
           /\ g.outgoing[p] \subseteq h.outgoing[p] /\ h.outgoing[p] \subseteq g.outgoing[p] \cup {c}
           /\ g.unacked[p] \subseteq h.unacked[p] /\ h.unacked[p] \subseteq g.unacked[p] \cup {c}
           /\ c # "RELIABLE" => c \notin g.unacked[p] /\ g.outgoing[p] = h.outgoing[p]
           /\ g.acknowledgements = h.acknowledgements /\ g.dispatched = h.dispatched
           /\ g.needsDispatch = h.needsDispatch /\ g.dispatchQueue = h.dispatchQueue
<1>1. /\ g.state = h.state /\ g.first = h.first
      /\ g.acknowledgements = h.acknowledgements /\ g.dispatched = h.dispatched
      /\ g.needsDispatch = h.needsDispatch /\ g.dispatchQueue = h.dispatchQueue
  BY DEF Acknowledge, HostType
<1>2. \/ /\ g.outgoing = h.outgoing
         /\ g.unacked = [h.unacked EXCEPT ![p] = @ \ {c}]
      \/ /\ c = "RELIABLE"
         /\ g.outgoing = h.outgoing /\ g.unacked = h.unacked
      \/ /\ c = "RELIABLE"
         /\ g.outgoing = [h.outgoing EXCEPT ![p] = @ \ {c}] /\ g.unacked = h.unacked
  BY DEF Acknowledge, HostType
<1>3. Elsewhere(g, h, p)
  BY <1>1, <1>2 DEF Elsewhere, Untouched, SameLists, SameLinks, HostType
<1>4. /\ g.outgoing[p] \subseteq h.outgoing[p] /\ h.outgoing[p] \subseteq g.outgoing[p] \cup {c}
      /\ g.unacked[p] \subseteq h.unacked[p] /\ h.unacked[p] \subseteq g.unacked[p] \cup {c}
      /\ c # "RELIABLE" => c \notin g.unacked[p] /\ g.outgoing[p] = h.outgoing[p]
  BY <1>2 DEF HostType
<1> QED BY <1>1, <1>3, <1>4

LEMMA NotifyConnectEffect ==
    ASSUME NEW h \in HostType, NEW p \in Peers, NEW e \in BOOLEAN
    PROVE  LET g == NotifyConnect(h, p, e)
           IN  /\ Elsewhere(g, h, p) /\ SameLists(g, h, p)
               /\ e => /\ g.state[p] = "CONNECTED"
                       /\ g.needsDispatch = h.needsDispatch
                       /\ g.dispatchQueue = h.dispatchQueue
               /\ ~ e => /\ g.state[p] = IF h.state[p] = "CONNECTING"
                                         THEN "CONNECTION_SUCCEEDED" ELSE "CONNECTION_PENDING"
                         /\ p \in g.needsDispatch
                         /\ (p \in h.needsDispatch => p \in ToSet(h.dispatchQueue))
                               => p \in ToSet(g.dispatchQueue)
<1>1. CASE e
  BY <1>1, ChangeStateEffect DEF NotifyConnect, State
<1>2. CASE ~ e
  <2> DEFINE s == IF h.state[p] = "CONNECTING" THEN "CONNECTION_SUCCEEDED"
                                               ELSE "CONNECTION_PENDING"
  <2>1. s \in State
    BY DEF State
  <2>2. NotifyConnect(h, p, e) = DispatchState(h, p, s)
    BY <1>2 DEF NotifyConnect
  <2> HIDE DEF s
  <2>3. /\ Elsewhere(DispatchState(h, p, s), h, p) /\ SameLists(DispatchState(h, p, s), h, p)
        /\ DispatchState(h, p, s).state[p] = s
        /\ p \in DispatchState(h, p, s).needsDispatch
        /\ (p \in h.needsDispatch => p \in ToSet(h.dispatchQueue))
              => p \in ToSet(DispatchState(h, p, s).dispatchQueue)
    BY <2>1, DispatchStateEffect
  <2> QED BY <1>2, <2>2, <2>3 DEF s
<1> QED BY <1>1, <1>2

\* A DISCONNECT that waited for the next send pass is acknowledged, the peer is a zombie.
LEMMA SendAcknowledgementsEffect ==
    ASSUME NEW h \in HostType, NEW p \in Peers
    PROVE  LET g == SendAcknowledgements(h, p)
           IN  /\ Elsewhere(g, h, p)
               /\ p \notin g.acknowledgements
               /\ g.outgoing[p] = h.outgoing[p] /\ g.unacked[p] = h.unacked[p]
               /\ g.first[p] = h.first[p] /\ (p \in g.dispatched <=> p \in h.dispatched)
               /\ p \notin h.acknowledgements => g = h
               /\ p \in h.acknowledgements =>
                    /\ g.state[p] = "ZOMBIE"
                    /\ p \in g.needsDispatch
                    /\ (p \in h.needsDispatch => p \in ToSet(h.dispatchQueue))
                          => p \in ToSet(g.dispatchQueue)
                    /\ LinkedOnce(h.dispatchQueue)
                       /\ (p \in ToSet(h.dispatchQueue) => p \in h.needsDispatch)
                          => LinkedOnce(g.dispatchQueue)
<1>1. CASE p \notin h.acknowledgements
  BY <1>1, ElsewhereSame DEF SendAcknowledgements
<1>2. CASE p \in h.acknowledgements
  <2> DEFINE k == DispatchState(h, p, "ZOMBIE")
             g == [k EXCEPT !.acknowledgements = @ \ {p}]
  <2>1. k \in HostType
    BY DispatchStateType DEF State
  <2>2. /\ Elsewhere(k, h, p) /\ SameLists(k, h, p)
        /\ k.state[p] = "ZOMBIE"
        /\ p \in k.needsDispatch
        /\ (p \in h.needsDispatch => p \in ToSet(h.dispatchQueue))
              => p \in ToSet(k.dispatchQueue)
        /\ LinkedOnce(h.dispatchQueue) /\ (p \in ToSet(h.dispatchQueue) => p \in h.needsDispatch)
              => LinkedOnce(k.dispatchQueue)
    BY DispatchStateEffect DEF State
  <2> HIDE DEF k
  <2>3. /\ g.state = k.state
        /\ g.outgoing = k.outgoing /\ g.unacked = k.unacked /\ g.first = k.first
        /\ g.acknowledgements = k.acknowledgements \ {p} /\ g.dispatched = k.dispatched
        /\ g.needsDispatch = k.needsDispatch /\ g.dispatchQueue = k.dispatchQueue
    BY <2>1 DEF HostType
  <2>4. SendAcknowledgements(h, p) = g
    BY <1>2 DEF SendAcknowledgements, k
  <2> HIDE DEF g
  <2>5. Elsewhere(g, k, p)
    BY <2>3 DEF Elsewhere, Untouched, SameLists, SameLinks
  <2>6. Elsewhere(g, h, p)
    BY <2>2, <2>5, ElsewhereTwice
  <2> QED BY <1>2, <2>2, <2>3, <2>4, <2>6 DEF SameLists
<1> QED BY <1>1, <1>2

\* All that can be acknowledged stays until it is; at most RELIABLE is added to it.
Sent(g, h, p) ==
    /\ Elsewhere(g, h, p)
    /\ g.state[p] = h.state[p]
    /\ g.outgoing[p] \subseteq {"RELIABLE"}
    /\ h.unacked[p] \cup (h.outgoing[p] \cap Acknowledged) \subseteq g.unacked[p]
    /\ g.unacked[p] \subseteq h.unacked[p] \cup h.outgoing[p] \cup {"RELIABLE"}
    /\ g.first[p] = h.first[p] \/ (h.first[p] = "NONE" /\ g.first[p] = "RELIABLE")
    /\ p \in g.acknowledgements <=> p \in h.acknowledgements
    /\ p \in g.dispatched <=> p \in h.dispatched
    /\ g.needsDispatch = h.needsDispatch /\ g.dispatchQueue = h.dispatchQueue
    /\ h.state[p] = "DISCONNECT_LATER" /\ HasOutgoing(h, p) => HasOutgoing(g, p)

LEMMA SentTwice ==
    ASSUME NEW f, NEW g, NEW h, NEW p, Sent(f, g, p), Sent(g, h, p)
    PROVE  Sent(f, h, p)
<1>1. Elsewhere(f, h, p)
  BY ElsewhereTwice DEF Sent
<1> QED BY <1>1 DEF Sent

LEMMA SentDisconnecting ==
    ASSUME NEW f, NEW g, NEW h, NEW p, Sent(f, g, p), Disconnecting(g, h, p)
    PROVE  Disconnecting(f, h, p)
<1>1. Elsewhere(f, h, p)
  BY ElsewhereTwice DEF Sent, Disconnecting
<1>2. /\ "DISCONNECT" \in f.outgoing[p] \cup f.unacked[p]
      /\ f.outgoing[p] \cup f.unacked[p] \subseteq {"DISCONNECT", "RELIABLE"}
  BY DEF Sent, Disconnecting, Acknowledged, Command
<1> QED BY <1>1, <1>2 DEF Sent, Disconnecting

LEMMA SentNothing ==
    ASSUME NEW h \in HostType, NEW p \in Peers, ~ HasOutgoing(h, p)
    PROVE  Sent(h, h, p)
  BY ElsewhereSame DEF Sent, HasOutgoing

LEMMA TransmitEffect ==
    ASSUME NEW h \in HostType, NEW p \in Peers, NEW held \in SUBSET {"RELIABLE"}
    PROVE  \/ Sent(Transmit(h, p, held), h, p)
           \/ h.state[p] = "DISCONNECT_LATER" /\ Disconnecting(Transmit(h, p, held), h, p)
<1> DEFINE u == h.unacked[p] \cup (h.outgoing[p] \cap Acknowledged)
           k == [h EXCEPT !.outgoing[p] = held, !.unacked[p] = u]
<1>1. Transmit(h, p, held) = FinishDisconnectLater(k, p)
  BY DEF Transmit, HostType
<1>2. u \in SUBSET Acknowledged /\ u \subseteq h.unacked[p] \cup h.outgoing[p]
  BY DEF HostType
<1> HIDE DEF u
<1>3. /\ k.state = h.state /\ k.first = h.first
      /\ k.outgoing = [h.outgoing EXCEPT ![p] = held]
      /\ k.unacked = [h.unacked EXCEPT ![p] = u]
      /\ k.acknowledgements = h.acknowledgements /\ k.dispatched = h.dispatched
      /\ k.needsDispatch = h.needsDispatch /\ k.dispatchQueue = h.dispatchQueue
  BY DEF HostType
<1>4. k \in HostType
  BY <1>2 DEF HostType, Command, Acknowledged
<1> HIDE DEF k
<1>5. k.outgoing[p] = held /\ k.unacked[p] = u
  BY <1>3 DEF HostType
<1>6. Elsewhere(k, h, p)
  BY <1>3 DEF Elsewhere, Untouched, SameLists, SameLinks, HostType
<1>7. CASE h.state[p] = "DISCONNECT_LATER" /\ ~ HasOutgoing(k, p)
  <2>1. FinishDisconnectLater(k, p) = BeginDisconnect(k, p)
    BY <1>3, <1>7 DEF FinishDisconnectLater
  <2>2. Disconnecting(BeginDisconnect(k, p), k, p)
    BY <1>4, BeginDisconnectEffect
  <2>3. Disconnecting(BeginDisconnect(k, p), h, p)
    BY <1>3, <1>6, <2>2, ElsewhereTwice DEF Disconnecting
  <2> QED BY <1>1, <1>7, <2>1, <2>3
<1>8. CASE ~ (h.state[p] = "DISCONNECT_LATER" /\ ~ HasOutgoing(k, p))
  <2>1. FinishDisconnectLater(k, p) = k
    BY <1>3, <1>8 DEF FinishDisconnectLater
  <2>2. Sent(k, h, p)
    BY <1>2, <1>3, <1>5, <1>6, <1>8 DEF Sent, u
  <2> QED BY <1>1, <2>1, <2>2
<1> QED BY <1>7, <1>8

\* A ping is added and sent at once.
LEMMA PingIfQuietEffect ==
    ASSUME NEW h0, NEW h \in HostType, NEW p \in Peers, h.outgoing[p] \subseteq {"RELIABLE"},
           NEW g \in PingIfQuiet(h0, h, p)
    PROVE  \/ g = h
           \/ Sent(g, h, p)
           \/ h.state[p] = "DISCONNECT_LATER" /\ Disconnecting(g, h, p)
<1>1. CASE g = Transmit(h, p, {}) /\ PingPeer(h, p) = h
  BY <1>1, TransmitEffect
<1>2. CASE g = Transmit(Queue(h, p, "RELIABLE"), p, {}) /\ h.state[p] = "CONNECTED"
  <2> DEFINE k == Queue(h, p, "RELIABLE")
  <2>1. k \in HostType
    BY QueueType DEF Command
  <2>2. /\ Elsewhere(k, h, p)
        /\ k.state = h.state
        /\ k.outgoing[p] = h.outgoing[p] \cup {"RELIABLE"}
        /\ k.unacked[p] = h.unacked[p]
        /\ k.first[p] = h.first[p] \/ (h.first[p] = "NONE" /\ k.first[p] = "RELIABLE")
        /\ k.acknowledgements = h.acknowledgements /\ k.dispatched = h.dispatched
        /\ k.needsDispatch = h.needsDispatch /\ k.dispatchQueue = h.dispatchQueue
    BY QueueEffect
  <2> HIDE DEF k
  <2>3. Sent(g, k, p)
    BY <1>2, <2>1, <2>2, TransmitEffect DEF k
  <2>4. Elsewhere(g, h, p)
    BY <2>2, <2>3, ElsewhereTwice DEF Sent
  <2>5. Sent(g, h, p)
    BY <1>2, <2>2, <2>3, <2>4 DEF Sent
  <2> QED BY <2>5
<1> QED BY <1>1, <1>2 DEF PingIfQuiet, PingPeer

LEMMA TransmitToEffect ==
    ASSUME TypeOK, NEW p \in Peers, TransmitTo(p)
    PROVE  \/ Sent(host', SendAcknowledgements(host, p), p)
           \/ host.state[p] = "DISCONNECT_LATER" /\ Disconnecting(host', host, p)
<1> DEFINE h == SendAcknowledgements(host, p)
<1>1. /\ h \in HostType /\ host \in HostType
      /\ h.state[p] = "DISCONNECT_LATER" => h = host
  BY SendAcknowledgementsType, SendAcknowledgementsEffect DEF TypeOK
<1>2. \/ ~ HasOutgoing(h, p) /\ host' \in PingIfQuiet(h, h, p)
      \/ \E held \in Holdable(h, p) : host' \in PingIfQuiet(h, Transmit(h, p, held), p)
  BY DEF TransmitTo
<1> HIDE DEF h
<1>3. CASE ~ HasOutgoing(h, p) /\ host' \in PingIfQuiet(h, h, p)
  <2>1. h.outgoing[p] \subseteq {"RELIABLE"}
    BY <1>3 DEF HasOutgoing
  <2>2. Sent(h, h, p)
    BY <1>1, <1>3, SentNothing
  <2> QED BY <1>1, <1>3, <2>1, <2>2, PingIfQuietEffect DEF h
<1>4. ASSUME NEW held \in Holdable(h, p), host' \in PingIfQuiet(h, Transmit(h, p, held), p)
      PROVE  \/ Sent(host', h, p)
             \/ h.state[p] = "DISCONNECT_LATER" /\ Disconnecting(host', h, p)
  <2> DEFINE k == Transmit(h, p, held)
  <2>1. held \in SUBSET {"RELIABLE"}
    BY DEF Holdable
  <2>2. k \in HostType
    BY <1>1, <2>1, TransmitType DEF Command
  <2>3. \/ Sent(k, h, p)
        \/ h.state[p] = "DISCONNECT_LATER" /\ Disconnecting(k, h, p)
    BY <1>1, <2>1, TransmitEffect
  <2> HIDE DEF k
  <2>4. CASE Sent(k, h, p)
    <3>1. k.outgoing[p] \subseteq {"RELIABLE"} /\ k.state[p] = h.state[p]
      BY <2>4 DEF Sent
    <3>2. \/ host' = k \/ Sent(host', k, p)
          \/ k.state[p] = "DISCONNECT_LATER" /\ Disconnecting(host', k, p)
      BY <1>4, <2>2, <3>1, PingIfQuietEffect DEF k
    <3>3. CASE host' = k
      BY <2>4, <3>3
    <3>4. CASE Sent(host', k, p)
      BY <2>4, <3>4, SentTwice
    <3>5. CASE k.state[p] = "DISCONNECT_LATER" /\ Disconnecting(host', k, p)
      <4>1. Elsewhere(host', h, p)
        BY <2>4, <3>5, ElsewhereTwice DEF Sent, Disconnecting
      <4> QED BY <2>4, <3>1, <3>5, <4>1 DEF Sent, Disconnecting
    <3> QED BY <3>2, <3>3, <3>4, <3>5
  <2>5. CASE h.state[p] = "DISCONNECT_LATER" /\ Disconnecting(k, h, p)
    <3>1. \/ host' = k
          \/ host' = Transmit(k, p, {})
      BY <1>4, <2>5 DEF PingIfQuiet, PingPeer, Disconnecting, k
    <3>2. host' = k \/ Sent(host', k, p)
      BY <2>2, <2>5, <3>1, TransmitEffect DEF Disconnecting
    <3> QED BY <2>5, <3>2, SentDisconnecting
  <2> QED BY <2>3, <2>4, <2>5
<1> QED BY <1>1, <1>2, <1>3, <1>4 DEF h

-----------------------------------------------------------------------------
(* The inductive invariant, slot by slot.                                  *)

\* The peer has an event to report.
Waiting(h, p) ==
    \/ h.state[p] \in {"ZOMBIE", "CONNECTION_PENDING", "CONNECTION_SUCCEEDED"}
    \/ h.state[p] = "CONNECTED" /\ p \in h.dispatched

Pending(h, p) == h.outgoing[p] \cup h.unacked[p]

\* What holds of every slot: a flag tells the truth, an acknowledgement or a packet that
\* waits belongs to the state, and a CONNECT numbered 1 is gone once it was answered.
Kept(h, p) ==
    /\ p \in h.needsDispatch => p \in ToSet(h.dispatchQueue)
    /\ p \in h.acknowledgements => h.state[p] = "ACKNOWLEDGING_DISCONNECT"
    /\ p \in h.dispatched => h.state[p] \in {"CONNECTED", "DISCONNECT_LATER", "ZOMBIE"}
    /\ "CONNECT" \in Pending(h, p) /\ h.first[p] = "CONNECT"
         => h.state[p] \in {"CONNECTING", "ZOMBIE"}

\* What holds of every slot but the one that is given up: somebody will see to it.
Attended(h, p) ==
    /\ Waiting(h, p) => p \in ToSet(h.dispatchQueue)
    /\ h.state[p] = "CONNECTING" => "CONNECT" \in Pending(h, p)
    /\ h.state[p] = "ACKNOWLEDGING_CONNECT" => "VERIFY_CONNECT" \in Pending(h, p)
    /\ h.state[p] = "DISCONNECT_LATER" => Pending(h, p) # {}
    /\ h.state[p] = "DISCONNECTING" => "DISCONNECT" \in Pending(h, p)
    /\ h.state[p] = "ACKNOWLEDGING_DISCONNECT" => p \in h.acknowledgements

\* The service loop has not passed the peer in a send pass since the application's last call.
NotSentYet(p) ==
    \/ phase \in {"idle", "check", "dispatch", "throttle", "flush"}
    \/ phase = "send" /\ current \in Peers /\ current <= p

\* A CONNECT goes out before the first datagram is read.
Unsent(h, p) == h.state[p] = "CONNECTING" /\ "CONNECT" \in h.outgoing[p]

SlotsInv ==
    /\ \A p \in Peers : Kept(host, p)
    /\ \A p \in Peers \ {closing} : Attended(host, p)
    /\ \A p \in Peers : Unsent(host, p) => NotSentYet(p)
    /\ closing # NoPeer => phase = "flush"

LEMMA UntouchedKeeps ==
    ASSUME NEW g, NEW h, NEW p, Untouched(g, h, p)
    PROVE  /\ Kept(h, p) => Kept(g, p)
           /\ Attended(h, p) => Attended(g, p)
           /\ Unsent(g, p) => Unsent(h, p)
  BY DEF Untouched, SameLists, SameLinks, Kept, Attended, Waiting, Pending, Unsent

\* A step that is about the slot p.
LEMMA SlotStep ==
    ASSUME SlotsInv, NEW p \in Peers, Elsewhere(host', host, p),
           Kept(host', p),
           p # closing' => Attended(host', p),
           Unsent(host', p) => NotSentYet(p)',
           \A q \in Peers \ {p} : NotSentYet(q) => NotSentYet(q)',
           closing \in {p, closing', NoPeer},
           closing' # NoPeer => phase' = "flush"
    PROVE  SlotsInv'
<1>1. \A q \in Peers \ {p} : Untouched(host', host, q)
  BY DEF Elsewhere
<1>2. \A q \in Peers : Kept(host', q)
  BY <1>1, UntouchedKeeps DEF SlotsInv
<1>3. \A q \in Peers \ {closing'} : Attended(host', q)
  BY <1>1, UntouchedKeeps, PeerCountAssumption DEF SlotsInv, NoPeer, Peers
<1>4. \A q \in Peers : Unsent(host', q) => NotSentYet(q)'
  BY <1>1, UntouchedKeeps DEF SlotsInv
<1> QED BY <1>2, <1>3, <1>4 DEF SlotsInv

\* A step that leaves all slots alone.
LEMMA QuietStep ==
    ASSUME SlotsInv, host' = host,
           \A q \in Peers : NotSentYet(q) => NotSentYet(q)',
           closing \in {closing', NoPeer},
           closing' # NoPeer => phase' = "flush"
    PROVE  SlotsInv'
<1>1. \A q \in Peers \ {closing'} : Attended(host', q)
  BY PeerCountAssumption DEF SlotsInv, NoPeer, Peers
<1> QED BY <1>1 DEF SlotsInv

-----------------------------------------------------------------------------
(* The functions keep it for the slot they are about.                      *)

LEMMA ResetKeeps ==
    ASSUME NEW h \in HostType, NEW p \in Peers
    PROVE  LET g == Reset(h, p)
           IN  Kept(g, p) /\ Attended(g, p) /\ ~ Unsent(g, p)
<1> DEFINE g == Reset(h, p)
<1>1. Cleared(g, p) /\ g.state[p] = "DISCONNECTED" /\ g.first[p] = "NONE"
  BY ResetEffect
<1> HIDE DEF g
<1> QED BY <1>1 DEF Cleared, Kept, Attended, Waiting, Pending, Unsent, g

LEMMA ZombieKeeps ==
    ASSUME NEW h \in HostType, NEW p \in Peers, p \notin h.acknowledgements,
           p \in h.needsDispatch => p \in ToSet(h.dispatchQueue)
    PROVE  LET g == DispatchState(h, p, "ZOMBIE")
           IN  Kept(g, p) /\ Attended(g, p) /\ ~ Unsent(g, p)
<1> DEFINE g == DispatchState(h, p, "ZOMBIE")
<1>1. /\ SameLists(g, h, p) /\ g.state[p] = "ZOMBIE"
      /\ p \in ToSet(g.dispatchQueue)
  BY DispatchStateEffect DEF State
<1> HIDE DEF g
<1> QED BY <1>1 DEF SameLists, Kept, Attended, Waiting, Unsent, g

LEMMA NotifyDisconnectKeeps ==
    ASSUME NEW h \in HostType, NEW p \in Peers, NEW e, p \notin h.acknowledgements,
           p \in h.needsDispatch => p \in ToSet(h.dispatchQueue)
    PROVE  LET g == NotifyDisconnect(h, p, e)
           IN  Elsewhere(g, h, p) /\ Kept(g, p) /\ Attended(g, p) /\ ~ Unsent(g, p)
<1>1. Elsewhere(Reset(h, p), h, p) /\ Elsewhere(DispatchState(h, p, "ZOMBIE"), h, p)
  BY ResetEffect, DispatchStateEffect DEF State
<1> QED BY <1>1, ResetKeeps, ZombieKeeps DEF NotifyDisconnect

LEMMA NotifyConnectKeeps ==
    ASSUME NEW h \in HostType, NEW p \in Peers, NEW e \in BOOLEAN, Kept(h, p),
           h.state[p] \in {"CONNECTING", "ACKNOWLEDGING_CONNECT"},
           h.first[p] = "CONNECT" => "CONNECT" \notin Pending(h, p)
    PROVE  LET g == NotifyConnect(h, p, e)
           IN  Elsewhere(g, h, p) /\ Kept(g, p) /\ Attended(g, p) /\ ~ Unsent(g, p)
<1> DEFINE g == NotifyConnect(h, p, e)
<1>1. /\ Elsewhere(g, h, p) /\ SameLists(g, h, p)
      /\ e => /\ g.state[p] = "CONNECTED"
              /\ g.needsDispatch = h.needsDispatch /\ g.dispatchQueue = h.dispatchQueue
      /\ ~ e => /\ g.state[p] \in {"CONNECTION_SUCCEEDED", "CONNECTION_PENDING"}
                /\ p \in ToSet(g.dispatchQueue)
  BY NotifyConnectEffect DEF Kept
<1> HIDE DEF g
<1>2. CASE e
  BY <1>1, <1>2 DEF SameLists, Kept, Attended, Waiting, Pending, Unsent, g
<1>3. CASE ~ e
  BY <1>1, <1>3 DEF SameLists, Kept, Attended, Waiting, Pending, Unsent, g
<1> QED BY <1>2, <1>3

LEMMA QueueKeeps ==
    ASSUME NEW h \in HostType, NEW p \in Peers, NEW c \in Command \ {"CONNECT"}, Kept(h, p)
    PROVE  LET g == Queue(h, p, c)
           IN  /\ Kept(g, p) /\ (Attended(h, p) => Attended(g, p))
               /\ Unsent(g, p) => Unsent(h, p)
<1> DEFINE g == Queue(h, p, c)
<1>1. /\ g.state = h.state
      /\ g.outgoing[p] = h.outgoing[p] \cup {c} /\ g.unacked[p] = h.unacked[p]
      /\ g.first[p] = h.first[p] \/ (h.first[p] = "NONE" /\ g.first[p] = c)
      /\ g.acknowledgements = h.acknowledgements /\ g.dispatched = h.dispatched
      /\ g.needsDispatch = h.needsDispatch /\ g.dispatchQueue = h.dispatchQueue
  BY QueueEffect
<1> HIDE DEF g
<1>2. Pending(g, p) = Pending(h, p) \cup {c}
  BY <1>1 DEF Pending
<1> QED BY <1>1, <1>2 DEF Kept, Attended, Waiting, Unsent, g

LEMMA DisconnectingKeeps ==
    ASSUME NEW g, NEW h, NEW p \in Peers, Disconnecting(g, h, p)
    PROVE  Kept(g, p) /\ Attended(g, p) /\ ~ Unsent(g, p)
  BY DEF Disconnecting, Kept, Attended, Waiting, Pending, Unsent

LEMMA SentKeeps ==
    ASSUME NEW g, NEW h, NEW p \in Peers, Sent(g, h, p), Kept(h, p)
    PROVE  Kept(g, p) /\ (Attended(h, p) => Attended(g, p)) /\ ~ Unsent(g, p)
<1>1. /\ \A c \in Acknowledged : c \in Pending(h, p) => c \in Pending(g, p)
      /\ Pending(g, p) \subseteq Pending(h, p) \cup {"RELIABLE"}
      /\ h.state[p] = "DISCONNECT_LATER" /\ Pending(h, p) # {} => Pending(g, p) # {}
  BY DEF Sent, Pending, HasOutgoing
<1>2. {"CONNECT", "VERIFY_CONNECT", "DISCONNECT"} \subseteq Acknowledged
  BY DEF Acknowledged, Command
<1>3. Kept(g, p)
  BY <1>1 DEF Sent, Kept
<1>4. Attended(h, p) => Attended(g, p)
  BY <1>1, <1>2 DEF Sent, Attended, Waiting
<1> QED BY <1>3, <1>4 DEF Sent, Unsent

LEMMA SendAcknowledgementsKeeps ==
    ASSUME NEW h \in HostType, NEW p \in Peers, Kept(h, p)
    PROVE  LET g == SendAcknowledgements(h, p)
           IN  Kept(g, p) /\ (Attended(h, p) \/ p \in h.acknowledgements => Attended(g, p))
<1> DEFINE g == SendAcknowledgements(h, p)
<1>1. /\ p \notin g.acknowledgements
      /\ g.outgoing[p] = h.outgoing[p] /\ g.unacked[p] = h.unacked[p]
      /\ g.first[p] = h.first[p] /\ (p \in g.dispatched <=> p \in h.dispatched)
      /\ p \notin h.acknowledgements => g = h
      /\ p \in h.acknowledgements => g.state[p] = "ZOMBIE" /\ p \in ToSet(g.dispatchQueue)
  BY SendAcknowledgementsEffect DEF Kept
<1> HIDE DEF g
<1>2. CASE p \in h.acknowledgements
  BY <1>1, <1>2 DEF Kept, Attended, Waiting, g
<1>3. CASE p \notin h.acknowledgements
  BY <1>1, <1>3 DEF g
<1> QED BY <1>2, <1>3

-----------------------------------------------------------------------------
(* The actions.                                                            *)

\* A call of the application that is over at once.
LEMMA CallSlots ==
    ASSUME SlotsInv, NEW h, Call(h), NEW p \in Peers, Elsewhere(h, host, p),
           Kept(h, p), Attended(host, p) => Attended(h, p)
    PROVE  SlotsInv'
<1>1. host' = h /\ phase = "idle" /\ phase' = "idle" /\ closing = NoPeer /\ closing' = NoPeer
  BY DEF Call, SlotsInv
<1>2. p # NoPeer
  BY PeerCountAssumption DEF Peers, NoPeer
<1>3. Attended(host', p)
  BY <1>1, <1>2 DEF SlotsInv
<1> QED BY <1>1, <1>3, SlotStep DEF NotSentYet

LEMMA GiveUpSlots ==
    ASSUME TypeOK, SlotsInv, NEW p \in Peers, GiveUp(p)
    PROVE  SlotsInv'
<1> DEFINE k == ResetQueues(host, p)
           g == Queue(k, p, "NOTICE")
<1>1. /\ k \in HostType
      /\ Elsewhere(k, host, p) /\ Cleared(k, p) /\ k.state = host.state /\ k.first = host.first
  BY ResetQueuesType, ResetQueuesEffect DEF TypeOK
<1> HIDE DEF k
<1>2. Kept(k, p)
  BY <1>1 DEF Cleared, Kept, Pending
<1>3. Kept(g, p) /\ Elsewhere(g, k, p)
  BY <1>1, <1>2, QueueKeeps, QueueEffect DEF Command
<1>4. host' = g /\ phase = "idle" /\ phase' = "flush" /\ closing = NoPeer /\ closing' = p
  BY DEF GiveUp, SlotsInv, k
<1> HIDE DEF g
<1>5. Elsewhere(g, host, p)
  BY <1>1, <1>3, ElsewhereTwice
<1> QED BY <1>3, <1>4, <1>5, SlotStep DEF NotSentYet

LEMMA DisconnectSlots ==
    ASSUME TypeOK, SlotsInv, NEW p \in Peers, Disconnect(p)
    PROVE  SlotsInv'
<1>1. CASE Call(BeginDisconnect(host, p))
  <2>1. Disconnecting(BeginDisconnect(host, p), host, p)
    BY BeginDisconnectEffect DEF TypeOK
  <2>2. Elsewhere(BeginDisconnect(host, p), host, p)
    BY <2>1 DEF Disconnecting
  <2> QED BY <1>1, <2>1, <2>2, DisconnectingKeeps, CallSlots
<1>2. CASE GiveUp(p)
  BY <1>2, GiveUpSlots
<1> QED BY <1>1, <1>2 DEF Disconnect

LEMMA QueueSlots ==
    ASSUME TypeOK, SlotsInv, NEW p \in Peers, NEW c \in Command \ {"CONNECT"},
           Call(Queue(host, p, c))
    PROVE  SlotsInv'
<1>1. Elsewhere(Queue(host, p, c), host, p)
  BY QueueEffect DEF TypeOK
<1>2. Kept(host, p)
  BY DEF SlotsInv
<1> QED BY <1>1, <1>2, QueueKeeps, CallSlots DEF TypeOK

\* One more command for several peers is no harm.
LEMMA QueueAllKeeps ==
    ASSUME NEW h \in HostType, NEW S, NEW c \in {"RELIABLE", "UNRELIABLE"}, NEW p \in Peers
    PROVE  LET g == QueueAll(h, S, c)
           IN  /\ g.state = h.state
               /\ g.needsDispatch = h.needsDispatch /\ g.dispatchQueue = h.dispatchQueue
               /\ Kept(h, p) => Kept(g, p)
               /\ Attended(h, p) => Attended(g, p)
               /\ Unsent(g, p) => Unsent(h, p)
<1> DEFINE g == QueueAll(h, S, c)
<1>1. /\ g.state = h.state /\ g.unacked = h.unacked /\ g.first = h.first
      /\ g.outgoing = [q \in Peers |-> IF h.state[q] \in S THEN h.outgoing[q] \cup {c}
                                                           ELSE h.outgoing[q]]
      /\ g.acknowledgements = h.acknowledgements /\ g.dispatched = h.dispatched
      /\ g.needsDispatch = h.needsDispatch /\ g.dispatchQueue = h.dispatchQueue
  BY DEF QueueAll, HostType
<1> HIDE DEF g
<1>2. h.outgoing[p] \subseteq g.outgoing[p] /\ g.outgoing[p] \subseteq h.outgoing[p] \cup {c}
  BY <1>1
<1>3. Pending(h, p) \subseteq Pending(g, p) /\ Pending(g, p) \subseteq Pending(h, p) \cup {c}
  BY <1>1, <1>2 DEF Pending
<1>4. Attended(h, p) => Attended(g, p)
  <2> SUFFICES ASSUME Attended(h, p) PROVE Attended(g, p)
    OBVIOUS
  <2>1. Waiting(g, p) => p \in ToSet(g.dispatchQueue)
    BY <1>1 DEF Attended, Waiting
  <2> QED BY <1>1, <1>3, <2>1 DEF Attended
<1> QED BY <1>1, <1>2, <1>3, <1>4 DEF Kept, Unsent, g

LEMMA QueueAllSlots ==
    ASSUME TypeOK, SlotsInv, NEW S, NEW c \in {"RELIABLE", "UNRELIABLE"},
           host' = QueueAll(host, S, c),
           \A q \in Peers : NotSentYet(q) => NotSentYet(q)',
           closing' = closing, closing = NoPeer
    PROVE  SlotsInv'
  BY QueueAllKeeps DEF SlotsInv, TypeOK

LEMMA AppCallSlots ==
    ASSUME TypeOK, SlotsInv, AppCall
    PROVE  SlotsInv'
<1>0. host \in HostType /\ \A p \in Peers : Kept(host, p)
  BY DEF TypeOK, SlotsInv
<1>1. CASE Connect
  <2>1. PICK p \in Peers :
          /\ host.state[p] = "DISCONNECTED"
          /\ Call(Queue([host EXCEPT !.state[p] = "CONNECTING"], p, "CONNECT"))
    BY <1>1 DEF Connect, FirstFree, Free
  <2> DEFINE k == [host EXCEPT !.state[p] = "CONNECTING"]
             g == Queue(k, p, "CONNECT")
  <2>2. k \in HostType
    BY <1>0 DEF HostType, State
  <2>3. /\ k.state = [host.state EXCEPT ![p] = "CONNECTING"]
        /\ k.outgoing = host.outgoing /\ k.unacked = host.unacked /\ k.first = host.first
        /\ k.acknowledgements = host.acknowledgements /\ k.dispatched = host.dispatched
        /\ k.needsDispatch = host.needsDispatch /\ k.dispatchQueue = host.dispatchQueue
    BY <1>0 DEF HostType
  <2> HIDE DEF k
  <2>4. Elsewhere(k, host, p) /\ k.state[p] = "CONNECTING"
    BY <1>0, <2>3 DEF Elsewhere, Untouched, SameLists, SameLinks, HostType
  <2>5. /\ Elsewhere(g, k, p) /\ g.state = k.state
        /\ g.outgoing[p] = k.outgoing[p] \cup {"CONNECT"}
        /\ g.acknowledgements = k.acknowledgements /\ g.dispatched = k.dispatched
        /\ g.needsDispatch = k.needsDispatch /\ g.dispatchQueue = k.dispatchQueue
    BY <2>2, QueueEffect
  <2>6. Call(g)
    BY <2>1 DEF k
  <2> HIDE DEF g
  <2>7. Kept(g, p) /\ Attended(g, p)
    BY <1>0, <2>1, <2>3, <2>4, <2>5 DEF Kept, Attended, Waiting, Pending
  <2> QED BY <2>4, <2>5, <2>6, <2>7, ElsewhereTwice, CallSlots
<1>2. CASE BandwidthThrottle \/ \E c \in Packets : Broadcast(c)
  <2>1. ASSUME NEW S, NEW c \in {"RELIABLE", "UNRELIABLE"}, Call(QueueAll(host, S, c))
        PROVE  SlotsInv'
    <3>1. /\ phase = "idle" /\ phase' = "idle" /\ closing = NoPeer /\ closing' = NoPeer
          /\ host' = QueueAll(host, S, c)
      BY <2>1 DEF Call, SlotsInv
    <3> QED BY <3>1, QueueAllSlots DEF NotSentYet
  <2>2. CASE Call(host)
    BY <2>2, QuietStep DEF Call, SlotsInv, NotSentYet
  <2>3. CASE Call(LimitBandwidth(host))
    BY <2>1, <2>3 DEF LimitBandwidth
  <2>4. CASE \E c \in Packets : Broadcast(c)
    BY <2>1, <2>4, PacketsAssumption DEF Broadcast
  <2> QED BY <1>2, <2>2, <2>3, <2>4 DEF BandwidthThrottle
<1>3. CASE Flush \/ CheckEvents \/ \E e \in EventModes : Service(e)
  <2>1. /\ host' = host /\ phase = "idle" /\ closing' = closing
        /\ phase' \in {"check", "dispatch", "throttle", "flush"}
    BY <1>3 DEF Flush, CheckEvents, Service, Enter
  <2>2. closing = NoPeer
    BY <2>1 DEF SlotsInv
  <2> QED BY <2>1, <2>2, QuietStep DEF NotSentYet
<1>4. ASSUME NEW p \in Peers, NEW c \in Packets, Send(p, c) PROVE SlotsInv'
  BY <1>4, QueueSlots, PacketsAssumption DEF Send, Command
<1>5. ASSUME NEW p \in Peers, Ping(p) \/ ConfigureThrottle(p) PROVE SlotsInv'
  <2>1. Call(Queue(host, p, "RELIABLE")) \/ Call(host)
    BY <1>5 DEF Ping, ConfigureThrottle, PingPeer
  <2>2. CASE Call(host)
    BY <1>0, <2>2, ElsewhereSame, CallSlots
  <2> QED BY <2>1, <2>2, QueueSlots DEF Command
<1>6. ASSUME NEW p \in Peers, Disconnect(p) PROVE SlotsInv'
  BY <1>6, DisconnectSlots
<1>7. ASSUME NEW p \in Peers, DisconnectLater(p) PROVE SlotsInv'
  <2>1. CASE Disconnect(p)
    BY <2>1, DisconnectSlots
  <2>2. CASE /\ host.state[p] \in Active /\ HasOutgoing(host, p)
             /\ Call([host EXCEPT !.state[p] = "DISCONNECT_LATER"])
    <3> DEFINE g == [host EXCEPT !.state[p] = "DISCONNECT_LATER"]
    <3>1. /\ g.state = [host.state EXCEPT ![p] = "DISCONNECT_LATER"]
          /\ g.outgoing = host.outgoing /\ g.unacked = host.unacked /\ g.first = host.first
          /\ g.acknowledgements = host.acknowledgements /\ g.dispatched = host.dispatched
          /\ g.needsDispatch = host.needsDispatch /\ g.dispatchQueue = host.dispatchQueue
      BY <1>0 DEF HostType
    <3> HIDE DEF g
    <3>2. Elsewhere(g, host, p) /\ g.state[p] = "DISCONNECT_LATER"
      BY <1>0, <3>1 DEF Elsewhere, Untouched, SameLists, SameLinks, HostType
    <3>3. Kept(g, p)
      BY <1>0, <2>2, <3>1, <3>2 DEF Kept, Pending, Active
    <3>4. Attended(g, p)
      BY <1>0, <2>2, <3>1, <3>2 DEF Attended, Waiting, Pending, HasOutgoing
    <3> QED BY <2>2, <3>2, <3>3, <3>4, CallSlots DEF g
  <2> QED BY <1>7, <2>1, <2>2 DEF DisconnectLater
<1>8. ASSUME NEW p \in Peers, DisconnectNow(p) \/ ResetPeer(p) PROVE SlotsInv'
  <2>1. CASE Call(Reset(host, p))
    BY <1>0, <2>1, ResetKeeps, ResetEffect, CallSlots
  <2>2. CASE GiveUp(p)
    BY <2>2, GiveUpSlots
  <2> QED BY <1>8, <2>1, <2>2 DEF DisconnectNow, ResetPeer
<1> QED BY <1>1, <1>2, <1>3, <1>4, <1>5, <1>6, <1>7, <1>8 DEF AppCall

\* The first peer of the queue was taken off it and is dealt with.
LEMMA PoppedEffect ==
    ASSUME TypeOK, host.dispatchQueue # << >>
    PROVE  LET p == Head(host.dispatchQueue)
               g == Popped
           IN  /\ Elsewhere(g, host, p) /\ SameLists(g, host, p)
               /\ g.state = host.state
               /\ p \notin g.needsDispatch
               /\ g.dispatchQueue = Tail(host.dispatchQueue)
               /\ p \in ToSet(g.dispatchQueue) => p \in ToSet(host.dispatchQueue)
<1> DEFINE p == Head(host.dispatchQueue)
           g == Popped
<1>1. /\ g.state = host.state
      /\ g.outgoing = host.outgoing /\ g.unacked = host.unacked /\ g.first = host.first
      /\ g.acknowledgements = host.acknowledgements /\ g.dispatched = host.dispatched
      /\ g.needsDispatch = host.needsDispatch \ {p}
      /\ g.dispatchQueue = Tail(host.dispatchQueue)
  BY DEF Popped, TypeOK, HostType
<1>2. \A r : r \in ToSet(host.dispatchQueue) <=> r \in ToSet(Tail(host.dispatchQueue)) \/ r = p
  BY FirstTakenOff DEF TypeOK, HostType
<1> HIDE DEF g
<1>3. Elsewhere(g, host, p) /\ SameLists(g, host, p)
  BY <1>1, <1>2 DEF Elsewhere, Untouched, SameLists, SameLinks
<1> QED BY <1>1, <1>2, <1>3 DEF g

LEMMA DispatchSlots ==
    ASSUME TypeOK, SlotsInv, Dispatching, host.dispatchQueue # << >>,
           Dispatch(Head(host.dispatchQueue))
    PROVE  SlotsInv'
<1> DEFINE p == Head(host.dispatchQueue)
           g == Popped
<1>1. /\ g \in HostType /\ p \in Peers
      /\ Elsewhere(g, host, p) /\ SameLists(g, host, p)
      /\ g.state = host.state /\ p \notin g.needsDispatch
  BY PoppedType, PoppedEffect
<1>2. /\ Kept(host, p) /\ p # NoPeer
      /\ closing = NoPeer /\ Attended(host, p)
  BY <1>1, PeerCountAssumption DEF SlotsInv, Dispatching, Peers, NoPeer
<1>3. Kept(g, p)
  BY <1>1, <1>2 DEF SameLists, Kept, Pending
<1>4. \/ phase' = "idle" /\ closing' = NoPeer
      \/ UNCHANGED <<phase, current, closing>>
  BY DEF Dispatch, Return, Stay
<1>5. \A q \in Peers : NotSentYet(q) => NotSentYet(q)'
  BY <1>4 DEF NotSentYet
<1>6. ASSUME Elsewhere(host', host, p), Kept(host', p), Attended(host', p),
             Unsent(host', p) => Unsent(host, p)
      PROVE  SlotsInv'
  BY <1>1, <1>2, <1>4, <1>5, <1>6, SlotStep DEF SlotsInv
<1> HIDE DEF p, g
<1>7. CASE /\ host.state[p] \in {"CONNECTION_PENDING", "CONNECTION_SUCCEEDED"}
           /\ host' = ChangeState(g, p, "CONNECTED")
  <2>1. /\ Elsewhere(host', g, p) /\ SameLists(host', g, p)
        /\ host'.state[p] = "CONNECTED"
        /\ host'.needsDispatch = g.needsDispatch /\ host'.dispatchQueue = g.dispatchQueue
    BY <1>1, <1>7, ChangeStateEffect DEF State
  <2>2. Kept(host', p) /\ Attended(host', p) /\ ~ Unsent(host', p)
    BY <1>1, <1>2, <1>3, <1>7, <2>1
       DEF SameLists, Kept, Attended, Waiting, Pending, Unsent
  <2> QED BY <1>1, <1>6, <2>1, <2>2, ElsewhereTwice
<1>8. CASE host' = Reset(g, p)
  <2>1. Elsewhere(host', g, p)
    BY <1>1, <1>8, ResetEffect
  <2> QED BY <1>1, <1>6, <1>8, <2>1, ElsewhereTwice, ResetKeeps
<1>9. CASE host' = [g EXCEPT !.dispatched = @ \ {p}] /\ host.state[p] = "CONNECTED"
  <2>1. /\ host'.state = g.state
        /\ host'.outgoing = g.outgoing /\ host'.unacked = g.unacked /\ host'.first = g.first
        /\ host'.acknowledgements = g.acknowledgements
        /\ host'.dispatched = g.dispatched \ {p}
        /\ host'.needsDispatch = g.needsDispatch /\ host'.dispatchQueue = g.dispatchQueue
    BY <1>1, <1>9 DEF HostType
  <2>2. Elsewhere(host', g, p)
    BY <2>1 DEF Elsewhere, Untouched, SameLists, SameLinks
  <2>3. Kept(host', p) /\ Attended(host', p) /\ ~ Unsent(host', p)
    BY <1>1, <1>3, <1>9, <2>1 DEF Kept, Attended, Waiting, Pending, Unsent
  <2> QED BY <1>1, <1>6, <2>2, <2>3, ElsewhereTwice
<1>10. CASE host' = NeedsDispatch(g, p) /\ host.state[p] = "CONNECTED"
  <2>1. /\ Elsewhere(host', g, p) /\ SameLists(host', g, p)
        /\ host'.state[p] = g.state[p]
        /\ p \in ToSet(host'.dispatchQueue)
    BY <1>1, <1>10, NeedsDispatchEffect
  <2>2. Kept(host', p) /\ Attended(host', p) /\ ~ Unsent(host', p)
    BY <1>1, <1>3, <1>10, <2>1
       DEF SameLists, Kept, Attended, Waiting, Pending, Unsent
  <2> QED BY <1>1, <1>6, <2>1, <2>2, ElsewhereTwice
<1>11. CASE /\ host' = g
            /\ host.state[p] # "ZOMBIE" 
            /\ host.state[p] \notin {"CONNECTION_PENDING", "CONNECTION_SUCCEEDED"}
            /\ ~ (host.state[p] = "CONNECTED" /\ p \in host.dispatched)
  <2>1. Attended(g, p) /\ (Unsent(g, p) => Unsent(host, p))
    BY <1>1, <1>2, <1>11 DEF SameLists, Attended, Waiting, Pending, Unsent
  <2> QED BY <1>1, <1>3, <1>6, <1>11, <2>1
<1> QED BY <1>7, <1>8, <1>9, <1>10, <1>11 DEF Dispatch, p, g

LEMMA DispatchIncomingSlots ==
    ASSUME TypeOK, SlotsInv, DispatchIncoming
    PROVE  SlotsInv'
<1>1. CASE host.dispatchQueue # << >> /\ Dispatch(Head(host.dispatchQueue))
  BY <1>1, DispatchSlots DEF DispatchIncoming
<1>2. CASE /\ UNCHANGED host
           /\ \/ phase = "check" /\ Return(NoEvent)
              \/ phase = "dispatch" /\ Goto("throttle", NoPeer)
              \/ phase = "deliver" /\ Goto("wait", NoPeer)
  <2>1. closing = NoPeer
    BY <1>2 DEF SlotsInv
  <2>2. /\ closing' = NoPeer
        /\ phase' \in {"idle", "throttle"} \/ (phase = "deliver" /\ phase' = "wait")
    BY <1>2, <2>1 DEF Return, Goto
  <2> QED BY <1>2, <2>1, <2>2, QuietStep DEF NotSentYet
<1> QED BY <1>1, <1>2 DEF DispatchIncoming, Dispatching

LEMMA ThrottlePhaseSlots ==
    ASSUME TypeOK, SlotsInv, ThrottlePhase
    PROVE  SlotsInv'
<1>1. /\ phase' = "send" /\ current' = 0 /\ closing = NoPeer /\ closing' = NoPeer
      /\ host' \in {host, QueueAll(host, Active, "RELIABLE")}
  BY DEF ThrottlePhase, LimitBandwidth, Goto, SlotsInv
<1>2. \A q \in Peers : NotSentYet(q)'
  BY <1>1, PeerCountAssumption DEF NotSentYet, Peers
<1> QED BY <1>1, <1>2, QuietStep, QueueAllSlots

\* The send pass goes on behind p, or ends; the host is left when the pass ends early.
LEMMA PassSlots ==
    ASSUME TypeOK, SlotsInv, Sending, current \in Peers,
           Elsewhere(host', host, current), Kept(host', current),
           current # closing => Attended(host', current),
           ~ Unsent(host', current),
           \/ Goto(phase, current + 1)
           \/ phase # "flush" /\ phase' = "idle" /\ closing' = NoPeer
           \/ phase = "flush" /\ Goto(phase, NoPeer)
    PROVE  SlotsInv'
<1>1. /\ closing \in {closing', NoPeer} /\ (closing' # NoPeer => closing' = closing)
      /\ closing' # NoPeer => phase' = "flush"
  BY DEF Goto, SlotsInv
<1>2. \A q \in Peers \ {current} : NotSentYet(q) => NotSentYet(q)'
  <2> SUFFICES ASSUME NEW q \in Peers \ {current}, NotSentYet(q) PROVE NotSentYet(q)'
    OBVIOUS
  <2>1. CASE phase = "send" /\ Goto(phase, current + 1)
    <3>1. current <= q
      BY <2>1 DEF NotSentYet
    <3>2. current + 1 <= q /\ current + 1 \in Peers
      BY <3>1, PeerCountAssumption DEF Peers
    <3> QED BY <2>1, <3>2 DEF NotSentYet, Goto
  <2>2. CASE phase # "send" \/ ~ Goto(phase, current + 1)
    BY <2>2 DEF NotSentYet, Goto, Sending
  <2> QED BY <2>1, <2>2
<1>3. closing' # current => Attended(host', current)
  <2>1. current # NoPeer
    BY PeerCountAssumption DEF Peers, NoPeer
  <2> QED BY <1>1, <2>1 DEF Goto, SlotsInv
<1> QED BY <1>1, <1>2, <1>3, SlotStep

LEMMA SendToSlots ==
    ASSUME TypeOK, SlotsInv, Sending, current \in Peers, SendTo(current)
    PROVE  SlotsInv'
<1> DEFINE p == current
           h == SendAcknowledgements(host, p)
<1>1. /\ host \in HostType /\ h \in HostType /\ Kept(host, p)
      /\ p # closing => Attended(host, p)
  BY SendAcknowledgementsType DEF TypeOK, SlotsInv
<1>2. /\ Elsewhere(h, host, p) /\ p \notin h.acknowledgements
      /\ Kept(h, p)
      /\ Attended(host, p) => Attended(h, p)
  BY <1>1, SendAcknowledgementsEffect, SendAcknowledgementsKeeps
<1> HIDE DEF h
<1>3. CASE SkipPeer(p)
  <2>1. host' = host /\ ~ Unsent(host, p)
    BY <1>3 DEF SkipPeer, Unsent
  <2> QED BY <1>1, <1>3, <2>1, ElsewhereSame, PassSlots DEF SkipPeer
<1>4. CASE TimeOut(p)
  <2>1. /\ host' = NotifyDisconnect(h, p, withEvent)
        /\ \/ Goto(phase, p + 1)
           \/ phase # "flush" /\ phase' = "idle" /\ closing' = NoPeer
    BY <1>4 DEF TimeOut, Return, h
  <2>2. Elsewhere(host', h, p) /\ Kept(host', p) /\ Attended(host', p) /\ ~ Unsent(host', p)
    BY <1>1, <1>2, <2>1, NotifyDisconnectKeeps DEF Kept
  <2>3. Elsewhere(host', host, p)
    BY <1>2, <2>2, ElsewhereTwice
  <2> QED BY <2>1, <2>2, <2>3, PassSlots
<1>5. CASE TransmitTo(p)
  <2>1. \/ Goto(phase, p + 1)
        \/ phase # "flush" /\ phase' = "idle" /\ closing' = NoPeer
        \/ phase = "flush" /\ Goto(phase, NoPeer)
    BY <1>5 DEF SendTo, SkipPeer, TimeOut, Return
  <2>2. \/ Sent(host', h, p)
        \/ host.state[p] = "DISCONNECT_LATER" /\ Disconnecting(host', host, p)
    BY <1>5, TransmitToEffect DEF h
  <2>3. CASE Sent(host', h, p)
    <3>1. Elsewhere(host', host, p)
      BY <1>2, <2>3, ElsewhereTwice DEF Sent
    <3>2. Kept(host', p) /\ ~ Unsent(host', p) /\ (Attended(h, p) => Attended(host', p))
      BY <1>2, <2>3, SentKeeps
    <3> QED BY <1>1, <1>2, <2>1, <3>1, <3>2, PassSlots
  <2>4. CASE Disconnecting(host', host, p)
    <3>1. Kept(host', p) /\ Attended(host', p) /\ ~ Unsent(host', p)
      BY <2>4, DisconnectingKeeps
    <3> QED BY <2>1, <2>4, <3>1, PassSlots DEF Disconnecting
  <2> QED BY <2>2, <2>3, <2>4
<1> QED BY <1>3, <1>4, <1>5 DEF SendTo

LEMMA SendOutgoingSlots ==
    ASSUME TypeOK, SlotsInv, SendOutgoing
    PROVE  SlotsInv'
<1>1. CASE current = NoPeer /\ SendDone
  <2>1. current \notin Peers
    BY <1>1, PeerCountAssumption DEF Peers, NoPeer
  <2>2. CASE phase # "flush"
    <3>1. /\ host' = host /\ closing = NoPeer /\ closing' = closing
          /\ phase \in {"send", "resend"}
      BY <1>1, <2>2 DEF SendDone, SendOutgoing, Sending, Goto, SlotsInv
    <3> QED BY <2>1, <2>2, <3>1, QuietStep DEF NotSentYet
  <2>3. CASE phase = "flush"
    <3>1. /\ phase' = "idle" /\ closing' = NoPeer
          /\ host' = IF closing = NoPeer THEN host ELSE Reset(host, closing)
      BY <1>1, <2>3 DEF SendDone, Return
    <3>2. CASE closing = NoPeer
      BY <3>1, <3>2, QuietStep DEF NotSentYet
    <3>3. CASE closing # NoPeer
      <4>1. /\ closing \in Peers /\ host' = Reset(host, closing)
            /\ Elsewhere(host', host, closing)
            /\ Kept(host', closing) /\ Attended(host', closing) /\ ~ Unsent(host', closing)
        BY <3>1, <3>3, ResetEffect, ResetKeeps DEF TypeOK
      <4> QED BY <3>1, <4>1, SlotStep DEF NotSentYet
    <3> QED BY <3>2, <3>3
  <2> QED BY <2>2, <2>3
<1>2. CASE current # NoPeer /\ SendTo(current)
  BY <1>2, SendToSlots DEF SendOutgoing, TypeOK
<1> QED BY <1>1, <1>2 DEF SendOutgoing

-----------------------------------------------------------------------------
(* A command of a datagram.                                                *)

\* While a datagram is read no peer is being given up and every CONNECT has been sent.
LEMMA DatagramSlots ==
    ASSUME SlotsInv, phase = "datagram", NEW p \in Peers, Elsewhere(host', host, p),
           Kept(host', p), Attended(host', p), ~ Unsent(host', p),
           closing' \in {closing, NoPeer}
    PROVE  SlotsInv'
<1>1. closing = NoPeer /\ closing' = NoPeer /\ \A q \in Peers : ~ NotSentYet(q)
  BY DEF SlotsInv, NotSentYet
<1> QED BY <1>1, SlotStep

LEMMA EndClosing ==
    ASSUME NEW ev, End(ev)
    PROVE  closing' \in {closing, NoPeer}
  BY DEF End, Return, Goto

LEMMA HandleConnectSlots ==
    ASSUME TypeOK, SlotsInv, HandleConnect
    PROVE  SlotsInv'
<1>1. PICK p \in Peers, l \in BOOLEAN :
        /\ phase = "datagram" /\ host.state[p] = "DISCONNECTED"
        /\ host' = Queue([SetLimit(host, p, l) EXCEPT !.state[p] = "ACKNOWLEDGING_CONNECT"],
                         p, "VERIFY_CONNECT")
        /\ closing' = closing
  BY DEF HandleConnect, FirstFree, Free, Goto
<1> DEFINE h == SetLimit(host, p, l)
           k == [h EXCEPT !.state[p] = "ACKNOWLEDGING_CONNECT"]
<1>2. h \in HostType /\ host \in HostType /\ Kept(host, p)
  BY SetLimitType DEF TypeOK, SlotsInv
<1>3. /\ h.state = host.state
      /\ h.outgoing = host.outgoing /\ h.unacked = host.unacked /\ h.first = host.first
      /\ h.acknowledgements = host.acknowledgements /\ h.dispatched = host.dispatched
      /\ h.needsDispatch = host.needsDispatch /\ h.dispatchQueue = host.dispatchQueue
  BY <1>2, SetLimitEffect
<1> HIDE DEF h
<1>4. k \in HostType
  BY <1>2 DEF HostType, State
<1>5. /\ k.state = [h.state EXCEPT ![p] = "ACKNOWLEDGING_CONNECT"]
      /\ k.outgoing = h.outgoing /\ k.unacked = h.unacked /\ k.first = h.first
      /\ k.acknowledgements = h.acknowledgements /\ k.dispatched = h.dispatched
      /\ k.needsDispatch = h.needsDispatch /\ k.dispatchQueue = h.dispatchQueue
  BY <1>2 DEF HostType
<1>6. host' = Queue(k, p, "VERIFY_CONNECT")
  BY <1>1 DEF h
<1> HIDE DEF k
<1>7. Elsewhere(k, host, p) /\ k.state[p] = "ACKNOWLEDGING_CONNECT"
  BY <1>2, <1>3, <1>5 DEF Elsewhere, Untouched, SameLists, SameLinks, HostType
<1>8. Kept(k, p)
  BY <1>1, <1>2, <1>3, <1>5, <1>7 DEF Kept, Pending
<1>9. /\ Elsewhere(host', k, p) /\ host'.state = k.state
      /\ host'.outgoing[p] = k.outgoing[p] \cup {"VERIFY_CONNECT"}
      /\ host'.acknowledgements = k.acknowledgements /\ host'.dispatched = k.dispatched
  BY <1>4, <1>6, QueueEffect
<1>10. Kept(host', p)
  BY <1>4, <1>6, <1>8, QueueKeeps DEF Command
<1>11. Attended(host', p) /\ ~ Unsent(host', p)
  BY <1>7, <1>9 DEF Attended, Waiting, Pending, Unsent
<1> QED BY <1>1, <1>7, <1>9, <1>10, <1>11, ElsewhereTwice, DatagramSlots

LEMMA HandleVerifyConnectSlots ==
    ASSUME TypeOK, SlotsInv, phase = "datagram", NEW p \in Peers, HandleVerifyConnect(p)
    PROVE  SlotsInv'
<1>1. /\ host \in HostType /\ Kept(host, p) /\ host.state[p] = "CONNECTING"
      /\ p \notin host.acknowledgements /\ withEvent \in BOOLEAN
  BY DEF TypeOK, SlotsInv, Kept, HandleVerifyConnect
<1>2. CASE host' = DispatchState(host, p, "ZOMBIE") /\ End(event)
  <2>1. Elsewhere(host', host, p)
    BY <1>1, <1>2, DispatchStateEffect DEF State
  <2>2. Kept(host', p) /\ Attended(host', p) /\ ~ Unsent(host', p)
    BY <1>1, <1>2, ZombieKeeps DEF Kept
  <2> QED BY <1>2, <2>1, <2>2, EndClosing, DatagramSlots
<1>3. CASE /\ \E l \in BOOLEAN, h \in Acknowledge(host, p, host.first[p]) :
                 host' = NotifyConnect(SetLimit(h, p, l), p, withEvent)
           /\ Report(ConnectEvent(p))
  <2>1. PICK l \in BOOLEAN, h \in Acknowledge(host, p, host.first[p]) :
               host' = NotifyConnect(SetLimit(h, p, l), p, withEvent)
    BY <1>3
  <2> DEFINE k == SetLimit(h, p, l)
  <2>2. /\ h \in HostType /\ k \in HostType
    BY <1>1, AcknowledgeType, SetLimitType
  <2>3. /\ Elsewhere(h, host, p)
        /\ h.state = host.state /\ h.first = host.first
        /\ h.outgoing[p] \subseteq host.outgoing[p] /\ h.unacked[p] \subseteq host.unacked[p]
        /\ host.first[p] # "RELIABLE" => host.first[p] \notin h.unacked[p]
        /\ h.acknowledgements = host.acknowledgements /\ h.dispatched = host.dispatched
        /\ h.needsDispatch = host.needsDispatch /\ h.dispatchQueue = host.dispatchQueue
    BY <1>1, AcknowledgeEffect
  <2>4. /\ k.state = h.state
        /\ k.outgoing = h.outgoing /\ k.unacked = h.unacked /\ k.first = h.first
        /\ k.acknowledgements = h.acknowledgements /\ k.dispatched = h.dispatched
        /\ k.needsDispatch = h.needsDispatch /\ k.dispatchQueue = h.dispatchQueue
    BY <2>2, SetLimitEffect
  <2> HIDE DEF k
  <2>5. "CONNECT" \notin host.outgoing[p]
    BY <1>1 DEF SlotsInv, Unsent, NotSentYet
  <2>6. Kept(k, p) /\ (k.first[p] = "CONNECT" => "CONNECT" \notin Pending(k, p))
    BY <1>1, <2>3, <2>4, <2>5 DEF Kept, Pending
  <2>7. Elsewhere(k, host, p)
    BY <2>3, <2>4 DEF Elsewhere, Untouched, SameLists, SameLinks
  <2>8. /\ Elsewhere(host', k, p)
        /\ Kept(host', p) /\ Attended(host', p) /\ ~ Unsent(host', p)
    BY <1>1, <2>1, <2>2, <2>3, <2>4, <2>6, NotifyConnectKeeps DEF k
  <2> QED BY <1>3, <2>7, <2>8, ElsewhereTwice, DatagramSlots DEF Report
<1> QED BY <1>2, <1>3 DEF HandleVerifyConnect

LEMMA HandleDisconnectSlots ==
    ASSUME TypeOK, SlotsInv, phase = "datagram", NEW p \in Peers, HandleDisconnect(p)
    PROVE  SlotsInv'
<1> DEFINE h == ResetQueues(host, p)
           k == ChangeState(h, p, "ACKNOWLEDGING_DISCONNECT")
           g == [k EXCEPT !.acknowledgements = @ \cup {p}]
<1>1. host' \in {DispatchState(h, p, "ZOMBIE"), Reset(h, p), g} /\ Stay
  BY DEF HandleDisconnect, Continue
<1>2. h \in HostType
  BY ResetQueuesType DEF TypeOK
<1>3. Elsewhere(h, host, p) /\ Cleared(h, p)
  BY ResetQueuesEffect DEF TypeOK
<1> HIDE DEF h
<1>4. CASE host' = DispatchState(h, p, "ZOMBIE")
  <2>1. Elsewhere(host', h, p)
    BY <1>2, <1>4, DispatchStateEffect DEF State
  <2>2. Kept(host', p) /\ Attended(host', p) /\ ~ Unsent(host', p)
    BY <1>2, <1>3, <1>4, ZombieKeeps DEF Cleared
  <2> QED BY <1>1, <1>3, <2>1, <2>2, ElsewhereTwice, DatagramSlots DEF Stay
<1>5. CASE host' = Reset(h, p)
  <2>1. Elsewhere(host', h, p)
    BY <1>2, <1>5, ResetEffect
  <2> QED BY <1>1, <1>2, <1>3, <1>5, <2>1, ResetKeeps, ElsewhereTwice, DatagramSlots DEF Stay
<1>6. CASE host' = g
  <2>1. /\ k \in HostType
        /\ Elsewhere(k, h, p) /\ SameLists(k, h, p)
        /\ k.state[p] = "ACKNOWLEDGING_DISCONNECT"
        /\ k.needsDispatch = h.needsDispatch
    BY <1>2, ChangeStateType, ChangeStateEffect DEF State
  <2> HIDE DEF k
  <2>2. /\ g.state = k.state
        /\ g.outgoing = k.outgoing /\ g.unacked = k.unacked /\ g.first = k.first
        /\ g.acknowledgements = k.acknowledgements \cup {p} /\ g.dispatched = k.dispatched
        /\ g.needsDispatch = k.needsDispatch /\ g.dispatchQueue = k.dispatchQueue
    BY <2>1 DEF HostType
  <2> HIDE DEF g
  <2>3. Elsewhere(g, k, p)
    BY <2>2 DEF Elsewhere, Untouched, SameLists, SameLinks
  <2>4. Kept(g, p) /\ Attended(g, p) /\ ~ Unsent(g, p)
    BY <1>3, <2>1, <2>2 DEF Cleared, SameLists, Kept, Attended, Waiting, Pending, Unsent
  <2>5. Elsewhere(g, host, p)
    BY <1>3, <2>1, <2>3, ElsewhereTwice
  <2> QED BY <1>1, <1>6, <2>4, <2>5, DatagramSlots DEF Stay
<1> QED BY <1>1, <1>4, <1>5, <1>6

\* An acknowledged command that the state does not wait for is no loss.
LEMMA HandleAcknowledgeSlots ==
    ASSUME TypeOK, SlotsInv, phase = "datagram", NEW p \in Peers, NEW c, HandleAcknowledge(p, c)
    PROVE  SlotsInv'
<1>1. PICK h \in Acknowledge(host, p, c) :
        \/ /\ h.state[p] = "ACKNOWLEDGING_CONNECT" /\ c # "VERIFY_CONNECT"
           /\ host' = h /\ End(event)
        \/ /\ h.state[p] = "DISCONNECTING" /\ c # "DISCONNECT"
           /\ host' = h /\ End(event)
        \/ /\ h.state[p] = "ACKNOWLEDGING_CONNECT"
           /\ host' = NotifyConnect(h, p, withEvent) /\ closing' = closing
        \/ /\ h.state[p] = "DISCONNECTING"
           /\ host' = NotifyDisconnect(h, p, withEvent) /\ closing' = closing
        \/ /\ h.state[p] \notin {"ACKNOWLEDGING_CONNECT", "DISCONNECTING"}
           /\ host' = FinishDisconnectLater(h, p) /\ Stay
  BY DEF HandleAcknowledge, Continue, Report
<1>2. /\ host \in HostType /\ Kept(host, p) /\ Attended(host, p)
      /\ ~ Unsent(host, p) /\ c # "CONNECT" /\ withEvent \in BOOLEAN
  <2>1. p # NoPeer /\ closing = NoPeer
    BY PeerCountAssumption DEF SlotsInv, Peers, NoPeer
  <2> QED BY <2>1 DEF TypeOK, SlotsInv, NotSentYet, HandleAcknowledge
<1>3. /\ h \in HostType /\ Elsewhere(h, host, p)
      /\ h.state = host.state /\ h.first = host.first
      /\ h.outgoing[p] \subseteq host.outgoing[p]
      /\ Pending(h, p) \subseteq Pending(host, p)
      /\ Pending(host, p) \subseteq Pending(h, p) \cup {c}
      /\ h.acknowledgements = host.acknowledgements /\ h.dispatched = host.dispatched
      /\ h.needsDispatch = host.needsDispatch /\ h.dispatchQueue = host.dispatchQueue
  BY <1>1, <1>2, AcknowledgeType, AcknowledgeEffect DEF Pending
<1>4. Kept(h, p) /\ ~ Unsent(h, p)
  BY <1>2, <1>3 DEF Kept, Unsent
<1>5. ASSUME /\ h.state[p] = "ACKNOWLEDGING_CONNECT" => c # "VERIFY_CONNECT"
             /\ h.state[p] = "DISCONNECTING" => c # "DISCONNECT"
             /\ h.state[p] = "DISCONNECT_LATER" => HasOutgoing(h, p)
      PROVE  Attended(h, p)
  <2>1. Waiting(h, p) => p \in ToSet(h.dispatchQueue)
    BY <1>2, <1>3 DEF Attended, Waiting
  <2>2. h.state[p] = "DISCONNECT_LATER" => Pending(h, p) # {}
    BY <1>5 DEF HasOutgoing, Pending
  <2> QED BY <1>2, <1>3, <1>5, <2>1, <2>2 DEF Attended
<1>6. CASE /\ host' = h /\ End(event)
           /\ \/ h.state[p] = "ACKNOWLEDGING_CONNECT" /\ c # "VERIFY_CONNECT"
              \/ h.state[p] = "DISCONNECTING" /\ c # "DISCONNECT"
  <2>1. Attended(h, p)
    BY <1>5, <1>6
  <2> QED BY <1>3, <1>4, <1>6, <2>1, EndClosing, DatagramSlots
<1>7. CASE /\ h.state[p] = "ACKNOWLEDGING_CONNECT"
           /\ host' = NotifyConnect(h, p, withEvent) /\ closing' = closing
  <2>1. h.first[p] = "CONNECT" => "CONNECT" \notin Pending(h, p)
    BY <1>4, <1>7 DEF Kept
  <2>2. /\ Elsewhere(host', h, p)
        /\ Kept(host', p) /\ Attended(host', p) /\ ~ Unsent(host', p)
    BY <1>2, <1>3, <1>4, <1>7, <2>1, NotifyConnectKeeps
  <2> QED BY <1>3, <1>7, <2>2, ElsewhereTwice, DatagramSlots
<1>8. CASE /\ h.state[p] = "DISCONNECTING"
           /\ host' = NotifyDisconnect(h, p, withEvent) /\ closing' = closing
  <2>1. p \notin h.acknowledgements /\ (p \in h.needsDispatch => p \in ToSet(h.dispatchQueue))
    BY <1>4, <1>8 DEF Kept
  <2>2. /\ Elsewhere(host', h, p)
        /\ Kept(host', p) /\ Attended(host', p) /\ ~ Unsent(host', p)
    BY <1>3, <1>8, <2>1, NotifyDisconnectKeeps
  <2> QED BY <1>3, <1>8, <2>2, ElsewhereTwice, DatagramSlots
<1>9. CASE /\ h.state[p] \notin {"ACKNOWLEDGING_CONNECT", "DISCONNECTING"}
           /\ host' = FinishDisconnectLater(h, p) /\ Stay
  <2>1. CASE h.state[p] = "DISCONNECT_LATER" /\ ~ HasOutgoing(h, p)
    <3>1. Disconnecting(host', h, p)
      BY <1>3, <1>9, <2>1, BeginDisconnectEffect DEF FinishDisconnectLater
    <3>2. Elsewhere(host', host, p)
      BY <1>3, <3>1, ElsewhereTwice DEF Disconnecting
    <3> QED BY <1>9, <3>1, <3>2, DisconnectingKeeps, DatagramSlots DEF Stay
  <2>2. CASE ~ (h.state[p] = "DISCONNECT_LATER" /\ ~ HasOutgoing(h, p))
    <3>1. host' = h
      BY <1>9, <2>2 DEF FinishDisconnectLater
    <3>2. Attended(h, p)
      BY <1>5, <1>9, <2>2
    <3> QED BY <1>3, <1>4, <1>9, <3>1, <3>2, DatagramSlots DEF Stay
  <2> QED BY <2>1, <2>2
<1> QED BY <1>1, <1>6, <1>7, <1>8, <1>9

LEMMA OtherCommandSlots ==
    ASSUME TypeOK, SlotsInv, phase = "datagram", NEW p \in Peers,
           HandleBandwidthLimit(p) \/ HandlePacket(p)
    PROVE  SlotsInv'
<1>1. /\ host \in HostType /\ Kept(host, p) /\ Attended(host, p) /\ ~ Unsent(host, p)
      /\ closing' = closing
  <2>1. p # NoPeer /\ closing = NoPeer
    BY PeerCountAssumption DEF SlotsInv, Peers, NoPeer
  <2> QED BY <2>1 DEF TypeOK, SlotsInv, NotSentYet, HandleBandwidthLimit, HandlePacket,
                      Continue, Stay
<1>2. CASE HandleBandwidthLimit(p)
  <2>1. PICK l \in BOOLEAN :
          \E n : host' = [SetLimit(host, p, l) EXCEPT !.bandwidthLimitedPeers = n]
    BY <1>2 DEF HandleBandwidthLimit
  <2> DEFINE k == SetLimit(host, p, l)
  <2>2. /\ k \in HostType
        /\ k.state = host.state
        /\ k.outgoing = host.outgoing /\ k.unacked = host.unacked /\ k.first = host.first
        /\ k.acknowledgements = host.acknowledgements /\ k.dispatched = host.dispatched
        /\ k.needsDispatch = host.needsDispatch /\ k.dispatchQueue = host.dispatchQueue
    BY <1>1, SetLimitType, SetLimitEffect
  <2>3. \E n : host' = [k EXCEPT !.bandwidthLimitedPeers = n]
    BY <2>1
  <2> HIDE DEF k
  <2>4. /\ host'.state = host.state
        /\ host'.outgoing = host.outgoing /\ host'.unacked = host.unacked
        /\ host'.first = host.first
        /\ host'.acknowledgements = host.acknowledgements /\ host'.dispatched = host.dispatched
        /\ host'.needsDispatch = host.needsDispatch
        /\ host'.dispatchQueue = host.dispatchQueue
    BY <2>2, <2>3 DEF HostType
  <2>5. Elsewhere(host', host, p) /\ Untouched(host', host, p)
    BY <2>4 DEF Elsewhere, Untouched, SameLists, SameLinks
  <2> QED BY <1>1, <2>5, UntouchedKeeps, DatagramSlots
<1>3. CASE HandlePacket(p)
  <2> DEFINE k == [host EXCEPT !.dispatched = @ \cup {p}]
  <2>1. /\ k \in HostType
        /\ k.state = host.state
        /\ k.outgoing = host.outgoing /\ k.unacked = host.unacked /\ k.first = host.first
        /\ k.acknowledgements = host.acknowledgements
        /\ k.dispatched = host.dispatched \cup {p}
        /\ k.needsDispatch = host.needsDispatch /\ k.dispatchQueue = host.dispatchQueue
    BY <1>1 DEF HostType
  <2>2. host' = NeedsDispatch(k, p) /\ host.state[p] \in Active
    BY <1>3 DEF HandlePacket
  <2> HIDE DEF k
  <2>3. /\ Elsewhere(host', k, p) /\ SameLists(host', k, p)
        /\ host'.state[p] = host.state[p]
        /\ p \in ToSet(host'.dispatchQueue)
    BY <1>1, <2>1, <2>2, NeedsDispatchEffect DEF Kept
  <2>4. Elsewhere(k, host, p)
    BY <2>1 DEF Elsewhere, Untouched, SameLists, SameLinks
  <2>5. Kept(host', p) /\ Attended(host', p) /\ ~ Unsent(host', p)
    BY <1>1, <2>1, <2>2, <2>3
       DEF SameLists, Kept, Attended, Waiting, Pending, Unsent, Active
  <2> QED BY <1>1, <2>3, <2>4, <2>5, ElsewhereTwice, DatagramSlots
<1> QED BY <1>2, <1>3

LEMMA HandleIncomingSlots ==
    ASSUME TypeOK, SlotsInv, HandleIncoming
    PROVE  SlotsInv'
<1>1. CASE HandleConnect
  BY <1>1, HandleConnectSlots
<1>2. CASE phase = "datagram" /\ current \in Peers /\ HandleCommand(current)
  BY <1>2, HandleVerifyConnectSlots, HandleDisconnectSlots, HandleAcknowledgeSlots,
     OtherCommandSlots DEF HandleCommand
<1> QED BY <1>1, <1>2 DEF HandleIncoming, TypeOK

LEMMA OtherStepSlots ==
    ASSUME TypeOK, SlotsInv,
           \/ \E p \in Peers \cup {NoPeer} : ReceiveDatagram(p)
           \/ ReceiveDone \/ ReceiveFailed \/ EndDatagram \/ Wait
    PROVE  SlotsInv'
<1>1. /\ host' = host /\ phase \in {"receive", "datagram", "wait"}
      /\ closing' \in {closing, NoPeer}
  BY DEF ReceiveDatagram, ReceiveDone, ReceiveFailed, EndDatagram, End, Wait, Return, Goto
<1>2. closing = NoPeer /\ closing' = NoPeer
  BY <1>1 DEF SlotsInv
<1> QED BY <1>1, <1>2, QuietStep DEF NotSentYet

LEMMA InitSlots == Init => SlotsInv
  BY DEF Init, SlotsInv, Kept, Attended, Waiting, Pending, Unsent

LEMMA SlotsCorrect == Spec => []SlotsInv
<1>1. TypeOK /\ SlotsInv /\ [Next]_vars => SlotsInv'
  <2> SUFFICES ASSUME TypeOK, SlotsInv, [Next]_vars PROVE SlotsInv'
    OBVIOUS
  <2>1. CASE AppCall
    BY <2>1, AppCallSlots
  <2>2. CASE DispatchIncoming
    BY <2>2, DispatchIncomingSlots
  <2>3. CASE ThrottlePhase
    BY <2>3, ThrottlePhaseSlots
  <2>4. CASE SendOutgoing
    BY <2>4, SendOutgoingSlots
  <2>5. CASE HandleIncoming
    BY <2>5, HandleIncomingSlots
  <2>6. CASE \/ \E p \in Peers \cup {NoPeer} : ReceiveDatagram(p)
             \/ ReceiveDone \/ ReceiveFailed \/ EndDatagram \/ Wait
    BY <2>6, OtherStepSlots
  <2>7. CASE UNCHANGED vars
    BY <2>7, QuietStep DEF vars, NotSentYet, SlotsInv
  <2> QED BY <2>1, <2>2, <2>3, <2>4, <2>5, <2>6, <2>7 DEF Next
<1> QED BY <1>1, InitSlots, TypeCorrect, PTL DEF Spec

\* A peer that waits for its remote host has the command outstanding that ends the wait:
\* no timeout is missing, so none waits for ever.
THEOREM PeersAttended == Spec => []NoStrandedPeer
<1>1. SlotsInv => NoStrandedPeer
  BY DEF SlotsInv, NoStrandedPeer, Attended, Pending
<1> QED BY <1>1, SlotsCorrect, PTL

\* The CONNECT of a connection that is up is in no list any more: it is sent before the
\* first datagram is read and not sent again once it was answered.
THEOREM ConnectsSettled == Spec => []ConnectSettled
<1>1. SlotsInv => ConnectSettled
  BY DEF SlotsInv, ConnectSettled, Kept, Pending, Active
<1> QED BY <1>1, SlotsCorrect, PTL

-----------------------------------------------------------------------------
(* No node is linked twice when every call asks for an event, as index.ts   *)
(* does.  enet_peer_reset leaves the node of a peer in the queue with the   *)
(* flag cleared; such a node is stale until the queue is next emptied.      *)

Stale(h, p) == p \in ToSet(h.dispatchQueue) /\ p \notin h.needsDispatch

\* The flag belongs to a peer that is up or over, a stale node to a slot that was reset.
Marked(h, p) ==
    /\ p \in h.needsDispatch => h.state[p] \in {"CONNECTED", "DISCONNECT_LATER", "ZOMBIE"}
    /\ Stale(h, p) => h.state[p] \in {"DISCONNECTED", "CONNECTING"}

\* The phases before the queue was emptied, in which nothing is received.
Early == {"idle", "check", "dispatch", "flush"}

LinksInv ==
    /\ LinkedOnce(host.dispatchQueue)
    /\ \A p \in Peers : Marked(host, p)
    /\ \A p \in Peers : Stale(host, p) => phase \in Early
    /\ phase \notin {"idle", "flush"} => withEvent

\* A step that is about the slot p.
LEMMA LinkStep ==
    ASSUME LinksInv, NEW p \in Peers, Elsewhere(host', host, p),
           LinkedOnce(host'.dispatchQueue), Marked(host', p),
           Stale(host', p) => phase' \in Early,
           phase \in Early => phase' \in Early,
           phase' \notin {"idle", "flush"} => withEvent'
    PROVE  LinksInv'
<1>1. \A q \in Peers \ {p} : (Stale(host', q) <=> Stale(host, q))
                             /\ (Marked(host, q) => Marked(host', q))
  BY DEF Elsewhere, Untouched, SameLinks, Stale, Marked
<1> QED BY <1>1 DEF LinksInv

\* A step that changes no state and no link.
LEMMA LinkQuiet ==
    ASSUME LinksInv, host'.state = host.state, host'.dispatchQueue = host.dispatchQueue,
           host'.needsDispatch = host.needsDispatch,
           phase \in Early => phase' \in Early,
           phase' \notin {"idle", "flush"} => withEvent'
    PROVE  LinksInv'
  BY DEF LinksInv, Stale, Marked

\* A slot that is reset outside of its queue is not linked any more.
LEMMA ResetMarked ==
    ASSUME NEW h \in HostType, NEW p \in Peers
    PROVE  LET g == Reset(h, p)
           IN  /\ Elsewhere(g, h, p) /\ Marked(g, p)
               /\ g.dispatchQueue = h.dispatchQueue
               /\ Stale(g, p) => p \in ToSet(h.dispatchQueue)
<1> DEFINE g == Reset(h, p)
<1>1. /\ Elsewhere(g, h, p) /\ Cleared(g, p)
      /\ g.state[p] = "DISCONNECTED" /\ g.dispatchQueue = h.dispatchQueue
  BY ResetEffect
<1> HIDE DEF g
<1> QED BY <1>1 DEF Cleared, Marked, Stale, g

LEMMA ZombieMarked ==
    ASSUME NEW h \in HostType, NEW p \in Peers, LinkedOnce(h.dispatchQueue),
           p \in ToSet(h.dispatchQueue) => p \in h.needsDispatch
    PROVE  LET g == DispatchState(h, p, "ZOMBIE")
           IN  /\ Elsewhere(g, h, p) /\ Marked(g, p) /\ ~ Stale(g, p)
               /\ LinkedOnce(g.dispatchQueue)
<1> DEFINE g == DispatchState(h, p, "ZOMBIE")
<1>1. /\ Elsewhere(g, h, p) /\ g.state[p] = "ZOMBIE" /\ p \in g.needsDispatch
      /\ LinkedOnce(g.dispatchQueue)
  BY DispatchStateEffect DEF State
<1> HIDE DEF g
<1> QED BY <1>1 DEF Marked, Stale, g

\* A connection that is up leaves the queue as its disconnection begins.
LEMMA DisconnectingMarked ==
    ASSUME NEW g, NEW h, NEW p \in Peers, Disconnecting(g, h, p), LinkedOnce(h.dispatchQueue),
           Marked(h, p), h.state[p] \in Active
    PROVE  Elsewhere(g, h, p) /\ LinkedOnce(g.dispatchQueue) /\ Marked(g, p) /\ ~ Stale(g, p)
  BY DEF Disconnecting, Marked, Stale, Active

LEMMA GiveUpLinks ==
    ASSUME TypeOK, LinksInv, NEW p \in Peers, GiveUp(p)
    PROVE  LinksInv'
<1> DEFINE k == ResetQueues(host, p)
<1>1. /\ k \in HostType /\ host' = Queue(k, p, "NOTICE")
      /\ phase = "idle" /\ phase' = "flush"
  BY ResetQueuesType DEF TypeOK, GiveUp
<1>2. /\ Elsewhere(k, host, p) /\ Cleared(k, p) /\ k.state = host.state
      /\ p \in ToSet(k.dispatchQueue) => p \in ToSet(host.dispatchQueue)
      /\ LinkedOnce(k.dispatchQueue)
      /\ p \in host.needsDispatch => p \notin ToSet(k.dispatchQueue)
  BY ResetQueuesEffect DEF TypeOK, LinksInv
<1> HIDE DEF k
<1>3. /\ Elsewhere(host', k, p) /\ host'.state = k.state
      /\ host'.needsDispatch = k.needsDispatch /\ host'.dispatchQueue = k.dispatchQueue
  BY <1>1, QueueEffect
<1>4. Elsewhere(host', host, p)
  BY <1>2, <1>3, ElsewhereTwice
<1>5. Marked(host', p)
  BY <1>2, <1>3 DEF LinksInv, Marked, Stale, Cleared
<1> QED BY <1>1, <1>2, <1>3, <1>4, <1>5, LinkStep DEF Early

LEMMA DisconnectLinks ==
    ASSUME TypeOK, LinksInv, NEW p \in Peers, Disconnect(p)
    PROVE  LinksInv'
<1>1. CASE Call(BeginDisconnect(host, p)) /\ host.state[p] \in Active
  <2>1. Disconnecting(host', host, p) /\ phase = "idle" /\ phase' = "idle"
    BY <1>1, BeginDisconnectEffect DEF TypeOK, Call
  <2>2. /\ Elsewhere(host', host, p) /\ LinkedOnce(host'.dispatchQueue)
        /\ Marked(host', p) /\ ~ Stale(host', p)
    BY <1>1, <2>1, DisconnectingMarked DEF LinksInv
  <2> QED BY <2>1, <2>2, LinkStep
<1>2. CASE GiveUp(p)
  BY <1>2, GiveUpLinks
<1> QED BY <1>1, <1>2 DEF Disconnect

\* One more command in the lists is no matter.
LEMMA CallQueueLinks ==
    ASSUME TypeOK, LinksInv, NEW h, Call(h),
           \/ h = host
           \/ \E p \in Peers, c \in Command : h = Queue(host, p, c)
           \/ \E S, c : h = QueueAll(host, S, c)
    PROVE  LinksInv'
<1>1. /\ host' = h /\ phase = "idle" /\ phase' = "idle"
  BY DEF Call
<1>2. /\ h.state = host.state /\ h.dispatchQueue = host.dispatchQueue
      /\ h.needsDispatch = host.needsDispatch
  <2>1. CASE \E p \in Peers, c \in Command : h = Queue(host, p, c)
    BY <2>1, QueueEffect DEF TypeOK
  <2>2. CASE \E S, c : h = QueueAll(host, S, c)
    BY <2>2 DEF QueueAll, TypeOK, HostType
  <2> QED BY <2>1, <2>2
<1> QED BY <1>1, <1>2, LinkQuiet DEF Early

LEMMA AppCallLinks ==
    ASSUME FALSE \notin EventModes, TypeOK, LinksInv, AppCall
    PROVE  LinksInv'
<1>0. host \in HostType /\ (\A p \in Peers : Marked(host, p)) /\ LinkedOnce(host.dispatchQueue)
  BY DEF TypeOK, LinksInv
<1>1. CASE Connect
  <2>1. PICK p \in Peers :
          /\ host.state[p] = "DISCONNECTED"
          /\ host' = Queue([host EXCEPT !.state[p] = "CONNECTING"], p, "CONNECT")
          /\ phase = "idle" /\ phase' = "idle"
    BY <1>1 DEF Connect, FirstFree, Free, Call
  <2> DEFINE k == [host EXCEPT !.state[p] = "CONNECTING"]
  <2>2. /\ k \in HostType /\ host' = Queue(k, p, "CONNECT")
        /\ k.state = [host.state EXCEPT ![p] = "CONNECTING"]
        /\ k.outgoing = host.outgoing /\ k.unacked = host.unacked /\ k.first = host.first
        /\ k.acknowledgements = host.acknowledgements /\ k.dispatched = host.dispatched
        /\ k.needsDispatch = host.needsDispatch /\ k.dispatchQueue = host.dispatchQueue
    BY <1>0, <2>1 DEF HostType, State
  <2> HIDE DEF k
  <2>3. Elsewhere(k, host, p) /\ k.state[p] = "CONNECTING"
    BY <1>0, <2>2 DEF Elsewhere, Untouched, SameLists, SameLinks, HostType
  <2>4. /\ Elsewhere(host', k, p) /\ host'.state = k.state
        /\ host'.needsDispatch = k.needsDispatch /\ host'.dispatchQueue = k.dispatchQueue
    BY <2>2, QueueEffect
  <2>5. Marked(host', p)
    BY <1>0, <2>1, <2>2, <2>3, <2>4 DEF Marked, Stale
  <2>6. Elsewhere(host', host, p)
    BY <2>3, <2>4, ElsewhereTwice
  <2> QED BY <1>0, <2>1, <2>2, <2>4, <2>5, <2>6, LinkStep DEF Early
<1>2. CASE BandwidthThrottle \/ \E c \in Packets : Broadcast(c)
  <2>1. \E h : /\ Call(h)
               /\ h = host \/ \E S, c : h = QueueAll(host, S, c)
    BY <1>2 DEF BandwidthThrottle, Broadcast, LimitBandwidth
  <2> QED BY <2>1, CallQueueLinks
<1>3. CASE Flush \/ CheckEvents \/ \E e \in EventModes : Service(e)
  <2>1. /\ host' = host /\ phase = "idle"
        /\ \/ phase' \in {"check", "dispatch"} /\ withEvent'
           \/ phase' = "flush"
    BY <1>3, EventModesAssumption DEF Flush, CheckEvents, Service, Enter
  <2> QED BY <2>1, LinkQuiet DEF Early
<1>4. ASSUME NEW p \in Peers, NEW c \in Packets, Send(p, c) PROVE LinksInv'
  BY <1>4, CallQueueLinks, PacketsAssumption DEF Send, Command
<1>5. ASSUME NEW p \in Peers, Ping(p) \/ ConfigureThrottle(p) PROVE LinksInv'
  <2>1. Call(Queue(host, p, "RELIABLE")) \/ Call(host)
    BY <1>5 DEF Ping, ConfigureThrottle, PingPeer
  <2> QED BY <2>1, CallQueueLinks DEF Command
<1>6. ASSUME NEW p \in Peers, Disconnect(p) PROVE LinksInv'
  BY <1>6, DisconnectLinks
<1>7. ASSUME NEW p \in Peers, DisconnectLater(p) PROVE LinksInv'
  <2>1. CASE Disconnect(p)
    BY <2>1, DisconnectLinks
  <2>2. CASE /\ host.state[p] \in Active
             /\ Call([host EXCEPT !.state[p] = "DISCONNECT_LATER"])
    <3>1. /\ host'.state = [host.state EXCEPT ![p] = "DISCONNECT_LATER"]
          /\ host'.outgoing = host.outgoing /\ host'.unacked = host.unacked
          /\ host'.first = host.first
          /\ host'.acknowledgements = host.acknowledgements
          /\ host'.dispatched = host.dispatched
          /\ host'.needsDispatch = host.needsDispatch
          /\ host'.dispatchQueue = host.dispatchQueue
          /\ phase = "idle" /\ phase' = "idle"
      BY <1>0, <2>2 DEF HostType, Call
    <3>2. Elsewhere(host', host, p) /\ host'.state[p] = "DISCONNECT_LATER"
      BY <1>0, <3>1 DEF Elsewhere, Untouched, SameLists, SameLinks, HostType
    <3>3. Marked(host', p)
      BY <1>0, <2>2, <3>1, <3>2 DEF Marked, Stale, Active
    <3> QED BY <1>0, <3>1, <3>2, <3>3, LinkStep DEF Early
  <2> QED BY <1>7, <2>1, <2>2 DEF DisconnectLater
<1>8. ASSUME NEW p \in Peers, DisconnectNow(p) \/ ResetPeer(p) PROVE LinksInv'
  <2>1. CASE Call(Reset(host, p))
    <3>1. host' = Reset(host, p) /\ phase = "idle" /\ phase' = "idle"
      BY <2>1 DEF Call
    <3>2. /\ Elsewhere(host', host, p) /\ Marked(host', p)
          /\ host'.dispatchQueue = host.dispatchQueue
      BY <1>0, <3>1, ResetMarked
    <3> QED BY <1>0, <3>1, <3>2, LinkStep DEF Early
  <2>2. CASE GiveUp(p)
    BY <2>2, GiveUpLinks
  <2> QED BY <1>8, <2>1, <2>2 DEF DisconnectNow, ResetPeer
<1> QED BY <1>1, <1>2, <1>3, <1>4, <1>5, <1>6, <1>7, <1>8 DEF AppCall

LEMMA DispatchLinks ==
    ASSUME TypeOK, LinksInv, Dispatching, host.dispatchQueue # << >>,
           Dispatch(Head(host.dispatchQueue))
    PROVE  LinksInv'
<1> DEFINE p == Head(host.dispatchQueue)
           g == Popped
<1>1. /\ g \in HostType /\ p \in Peers
      /\ Elsewhere(g, host, p) /\ g.state = host.state /\ p \notin g.needsDispatch
      /\ g.dispatchQueue = Tail(host.dispatchQueue)
  BY PoppedType, PoppedEffect
<1>2. LinkedOnce(g.dispatchQueue) /\ p \notin ToSet(g.dispatchQueue)
  BY <1>1, FirstTakenOff DEF TypeOK, HostType, LinksInv
<1>3. \/ phase' = "idle"
      \/ UNCHANGED <<phase, withEvent>>
  BY DEF Dispatch, Return, Stay
<1>4. ASSUME Elsewhere(host', host, p), LinkedOnce(host'.dispatchQueue), Marked(host', p),
             ~ Stale(host', p)
      PROVE  LinksInv'
  <2>1. phase' \notin {"idle", "flush"} => withEvent'
    BY <1>3 DEF LinksInv
  <2>2. phase \in Early => phase' \in Early
    BY <1>3 DEF Early
  <2> QED BY <1>1, <1>4, <2>1, <2>2, LinkStep
<1> HIDE DEF p, g
<1>5. CASE host' = ChangeState(g, p, "CONNECTED")
  <2>1. /\ Elsewhere(host', g, p)
        /\ host'.state[p] = "CONNECTED"
        /\ host'.needsDispatch = g.needsDispatch /\ host'.dispatchQueue = g.dispatchQueue
    BY <1>1, <1>5, ChangeStateEffect DEF State
  <2>2. Elsewhere(host', host, p)
    BY <1>1, <2>1, ElsewhereTwice
  <2> QED BY <1>1, <1>2, <1>4, <2>1, <2>2 DEF Marked, Stale
<1>6. CASE host' = Reset(g, p)
  <2>1. /\ Elsewhere(host', g, p) /\ Marked(host', p)
        /\ host'.dispatchQueue = g.dispatchQueue
    BY <1>1, <1>6, ResetMarked
  <2>2. Elsewhere(host', host, p)
    BY <1>1, <2>1, ElsewhereTwice
  <2> QED BY <1>2, <1>4, <2>1, <2>2 DEF Stale
<1>7. CASE host' = [g EXCEPT !.dispatched = @ \ {p}] \/ host' = g
  <2>1. /\ host'.state = g.state
        /\ host'.outgoing = g.outgoing /\ host'.unacked = g.unacked /\ host'.first = g.first
        /\ host'.acknowledgements = g.acknowledgements
        /\ host'.dispatched \in {g.dispatched, g.dispatched \ {p}}
        /\ host'.needsDispatch = g.needsDispatch /\ host'.dispatchQueue = g.dispatchQueue
    BY <1>1, <1>7 DEF HostType
  <2>2. Elsewhere(host', g, p)
    BY <2>1 DEF Elsewhere, Untouched, SameLists, SameLinks
  <2>3. Elsewhere(host', host, p)
    BY <1>1, <2>2, ElsewhereTwice
  <2> QED BY <1>1, <1>2, <1>4, <2>1, <2>3 DEF Marked, Stale
<1>8. CASE host' = NeedsDispatch(g, p) /\ host.state[p] = "CONNECTED"
  <2>1. /\ Elsewhere(host', g, p) /\ host'.state[p] = g.state[p]
        /\ p \in host'.needsDispatch /\ LinkedOnce(host'.dispatchQueue)
    BY <1>1, <1>2, <1>8, NeedsDispatchEffect
  <2>2. Elsewhere(host', host, p)
    BY <1>1, <2>1, ElsewhereTwice
  <2> QED BY <1>1, <1>4, <1>8, <2>1, <2>2 DEF Marked, Stale
<1> QED BY <1>5, <1>6, <1>7, <1>8 DEF Dispatch, p, g

\* The queue is empty when the service loop goes on, so nothing stale is left in it.
LEMMA DispatchIncomingLinks ==
    ASSUME TypeOK, LinksInv, DispatchIncoming
    PROVE  LinksInv'
<1>1. CASE host.dispatchQueue # << >> /\ Dispatch(Head(host.dispatchQueue))
  BY <1>1, DispatchLinks DEF DispatchIncoming
<1>2. CASE host.dispatchQueue = << >> /\ host' = host
  <2>1. \A p \in Peers : p \notin ToSet(host.dispatchQueue)
    <3>1. Len(host.dispatchQueue) = 0
      BY <1>2, EmptySeq
    <3> QED BY <3>1, ToSetOf DEF TypeOK, HostType
  <2>2. phase' = "idle" \/ withEvent' = withEvent
    BY <1>2 DEF DispatchIncoming, Dispatching, Return, Goto
  <2> QED BY <1>2, <2>1, <2>2 DEF LinksInv, Stale, Marked, DispatchIncoming, Dispatching
<1> QED BY <1>1, <1>2 DEF DispatchIncoming

LEMMA ThrottlePhaseLinks ==
    ASSUME TypeOK, LinksInv, ThrottlePhase
    PROVE  LinksInv'
<1>1. /\ host'.state = host.state /\ host'.dispatchQueue = host.dispatchQueue
      /\ host'.needsDispatch = host.needsDispatch
  BY DEF ThrottlePhase, LimitBandwidth, QueueAll, TypeOK, HostType
<1>2. phase = "throttle" /\ phase' = "send" /\ withEvent' = withEvent
  BY DEF ThrottlePhase, Goto
<1> QED BY <1>1, <1>2, LinkQuiet DEF LinksInv, Early

LEMMA SendToLinks ==
    ASSUME TypeOK, SlotsInv, LinksInv, Sending, current \in Peers, SendTo(current)
    PROVE  LinksInv'
<1> DEFINE p == current
           h == SendAcknowledgements(host, p)
<1>1. /\ host \in HostType /\ h \in HostType /\ Kept(host, p)
      /\ Marked(host, p) /\ LinkedOnce(host.dispatchQueue)
  BY SendAcknowledgementsType DEF TypeOK, SlotsInv, LinksInv
<1>2. /\ Elsewhere(h, host, p) /\ Marked(h, p) /\ LinkedOnce(h.dispatchQueue)
      /\ Stale(h, p) => Stale(host, p)
  <2>1. CASE p \notin host.acknowledgements
    BY <1>1, <2>1, SendAcknowledgementsEffect
  <2>2. CASE p \in host.acknowledgements
    <3>1. p \notin ToSet(host.dispatchQueue)
      BY <1>1, <2>2 DEF Kept, Marked, Stale
    <3>2. /\ Elsewhere(h, host, p) /\ h.state[p] = "ZOMBIE" /\ p \in h.needsDispatch
          /\ LinkedOnce(h.dispatchQueue)
      BY <1>1, <2>2, <3>1, SendAcknowledgementsEffect
    <3> HIDE DEF h
    <3> QED BY <3>2 DEF Marked, Stale
  <2> QED BY <2>1, <2>2
<1>3. Stale(host, p) => phase = "flush"
  BY DEF LinksInv, Early, Sending
<1> HIDE DEF h
<1>4. \/ UNCHANGED <<phase, withEvent>>
      \/ phase' = "idle" /\ phase # "flush"
  BY DEF SendTo, SkipPeer, TimeOut, Goto, Return
<1>5. ASSUME Elsewhere(host', host, p), LinkedOnce(host'.dispatchQueue), Marked(host', p),
             Stale(host', p) => phase' \in Early
      PROVE  LinksInv'
  <2>1. phase' \notin {"idle", "flush"} => withEvent'
    BY <1>4 DEF LinksInv
  <2>2. phase \in Early => phase' \in Early
    BY <1>4 DEF Early
  <2> QED BY <1>5, <2>1, <2>2, LinkStep
<1>6. CASE SkipPeer(p)
  <2>1. host' = host
    BY <1>6 DEF SkipPeer
  <2> QED BY <1>1, <1>3, <1>4, <1>5, <2>1, ElsewhereSame DEF Early
<1>7. CASE TimeOut(p)
  <2>1. /\ phase # "flush" /\ withEvent /\ host' = NotifyDisconnect(h, p, withEvent)
        /\ ~ EndsSilently(h, p) => phase' = "idle"
    BY <1>7 DEF TimeOut, Return, LinksInv, Sending, h
  <2>2. /\ Elsewhere(host', h, p) /\ Marked(host', p)
        /\ host'.dispatchQueue = h.dispatchQueue
        /\ Stale(host', p) => p \in ToSet(h.dispatchQueue)
    BY <1>1, <2>1, ResetMarked DEF NotifyDisconnect
  <2>3. EndsSilently(h, p) => p \notin ToSet(h.dispatchQueue)
    BY <1>2, <1>3, <2>1 DEF EndsSilently, Marked, Stale
  <2>4. Elsewhere(host', host, p)
    BY <1>2, <2>2, ElsewhereTwice
  <2> QED BY <1>2, <1>5, <2>1, <2>2, <2>3, <2>4 DEF Early
<1>8. CASE TransmitTo(p)
  <2>1. \/ Sent(host', h, p)
        \/ host.state[p] = "DISCONNECT_LATER" /\ Disconnecting(host', host, p)
    BY <1>8, TransmitToEffect DEF h
  <2>2. CASE Sent(host', h, p)
    <3>1. Elsewhere(host', host, p)
      BY <1>2, <2>2, ElsewhereTwice DEF Sent
    <3>2. Marked(host', p) /\ LinkedOnce(host'.dispatchQueue) /\ (Stale(host', p) <=> Stale(h, p))
      BY <1>2, <2>2 DEF Sent, Marked, Stale
    <3> QED BY <1>2, <1>3, <1>4, <1>5, <3>1, <3>2 DEF Early
  <2>3. CASE host.state[p] = "DISCONNECT_LATER" /\ Disconnecting(host', host, p)
    BY <1>1, <1>5, <2>3, DisconnectingMarked DEF Active
  <2> QED BY <2>1, <2>2, <2>3
<1> QED BY <1>6, <1>7, <1>8 DEF SendTo

LEMMA SendOutgoingLinks ==
    ASSUME TypeOK, SlotsInv, LinksInv, SendOutgoing
    PROVE  LinksInv'
<1>1. CASE current = NoPeer /\ SendDone
  <2>1. CASE host' = host
    <3>1. \/ UNCHANGED withEvent /\ phase \notin Early
          \/ phase' = "idle"
      BY <1>1, <2>1 DEF SendDone, SendOutgoing, Sending, Goto, Return, Early
    <3> QED BY <2>1, <3>1, LinkQuiet DEF LinksInv, Early
  <2>2. CASE /\ closing \in Peers /\ host' = Reset(host, closing)
             /\ phase = "flush" /\ phase' = "idle"
    <3>1. /\ Elsewhere(host', host, closing) /\ Marked(host', closing)
          /\ host'.dispatchQueue = host.dispatchQueue
      BY <2>2, ResetMarked DEF TypeOK
    <3> QED BY <2>2, <3>1, LinkStep DEF LinksInv, Early
  <2> QED BY <1>1, <2>1, <2>2 DEF SendDone, SendOutgoing, Sending, Return, TypeOK
<1>2. CASE current # NoPeer /\ SendTo(current)
  BY <1>2, SendToLinks DEF SendOutgoing, TypeOK
<1> QED BY <1>1, <1>2 DEF SendOutgoing

\* While datagrams are read every call has an event, and a linked peer is flagged.
LEMMA DatagramLinks ==
    ASSUME LinksInv, phase = "datagram", NEW p \in Peers, Elsewhere(host', host, p),
           LinkedOnce(host'.dispatchQueue), Marked(host', p), ~ Stale(host', p),
           withEvent' = withEvent \/ phase' = "idle"
    PROVE  LinksInv'
  BY LinkStep DEF LinksInv, Early

LEMMA EndWithEvent ==
    ASSUME NEW ev, End(ev)
    PROVE  withEvent' = withEvent \/ phase' = "idle"
  BY DEF End, Return, Goto

LEMMA HandleConnectLinks ==
    ASSUME TypeOK, LinksInv, HandleConnect
    PROVE  LinksInv'
<1>1. PICK p \in Peers, l \in BOOLEAN :
        /\ host.state[p] = "DISCONNECTED"
        /\ host' = Queue([SetLimit(host, p, l) EXCEPT !.state[p] = "ACKNOWLEDGING_CONNECT"],
                         p, "VERIFY_CONNECT")
  BY DEF HandleConnect, FirstFree, Free
<1> DEFINE s == SetLimit(host, p, l)
           k == [s EXCEPT !.state[p] = "ACKNOWLEDGING_CONNECT"]
<1>2. phase = "datagram" /\ withEvent' = withEvent
  BY DEF HandleConnect, Goto
<1>3. /\ s \in HostType /\ s.state = host.state
      /\ s.outgoing = host.outgoing /\ s.unacked = host.unacked /\ s.first = host.first
      /\ s.acknowledgements = host.acknowledgements /\ s.dispatched = host.dispatched
      /\ s.needsDispatch = host.needsDispatch /\ s.dispatchQueue = host.dispatchQueue
  BY SetLimitType, SetLimitEffect DEF TypeOK
<1>4. host' = Queue(k, p, "VERIFY_CONNECT")
  BY <1>1
<1> HIDE DEF s
<1>5. /\ k \in HostType
      /\ k.state = [host.state EXCEPT ![p] = "ACKNOWLEDGING_CONNECT"]
      /\ k.outgoing = host.outgoing /\ k.unacked = host.unacked /\ k.first = host.first
      /\ k.acknowledgements = host.acknowledgements /\ k.dispatched = host.dispatched
      /\ k.needsDispatch = host.needsDispatch /\ k.dispatchQueue = host.dispatchQueue
  BY <1>3 DEF HostType, State
<1> HIDE DEF k
<1>6. Elsewhere(k, host, p)
  BY <1>5 DEF Elsewhere, Untouched, SameLists, SameLinks, TypeOK, HostType
<1>7. /\ Elsewhere(host', k, p) /\ host'.state = k.state
      /\ host'.needsDispatch = k.needsDispatch /\ host'.dispatchQueue = k.dispatchQueue
  BY <1>4, <1>5, QueueEffect
<1>8. Elsewhere(host', host, p)
  BY <1>6, <1>7, ElsewhereTwice
<1>9. p \notin host.needsDispatch /\ p \notin ToSet(host.dispatchQueue)
  BY <1>1, <1>2 DEF LinksInv, Marked, Stale, Early
<1>10. Marked(host', p) /\ ~ Stale(host', p) /\ LinkedOnce(host'.dispatchQueue)
  BY <1>5, <1>7, <1>9 DEF LinksInv, Marked, Stale
<1> QED BY <1>2, <1>8, <1>10, DatagramLinks

\* The state a connection has once it is up, for a slot that is not linked or flagged.
LEMMA NotifyConnectLinks ==
    ASSUME NEW h \in HostType, NEW p \in Peers, LinkedOnce(h.dispatchQueue),
           p \notin ToSet(h.dispatchQueue), p \notin h.needsDispatch
    PROVE  LET g == NotifyConnect(h, p, TRUE)
           IN  /\ Elsewhere(g, h, p) /\ LinkedOnce(g.dispatchQueue)
               /\ Marked(g, p) /\ ~ Stale(g, p)
<1> DEFINE g == NotifyConnect(h, p, TRUE)
<1>1. /\ Elsewhere(g, h, p)
      /\ g.needsDispatch = h.needsDispatch /\ g.dispatchQueue = h.dispatchQueue
  BY NotifyConnectEffect
<1> HIDE DEF g
<1> QED BY <1>1 DEF Marked, Stale, g

LEMMA HandleVerifyConnectLinks ==
    ASSUME TypeOK, SlotsInv, LinksInv, phase = "datagram", NEW p \in Peers,
           HandleVerifyConnect(p)
    PROVE  LinksInv'
<1>1. /\ host \in HostType /\ host.state[p] = "CONNECTING" /\ withEvent = TRUE
      /\ p \notin host.needsDispatch /\ p \notin ToSet(host.dispatchQueue)
      /\ LinkedOnce(host.dispatchQueue)
  BY DEF TypeOK, LinksInv, Marked, Stale, Early, HandleVerifyConnect
<1>2. CASE host' = DispatchState(host, p, "ZOMBIE") /\ End(event)
  BY <1>1, <1>2, ZombieMarked, EndWithEvent, DatagramLinks
<1>3. CASE /\ \E l \in BOOLEAN, h \in Acknowledge(host, p, host.first[p]) :
                 host' = NotifyConnect(SetLimit(h, p, l), p, withEvent)
           /\ Report(ConnectEvent(p))
  <2>1. PICK l \in BOOLEAN, h \in Acknowledge(host, p, host.first[p]) :
               host' = NotifyConnect(SetLimit(h, p, l), p, TRUE)
    BY <1>1, <1>3
  <2> DEFINE k == SetLimit(h, p, l)
  <2>2. /\ h \in HostType /\ k \in HostType
    BY <1>1, AcknowledgeType, SetLimitType
  <2>3. /\ Elsewhere(h, host, p)
        /\ h.needsDispatch = host.needsDispatch /\ h.dispatchQueue = host.dispatchQueue
    BY <1>1, AcknowledgeEffect
  <2>4. /\ k.state = h.state
        /\ k.outgoing = h.outgoing /\ k.unacked = h.unacked /\ k.first = h.first
        /\ k.acknowledgements = h.acknowledgements /\ k.dispatched = h.dispatched
        /\ k.needsDispatch = h.needsDispatch /\ k.dispatchQueue = h.dispatchQueue
    BY <2>2, SetLimitEffect
  <2>5. host' = NotifyConnect(k, p, TRUE)
    BY <2>1
  <2> HIDE DEF k
  <2>6. Elsewhere(k, host, p)
    BY <2>3, <2>4 DEF Elsewhere, Untouched, SameLists, SameLinks
  <2>7. /\ Elsewhere(host', k, p) /\ LinkedOnce(host'.dispatchQueue)
        /\ Marked(host', p) /\ ~ Stale(host', p)
    BY <1>1, <2>2, <2>3, <2>4, <2>5, NotifyConnectLinks
  <2> QED BY <1>3, <2>6, <2>7, ElsewhereTwice, DatagramLinks DEF Report
<1> QED BY <1>2, <1>3 DEF HandleVerifyConnect

LEMMA HandleDisconnectLinks ==
    ASSUME TypeOK, SlotsInv, LinksInv, phase = "datagram", NEW p \in Peers,
           HandleDisconnect(p)
    PROVE  LinksInv'
<1> DEFINE h == ResetQueues(host, p)
           k == ChangeState(h, p, "ACKNOWLEDGING_DISCONNECT")
           g == [k EXCEPT !.acknowledgements = @ \cup {p}]
<1>1. host' \in {DispatchState(h, p, "ZOMBIE"), Reset(h, p), g} /\ withEvent' = withEvent
  BY DEF HandleDisconnect, Continue, Stay
<1>2. h \in HostType
  BY ResetQueuesType DEF TypeOK
<1>3. /\ Elsewhere(h, host, p) /\ p \notin h.needsDispatch
      /\ LinkedOnce(h.dispatchQueue) /\ p \notin ToSet(h.dispatchQueue)
  BY ResetQueuesEffect DEF TypeOK, LinksInv, Stale, Early, Cleared
<1> HIDE DEF h
<1>4. CASE host' = DispatchState(h, p, "ZOMBIE")
  <2>1. /\ Elsewhere(host', h, p) /\ Marked(host', p) /\ ~ Stale(host', p)
        /\ LinkedOnce(host'.dispatchQueue)
    BY <1>2, <1>3, <1>4, ZombieMarked
  <2> QED BY <1>1, <1>3, <2>1, ElsewhereTwice, DatagramLinks
<1>5. CASE host' = Reset(h, p)
  <2>1. /\ Elsewhere(host', h, p) /\ Marked(host', p)
        /\ host'.dispatchQueue = h.dispatchQueue
    BY <1>2, <1>5, ResetMarked
  <2>2. ~ Stale(host', p)
    BY <1>3, <2>1 DEF Stale
  <2> QED BY <1>1, <1>3, <2>1, <2>2, ElsewhereTwice, DatagramLinks
<1>6. CASE host' = g
  <2>1. /\ k \in HostType /\ Elsewhere(k, h, p)
        /\ k.needsDispatch = h.needsDispatch /\ k.dispatchQueue = h.dispatchQueue
    BY <1>2, ChangeStateType, ChangeStateEffect DEF State
  <2> HIDE DEF k
  <2>2. /\ g.state = k.state
        /\ g.outgoing = k.outgoing /\ g.unacked = k.unacked /\ g.first = k.first
        /\ g.acknowledgements = k.acknowledgements \cup {p} /\ g.dispatched = k.dispatched
        /\ g.needsDispatch = k.needsDispatch /\ g.dispatchQueue = k.dispatchQueue
    BY <2>1 DEF HostType
  <2> HIDE DEF g
  <2>3. Elsewhere(g, k, p)
    BY <2>2 DEF Elsewhere, Untouched, SameLists, SameLinks
  <2>4. Marked(g, p) /\ ~ Stale(g, p) /\ LinkedOnce(g.dispatchQueue)
    BY <1>3, <2>1, <2>2 DEF Marked, Stale
  <2>5. Elsewhere(g, host, p)
    BY <1>3, <2>1, <2>3, ElsewhereTwice
  <2> QED BY <1>1, <1>6, <2>4, <2>5, DatagramLinks
<1> QED BY <1>1, <1>4, <1>5, <1>6

LEMMA HandleAcknowledgeLinks ==
    ASSUME TypeOK, SlotsInv, LinksInv, phase = "datagram", NEW p \in Peers, NEW c,
           HandleAcknowledge(p, c)
    PROVE  LinksInv'
<1>1. PICK h \in Acknowledge(host, p, c) :
        \/ host' = h /\ End(event)
        \/ /\ h.state[p] = "ACKNOWLEDGING_CONNECT"
           /\ host' = NotifyConnect(h, p, withEvent) /\ withEvent' = withEvent
        \/ /\ h.state[p] = "DISCONNECTING"
           /\ host' = NotifyDisconnect(h, p, withEvent) /\ withEvent' = withEvent
        \/ host' = FinishDisconnectLater(h, p) /\ withEvent' = withEvent
  BY DEF HandleAcknowledge, Continue, Report, Stay
<1>2. /\ host \in HostType /\ Marked(host, p) /\ ~ Stale(host, p)
      /\ LinkedOnce(host.dispatchQueue) /\ withEvent = TRUE
  BY DEF TypeOK, LinksInv, Early
<1>3. /\ h \in HostType /\ Elsewhere(h, host, p) /\ h.state = host.state
      /\ h.needsDispatch = host.needsDispatch /\ h.dispatchQueue = host.dispatchQueue
  BY <1>2, AcknowledgeType, AcknowledgeEffect
<1>4. Marked(h, p) /\ ~ Stale(h, p) /\ LinkedOnce(h.dispatchQueue)
  BY <1>2, <1>3 DEF Marked, Stale
<1>5. CASE host' = h /\ End(event)
  BY <1>3, <1>4, <1>5, EndWithEvent, DatagramLinks
<1>6. CASE /\ h.state[p] = "ACKNOWLEDGING_CONNECT"
           /\ host' = NotifyConnect(h, p, withEvent) /\ withEvent' = withEvent
  <2>1. p \notin h.needsDispatch /\ p \notin ToSet(h.dispatchQueue)
    BY <1>4, <1>6 DEF Marked, Stale
  <2>2. /\ Elsewhere(host', h, p) /\ LinkedOnce(host'.dispatchQueue)
        /\ Marked(host', p) /\ ~ Stale(host', p)
    BY <1>2, <1>3, <1>4, <1>6, <2>1, NotifyConnectLinks
  <2> QED BY <1>3, <1>6, <2>2, ElsewhereTwice, DatagramLinks
<1>7. CASE /\ h.state[p] = "DISCONNECTING"
           /\ host' = NotifyDisconnect(h, p, withEvent) /\ withEvent' = withEvent
  <2>1. p \notin ToSet(h.dispatchQueue)
    BY <1>4, <1>7 DEF Marked, Stale
  <2>2. host' = Reset(h, p)
    BY <1>2, <1>7 DEF NotifyDisconnect
  <2>3. /\ Elsewhere(host', h, p) /\ Marked(host', p)
        /\ host'.dispatchQueue = h.dispatchQueue
    BY <1>3, <2>2, ResetMarked
  <2>4. ~ Stale(host', p)
    BY <2>1, <2>3 DEF Stale
  <2> QED BY <1>3, <1>4, <1>7, <2>3, <2>4, ElsewhereTwice, DatagramLinks
<1>8. CASE host' = FinishDisconnectLater(h, p) /\ withEvent' = withEvent
  <2>1. CASE host' = h
    BY <1>3, <1>4, <1>8, <2>1, DatagramLinks
  <2>2. CASE host' = BeginDisconnect(h, p) /\ h.state[p] = "DISCONNECT_LATER"
    <3>1. /\ Elsewhere(host', h, p) /\ LinkedOnce(host'.dispatchQueue)
          /\ Marked(host', p) /\ ~ Stale(host', p)
      BY <1>3, <1>4, <2>2, BeginDisconnectEffect, DisconnectingMarked DEF Active
    <3> QED BY <1>3, <1>8, <3>1, ElsewhereTwice, DatagramLinks
  <2> QED BY <1>8, <2>1, <2>2 DEF FinishDisconnectLater
<1> QED BY <1>1, <1>5, <1>6, <1>7, <1>8

LEMMA OtherCommandLinks ==
    ASSUME TypeOK, LinksInv, phase = "datagram", NEW p \in Peers,
           HandleBandwidthLimit(p) \/ HandlePacket(p)
    PROVE  LinksInv'
<1>1. CASE HandleBandwidthLimit(p)
  <2>1. PICK l \in BOOLEAN :
          \E n : host' = [SetLimit(host, p, l) EXCEPT !.bandwidthLimitedPeers = n]
    BY <1>1 DEF HandleBandwidthLimit
  <2>2. /\ host'.state = host.state /\ host'.dispatchQueue = host.dispatchQueue
        /\ host'.needsDispatch = host.needsDispatch
    BY <2>1 DEF SetLimit, TypeOK, HostType
  <2> QED BY <1>1, <2>2, LinkQuiet DEF HandleBandwidthLimit, Continue, Stay, LinksInv
<1>2. CASE HandlePacket(p)
  <2> DEFINE k == [host EXCEPT !.dispatched = @ \cup {p}]
  <2>1. /\ k \in HostType
        /\ k.state = host.state
        /\ k.outgoing = host.outgoing /\ k.unacked = host.unacked /\ k.first = host.first
        /\ k.acknowledgements = host.acknowledgements
        /\ k.dispatched = host.dispatched \cup {p}
        /\ k.needsDispatch = host.needsDispatch /\ k.dispatchQueue = host.dispatchQueue
    BY DEF TypeOK, HostType
  <2>2. /\ host' = NeedsDispatch(k, p) /\ host.state[p] \in Active
        /\ withEvent' = withEvent
    BY <1>2 DEF HandlePacket, Continue, Stay
  <2> HIDE DEF k
  <2>3. /\ Elsewhere(host', k, p) /\ host'.state[p] \in Active
        /\ p \in host'.needsDispatch /\ LinkedOnce(host'.dispatchQueue)
    BY <2>1, <2>2, NeedsDispatchEffect DEF LinksInv, Stale, Early
  <2>4. Elsewhere(k, host, p)
    BY <2>1 DEF Elsewhere, Untouched, SameLists, SameLinks
  <2>5. Marked(host', p) /\ ~ Stale(host', p)
    BY <2>3 DEF Marked, Stale, Active
  <2> QED BY <2>2, <2>3, <2>4, <2>5, ElsewhereTwice, DatagramLinks
<1> QED BY <1>1, <1>2

LEMMA HandleIncomingLinks ==
    ASSUME TypeOK, SlotsInv, LinksInv, HandleIncoming
    PROVE  LinksInv'
<1>1. CASE HandleConnect
  BY <1>1, HandleConnectLinks
<1>2. CASE phase = "datagram" /\ current \in Peers /\ HandleCommand(current)
  BY <1>2, HandleVerifyConnectLinks, HandleDisconnectLinks, HandleAcknowledgeLinks,
     OtherCommandLinks DEF HandleCommand
<1> QED BY <1>1, <1>2 DEF HandleIncoming, TypeOK

LEMMA OtherStepLinks ==
    ASSUME LinksInv,
           \/ \E p \in Peers \cup {NoPeer} : ReceiveDatagram(p)
           \/ ReceiveDone \/ ReceiveFailed \/ EndDatagram \/ Wait
    PROVE  LinksInv'
<1>1. /\ host' = host /\ phase \in {"receive", "datagram", "wait"}
      /\ withEvent' = withEvent \/ phase' = "idle"
  BY DEF ReceiveDatagram, ReceiveDone, ReceiveFailed, EndDatagram, End, Wait, Return, Goto
<1> QED BY <1>1, LinkQuiet DEF LinksInv, Early

LEMMA InitLinks == Init => LinksInv
<1> SUFFICES ASSUME Init PROVE LinksInv
  OBVIOUS
<1>1. Len(host.dispatchQueue) = 0 /\ host.dispatchQueue \in Seq(Peers)
  BY EmptySeq DEF Init
<1>2. LinkedOnce(host.dispatchQueue) /\ \A p \in Peers : p \notin ToSet(host.dispatchQueue)
  BY <1>1, ToSetOf DEF LinkedOnce
<1> QED BY <1>2 DEF Init, LinksInv, Marked, Stale

\* As long as every call asks for an event: no peer's one node is linked twice, and a
\* flagged peer is linked.  With event == NULL it can be (see the run null_event).
THEOREM QueueIsList == ASSUME FALSE \notin EventModes PROVE Spec => []QueuedOnce
<1>1. TypeOK /\ SlotsInv /\ LinksInv /\ [Next]_vars => LinksInv'
  <2> SUFFICES ASSUME TypeOK, SlotsInv, LinksInv, [Next]_vars PROVE LinksInv'
    OBVIOUS
  <2>1. CASE AppCall
    BY <2>1, AppCallLinks
  <2>2. CASE DispatchIncoming
    BY <2>2, DispatchIncomingLinks
  <2>3. CASE ThrottlePhase
    BY <2>3, ThrottlePhaseLinks
  <2>4. CASE SendOutgoing
    BY <2>4, SendOutgoingLinks
  <2>5. CASE HandleIncoming
    BY <2>5, HandleIncomingLinks
  <2>6. CASE \/ \E p \in Peers \cup {NoPeer} : ReceiveDatagram(p)
             \/ ReceiveDone \/ ReceiveFailed \/ EndDatagram \/ Wait
    BY <2>6, OtherStepLinks
  <2>7. CASE UNCHANGED vars
    BY <2>7, LinkQuiet DEF vars, LinksInv
  <2> QED BY <2>1, <2>2, <2>3, <2>4, <2>5, <2>6, <2>7 DEF Next
<1>2. TypeOK /\ SlotsInv /\ LinksInv => QueuedOnce
  BY DEF SlotsInv, LinksInv, QueuedOnce, LinkedOnce, Kept, TypeOK, HostType
<1> QED BY <1>1, <1>2, InitLinks, SlotsCorrect, TypeCorrect, PTL DEF Spec

\* A walk over a list that holds no node twice meets all its nodes.
LEMMA AllReached ==
    ASSUME NEW q \in Seq(Peers), LinkedOnce(q), NEW r \in ToSet(q)
    PROVE  r \in Reached(q)
<1>1. PICK j \in 1 .. Len(q) : q[j] = r
  BY ToSetOf
<1>2. ASSUME NEW k \in 1 .. j - 1, NEW l \in j + 1 .. Len(q) PROVE q[k] # q[l]
  <2>1. k \in 1 .. Len(q) /\ l \in 1 .. Len(q) /\ k # l
    BY LenProperties
  <2> QED BY <2>1 DEF LinkedOnce
<1> QED BY <1>1, <1>2 DEF Reached

\* A peer with something to report is in dispatchQueue, whether events are asked
\* for or not; the walk meets it while no node was linked twice.
LEMMA ReportedUnlessTwice ==
    ASSUME TypeOK, SlotsInv, LinkedOnce(host.dispatchQueue)
    PROVE  NoLostEvent
<1>1. host.dispatchQueue \in Seq(Peers)
  BY DEF TypeOK, HostType
<1>2. \A r \in ToSet(host.dispatchQueue) : r \in Reached(host.dispatchQueue)
  BY <1>1, AllReached
<1> QED BY <1>2 DEF SlotsInv, NoLostEvent, Attended, Waiting

\* As long as every call asks for an event: a peer that has something to report is
\* where the walk over the dispatch queue meets it.  With event == NULL the run
\* null_event shows one that is not.
THEOREM EventsQueued == ASSUME FALSE \notin EventModes PROVE Spec => []NoLostEvent
<1>1. TypeOK /\ SlotsInv /\ QueuedOnce => NoLostEvent
  BY ReportedUnlessTwice DEF QueuedOnce
<1> QED BY <1>1, QueueIsList, SlotsCorrect, TypeCorrect, PTL

\* With event == NULL too, an event is lost only through a node that is linked twice:
\* until there is one, what is to be reported is met.
THEOREM LostOnlyByDoubleLink == Spec => [](LinkedOnce(host.dispatchQueue) => NoLostEvent)
<1>1. TypeOK /\ SlotsInv => (LinkedOnce(host.dispatchQueue) => NoLostEvent)
  BY ReportedUnlessTwice
<1> QED BY <1>1, SlotsCorrect, TypeCorrect, PTL

-----------------------------------------------------------------------------
(* The event of a datagram.                                                *)

\* The states in which no command of a remote host produces an event.
Told == {"CONNECTED", "ACKNOWLEDGING_DISCONNECT", "ZOMBIE", "DISCONNECTED"}

\* Inside a call an event exists only while the rest of the datagram is read that
\* produced it, and the peer it came from has left the states that produce one.
OneEvent ==
    phase # "idle" /\ event.type # "NONE" =>
        /\ phase = "datagram"
        /\ current \in Peers
        /\ host.state[current] \in Told

-----------------------------------------------------------------------------
(* The state of a peer after the functions that change it.                 *)

LEMMA OnConnectState ==
    ASSUME NEW h \in HostType, NEW p \in Peers
    PROVE  OnConnect(h, p).state = h.state /\ OnDisconnect(h, p).state = h.state
  BY DEF OnConnect, OnDisconnect, HostType

LEMMA ChangeStateState ==
    ASSUME NEW h \in HostType, NEW p \in Peers, NEW s \in State
    PROVE  ChangeState(h, p, s).state[p] = s
<1> DEFINE c == OnConnect(h, p)
           d == OnDisconnect(h, p)
<1>1. c \in HostType /\ d \in HostType
  BY OnConnectType, OnDisconnectType
<1> HIDE DEF c, d
<1>2. [c EXCEPT !.state[p] = s].state[p] = s /\ [d EXCEPT !.state[p] = s].state[p] = s
  BY <1>1 DEF HostType
<1> QED BY <1>2 DEF ChangeState, c, d

LEMMA DispatchStateState ==
    ASSUME NEW h \in HostType, NEW p \in Peers, NEW s \in State
    PROVE  DispatchState(h, p, s).state[p] = s
<1> DEFINE k == ChangeState(h, p, s)
<1>1. k \in HostType /\ k.state[p] = s
  BY ChangeStateType, ChangeStateState
<1> HIDE DEF k
<1>2. NeedsDispatch(k, p).state = k.state
  BY <1>1 DEF NeedsDispatch, HostType
<1> QED BY <1>1, <1>2 DEF DispatchState, k

LEMMA ResetQueuesState ==
    ASSUME NEW h \in HostType, NEW p \in Peers
    PROVE  ResetQueues(h, p).state = h.state
  BY DEF ResetQueues, HostType

LEMMA ResetState ==
    ASSUME NEW h \in HostType, NEW p \in Peers
    PROVE  Reset(h, p).state[p] = "DISCONNECTED"
<1> DEFINE d == OnDisconnect(h, p)
           g == [d EXCEPT !.state[p] = "DISCONNECTED",
                          !.limited = @ \ {p},
                          !.first[p] = "NONE",
                          !.needsDispatch = @ \ {p}]
<1>1. d \in HostType
  BY OnDisconnectType
<1> HIDE DEF d
<1>2. g \in HostType /\ g.state[p] = "DISCONNECTED"
  BY <1>1 DEF HostType, State
<1> HIDE DEF g
<1>3. ResetQueues(g, p).state[p] = "DISCONNECTED"
  BY <1>2, ResetQueuesState
<1> QED BY <1>3 DEF Reset, g, d

LEMMA AcknowledgeState ==
    ASSUME NEW h \in HostType, NEW p \in Peers, NEW c, NEW g \in Acknowledge(h, p, c)
    PROVE  g.state = h.state
  BY DEF Acknowledge, HostType

-----------------------------------------------------------------------------
(* The commands of a datagram.                                             *)

\* A step of the datagram that leaves the event alone.
LEMMA StayKeeps ==
    ASSUME OneEvent, phase = "datagram", Stay,
           event.type # "NONE" => host'.state[current] \in Told
    PROVE  OneEvent' /\ event' = event
  BY DEF OneEvent, Stay

\* Leaving the datagram, by the return of its event if there is one.
LEMMA EndKeeps ==
    ASSUME OneEvent, phase = "datagram", End(event)
    PROVE  OneEvent' /\ event' = event
<1>1. CASE event.type # "NONE"
  BY <1>1 DEF End, Return, OneEvent
<1>2. CASE event.type = "NONE"
  BY <1>2 DEF End, Goto, OneEvent
<1> QED BY <1>1, <1>2

LEMMA HandleConnectKeeps ==
    ASSUME OneEvent, HandleConnect
    PROVE  OneEvent' /\ event' = event
<1>1. current \notin Peers
  BY PeerCountAssumption DEF HandleConnect, NoPeer, Peers
<1>2. event.type = "NONE"
  BY <1>1 DEF OneEvent, HandleConnect
<1> QED BY <1>2 DEF HandleConnect, Goto, OneEvent

LEMMA HandleVerifyConnectKeeps ==
    ASSUME TypeOK, OneEvent, phase = "datagram", current \in Peers,
           HandleVerifyConnect(current)
    PROVE  OneEvent' /\ (event.type # "NONE" => event' = event)
<1>1. event.type = "NONE"
  BY DEF OneEvent, HandleVerifyConnect, Told
<1>2. CASE End(event)
  BY <1>2, EndKeeps
<1>3. CASE /\ \E l \in BOOLEAN, h \in Acknowledge(host, current, host.first[current]) :
                 host' = NotifyConnect(SetLimit(h, current, l), current, withEvent)
           /\ Report(ConnectEvent(current))
  <2>1. PICK h \in HostType : host' = NotifyConnect(h, current, withEvent)
    BY <1>3, AcknowledgeType, SetLimitType DEF TypeOK
  <2>2. CASE withEvent
    <3>1. host'.state[current] \in Told
      BY <2>1, <2>2, ChangeStateState DEF NotifyConnect, State, Told
    <3> QED BY <1>1, <1>3, <3>1 DEF Report, OneEvent
  <2>3. CASE ~ withEvent
    BY <1>1, <1>3, <2>3 DEF Report, ConnectEvent, OneEvent
  <2> QED BY <2>2, <2>3
<1> QED BY <1>1, <1>2, <1>3 DEF HandleVerifyConnect

LEMMA HandleDisconnectKeeps ==
    ASSUME TypeOK, OneEvent, phase = "datagram", current \in Peers,
           HandleDisconnect(current)
    PROVE  OneEvent' /\ event' = event
<1> DEFINE h == ResetQueues(host, current)
           k == ChangeState(h, current, "ACKNOWLEDGING_DISCONNECT")
           g == [k EXCEPT !.acknowledgements = @ \cup {current}]
<1>1. h \in HostType
  BY ResetQueuesType DEF TypeOK
<1> HIDE DEF h
<1>2. k \in HostType /\ k.state[current] = "ACKNOWLEDGING_DISCONNECT"
  BY <1>1, ChangeStateType, ChangeStateState DEF State
<1> HIDE DEF k
<1>3. g.state[current] = "ACKNOWLEDGING_DISCONNECT"
  BY <1>2 DEF HostType
<1> HIDE DEF g
<1>4. /\ DispatchState(h, current, "ZOMBIE").state[current] = "ZOMBIE"
      /\ Reset(h, current).state[current] = "DISCONNECTED"
  BY <1>1, DispatchStateState, ResetState DEF State
<1>5. host' \in {DispatchState(h, current, "ZOMBIE"), Reset(h, current), g} /\ Stay
  BY DEF HandleDisconnect, Continue, h, k, g
<1>6. host'.state[current] \in Told
  BY <1>3, <1>4, <1>5 DEF Told
<1> QED BY <1>5, <1>6, StayKeeps

LEMMA HandleAcknowledgeKeeps ==
    ASSUME TypeOK, OneEvent, phase = "datagram", current \in Peers, NEW c,
           HandleAcknowledge(current, c)
    PROVE  OneEvent' /\ (event.type # "NONE" => event' = event)
<1> DEFINE p == current
           told == [type |-> "DISCONNECT", peer |-> p]
<1>1. PICK h \in Acknowledge(host, p, c) :
        \/ host' = h /\ End(event)
        \/ /\ h.state[p] = "ACKNOWLEDGING_CONNECT"
           /\ host' = NotifyConnect(h, p, withEvent)
           /\ Report(ConnectEvent(p))
        \/ /\ h.state[p] = "DISCONNECTING"
           /\ host' = NotifyDisconnect(h, p, withEvent)
           /\ Report(IF withEvent THEN told ELSE event)
        \/ /\ h.state[p] \notin {"ACKNOWLEDGING_CONNECT", "DISCONNECTING"}
           /\ host' = FinishDisconnectLater(h, p)
           /\ Stay
  BY DEF HandleAcknowledge, Continue
<1>2. h \in HostType /\ h.state = host.state /\ p \in Peers
  BY <1>1, AcknowledgeType, AcknowledgeState DEF TypeOK
<1>3. event.type # "NONE" => host.state[p] \in Told
  BY DEF OneEvent
<1> HIDE DEF p, told
<1>4. CASE End(event)
  BY <1>4, EndKeeps
<1>5. CASE /\ h.state[p] = "ACKNOWLEDGING_CONNECT"
           /\ host' = NotifyConnect(h, p, withEvent)
           /\ Report(ConnectEvent(p))
  <2>1. event.type = "NONE"
    BY <1>2, <1>3, <1>5 DEF Told
  <2>2. withEvent => host'.state[p] = "CONNECTED"
    BY <1>2, <1>5, ChangeStateState DEF NotifyConnect, State
  <2> QED BY <1>2, <1>5, <2>1, <2>2 DEF Report, ConnectEvent, OneEvent, Told, p
<1>6. CASE /\ h.state[p] = "DISCONNECTING"
           /\ host' = NotifyDisconnect(h, p, withEvent)
           /\ Report(IF withEvent THEN told ELSE event)
  <2>1. event.type = "NONE"
    BY <1>2, <1>3, <1>6 DEF Told
  <2>2. withEvent => host'.state[p] = "DISCONNECTED"
    BY <1>2, <1>6, ResetState DEF NotifyDisconnect
  <2> QED BY <1>2, <1>6, <2>1, <2>2 DEF Report, OneEvent, Told, p
<1>7. CASE host' = FinishDisconnectLater(h, p) /\ Stay
  <2>1. host.state[p] \in Told => host' = h
    BY <1>2, <1>7 DEF FinishDisconnectLater, Told
  <2>2. event.type # "NONE" => host'.state[p] \in Told
    BY <1>2, <1>3, <2>1
  <2> QED BY <1>7, <2>2, StayKeeps DEF p
<1> QED BY <1>1, <1>4, <1>5, <1>6, <1>7

\* The other commands leave the states alone.
LEMMA OtherCommandKeeps ==
    ASSUME TypeOK, OneEvent, phase = "datagram", current \in Peers,
           HandleBandwidthLimit(current) \/ HandlePacket(current)
    PROVE  OneEvent' /\ event' = event
<1>1. CASE HandleBandwidthLimit(current)
  <2>1. PICK l \in BOOLEAN :
          \E n : host' = [SetLimit(host, current, l) EXCEPT !.bandwidthLimitedPeers = n]
    BY <1>1 DEF HandleBandwidthLimit
  <2>2. host'.state = host.state
    BY <2>1 DEF SetLimit, TypeOK, HostType
  <2> QED BY <1>1, <2>2, StayKeeps DEF HandleBandwidthLimit, Continue, OneEvent
<1>2. CASE HandlePacket(current)
  <2>1. host'.state = host.state
    BY <1>2 DEF HandlePacket, NeedsDispatch, TypeOK, HostType
  <2> QED BY <1>2, <2>1, StayKeeps DEF HandlePacket, Continue, OneEvent
<1> QED BY <1>1, <1>2

LEMMA HandleIncomingKeeps ==
    ASSUME TypeOK, OneEvent, HandleIncoming
    PROVE  OneEvent' /\ (event.type # "NONE" => event' = event)
<1>1. CASE HandleConnect
  BY <1>1, HandleConnectKeeps
<1>2. CASE phase = "datagram" /\ current \in Peers /\ HandleCommand(current)
  BY <1>2, HandleVerifyConnectKeeps, HandleDisconnectKeeps, HandleAcknowledgeKeeps,
     OtherCommandKeeps DEF HandleCommand
<1> QED BY <1>1, <1>2 DEF HandleIncoming, TypeOK

-----------------------------------------------------------------------------
(* Everything else happens outside of a datagram, where there is no event. *)

LEMMA AppCallKeeps ==
    ASSUME AppCall
    PROVE  OneEvent' /\ phase = "idle"
<1>1. \/ phase = "idle" /\ phase' = "idle"
      \/ phase = "idle" /\ event' = NoEvent
  BY DEF AppCall, Connect, BandwidthThrottle, Flush, CheckEvents, Service, Broadcast,
         Send, Ping, ConfigureThrottle, Disconnect, DisconnectLater, DisconnectNow,
         ResetPeer, Call, GiveUp, Enter
<1> QED BY <1>1 DEF OneEvent, NoEvent

\* Outside of a datagram a call goes on without an event or returns.
LEMMA PhaseKeeps ==
    ASSUME OneEvent, phase \notin {"idle", "datagram"},
           \/ phase' = "idle"
           \/ event' = event
    PROVE  OneEvent'
  BY DEF OneEvent

LEMMA OtherStepKeeps ==
    ASSUME OneEvent,
           \/ DispatchIncoming \/ ThrottlePhase \/ SendOutgoing
           \/ \E p \in Peers \cup {NoPeer} : ReceiveDatagram(p)
           \/ ReceiveDone \/ ReceiveFailed \/ Wait
    PROVE  OneEvent' /\ phase # "datagram"
<1>1. phase \notin {"idle", "datagram"}
  BY DEF DispatchIncoming, Dispatching, ThrottlePhase, SendOutgoing, Sending,
         ReceiveDatagram, ReceiveDone, ReceiveFailed, Wait
<1>2. CASE DispatchIncoming
  BY <1>1, <1>2, PhaseKeeps DEF DispatchIncoming, Dispatching, Dispatch, Return, Stay, Goto
<1>3. CASE SendOutgoing
  BY <1>1, <1>3, PhaseKeeps
     DEF SendOutgoing, Sending, SendDone, SendTo, SkipPeer, TimeOut, Return, Goto
<1>4. CASE \/ ThrottlePhase
           \/ \E p \in Peers \cup {NoPeer} : ReceiveDatagram(p)
           \/ ReceiveDone \/ ReceiveFailed \/ Wait
  BY <1>1, <1>4, PhaseKeeps
     DEF ThrottlePhase, ReceiveDatagram, ReceiveDone, ReceiveFailed, Wait, Return, Goto
<1> QED BY <1>1, <1>2, <1>3, <1>4

LEMMA StepKeeps ==
    ASSUME TypeOK, OneEvent, [Next]_vars
    PROVE  OneEvent' /\ (phase = "datagram" /\ event.type # "NONE" => event' = event)
<1>1. CASE AppCall
  BY <1>1, AppCallKeeps
<1>2. CASE HandleIncoming
  BY <1>2, HandleIncomingKeeps
<1>3. CASE EndDatagram
  BY <1>3, EndKeeps DEF EndDatagram
<1>4. CASE \/ DispatchIncoming \/ ThrottlePhase \/ SendOutgoing
           \/ \E p \in Peers \cup {NoPeer} : ReceiveDatagram(p)
           \/ ReceiveDone \/ ReceiveFailed \/ Wait
  BY <1>4, OtherStepKeeps
<1>5. CASE UNCHANGED vars
  BY <1>5 DEF vars, OneEvent
<1> QED BY <1>1, <1>2, <1>3, <1>4, <1>5 DEF Next

\* However many peers there are, no command behind the one that produced an event
\* replaces it: the call returns the event the peer's state stands for.
THEOREM EventsKept == Spec => EventKept
<1>1. Init => OneEvent
  BY DEF Init, OneEvent
<1>2. TypeOK /\ OneEvent /\ [Next]_vars => OneEvent'
  BY StepKeeps
<1>3. TypeOK /\ OneEvent /\ [Next]_vars
      => [phase = "datagram" /\ event.type # "NONE" => event' = event]_vars
  BY StepKeeps
<1> QED BY <1>1, <1>2, <1>3, TypeCorrect, PTL DEF Spec, EventKept

-----------------------------------------------------------------------------
(* What the application knows of a slot, with the event that is about to be *)
(* returned counted in, fits the state of the peer at every step.           *)

Fits(s, v) ==
    \/ v = "CONNECTING" /\ s \in {"CONNECTING", "CONNECTION_SUCCEEDED", "ZOMBIE"}
    \/ v = "CONNECTED" /\ s \in {"CONNECTED", "ACKNOWLEDGING_DISCONNECT", "ZOMBIE"}
    \/ v = "CLOSING" /\ s \in {"DISCONNECT_LATER", "DISCONNECTING",
                               "ACKNOWLEDGING_DISCONNECT", "ZOMBIE"}
    \/ v \in {"FREE", "ABANDONED"}
       /\ s \in {"DISCONNECTED", "ACKNOWLEDGING_CONNECT", "CONNECTION_PENDING"}

\* The views after which an event of the type may come, and the one it leads to.
Before(type) == CASE type = "CONNECT"    -> {"FREE", "ABANDONED", "CONNECTING"}
                  [] type = "RECEIVE"    -> {"CONNECTED"}
                  [] type = "DISCONNECT" -> {"CONNECTING", "CONNECTED", "CLOSING"}
                  [] OTHER               -> {}

Learns(v, type) == CASE type = "CONNECT"    -> "CONNECTED"
                     [] type = "DISCONNECT" -> "FREE"
                     [] OTHER               -> v

\* The event is none, or one the application is ready for.
Due(ev) ==
    \/ ev = NoEvent
    \/ ev \in Event /\ ev.peer \in Peers /\ app[ev.peer] \in Before(ev.type)

Known(p) == IF phase # "idle" /\ event.peer = p THEN Learns(app[p], event.type) ELSE app[p]

ViewInv ==
    /\ \A p \in Peers \ {closing} : Fits(host.state[p], Known(p))
    /\ phase # "idle" => Due(event)
    /\ closing # NoPeer => app[closing] \in {"FREE", "ABANDONED"}

\* The application's part of a step is one of PeerLifecycle's.
Promised == [Lifecycle!Next]_<<app, IF phase = "idle" THEN event ELSE NoEvent>>

\* Outside of a datagram no event is on its way.
LEMMA NothingOnItsWay ==
    ASSUME OneEvent, ViewInv, phase # "datagram" \/ event.type = "NONE"
    PROVE  /\ phase # "idle" => event = NoEvent
           /\ \A p \in Peers : Known(p) = app[p]
  BY PeerCountAssumption DEF OneEvent, ViewInv, Due, Before, Known, NoEvent, Learns, Peers, NoPeer

\* A call returns an event that is due, and the application takes note of it.
LEMMA ReturnPromised ==
    ASSUME app \in [Peers -> View], phase # "idle", NEW ev, Due(ev), Return(ev)
    PROVE  /\ Promised
           /\ \A q \in Peers :
                 app'[q] = IF q = ev.peer THEN Learns(app[q], ev.type) ELSE app[q]
<1>1. CASE ev = NoEvent
  <2>1. app' = app /\ event' = NoEvent /\ phase' = "idle"
    BY <1>1 DEF Return, NoEvent
  <2>2. Lifecycle!Quiet
    BY <2>1 DEF Lifecycle!Quiet, Lifecycle!NoEvent, NoEvent
  <2> QED BY <1>1, <2>1, <2>2 DEF Promised, Lifecycle!Next, Learns, NoEvent
<1>2. ASSUME ev \in Event, ev.peer \in Peers, app[ev.peer] \in Before(ev.type)
      PROVE  /\ Lifecycle!Next /\ phase' = "idle" /\ event' = ev
             /\ app' = [app EXCEPT ![ev.peer] = Learns(@, ev.type)]
  <2> DEFINE p == ev.peer
  <2>1. /\ event' = ev /\ phase' = "idle"
        /\ ev = [type |-> ev.type, peer |-> p]
    BY <1>2 DEF Return, Event
  <2>2. CASE ev.type = "CONNECT"
    <3>1. app' = [app EXCEPT ![p] = "CONNECTED"]
      BY <2>2 DEF Return
    <3>2. Lifecycle!ReportConnect(p)
      BY <1>2, <2>1, <2>2, <3>1
         DEF Before, Lifecycle!ReportConnect, Lifecycle!Report
    <3> QED BY <1>2, <2>1, <2>2, <3>1, <3>2 DEF Lifecycle!Next, Learns
  <2>3. CASE ev.type = "DISCONNECT"
    <3>1. app' = [app EXCEPT ![p] = "FREE"]
      BY <2>3 DEF Return
    <3>2. Lifecycle!ReportDisconnect(p)
      BY <1>2, <2>1, <2>3, <3>1
         DEF Before, Lifecycle!ReportDisconnect, Lifecycle!Report
    <3> QED BY <1>2, <2>1, <2>3, <3>1, <3>2 DEF Lifecycle!Next, Learns
  <2>4. CASE ev.type = "RECEIVE"
    <3>1. app' = app /\ app[p] = "CONNECTED"
      BY <1>2, <2>4 DEF Return, Before
    <3>2. app = [app EXCEPT ![p] = "CONNECTED"] /\ app = [app EXCEPT ![p] = app[p]]
      BY <3>1
    <3>3. Lifecycle!ReportReceive(p)
      BY <2>1, <2>4, <3>1, <3>2 DEF Lifecycle!ReportReceive, Lifecycle!Report
    <3> QED BY <1>2, <2>1, <2>4, <3>1, <3>2, <3>3 DEF Lifecycle!Next, Learns
  <2> QED BY <1>2, <2>2, <2>3, <2>4 DEF Before
<1> QED BY <1>1, <1>2 DEF Due, Promised

\* A call that returns no event.
LEMMA AskPromised ==
    ASSUME NEW p \in Peers, NEW v, app' = [app EXCEPT ![p] = v],
           (IF phase = "idle" THEN event ELSE NoEvent)' = NoEvent,
           \/ v = "CONNECTING" /\ app[p] \in {"FREE", "ABANDONED"}
           \/ v = "CLOSING" /\ app[p] \in {"CONNECTED", "CLOSING"}
           \/ v = "ABANDONED" /\ app[p] = "CONNECTING"
           \/ v = "FREE" /\ app[p] \in View
    PROVE  Promised
<1>1. \/ Lifecycle!Request(p) \/ Lifecycle!Close(p)
      \/ Lifecycle!Abandon(p) \/ Lifecycle!Release(p)
  BY DEF Lifecycle!Request, Lifecycle!Close, Lifecycle!Abandon, Lifecycle!Release,
         Lifecycle!Ask, Lifecycle!NoEvent, Lifecycle!View, NoEvent, View
<1> QED BY <1>1 DEF Promised, Lifecycle!Next

\* The application is told nothing.
LEMMA QuietPromised ==
    ASSUME app' = app, phase' = "idle" => event' = NoEvent
    PROVE  Promised
<1>1. Lifecycle!Quiet
  BY DEF Lifecycle!Quiet, Lifecycle!NoEvent, NoEvent
<1> QED BY <1>1 DEF Promised, Lifecycle!Next

-----------------------------------------------------------------------------
(* A step is about one slot, the application's knowledge of it included.    *)

LEMMA ViewStep ==
    ASSUME ViewInv, NEW p \in Peers, Elsewhere(host', host, p),
           p # closing' => Fits(host'.state[p], Known(p)'),
           \A q \in Peers \ {p} : Known(q)' = Known(q),
           closing \in {p, closing', NoPeer},
           closing' # NoPeer => app'[closing'] \in {"FREE", "ABANDONED"},
           phase' # "idle" => Due(event)'
    PROVE  ViewInv'
<1>1. \A q \in Peers \ {p} : host'.state[q] = host.state[q]
  BY DEF Elsewhere, Untouched
<1>2. \A q \in Peers \ {closing'} : Fits(host'.state[q], Known(q)')
  BY <1>1, PeerCountAssumption DEF ViewInv, Peers, NoPeer
<1> QED BY <1>2 DEF ViewInv

LEMMA ViewQuiet ==
    ASSUME ViewInv, host'.state = host.state,
           \A q \in Peers : Known(q)' = Known(q),
           closing \in {closing', NoPeer},
           closing' # NoPeer => app'[closing'] \in {"FREE", "ABANDONED"},
           phase' # "idle" => Due(event)'
    PROVE  ViewInv'
  BY PeerCountAssumption DEF ViewInv, Peers, NoPeer

-----------------------------------------------------------------------------
(* The calls of the application.                                           *)

\* Nothing is on its way once the event is none, or the call is over.
LEMMA KnownIsApp ==
    /\ phase = "idle" \/ event = NoEvent => \A q \in Peers : Known(q) = app[q]
    /\ phase' = "idle" \/ event' = NoEvent => \A q \in Peers : Known(q)' = app'[q]
  BY PeerCountAssumption DEF Known, NoEvent, Peers, NoPeer

\* A call that is over at once, about the slot p.
LEMMA CallView ==
    ASSUME TypeOK, SlotsInv, ViewInv, NEW h, Call(h), NEW p \in Peers, Elsewhere(h, host, p),
           NEW v, app' = [app EXCEPT ![p] = v], Fits(h.state[p], v)
    PROVE  ViewInv'
<1>1. /\ host' = h /\ phase = "idle" /\ phase' = "idle" /\ closing' = NoPeer
      /\ closing = NoPeer /\ app'[p] = v /\ \A q \in Peers \ {p} : app'[q] = app[q]
  BY DEF Call, TypeOK, SlotsInv
<1>2. Known(p)' = v /\ \A q \in Peers \ {p} : Known(q)' = Known(q)
  BY <1>1, KnownIsApp
<1> QED BY <1>1, <1>2, ViewStep

\* A call that changes no state of a peer.
LEMMA SameStatesView ==
    ASSUME TypeOK, SlotsInv, ViewInv, phase = "idle", host'.state = host.state, app' = app,
           closing' = closing, event' = NoEvent
    PROVE  ViewInv' /\ Promised
<1>1. closing = NoPeer /\ \A q \in Peers : Known(q)' = Known(q)
  BY KnownIsApp DEF SlotsInv
<1>2. Due(event)'
  BY DEF Due
<1> QED BY <1>1, <1>2, ViewQuiet, QuietPromised

LEMMA GiveUpView ==
    ASSUME TypeOK, SlotsInv, ViewInv, NEW p \in Peers, GiveUp(p),
           NEW v \in {"FREE", "ABANDONED"}, app' = [app EXCEPT ![p] = v]
    PROVE  ViewInv'
<1> DEFINE k == ResetQueues(host, p)
<1>1. /\ k \in HostType /\ host' = Queue(k, p, "NOTICE")
      /\ phase = "idle" /\ phase' = "flush" /\ event' = NoEvent
      /\ closing = NoPeer /\ closing' = p
      /\ app'[p] = v /\ \A q \in Peers \ {p} : app'[q] = app[q]
  BY ResetQueuesType DEF TypeOK, GiveUp, SlotsInv
<1>2. Elsewhere(k, host, p)
  BY ResetQueuesEffect DEF TypeOK
<1> HIDE DEF k
<1>3. Elsewhere(host', k, p)
  BY <1>1, QueueEffect
<1>4. Elsewhere(host', host, p)
  BY <1>2, <1>3, ElsewhereTwice
<1>5. \A q \in Peers \ {p} : Known(q)' = Known(q)
  BY <1>1, KnownIsApp
<1>6. Due(event)'
  BY <1>1 DEF Due
<1> QED BY <1>1, <1>4, <1>5, <1>6, ViewStep

\* The state of a slot between calls tells what the application knows of it.
LEMMA ViewOf ==
    ASSUME TypeOK, SlotsInv, ViewInv, phase = "idle", NEW p \in Peers
    PROVE  Fits(host.state[p], app[p]) /\ app[p] \in View /\ app = [app EXCEPT ![p] = app[p]]
<1>1. closing = NoPeer /\ p # NoPeer
  BY PeerCountAssumption DEF SlotsInv, Peers, NoPeer
<1> QED BY <1>1, KnownIsApp DEF ViewInv, TypeOK

LEMMA DisconnectView ==
    ASSUME TypeOK, SlotsInv, ViewInv, NEW p \in Peers, Disconnect(p)
    PROVE  ViewInv' /\ Promised
<1>1. phase = "idle" /\ event' = NoEvent
  BY DEF Disconnect, Call, GiveUp
<1>2. Fits(host.state[p], app[p]) /\ app = [app EXCEPT ![p] = app[p]]
  BY <1>1, ViewOf
<1>3. CASE /\ host.state[p] \in Active
           /\ Call(BeginDisconnect(host, p))
           /\ app' = [app EXCEPT ![p] = "CLOSING"]
  <2>1. Disconnecting(BeginDisconnect(host, p), host, p)
    BY BeginDisconnectEffect DEF TypeOK
  <2>2. ViewInv'
    BY <1>3, <2>1, CallView DEF Disconnecting, Fits
  <2>3. app[p] \in {"CONNECTED", "CLOSING"}
    BY <1>2, <1>3 DEF Fits, Active
  <2> QED BY <1>1, <1>3, <2>2, <2>3, AskPromised
<1>4. CASE GiveUp(p) /\ app[p] = "CONNECTING" /\ app' = [app EXCEPT ![p] = "ABANDONED"]
  BY <1>1, <1>4, GiveUpView, AskPromised
<1>5. CASE GiveUp(p) /\ app[p] \in {"FREE", "ABANDONED"} /\ app' = app
  BY <1>1, <1>2, <1>5, GiveUpView, QuietPromised
<1>6. CASE /\ host.state[p] \in {"CONNECTING", "ACKNOWLEDGING_CONNECT",
                                 "CONNECTION_PENDING", "CONNECTION_SUCCEEDED"}
           /\ GiveUp(p)
           /\ app' = [app EXCEPT ![p] = IF @ = "CONNECTING" THEN "ABANDONED" ELSE @]
  <2>1. app[p] \in {"CONNECTING", "FREE", "ABANDONED"}
    BY <1>2, <1>6 DEF Fits
  <2>2. CASE app[p] = "CONNECTING"
    BY <1>4, <1>6, <2>2
  <2>3. CASE app[p] \in {"FREE", "ABANDONED"}
    <3>1. app' = app
      BY <1>2, <1>6, <2>3
    <3> QED BY <1>5, <1>6, <2>3, <3>1
  <2> QED BY <2>1, <2>2, <2>3
<1> QED BY <1>3, <1>6 DEF Disconnect

LEMMA AppCallView ==
    ASSUME TypeOK, SlotsInv, ViewInv, AppCall
    PROVE  ViewInv' /\ Promised
<1>0. host \in HostType
  BY DEF TypeOK
<1>1. CASE Connect
  <2>1. PICK p \in Peers :
          /\ host.state[p] = "DISCONNECTED"
          /\ Call(Queue([host EXCEPT !.state[p] = "CONNECTING"], p, "CONNECT"))
          /\ app' = [app EXCEPT ![p] = "CONNECTING"]
    BY <1>1 DEF Connect, FirstFree, Free
  <2> DEFINE k == [host EXCEPT !.state[p] = "CONNECTING"]
             g == Queue(k, p, "CONNECT")
  <2>2. /\ k \in HostType
        /\ k.state = [host.state EXCEPT ![p] = "CONNECTING"]
        /\ k.outgoing = host.outgoing /\ k.unacked = host.unacked /\ k.first = host.first
        /\ k.acknowledgements = host.acknowledgements /\ k.dispatched = host.dispatched
        /\ k.needsDispatch = host.needsDispatch /\ k.dispatchQueue = host.dispatchQueue
    BY <1>0 DEF HostType, State
  <2>3. Call(g) /\ phase = "idle" /\ event' = NoEvent
    BY <2>1 DEF Call
  <2> HIDE DEF k
  <2>4. Elsewhere(k, host, p) /\ k.state[p] = "CONNECTING"
    BY <1>0, <2>2 DEF Elsewhere, Untouched, SameLists, SameLinks, HostType
  <2>5. Elsewhere(g, k, p) /\ g.state = k.state
    BY <2>2, QueueEffect
  <2> HIDE DEF g
  <2>6. ViewInv'
    BY <2>1, <2>3, <2>4, <2>5, ElsewhereTwice, CallView DEF Fits
  <2>7. app[p] \in {"FREE", "ABANDONED"}
    BY <2>1, <2>3, ViewOf DEF Fits
  <2> QED BY <2>1, <2>3, <2>6, <2>7, AskPromised
<1>2. CASE \/ BandwidthThrottle \/ \E c \in Packets : Broadcast(c)
           \/ \E p \in Peers : \/ \E c \in Packets : Send(p, c)
                               \/ Ping(p) \/ ConfigureThrottle(p)
  <2>1. /\ \E h : /\ Call(h)
                  /\ \/ h = host
                     \/ \E p \in Peers, c \in Command : h = Queue(host, p, c)
                     \/ \E S, c : h = QueueAll(host, S, c)
        /\ app' = app
    <3>1. CASE BandwidthThrottle \/ \E c \in Packets : Broadcast(c)
      BY <3>1 DEF BandwidthThrottle, Broadcast, LimitBandwidth
    <3>2. CASE \E p \in Peers : \/ \E c \in Packets : Send(p, c)
                                \/ Ping(p) \/ ConfigureThrottle(p)
      BY <3>2, PacketsAssumption DEF Send, Ping, PingPeer, ConfigureThrottle, Command
    <3> QED BY <1>2, <3>1, <3>2
  <2>2. PICK h : /\ Call(h)
                 /\ \/ h = host
                    \/ \E p \in Peers, c \in Command : h = Queue(host, p, c)
                    \/ \E S, c : h = QueueAll(host, S, c)
    BY <2>1
  <2>3. h.state = host.state
    <3>1. CASE \E p \in Peers, c \in Command : h = Queue(host, p, c)
      BY <1>0, <3>1, QueueEffect
    <3>2. CASE \E S, c : h = QueueAll(host, S, c)
      BY <1>0, <3>2 DEF QueueAll, HostType
    <3> QED BY <2>2, <3>1, <3>2
  <2> QED BY <2>1, <2>2, <2>3, SameStatesView DEF Call
<1>3. CASE Flush \/ CheckEvents \/ \E e \in EventModes : Service(e)
  BY <1>3, SameStatesView DEF Flush, CheckEvents, Service, Enter
<1>4. ASSUME NEW p \in Peers, Disconnect(p) PROVE ViewInv' /\ Promised
  BY <1>4, DisconnectView
<1>5. ASSUME NEW p \in Peers, DisconnectLater(p) PROVE ViewInv' /\ Promised
  <2>1. CASE Disconnect(p)
    BY <2>1, DisconnectView
  <2>2. CASE /\ host.state[p] \in Active
             /\ Call([host EXCEPT !.state[p] = "DISCONNECT_LATER"])
             /\ app' = [app EXCEPT ![p] = "CLOSING"]
    <3> DEFINE g == [host EXCEPT !.state[p] = "DISCONNECT_LATER"]
    <3>1. /\ g.state = [host.state EXCEPT ![p] = "DISCONNECT_LATER"]
          /\ g.outgoing = host.outgoing /\ g.unacked = host.unacked /\ g.first = host.first
          /\ g.acknowledgements = host.acknowledgements /\ g.dispatched = host.dispatched
          /\ g.needsDispatch = host.needsDispatch /\ g.dispatchQueue = host.dispatchQueue
      BY <1>0 DEF HostType
    <3>2. Call(g) /\ phase = "idle" /\ event' = NoEvent
      BY <2>2 DEF Call
    <3> HIDE DEF g
    <3>3. Elsewhere(g, host, p) /\ g.state[p] = "DISCONNECT_LATER"
      BY <1>0, <3>1 DEF Elsewhere, Untouched, SameLists, SameLinks, HostType
    <3>4. ViewInv'
      BY <2>2, <3>2, <3>3, CallView DEF Fits
    <3>5. app[p] \in {"CONNECTED", "CLOSING"}
      BY <2>2, <3>2, ViewOf DEF Fits, Active
    <3> QED BY <2>2, <3>2, <3>4, <3>5, AskPromised
  <2> QED BY <1>5, <2>1, <2>2 DEF DisconnectLater
<1>6. ASSUME NEW p \in Peers, DisconnectNow(p) \/ ResetPeer(p) PROVE ViewInv' /\ Promised
  <2>1. /\ app' = [app EXCEPT ![p] = "FREE"]
        /\ Call(Reset(host, p)) \/ GiveUp(p)
    BY <1>6 DEF DisconnectNow, ResetPeer
  <2>2. event' = NoEvent /\ app[p] \in View
    BY <2>1 DEF Call, GiveUp, TypeOK
  <2>3. CASE Call(Reset(host, p))
    <3>1. Elsewhere(Reset(host, p), host, p) /\ Reset(host, p).state[p] = "DISCONNECTED"
      BY <1>0, ResetEffect
    <3>2. ViewInv'
      BY <2>1, <2>3, <3>1, CallView DEF Fits
    <3> QED BY <2>1, <2>2, <3>2, AskPromised
  <2>4. CASE GiveUp(p)
    BY <2>1, <2>2, <2>4, GiveUpView, AskPromised
  <2> QED BY <2>1, <2>3, <2>4
<1> QED BY <1>1, <1>2, <1>3, <1>4, <1>5, <1>6 DEF AppCall

-----------------------------------------------------------------------------
(* The service loop outside of a datagram.                                 *)

\* A step about the slot p that goes on.
LEMMA GoesOnView ==
    ASSUME OneEvent, ViewInv, phase \notin {"idle", "datagram"},
           NEW p \in Peers, Elsewhere(host', host, p), UNCHANGED <<event, closing, app>>,
           p # closing => Fits(host'.state[p], app[p])
    PROVE  ViewInv' /\ Promised
<1>1. event = NoEvent
  BY NothingOnItsWay
<1>2. \A q \in Peers : Known(q)' = app[q] /\ Known(q) = app[q]
  BY <1>1, KnownIsApp
<1>3. Due(event)'
  BY <1>1 DEF Due
<1>4. ViewInv'
  BY <1>2, <1>3, ViewStep DEF ViewInv
<1> QED BY <1>1, <1>4, QuietPromised

\* One that returns, with an event of p or with none.
LEMMA ReturnsView ==
    ASSUME TypeOK, OneEvent, ViewInv, phase \notin {"idle", "datagram"},
           NEW p \in Peers, Elsewhere(host', host, p), closing \in {p, NoPeer},
           NEW ev, Due(ev), Return(ev), ev.peer \in {p, NoPeer},
           Fits(host'.state[p], IF ev = NoEvent THEN app[p] ELSE Learns(app[p], ev.type))
    PROVE  ViewInv' /\ Promised
<1>1. /\ phase' = "idle" /\ closing' = NoPeer
      /\ \A q \in Peers : Known(q) = app[q]
      /\ \A q \in Peers : Known(q)' = app'[q]
  BY NothingOnItsWay, KnownIsApp DEF Return
<1>2. /\ Promised
      /\ \A q \in Peers : app'[q] = IF q = ev.peer THEN Learns(app[q], ev.type) ELSE app[q]
  BY ReturnPromised DEF TypeOK
<1>3. ev.peer = p \/ ev = NoEvent
  BY PeerCountAssumption DEF Due, Peers, NoPeer
<1>4. ev = NoEvent => ev.peer \notin Peers
  BY PeerCountAssumption DEF NoEvent, Peers, NoPeer
<1>5. Fits(host'.state[p], app'[p])
  <2>1. CASE ev = NoEvent
    BY <1>2, <1>4, <2>1
  <2>2. CASE ev # NoEvent
    BY <1>2, <1>3, <2>2
  <2> QED BY <2>1, <2>2
<1>6. \A q \in Peers \ {p} : Known(q)' = Known(q)
  BY <1>1, <1>2, <1>3, <1>4
<1>7. ViewInv'
  BY <1>1, <1>5, <1>6, ViewStep
<1> QED BY <1>2, <1>7

\* One that changes no state of a peer, returning nothing if it returns.
LEMMA NothingNewView ==
    ASSUME OneEvent, ViewInv, phase \notin {"idle", "datagram"}, host'.state = host.state,
           event' = NoEvent, app' = app, closing \in {closing', NoPeer},
           closing' # NoPeer => closing' = closing
    PROVE  ViewInv' /\ Promised
<1>1. \A q \in Peers : Known(q)' = Known(q)
  BY NothingOnItsWay, KnownIsApp
<1>2. Due(event)'
  BY DEF Due
<1>3. closing' # NoPeer => app'[closing'] \in {"FREE", "ABANDONED"}
  BY DEF ViewInv
<1>4. ViewInv'
  BY <1>1, <1>2, <1>3, ViewQuiet
<1> QED BY <1>4, QuietPromised

LEMMA ReturnNothing ==
    ASSUME Return(NoEvent)
    PROVE  /\ phase' = "idle" /\ event' = NoEvent /\ closing' = NoPeer /\ app' = app
  BY DEF Return, NoEvent

LEMMA DispatchView ==
    ASSUME TypeOK, SlotsInv, OneEvent, ViewInv, Dispatching, host.dispatchQueue # << >>,
           Dispatch(Head(host.dispatchQueue))
    PROVE  ViewInv' /\ Promised
<1> DEFINE p == Head(host.dispatchQueue)
           g == Popped
<1>1. /\ g \in HostType /\ p \in Peers
      /\ Elsewhere(g, host, p) /\ g.state = host.state
  BY PoppedType, PoppedEffect
<1>2. /\ phase \notin {"idle", "datagram"} /\ p # NoPeer /\ closing = NoPeer
  BY <1>1, PeerCountAssumption DEF SlotsInv, Dispatching, Peers, NoPeer
<1>3. Fits(host.state[p], app[p])
  BY <1>1, <1>2, NothingOnItsWay DEF ViewInv
<1> HIDE DEF p, g
<1>4. ASSUME NEW type \in {"CONNECT", "DISCONNECT", "RECEIVE"}, app[p] \in Before(type),
             Return([type |-> type, peer |-> p]), Elsewhere(host', g, p),
             Fits(host'.state[p], Learns(app[p], type))
      PROVE  ViewInv' /\ Promised
  <2> DEFINE ev == [type |-> type, peer |-> p]
  <2>1. ev \in Event /\ ev.type = type /\ ev.peer = p /\ ev # NoEvent
    BY <1>1, <1>4 DEF Event, NoEvent
  <2>2. Return(ev)
    BY <1>4
  <2> HIDE DEF ev
  <2>3. Due(ev)
    BY <1>1, <1>4, <2>1 DEF Due
  <2>4. Elsewhere(host', host, p)
    BY <1>1, <1>4, ElsewhereTwice
  <2> QED BY <1>1, <1>2, <1>4, <2>1, <2>2, <2>3, <2>4, ReturnsView
<1>5. CASE /\ host.state[p] \in {"CONNECTION_PENDING", "CONNECTION_SUCCEEDED"}
           /\ host' = ChangeState(g, p, "CONNECTED")
           /\ Return([type |-> "CONNECT", peer |-> p])
  <2>1. Elsewhere(host', g, p) /\ host'.state[p] = "CONNECTED"
    BY <1>1, <1>5, ChangeStateEffect DEF State
  <2>2. app[p] \in Before("CONNECT")
    BY <1>3, <1>5 DEF Fits, Before
  <2> QED BY <1>4, <1>5, <2>1, <2>2 DEF Fits, Learns
<1>6. CASE /\ host.state[p] = "ZOMBIE"
           /\ host' = Reset(g, p)
           /\ Return([type |-> "DISCONNECT", peer |-> p])
  <2>1. Elsewhere(host', g, p) /\ host'.state[p] = "DISCONNECTED"
    BY <1>1, <1>6, ResetEffect
  <2>2. app[p] \in Before("DISCONNECT")
    BY <1>3, <1>6 DEF Fits, Before
  <2> QED BY <1>4, <1>6, <2>1, <2>2 DEF Fits, Learns
<1>7. CASE /\ host.state[p] = "CONNECTED"
           /\ \/ host' = [g EXCEPT !.dispatched = @ \ {p}]
              \/ host' = NeedsDispatch(g, p)
           /\ Return([type |-> "RECEIVE", peer |-> p])
  <2>1. CASE host' = [g EXCEPT !.dispatched = @ \ {p}]
    <3>1. /\ host'.state = g.state
          /\ host'.outgoing = g.outgoing /\ host'.unacked = g.unacked /\ host'.first = g.first
          /\ host'.acknowledgements = g.acknowledgements
          /\ host'.dispatched = g.dispatched \ {p}
          /\ host'.needsDispatch = g.needsDispatch /\ host'.dispatchQueue = g.dispatchQueue
      BY <1>1, <2>1 DEF HostType
    <3>2. Elsewhere(host', g, p)
      BY <3>1 DEF Elsewhere, Untouched, SameLists, SameLinks
    <3>3. app[p] \in Before("RECEIVE") /\ Fits(host'.state[p], Learns(app[p], "RECEIVE"))
      BY <1>1, <1>3, <1>7, <3>1 DEF Fits, Before, Learns
    <3> QED BY <1>4, <1>7, <3>2, <3>3
  <2>2. CASE host' = NeedsDispatch(g, p)
    <3>1. Elsewhere(host', g, p) /\ host'.state[p] = g.state[p]
      BY <1>1, <2>2, NeedsDispatchEffect
    <3>2. app[p] \in Before("RECEIVE") /\ Fits(host'.state[p], Learns(app[p], "RECEIVE"))
      BY <1>1, <1>3, <1>7, <3>1 DEF Fits, Before, Learns
    <3> QED BY <1>4, <1>7, <3>1, <3>2
  <2> QED BY <1>7, <2>1, <2>2
<1>8. CASE host' = g /\ Stay
  BY <1>1, <1>2, <1>3, <1>8, GoesOnView DEF Stay
<1> QED BY <1>5, <1>6, <1>7, <1>8 DEF Dispatch, p, g

LEMMA SendToView ==
    ASSUME TypeOK, SlotsInv, OneEvent, ViewInv, Sending, current \in Peers, SendTo(current)
    PROVE  ViewInv' /\ Promised
<1> DEFINE p == current
           h == SendAcknowledgements(host, p)
<1>1. /\ host \in HostType /\ h \in HostType /\ Elsewhere(h, host, p)
      /\ phase \notin {"idle", "datagram"} /\ p # NoPeer
      /\ phase # "flush" => closing = NoPeer
  BY SendAcknowledgementsType, SendAcknowledgementsEffect, PeerCountAssumption
     DEF TypeOK, SlotsInv, Sending, Peers, NoPeer
<1>2. p # closing => Fits(host.state[p], app[p]) /\ Fits(h.state[p], app[p])
  <2>1. p \in host.acknowledgements =>
          host.state[p] = "ACKNOWLEDGING_DISCONNECT" /\ h.state[p] = "ZOMBIE"
    BY <1>1, SendAcknowledgementsEffect DEF SlotsInv, Kept
  <2>2. p \notin host.acknowledgements => h = host
    BY <1>1, SendAcknowledgementsEffect
  <2>3. p # closing => Fits(host.state[p], app[p])
    BY <1>1, NothingOnItsWay DEF ViewInv
  <2> HIDE DEF h
  <2> QED BY <2>1, <2>2, <2>3 DEF Fits
<1> HIDE DEF h
<1>3. ASSUME Elsewhere(host', host, p), p # closing => Fits(host'.state[p], app[p]),
             \/ Goto(phase, p + 1)
             \/ phase # "flush" /\ Return(NoEvent)
             \/ Goto(phase, NoPeer)
      PROVE  ViewInv' /\ Promised
  <2>1. CASE Goto(phase, p + 1) \/ Goto(phase, NoPeer)
    BY <1>1, <1>3, <2>1, GoesOnView DEF Goto
  <2>2. CASE phase # "flush" /\ Return(NoEvent)
    BY <1>1, <1>3, <2>2, ReturnsView DEF Due, NoEvent
  <2> QED BY <1>3, <2>1, <2>2
<1>4. CASE SkipPeer(p)
  BY <1>2, <1>3, <1>4, ElsewhereSame DEF SkipPeer
<1>5. CASE TimeOut(p)
  <2>1. /\ phase # "flush" /\ host' = NotifyDisconnect(h, p, withEvent)
        /\ IF withEvent /\ ~ EndsSilently(h, p)
           THEN Return([type |-> "DISCONNECT", peer |-> p])
           ELSE Goto(phase, p + 1)
    BY <1>5 DEF TimeOut, h
  <2>2. /\ Elsewhere(host', h, p)
        /\ host'.state[p] = IF EndsSilently(h, p) \/ withEvent THEN "DISCONNECTED" ELSE "ZOMBIE"
    BY <1>1, <2>1, ResetEffect, DispatchStateEffect DEF NotifyDisconnect, State
  <2>3. Elsewhere(host', host, p) /\ closing = NoPeer /\ Fits(h.state[p], app[p])
    BY <1>1, <1>2, <2>1, <2>2, ElsewhereTwice
  <2>4. CASE withEvent /\ ~ EndsSilently(h, p)
    <3> DEFINE ev == [type |-> "DISCONNECT", peer |-> p]
    <3>1. ev \in Event /\ ev.type = "DISCONNECT" /\ ev.peer = p /\ ev # NoEvent /\ Return(ev)
      BY <2>1, <2>4 DEF Event, NoEvent
    <3> HIDE DEF ev
    <3>2. app[p] \in Before("DISCONNECT")
      BY <2>3, <2>4 DEF Fits, EndsSilently, Before
    <3>3. Due(ev)
      BY <3>1, <3>2 DEF Due
    <3>4. Fits(host'.state[p], Learns(app[p], "DISCONNECT"))
      BY <2>2, <2>4 DEF Fits, Learns
    <3> QED BY <1>1, <2>3, <3>1, <3>3, <3>4, ReturnsView
  <2>5. CASE ~ (withEvent /\ ~ EndsSilently(h, p))
    <3>1. Fits(host'.state[p], app[p])
      BY <2>2, <2>3, <2>5 DEF Fits, EndsSilently
    <3> QED BY <1>3, <2>1, <2>3, <2>5, <3>1
  <2> QED BY <2>4, <2>5
<1>6. CASE TransmitTo(p)
  <2>1. \/ Goto(phase, p + 1)
        \/ phase # "flush" /\ Return(NoEvent)
        \/ Goto(phase, NoPeer)
        \/ SkipPeer(p) \/ TimeOut(p)
    BY <1>6 DEF SendTo
  <2>2. \/ Sent(host', h, p)
        \/ host.state[p] = "DISCONNECT_LATER" /\ Disconnecting(host', host, p)
    BY <1>6, TransmitToEffect DEF h
  <2>3. CASE Sent(host', h, p)
    <3>1. Elsewhere(host', host, p) /\ host'.state[p] = h.state[p]
      BY <1>1, <2>3, ElsewhereTwice DEF Sent
    <3> QED BY <1>2, <1>3, <1>4, <1>5, <2>1, <3>1
  <2>4. CASE host.state[p] = "DISCONNECT_LATER" /\ Disconnecting(host', host, p)
    <3>1. Elsewhere(host', host, p) /\ (p # closing => Fits(host'.state[p], app[p]))
      BY <1>2, <2>4 DEF Disconnecting, Fits
    <3> QED BY <1>3, <1>4, <1>5, <2>1, <3>1
  <2> QED BY <2>2, <2>3, <2>4
<1> QED BY <1>4, <1>5, <1>6 DEF SendTo

LEMMA SendOutgoingView ==
    ASSUME TypeOK, SlotsInv, OneEvent, ViewInv, SendOutgoing
    PROVE  ViewInv' /\ Promised
<1>1. phase \notin {"idle", "datagram"} /\ event = NoEvent
  BY NothingOnItsWay DEF SendOutgoing, Sending
<1>2. CASE current = NoPeer /\ SendDone
  <2>1. CASE /\ host' = host
             /\ \/ UNCHANGED <<event, closing, app>>
                \/ closing = NoPeer /\ Return(NoEvent)
    BY <1>1, <2>1, NothingNewView, ReturnNothing
  <2>2. CASE closing \in Peers /\ host' = Reset(host, closing) /\ Return(NoEvent)
    <3>1. Elsewhere(host', host, closing) /\ host'.state[closing] = "DISCONNECTED"
      BY <2>2, ResetEffect DEF TypeOK
    <3>2. Fits(host'.state[closing], app[closing])
      BY <2>2, <3>1, PeerCountAssumption DEF ViewInv, Fits, Peers, NoPeer
    <3> QED BY <1>1, <2>2, <3>1, <3>2, ReturnsView DEF Due, NoEvent
  <2> QED BY <1>2, <2>1, <2>2 DEF SendDone, SendOutgoing, Sending, Goto, TypeOK
<1>3. CASE current # NoPeer /\ SendTo(current)
  BY <1>3, SendToView DEF SendOutgoing, TypeOK
<1> QED BY <1>2, <1>3 DEF SendOutgoing

\* The steps between the passes.
LEMMA BetweenView ==
    ASSUME TypeOK, SlotsInv, OneEvent, ViewInv,
           \/ DispatchIncoming /\ host.dispatchQueue = << >>
           \/ ThrottlePhase
           \/ \E p \in Peers \cup {NoPeer} : ReceiveDatagram(p)
           \/ ReceiveDone \/ ReceiveFailed \/ Wait
    PROVE  ViewInv' /\ Promised
<1>1. phase \notin {"idle", "datagram", "flush"}
  BY DEF DispatchIncoming, Dispatching, ThrottlePhase, ReceiveDatagram, ReceiveDone,
         ReceiveFailed, Wait
<1>2. closing = NoPeer /\ event = NoEvent
  BY <1>1, NothingOnItsWay DEF SlotsInv
<1>3. host'.state = host.state
  <2>1. CASE ThrottlePhase
    BY <2>1 DEF ThrottlePhase, LimitBandwidth, QueueAll, TypeOK, HostType
  <2> QED BY <2>1 DEF DispatchIncoming, ReceiveDatagram, ReceiveDone, ReceiveFailed, Wait
<1>4. Return(NoEvent) \/ UNCHANGED <<event, closing, app>>
  BY DEF DispatchIncoming, Dispatching, ThrottlePhase, ReceiveDatagram, ReceiveDone,
         ReceiveFailed, Wait, Goto
<1> QED BY <1>1, <1>2, <1>3, <1>4, NothingNewView, ReturnNothing

-----------------------------------------------------------------------------
(* A command of a datagram.                                                *)

\* It changes the slot p and produces no event.
LEMMA CommandView ==
    ASSUME SlotsInv, ViewInv, phase = "datagram", NEW p \in Peers, Elsewhere(host', host, p),
           UNCHANGED <<event, app, closing>>, phase' # "idle",
           Fits(host'.state[p], Known(p))
    PROVE  ViewInv' /\ Promised
<1>1. \A q \in Peers : Known(q)' = Known(q)
  BY DEF Known
<1>2. closing = NoPeer /\ Due(event)'
  BY DEF SlotsInv, ViewInv, Due
<1> QED BY <1>1, <1>2, ViewStep, QuietPromised

\* It produces the event ev of p.
LEMMA ReportView ==
    ASSUME SlotsInv, OneEvent, ViewInv, phase = "datagram", event.type = "NONE",
           NEW p \in Peers, Elsewhere(host', host, p),
           NEW type, app[p] \in Before(type), Report([type |-> type, peer |-> p]),
           Fits(host'.state[p], Learns(app[p], type))
    PROVE  ViewInv' /\ Promised
<1> DEFINE ev == [type |-> type, peer |-> p]
<1>1. ev \in Event /\ ev.type = type /\ ev.peer = p
  BY DEF Before, Event
<1>2. event' = ev /\ phase' = "datagram" /\ UNCHANGED <<app, closing>>
  BY DEF Report
<1> HIDE DEF ev
<1>3. Known(p)' = Learns(app[p], type)
  BY <1>1, <1>2 DEF Known
<1>4. \A q \in Peers \ {p} : Known(q)' = Known(q)
  BY <1>1, <1>2, NothingOnItsWay DEF Known
<1>5. Due(event)' /\ closing = NoPeer
  BY <1>1, <1>2 DEF Due, SlotsInv
<1> QED BY <1>2, <1>3, <1>4, <1>5, ViewStep, QuietPromised

LEMMA EndDatagramView ==
    ASSUME TypeOK, SlotsInv, OneEvent, ViewInv, EndDatagram
    PROVE  ViewInv' /\ Promised
<1>1. phase = "datagram" /\ host' = host /\ End(event) /\ closing = NoPeer
  BY DEF EndDatagram, SlotsInv
<1>2. CASE event.type # "NONE"
  <2>1. Return(event) /\ Due(event) /\ phase' = "idle" /\ closing' = NoPeer
    BY <1>1, <1>2 DEF End, Return, ViewInv
  <2>2. /\ Promised
        /\ \A q \in Peers :
              app'[q] = IF q = event.peer THEN Learns(app[q], event.type) ELSE app[q]
    BY <1>1, <2>1, ReturnPromised DEF TypeOK
  <2>3. \A q \in Peers : Known(q)' = Known(q)
    BY <1>1, <2>1, <2>2 DEF Known
  <2> QED BY <1>1, <2>1, <2>2, <2>3, ViewQuiet
<1>3. CASE event.type = "NONE"
  <2>1. UNCHANGED <<event, app, closing>> /\ phase' = "receive"
    BY <1>1, <1>3 DEF End, Goto
  <2>2. \A q \in Peers : Known(q)' = Known(q)
    BY <1>1, <2>1 DEF Known
  <2>3. Due(event)'
    BY <1>1, <2>1 DEF ViewInv, Due
  <2> QED BY <1>1, <2>1, <2>2, <2>3, ViewQuiet, QuietPromised
<1> QED BY <1>2, <1>3

\* What is known of the slot a datagram is about.
LEMMA CurrentView ==
    ASSUME SlotsInv, OneEvent, ViewInv, phase = "datagram", current \in Peers
    PROVE  /\ Fits(host.state[current], Known(current))
           /\ host.state[current] \notin Told =>
                event.type = "NONE" /\ Fits(host.state[current], app[current])
<1>1. closing # current
  BY PeerCountAssumption DEF SlotsInv, Peers, NoPeer
<1>2. Fits(host.state[current], Known(current))
  BY <1>1 DEF ViewInv
<1>3. host.state[current] \notin Told => event.type = "NONE"
  BY DEF OneEvent
<1> QED BY <1>2, <1>3, NothingOnItsWay

LEMMA EndOfNothing ==
    ASSUME event.type = "NONE", End(event)
    PROVE  UNCHANGED <<event, app, closing>> /\ phase' = "receive"
  BY DEF End, Goto

LEMMA HandleConnectView ==
    ASSUME TypeOK, SlotsInv, OneEvent, ViewInv, HandleConnect
    PROVE  ViewInv' /\ Promised
<1>1. PICK p \in Peers, l \in BOOLEAN :
        /\ host.state[p] = "DISCONNECTED"
        /\ host' = Queue([SetLimit(host, p, l) EXCEPT !.state[p] = "ACKNOWLEDGING_CONNECT"],
                         p, "VERIFY_CONNECT")
  BY DEF HandleConnect, FirstFree, Free
<1> DEFINE s == SetLimit(host, p, l)
           k == [s EXCEPT !.state[p] = "ACKNOWLEDGING_CONNECT"]
<1>2. /\ phase = "datagram" /\ phase' = "datagram" /\ current = NoPeer
      /\ UNCHANGED <<event, app, closing>>
  BY DEF HandleConnect, Goto
<1>3. event.type = "NONE" /\ closing # p
  BY <1>2, PeerCountAssumption DEF OneEvent, SlotsInv, Peers, NoPeer
<1>4. Fits(host.state[p], Known(p))
  BY <1>3 DEF ViewInv
<1>5. /\ s \in HostType /\ s.state = host.state
      /\ s.outgoing = host.outgoing /\ s.unacked = host.unacked /\ s.first = host.first
      /\ s.acknowledgements = host.acknowledgements /\ s.dispatched = host.dispatched
      /\ s.needsDispatch = host.needsDispatch /\ s.dispatchQueue = host.dispatchQueue
  BY SetLimitType, SetLimitEffect DEF TypeOK
<1>6. host' = Queue(k, p, "VERIFY_CONNECT")
  BY <1>1
<1> HIDE DEF s
<1>7. /\ k \in HostType
      /\ k.state = [host.state EXCEPT ![p] = "ACKNOWLEDGING_CONNECT"]
      /\ k.outgoing = host.outgoing /\ k.unacked = host.unacked /\ k.first = host.first
      /\ k.acknowledgements = host.acknowledgements /\ k.dispatched = host.dispatched
      /\ k.needsDispatch = host.needsDispatch /\ k.dispatchQueue = host.dispatchQueue
  BY <1>5 DEF HostType, State
<1> HIDE DEF k
<1>8. Elsewhere(k, host, p) /\ k.state[p] = "ACKNOWLEDGING_CONNECT"
  BY <1>7 DEF Elsewhere, Untouched, SameLists, SameLinks, TypeOK, HostType
<1>9. Elsewhere(host', k, p) /\ host'.state = k.state
  BY <1>6, <1>7, QueueEffect
<1>10. Elsewhere(host', host, p) /\ Fits(host'.state[p], Known(p))
  BY <1>1, <1>4, <1>8, <1>9, ElsewhereTwice DEF Fits
<1> QED BY <1>2, <1>10, CommandView

\* The connection is up: the application is told, or will be by the dispatch queue.
LEMMA NotifyConnectView ==
    ASSUME TypeOK, SlotsInv, OneEvent, ViewInv, phase = "datagram", NEW p \in Peers, p = current,
           NEW k \in HostType, Elsewhere(k, host, p), k.state = host.state,
           host.state[p] \in {"CONNECTING", "ACKNOWLEDGING_CONNECT"},
           host' = NotifyConnect(k, p, withEvent), Report(ConnectEvent(p))
    PROVE  ViewInv' /\ Promised
<1>1. /\ event.type = "NONE" /\ Fits(host.state[p], app[p]) /\ Known(p) = app[p]
      /\ withEvent \in BOOLEAN
  BY CurrentView, NothingOnItsWay DEF Told, TypeOK
<1>2. /\ Elsewhere(host', k, p)
      /\ host'.state[p] = IF withEvent THEN "CONNECTED"
                          ELSE IF host.state[p] = "CONNECTING" THEN "CONNECTION_SUCCEEDED"
                                                               ELSE "CONNECTION_PENDING"
  BY <1>1, NotifyConnectEffect
<1>3. Elsewhere(host', host, p)
  BY <1>2, ElsewhereTwice
<1>4. CASE withEvent
  <2>1. Report([type |-> "CONNECT", peer |-> p])
    BY <1>4 DEF ConnectEvent
  <2>2. app[p] \in Before("CONNECT") /\ Fits(host'.state[p], Learns(app[p], "CONNECT"))
    BY <1>1, <1>2, <1>4 DEF Fits, Before, Learns
  <2> QED BY <1>1, <1>3, <2>1, <2>2, ReportView
<1>5. CASE ~ withEvent
  <2>1. UNCHANGED <<event, app, closing>> /\ phase' = "datagram"
    BY <1>5 DEF Report, ConnectEvent
  <2>2. Fits(host'.state[p], Known(p))
    BY <1>1, <1>2, <1>5 DEF Fits
  <2> QED BY <1>3, <2>1, <2>2, CommandView
<1> QED BY <1>4, <1>5

LEMMA HandleVerifyConnectView ==
    ASSUME TypeOK, SlotsInv, OneEvent, ViewInv, phase = "datagram", current \in Peers,
           HandleVerifyConnect(current)
    PROVE  ViewInv' /\ Promised
<1> DEFINE p == current
<1>1. /\ host \in HostType /\ host.state[p] = "CONNECTING"
      /\ event.type = "NONE" /\ Fits(host.state[p], app[p]) /\ Known(p) = app[p]
  BY CurrentView, NothingOnItsWay DEF TypeOK, HandleVerifyConnect, Told
<1> HIDE DEF p
<1>2. CASE host' = DispatchState(host, p, "ZOMBIE") /\ End(event)
  <2>1. Elsewhere(host', host, p) /\ host'.state[p] = "ZOMBIE"
    BY <1>1, <1>2, DispatchStateEffect DEF State, p
  <2>2. Fits(host'.state[p], Known(p))
    BY <1>1, <2>1 DEF Fits
  <2> QED BY <1>1, <1>2, <2>1, <2>2, EndOfNothing, CommandView DEF p
<1>3. CASE /\ \E l \in BOOLEAN, h \in Acknowledge(host, p, host.first[p]) :
                 host' = NotifyConnect(SetLimit(h, p, l), p, withEvent)
           /\ Report(ConnectEvent(p))
  <2>1. PICK l \in BOOLEAN, h \in Acknowledge(host, p, host.first[p]) :
               host' = NotifyConnect(SetLimit(h, p, l), p, withEvent)
    BY <1>3
  <2> DEFINE k == SetLimit(h, p, l)
  <2>2. /\ p \in Peers /\ p = current /\ h \in HostType /\ k \in HostType
    BY <1>1, AcknowledgeType, SetLimitType DEF p
  <2>3. Elsewhere(h, host, p) /\ h.state = host.state
    BY <1>1, <2>2, AcknowledgeEffect
  <2>4. /\ k.state = h.state
        /\ k.outgoing = h.outgoing /\ k.unacked = h.unacked /\ k.first = h.first
        /\ k.acknowledgements = h.acknowledgements /\ k.dispatched = h.dispatched
        /\ k.needsDispatch = h.needsDispatch /\ k.dispatchQueue = h.dispatchQueue
    BY <2>2, SetLimitEffect
  <2>5. host' = NotifyConnect(k, p, withEvent)
    BY <2>1
  <2> HIDE DEF k
  <2>6. Elsewhere(k, host, p) /\ k.state = host.state
    BY <2>3, <2>4 DEF Elsewhere, Untouched, SameLists, SameLinks
  <2> QED BY <1>1, <1>3, <2>2, <2>5, <2>6, NotifyConnectView
<1> QED BY <1>2, <1>3 DEF HandleVerifyConnect, p

LEMMA HandleDisconnectView ==
    ASSUME TypeOK, SlotsInv, OneEvent, ViewInv, phase = "datagram", current \in Peers,
           HandleDisconnect(current)
    PROVE  ViewInv' /\ Promised
<1> DEFINE p == current
           h == ResetQueues(host, p)
           k == ChangeState(h, p, "ACKNOWLEDGING_DISCONNECT")
           g == [k EXCEPT !.acknowledgements = @ \cup {p}]
<1>1. /\ \/ /\ host.state[p] \in {"CONNECTION_SUCCEEDED", "DISCONNECTING", "CONNECTING"}
            /\ host' = DispatchState(h, p, "ZOMBIE")
         \/ /\ host.state[p] \in {"ACKNOWLEDGING_CONNECT", "CONNECTION_PENDING"}
            /\ host' = Reset(h, p)
         \/ /\ host.state[p] \in Active
            /\ host' \in {DispatchState(h, p, "ZOMBIE"), g}
      /\ Stay
  BY DEF HandleDisconnect, Continue
<1>2. p \in Peers /\ h \in HostType /\ Elsewhere(h, host, p)
  BY ResetQueuesType, ResetQueuesEffect DEF TypeOK
<1>3. Fits(host.state[p], Known(p))
  BY CurrentView
<1> HIDE DEF p, h
<1>4. ASSUME Elsewhere(host', h, p), Fits(host'.state[p], Known(p))
      PROVE  ViewInv' /\ Promised
  BY <1>1, <1>2, <1>4, ElsewhereTwice, CommandView DEF Stay
<1>5. CASE /\ host' = DispatchState(h, p, "ZOMBIE")
           /\ host.state[p] \in {"CONNECTION_SUCCEEDED", "DISCONNECTING", "CONNECTING",
                                 "CONNECTED", "DISCONNECT_LATER"}
  <2>1. Elsewhere(host', h, p) /\ host'.state[p] = "ZOMBIE"
    BY <1>2, <1>5, DispatchStateEffect DEF State
  <2>2. Fits(host'.state[p], Known(p))
    BY <1>3, <1>5, <2>1 DEF Fits
  <2> QED BY <1>4, <2>1, <2>2
<1>6. CASE /\ host' = Reset(h, p)
           /\ host.state[p] \in {"ACKNOWLEDGING_CONNECT", "CONNECTION_PENDING"}
  <2>1. Elsewhere(host', h, p) /\ host'.state[p] = "DISCONNECTED"
    BY <1>2, <1>6, ResetEffect
  <2>2. Fits(host'.state[p], Known(p))
    BY <1>3, <1>6, <2>1 DEF Fits
  <2> QED BY <1>4, <2>1, <2>2
<1>7. CASE host' = g /\ host.state[p] \in Active
  <2>1. k \in HostType /\ Elsewhere(k, h, p) /\ k.state[p] = "ACKNOWLEDGING_DISCONNECT"
    BY <1>2, ChangeStateType, ChangeStateEffect DEF State
  <2> HIDE DEF k
  <2>2. /\ g.state = k.state
        /\ g.outgoing = k.outgoing /\ g.unacked = k.unacked /\ g.first = k.first
        /\ g.acknowledgements = k.acknowledgements \cup {p} /\ g.dispatched = k.dispatched
        /\ g.needsDispatch = k.needsDispatch /\ g.dispatchQueue = k.dispatchQueue
    BY <2>1 DEF HostType
  <2> HIDE DEF g
  <2>3. Elsewhere(g, k, p)
    BY <2>2 DEF Elsewhere, Untouched, SameLists, SameLinks
  <2>4. Elsewhere(host', h, p)
    BY <1>7, <2>1, <2>3, ElsewhereTwice
  <2>5. Fits(host'.state[p], Known(p))
    BY <1>3, <1>7, <2>1, <2>2 DEF Fits, Active
  <2> QED BY <1>4, <2>4, <2>5
<1> QED BY <1>1, <1>5, <1>6, <1>7 DEF Active

LEMMA HandleAcknowledgeView ==
    ASSUME TypeOK, SlotsInv, OneEvent, ViewInv, phase = "datagram", current \in Peers, NEW c,
           HandleAcknowledge(current, c)
    PROVE  ViewInv' /\ Promised
<1> DEFINE p == current
           told == [type |-> "DISCONNECT", peer |-> p]
<1>1. PICK h \in Acknowledge(host, p, c) :
        \/ /\ h.state[p] \in {"ACKNOWLEDGING_CONNECT", "DISCONNECTING"}
           /\ host' = h /\ End(event)
        \/ /\ h.state[p] = "ACKNOWLEDGING_CONNECT"
           /\ host' = NotifyConnect(h, p, withEvent)
           /\ Report(ConnectEvent(p))
        \/ /\ h.state[p] = "DISCONNECTING"
           /\ host' = NotifyDisconnect(h, p, withEvent)
           /\ Report(IF withEvent THEN told ELSE event)
        \/ host' = FinishDisconnectLater(h, p) /\ Stay
  BY DEF HandleAcknowledge, Continue
<1>2. /\ p \in Peers /\ h \in HostType
      /\ Elsewhere(h, host, p) /\ h.state = host.state
  BY <1>1, AcknowledgeType, AcknowledgeEffect DEF TypeOK
<1>3. /\ Fits(h.state[p], Known(p))
      /\ h.state[p] \notin Told => event.type = "NONE" /\ Known(p) = app[p]
  BY <1>2, CurrentView, NothingOnItsWay
<1>4. CASE /\ h.state[p] \in {"ACKNOWLEDGING_CONNECT", "DISCONNECTING"}
           /\ host' = h /\ End(event)
  <2>1. UNCHANGED <<event, app, closing>> /\ phase' = "receive"
    BY <1>3, <1>4, EndOfNothing DEF Told
  <2> QED BY <1>2, <1>3, <1>4, <2>1, CommandView
<1>5. CASE /\ h.state[p] = "ACKNOWLEDGING_CONNECT"
           /\ host' = NotifyConnect(h, p, withEvent)
           /\ Report(ConnectEvent(p))
  BY <1>2, <1>5, NotifyConnectView
<1>6. CASE /\ h.state[p] = "DISCONNECTING"
           /\ host' = NotifyDisconnect(h, p, withEvent)
           /\ Report(IF withEvent THEN told ELSE event)
  <2>1. /\ event.type = "NONE" /\ Fits(h.state[p], app[p]) /\ ~ EndsSilently(h, p)
    BY <1>3, <1>6 DEF Told, EndsSilently
  <2>2. /\ Elsewhere(host', h, p)
        /\ host'.state[p] = IF withEvent THEN "DISCONNECTED" ELSE "ZOMBIE"
    BY <1>2, <1>6, <2>1, ResetEffect, DispatchStateEffect DEF NotifyDisconnect, State
  <2>3. Elsewhere(host', host, p)
    BY <1>2, <2>2, ElsewhereTwice
  <2>4. CASE withEvent
    <3>1. app[p] \in Before("DISCONNECT") /\ Fits(host'.state[p], Learns(app[p], "DISCONNECT"))
      BY <1>6, <2>1, <2>2, <2>4 DEF Fits, Before, Learns
    <3> QED BY <1>2, <1>6, <2>1, <2>3, <2>4, <3>1, ReportView
  <2>5. CASE ~ withEvent
    <3>1. UNCHANGED <<event, app, closing>> /\ phase' = "datagram"
      BY <1>6, <2>5 DEF Report
    <3>2. Fits(host'.state[p], Known(p))
      BY <1>3, <1>6, <2>2, <2>5 DEF Fits
    <3> QED BY <1>2, <2>3, <3>1, <3>2, CommandView
  <2> QED BY <2>4, <2>5
<1>7. CASE host' = FinishDisconnectLater(h, p) /\ Stay
  <2>1. UNCHANGED <<event, app, closing>> /\ phase' # "idle"
    BY <1>7 DEF Stay
  <2>2. CASE host' = h
    BY <1>2, <1>3, <2>1, <2>2, CommandView
  <2>3. CASE host' = BeginDisconnect(h, p) /\ h.state[p] = "DISCONNECT_LATER"
    <3>1. Elsewhere(host', h, p) /\ host'.state[p] = "DISCONNECTING"
      BY <1>2, <2>3, BeginDisconnectEffect DEF Disconnecting
    <3>2. Elsewhere(host', host, p) /\ Fits(host'.state[p], Known(p))
      BY <1>2, <1>3, <2>3, <3>1, ElsewhereTwice DEF Fits
    <3> QED BY <1>2, <2>1, <3>2, CommandView
  <2> QED BY <1>7, <2>2, <2>3 DEF FinishDisconnectLater
<1> QED BY <1>1, <1>4, <1>5, <1>6, <1>7

LEMMA OtherCommandView ==
    ASSUME TypeOK, SlotsInv, OneEvent, ViewInv, phase = "datagram", current \in Peers,
           HandleBandwidthLimit(current) \/ HandlePacket(current)
    PROVE  ViewInv' /\ Promised
<1>1. UNCHANGED <<event, app, closing>> /\ phase' = "datagram"
  BY DEF HandleBandwidthLimit, HandlePacket, Continue, Stay
<1>2. host'.state = host.state
  <2>1. CASE HandleBandwidthLimit(current)
    <3>1. PICK l \in BOOLEAN :
            \E n : host' = [SetLimit(host, current, l) EXCEPT !.bandwidthLimitedPeers = n]
      BY <2>1 DEF HandleBandwidthLimit
    <3> QED BY <3>1 DEF SetLimit, TypeOK, HostType
  <2>2. CASE HandlePacket(current)
    BY <2>2 DEF HandlePacket, NeedsDispatch, TypeOK, HostType
  <2> QED BY <2>1, <2>2
<1>3. \A q \in Peers : Known(q)' = Known(q)
  BY <1>1 DEF Known
<1>4. closing = NoPeer /\ Due(event)'
  BY <1>1 DEF SlotsInv, ViewInv, Due
<1> QED BY <1>1, <1>2, <1>3, <1>4, ViewQuiet, QuietPromised

LEMMA HandleIncomingView ==
    ASSUME TypeOK, SlotsInv, OneEvent, ViewInv, HandleIncoming
    PROVE  ViewInv' /\ Promised
<1>1. CASE HandleConnect
  BY <1>1, HandleConnectView
<1>2. CASE phase = "datagram" /\ current \in Peers /\ HandleCommand(current)
  BY <1>2, HandleVerifyConnectView, HandleDisconnectView, HandleAcknowledgeView,
     OtherCommandView DEF HandleCommand
<1> QED BY <1>1, <1>2 DEF HandleIncoming, TypeOK

LEMMA StepView ==
    ASSUME TypeOK, SlotsInv, OneEvent, ViewInv, [Next]_vars
    PROVE  ViewInv' /\ Promised
<1>1. CASE AppCall
  BY <1>1, AppCallView
<1>2. CASE DispatchIncoming /\ host.dispatchQueue # << >>
  BY <1>2, DispatchView DEF DispatchIncoming
<1>3. CASE SendOutgoing
  BY <1>3, SendOutgoingView
<1>4. CASE HandleIncoming
  BY <1>4, HandleIncomingView
<1>5. CASE EndDatagram
  BY <1>5, EndDatagramView
<1>6. CASE \/ DispatchIncoming /\ host.dispatchQueue = << >>
           \/ ThrottlePhase
           \/ \E p \in Peers \cup {NoPeer} : ReceiveDatagram(p)
           \/ ReceiveDone \/ ReceiveFailed \/ Wait
  BY <1>6, BetweenView
<1>7. CASE UNCHANGED vars
  <2>1. ViewInv'
    BY <1>7 DEF vars, ViewInv, Known, Due
  <2>2. Promised
    BY <1>7 DEF vars, Promised
  <2> QED BY <2>1, <2>2
<1> QED BY <1>1, <1>2, <1>3, <1>4, <1>5, <1>6, <1>7 DEF Next

LEMMA InitView == Init => ViewInv
  BY DEF Init, ViewInv, Fits, Known

LEMMA OneEventAlways == Spec => []OneEvent
<1>1. Init => OneEvent
  BY DEF Init, OneEvent
<1>2. TypeOK /\ OneEvent /\ [Next]_vars => OneEvent'
  BY StepKeeps
<1> QED BY <1>1, <1>2, TypeCorrect, PTL DEF Spec

LEMMA ViewCorrect == Spec => []ViewInv
<1>1. TypeOK /\ SlotsInv /\ OneEvent /\ ViewInv /\ [Next]_vars => ViewInv'
  BY StepView
<1> QED BY <1>1, InitView, TypeCorrect, SlotsCorrect, OneEventAlways, PTL DEF Spec

\* Between calls the application knows of every connection and every end, whatever the
\* remote hosts send and however many peers there are.
THEOREM ViewsAgree == Spec => []ViewAgrees
<1>1. TypeOK /\ SlotsInv /\ ViewInv => ViewAgrees
  <2> SUFFICES ASSUME TypeOK, SlotsInv, ViewInv, phase = "idle", NEW p \in Peers
               PROVE  host.state[p] \in
                CASE app[p] = "CONNECTING" -> {"CONNECTING", "CONNECTION_SUCCEEDED", "ZOMBIE"}
                  [] app[p] = "CONNECTED"  -> {"CONNECTED", "ACKNOWLEDGING_DISCONNECT", "ZOMBIE"}
                  [] app[p] = "CLOSING"    -> {"DISCONNECT_LATER", "DISCONNECTING",
                                               "ACKNOWLEDGING_DISCONNECT", "ZOMBIE"}
                  [] OTHER                 -> {"DISCONNECTED", "ACKNOWLEDGING_CONNECT",
                                               "CONNECTION_PENDING"}
    BY DEF ViewAgrees
  <2>1. Fits(host.state[p], app[p])
    BY ViewOf
  <2> QED BY <2>1 DEF Fits
<1> QED BY <1>1, ViewCorrect, TypeCorrect, SlotsCorrect, PTL

\* The host refines PeerLifecycle: the events of every slot come in the order CONNECT,
\* RECEIVE*, DISCONNECT, and nothing is received after the application asked for the end.
THEOREM LifecycleImplemented == Spec => ImplementsLifecycle
<1>1. Init => Lifecycle!Init
  BY DEF Init, Lifecycle!Init, Lifecycle!NoEvent, NoEvent
<1>2. TypeOK /\ SlotsInv /\ OneEvent /\ ViewInv /\ [Next]_vars
      => [Lifecycle!Next]_<<app, IF phase = "idle" THEN event ELSE NoEvent>>
  BY StepView DEF Promised
<1> QED BY <1>1, <1>2, TypeCorrect, SlotsCorrect, OneEventAlways, ViewCorrect, PTL
        DEF Spec, ImplementsLifecycle, Lifecycle!Spec
=============================================================================
