---------------------------- MODULE Handshake_proofs ----------------------------
(***************************************************************************)
(* For every number of slots, calls, restarts and repeated datagrams: what *)
(* a slot holds belongs to its state, and an attempt to connect has one    *)
(* slot.                                                                   *)
(*                                                                         *)
(* The two hosts make their connect ids apart from one another, so an id   *)
(* that arrives in a CONNECT is never one of an own attempt.               *)
(***************************************************************************)
EXTENDS Handshake, NumberLemmas, FiniteSetTheorems, SequenceTheorems

Session == Sessions \cup {NoSession}

\* The commands; a CONNECT and its answer name the slot they come from.
Cmd ==
    {c \in [kind : {"connect", "verify", "ack", "disconnect", "throttle", "packet"},
            number : Nat, answers : Nat, connectID : Nat, peerID : Slots \cup {NoSlot},
            incomingSession : Session, outgoingSession : Session,
            throttle : Throttles, answer : Nat] :
        /\ c.kind \in {"connect", "verify"} => c.peerID # NoSlot
        /\ c.kind = "verify" => c.incomingSession \in Sessions /\ c.outgoingSession \in Sessions}

Peer ==
    [state : PeerStates, connectID : Nat, outgoingPeerID : Slots \cup {NoSlot},
     incomingSession : Session, outgoingSession : Session, number : Nat,
     acks : SUBSET Cmd, queue : Seq(Cmd), sent : SUBSET Cmd, throttle : Throttles,
     answer : Nat, before : Nat \X Nat]

\* What a slot holds belongs to its state; n connect ids have been made.
Held(p, n) ==
    /\ p \in Peer
    /\ p.connectID <= n /\ p.before[1] <= n
    /\ IsFiniteSet(p.acks) /\ \A c \in p.acks : c.kind = "ack"
    /\ p.state = "DISCONNECTED" => p.connectID = 0
    /\ p.state = "CONNECTING" \/ p.state \in Known => p.connectID > 0
    /\ p.state \in Known =>
        p.outgoingPeerID # NoSlot /\ p.incomingSession \in Sessions /\ p.outgoingSession \in Sessions

\* The slots of a host, no two of them with the same connection.
SlotsInv(slots, n) ==
    /\ slots \in [Slots -> Peer]
    /\ \A i \in Slots : Held(slots[i], n)
    /\ \A i, j \in Slots : i # j /\ slots[i].connectID = slots[j].connectID => slots[i].connectID = 0

\* Connect id k is one of the slot's own attempts.
Asks(c, k) == c.kind = "connect" /\ c.connectID = k
Own(p, k) ==
    \/ p.state = "CONNECTING" /\ p.connectID = k
    \/ \E i \in DOMAIN p.queue : Asks(p.queue[i], k)
    \/ \E c \in p.sent : Asks(c, k)
AsksNoMore(q, p) == \A k : Own(q, k) => Own(p, k)
Named(slots, k) == \E i \in Slots : Own(slots[i], k)
Carries(d, k) == \E i \in DOMAIN d.commands : Asks(d.commands[i], k)
Made(slots, network, h, k) == Named(slots, k) \/ \E d \in network : d.from = h /\ Carries(d, k)

NetType ==
    [from : Hosts, peerID : Slots \cup {NoSlot}, of : Nat \X Nat, session : Session, commands : Seq(Cmd)]

DoneType == [connects : Nat, endings : Nat, restarts : Nat, configures : Nat, packets : Nat,
             resends : Nat]

IdsInv ==
    /\ done.connects \in 0 .. MaxConnects
    /\ \A h \in Hosts : \A k : Made(peers[h], net, h, k) => k \in 1 .. done.connects
    /\ \A k : ~ (Made(peers[1], net, 1, k) /\ Made(peers[2], net, 2, k))

HandshakeInv ==
    /\ setting \in Settings
    /\ peers \in [Hosts -> [Slots -> Peer]]
    /\ \A h \in Hosts : SlotsInv(peers[h], done.connects)
    /\ net \subseteq NetType
    /\ agreed \subseteq 1 .. MaxConnects
    /\ done \in DoneType
    /\ answers \in [1 .. MaxConnects -> Nat]
    /\ IdsInv

-----------------------------------------------------------------------------
(* The constants of a part.                                                *)

LEMMA Numbering ==
    ASSUME setting \in Settings
    PROVE  /\ SessionCount \in Nat /\ SessionCount >= 2
           /\ setting.peerCount \in Nat /\ setting.peerCount >= 1
           /\ Slots \subseteq Nat /\ NoSlot \notin Slots
           /\ MaxConnects \in Nat
           /\ Sessions \subseteq Nat
<1>1. SessionCount \in Nat /\ SessionCount >= 2
  BY CountsAssumption
<1>2. /\ setting.peerCount \in Nat \ {0}
      /\ {setting.connects, setting.endings, setting.restarts, setting.configures,
          setting.packets, setting.resends} \subseteq Nat
  BY SettingsAssumption
<1>3. setting.peerCount \in Nat /\ setting.peerCount >= 1
  BY <1>2
<1>4. Slots \subseteq Nat /\ NoSlot \notin Slots
  BY <1>3 DEF Slots, NoSlot
<1>5. MaxConnects \in Nat
  BY <1>2 DEF MaxConnects
<1>6. Sessions \subseteq Nat
  BY <1>1 DEF Sessions
<1> QED BY <1>1, <1>3, <1>4, <1>5, <1>6

LEMMA Ends2 == Hosts = {1, 2} /\ \A h \in Hosts : Other(h) \in Hosts /\ Other(h) # h /\ Other(Other(h)) = h
  BY DEF Hosts, Other

\* A session that is not the own one.
LEMMA NextSessionIs ==
    ASSUME setting \in Settings, NEW asked \in Session, NEW own \in Session
    PROVE  NextSession(asked, own) \in Sessions
<1> DEFINE next == ((IF asked = NoSession THEN own ELSE asked) + 1) % SessionCount
<1>1. SessionCount \in Nat \ {0} /\ asked \in Nat /\ own \in Nat
  BY Numbering DEF Session, NoSession
<1>2. \A x \in Nat : (x + 1) % SessionCount \in Sessions
  BY <1>1, DivMod DEF Sessions
<1>3. next \in Sessions
  BY <1>1, <1>2
<1>4. next \in Nat
  BY <1>3, Numbering
<1>5. NextSession(asked, own) = IF next = own THEN (next + 1) % SessionCount ELSE next
  BY DEF NextSession
<1> HIDE DEF next
<1> QED BY <1>2, <1>3, <1>4, <1>5

LEMMA LeastFree ==
    ASSUME setting \in Settings, NEW slots, Free(slots) # {}
    PROVE  /\ Min(Free(slots)) \in Slots
           /\ slots[Min(Free(slots))].state = "DISCONNECTED"
<1>1. Free(slots) \in SUBSET Nat
  BY Numbering DEF Free
<1>2. \E m \in Free(slots) : \A k \in Free(slots) : m <= k
  BY <1>1, Least
<1>3. Min(Free(slots)) \in Free(slots)
  BY <1>2, Zenon DEF Min
<1> QED BY <1>3 DEF Free

LEMMA CommandIs ==
    ASSUME setting \in Settings, NEW kind \in {"ack", "disconnect", "throttle", "packet"}
    PROVE  Command(kind) \in Cmd /\ Command(kind).kind = kind
<1>1. NoSession \in Session /\ 0 \in Throttles
  BY DEF Session, Throttles
<1> QED BY <1>1 DEF Command, Cmd

\* What is known of a command.
LEMMA CmdFacts ==
    ASSUME NEW c \in Cmd
    PROVE  /\ c.kind \in {"connect", "verify", "ack", "disconnect", "throttle", "packet"}
           /\ c.number \in Nat /\ c.answers \in Nat /\ c.connectID \in Nat
           /\ c.peerID \in Slots \cup {NoSlot}
           /\ c.incomingSession \in Session /\ c.outgoingSession \in Session
           /\ c.throttle \in Throttles /\ c.answer \in Nat
           /\ c.kind \in {"connect", "verify"} => c.peerID \in Slots
           /\ c.kind = "verify" => c.incomingSession \in Sessions /\ c.outgoingSession \in Sessions
           /\ \A n \in Nat : [c EXCEPT !.number = n] \in Cmd
           /\ \A n : [c EXCEPT !.number = n].kind = c.kind /\ [c EXCEPT !.number = n].connectID = c.connectID
  BY DEF Cmd

-----------------------------------------------------------------------------
(* Changes of a slot.                                                      *)

LEMMA FreshHeld ==
    ASSUME setting \in Settings, NEW n \in Nat
    PROVE  Held(Fresh, n) /\ Fresh.connectID = 0 /\ \A k : ~ Own(Fresh, k)
<1>1. Fresh \in Peer
  BY DEF Fresh, Peer, PeerStates, Session, Throttles
<1>2. IsFiniteSet({})
  BY FS_EmptySet
<1>3. Held(Fresh, n)
  BY <1>1, <1>2 DEF Held, Fresh, Known
<1>4. \A k : ~ Own(Fresh, k)
  BY DEF Own, Fresh
<1> QED BY <1>3, <1>4 DEF Fresh

LEMMA ResetHeld ==
    ASSUME setting \in Settings, NEW n \in Nat, NEW p, Held(p, n)
    PROVE  Held(Reset(p), n) /\ Reset(p).connectID = 0 /\ \A k : ~ Own(Reset(p), k)
<1> DEFINE r == Reset(p)
<1>1. p \in Peer
  BY DEF Held
<1>2. /\ r \in Peer /\ r.state = "DISCONNECTED" /\ r.connectID = 0 /\ r.acks = {} /\ r.queue = << >>
      /\ r.sent = {} /\ r.before \in {p.before, Connection(p)}
  <2> DEFINE b == IF p.outgoingPeerID = NoSlot THEN p.before ELSE Connection(p)
  <2>1. b \in Nat \X Nat /\ b \in {p.before, Connection(p)}
    BY <1>1 DEF Peer, Connection
  <2>2. p.incomingSession \in Session /\ p.outgoingSession \in Session
    BY <1>1 DEF Peer
  <2>3. r = [Fresh EXCEPT !.incomingSession = p.incomingSession,
                          !.outgoingSession = p.outgoingSession, !.before = b]
    BY DEF Reset
  <2>4. Fresh \in Peer
    BY FreshHeld DEF Held
  <2>5. /\ Fresh.state = "DISCONNECTED" /\ Fresh.connectID = 0 /\ Fresh.acks = {}
        /\ Fresh.queue = << >> /\ Fresh.sent = {}
    BY DEF Fresh
  <2> HIDE DEF b, r
  <2>6. r \in Peer
    BY <2>1, <2>2, <2>3, <2>4 DEF Peer
  <2>7. /\ r.state = Fresh.state /\ r.connectID = Fresh.connectID /\ r.acks = Fresh.acks
        /\ r.queue = Fresh.queue /\ r.sent = Fresh.sent /\ r.before = b
    BY <2>3, <2>4 DEF Peer
  <2> QED BY <2>1, <2>5, <2>6, <2>7
<1>3. IsFiniteSet({})
  BY FS_EmptySet
<1>4. Held(r, n)
  <2> HIDE DEF r
  <2>1. p.before[1] <= n /\ Connection(p)[1] <= n
    BY DEF Held, Connection
  <2>2. r.before[1] <= n
    BY <1>2, <2>1
  <2> QED BY <1>2, <1>3, <2>2 DEF Held, Known
<1>5. \A k : ~ Own(r, k)
  <2> HIDE DEF r
  <2> QED BY <1>2 DEF Own
<1> QED BY <1>2, <1>4, <1>5

LEMMA QueueHeld ==
    ASSUME setting \in Settings, NEW n \in Nat, NEW p, Held(p, n), NEW c \in Cmd
    PROVE  /\ Held(Queue(p, c), n) /\ Queue(p, c).connectID = p.connectID
           /\ \A k : Own(Queue(p, c), k) => Own(p, k) \/ Asks(c, k)
<1> DEFINE q == Queue(p, c)
           d == [c EXCEPT !.number = p.number + 1]
<1>1. p \in Peer /\ p.number \in Nat /\ p.queue \in Seq(Cmd)
  BY DEF Held, Peer
<1>2. d \in Cmd /\ d.kind = c.kind /\ d.connectID = c.connectID
  <2>1. p.number + 1 \in Nat
    BY <1>1
  <2> QED BY <2>1, CmdFacts
<1>3. q = [p EXCEPT !.number = p.number + 1, !.queue = Append(p.queue, d)]
  BY DEF Queue
<1> HIDE DEF d, q
<1>4. Append(p.queue, d) \in Seq(Cmd)
  BY <1>1, <1>2, AppendProperties
<1>5. /\ q \in Peer /\ q.state = p.state /\ q.connectID = p.connectID /\ q.acks = p.acks
      /\ q.sent = p.sent /\ q.before = p.before /\ q.outgoingPeerID = p.outgoingPeerID
      /\ q.incomingSession = p.incomingSession /\ q.outgoingSession = p.outgoingSession
      /\ q.queue = Append(p.queue, d)
  <2>1. q \in Peer
    <3>1. p.number + 1 \in Nat
      BY <1>1
    <3> QED BY <1>1, <1>3, <1>4, <3>1 DEF Peer
  <2>2. \A f \in {"state", "connectID", "acks", "sent", "before", "outgoingPeerID",
                  "incomingSession", "outgoingSession"} : q[f] = p[f]
    BY <1>1, <1>3 DEF Peer
  <2>3. q.queue = Append(p.queue, d)
    BY <1>1, <1>3 DEF Peer
  <2> QED BY <2>1, <2>2, <2>3
<1>6. Held(q, n)
  BY <1>5 DEF Held
<1>7. ASSUME NEW k, Own(q, k) PROVE Own(p, k) \/ Asks(c, k)
  <2>1. CASE \E i \in DOMAIN q.queue : Asks(q.queue[i], k)
    <3>1. PICK i \in DOMAIN q.queue : Asks(q.queue[i], k)
      BY <2>1
    <3>2. i \in 1 .. Len(p.queue) + 1
      BY <3>1, <1>1, <1>2, <1>5, AppendProperties
    <3>3. Len(p.queue) \in Nat /\ DOMAIN p.queue = 1 .. Len(p.queue)
      BY <1>1, LenProperties
    <3>4. q.queue[i] = IF i = Len(p.queue) + 1 THEN d ELSE p.queue[i]
      BY <3>2, <3>3, <1>1, <1>2, <1>5, AppendProperties
    <3>5. CASE i = Len(p.queue) + 1
      BY <3>1, <3>4, <3>5, <1>2 DEF Asks
    <3>6. CASE i # Len(p.queue) + 1
      <4>1. i \in DOMAIN p.queue
        BY <3>2, <3>3, <3>6
      <4> QED BY <3>1, <3>4, <3>6, <4>1 DEF Own
    <3> QED BY <3>5, <3>6
  <2>2. CASE ~ \E i \in DOMAIN q.queue : Asks(q.queue[i], k)
    BY <1>5, <1>7, <2>2 DEF Own
  <2> QED BY <2>1, <2>2
<1> QED BY <1>5, <1>6, <1>7 DEF q

-----------------------------------------------------------------------------
(* Changes of a host.                                                      *)

LEMMA HeldOn ==
    ASSUME NEW n \in Nat, NEW m \in Nat, n <= m, NEW p, Held(p, n)
    PROVE  Held(p, m)
<1>1. p.connectID \in Nat /\ p.before[1] \in Nat
  BY DEF Held, Peer
<1> QED BY <1>1 DEF Held

\* A slot is given q, which keeps the connection, ends it or has one that no slot has.
LEMMA OneSlot ==
    ASSUME NEW n \in Nat, NEW m \in Nat, n <= m, NEW slots, SlotsInv(slots, n),
           NEW i \in Slots, NEW q, Held(q, m),
           \A j \in Slots \ {i} : q.connectID = slots[j].connectID => q.connectID = 0
    PROVE  /\ SlotsInv([slots EXCEPT ![i] = q], m)
           /\ \A k : Named([slots EXCEPT ![i] = q], k) => Named(slots, k) \/ Own(q, k)
<1> DEFINE r == [slots EXCEPT ![i] = q]
<1>1. slots \in [Slots -> Peer] /\ q \in Peer
  BY DEF SlotsInv, Held
<1>2. /\ r \in [Slots -> Peer] /\ r[i] = q
      /\ \A j \in Slots \ {i} : r[j] = slots[j]
  BY <1>1
<1> HIDE DEF r
<1>3. ASSUME NEW j \in Slots PROVE Held(r[j], m)
  <2>1. Held(slots[j], m)
    BY HeldOn DEF SlotsInv
  <2> QED BY <1>2, <2>1
<1>4. ASSUME NEW j \in Slots, NEW l \in Slots, j # l, r[j].connectID = r[l].connectID
      PROVE  r[j].connectID = 0
  <2>1. CASE j = i
    BY <1>2, <1>4, <2>1
  <2>2. CASE l = i
    BY <1>2, <1>4, <2>2
  <2>3. CASE j # i /\ l # i
    BY <1>2, <1>4, <2>3 DEF SlotsInv
  <2> QED BY <2>1, <2>2, <2>3
<1>5. SlotsInv(r, m)
  BY <1>2, <1>3, <1>4 DEF SlotsInv
<1>6. ASSUME NEW k, Named(r, k) PROVE Named(slots, k) \/ Own(q, k)
  <2>1. PICK j \in Slots : Own(r[j], k)
    BY <1>6 DEF Named
  <2> QED BY <2>1, <1>2 DEF Named
<1> QED BY <1>5, <1>6 DEF r

\* The same for a q that keeps the connection of its slot, or ends it.
LEMMA SameSlot ==
    ASSUME NEW n \in Nat, NEW slots, SlotsInv(slots, n), NEW i \in Slots, NEW q, Held(q, n),
           q.connectID \in {slots[i].connectID, 0},
           AsksNoMore(q, slots[i])
    PROVE  /\ SlotsInv([slots EXCEPT ![i] = q], n)
           /\ \A k : Named([slots EXCEPT ![i] = q], k) => Named(slots, k)
<1>1. \A j \in Slots \ {i} : q.connectID = slots[j].connectID => q.connectID = 0
  BY DEF SlotsInv
<1>2. /\ SlotsInv([slots EXCEPT ![i] = q], n)
      /\ \A k : Named([slots EXCEPT ![i] = q], k) => Named(slots, k) \/ Own(q, k)
  <2>1. n <= n
    OBVIOUS
  <2> QED BY <1>1, <2>1, OneSlot
<1>3. \A k : Own(q, k) => Named(slots, k)
  BY DEF Named, AsksNoMore
<1> QED BY <1>2, <1>3

-----------------------------------------------------------------------------
(* The handlers.  Where a datagram begins, the slots are old.              *)

Result == [slots : [Slots -> Peer], slot : Slots \cup {NoSlot}, stop : BOOLEAN]

Handling(old, n) ==
    {s \in Result : SlotsInv(s.slots, n) /\ \A k : Named(s.slots, k) => Named(old, k)}

LEMMA HandlingFacts ==
    ASSUME NEW old, NEW n, NEW s \in Handling(old, n)
    PROVE  /\ s \in Result
           /\ s.slots \in [Slots -> Peer] /\ s.slot \in Slots \cup {NoSlot}
           /\ SlotsInv(s.slots, n)
           /\ \A k : Named(s.slots, k) => Named(old, k)
  BY DEF Handling, Result

\* A handler that changes slot i to q.
LEMMA Becomes ==
    ASSUME NEW n \in Nat, NEW old, NEW s \in Handling(old, n), NEW i \in Slots, NEW q, Held(q, n),
           q.connectID \in {s.slots[i].connectID, 0},
           AsksNoMore(q, s.slots[i]),
           NEW r \in Result, r.slots = [s.slots EXCEPT ![i] = q]
    PROVE  r \in Handling(old, n)
<1>1. SlotsInv(s.slots, n) /\ \A k : Named(s.slots, k) => Named(old, k)
  BY HandlingFacts
<1>2. /\ SlotsInv(r.slots, n)
      /\ \A k : Named(r.slots, k) => Named(s.slots, k)
  BY <1>1, SameSlot
<1> QED BY <1>1, <1>2 DEF Handling

LEMMA Stops ==
    ASSUME NEW old, NEW n, NEW s \in Handling(old, n)
    PROVE  [s EXCEPT !.stop = TRUE] \in Handling(old, n)
<1>1. s \in Result
  BY HandlingFacts
<1>2. [s EXCEPT !.stop = TRUE] \in Result
  BY <1>1 DEF Result
<1>3. [s EXCEPT !.stop = TRUE].slots = s.slots
  BY <1>1 DEF Result
<1> QED BY <1>2, <1>3, HandlingFacts DEF Handling

LEMMA ConnectHandled ==
    ASSUME setting \in Settings, NEW n \in Nat, NEW old, NEW s \in Handling(old, n),
           NEW c \in Cmd, c.kind = "connect", c.connectID \in 1 .. n, ~ Named(old, c.connectID),
           answers[c.connectID] \in Nat
    PROVE  HandleConnect(s, c) \in Handling(old, n)
<1> DEFINE i == Min(Free(s.slots))
           p == s.slots[i]
           incoming == NextSession(c.incomingSession, p.outgoingSession)
           outgoing == NextSession(c.outgoingSession, p.incomingSession)
           q == [p EXCEPT !.state = "ACKNOWLEDGING_CONNECT", !.connectID = c.connectID,
                          !.outgoingPeerID = c.peerID, !.throttle = c.throttle,
                          !.outgoingSession = incoming, !.incomingSession = outgoing,
                          !.answer = answers[c.connectID] + 1]
           verify == [Command("verify") EXCEPT
                         !.connectID = c.connectID, !.peerID = i, !.throttle = q.throttle,
                         !.incomingSession = incoming, !.outgoingSession = outgoing,
                         !.answer = q.answer]
           r == Queue(q, verify)
<1>1. CASE ~ (s.slot = NoSlot /\ Acceptable(s.slots, c))
  BY <1>1, Stops DEF HandleConnect
<1>2. CASE s.slot = NoSlot /\ Acceptable(s.slots, c)
  <2>1. HandleConnect(s, c) = [s EXCEPT !.slots[i] = r, !.slot = i]
    BY <1>2 DEF HandleConnect
  <2>2. i \in Slots /\ p.state = "DISCONNECTED"
    BY <1>2, LeastFree DEF Acceptable
  <2>3. p \in Peer /\ Held(p, n)
    BY <2>2, HandlingFacts DEF SlotsInv
  <2>4. /\ p.acks \in SUBSET Cmd /\ p.queue \in Seq(Cmd) /\ p.sent \in SUBSET Cmd
        /\ p.incomingSession \in Session /\ p.outgoingSession \in Session
        /\ p.before \in Nat \X Nat /\ p.number \in Nat
    BY <2>3 DEF Peer
  <2>5. /\ c.incomingSession \in Session /\ c.outgoingSession \in Session /\ c.peerID \in Slots
        /\ c.connectID \in Nat /\ c.connectID > 0 /\ c.connectID <= n
        /\ c.throttle \in Throttles /\ answers[c.connectID] + 1 \in Nat
    BY CmdFacts
  <2>6. incoming \in Sessions /\ outgoing \in Sessions
    BY <2>4, <2>5, NextSessionIs
  <2>7. Sessions \subseteq Session /\ NoSlot \notin Slots
    BY Numbering DEF Session
  <2>8. /\ q \in Peer /\ q.state = "ACKNOWLEDGING_CONNECT" /\ q.connectID = c.connectID
        /\ q.outgoingPeerID = c.peerID /\ q.outgoingSession = incoming
        /\ q.incomingSession = outgoing /\ q.acks = p.acks /\ q.queue = p.queue
        /\ q.sent = p.sent /\ q.before = p.before
        /\ q.throttle \in Throttles /\ q.answer \in Nat
    <3> HIDE DEF incoming, outgoing, p
    <3> QED BY <2>3, <2>5, <2>6, <2>7 DEF Peer, PeerStates, Known
  <2>9. verify \in Cmd /\ verify.kind = "verify"
    <3> HIDE DEF incoming, outgoing, i, q
    <3> QED BY <2>2, <2>5, <2>6, <2>7, <2>8 DEF Command, Cmd
  <2>10. Held(q, n)
    <3> HIDE DEF q, incoming, outgoing, p
    <3> QED BY <2>3, <2>5, <2>6, <2>7, <2>8 DEF Held, Known
  <2>11. /\ Held(r, n) /\ r.connectID = c.connectID
         /\ \A k : Own(r, k) => Own(q, k) \/ Asks(verify, k)
    <3> HIDE DEF q, verify
    <3> QED BY <2>8, <2>9, <2>10, QueueHeld DEF Held
  <2>12. \A k : Own(r, k) => Own(p, k)
    <3> HIDE DEF q, verify, p, r
    <3>1. \A k : Own(q, k) => Own(p, k)
      BY <2>8 DEF Own
    <3>2. \A k : ~ Asks(verify, k)
      BY <2>9 DEF Asks
    <3> QED BY <2>11, <3>1, <3>2
  <2> HIDE DEF r, q, verify, incoming, outgoing
  <2>13. ASSUME NEW j \in Slots \ {i}, r.connectID = s.slots[j].connectID PROVE r.connectID = 0
    <3>1. Held(s.slots[j], n)
      BY HandlingFacts DEF SlotsInv
    <3>2. s.slots[j].state # "DISCONNECTED"
      BY <3>1, <2>5, <2>11, <2>13 DEF Held
    <3>3. s.slots[j].state # "CONNECTING"
      <4> SUFFICES ASSUME s.slots[j].state = "CONNECTING" PROVE FALSE
        OBVIOUS
      <4>1. Named(s.slots, c.connectID)
        BY <2>11, <2>13 DEF Named, Own
      <4> QED BY <4>1, HandlingFacts
    <3>4. s.slots[j].connectID # c.connectID
      BY <3>2, <3>3, <1>2 DEF Acceptable
    <3> QED BY <3>4, <2>11, <2>13
  <2>14. /\ SlotsInv([s.slots EXCEPT ![i] = r], n)
         /\ \A k : Named([s.slots EXCEPT ![i] = r], k) => Named(s.slots, k) \/ Own(r, k)
    <3> HIDE DEF i
    <3>1. SlotsInv(s.slots, n)
      BY HandlingFacts
    <3>2. n <= n
      OBVIOUS
    <3> QED BY <3>1, <3>2, <2>2, <2>11, <2>13, OneSlot
  <2>15. \A k : Named([s.slots EXCEPT ![i] = r], k) => Named(old, k)
    BY <2>2, <2>12, <2>14, HandlingFacts DEF Named
  <2>16. /\ [s EXCEPT !.slots[i] = r, !.slot = i] \in Result
         /\ [s EXCEPT !.slots[i] = r, !.slot = i].slots = [s.slots EXCEPT ![i] = r]
    <3> HIDE DEF i
    <3>1. r \in Peer /\ s \in Result /\ i \in Slots
      BY <2>2, <2>11, HandlingFacts DEF Held
    <3>2. [s EXCEPT !.slots[i] = r, !.slot = i] \in Result
      BY <3>1 DEF Result
    <3>3. [s EXCEPT !.slots[i] = r, !.slot = i].slots = [s.slots EXCEPT ![i] = r]
      BY <3>1 DEF Result
    <3> QED BY <3>2, <3>3
  <2> QED BY <2>1, <2>14, <2>15, <2>16 DEF Handling
<1> QED BY <1>1, <1>2

\* Fewer commands.
LEMMA RemoveHeld ==
    ASSUME setting \in Settings, NEW n \in Nat, NEW p, Held(p, n), NEW number
    PROVE  /\ Held(RemoveSent(p, number), n)
           /\ RemoveSent(p, number).connectID = p.connectID
           /\ RemoveSent(p, number).state = p.state
           /\ AsksNoMore(RemoveSent(p, number), p)
<1> DEFINE s == {c \in p.sent : c.number # number}
           r == RemoveSent(p, number)
<1>1. p \in Peer
  BY DEF Held
<1>2. s \in SUBSET Cmd /\ s \subseteq p.sent
  BY <1>1 DEF Peer
<1>3. r = [p EXCEPT !.sent = s]
  BY DEF RemoveSent
<1> HIDE DEF s, r
<1>4. r \in Peer
  BY <1>1, <1>2, <1>3 DEF Peer
<1>5. /\ r.state = p.state /\ r.connectID = p.connectID /\ r.acks = p.acks /\ r.queue = p.queue
      /\ r.before = p.before /\ r.outgoingPeerID = p.outgoingPeerID
      /\ r.incomingSession = p.incomingSession /\ r.outgoingSession = p.outgoingSession
      /\ r.sent = s
  BY <1>1, <1>3 DEF Peer
<1>6. Held(r, n)
  BY <1>4, <1>5 DEF Held
<1>7. AsksNoMore(r, p)
  BY <1>2, <1>5 DEF Own, AsksNoMore
<1> QED BY <1>5, <1>6, <1>7 DEF r

LEMMA ResetQueuesIs ==
    ASSUME setting \in Settings, NEW p \in Peer
    PROVE  /\ ResetQueues(p) \in Peer
           /\ ResetQueues(p).connectID = p.connectID /\ ResetQueues(p).before = p.before
           /\ ResetQueues(p).acks = {} /\ ResetQueues(p).queue = << >> /\ ResetQueues(p).sent = {}
           /\ ResetQueues(p).outgoingPeerID = p.outgoingPeerID
           /\ ResetQueues(p).incomingSession = p.incomingSession
           /\ ResetQueues(p).outgoingSession = p.outgoingSession
<1>1. << >> \in Seq(Cmd) /\ {} \in SUBSET Cmd
  OBVIOUS
<1>2. ResetQueues(p) \in Peer
  BY <1>1 DEF ResetQueues, Peer
<1>3. ResetQueues(p).connectID = p.connectID /\ ResetQueues(p).before = p.before
  BY DEF ResetQueues, Peer
<1>4. ResetQueues(p).acks = {} /\ ResetQueues(p).queue = << >> /\ ResetQueues(p).sent = {}
  BY DEF ResetQueues, Peer
<1>5. \A f \in {"outgoingPeerID", "incomingSession", "outgoingSession"} : ResetQueues(p)[f] = p[f]
  BY DEF ResetQueues, Peer
<1> QED BY <1>2, <1>3, <1>4, <1>5

\* A slot is left to be reported, or to end in another way when its other end is known.
LEMMA EndsHeld ==
    ASSUME setting \in Settings, NEW n \in Nat, NEW p, Held(p, n), NEW q \in {p, ResetQueues(p)},
           NEW state \in PeerStates \ {"DISCONNECTED", "CONNECTING"},
           state = "ZOMBIE" \/ p.state \in Known
    PROVE  /\ Held([q EXCEPT !.state = state], n)
           /\ [q EXCEPT !.state = state].connectID = p.connectID
           /\ AsksNoMore([q EXCEPT !.state = state], p)
<1> DEFINE r == [q EXCEPT !.state = state]
<1>1. p \in Peer
  BY DEF Held
<1>2. /\ q \in Peer /\ q.connectID = p.connectID /\ q.before = p.before
      /\ q.queue \in {p.queue, << >>} /\ q.sent \in {p.sent, {}} /\ q.acks \in {p.acks, {}}
      /\ q.outgoingPeerID = p.outgoingPeerID /\ q.incomingSession = p.incomingSession
      /\ q.outgoingSession = p.outgoingSession
  <2>1. CASE q = p
    BY <2>1, <1>1
  <2>2. CASE q = ResetQueues(p)
    BY <2>2, <1>1, ResetQueuesIs
  <2> QED BY <2>1, <2>2
<1>3. r \in Peer
  BY <1>2 DEF Peer
<1>4. /\ r.state = state /\ r.connectID = p.connectID /\ r.before = p.before
      /\ r.queue = q.queue /\ r.sent = q.sent /\ r.acks = q.acks
      /\ r.outgoingPeerID = p.outgoingPeerID /\ r.incomingSession = p.incomingSession
      /\ r.outgoingSession = p.outgoingSession
  BY <1>2 DEF Peer
<1>5. IsFiniteSet({})
  BY FS_EmptySet
<1>6. "ZOMBIE" \notin Known
  BY DEF Known
<1> HIDE DEF r
<1>7. Held(r, n)
  BY <1>2, <1>3, <1>4, <1>5, <1>6 DEF Held
<1>8. AsksNoMore(r, p)
  BY <1>2, <1>4 DEF Own, AsksNoMore
<1> QED BY <1>4, <1>7, <1>8 DEF r

\* The slot of a datagram that is not for the whole host.
LEMMA SlotHeld ==
    ASSUME NEW old, NEW n, NEW s \in Handling(old, n), s.slot # NoSlot
    PROVE  s.slot \in Slots /\ s.slots[s.slot] \in Peer /\ Held(s.slots[s.slot], n)
<1>1. s.slot \in Slots
  BY HandlingFacts
<1> QED BY <1>1, HandlingFacts DEF SlotsInv, Held

\* The datagram's slot changes to q, and the datagram is done with or not.
With(s, q) == [s EXCEPT !.slots[s.slot] = q]
Done(s, q) == [s EXCEPT !.slots[s.slot] = q, !.stop = TRUE]

LEMMA SlotChanges ==
    ASSUME NEW s \in Result, s.slot \in Slots, NEW q \in Peer
    PROVE  /\ With(s, q) \in Result /\ With(s, q).slots = [s.slots EXCEPT ![s.slot] = q]
           /\ Done(s, q) \in Result /\ Done(s, q).slots = [s.slots EXCEPT ![s.slot] = q]
<1>1. With(s, q) \in Result
  BY DEF Result, With
<1>2. With(s, q).slots = [s.slots EXCEPT ![s.slot] = q]
  BY DEF Result, With
<1>3. Done(s, q) \in Result
  BY DEF Result, Done
<1>4. Done(s, q).slots = [s.slots EXCEPT ![s.slot] = q]
  BY DEF Result, Done
<1> QED BY <1>1, <1>2, <1>3, <1>4

LEMMA SlotBecomes ==
    ASSUME NEW n \in Nat, NEW old, NEW s \in Handling(old, n), s.slot # NoSlot, NEW q, Held(q, n),
           q.connectID \in {s.slots[s.slot].connectID, 0}, AsksNoMore(q, s.slots[s.slot])
    PROVE  With(s, q) \in Handling(old, n) /\ Done(s, q) \in Handling(old, n)
<1>1. q \in Peer /\ s.slot \in Slots /\ s \in Result
  BY SlotHeld, HandlingFacts DEF Held
<1>2. /\ With(s, q) \in Result /\ With(s, q).slots = [s.slots EXCEPT ![s.slot] = q]
      /\ Done(s, q) \in Result /\ Done(s, q).slots = [s.slots EXCEPT ![s.slot] = q]
  BY <1>1, SlotChanges
<1> QED BY <1>1, <1>2, Becomes

LEMMA VerifyHandled ==
    ASSUME setting \in Settings, NEW n \in Nat, NEW old, NEW s \in Handling(old, n),
           s.slot # NoSlot, NEW c \in Cmd, c.kind = "verify"
    PROVE  HandleVerifyConnect(s, c) \in Handling(old, n)
<1> DEFINE p == s.slots[s.slot]
           q == [p EXCEPT !.state = "ZOMBIE"]
           r == RemoveSent(p, 1)
           u == [r EXCEPT !.state = "CONNECTED", !.outgoingPeerID = c.peerID,
                          !.incomingSession = c.incomingSession,
                          !.outgoingSession = c.outgoingSession, !.answer = c.answer]
<1>1. Held(p, n) /\ p \in Peer /\ s.slot \in Slots
  BY SlotHeld
<1>2. CASE p.state # "CONNECTING"
  BY <1>2 DEF HandleVerifyConnect
<1>3. CASE p.state = "CONNECTING" /\ Verifies(p, c)
  <2>1. HandleVerifyConnect(s, c) = With(s, u)
    BY <1>3 DEF HandleVerifyConnect, With
  <2>2. /\ Held(r, n) /\ r.connectID = p.connectID /\ r.state = p.state
        /\ AsksNoMore(r, p)
    BY <1>1, RemoveHeld
  <2>3. r \in Peer /\ r.connectID > 0 /\ r.connectID <= n /\ r.before[1] <= n
    BY <1>3, <2>2 DEF Held
  <2>4. /\ c.peerID \in Slots /\ c.peerID # NoSlot
        /\ c.incomingSession \in Sessions /\ c.outgoingSession \in Sessions /\ c.answer \in Nat
    BY CmdFacts, Numbering
  <2>5. Sessions \subseteq Session
    BY DEF Session
  <2> HIDE DEF p, r
  <2>6. u \in Peer
    BY <2>3, <2>4, <2>5 DEF Peer, PeerStates, Known
  <2>7. /\ u.state = "CONNECTED" /\ u.outgoingPeerID = c.peerID
        /\ u.incomingSession = c.incomingSession /\ u.outgoingSession = c.outgoingSession
        /\ u.connectID = r.connectID /\ u.before = r.before /\ u.acks = r.acks
        /\ u.queue = r.queue /\ u.sent = r.sent
    BY <2>3 DEF Peer
  <2> HIDE DEF u
  <2>8. Held(u, n)
    BY <2>2, <2>3, <2>4, <2>6, <2>7 DEF Held, Known
  <2>9. AsksNoMore(u, r)
    BY <2>7 DEF Own, AsksNoMore
  <2>10. AsksNoMore(u, s.slots[s.slot])
    BY <2>2, <2>9 DEF p, AsksNoMore
  <2>11. u.connectID \in {s.slots[s.slot].connectID, 0}
    BY <2>2, <2>7 DEF p
  <2> QED BY <2>1, <2>8, <2>10, <2>11, SlotBecomes
<1>4. CASE p.state = "CONNECTING" /\ ~ Verifies(p, c)
  <2>1. HandleVerifyConnect(s, c) = [s EXCEPT !.slots[s.slot].state = "ZOMBIE", !.stop = TRUE]
    BY <1>4 DEF HandleVerifyConnect
  <2>2. [s EXCEPT !.slots[s.slot].state = "ZOMBIE", !.stop = TRUE] = Done(s, q)
    BY DEF Done
  <2>3. Held(q, n) /\ q.connectID = p.connectID /\ AsksNoMore(q, p)
    <3>1. "ZOMBIE" \in PeerStates \ {"DISCONNECTED", "CONNECTING"}
      BY DEF PeerStates
    <3> QED BY <1>1, <3>1, EndsHeld
  <2>4. q.connectID \in {s.slots[s.slot].connectID, 0}
    BY <2>3
  <2>5. Done(s, q) \in Handling(old, n)
    <3> HIDE DEF q
    <3> QED BY <2>3, <2>4, SlotBecomes
  <2> QED BY <2>1, <2>2, <2>5
<1> QED BY <1>2, <1>3, <1>4

LEMMA AcknowledgeHandled ==
    ASSUME setting \in Settings, NEW n \in Nat, NEW old, NEW s \in Handling(old, n),
           s.slot # NoSlot, NEW number
    PROVE  HandleAcknowledge(s, number) \in Handling(old, n)
<1> DEFINE p == s.slots[s.slot]
           r == RemoveSent(p, number)
           u == [r EXCEPT !.state = "CONNECTED"]
<1>1. Held(p, n) /\ p \in Peer /\ s.slot \in Slots
  BY SlotHeld
<1>2. /\ Held(r, n) /\ r.connectID = p.connectID /\ r.state = p.state
      /\ AsksNoMore(r, p)
  BY <1>1, RemoveHeld
<1>3. With(s, r) \in Handling(old, n) /\ Done(s, r) \in Handling(old, n)
  <2> HIDE DEF r
  <2> QED BY <1>2, SlotBecomes
<1>4. CASE p.state = "ACKNOWLEDGING_CONNECT" /\ Acknowledged(p, "verify", number)
  <2>1. "CONNECTED" \in PeerStates \ {"DISCONNECTED", "CONNECTING"} /\ p.state \in Known
    BY <1>4 DEF PeerStates, Known
  <2>2. Held(u, n) /\ u.connectID = r.connectID /\ AsksNoMore(u, r)
    <3> HIDE DEF r
    <3> QED BY <1>2, <2>1, EndsHeld
  <2>3. AsksNoMore(u, s.slots[s.slot]) /\ u.connectID \in {s.slots[s.slot].connectID, 0}
    <3> HIDE DEF u, r
    <3> QED BY <1>2, <2>2 DEF AsksNoMore, p
  <2>4. With(s, u) \in Handling(old, n)
    <3> HIDE DEF u
    <3> QED BY <2>2, <2>3, SlotBecomes
  <2>5. HandleAcknowledge(s, number) = With(s, u)
    BY <1>4 DEF HandleAcknowledge, With
  <2> QED BY <2>4, <2>5
<1>5. CASE p.state = "DISCONNECTING" /\ Acknowledged(p, "disconnect", number)
  <2>1. Held(Reset(r), n) /\ Reset(r).connectID = 0 /\ \A k : ~ Own(Reset(r), k)
    <3> HIDE DEF r
    <3> QED BY <1>2, ResetHeld
  <2>2. AsksNoMore(Reset(r), p)
    BY <2>1 DEF AsksNoMore
  <2>3. With(s, Reset(r)) \in Handling(old, n)
    <3> HIDE DEF r
    <3> QED BY <2>1, <2>2, SlotBecomes
  <2>4. HandleAcknowledge(s, number) = With(s, Reset(r))
    BY <1>5 DEF HandleAcknowledge, With
  <2> QED BY <2>3, <2>4
<1>6. CASE p.state \in {"DISCONNECTED", "ZOMBIE"}
  <2>1. HandleAcknowledge(s, number) = s
    BY <1>6 DEF HandleAcknowledge
  <2> QED BY <2>1
<1>7. CASE p.state \in {"CONNECTING", "CONNECTED", "ACKNOWLEDGING_DISCONNECT"}
  <2>1. HandleAcknowledge(s, number) = With(s, r)
    BY <1>7 DEF HandleAcknowledge, With
  <2> QED BY <1>3, <2>1
<1>8. CASE \/ p.state = "ACKNOWLEDGING_CONNECT" /\ ~ Acknowledged(p, "verify", number)
           \/ p.state = "DISCONNECTING" /\ ~ Acknowledged(p, "disconnect", number)
  <2>1. HandleAcknowledge(s, number) = Done(s, r)
    BY <1>8 DEF HandleAcknowledge, Done
  <2> QED BY <1>3, <2>1
<1>9. p.state \in PeerStates
  BY <1>1 DEF Peer
<1> HIDE DEF p
<1> QED BY <1>4, <1>5, <1>6, <1>7, <1>8, <1>9 DEF PeerStates, Known

LEMMA DisconnectHandled ==
    ASSUME setting \in Settings, NEW n \in Nat, NEW old, NEW s \in Handling(old, n),
           s.slot # NoSlot, NEW c
    PROVE  HandleDisconnect(s, c) \in Handling(old, n)
<1> DEFINE p == s.slots[s.slot]
           q(state) == [ResetQueues(p) EXCEPT !.state = state]
<1>1. Held(p, n) /\ p \in Peer /\ s.slot \in Slots
  BY SlotHeld
<1>2. ASSUME NEW state \in PeerStates \ {"DISCONNECTED", "CONNECTING"},
             state = "ZOMBIE" \/ p.state \in Known
      PROVE  With(s, q(state)) \in Handling(old, n)
  <2>1. Held(q(state), n) /\ q(state).connectID = p.connectID /\ AsksNoMore(q(state), p)
    BY <1>1, <1>2, EndsHeld
  <2> HIDE DEF q
  <2>2. q(state).connectID \in {s.slots[s.slot].connectID, 0}
    BY <2>1
  <2> QED BY <2>1, <2>2, SlotBecomes
<1>3. With(s, Reset(p)) \in Handling(old, n)
  <2>1. Held(Reset(p), n) /\ Reset(p).connectID = 0 /\ \A k : ~ Own(Reset(p), k)
    BY <1>1, ResetHeld
  <2>2. AsksNoMore(Reset(p), p)
    BY <2>1 DEF AsksNoMore
  <2> QED BY <2>1, <2>2, SlotBecomes
<1>4. CASE p.state \in {"DISCONNECTED", "ZOMBIE", "ACKNOWLEDGING_DISCONNECT"}
  <2>1. HandleDisconnect(s, c) = s
    BY <1>4 DEF HandleDisconnect
  <2> QED BY <2>1
<1>5. CASE p.state = "CONNECTED" /\ c.number > 0
  <2>1. HandleDisconnect(s, c) = With(s, q("ACKNOWLEDGING_DISCONNECT"))
    BY <1>5 DEF HandleDisconnect, With
  <2>2. /\ "ACKNOWLEDGING_DISCONNECT" \in PeerStates \ {"DISCONNECTED", "CONNECTING"}
        /\ p.state \in Known
    BY <1>5 DEF PeerStates, Known
  <2> QED BY <1>2, <2>1, <2>2
<1>6. CASE p.state = "ACKNOWLEDGING_CONNECT"
  <2>1. HandleDisconnect(s, c) = With(s, Reset(p))
    BY <1>6 DEF HandleDisconnect, With
  <2> QED BY <1>3, <2>1
<1>7. CASE \/ p.state \in {"CONNECTING", "DISCONNECTING"}
           \/ p.state = "CONNECTED" /\ ~ (c.number > 0)
  <2>1. HandleDisconnect(s, c) = With(s, q("ZOMBIE"))
    BY <1>7 DEF HandleDisconnect, With
  <2>2. "ZOMBIE" \in PeerStates \ {"DISCONNECTED", "CONNECTING"}
    BY DEF PeerStates
  <2> QED BY <1>2, <2>1, <2>2
<1>8. p.state \in PeerStates
  BY <1>1 DEF Peer
<1> HIDE DEF p
<1> QED BY <1>4, <1>5, <1>6, <1>7, <1>8 DEF PeerStates, Known

LEMMA ConfigureHeld ==
    ASSUME NEW n \in Nat, NEW p, Held(p, n), NEW throttle \in Throttles
    PROVE  /\ Held([p EXCEPT !.throttle = throttle], n)
           /\ [p EXCEPT !.throttle = throttle].connectID = p.connectID
           /\ [p EXCEPT !.throttle = throttle].outgoingPeerID = p.outgoingPeerID
           /\ AsksNoMore([p EXCEPT !.throttle = throttle], p)
<1> DEFINE q == [p EXCEPT !.throttle = throttle]
<1>1. p \in Peer
  BY DEF Held
<1>2. q \in Peer
  BY <1>1 DEF Peer
<1>3. \A f \in {"state", "connectID", "before", "outgoingPeerID", "incomingSession",
                "outgoingSession", "acks", "queue", "sent"} : q[f] = p[f]
  BY <1>1 DEF Peer
<1> HIDE DEF q
<1>4. /\ q.state = p.state /\ q.connectID = p.connectID /\ q.before = p.before
      /\ q.outgoingPeerID = p.outgoingPeerID /\ q.incomingSession = p.incomingSession
      /\ q.outgoingSession = p.outgoingSession /\ q.acks = p.acks /\ q.queue = p.queue
      /\ q.sent = p.sent
  BY <1>3
<1>5. Held(q, n)
  BY <1>2, <1>4 DEF Held
<1>6. AsksNoMore(q, p)
  BY <1>4 DEF AsksNoMore, Own
<1> QED BY <1>4, <1>5, <1>6 DEF q

LEMMA ThrottleHandled ==
    ASSUME setting \in Settings, NEW n \in Nat, NEW old, NEW s \in Handling(old, n),
           s.slot # NoSlot, NEW c \in Cmd
    PROVE  HandleThrottleConfigure(s, c) \in Handling(old, n)
<1> DEFINE p == s.slots[s.slot]
           q == [p EXCEPT !.throttle = c.throttle]
<1>1. CASE p.state # "CONNECTED"
  BY <1>1, Stops DEF HandleThrottleConfigure
<1>2. CASE p.state = "CONNECTED"
  <2>1. Held(p, n) /\ c.throttle \in Throttles
    BY SlotHeld, CmdFacts
  <2>2. Held(q, n) /\ q.connectID = p.connectID /\ AsksNoMore(q, p)
    BY <2>1, ConfigureHeld
  <2>3. HandleThrottleConfigure(s, c) = With(s, q)
    BY <1>2 DEF HandleThrottleConfigure, With
  <2> HIDE DEF q
  <2> QED BY <2>2, <2>3, SlotBecomes
<1> QED BY <1>1, <1>2

\* A CONNECT is one of the other host's attempts.
Foreign(c, old, n) ==
    c.kind = "connect" =>
        c.connectID \in 1 .. n /\ ~ Named(old, c.connectID) /\ answers[c.connectID] \in Nat

LEMMA Handled ==
    ASSUME setting \in Settings, NEW n \in Nat, NEW old, NEW s \in Handling(old, n),
           NEW c \in Cmd, Foreign(c, old, n)
    PROVE  Handle(s, c) \in Handling(old, n)
<1>1. CASE s.stop \/ (s.slot = NoSlot /\ c.kind # "connect")
  BY <1>1, Stops DEF Handle
<1>2. CASE ~ (s.stop \/ (s.slot = NoSlot /\ c.kind # "connect"))
  <2>1. c.kind \in {"connect", "verify", "ack", "disconnect", "throttle", "packet"}
    BY CmdFacts
  <2>2. CASE c.kind = "connect"
    <3>1. Handle(s, c) = HandleConnect(s, c)
      BY <1>2, <2>2 DEF Handle
    <3> QED BY <3>1, <2>2, ConnectHandled DEF Foreign
  <2>3. CASE c.kind = "verify"
    <3>1. Handle(s, c) = HandleVerifyConnect(s, c)
      BY <1>2, <2>3 DEF Handle
    <3> QED BY <3>1, <1>2, <2>3, VerifyHandled
  <2>4. CASE c.kind = "ack"
    <3>1. Handle(s, c) = HandleAcknowledge(s, c.answers)
      BY <1>2, <2>4 DEF Handle
    <3>2. s.slot # NoSlot
      BY <1>2, <2>4
    <3> QED BY <3>1, <3>2, AcknowledgeHandled
  <2>5. CASE c.kind = "disconnect"
    <3>1. Handle(s, c) = HandleDisconnect(s, c)
      BY <1>2, <2>5 DEF Handle
    <3>2. s.slot # NoSlot
      BY <1>2, <2>5
    <3> QED BY <3>1, <3>2, DisconnectHandled
  <2>6. CASE c.kind = "throttle"
    <3>1. Handle(s, c) = HandleThrottleConfigure(s, c)
      BY <1>2, <2>6 DEF Handle
    <3>2. s.slot # NoSlot
      BY <1>2, <2>6
    <3> QED BY <3>1, <3>2, ThrottleHandled
  <2>7. CASE c.kind = "packet"
    <3>1. Handle(s, c) = NeedsConnected(s)
      BY <1>2, <2>7 DEF Handle
    <3> QED BY <3>1, Stops DEF NeedsConnected
  <2> QED BY <2>1, <2>2, <2>3, <2>4, <2>5, <2>6, <2>7
<1> QED BY <1>1, <1>2

\* Only a CONNECT finds a slot for a datagram that has none, and without one it ends.
LEMMA NoSlotStops ==
    ASSUME setting \in Settings, NEW n, NEW old, NEW s \in Handling(old, n), NEW c \in Cmd,
           Handle(s, c).slot = NoSlot
    PROVE  Handle(s, c).stop
<1>1. s \in Result
  BY HandlingFacts
<1>2. \A q : With(s, q).slot = s.slot /\ Done(s, q).slot = s.slot
  BY <1>1 DEF With, Done, Result
<1>3. [s EXCEPT !.stop = TRUE].stop
  BY <1>1 DEF Result
<1>4. CASE s.stop \/ (s.slot = NoSlot /\ c.kind # "connect")
  BY <1>3, <1>4 DEF Handle
<1>5. CASE ~ (s.stop \/ (s.slot = NoSlot /\ c.kind # "connect"))
  <2>1. CASE c.kind = "connect"
    <3>1. Handle(s, c) = HandleConnect(s, c)
      BY <1>5, <2>1 DEF Handle
    <3>2. CASE ~ (s.slot = NoSlot /\ Acceptable(s.slots, c))
      BY <3>1, <3>2, <1>3 DEF HandleConnect
    <3>3. CASE s.slot = NoSlot /\ Acceptable(s.slots, c)
      <4>1. \A i, q : [s EXCEPT !.slots[i] = q, !.slot = i].slot = i
        BY <1>1 DEF Result
      <4>2. Handle(s, c).slot = Min(Free(s.slots))
        BY <3>1, <3>3, <4>1 DEF HandleConnect
      <4>3. Min(Free(s.slots)) \in Slots /\ NoSlot \notin Slots
        BY <3>3, LeastFree, Numbering DEF Acceptable
      <4> QED BY <4>2, <4>3
    <3> QED BY <3>2, <3>3
  <2>2. CASE c.kind # "connect"
    <3>1. Handle(s, c).slot = s.slot \/ Handle(s, c).stop
      <4>1. c.kind \in {"verify", "ack", "disconnect", "throttle", "packet"}
        BY <2>2, CmdFacts
      <4>2. CASE c.kind = "verify"
        <5>1. Handle(s, c) = HandleVerifyConnect(s, c)
          BY <1>5, <4>2 DEF Handle
        <5>2. \E q : HandleVerifyConnect(s, c) \in {s, With(s, q), Done(s, q)}
          BY Zenon DEF HandleVerifyConnect, With, Done
        <5> QED BY <5>1, <5>2, <1>2
      <4>3. CASE c.kind = "ack"
        <5>0. s.slots[s.slot].state \in PeerStates
          BY <1>5, <4>3, SlotHeld DEF Peer
        <5>1. Handle(s, c) = HandleAcknowledge(s, c.answers)
          BY <1>5, <4>3 DEF Handle
        <5>2. \E q : HandleAcknowledge(s, c.answers) \in {s, With(s, q), Done(s, q)}
          BY <5>0 DEF PeerStates, Known, HandleAcknowledge, With, Done
        <5> QED BY <5>1, <5>2, <1>2
      <4>4. CASE c.kind = "disconnect"
        <5>1. Handle(s, c) = HandleDisconnect(s, c)
          BY <1>5, <4>4 DEF Handle
        <5>2. s.slot # NoSlot
          BY <1>5, <4>4
        <5>3. s.slots[s.slot].state \in PeerStates
          BY <5>2, SlotHeld DEF Peer
        <5>4. \E q : HandleDisconnect(s, c) \in {s, With(s, q)}
          BY <5>3 DEF HandleDisconnect, With, PeerStates, Known
        <5> QED BY <5>1, <5>4, <1>2
      <4>5. CASE c.kind = "throttle"
        <5>1. Handle(s, c) = HandleThrottleConfigure(s, c)
          BY <1>5, <4>5 DEF Handle
        <5>2. CASE s.slots[s.slot].state = "CONNECTED"
          <6> DEFINE q == [s.slots[s.slot] EXCEPT !.throttle = c.throttle]
          <6>1. HandleThrottleConfigure(s, c) = With(s, q)
            BY <5>2 DEF HandleThrottleConfigure, With
          <6> QED BY <5>1, <6>1, <1>2
        <5>3. CASE s.slots[s.slot].state # "CONNECTED"
          BY <5>1, <5>3, <1>3 DEF HandleThrottleConfigure
        <5> QED BY <5>2, <5>3
      <4>6. CASE c.kind = "packet"
        <5>1. Handle(s, c) = NeedsConnected(s)
          BY <1>5, <4>6 DEF Handle
        <5> QED BY <5>1, <1>3 DEF NeedsConnected
      <4> QED BY <4>1, <4>2, <4>3, <4>4, <4>5, <4>6
    <3> QED BY <3>1, <1>5, <2>2
  <2> QED BY <2>1, <2>2
<1> QED BY <1>4, <1>5

LEMMA CommandHandled ==
    ASSUME setting \in Settings, NEW n \in Nat, NEW old, NEW s \in Handling(old, n),
           NEW c \in Cmd, Foreign(c, old, n)
    PROVE  HandleCommand(s, c) \in Handling(old, n)
<1> DEFINE r == Handle(s, c)
           ack == [Command("ack") EXCEPT !.answers = c.number]
           p == r.slots[r.slot]
           acks == p.acks \cup {ack}
           q == [p EXCEPT !.acks = acks]
<1>1. r \in Handling(old, n)
  BY Handled
<1>2. CASE ~ (~ r.stop /\ c.number > 0 /\ IsAcknowledged(p, c))
  BY <1>1, <1>2 DEF HandleCommand
<1>3. CASE ~ r.stop /\ c.number > 0 /\ IsAcknowledged(p, c)
  <2>1. HandleCommand(s, c) = With(r, q)
    BY <1>3 DEF HandleCommand, With
  <2>2. r.slot # NoSlot
    <3> SUFFICES ASSUME r.slot = NoSlot PROVE FALSE
      OBVIOUS
    <3>1. r.stop
      BY NoSlotStops
    <3> QED BY <3>1, <1>3
  <2>3. r.slot \in Slots /\ p \in Peer /\ Held(p, n)
    BY <1>1, <2>2, SlotHeld
  <2>4. ack \in Cmd /\ ack.kind = "ack"
    <3>1. Command("ack") \in Cmd /\ Command("ack").kind = "ack" /\ c.number \in Nat
      BY CommandIs, CmdFacts
    <3> QED BY <3>1 DEF Cmd
  <2>5. acks \in SUBSET Cmd /\ IsFiniteSet(acks) /\ \A a \in acks : a.kind = "ack"
    <3>1. p.acks \in SUBSET Cmd /\ IsFiniteSet(p.acks) /\ \A a \in p.acks : a.kind = "ack"
      BY <2>3 DEF Held, Peer
    <3>2. IsFiniteSet(acks)
      BY <3>1, FS_AddElement
    <3> QED BY <3>1, <3>2, <2>4
  <2> HIDE DEF r, p, acks, ack
  <2>6. q \in Peer
    BY <2>3, <2>5 DEF Peer
  <2>7. /\ q.state = p.state /\ q.connectID = p.connectID /\ q.before = p.before
        /\ q.outgoingPeerID = p.outgoingPeerID /\ q.incomingSession = p.incomingSession
        /\ q.outgoingSession = p.outgoingSession /\ q.queue = p.queue /\ q.sent = p.sent
    BY <2>3 DEF Peer
  <2>8. q.acks = acks
    BY <2>3 DEF Peer
  <2> HIDE DEF q
  <2>9. Held(q, n)
    BY <2>3, <2>5, <2>6, <2>7, <2>8 DEF Held
  <2>10. AsksNoMore(q, p)
    BY <2>7 DEF Own, AsksNoMore
  <2>11. q.connectID \in {r.slots[r.slot].connectID, 0}
    BY <2>7 DEF p
  <2>12. AsksNoMore(q, r.slots[r.slot])
    BY <2>10 DEF p
  <2> QED BY <2>1, <2>2, <2>9, <2>11, <2>12, <1>1, SlotBecomes
<1> QED BY <1>2, <1>3

\* So does a whole datagram.
LEMMA DatagramHandled ==
    ASSUME setting \in Settings, NEW n \in Nat, NEW old, NEW s \in Handling(old, n),
           NEW commands \in Seq(Cmd), \A i \in DOMAIN commands : Foreign(commands[i], old, n)
    PROVE  FoldLeft(HandleCommand, s, commands) \in Handling(old, n)
<1> DEFINE m == Len(commands)
           T == Handling(old, n)
           F == [x \in T \X (1 .. m) |-> HandleCommand(x[1], commands[x[2]])]
           top == [u \in (SUBSET (1 .. m)) \ {{}} |-> Max(u)]
           Value(g, u) == IF u = {} THEN s ELSE HandleCommand(g[u \ {Max(u)}], commands[Max(u)])
           IsFold(g) == g = [u \in SUBSET DOMAIN commands |-> Value(g, u)]
<1>1. m \in Nat /\ DOMAIN commands = 1 .. m
  BY LenProperties
<1>2. ASSUME NEW t \in T, NEW i \in 1 .. m PROVE HandleCommand(t, commands[i]) \in T
  <2>1. commands[i] \in Cmd /\ Foreign(commands[i], old, n)
    BY <1>1, ElementOfSeq
  <2> QED BY <2>1, CommandHandled
<1>3. F \in [T \X (1 .. m) -> T]
  <2> HIDE DEF T, m
  <2>1. ASSUME NEW x \in T \X (1 .. m) PROVE HandleCommand(x[1], commands[x[2]]) \in T
    BY <1>2
  <2> QED BY <2>1
<1>4. ASSUME NEW u \in (SUBSET (1 .. m)) \ {{}}
      PROVE  Max(u) \in u /\ \A k \in u : k <= Max(u)
  <2>1. \E x \in u : \A y \in u : x >= y
    <3>1. {m - x : x \in u} \in SUBSET Nat /\ {m - x : x \in u} # {}
      BY <1>1
    <3>2. PICK l \in {m - x : x \in u} : \A k \in {m - x : x \in u} : l <= k
      BY <3>1, Least
    <3>3. PICK x \in u : l = m - x
      BY <3>2
    <3>4. ASSUME NEW y \in u PROVE x >= y
      <4>1. m - x <= m - y
        BY <3>2, <3>3
      <4>2. x \in Int /\ y \in Int /\ m \in Int
        BY <1>1
      <4> QED BY <4>1, <4>2
    <3> QED BY <3>4
  <2>2. Max(u) \in u /\ \A y \in u : Max(u) >= y
    BY <2>1, Zenon DEF Max
  <2>3. \A x, y \in 1 .. m : x >= y => y <= x
    BY <1>1
  <2> QED BY <2>2, <2>3
<1>5. PICK g \in [SUBSET (1 .. m) -> T] : Folded(g, s, F, top, m)
  <2>1. Tops(top, m)
    BY <1>4 DEF Tops
  <2> HIDE DEF F, top, T, m
  <2>2. s \in T
    BY DEF T
  <2> QED BY <1>1, <1>3, <2>1, <2>2, FoldsExist
<1>6. ASSUME NEW u \in SUBSET (1 .. m) PROVE g[u] = Value(g, u)
  <2>1. CASE u = {}
    BY <2>1, <1>5 DEF Folded
  <2>2. CASE u # {}
    <3>1. top[u] = Max(u) /\ Max(u) \in 1 .. m /\ u \ {Max(u)} \in SUBSET (1 .. m)
      BY <1>4, <2>2
    <3>2. g[u \ {Max(u)}] \in T
      BY <1>5, <3>1
    <3>3. F[<<g[u \ {Max(u)}], Max(u)>>] = HandleCommand(g[u \ {Max(u)}], commands[Max(u)])
      BY <3>1, <3>2
    <3> QED BY <1>5, <2>2, <3>1, <3>3 DEF Folded
  <2> QED BY <2>1, <2>2
<1>7. IsFold(g)
  <2> HIDE DEF Value, m, T
  <2> QED BY <1>1, <1>5, <1>6
<1>8. FoldLeft(HandleCommand, s, commands) = (CHOOSE h : IsFold(h))[DOMAIN commands]
  BY Zenon DEF FoldLeft, MapThenFoldSet
<1>9. ASSUME NEW h, IsFold(h) PROVE h[DOMAIN commands] \in T
  <2> DEFINE Right == {l \in Nat : l <= m => \A u \in SUBSET (1 .. l) : h[u] \in T}
  <2>1. \A u \in SUBSET (1 .. m) : h[u] = Value(h, u)
    BY <1>1, <1>9
  <2>2. 0 \in Right
    <3>1. \A u \in SUBSET (1 .. 0) : u = {} /\ u \in SUBSET (1 .. m)
      OBVIOUS
    <3>2. \A u \in SUBSET (1 .. 0) : h[u] = s
      BY <2>1, <3>1
    <3> QED BY <3>2
  <2>3. ASSUME NEW l \in Nat, l \in Right PROVE l + 1 \in Right
    <3>1. ASSUME l + 1 <= m, NEW u \in SUBSET (1 .. l + 1) PROVE h[u] \in T
      <4>1. u \in SUBSET (1 .. m)
        BY <1>1, <3>1
      <4>2. \A w \in SUBSET (1 .. l) : h[w] \in T
        BY <1>1, <2>3, <3>1
      <4>3. CASE u = {}
        BY <2>1, <4>1, <4>3
      <4>4. CASE u # {}
        <5>1. Max(u) \in u /\ \A k \in u : k <= Max(u)
          BY <1>4, <4>1, <4>4
        <5>2. u \ {Max(u)} \in SUBSET (1 .. l)
          <6> SUFFICES ASSUME NEW k \in u, k # Max(u) PROVE k \in 1 .. l
            OBVIOUS
          <6>1. k \in 1 .. l + 1 /\ Max(u) \in 1 .. l + 1 /\ k <= Max(u)
            BY <5>1
          <6> QED BY <6>1
        <5>3. h[u \ {Max(u)}] \in T /\ Max(u) \in 1 .. m
          BY <4>1, <4>2, <5>1, <5>2
        <5>4. h[u] = HandleCommand(h[u \ {Max(u)}], commands[Max(u)])
          BY <2>1, <4>1, <4>4
        <5> QED BY <1>2, <5>3, <5>4
      <4> QED BY <4>3, <4>4
    <3> HIDE DEF m, T
    <3> QED BY <3>1
  <2>4. m \in Right
    <3> HIDE DEF Right
    <3> QED BY <1>1, <2>2, <2>3, Induction
  <2> HIDE DEF T, m
  <2> QED BY <1>1, <2>4
<1> QED
  <2> HIDE DEF IsFold
  <2>1. IsFold(CHOOSE h : IsFold(h))
    BY <1>7, Zenon
  <2> QED BY <1>8, <1>9, <2>1, Zenon

-----------------------------------------------------------------------------
(* The steps.                                                              *)

LEMMA InvFacts ==
    ASSUME HandshakeInv
    PROVE  /\ setting \in Settings
           /\ done.connects \in Nat /\ done.connects <= MaxConnects /\ MaxConnects \in Nat
           /\ \A h \in Hosts : SlotsInv(peers[h], done.connects)
           /\ peers \in [Hosts -> [Slots -> Peer]]
           /\ \A h \in Hosts, i \in Slots : Held(peers[h][i], done.connects) /\ peers[h][i] \in Peer
<1>1. setting \in Settings /\ MaxConnects \in Nat
  BY Numbering DEF HandshakeInv
<1>2. done.connects \in Nat /\ done.connects <= MaxConnects
  BY <1>1 DEF HandshakeInv, IdsInv
<1>3. /\ \A h \in Hosts : SlotsInv(peers[h], done.connects)
      /\ peers \in [Hosts -> [Slots -> Peer]]
  BY DEF HandshakeInv
<1>4. \A h \in Hosts, i \in Slots : Held(peers[h][i], done.connects)
  BY <1>3 DEF SlotsInv
<1> QED BY <1>1, <1>2, <1>3, <1>4 DEF Held

LEMMA SameSetting ==
    ASSUME setting' = setting
    PROVE  /\ Slots' = Slots /\ Peer' = Peer /\ NetType' = NetType /\ MaxConnects' = MaxConnects
           /\ \A slots, n : SlotsInv(slots, n)' <=> SlotsInv(slots, n)
<1>1. Slots' = Slots /\ MaxConnects' = MaxConnects
  BY DEF Slots, MaxConnects
<1>2. Cmd' = Cmd
  BY <1>1 DEF Cmd
<1>3. Peer' = Peer /\ NetType' = NetType
  BY <1>1, <1>2 DEF Peer, NetType
<1>4. \A p, n : Held(p, n)' <=> Held(p, n)
  BY <1>3 DEF Held
<1>5. \A slots, n : SlotsInv(slots, n)' <=> SlotsInv(slots, n)
  BY <1>1, <1>3, <1>4 DEF SlotsInv
<1> QED BY <1>1, <1>3, <1>5

\* Host h changes to slots, with m attempts made by then, and sends what it has.
LEMMA HostStep ==
    ASSUME HandshakeInv, setting' = setting, NEW h \in Hosts, NEW slots,
           done' \in DoneType, done'.connects \in {done.connects, done.connects + 1},
           done'.connects <= MaxConnects,
           SlotsInv(slots, done'.connects), peers' = [peers EXCEPT ![h] = slots],
           \A k : Named(slots, k) =>
                Named(peers[h], k) \/ (k = done.connects + 1 /\ k = done'.connects),
           net' \subseteq NetType,
           \A d \in net' \ net : d.from = h /\ \A k : Carries(d, k) => Named(peers[h], k),
           agreed' \subseteq 1 .. MaxConnects, answers' \in [1 .. MaxConnects -> Nat]
    PROVE  HandshakeInv'
<1> DEFINE m == done'.connects
           n == done.connects
           New(k) == k = n + 1 /\ k = m
<1>1. /\ setting \in Settings /\ n \in Nat /\ n <= MaxConnects /\ MaxConnects \in Nat
      /\ \A g \in Hosts : SlotsInv(peers[g], n)
      /\ peers \in [Hosts -> [Slots -> Peer]]
  BY InvFacts
<1>2. m \in Nat /\ n <= m
  BY <1>1
<1>3. /\ Slots' = Slots /\ Peer' = Peer /\ NetType' = NetType /\ MaxConnects' = MaxConnects
      /\ \A u, l : SlotsInv(u, l)' <=> SlotsInv(u, l)
  BY SameSetting
<1>4. slots \in [Slots -> Peer]
  BY DEF SlotsInv
<1>5. peers'[h] = slots /\ \A g \in Hosts : g # h => peers'[g] = peers[g]
  BY <1>1
<1>6. peers' \in [Hosts -> [Slots -> Peer]]
  BY <1>1, <1>4
<1>7. ASSUME NEW g \in Hosts PROVE SlotsInv(peers'[g], m)
  <2>1. CASE g = h
    BY <1>5, <2>1
  <2>2. CASE g # h
    <3>1. SlotsInv(peers[g], n)
      BY <1>1
    <3>2. \A i \in Slots : Held(peers[g][i], m)
      BY <1>1, <1>2, <3>1, HeldOn DEF SlotsInv
    <3>3. SlotsInv(peers[g], m)
      BY <3>1, <3>2 DEF SlotsInv
    <3> QED BY <1>5, <2>2, <3>3
  <2> QED BY <2>1, <2>2
<1>8. ASSUME NEW g \in Hosts, NEW k, Made(peers'[g], net', g, k)
      PROVE  Made(peers[g], net, g, k) \/ (g = h /\ New(k))
  <2>1. CASE Named(peers'[g], k)
    <3>1. CASE g = h
      BY <1>5, <2>1, <3>1 DEF Made
    <3>2. CASE g # h
      BY <1>5, <2>1, <3>2 DEF Made
    <3> QED BY <3>1, <3>2
  <2>2. CASE ~ Named(peers'[g], k)
    <3>1. PICK d \in net' : d.from = g /\ Carries(d, k)
      BY <1>8, <2>2 DEF Made
    <3>2. CASE d \in net
      BY <3>1, <3>2 DEF Made
    <3>3. CASE d \notin net
      BY <3>1, <3>3 DEF Made
    <3> QED BY <3>2, <3>3
  <2> QED BY <2>1, <2>2
<1>9. /\ \A g \in Hosts : \A k : Made(peers[g], net, g, k) => k \in 1 .. n
      /\ \A k : ~ (Made(peers[1], net, 1, k) /\ Made(peers[2], net, 2, k))
  BY DEF HandshakeInv, IdsInv
<1>10. \A g \in Hosts : \A k : Made(peers'[g], net', g, k) => k \in 1 .. m
  <2> SUFFICES ASSUME NEW g \in Hosts, NEW k, Made(peers'[g], net', g, k) PROVE k \in 1 .. m
    OBVIOUS
  <2>1. k \in 1 .. n \/ New(k)
    BY <1>8, <1>9
  <2> HIDE DEF n, m
  <2> QED BY <1>1, <1>2, <2>1
<1>11. \A k : ~ (Made(peers'[1], net', 1, k) /\ Made(peers'[2], net', 2, k))
  <2> SUFFICES ASSUME NEW k, Made(peers'[1], net', 1, k), Made(peers'[2], net', 2, k) PROVE FALSE
    OBVIOUS
  <2>1. 1 \in Hosts /\ 2 \in Hosts /\ 1 # 2
    BY Ends2
  <2>2. Made(peers[1], net, 1, k) \/ (1 = h /\ New(k))
    BY <1>8, <2>1
  <2>3. Made(peers[2], net, 2, k) \/ (2 = h /\ New(k))
    BY <1>8, <2>1
  <2>4. \A g \in Hosts : Made(peers[g], net, g, k) => ~ New(k)
    <3> SUFFICES ASSUME NEW g \in Hosts, Made(peers[g], net, g, k), New(k) PROVE FALSE
      OBVIOUS
    <3>1. k \in 1 .. n
      BY <1>9
    <3> HIDE DEF n, m
    <3> QED BY <1>1, <3>1
  <2> HIDE DEF New
  <2> QED BY <1>9, <2>1, <2>2, <2>3, <2>4
<1>12. m \in 0 .. MaxConnects
  BY <1>1, <1>2
<1>13. IdsInv'
  <2>1. \A u, w, g, k : Made(u, w, g, k)' <=> Made(u, w, g, k)
    BY <1>3 DEF Made, Named
  <2> QED BY <1>3, <1>10, <1>11, <1>12, <2>1 DEF IdsInv, Hosts
<1>14. \A g \in Hosts : SlotsInv(peers[g], done.connects)'
  BY <1>3, <1>7
<1> QED BY <1>1, <1>3, <1>6, <1>13, <1>14 DEF HandshakeInv, DoneType, Hosts

\* Slot i of host h changes to q, and nobody calls.
LEMMA SlotStep ==
    ASSUME HandshakeInv, setting' = setting, NEW h \in Hosts, NEW i \in Slots, NEW q,
           Held(q, done.connects), q.connectID \in {peers[h][i].connectID, 0},
           AsksNoMore(q, peers[h][i]),
           peers' = [peers EXCEPT ![h] = [peers[h] EXCEPT ![i] = q]],
           done' \in DoneType, done'.connects = done.connects,
           net' \subseteq NetType,
           \A d \in net' \ net : d.from = h /\ \A k : Carries(d, k) => Named(peers[h], k),
           agreed' = agreed, answers' = answers
    PROVE  HandshakeInv'
<1> DEFINE slots == [peers[h] EXCEPT ![i] = q]
<1>1. SlotsInv(slots, done.connects) /\ \A k : Named(slots, k) => Named(peers[h], k)
  BY InvFacts, SameSlot
<1>2. done'.connects \in {done.connects, done.connects + 1} /\ done'.connects <= MaxConnects
  BY InvFacts
<1>3. agreed' \subseteq 1 .. MaxConnects /\ answers' \in [1 .. MaxConnects -> Nat]
  BY DEF HandshakeInv
<1> HIDE DEF slots
<1>4. peers' = [peers EXCEPT ![h] = slots]
  BY DEF slots
<1> QED BY <1>1, <1>2, <1>3, <1>4, HostStep

\* The counts of the other calls.
LEMMA CallsCounted ==
    ASSUME HandshakeInv
    PROVE  /\ done \in DoneType
           /\ net \subseteq NetType
           /\ \A f \in {"endings", "restarts", "configures", "packets", "resends"} :
                [done EXCEPT ![f] = done[f] + 1] \in DoneType
           /\ \A f \in {"endings", "restarts", "configures", "packets", "resends"} :
                [done EXCEPT ![f] = done[f] + 1].connects = done.connects
           /\ \A l \in Nat : [done EXCEPT !.resends = @ + l] \in DoneType
           /\ \A l \in Nat : [done EXCEPT !.resends = @ + l].connects = done.connects
           /\ [done EXCEPT !.connects = @ + 1] \in DoneType
           /\ [done EXCEPT !.connects = @ + 1].connects = done.connects + 1
<1>1. done \in DoneType /\ net \subseteq NetType
  BY DEF HandshakeInv
<1> QED BY <1>1 DEF DoneType

LEMMA DatagramIs ==
    ASSUME setting \in Settings, NEW h \in Hosts, NEW p \in Peer, NEW commands \in Seq(Cmd)
    PROVE  /\ Datagram(h, p, commands) \in NetType
           /\ Datagram(h, p, commands).from = h
           /\ Datagram(h, p, commands).commands = commands
<1>1. /\ p.outgoingPeerID \in Slots \cup {NoSlot} /\ Connection(p) \in Nat \X Nat
      /\ p.outgoingSession \in Session /\ NoSession \in Session
  BY DEF Peer, Session, Connection
<1> QED BY <1>1 DEF Datagram, NetType

LEMMA ResetStep ==
    ASSUME HandshakeInv, setting' = setting, NEW h \in Hosts, NEW i \in Slots,
           peers' = [peers EXCEPT ![h] = [peers[h] EXCEPT ![i] = Reset(peers[h][i])]],
           done' \in DoneType, done'.connects = done.connects,
           net' \subseteq NetType,
           \A d \in net' \ net : d.from = h /\ \A k : Carries(d, k) => Named(peers[h], k),
           agreed' = agreed, answers' = answers
    PROVE  HandshakeInv'
<1> DEFINE q == Reset(peers[h][i])
<1>1. /\ Held(q, done.connects) /\ q.connectID = 0
      /\ \A k : ~ Own(q, k)
  BY InvFacts, ResetHeld
<1>2. AsksNoMore(q, peers[h][i]) /\ q.connectID \in {peers[h][i].connectID, 0}
  BY <1>1 DEF AsksNoMore
<1>3. peers' = [peers EXCEPT ![h] = [peers[h] EXCEPT ![i] = q]]
  OBVIOUS
<1> HIDE DEF q
<1> QED BY <1>1, <1>2, <1>3, SlotStep

\* What queues a command of another kind than CONNECT.
LEMMA QueueStep ==
    ASSUME HandshakeInv, setting' = setting, NEW h \in Hosts, NEW i \in Slots, NEW q,
           Held(q, done.connects), q.connectID = peers[h][i].connectID,
           AsksNoMore(q, peers[h][i]),
           peers' = [peers EXCEPT ![h] = [peers[h] EXCEPT ![i] = q]],
           NEW f \in {"endings", "restarts", "configures", "packets", "resends"},
           done' = [done EXCEPT ![f] = done[f] + 1], UNCHANGED <<net, agreed, answers>>
    PROVE  HandshakeInv'
<1>1. /\ done' \in DoneType /\ done'.connects = done.connects /\ net' \subseteq NetType
      /\ agreed' = agreed /\ answers' = answers
  BY CallsCounted
<1>2. q.connectID \in {peers[h][i].connectID, 0}
  OBVIOUS
<1>3. \A d \in net' \ net : d.from = h /\ \A k : Carries(d, k) => Named(peers[h], k)
  OBVIOUS
<1> QED BY <1>1, <1>2, <1>3, SlotStep

LEMMA ConnectStep ==
    ASSUME HandshakeInv, setting' = setting, NEW h \in Hosts, Connect(h)
    PROVE  HandshakeInv'
<1> DEFINE i == Min(Free(peers[h]))
           n == done.connects
           id == done.connects + 1
           o == peers[h][i]
           p == [o EXCEPT !.state = "CONNECTING", !.connectID = id]
           c == [Command("connect") EXCEPT
                    !.connectID = id, !.peerID = i, !.throttle = p.throttle,
                    !.incomingSession = p.incomingSession, !.outgoingSession = p.outgoingSession]
           q == Queue(p, c)
           slots == [peers[h] EXCEPT ![i] = q]
<1>1. /\ done.connects < MaxConnects
      /\ Free(peers[h]) # {}
      /\ peers' = [peers EXCEPT ![h] = slots]
      /\ done' = [done EXCEPT !.connects = @ + 1]
      /\ UNCHANGED <<net, agreed, answers>>
  BY DEF Connect
<1>2. /\ setting \in Settings /\ n \in Nat /\ MaxConnects \in Nat
      /\ SlotsInv(peers[h], n)
  BY InvFacts
<1>3. i \in Slots /\ o.state = "DISCONNECTED"
  BY <1>1, <1>2, LeastFree
<1>4. o \in Peer /\ Held(o, n)
  BY <1>3, InvFacts
<1>5. id \in Nat /\ id = n + 1 /\ n <= id
  BY <1>2
<1>6. /\ p \in Peer /\ p.state = "CONNECTING" /\ p.connectID = id
      /\ p.acks = o.acks /\ p.queue = o.queue /\ p.sent = o.sent /\ p.before = o.before
  <2> HIDE DEF o, id
  <2>1. p \in Peer
    BY <1>4, <1>5 DEF Peer, PeerStates, Known
  <2>2. p.state = "CONNECTING" /\ p.connectID = id
    BY <1>4 DEF Peer
  <2>3. p.acks = o.acks /\ p.queue = o.queue /\ p.sent = o.sent /\ p.before = o.before
    BY <1>4 DEF Peer
  <2> QED BY <2>1, <2>2, <2>3
<1>7. p.incomingSession \in Session /\ p.outgoingSession \in Session /\ p.throttle \in Throttles
  <2> HIDE DEF p
  <2> QED BY <1>6 DEF Peer
<1>8. Held(p, id)
  <2>1. o.before[1] \in Nat /\ o.before[1] <= n
    BY <1>4 DEF Held, Peer
  <2> HIDE DEF p, o, id, n
  <2>2. o.before[1] <= id /\ id > 0 /\ id <= id
    BY <1>2, <1>5, <2>1
  <2> QED BY <1>4, <1>6, <2>2 DEF Held, Known
<1>9. c \in Cmd /\ c.kind = "connect" /\ c.connectID = id
  <2> HIDE DEF p, i, id
  <2>1. NoSlot \notin Slots
    BY <1>2, Numbering
  <2> QED BY <1>3, <1>5, <1>7, <2>1 DEF Command, Cmd
<1>10. /\ Held(q, id) /\ q.connectID = id
       /\ \A k : Own(q, k) => Own(p, k) \/ Asks(c, k)
  <2> HIDE DEF p, c
  <2>1. id \in Nat
    BY <1>5
  <2> HIDE DEF id
  <2> QED BY <1>2, <1>6, <1>8, <1>9, <2>1, QueueHeld
<1>11. \A k : Own(q, k) => Own(o, k) \/ k = id
  <2> HIDE DEF q, c, p
  <2>1. \A k : Own(p, k) => Own(o, k) \/ k = id
    BY <1>6 DEF Own
  <2>2. \A k : Asks(c, k) => k = id
    BY <1>9 DEF Asks
  <2> QED BY <1>10, <2>1, <2>2
<1>12. ASSUME NEW j \in Slots \ {i} PROVE q.connectID # peers[h][j].connectID
  <2>1. peers[h][j].connectID <= n /\ peers[h][j].connectID \in Nat
    BY InvFacts DEF Held, Peer
  <2> HIDE DEF q, i
  <2> QED BY <1>2, <1>5, <1>10, <2>1
<1>13. /\ SlotsInv(slots, id)
       /\ \A k : Named(slots, k) => Named(peers[h], k) \/ Own(q, k)
  <2> HIDE DEF q, i
  <2>1. id \in Nat /\ n \in Nat /\ n <= id
    BY <1>5, <1>2
  <2> HIDE DEF id, n
  <2> QED BY <1>2, <1>3, <1>10, <1>12, <2>1, OneSlot
<1>14. \A k : Named(slots, k) => Named(peers[h], k) \/ k = id
  <2>1. \A k : Own(o, k) => Named(peers[h], k)
    BY <1>3 DEF Named
  <2> HIDE DEF slots, q, o
  <2> QED BY <1>11, <1>13, <2>1
<1>15. /\ done' \in DoneType /\ done'.connects = id /\ net \subseteq NetType
       /\ agreed \subseteq 1 .. MaxConnects /\ answers' \in [1 .. MaxConnects -> Nat]
  BY <1>1, CallsCounted DEF HandshakeInv
<1>16. done'.connects <= MaxConnects
  BY <1>1, <1>2, <1>15
<1> HIDE DEF slots, q
<1>17. /\ done'.connects \in {done.connects, done.connects + 1}
       /\ SlotsInv(slots, done'.connects)
       /\ \A k : Named(slots, k) =>
            Named(peers[h], k) \/ (k = done.connects + 1 /\ k = done'.connects)
       /\ net' \subseteq NetType /\ agreed' \subseteq 1 .. MaxConnects
       /\ \A d \in net' \ net : d.from = h /\ \A k : Carries(d, k) => Named(peers[h], k)
  BY <1>1, <1>13, <1>14, <1>15
<1> QED BY <1>1, <1>15, <1>16, <1>17, HostStep

LEMMA DisconnectNowStep ==
    ASSUME HandshakeInv, setting' = setting, NEW h \in Hosts, NEW i \in Slots, DisconnectNow(h, i)
    PROVE  HandshakeInv'
<1> DEFINE p == peers[h][i]
           d == Datagram(h, p, <<Command("disconnect")>>)
<1>1. /\ net' = (IF p.state \in {"ZOMBIE", "DISCONNECTING"} THEN net ELSE net \cup {d})
      /\ peers' = [peers EXCEPT ![h][i] = Reset(p)]
      /\ done' = [done EXCEPT !.endings = @ + 1]
      /\ UNCHANGED <<agreed, answers>>
  BY DEF DisconnectNow
<1>2. peers' = [peers EXCEPT ![h] = [peers[h] EXCEPT ![i] = Reset(p)]]
  BY <1>1
<1>3. done' \in DoneType /\ done'.connects = done.connects /\ net \subseteq NetType
  BY <1>1, CallsCounted
<1>4. setting \in Settings /\ p \in Peer
  BY InvFacts
<1>5. Command("disconnect") \in Cmd /\ Command("disconnect").kind = "disconnect"
  BY <1>4, CommandIs
<1>6. <<Command("disconnect")>> \in Seq(Cmd)
  BY <1>5
<1>7. d \in NetType /\ d.from = h /\ d.commands = <<Command("disconnect")>>
  <2> HIDE DEF p
  <2> QED BY <1>4, <1>6, DatagramIs
<1>8. \A k : ~ Carries(d, k)
  <2> HIDE DEF d
  <2> QED BY <1>5, <1>7 DEF Carries, Asks
<1> HIDE DEF d
<1>9. net' \subseteq NetType
  BY <1>1, <1>3, <1>7
<1>10. \A e \in net' \ net : e.from = h /\ \A k : Carries(e, k) => Named(peers[h], k)
  BY <1>1, <1>7, <1>8
<1> QED BY <1>1, <1>2, <1>3, <1>9, <1>10, ResetStep

LEMMA DisconnectStep ==
    ASSUME HandshakeInv, setting' = setting, NEW h \in Hosts, NEW i \in Slots, Disconnect(h, i)
    PROVE  HandshakeInv'
<1> DEFINE p == peers[h][i]
           r == Queue(ResetQueues(p), Command("disconnect"))
           q == [r EXCEPT !.state = "DISCONNECTING"]
           t == [ResetQueues(p) EXCEPT !.state = "CONNECTED"]
<1>1. /\ peers' = [peers EXCEPT ![h] = [peers[h] EXCEPT ![i] = q]]
      /\ done' = [done EXCEPT !["endings"] = done["endings"] + 1]
      /\ UNCHANGED <<net, agreed, answers>>
      /\ p.state = "CONNECTED"
  BY DEF Disconnect
<1>2. setting \in Settings /\ done.connects \in Nat /\ Held(p, done.connects) /\ p \in Peer
  BY InvFacts
<1>3. Command("disconnect") \in Cmd /\ Command("disconnect").kind = "disconnect"
  BY <1>2, CommandIs
<1>4. /\ "CONNECTED" \in PeerStates \ {"DISCONNECTED", "CONNECTING"}
      /\ "DISCONNECTING" \in PeerStates \ {"DISCONNECTED", "CONNECTING"}
      /\ "CONNECTED" \in Known
  BY DEF PeerStates, Known
<1>5. Held(t, done.connects) /\ t.connectID = p.connectID /\ AsksNoMore(t, p) /\ t = ResetQueues(p)
  <2>1. Held(t, done.connects) /\ t.connectID = p.connectID /\ AsksNoMore(t, p)
    BY <1>1, <1>2, <1>4, EndsHeld
  <2>2. ResetQueues(p) \in Peer /\ ResetQueues(p).state = "CONNECTED"
    BY <1>1, <1>2, ResetQueuesIs DEF ResetQueues, Peer
  <2> QED BY <2>1, <2>2 DEF Peer
<1>6. /\ Held(r, done.connects) /\ r.connectID = p.connectID /\ r.state = "CONNECTED"
      /\ AsksNoMore(r, p)
  <2> DEFINE c == Command("disconnect")
  <2> HIDE DEF c, t
  <2>1. /\ Held(Queue(t, c), done.connects) /\ Queue(t, c).connectID = t.connectID
        /\ \A k : Own(Queue(t, c), k) => Own(t, k) \/ Asks(c, k)
    BY <1>2, <1>3, <1>5, QueueHeld DEF c
  <2>2. t \in Peer /\ t.state = "CONNECTED"
    BY <1>2, <1>5, ResetQueuesIs DEF t
  <2>3. Queue(t, c).state = "CONNECTED"
    BY <2>2 DEF Queue, Peer
  <2>4. r = Queue(t, c)
    BY <1>5 DEF c
  <2>5. AsksNoMore(Queue(t, c), p)
    BY <1>3, <1>5, <2>1 DEF AsksNoMore, Asks, c
  <2> QED BY <1>5, <2>1, <2>3, <2>4, <2>5
<1> HIDE DEF r
<1>7. Held(q, done.connects) /\ q.connectID = r.connectID /\ AsksNoMore(q, r)
  BY <1>2, <1>4, <1>6, EndsHeld
<1> HIDE DEF q
<1>8. q.connectID = peers[h][i].connectID /\ AsksNoMore(q, peers[h][i])
  BY <1>6, <1>7 DEF AsksNoMore
<1> QED BY <1>1, <1>7, <1>8, QueueStep

LEMMA ThrottleConfigureStep ==
    ASSUME HandshakeInv, setting' = setting, NEW h \in Hosts, NEW i \in Slots, ThrottleConfigure(h, i)
    PROVE  HandshakeInv'
<1> DEFINE p == peers[h][i]
           r(throttle) == [p EXCEPT !.throttle = throttle]
           c(throttle) == [Command("throttle") EXCEPT !.throttle = throttle]
           q(throttle) == Queue(r(throttle), c(throttle))
<1>1. /\ \E throttle \in Throttles :
            peers' = [peers EXCEPT ![h] = [peers[h] EXCEPT ![i] = q(throttle)]]
      /\ done' = [done EXCEPT !["configures"] = done["configures"] + 1]
      /\ UNCHANGED <<net, agreed, answers>>
  BY DEF ThrottleConfigure
<1>2. PICK throttle \in Throttles :
            peers' = [peers EXCEPT ![h] = [peers[h] EXCEPT ![i] = q(throttle)]]
  BY <1>1
<1>3. setting \in Settings /\ done.connects \in Nat /\ Held(p, done.connects)
  BY InvFacts
<1>4. c(throttle) \in Cmd /\ c(throttle).kind = "throttle"
  <2>1. Command("throttle") \in Cmd /\ Command("throttle").kind = "throttle"
    BY <1>3, CommandIs
  <2> QED BY <2>1 DEF Cmd
<1>5. /\ Held(r(throttle), done.connects) /\ r(throttle).connectID = p.connectID
      /\ AsksNoMore(r(throttle), p)
  BY <1>3, ConfigureHeld
<1> HIDE DEF r, c
<1>6. /\ Held(q(throttle), done.connects) /\ q(throttle).connectID = r(throttle).connectID
      /\ \A k : Own(q(throttle), k) => Own(r(throttle), k) \/ Asks(c(throttle), k)
  BY <1>3, <1>4, <1>5, QueueHeld
<1>7. AsksNoMore(q(throttle), p)
  BY <1>4, <1>5, <1>6 DEF AsksNoMore, Asks
<1> HIDE DEF q
<1> QED BY <1>1, <1>2, <1>5, <1>6, <1>7, QueueStep

LEMMA SendPacketStep ==
    ASSUME HandshakeInv, setting' = setting, NEW h \in Hosts, NEW i \in Slots, SendPacket(h, i)
    PROVE  HandshakeInv'
<1> DEFINE p == peers[h][i]
           c == Command("packet")
           queue == Append(p.queue, c)
           q == [p EXCEPT !.queue = queue]
<1>1. /\ peers' = [peers EXCEPT ![h] = [peers[h] EXCEPT ![i] = q]]
      /\ done' = [done EXCEPT !["packets"] = done["packets"] + 1]
      /\ UNCHANGED <<net, agreed, answers>>
  BY DEF SendPacket
<1>2. setting \in Settings /\ done.connects \in Nat /\ Held(p, done.connects) /\ p \in Peer
  BY InvFacts
<1>3. c \in Cmd /\ c.kind = "packet"
  BY <1>2, CommandIs
<1>4. p.queue \in Seq(Cmd)
  BY <1>2 DEF Peer
<1> HIDE DEF c, p
<1>5. queue \in Seq(Cmd) /\ \A j \in DOMAIN queue : queue[j] = c \/ (j \in DOMAIN p.queue /\ queue[j] = p.queue[j])
  <2>1. queue \in Seq(Cmd)
    BY <1>3, <1>4, AppendProperties
  <2>2. DOMAIN queue = 1 .. Len(p.queue) + 1 /\ Len(p.queue) \in Nat /\ DOMAIN p.queue = 1 .. Len(p.queue)
    BY <1>3, <1>4, <2>1, AppendProperties, LenProperties
  <2>3. ASSUME NEW j \in DOMAIN queue
        PROVE  queue[j] = c \/ (j \in DOMAIN p.queue /\ queue[j] = p.queue[j])
    <3>1. j \in 1 .. Len(p.queue) + 1 /\ (j # Len(p.queue) + 1 => j \in 1 .. Len(p.queue))
      BY <2>2
    <3>2. queue[j] = IF j = Len(p.queue) + 1 THEN c ELSE p.queue[j]
      BY <1>3, <1>4, <3>1, AppendProperties
    <3> QED BY <2>2, <3>1, <3>2
  <2> QED BY <2>1, <2>3
<1> HIDE DEF queue
<1>6. q \in Peer
  BY <1>2, <1>5 DEF Peer
<1>7. /\ q.state = p.state /\ q.connectID = p.connectID /\ q.before = p.before
      /\ q.outgoingPeerID = p.outgoingPeerID /\ q.incomingSession = p.incomingSession
      /\ q.outgoingSession = p.outgoingSession /\ q.acks = p.acks /\ q.sent = p.sent
  BY <1>2 DEF Peer
<1>8. q.queue = queue
  BY <1>2 DEF Peer
<1> HIDE DEF q
<1>9. Held(q, done.connects)
  BY <1>2, <1>6, <1>7 DEF Held
<1>10. AsksNoMore(q, p)
  BY <1>3, <1>5, <1>7, <1>8 DEF AsksNoMore, Own, Asks
<1> QED BY <1>1, <1>7, <1>9, <1>10, QueueStep DEF p

LEMMA RestartStep ==
    ASSUME HandshakeInv, setting' = setting, NEW h \in Hosts, Restart(h)
    PROVE  HandshakeInv'
<1> DEFINE slots == [i \in Slots |-> Fresh]
<1>1. /\ peers' = [peers EXCEPT ![h] = slots]
      /\ done' = [done EXCEPT !["restarts"] = done["restarts"] + 1]
      /\ UNCHANGED <<net, agreed, answers>>
  BY DEF Restart
<1>2. setting \in Settings /\ done.connects \in Nat /\ done.connects <= MaxConnects
  BY InvFacts
<1>3. Held(Fresh, done.connects) /\ Fresh \in Peer /\ Fresh.connectID = 0 /\ \A k : ~ Own(Fresh, k)
  BY <1>2, FreshHeld DEF Held
<1>4. \A i \in Slots : slots[i] = Fresh
  OBVIOUS
<1>5. slots \in [Slots -> Peer]
  BY <1>3
<1> HIDE DEF slots
<1>6. SlotsInv(slots, done.connects) /\ \A k : ~ Named(slots, k)
  BY <1>3, <1>4, <1>5 DEF SlotsInv, Named
<1>7. /\ done' \in DoneType /\ done'.connects = done.connects /\ net' \subseteq NetType
      /\ agreed' \subseteq 1 .. MaxConnects /\ answers' \in [1 .. MaxConnects -> Nat]
  BY <1>1, CallsCounted DEF HandshakeInv
<1>8. \A d \in net' \ net : d.from = h /\ \A k : Carries(d, k) => Named(peers[h], k)
  BY <1>1
<1> QED BY <1>1, <1>2, <1>6, <1>7, <1>8, HostStep

LEMMA TimeOutStep ==
    ASSUME HandshakeInv, setting' = setting, NEW h \in Hosts, NEW i \in Slots,
           TimeOut(h, i) \/ Report(h, i)
    PROVE  HandshakeInv'
<1>1. /\ peers' = [peers EXCEPT ![h] = [peers[h] EXCEPT ![i] = Reset(peers[h][i])]]
      /\ done' = done \/ done' = [done EXCEPT !["endings"] = done["endings"] + 1]
      /\ UNCHANGED <<net, agreed, answers>>
  BY DEF TimeOut, Report
<1>2. done' \in DoneType /\ done'.connects = done.connects /\ net' \subseteq NetType
  BY <1>1, CallsCounted
<1>3. \A d \in net' \ net : d.from = h /\ \A k : Carries(d, k) => Named(peers[h], k)
  BY <1>1
<1> QED BY <1>1, <1>2, <1>3, ResetStep

LEMMA ListOf ==
    ASSUME NEW S, NEW T, S \subseteq T, IsFiniteSet(S)
    PROVE  SetToSeq(S) \in Seq(T) /\ \A i \in DOMAIN SetToSeq(S) : SetToSeq(S)[i] \in S
<1> DEFINE n == Cardinality(S)
           Lists(f) == f \in [1 .. n -> S] /\ IsInjective(f)
<1>1. n \in Nat /\ ExistsBijection(1 .. n, S)
  BY FS_CardinalityType
<1>2. \E f : Lists(f)
  <2>1. PICK f : f \in Bijection(1 .. n, S)
    BY <1>1 DEF ExistsBijection
  <2> QED BY <2>1 DEF Bijection, Injection, Surjection, IsInjective
<1>3. SetToSeq(S) = CHOOSE f \in [1 .. n -> S] : IsInjective(f)
  BY DEF SetToSeq
<1>4. SetToSeq(S) \in [1 .. n -> S]
  BY <1>2, <1>3
<1> QED BY <1>1, <1>4

\* What stands in two lists one after the other stands in one of them.
LEMMA FromBoth ==
    ASSUME NEW first \in Seq(Cmd), NEW second \in Seq(Cmd)
    PROVE  /\ first \o second \in Seq(Cmd)
           /\ \A j \in DOMAIN (first \o second) :
                \/ \E l \in DOMAIN first : (first \o second)[j] = first[l]
                \/ \E l \in DOMAIN second : (first \o second)[j] = second[l]
<1> DEFINE both == first \o second
<1>1. both \in Seq(Cmd) /\ Len(both) = Len(first) + Len(second)
  BY ConcatProperties
<1>2. /\ Len(first) \in Nat /\ Len(second) \in Nat
      /\ DOMAIN first = 1 .. Len(first) /\ DOMAIN second = 1 .. Len(second)
      /\ DOMAIN both = 1 .. Len(first) + Len(second)
  BY <1>1, LenProperties
<1>3. ASSUME NEW j \in DOMAIN both
      PROVE  \/ \E l \in DOMAIN first : both[j] = first[l]
             \/ \E l \in DOMAIN second : both[j] = second[l]
  <2>1. j \in 1 .. Len(first) + Len(second)
    BY <1>2
  <2>2. both[j] = IF j <= Len(first) THEN first[j] ELSE second[j - Len(first)]
    BY <2>1, ConcatProperties
  <2> HIDE DEF both
  <2>3. CASE j <= Len(first)
    <3>1. j \in DOMAIN first
      BY <1>2, <2>1, <2>3
    <3> QED BY <2>2, <2>3, <3>1
  <2>4. CASE ~ (j <= Len(first))
    <3>1. j - Len(first) \in DOMAIN second
      BY <1>2, <2>1, <2>4
    <3> QED BY <2>2, <2>4, <3>1
  <2> QED BY <2>3, <2>4
<1> QED BY <1>1, <1>3

LEMMA SendStep ==
    ASSUME HandshakeInv, setting' = setting, NEW h \in Hosts, NEW i \in Slots, Send(h, i)
    PROVE  HandshakeInv'
<1> DEFINE p == peers[h][i]
           List(again) == SetToSeq(p.acks) \o SetToSeq(again) \o p.queue
           sent == p.sent \cup {c \in Range(p.queue) : c.number > 0}
           state == IF p.state = "ACKNOWLEDGING_DISCONNECT" /\ p.acks # {} THEN "ZOMBIE"
                    ELSE p.state
           q == [p EXCEPT !.acks = {}, !.queue = << >>, !.sent = sent, !.state = state]
<1>1. \E again \in {{}} \cup {{c} : c \in p.sent} :
        /\ net' = net \cup {Datagram(h, p, List(again))}
        /\ peers' = [peers EXCEPT ![h] = [peers[h] EXCEPT ![i] = q]]
        /\ done' = [done EXCEPT !.resends = @ + Cardinality(again)]
        /\ UNCHANGED <<agreed, answers>>
  BY DEF Send
<1>2. PICK again \in {{}} \cup {{c} : c \in p.sent} :
        /\ net' = net \cup {Datagram(h, p, List(again))}
        /\ peers' = [peers EXCEPT ![h] = [peers[h] EXCEPT ![i] = q]]
        /\ done' = [done EXCEPT !.resends = @ + Cardinality(again)]
        /\ UNCHANGED <<agreed, answers>>
  BY <1>1, Zenon
<1>3. setting \in Settings /\ done.connects \in Nat /\ Held(p, done.connects) /\ p \in Peer
  BY InvFacts
<1>4. /\ p.acks \in SUBSET Cmd /\ IsFiniteSet(p.acks) /\ \A c \in p.acks : c.kind = "ack"
      /\ p.queue \in Seq(Cmd) /\ p.sent \in SUBSET Cmd /\ p.state \in PeerStates
  BY <1>3 DEF Held, Peer
<1>5. again \subseteq p.sent /\ again \subseteq Cmd /\ IsFiniteSet(again) /\ Cardinality(again) \in Nat
  <2>1. CASE again = {}
    BY <2>1, FS_EmptySet
  <2>2. CASE again # {}
    <3>1. PICK c \in p.sent : again = {c}
      BY <2>2
    <3>2. IsFiniteSet({c}) /\ Cardinality({c}) = 1
      BY FS_Singleton
    <3> QED BY <1>4, <3>1, <3>2
  <2> QED BY <2>1, <2>2
<1> DEFINE first == SetToSeq(p.acks)
           middle == SetToSeq(again)
           front == first \o middle
           commands == front \o p.queue
           d == Datagram(h, p, commands)
<1>6. first \in Seq(Cmd) /\ \A j \in DOMAIN first : first[j] \in p.acks
  BY <1>4, ListOf
<1>7. middle \in Seq(Cmd) /\ \A j \in DOMAIN middle : middle[j] \in p.sent
  <2>1. middle \in Seq(Cmd) /\ \A j \in DOMAIN middle : middle[j] \in again
    BY <1>5, ListOf
  <2> QED BY <1>5, <2>1
<1>8. List(again) = commands
  OBVIOUS
<1> HIDE DEF first, middle, List
<1>9. /\ front \in Seq(Cmd)
      /\ \A j \in DOMAIN front : front[j] \in p.acks \/ front[j] \in p.sent
  <2>1. /\ front \in Seq(Cmd)
        /\ \A j \in DOMAIN front :
              \/ \E l \in DOMAIN first : front[j] = first[l]
              \/ \E l \in DOMAIN middle : front[j] = middle[l]
    BY <1>6, <1>7, FromBoth
  <2> HIDE DEF front
  <2> QED BY <1>6, <1>7, <2>1
<1> HIDE DEF front
<1>10. /\ commands \in Seq(Cmd)
       /\ \A j \in DOMAIN commands :
            \/ commands[j] \in p.acks \/ commands[j] \in p.sent
            \/ \E l \in DOMAIN p.queue : commands[j] = p.queue[l]
  <2>1. /\ commands \in Seq(Cmd)
        /\ \A j \in DOMAIN commands :
              \/ \E l \in DOMAIN front : commands[j] = front[l]
              \/ \E l \in DOMAIN p.queue : commands[j] = p.queue[l]
    BY <1>4, <1>9, FromBoth
  <2> HIDE DEF commands
  <2> QED BY <1>9, <2>1
<1> HIDE DEF commands
<1>11. d \in NetType /\ d.from = h /\ d.commands = commands
  <2> HIDE DEF p
  <2> QED BY <1>3, <1>10, DatagramIs
<1>12. \A k : Carries(d, k) => Named(peers[h], k)
  <2> HIDE DEF d
  <2>1. ASSUME NEW k, Carries(d, k) PROVE Own(p, k)
    <3>1. PICK j \in DOMAIN commands : Asks(commands[j], k)
      BY <1>11, <2>1 DEF Carries
    <3>2. commands[j] \notin p.acks
      BY <1>4, <3>1 DEF Asks
    <3> QED BY <1>10, <3>1, <3>2 DEF Own
  <2> QED BY <2>1 DEF Named
<1>13. /\ sent \in SUBSET Cmd
       /\ \A c \in sent : c \in p.sent \/ \E l \in DOMAIN p.queue : c = p.queue[l]
  <2>1. \A l \in DOMAIN p.queue : p.queue[l] \in Cmd
    BY <1>4, ElementOfSeq
  <2>2. \A c \in Range(p.queue) : \E l \in DOMAIN p.queue : c = p.queue[l]
    BY DEF Range
  <2> HIDE DEF p
  <2> QED BY <1>4, <2>1, <2>2
<1>14. state \in PeerStates /\ (state = p.state \/ state = "ZOMBIE") /\ "ZOMBIE" \notin Known
  BY <1>4 DEF PeerStates, Known
<1> HIDE DEF p, d, sent, state
<1>15. << >> \in Seq(Cmd) /\ {} \in SUBSET Cmd /\ IsFiniteSet({})
  BY FS_EmptySet
<1>16. q \in Peer
  BY <1>3, <1>13, <1>14, <1>15 DEF Peer
<1>17. /\ q.connectID = p.connectID /\ q.before = p.before
       /\ q.outgoingPeerID = p.outgoingPeerID /\ q.incomingSession = p.incomingSession
       /\ q.outgoingSession = p.outgoingSession
  BY <1>3 DEF Peer
<1>18. q.acks = {} /\ q.queue = << >> /\ q.sent = sent /\ q.state = state
  BY <1>3 DEF Peer
<1> HIDE DEF q
<1>19. Held(q, done.connects)
  BY <1>3, <1>14, <1>15, <1>16, <1>17, <1>18 DEF Held
<1>20. AsksNoMore(q, p)
  BY <1>13, <1>14, <1>17, <1>18 DEF AsksNoMore, Own
<1>21. /\ done' \in DoneType /\ done'.connects = done.connects /\ net' \subseteq NetType
       /\ \A e \in net' \ net : e.from = h /\ \A k : Carries(e, k) => Named(peers[h], k)
  <2>1. done' \in DoneType /\ done'.connects = done.connects
    BY <1>2, <1>5, CallsCounted
  <2>2. net' = net \cup {d} /\ net \subseteq NetType
    BY <1>2, <1>8, CallsCounted DEF d
  <2> QED BY <1>11, <1>12, <2>1, <2>2
<1>22. q.connectID \in {peers[h][i].connectID, 0} /\ AsksNoMore(q, peers[h][i])
  BY <1>17, <1>20 DEF p
<1> QED BY <1>2, <1>19, <1>21, <1>22, SlotStep

LEMMA ReceiveStep ==
    ASSUME HandshakeInv, setting' = setting, NEW d \in net, Receive(d)
    PROVE  HandshakeInv'
<1> DEFINE h == Other(d.from)
           s0 == [slots |-> peers[h], slot |-> d.peerID, stop |-> FALSE]
           s == FoldLeft(HandleCommand, s0, d.commands)
           verified == {i \in Slots : peers[h][i].state = "CONNECTING" /\ s.slots[i].state = "CONNECTED"}
           n == done.connects
<1>1. /\ peers' = [peers EXCEPT ![h] = s.slots]
      /\ agreed' = agreed \cup {peers[h][i].connectID : i \in verified}
      /\ net' = IF Duplicates THEN net ELSE net \ {d}
      /\ answers' = IF d.peerID = NoSlot /\ s.slot # NoSlot
                    THEN [answers EXCEPT ![d.of[1]] = @ + 1] ELSE answers
      /\ UNCHANGED done
  BY Zenon DEF Receive
<1>2. d \in NetType
  BY DEF HandshakeInv
<1>3. /\ d.from \in Hosts /\ h \in Hosts /\ h # d.from /\ d.peerID \in Slots \cup {NoSlot}
      /\ d.commands \in Seq(Cmd)
  BY <1>2, Ends2 DEF NetType
<1>4. /\ setting \in Settings /\ n \in Nat /\ n <= MaxConnects /\ MaxConnects \in Nat
      /\ SlotsInv(peers[h], n) /\ peers[h] \in [Slots -> Peer]
  BY <1>3, InvFacts
<1>5. s0 \in Handling(peers[h], n)
  <2> HIDE DEF h
  <2>1. s0 \in Result /\ s0.slots = peers[h]
    BY <1>3, <1>4 DEF Result
  <2> QED BY <1>4, <2>1 DEF Handling
<1>6. ASSUME NEW j \in DOMAIN d.commands PROVE Foreign(d.commands[j], peers[h], n)
  <2> SUFFICES ASSUME d.commands[j].kind = "connect"
               PROVE  /\ d.commands[j].connectID \in 1 .. n
                      /\ ~ Named(peers[h], d.commands[j].connectID)
                      /\ answers[d.commands[j].connectID] \in Nat
    BY DEF Foreign
  <2> DEFINE k == d.commands[j].connectID
  <2>1. Made(peers[d.from], net, d.from, k)
    BY DEF Made, Carries, Asks
  <2>2. k \in 1 .. n
    BY <1>3, <2>1 DEF HandshakeInv, IdsInv
  <2>3. ~ Made(peers[h], net, h, k)
    <3>1. ~ (Made(peers[1], net, 1, k) /\ Made(peers[2], net, 2, k))
      BY DEF HandshakeInv, IdsInv
    <3>2. (h = 1 /\ d.from = 2) \/ (h = 2 /\ d.from = 1)
      BY <1>3, Ends2
    <3> HIDE DEF k, h
    <3> QED BY <2>1, <3>1, <3>2
  <2>4. answers[k] \in Nat
    <3>1. answers \in [1 .. MaxConnects -> Nat]
      BY DEF HandshakeInv
    <3> HIDE DEF k
    <3>2. k \in 1 .. MaxConnects
      BY <1>4, <2>2
    <3> QED BY <3>1, <3>2
  <2> QED BY <2>2, <2>3, <2>4 DEF Made
<1>7. s \in Handling(peers[h], n)
  <2> HIDE DEF h, s0, n
  <2> QED BY <1>3, <1>4, <1>5, <1>6, DatagramHandled DEF h
<1> HIDE DEF s
<1>8. SlotsInv(s.slots, n) /\ \A k : Named(s.slots, k) => Named(peers[h], k)
  BY <1>7, HandlingFacts
<1>9. agreed' \subseteq 1 .. MaxConnects
  <2>1. \A i \in verified : peers[h][i].connectID \in 1 .. MaxConnects
    <3> SUFFICES ASSUME NEW i \in Slots, peers[h][i].state = "CONNECTING"
                 PROVE  peers[h][i].connectID \in 1 .. MaxConnects
      OBVIOUS
    <3>1. Held(peers[h][i], n) /\ peers[h][i] \in Peer
      BY <1>3, InvFacts
    <3>2. peers[h][i].connectID \in Nat /\ peers[h][i].connectID > 0 /\ peers[h][i].connectID <= n
      BY <3>1 DEF Held, Peer
    <3> QED BY <1>4, <3>2
  <2>2. agreed \subseteq 1 .. MaxConnects
    BY DEF HandshakeInv
  <2> HIDE DEF verified, h
  <2> QED BY <1>1, <2>1, <2>2
<1>10. /\ done' \in DoneType /\ done'.connects = n /\ net' \subseteq NetType
       /\ \A e \in net' \ net : e.from = h /\ \A k : Carries(e, k) => Named(peers[h], k)
  BY <1>1, CallsCounted
<1>11. answers' \in [1 .. MaxConnects -> Nat]
  <2>1. answers \in [1 .. MaxConnects -> Nat]
    BY DEF HandshakeInv
  <2>2. answers' = answers \/ answers' = [answers EXCEPT ![d.of[1]] = @ + 1]
    BY <1>1
  <2> QED BY <2>1, <2>2
<1> HIDE DEF h
<1> QED BY <1>1, <1>3, <1>4, <1>8, <1>9, <1>10, <1>11, HostStep

LEMMA StartInv == Init => HandshakeInv
<1> SUFFICES ASSUME Init PROVE HandshakeInv
  OBVIOUS
<1> DEFINE slots == [i \in Slots |-> Fresh]
<1>1. /\ setting \in Settings /\ net = {} /\ agreed = {}
      /\ peers = [h \in Hosts |-> slots]
      /\ answers = [c \in 1 .. MaxConnects |-> 0]
      /\ done = [connects |-> 0, endings |-> 0, restarts |-> 0, configures |-> 0, packets |-> 0,
                  resends |-> 0]
  BY DEF Init
<1>2. done \in DoneType /\ done.connects = 0
  BY <1>1 DEF DoneType
<1>3. Held(Fresh, 0) /\ Fresh \in Peer /\ Fresh.connectID = 0 /\ \A k : ~ Own(Fresh, k)
  BY <1>1, FreshHeld DEF Held
<1>4. \A i \in Slots : slots[i] = Fresh
  OBVIOUS
<1>5. slots \in [Slots -> Peer]
  BY <1>3
<1> HIDE DEF slots
<1>6. SlotsInv(slots, 0) /\ \A k : ~ Named(slots, k)
  BY <1>3, <1>4, <1>5 DEF SlotsInv, Named
<1>7. \A h \in Hosts : peers[h] = slots
  BY <1>1
<1>8. peers \in [Hosts -> [Slots -> Peer]] /\ \A h \in Hosts : SlotsInv(peers[h], done.connects)
  BY <1>1, <1>2, <1>5, <1>6, <1>7
<1>9. \A h \in Hosts : \A k : ~ Made(peers[h], net, h, k)
  BY <1>1, <1>6, <1>7 DEF Made
<1>10. MaxConnects \in Nat
  BY <1>1, Numbering
<1>11. IdsInv
  <2>1. 1 \in Hosts
    BY Ends2
  <2> QED BY <1>2, <1>9, <1>10, <2>1 DEF IdsInv
<1> QED BY <1>1, <1>2, <1>8, <1>11 DEF HandshakeInv

LEMMA StepInv == HandshakeInv /\ [Next]_vars => HandshakeInv'
<1> SUFFICES ASSUME HandshakeInv, [Next]_vars PROVE HandshakeInv'
  OBVIOUS
<1>1. setting' = setting
  BY DEF Next, vars
<1>2. CASE UNCHANGED vars
  <2>1. peers' = peers /\ net' = net /\ done' = done /\ agreed' = agreed /\ answers' = answers
    BY <1>2 DEF vars
  <2>2. 1 \in Hosts /\ peers \in [Hosts -> [Slots -> Peer]]
    BY Ends2, InvFacts
  <2>3. peers' = [peers EXCEPT ![1] = peers[1]] /\ SlotsInv(peers[1], done.connects)
    BY <2>1, <2>2, InvFacts
  <2>4. /\ done' \in DoneType /\ done'.connects \in {done.connects, done.connects + 1}
        /\ done'.connects <= MaxConnects /\ net' \subseteq NetType
        /\ agreed' \subseteq 1 .. MaxConnects /\ answers' \in [1 .. MaxConnects -> Nat]
    BY <2>1, InvFacts DEF HandshakeInv
  <2> QED BY <1>1, <2>1, <2>2, <2>3, <2>4, HostStep
<1>3. ASSUME NEW h \in Hosts, Connect(h) PROVE HandshakeInv'
  BY <1>1, <1>3, ConnectStep
<1>4. ASSUME NEW h \in Hosts, Restart(h) PROVE HandshakeInv'
  BY <1>1, <1>4, RestartStep
<1>5. ASSUME NEW h \in Hosts, NEW i \in Slots, DisconnectNow(h, i) PROVE HandshakeInv'
  BY <1>1, <1>5, DisconnectNowStep
<1>6. ASSUME NEW h \in Hosts, NEW i \in Slots, ThrottleConfigure(h, i) PROVE HandshakeInv'
  BY <1>1, <1>6, ThrottleConfigureStep
<1>7. ASSUME NEW h \in Hosts, NEW i \in Slots, SendPacket(h, i) PROVE HandshakeInv'
  BY <1>1, <1>7, SendPacketStep
<1>8. ASSUME NEW h \in Hosts, NEW i \in Slots, Send(h, i) PROVE HandshakeInv'
  BY <1>1, <1>8, SendStep
<1>9. ASSUME NEW h \in Hosts, NEW i \in Slots, TimeOut(h, i) \/ Report(h, i) PROVE HandshakeInv'
  BY <1>1, <1>9, TimeOutStep
<1>10. ASSUME NEW d \in net, Receive(d) PROVE HandshakeInv'
  BY <1>1, <1>10, ReceiveStep
<1>11. ASSUME NEW h \in Hosts, NEW i \in Slots, Disconnect(h, i) PROVE HandshakeInv'
  BY <1>1, <1>11, DisconnectStep
<1> QED BY <1>2, <1>3, <1>4, <1>5, <1>6, <1>7, <1>8, <1>9, <1>10, <1>11 DEF Next, Step

THEOREM HandshakeCorrect == Spec => []HandshakeInv
  BY StartInv, StepInv, PTL DEF Spec

\* Through restarts, repeated CONNECTs and connections lost at any point, what is known of
\* the other end belongs to the state of the slot, and no id, session or slot number leaves
\* its range (protocol.c:294-444, 948-1008, 1026-1062).
THEOREM HandshakeTyped == Spec => []TypeOK
<1>1. HandshakeInv => TypeOK
  <2> SUFFICES ASSUME HandshakeInv PROVE TypeOK
    OBVIOUS
  <2>1. ASSUME NEW h \in Hosts, NEW i \in Slots
        PROVE  LET p == peers[h][i]
               IN  /\ p.state \in PeerStates
                   /\ p.connectID \in 0 .. MaxConnects /\ p.before[1] \in 0 .. MaxConnects
                   /\ p.outgoingPeerID \in Slots \cup {NoSlot}
                   /\ {p.incomingSession, p.outgoingSession} \subseteq Sessions \cup {NoSession}
                   /\ p.state = "CONNECTING" \/ p.state \in Known => p.connectID > 0
                   /\ p.state \in Known =>
                        /\ p.outgoingPeerID # NoSlot
                        /\ {p.incomingSession, p.outgoingSession} \subseteq Sessions
    <3> DEFINE p == peers[h][i]
    <3>1. /\ Held(p, done.connects) /\ p \in Peer
          /\ done.connects \in Nat /\ done.connects <= MaxConnects /\ MaxConnects \in Nat
      BY InvFacts
    <3>2. /\ p.state \in PeerStates /\ p.connectID \in Nat /\ p.before[1] \in Nat
          /\ p.outgoingPeerID \in Slots \cup {NoSlot}
          /\ p.incomingSession \in Session /\ p.outgoingSession \in Session
      BY <3>1 DEF Peer
    <3> HIDE DEF p
    <3>3. p.connectID \in 0 .. MaxConnects /\ p.before[1] \in 0 .. MaxConnects
      BY <3>1, <3>2 DEF Held
    <3>4. /\ p.state = "CONNECTING" \/ p.state \in Known => p.connectID > 0
          /\ p.state \in Known =>
                /\ p.outgoingPeerID # NoSlot
                /\ {p.incomingSession, p.outgoingSession} \subseteq Sessions
      BY <3>1 DEF Held
    <3> QED BY <3>2, <3>3, <3>4 DEF Session, p
  <2>2. agreed \subseteq 1 .. MaxConnects
    BY DEF HandshakeInv
  <2> QED BY <2>1, <2>2 DEF TypeOK
<1> QED BY <1>1, HandshakeCorrect, PTL

\* However often a CONNECT arrives, and whichever host calls or is created anew, no two
\* slots of a host are for the same attempt (protocol.c:322-325).
THEOREM OneSlotPerAttempt == Spec => []OneSlotEach
<1>1. HandshakeInv => OneSlotEach
  BY InvFacts DEF OneSlotEach, SlotsInv
<1> QED BY <1>1, HandshakeCorrect, PTL
=============================================================================
