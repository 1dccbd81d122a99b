--------------------------- MODULE SenderQueue_proofs ---------------------------
(***************************************************************************)
(* Proofs about what a peer still has to send, for channels, windows,      *)
(* datagrams, timeouts and settings of any size.                           *)
(*                                                                         *)
(* A pass takes commands out of lists and puts them into others, one or    *)
(* two at a time, inside loops.  What holds between any two of these turns *)
(* is a balance of all lists together (Accounted): as many places as       *)
(* commands, a queue time for one command only, and windows and data in    *)
(* transit that count those that were sent.  The loops are folds, so that  *)
(* a turn that keeps the balance is all there is to show.  What was taken  *)
(* off goes back to its place in the order (Ordered), which is what the    *)
(* search for an acknowledged command relies on.                           *)
(***************************************************************************)
EXTENDS SenderQueue, NumberLemmas

-----------------------------------------------------------------------------
(* Types.  Commands(t) are those a peer may have at time t: what was sent   *)
(* is reliable and keeps the time of its first sending in since.           *)

AllCommands ==
    [kind : Kind, channel : Channels \cup {Control}, length : Nat, packet : Nat,
     first : BOOLEAN, number : 0 .. Modulus - 1, unreliable : Nat, queueTime : Nat \ {0},
     attempts : Nat, sentTime : Nat, timeout : Nat, since : Nat]

Sound(c) ==
    /\ HasPacket(c) => c.channel \in Channels
    /\ ~ HasPacket(c) => c.length = 0 /\ c.channel = Control
    /\ c.attempts = 0 => c.since = 0
    /\ c.attempts > 0 => Reliable(c) /\ c.timeout > 0 /\ c.since > 0 /\ c.since <= c.sentTime

Commands(t) == {c \in AllCommands : Sound(c) /\ c.sentTime <= t}
Outgoings(t) == {c \in Commands(t) : Reliable(c) => ~ HasPacket(c)}
Packeted(t) == {c \in Commands(t) : Reliable(c) /\ HasPacket(c)}
Sents(t) == {c \in Commands(t) : c.attempts > 0}

States == {"connected", "timed out", "crashed"}

PeerType(t) ==
    [state : States, outgoing : Seq(Outgoings(t)),
     sendReliable : Seq(Packeted(t)), sent : Seq(Sents(t)),
     number : [Channels \cup {Control} -> 0 .. Modulus - 1],
     unreliable : [Channels \cup {Control} -> Nat],
     windows : [Channels -> [0 .. Windows - 1 -> Nat]],
     totalQueued : Nat, nextTimeout : Nat, earliest : Nat, inTransit : Int,
     throttle : 0 .. Scale, counter : 0 .. Scale - 1, roundTrip : Nat \ {0},
     lastReceive : Nat, continue : BOOLEAN]

WalkType(t) ==
    [peer : PeerType(t), outgoing : Seq(Outgoings(t)), sendReliable : Seq(Packeted(t)),
     wrap : BOOLEAN, canPing : BOOLEAN, size : Nat, full : BOOLEAN,
     datagram : Seq(Commands(t)), dropped : Seq(Seq(Outgoings(t)))]

LEMMA Sizes ==
    /\ WindowSize \in Nat \ {0} /\ Windows \in Nat \ {0} /\ FreeWindows \in Nat \ {0}
    /\ Capacity \in Nat \ {0} /\ FlowWindow \in Nat \ {0} /\ Scale \in Nat \ {0}
    /\ ThrottleStep \in Nat \ {0} /\ Modulus \in Nat \ {0} /\ Modulus = WindowSize * Windows
    /\ FreeWindows + 2 <= Windows /\ Control \notin Channels
<1>1. \A x, y \in Nat \ {0} : x * y \in Nat \ {0}
  OBVIOUS
<1>2. Control \notin Channels
  BY ChannelsAssumption DEF Control
<1> QED BY <1>1, <1>2, WindowsAssumption, FlowAssumption DEF Modulus

LEMMA WalkWith ==
    ASSUME NEW t, NEW w \in WalkType(t), NEW q \in PeerType(t)
    PROVE  LET v == [w EXCEPT !.peer = q]
           IN  /\ v \in WalkType(t) /\ v.peer = q
               /\ v.outgoing = w.outgoing /\ v.sendReliable = w.sendReliable
               /\ v.wrap = w.wrap /\ v.canPing = w.canPing /\ v.size = w.size
               /\ v.full = w.full /\ v.datagram = w.datagram /\ v.dropped = w.dropped
  BY DEF WalkType

-----------------------------------------------------------------------------
(* Accounts.  B is what a peer has in all its lists, n the places of the   *)
(* lists.  No two places have the same queue time, each window counts what *)
(* was sent of it, the earliest timeout is no earlier than the first time   *)
(* some command was sent, and nothing reliable of K is missing.            *)

InUse(B, ch, k) == {c \in B : c.attempts > 0 /\ c.channel = ch /\ Window(c) = k}
Waits(B) == {c.queueTime : c \in {d \in B : Reliable(d)}}

Accounted(B, n, windows, earliest, K) ==
    /\ B \subseteq AllCommands /\ IsFiniteSet(B) /\ Cardinality(B) = n
    /\ \A c, d \in B : c.queueTime = d.queueTime => c = d
    /\ \A ch \in Channels : \A k \in 0 .. Windows - 1 : windows[ch][k] = Cardinality(InUse(B, ch, k))
    /\ earliest # Never => \E d \in B : d.attempts > 0 /\ d.since <= earliest
    /\ K \subseteq Waits(B)

LEMMA FiniteParts ==
    ASSUME NEW B, IsFiniteSet(B), NEW D \in SUBSET B
    PROVE  IsFiniteSet(D) /\ Cardinality(D) \in Nat /\ Cardinality(D) <= Cardinality(B)
  BY FS_Subset, FS_CardinalityType

LEMMA OneMore ==
    ASSUME NEW B, IsFiniteSet(B), NEW c
    PROVE  /\ IsFiniteSet(B \cup {c})
           /\ Cardinality(B \cup {c}) = IF c \in B THEN Cardinality(B) ELSE Cardinality(B) + 1
           /\ Cardinality(B) \in Nat
  BY FS_AddElement, FS_CardinalityType

\* A command taken out of the lists leaves none behind with its queue time.
LEMMA TakenApart ==
    ASSUME NEW R, NEW c, NEW m \in Nat, NEW windows, NEW earliest, NEW K,
           Accounted(R \cup {c}, m + 1, windows, earliest, K), Cardinality(R) <= m
    PROVE  /\ c \notin R /\ IsFiniteSet(R) /\ Cardinality(R) = m /\ R \subseteq AllCommands /\ c \in AllCommands
           /\ \A d \in R : d.queueTime # c.queueTime
           /\ \A d, e \in R : d.queueTime = e.queueTime => d = e
<1>1. IsFiniteSet(R \cup {c}) /\ Cardinality(R \cup {c}) = m + 1
  BY DEF Accounted
<1>2. IsFiniteSet(R)
  <2>1. R \in SUBSET (R \cup {c})
    OBVIOUS
  <2> QED BY <1>1, <2>1, FiniteParts
<1>3. c \notin R /\ Cardinality(R) = m
  BY <1>1, <1>2, OneMore
<1>4. \A d, e \in R \cup {c} : d.queueTime = e.queueTime => d = e
  BY DEF Accounted
<1>5. R \cup {c} \subseteq AllCommands
  BY DEF Accounted
<1> QED BY <1>2, <1>3, <1>4, <1>5

\* r takes the place of c: as it was, or sent for the first time or once more.
Follows(r, c) ==
    /\ r \in AllCommands /\ r.queueTime = c.queueTime /\ r.kind = c.kind
    /\ r.channel = c.channel /\ r.number = c.number
    /\ c.attempts > 0 => r.attempts > 0 /\ r.since = c.since

First(r, c, ch, k) == c.attempts = 0 /\ r.attempts > 0 /\ c.channel = ch /\ Window(c) = k

LEMMA Swapped ==
    ASSUME NEW R, NEW c, NEW r, NEW m \in Nat, NEW windows, NEW earliest, NEW K, NEW after,
           Accounted(R \cup {c}, m + 1, windows, earliest, K), Cardinality(R) <= m,
           Follows(r, c),
           \A ch \in Channels : \A k \in 0 .. Windows - 1 :
               after[ch][k] = IF First(r, c, ch, k) THEN windows[ch][k] + 1 ELSE windows[ch][k]
    PROVE  Accounted(R \cup {r}, m + 1, after, earliest, K)
<1>1. /\ c \notin R /\ IsFiniteSet(R) /\ Cardinality(R) = m /\ R \subseteq AllCommands /\ c \in AllCommands
      /\ \A d \in R : d.queueTime # c.queueTime
      /\ \A d, e \in R : d.queueTime = e.queueTime => d = e
  BY TakenApart
<1>2. r \notin R /\ r \in AllCommands
  BY <1>1 DEF Follows
<1>3. IsFiniteSet(R \cup {r}) /\ Cardinality(R \cup {r}) = m + 1 /\ R \cup {r} \subseteq AllCommands
  BY <1>1, <1>2, OneMore
<1>4. \A d, e \in R \cup {r} : d.queueTime = e.queueTime => d = e
  BY <1>1 DEF Follows
<1>5. ASSUME NEW ch \in Channels, NEW k \in 0 .. Windows - 1
      PROVE  after[ch][k] = Cardinality(InUse(R \cup {r}, ch, k))
  <2>1. windows[ch][k] = Cardinality(InUse(R \cup {c}, ch, k))
    BY DEF Accounted
  <2>2. after[ch][k] = IF First(r, c, ch, k) THEN windows[ch][k] + 1 ELSE windows[ch][k]
    OBVIOUS
  <2>3. IsFiniteSet(InUse(R, ch, k)) /\ InUse(R, ch, k) \subseteq R
    <3>1. InUse(R, ch, k) \in SUBSET R
      BY DEF InUse
    <3> QED BY <1>1, <3>1, FiniteParts
  <2> DEFINE Uses(x) == x.attempts > 0 /\ x.channel = ch /\ Window(x) = k
  <2>4. InUse(R \cup {c}, ch, k) = IF Uses(c) THEN InUse(R, ch, k) \cup {c} ELSE InUse(R, ch, k)
    BY DEF InUse
  <2>5. InUse(R \cup {r}, ch, k) = IF Uses(r) THEN InUse(R, ch, k) \cup {r} ELSE InUse(R, ch, k)
    BY DEF InUse
  <2>6. c.attempts \in Nat /\ r.attempts \in Nat
    BY <1>1, <1>2 DEF AllCommands
  <2>7. (Uses(c) => Uses(r)) /\ (First(r, c, ch, k) <=> Uses(r) /\ ~ Uses(c))
    BY <2>6 DEF Follows, First, Window
  <2>8. /\ c \notin InUse(R, ch, k) /\ r \notin InUse(R, ch, k)
    BY <1>1, <1>2, <2>3
  <2> HIDE DEF Uses
  <2>9. /\ Cardinality(InUse(R, ch, k)) \in Nat
        /\ Cardinality(InUse(R, ch, k) \cup {c}) = Cardinality(InUse(R, ch, k)) + 1
        /\ Cardinality(InUse(R, ch, k) \cup {r}) = Cardinality(InUse(R, ch, k)) + 1
    BY <2>3, <2>8, OneMore
  <2> QED BY <2>1, <2>2, <2>4, <2>5, <2>7, <2>9
<1>6. earliest # Never => \E d \in R \cup {r} : d.attempts > 0 /\ d.since <= earliest
  <2> SUFFICES ASSUME earliest # Never
               PROVE  \E d \in R \cup {r} : d.attempts > 0 /\ d.since <= earliest
    OBVIOUS
  <2>1. PICK d \in R \cup {c} : d.attempts > 0 /\ d.since <= earliest
    BY DEF Accounted
  <2>2. CASE d \in R
    BY <2>1, <2>2
  <2>3. CASE d = c
    BY <2>1, <2>3 DEF Follows
  <2> QED BY <2>2, <2>3
<1>7. K \subseteq Waits(R \cup {r})
  <2>1. K \subseteq Waits(R \cup {c})
    BY DEF Accounted
  <2>2. Waits(R \cup {c}) \subseteq Waits(R \cup {r})
    BY DEF Waits, Follows, Reliable
  <2> QED BY <2>1, <2>2
<1> QED BY <1>3, <1>4, <1>5, <1>6, <1>7 DEF Accounted

\* Of two parts that fill their places together each fills its own.
LEMMA PartFills ==
    ASSUME NEW R, NEW D, NEW m \in Nat, NEW l \in Nat, IsFiniteSet(R \cup D),
           Cardinality(R \cup D) = m + l, Cardinality(R) <= m, Cardinality(D) <= l
    PROVE  IsFiniteSet(R) /\ Cardinality(R) = m
<1>1. IsFiniteSet(R) /\ IsFiniteSet(D) /\ Cardinality(R) \in Nat /\ Cardinality(D) \in Nat
  <2>1. R \in SUBSET (R \cup D) /\ D \in SUBSET (R \cup D)
    OBVIOUS
  <2> QED BY <2>1, FiniteParts
<1>2. Cardinality(R \cup D) = Cardinality(R) + Cardinality(D) - Cardinality(R \cap D)
  BY <1>1, FS_Union
<1>3. Cardinality(R \cap D) \in Nat
  <2>1. R \cap D \in SUBSET R
    OBVIOUS
  <2> QED BY <1>1, <2>1, FiniteParts
<1> QED BY <1>1, <1>2, <1>3

\* What was never sent and need not arrive goes.
LEMMA Dropped ==
    ASSUME NEW R, NEW D, NEW m \in Nat, NEW l \in Nat, NEW windows, NEW earliest, NEW K,
           Accounted(R \cup D, m + l, windows, earliest, K), Cardinality(R) <= m, Cardinality(D) <= l,
           \A d \in D : ~ Reliable(d) /\ d.attempts = 0
    PROVE  Accounted(R, m, windows, earliest, K)
<1>1. IsFiniteSet(R \cup D) /\ Cardinality(R \cup D) = m + l /\ R \cup D \subseteq AllCommands
  BY DEF Accounted
<1>3. IsFiniteSet(R) /\ Cardinality(R) = m
  BY <1>1, PartFills
<1>4. \A d, e \in R : d.queueTime = e.queueTime => d = e
  BY DEF Accounted
<1>5. ASSUME NEW ch \in Channels, NEW k \in 0 .. Windows - 1
      PROVE  windows[ch][k] = Cardinality(InUse(R, ch, k))
  <2>1. InUse(R \cup D, ch, k) = InUse(R, ch, k)
    BY DEF InUse
  <2>2. windows[ch][k] = Cardinality(InUse(R \cup D, ch, k))
    BY DEF Accounted
  <2> QED BY <2>1, <2>2
<1>6. earliest # Never => \E d \in R : d.attempts > 0 /\ d.since <= earliest
  BY DEF Accounted
<1>7. K \subseteq Waits(R)
  <2>1. K \subseteq Waits(R \cup D)
    BY DEF Accounted
  <2>2. Waits(R \cup D) \subseteq Waits(R)
    BY DEF Waits
  <2> QED BY <2>1, <2>2
<1> QED BY <1>1, <1>3, <1>4, <1>5, <1>6, <1>7 DEF Accounted

\* A command is acknowledged.
LEMMA Released ==
    ASSUME NEW R, NEW c, NEW m \in Nat, NEW windows, NEW K, NEW after,
           Accounted(R \cup {c}, m + 1, windows, Never, K), Cardinality(R) <= m, c.attempts > 0,
           \A ch \in Channels : \A k \in 0 .. Windows - 1 :
               after[ch][k] = IF c.channel = ch /\ Window(c) = k THEN windows[ch][k] - 1
                              ELSE windows[ch][k]
    PROVE  Accounted(R, m, after, Never, {})
<1>1. /\ c \notin R /\ IsFiniteSet(R) /\ Cardinality(R) = m /\ R \subseteq AllCommands
      /\ \A d, e \in R : d.queueTime = e.queueTime => d = e
  BY TakenApart
<1>2. ASSUME NEW ch \in Channels, NEW k \in 0 .. Windows - 1
      PROVE  after[ch][k] = Cardinality(InUse(R, ch, k))
  <2>1. windows[ch][k] = Cardinality(InUse(R \cup {c}, ch, k))
    BY DEF Accounted
  <2>2. after[ch][k] = IF c.channel = ch /\ Window(c) = k THEN windows[ch][k] - 1 ELSE windows[ch][k]
    OBVIOUS
  <2>3. IsFiniteSet(InUse(R, ch, k)) /\ InUse(R, ch, k) \subseteq R
    <3>1. InUse(R, ch, k) \in SUBSET R
      BY DEF InUse
    <3> QED BY <1>1, <3>1, FiniteParts
  <2>4. InUse(R \cup {c}, ch, k) = IF c.channel = ch /\ Window(c) = k
                                   THEN InUse(R, ch, k) \cup {c} ELSE InUse(R, ch, k)
    BY DEF InUse
  <2>5. /\ Cardinality(InUse(R, ch, k)) \in Nat
        /\ Cardinality(InUse(R, ch, k) \cup {c}) = Cardinality(InUse(R, ch, k)) + 1
    BY <1>1, <2>3, OneMore
  <2> QED BY <2>1, <2>2, <2>4, <2>5
<1> QED BY <1>1, <1>2 DEF Accounted

\* A new command is queued.
LEMMA Added ==
    ASSUME NEW B, NEW c \in AllCommands, NEW n \in Nat, NEW windows, NEW earliest, NEW K,
           Accounted(B, n, windows, earliest, K), c.attempts = 0,
           \A d \in B : d.queueTime # c.queueTime
    PROVE  Accounted(B \cup {c}, n + 1, windows, earliest, K)
<1>1. IsFiniteSet(B) /\ Cardinality(B) = n /\ B \subseteq AllCommands /\ c \notin B
  BY DEF Accounted
<1>2. IsFiniteSet(B \cup {c}) /\ Cardinality(B \cup {c}) = n + 1 /\ B \cup {c} \subseteq AllCommands
  BY <1>1, OneMore
<1>3. \A d, e \in B \cup {c} : d.queueTime = e.queueTime => d = e
  BY DEF Accounted
<1>4. ASSUME NEW ch \in Channels, NEW k \in 0 .. Windows - 1
      PROVE  windows[ch][k] = Cardinality(InUse(B \cup {c}, ch, k))
  <2>1. InUse(B \cup {c}, ch, k) = InUse(B, ch, k)
    BY DEF InUse
  <2>2. windows[ch][k] = Cardinality(InUse(B, ch, k))
    BY DEF Accounted
  <2> QED BY <2>1, <2>2
<1>5. earliest # Never => \E d \in B \cup {c} : d.attempts > 0 /\ d.since <= earliest
  BY DEF Accounted
<1>6. K \subseteq Waits(B \cup {c})
  <2>1. K \subseteq Waits(B)
    BY DEF Accounted
  <2>2. Waits(B) \subseteq Waits(B \cup {c})
    BY DEF Waits
  <2> QED BY <2>1, <2>2
<1> QED BY <1>2, <1>3, <1>4, <1>5, <1>6 DEF Accounted
-----------------------------------------------------------------------------
(* Order.  What was sent before waits at the front of its list, and what   *)
(* was never sent to a channel has consecutive numbers that end with the   *)
(* last one given: from number a to number b the list is a chain.  No two  *)
(* commands sent to a channel have the same number, because a window is     *)
(* begun only while it is empty, and within a window numbers go up.        *)

RetriedFirst(L) ==
    \A i, j \in 1 .. Len(L) : i < j /\ L[j].attempts > 0 => L[i].attempts > 0

Succ(n) == (n + 1) % Modulus
Unsent(c, ch) == c.attempts = 0 /\ c.channel = ch
Link(c, ch, a, b) == IF Unsent(c, ch) THEN c.number = a /\ b = Succ(a) ELSE b = a

Chain(L, ch, a, b) ==
    \E e \in [1 .. Len(L) + 1 -> Nat] :
        /\ e[1] = a /\ e[Len(L) + 1] = b
        /\ \A i \in 1 .. Len(L) : Link(L[i], ch, e[i], e[i + 1])

InFlight(B, ch) == {d \in B : d.attempts > 0 /\ d.channel = ch}

\* Number a begins a window, or is larger than those sent of its window.
Fresh(B, ch, a) ==
    \/ a % WindowSize = 0
    \/ \A d \in InFlight(B, ch) : Window(d) = a \div WindowSize => d.number < a

Apart(B) ==
    \A ch \in Channels : \A c, d \in InFlight(B, ch) : c.number = d.number => c = d

Ordered(B, L, M, number) ==
    /\ RetriedFirst(L) /\ RetriedFirst(M) /\ Apart(B)
    /\ \A ch \in Channels : \E a \in Nat : Chain(M, ch, a, Succ(number[ch])) /\ Fresh(B, ch, a)

AllRetried(L) == \A d \in Members(L) : d.attempts > 0

LEMMA Joined ==
    ASSUME NEW S, NEW X \in Seq(S), NEW Y \in Seq(S), NEW m \in Nat, NEW n \in Nat,
           Len(X) = m, Len(Y) = n
    PROVE  /\ Len(X \o Y) = m + n
           /\ \A i \in 1 .. m : (X \o Y)[i] = X[i]
           /\ \A i \in 1 .. n : (X \o Y)[m + i] = Y[i]
           /\ Members(X) = {X[i] : i \in 1 .. m} /\ Members(Y) = {Y[i] : i \in 1 .. n}
<1>1. Len(X \o Y) = m + n /\ \A i \in 1 .. m + n : (X \o Y)[i] = IF i <= m THEN X[i] ELSE Y[i - m]
  BY ConcatProperties
<1>2. Members(X) = {X[i] : i \in 1 .. m} /\ Members(Y) = {Y[i] : i \in 1 .. n}
  BY MembersIn
<1> DEFINE Z == X \o Y
<1> HIDE DEF Z
<1>3. Len(Z) = m + n /\ \A i \in 1 .. m + n : Z[i] = IF i <= m THEN X[i] ELSE Y[i - m]
  BY <1>1 DEF Z
<1>4. \A i \in 1 .. m : Z[i] = X[i]
  BY <1>3
<1>5. ASSUME NEW i \in 1 .. n PROVE Z[m + i] = Y[i]
  <2> DEFINE k == m + i
  <2>1. k \in 1 .. m + n /\ ~ (k <= m) /\ k - m = i
    OBVIOUS
  <2> HIDE DEF k
  <2> QED BY <1>3, <2>1 DEF k
<1> QED BY <1>2, <1>3, <1>4, <1>5 DEF Z

LEMMA RetriedJoined ==
    ASSUME NEW S, NEW X \in Seq(S), NEW Y \in Seq(S)
    PROVE  RetriedFirst(X \o Y) <=>
             /\ RetriedFirst(X) /\ RetriedFirst(Y)
             /\ (\E d \in Members(Y) : d.attempts > 0) => AllRetried(X)
<1> DEFINE m == Len(X)
           n == Len(Y)
           Z == X \o Y
<1>1. m \in Nat /\ n \in Nat
  BY LenProperties
<1> HIDE DEF m, n
<1>2. /\ Len(X) = m /\ Len(Y) = n /\ Len(Z) = m + n
      /\ \A i \in 1 .. m : Z[i] = X[i]
      /\ \A i \in 1 .. n : Z[m + i] = Y[i]
      /\ Members(X) = {X[i] : i \in 1 .. m} /\ Members(Y) = {Y[i] : i \in 1 .. n}
  BY <1>1, Joined DEF m, n
<1> HIDE DEF Z
<1>3. /\ \A i \in 1 .. m : i \in 1 .. m + n
      /\ \A i \in 1 .. n : m + i \in 1 .. m + n
      /\ \A i \in 1 .. m : \A j \in 1 .. n : i < m + j
      /\ \A i, j \in 1 .. n : i < j => m + i < m + j
  BY <1>1
<1>4. ASSUME RetriedFirst(Z)
      PROVE  RetriedFirst(X) /\ RetriedFirst(Y) /\ ((\E d \in Members(Y) : d.attempts > 0) => AllRetried(X))
  <2>1. RetriedFirst(X)
    BY <1>2, <1>3, <1>4 DEF RetriedFirst
  <2>2. RetriedFirst(Y)
    BY <1>2, <1>3, <1>4 DEF RetriedFirst
  <2>3. ASSUME NEW d \in Members(Y), d.attempts > 0 PROVE AllRetried(X)
    <3>1. PICK j \in 1 .. n : d = Y[j]
      BY <1>2
    <3>2. \A i \in 1 .. m : X[i].attempts > 0
      BY <1>2, <1>3, <1>4, <2>3, <3>1 DEF RetriedFirst
    <3> QED BY <1>2, <3>2 DEF AllRetried
  <2> QED BY <2>1, <2>2, <2>3
<1>5. ASSUME RetriedFirst(X), RetriedFirst(Y), (\E d \in Members(Y) : d.attempts > 0) => AllRetried(X)
      PROVE  RetriedFirst(Z)
  <2> SUFFICES ASSUME NEW i \in 1 .. m + n, NEW j \in 1 .. m + n, i < j, Z[j].attempts > 0
               PROVE  Z[i].attempts > 0
    BY <1>2 DEF RetriedFirst
  <2>1. CASE j \in 1 .. m
    <3>1. i \in 1 .. m
      BY <1>1, <2>1
    <3> QED BY <1>2, <1>5, <2>1, <3>1 DEF RetriedFirst
  <2>2. CASE j \notin 1 .. m
    <3> DEFINE l == j - m
    <3>1. l \in 1 .. n /\ j = m + l
      BY <1>1, <2>2
    <3> HIDE DEF l
    <3>2. Y[l].attempts > 0
      BY <1>2, <3>1
    <3>3. CASE i \in 1 .. m
      <4>1. AllRetried(X)
        BY <1>2, <1>5, <3>1, <3>2
      <4> QED BY <1>2, <3>3, <4>1 DEF AllRetried
    <3>4. CASE i \notin 1 .. m
      <4> DEFINE k == i - m
      <4>1. k \in 1 .. n /\ i = m + k /\ k < l
        BY <1>1, <3>1, <3>4
      <4> HIDE DEF k
      <4>2. Y[k].attempts > 0
        BY <1>2, <1>5, <3>1, <3>2, <4>1 DEF RetriedFirst
      <4> QED BY <1>2, <4>1, <4>2
    <3> QED BY <3>3, <3>4
  <2> QED BY <2>1, <2>2
<1> QED BY <1>4, <1>5 DEF Z

LEMMA RetriedSmall ==
    RetriedFirst(<< >>) /\ \A c : RetriedFirst(<<c>>)
<1>1. RetriedFirst(<< >>)
  BY MembersOfNone DEF RetriedFirst
<1>2. ASSUME NEW c PROVE RetriedFirst(<<c>>)
  BY DEF RetriedFirst
<1> QED BY <1>1, <1>2

LEMMA ChainJoined ==
    ASSUME NEW S, NEW X \in Seq(S), NEW Y \in Seq(S), NEW ch, NEW a \in Nat, NEW b \in Nat
    PROVE  Chain(X \o Y, ch, a, b) <=> \E m \in Nat : Chain(X, ch, a, m) /\ Chain(Y, ch, m, b)
<1> DEFINE m == Len(X)
           n == Len(Y)
           Z == X \o Y
<1>1. m \in Nat /\ n \in Nat
  BY LenProperties
<1> HIDE DEF m, n
<1>2. /\ Len(X) = m /\ Len(Y) = n /\ Len(Z) = m + n
      /\ \A i \in 1 .. m : Z[i] = X[i]
      /\ \A i \in 1 .. n : Z[m + i] = Y[i]
  BY <1>1, Joined DEF m, n
<1> HIDE DEF Z
<1>3. ASSUME Chain(Z, ch, a, b)
      PROVE  \E k \in Nat : Chain(X, ch, a, k) /\ Chain(Y, ch, k, b)
  <2>1. PICK e \in [1 .. m + n + 1 -> Nat] :
            /\ e[1] = a /\ e[m + n + 1] = b
            /\ \A i \in 1 .. m + n : Link(Z[i], ch, e[i], e[i + 1])
    BY <1>2, <1>3 DEF Chain
  <2> DEFINE f == [i \in 1 .. m + 1 |-> e[i]]
             g == [i \in 1 .. n + 1 |-> e[m + i]]
  <2>2. f \in [1 .. m + 1 -> Nat] /\ f[1] = a /\ f[m + 1] = e[m + 1]
    BY <1>1, <2>1
  <2>3. g \in [1 .. n + 1 -> Nat] /\ g[1] = e[m + 1] /\ g[n + 1] = b
    <3>1. \A i \in 1 .. n + 1 : m + i \in 1 .. m + n + 1
      BY <1>1
    <3>2. m + (n + 1) = m + n + 1 /\ 1 \in 1 .. n + 1 /\ n + 1 \in 1 .. n + 1
      BY <1>1
    <3> QED BY <2>1, <3>1, <3>2
  <2>4. ASSUME NEW i \in 1 .. m PROVE Link(X[i], ch, f[i], f[i + 1])
    <3>1. i \in 1 .. m + n /\ i \in 1 .. m + 1 /\ i + 1 \in 1 .. m + 1
      BY <1>1
    <3>2. f[i] = e[i] /\ f[i + 1] = e[i + 1] /\ Z[i] = X[i]
      BY <1>2, <3>1
    <3> HIDE DEF f
    <3> QED BY <2>1, <3>1, <3>2
  <2>5. ASSUME NEW i \in 1 .. n PROVE Link(Y[i], ch, g[i], g[i + 1])
    <3> DEFINE j == m + i
    <3>1. j \in 1 .. m + n /\ i \in 1 .. n + 1 /\ i + 1 \in 1 .. n + 1 /\ m + (i + 1) = j + 1
      BY <1>1
    <3>2. g[i] = e[j] /\ g[i + 1] = e[j + 1] /\ Z[j] = Y[i]
      BY <1>2, <3>1
    <3> HIDE DEF g, j
    <3> QED BY <2>1, <3>1, <3>2
  <2>6. e[m + 1] \in Nat
    BY <1>1, <2>1
  <2> HIDE DEF f, g
  <2>7. Chain(X, ch, a, e[m + 1])
    BY <1>2, <2>2, <2>4 DEF Chain
  <2>8. Chain(Y, ch, e[m + 1], b)
    BY <1>2, <2>3, <2>5 DEF Chain
  <2> QED BY <2>6, <2>7, <2>8
<1>4. ASSUME NEW k \in Nat, Chain(X, ch, a, k), Chain(Y, ch, k, b)
      PROVE  Chain(Z, ch, a, b)
  <2>1. PICK f \in [1 .. m + 1 -> Nat] :
            f[1] = a /\ f[m + 1] = k /\ \A i \in 1 .. m : Link(X[i], ch, f[i], f[i + 1])
    BY <1>2, <1>4 DEF Chain
  <2>2. PICK g \in [1 .. n + 1 -> Nat] :
            g[1] = k /\ g[n + 1] = b /\ \A i \in 1 .. n : Link(Y[i], ch, g[i], g[i + 1])
    BY <1>2, <1>4 DEF Chain
  <2> DEFINE e == [i \in 1 .. m + n + 1 |-> IF i <= m THEN f[i] ELSE g[i - m]]
  <2>3. e \in [1 .. m + n + 1 -> Nat]
    <3> SUFFICES ASSUME NEW i \in 1 .. m + n + 1 PROVE (IF i <= m THEN f[i] ELSE g[i - m]) \in Nat
      OBVIOUS
    <3>1. i <= m => i \in 1 .. m + 1
      BY <1>1
    <3>2. ~ (i <= m) => i - m \in 1 .. n + 1
      BY <1>1
    <3> QED BY <2>1, <2>2, <3>1, <3>2
  <2>4. /\ \A i \in 1 .. m + 1 : e[i] = f[i]
        /\ \A i \in 1 .. n + 1 : e[m + i] = g[i]
    <3>1. ASSUME NEW i \in 1 .. n + 1 PROVE e[m + i] = g[i]
      <4> DEFINE j == m + i
      <4>1. j \in 1 .. m + n + 1 /\ ~ (j <= m) /\ j - m = i
        BY <1>1
      <4> HIDE DEF j
      <4>2. e[j] = g[j - m]
        BY <4>1
      <4> QED BY <4>1, <4>2 DEF j
    <3>2. ASSUME NEW i \in 1 .. m + 1 PROVE e[i] = f[i]
      <4>1. CASE i <= m
        <5>1. i \in 1 .. m + n + 1
          BY <1>1
        <5> QED BY <4>1, <5>1
      <4>2. CASE ~ (i <= m)
        <5>1. i = m + 1 /\ 1 \in 1 .. n + 1
          BY <1>1, <4>2
        <5>2. e[m + 1] = g[1]
          BY <3>1, <5>1
        <5> QED BY <2>1, <2>2, <5>1, <5>2
      <4> QED BY <4>1, <4>2
    <3> QED BY <3>1, <3>2
  <2> HIDE DEF e
  <2>5. e[1] = a /\ e[m + n + 1] = b
    <3>1. 1 \in 1 .. m + 1 /\ n + 1 \in 1 .. n + 1 /\ m + (n + 1) = m + n + 1
      BY <1>1
    <3>2. e[1] = f[1] /\ e[m + (n + 1)] = g[n + 1]
      BY <2>4, <3>1
    <3> QED BY <2>1, <2>2, <3>1, <3>2
  <2>6. ASSUME NEW i \in 1 .. m + n PROVE Link(Z[i], ch, e[i], e[i + 1])
    <3>1. CASE i <= m
      <4>1. i \in 1 .. m /\ i \in 1 .. m + 1 /\ i + 1 \in 1 .. m + 1
        BY <1>1, <3>1
      <4>2. e[i] = f[i] /\ e[i + 1] = f[i + 1] /\ Z[i] = X[i]
        BY <1>2, <2>4, <4>1
      <4> QED BY <2>1, <4>1, <4>2
    <3>2. CASE ~ (i <= m)
      <4> DEFINE j == i - m
      <4>1. j \in 1 .. n /\ i = m + j /\ i + 1 = m + (j + 1) /\ j \in 1 .. n + 1 /\ j + 1 \in 1 .. n + 1
        BY <1>1, <3>2
      <4> HIDE DEF j
      <4>2. e[m + j] = g[j] /\ e[m + (j + 1)] = g[j + 1] /\ Z[m + j] = Y[j]
        BY <1>2, <2>4, <4>1
      <4>3. Link(Y[j], ch, g[j], g[j + 1])
        BY <2>2, <4>1
      <4> QED BY <4>1, <4>2, <4>3
    <3> QED BY <3>1, <3>2
  <2> QED BY <1>2, <2>3, <2>5, <2>6 DEF Chain
<1> QED BY <1>3, <1>4 DEF Z

LEMMA ChainSmall ==
    ASSUME NEW c, NEW ch, NEW a \in Nat, NEW b \in Nat
    PROVE  /\ Chain(<< >>, ch, a, b) <=> a = b
           /\ Chain(<<c>>, ch, a, b) <=> Link(c, ch, a, b)
<1>1. Len(<< >>) = 0
  BY MembersOfNone
<1>2. Chain(<< >>, ch, a, b) => a = b
  BY <1>1 DEF Chain
<1>3. a = b => Chain(<< >>, ch, a, b)
  <2> DEFINE e == [i \in 1 .. 1 |-> a]
  <2>1. e \in [1 .. 0 + 1 -> Nat] /\ e[1] = a /\ e[0 + 1] = a
    OBVIOUS
  <2> HIDE DEF e
  <2> QED BY <1>1, <2>1 DEF Chain
<1>4. Len(<<c>>) = 1 /\ <<c>>[1] = c
  OBVIOUS
<1> DEFINE s == <<c>>
<1> HIDE DEF s
<1>5. Chain(s, ch, a, b) => Link(c, ch, a, b)
  <2> SUFFICES ASSUME Chain(s, ch, a, b) PROVE Link(c, ch, a, b)
    OBVIOUS
  <2>1. PICK e \in [1 .. 1 + 1 -> Nat] :
           e[1] = a /\ e[1 + 1] = b /\ \A i \in 1 .. 1 : Link(s[i], ch, e[i], e[i + 1])
    BY <1>4 DEF Chain, s
  <2>2. 1 \in 1 .. 1
    OBVIOUS
  <2>3. Link(s[1], ch, e[1], e[1 + 1])
    BY <2>1, <2>2
  <2> QED BY <1>4, <2>1, <2>3 DEF s
<1>6. Link(c, ch, a, b) => Chain(s, ch, a, b)
  <2> SUFFICES ASSUME Link(c, ch, a, b) PROVE Chain(s, ch, a, b)
    OBVIOUS
  <2> DEFINE e == [i \in 1 .. 2 |-> IF i = 1 THEN a ELSE b]
  <2>1. e \in [1 .. 1 + 1 -> Nat] /\ e[1] = a /\ e[1 + 1] = b
    OBVIOUS
  <2> HIDE DEF e
  <2>2. \A i \in 1 .. 1 : Link(s[i], ch, e[i], e[i + 1])
    <3> SUFFICES ASSUME NEW i \in 1 .. 1 PROVE Link(s[i], ch, e[i], e[i + 1])
      OBVIOUS
    <3>1. i = 1
      OBVIOUS
    <3> QED BY <1>4, <2>1, <3>1 DEF s
  <2> QED BY <1>4, <2>1, <2>2 DEF Chain, s
<1> QED BY <1>2, <1>3, <1>5, <1>6 DEF s

\* What was sent does not count in a chain.
LEMMA ChainAcross ==
    ASSUME NEW S, NEW X \in Seq(S), NEW Z \in Seq(S), NEW d \in S, d.attempts > 0,
           NEW ch, NEW a \in Nat, NEW b \in Nat
    PROVE  Chain(X \o (<<d>> \o Z), ch, a, b) <=> Chain(X \o Z, ch, a, b)
<1> DEFINE e == <<d>>
           Y == e \o Z
<1>1. e \in Seq(S) /\ Y \in Seq(S)
  <2>1. e \in Seq(S)
    BY MembersOfOne
  <2> QED BY <2>1, ConcatProperties
<1>2. d.attempts # 0
  OBVIOUS
<1>3. \A x, y \in Nat : Chain(e, ch, x, y) <=> y = x
  BY <1>2, ChainSmall DEF Link, Unsent
<1> HIDE DEF e
<1>4. \A x \in Nat : Chain(Y, ch, x, b) <=> \E m \in Nat : Chain(e, ch, x, m) /\ Chain(Z, ch, m, b)
  BY <1>1, ChainJoined
<1>5. \A x \in Nat : Chain(Y, ch, x, b) <=> Chain(Z, ch, x, b)
  BY <1>3, <1>4
<1> HIDE DEF Y
<1>6. Chain(X \o Y, ch, a, b) <=> \E m \in Nat : Chain(X, ch, a, m) /\ Chain(Y, ch, m, b)
  BY <1>1, ChainJoined
<1>7. Chain(X \o Z, ch, a, b) <=> \E m \in Nat : Chain(X, ch, a, m) /\ Chain(Z, ch, m, b)
  BY <1>1, ChainJoined
<1> QED BY <1>5, <1>6, <1>7 DEF Y, e

LEMMA RetriedWithout ==
    ASSUME NEW S, NEW X \in Seq(S), NEW D \in Seq(S), NEW Z \in Seq(S),
           RetriedFirst(X \o (D \o Z))
    PROVE  RetriedFirst(X \o Z)
<1> DEFINE Y == D \o Z
<1>1. Y \in Seq(S) /\ Members(Y) = Members(D) \cup Members(Z)
  BY ConcatProperties, MembersConcat
<1>2. RetriedFirst(Y) => RetriedFirst(Z)
  BY RetriedJoined
<1> HIDE DEF Y
<1>3. RetriedFirst(X) /\ RetriedFirst(Y) /\ ((\E d \in Members(Y) : d.attempts > 0) => AllRetried(X))
  BY <1>1, RetriedJoined DEF Y
<1> QED BY <1>1, <1>2, <1>3, RetriedJoined

LEMMA RetriedWith ==
    ASSUME NEW S, NEW X \in Seq(S), NEW Z \in Seq(S), NEW d \in S, d.attempts > 0,
           RetriedFirst(X \o Z), AllRetried(X)
    PROVE  RetriedFirst(X \o (<<d>> \o Z))
<1> DEFINE e == <<d>>
           Y == e \o Z
<1>1. e \in Seq(S) /\ Members(e) = {d} /\ RetriedFirst(e)
  BY MembersOfOne, RetriedSmall
<1> HIDE DEF e
<1>2. Y \in Seq(S)
  BY <1>1, ConcatProperties
<1>3. RetriedFirst(X) /\ RetriedFirst(Z)
  BY RetriedJoined
<1>4. AllRetried(e)
  BY <1>1 DEF AllRetried
<1>5. RetriedFirst(Y)
  BY <1>1, <1>3, <1>4, RetriedJoined
<1> HIDE DEF Y
<1>6. RetriedFirst(X \o Y)
  BY <1>2, <1>3, <1>5, RetriedJoined
<1> QED BY <1>6 DEF Y, e

LEMMA AppendJoined ==
    ASSUME NEW S, NEW X \in Seq(S), NEW Z \in Seq(S), NEW c \in S
    PROVE  Append(X, c) \o Z = X \o (<<c>> \o Z)
<1> DEFINE e == <<c>>
<1>1. e \in Seq(S) /\ Append(X, c) = X \o e
  BY MembersOfOne, AppendIsConcat
<1> HIDE DEF e
<1>2. (X \o e) \o Z = X \o (e \o Z)
  BY <1>1, ConcatAssociative
<1> QED BY <1>1, <1>2 DEF e

NumberType == [Channels \cup {Control} -> 0 .. Modulus - 1]

LEMMA SuccIs ==
    ASSUME NEW n \in 0 .. Modulus - 1
    PROVE  Succ(n) \in 0 .. Modulus - 1 /\ Succ(n) \in Nat /\ (Succ(n) # 0 => Succ(n) = n + 1)
<1>1. Modulus \in Nat \ {0}
  BY Sizes
<1>2. (n + 1) % Modulus \in 0 .. Modulus - 1
  BY <1>1, DivMod
<1>3. n + 1 < Modulus => (n + 1) % Modulus = n + 1
  <2> SUFFICES ASSUME n + 1 < Modulus PROVE (n + 1) % Modulus = n + 1
    OBVIOUS
  <2> DEFINE k == n + 1
  <2>1. k \in Nat /\ k = Modulus * 0 + k /\ k \in 0 .. Modulus - 1
    BY <1>1
  <2> HIDE DEF k
  <2> QED BY <1>1, <2>1, Divided DEF k
<1>4. n + 1 = Modulus => (n + 1) % Modulus = 0
  <2> SUFFICES ASSUME n + 1 = Modulus PROVE (n + 1) % Modulus = 0
    OBVIOUS
  <2>1. n + 1 = Modulus * 1 + 0 /\ 0 \in 0 .. Modulus - 1
    BY <1>1
  <2> DEFINE k == n + 1
  <2>2. k \in Nat
    BY <1>1
  <2> HIDE DEF k
  <2> QED BY <1>1, <2>1, <2>2, Divided DEF k
<1>5. n + 1 < Modulus \/ n + 1 = Modulus
  BY <1>1
<1> QED BY <1>1, <1>2, <1>3, <1>4, <1>5 DEF Succ

\* Fewer commands, and a list without some of its own, keep their order.
LEMMA OrderedLess ==
    ASSUME NEW B, NEW C \in SUBSET B, NEW L, NEW N, NEW M, NEW number,
           Ordered(B, L, M, number), RetriedFirst(N)
    PROVE  Ordered(C, N, M, number)
<1>1. \A ch : InFlight(C, ch) \subseteq InFlight(B, ch)
  BY DEF InFlight
<1>2. Apart(C)
  BY <1>1 DEF Ordered, Apart
<1>3. \A ch, a : Fresh(B, ch, a) => Fresh(C, ch, a)
  BY <1>1 DEF Fresh
<1> QED BY <1>2, <1>3 DEF Ordered

LEMMA OrderedOut ==
    ASSUME NEW S, NEW X \in Seq(S), NEW D \in Seq(S), NEW Z \in Seq(S),
           NEW B, NEW C \in SUBSET B, NEW M, NEW number, Ordered(B, X \o (D \o Z), M, number)
    PROVE  Ordered(C, X \o Z, M, number)
<1>1. RetriedFirst(X \o Z)
  BY RetriedWithout DEF Ordered
<1> DEFINE L == X \o (D \o Z)
           N == X \o Z
<1> HIDE DEF L, N
<1>2. Ordered(C, N, M, number)
  BY <1>1, OrderedLess DEF L, N
<1> QED BY <1>2 DEF N

LEMMA OrderedWithout ==
    ASSUME NEW S, NEW X \in Seq(S), NEW Z \in Seq(S), NEW d \in S, d.attempts > 0,
           NEW B, NEW L, NEW number \in NumberType,
           Ordered(B, L, X \o (<<d>> \o Z), number)
    PROVE  Ordered(B, L, X \o Z, number)
<1> DEFINE Y == <<d>>
           M == X \o (Y \o Z)
           N == X \o Z
<1>1. Y \in Seq(S)
  BY MembersOfOne
<1>2. ASSUME NEW ch \in Channels, NEW a \in Nat
      PROVE  Chain(M, ch, a, Succ(number[ch])) => Chain(N, ch, a, Succ(number[ch]))
  <2>1. Succ(number[ch]) \in Nat
    BY SuccIs DEF NumberType
  <2> QED BY <2>1, ChainAcross
<1>3. RetriedFirst(M) => RetriedFirst(N)
  <2> HIDE DEF Y
  <2> QED BY <1>1, RetriedWithout
<1>4. Ordered(B, L, M, number)
  OBVIOUS
<1> HIDE DEF M, N
<1>5. Ordered(B, L, N, number)
  BY <1>2, <1>3, <1>4 DEF Ordered
<1> QED BY <1>5 DEF N

LEMMA OrderedWith ==
    ASSUME NEW S, NEW X \in Seq(S), NEW Z \in Seq(S), NEW d \in S, d.attempts > 0,
           NEW B, NEW L, NEW number \in NumberType,
           Ordered(B, L, X \o Z, number), AllRetried(X)
    PROVE  Ordered(B, L, X \o (<<d>> \o Z), number)
<1> DEFINE M == X \o (<<d>> \o Z)
           N == X \o Z
<1>1. ASSUME NEW ch \in Channels, NEW a \in Nat
      PROVE  Chain(N, ch, a, Succ(number[ch])) => Chain(M, ch, a, Succ(number[ch]))
  <2>1. Succ(number[ch]) \in Nat
    BY SuccIs DEF NumberType
  <2> QED BY <2>1, ChainAcross
<1>2. Ordered(B, L, N, number)
  OBVIOUS
<1>3. RetriedFirst(N) => RetriedFirst(M)
  BY RetriedWith
<1> HIDE DEF M, N
<1>4. Ordered(B, L, M, number)
  BY <1>1, <1>2, <1>3 DEF Ordered
<1> QED BY <1>4 DEF M

\* A command that is sent once more, or has no window.
LEMMA OrderedSwap ==
    ASSUME NEW R, NEW c, NEW r, c \notin R, Follows(r, c),
           c.attempts > 0 \/ c.channel \notin Channels,
           NEW L, NEW M, NEW number, Ordered(R \cup {c}, L, M, number)
    PROVE  Ordered(R \cup {r}, L, M, number)
<1>1. r.channel = c.channel /\ r.number = c.number /\ Window(r) = Window(c)
  BY DEF Follows, Window
<1>2. ASSUME NEW ch \in Channels, NEW d \in InFlight(R \cup {r}, ch), d # r
      PROVE  d \in InFlight(R \cup {c}, ch) /\ d # c
  BY <1>2 DEF InFlight
<1>3. ASSUME NEW ch \in Channels, r \in InFlight(R \cup {r}, ch)
      PROVE  c \in InFlight(R \cup {c}, ch)
  BY <1>1, <1>3 DEF InFlight
<1>4. Apart(R \cup {r})
  <2> SUFFICES ASSUME NEW ch \in Channels, NEW d \in InFlight(R \cup {r}, ch),
                      NEW e \in InFlight(R \cup {r}, ch), d.number = e.number
               PROVE  d = e
    BY DEF Apart
  <2>1. \A x, y \in InFlight(R \cup {c}, ch) : x.number = y.number => x = y
    BY DEF Ordered, Apart
  <2> QED BY <1>1, <1>2, <1>3, <2>1
<1>5. ASSUME NEW ch \in Channels, NEW a \in Nat, Fresh(R \cup {c}, ch, a) PROVE Fresh(R \cup {r}, ch, a)
  <2>1. CASE a % WindowSize = 0
    BY <2>1 DEF Fresh
  <2>2. CASE \A d \in InFlight(R \cup {c}, ch) : Window(d) = a \div WindowSize => d.number < a
    <3>1. \A d \in InFlight(R \cup {r}, ch) : Window(d) = a \div WindowSize => d.number < a
      BY <1>1, <1>2, <1>3, <2>2
    <3> QED BY <3>1 DEF Fresh
  <2> QED BY <1>5, <2>1, <2>2 DEF Fresh
<1> QED BY <1>4, <1>5 DEF Ordered

\* The first of the list is sent for the first time: a window that it begins is empty.
LEMMA OrderedFirst ==
    ASSUME NEW R \in SUBSET AllCommands, NEW c \in AllCommands, NEW r, Follows(r, c), r.attempts > 0,
           c.attempts = 0, c.channel \in Channels,
           c.number % WindowSize = 0 =>
               \A d \in InFlight(R, c.channel) : Window(d) # Window(c),
           NEW S, NEW L, NEW Z \in Seq(S), c \in S, NEW number \in NumberType,
           Ordered(R \cup {c}, L, <<c>> \o Z, number)
    PROVE  Ordered(R \cup {r}, L, Z, number)
<1> DEFINE Y == <<c>>
           n == c.number
           ch0 == c.channel
           m == Succ(n)
           k == n \div WindowSize
<1>1. n \in 0 .. Modulus - 1 /\ n \in Nat /\ m \in Nat /\ (m # 0 => m = n + 1) /\ Window(c) = k
  <2>1. n \in 0 .. Modulus - 1
    BY DEF AllCommands
  <2> QED BY <2>1, Sizes, SuccIs DEF Window
<1>2. r.channel = c.channel /\ r.number = n /\ Window(r) = k
  BY DEF Follows, Window
<1>3. Y \in Seq(S) /\ (RetriedFirst(Y \o Z) => RetriedFirst(Z))
  <2>1. Y \in Seq(S)
    BY MembersOfOne
  <2> HIDE DEF Y
  <2> QED BY <2>1, RetriedJoined
<1>4. ASSUME NEW ch \in Channels, NEW a \in Nat, Chain(Y \o Z, ch, a, Succ(number[ch]))
      PROVE  \E b \in Nat : Link(c, ch, a, b) /\ Chain(Z, ch, b, Succ(number[ch]))
  <2>1. Succ(number[ch]) \in Nat
    BY SuccIs DEF NumberType
  <2>2. \A x, y \in Nat : Chain(Y, ch, x, y) <=> Link(c, ch, x, y)
    BY ChainSmall
  <2> HIDE DEF Y
  <2>3. \E b \in Nat : Chain(Y, ch, a, b) /\ Chain(Z, ch, b, Succ(number[ch]))
    BY <1>3, <1>4, <2>1, ChainJoined
  <2> QED BY <2>2, <2>3
<1>5. Ordered(R \cup {c}, L, Y \o Z, number)
  OBVIOUS
<1> HIDE DEF Y
\* None of those sent has its number or a larger one of its window.
<1>6. ASSUME NEW d \in InFlight(R, ch0), Window(d) = k PROVE d.number < n
  <2>1. n % WindowSize # 0
    BY <1>1, <1>6
  <2>2. PICK a \in Nat : Chain(Y \o Z, ch0, a, Succ(number[ch0])) /\ Fresh(R \cup {c}, ch0, a)
    BY <1>5 DEF Ordered
  <2>3. \E b \in Nat : Link(c, ch0, a, b)
    BY <1>4, <2>2
  <2>4. a = n
    BY <2>3 DEF Link, Unsent
  <2>5. d \in InFlight(R \cup {c}, ch0)
    BY DEF InFlight
  <2> QED BY <1>1, <1>6, <2>1, <2>2, <2>4, <2>5 DEF Fresh
<1> HIDE DEF n, m, k, ch0
<1>7. \A ch \in Channels : \A d \in InFlight(R \cup {r}, ch) :
         \/ d = r /\ ch = ch0
         \/ d \in InFlight(R, ch) /\ d \in AllCommands
  BY <1>2 DEF InFlight, ch0
<1>8. ASSUME NEW d \in InFlight(R, ch0) PROVE d.number # n
  <2>1. d.number = n => Window(d) = k
    BY DEF Window, k
  <2>2. d.number \in Nat
    BY Sizes DEF InFlight, AllCommands
  <2> QED BY <1>1, <1>6, <2>1, <2>2
<1>9. Apart(R \cup {r})
  <2> SUFFICES ASSUME NEW ch \in Channels, NEW d \in InFlight(R \cup {r}, ch),
                      NEW e \in InFlight(R \cup {r}, ch), d.number = e.number
               PROVE  d = e
    BY DEF Apart
  <2>1. \A x, y \in InFlight(R, ch) : x.number = y.number => x = y
    BY <1>5 DEF Ordered, Apart, InFlight
  <2> QED BY <1>2, <1>7, <1>8, <2>1
<1>10. ASSUME NEW ch \in Channels, ch # ch0, NEW a \in Nat, Fresh(R \cup {c}, ch, a)
       PROVE  Fresh(R \cup {r}, ch, a)
  <2>1. \A d \in InFlight(R \cup {r}, ch) : d \in InFlight(R \cup {c}, ch)
    BY <1>7, <1>10 DEF InFlight
  <2> QED BY <1>10, <2>1 DEF Fresh
<1>11. Fresh(R \cup {r}, ch0, m)
  <2>1. CASE m % WindowSize = 0
    BY <2>1 DEF Fresh
  <2>2. CASE m % WindowSize # 0
    <3>1. m # 0
      <4>1. 0 = WindowSize * 0 + 0 /\ 0 \in 0 .. WindowSize - 1 /\ WindowSize \in Nat \ {0}
        BY Sizes
      <4>2. 0 % WindowSize = 0
        BY <4>1, Divided
      <4> QED BY <2>2, <4>2
    <3>2. m = n + 1 /\ m \div WindowSize = k
      <4>1. m = n + 1 /\ (n + 1) % WindowSize # 0
        BY <1>1, <2>2, <3>1
      <4>2. (n + 1) \div WindowSize = n \div WindowSize
        BY <1>1, <4>1, Sizes, DivNext
      <4> QED BY <4>1, <4>2 DEF k
    <3>3. ASSUME NEW d \in InFlight(R \cup {r}, ch0), Window(d) = k PROVE d.number < m
      <4>1. CASE d = r
        BY <1>1, <1>2, <3>2, <4>1
      <4>2. CASE d \in InFlight(R, ch0) /\ d \in AllCommands
        <5>1. d.number < n /\ d.number \in Nat
          BY <1>6, <3>3, <4>2, Sizes DEF AllCommands
        <5> QED BY <1>1, <3>2, <5>1
      <4>3. ch0 \in Channels
        BY DEF ch0
      <4> QED BY <1>7, <4>1, <4>2, <4>3
    <3> QED BY <3>2, <3>3 DEF Fresh
  <2> QED BY <2>1, <2>2
<1>12. ASSUME NEW ch \in Channels
       PROVE  \E a \in Nat : Chain(Z, ch, a, Succ(number[ch])) /\ Fresh(R \cup {r}, ch, a)
  <2>1. PICK a \in Nat : Chain(Y \o Z, ch, a, Succ(number[ch])) /\ Fresh(R \cup {c}, ch, a)
    BY <1>5 DEF Ordered
  <2>2. PICK b \in Nat : Link(c, ch, a, b) /\ Chain(Z, ch, b, Succ(number[ch]))
    BY <1>4, <2>1
  <2>3. CASE ch = ch0
    <3>1. b = m
      BY <2>2, <2>3 DEF Link, Unsent, ch0, m, n
    <3> QED BY <1>11, <2>2, <2>3, <3>1
  <2>4. CASE ch # ch0
    <3>1. b = a
      BY <2>2, <2>4 DEF Link, Unsent, ch0
    <3> QED BY <1>10, <2>1, <2>2, <2>4, <3>1
  <2> QED BY <2>3, <2>4
<1> QED BY <1>3, <1>5, <1>9, <1>12 DEF Ordered

\* A new command is the last of its list and takes the next number.
LEMMA OrderedNone ==
    ASSUME NEW number \in NumberType
    PROVE  Ordered({}, << >>, << >>, number)
<1>1. RetriedFirst(<< >>) /\ Apart({})
  BY RetriedSmall DEF Apart, InFlight
<1>2. ASSUME NEW ch \in Channels
      PROVE  \E a \in Nat : Chain(<< >>, ch, a, Succ(number[ch])) /\ Fresh({}, ch, a)
  <2> DEFINE a == Succ(number[ch])
  <2>1. a \in Nat
    <3>1. number[ch] \in 0 .. Modulus - 1
      BY DEF NumberType
    <3> QED BY <3>1, SuccIs
  <2> HIDE DEF a
  <2>2. Chain(<< >>, ch, a, a)
    BY <2>1, ChainSmall
  <2>3. Fresh({}, ch, a)
    BY DEF Fresh, InFlight
  <2> QED BY <2>1, <2>2, <2>3 DEF a
<1> QED BY <1>1, <1>2 DEF Ordered

LEMMA OrderedMore ==
    ASSUME NEW S, NEW L \in Seq(S), NEW M \in Seq(S), NEW c \in S, c.attempts = 0,
           NEW B, NEW number \in NumberType, NEW after \in NumberType,
           Ordered(B, L, M, number)
    PROVE  /\ (\A ch \in Channels : after[ch] = number[ch]) =>
                  Ordered(B \cup {c}, Append(L, c), M, after)
           /\ (/\ c.number = Succ(number[c.channel]) /\ after[c.channel] = c.number
               /\ \A ch \in Channels : ch # c.channel => after[ch] = number[ch]) =>
                  Ordered(B \cup {c}, L, Append(M, c), after)
<1> DEFINE e == <<c>>
<1>1. e \in Seq(S) /\ Members(e) = {c} /\ RetriedFirst(e)
  BY MembersOfOne, RetriedSmall
<1>2. Append(L, c) = L \o e /\ Append(M, c) = M \o e
  BY AppendIsConcat
<1>3. \A ch : \A x, y \in Nat : Chain(e, ch, x, y) <=> Link(c, ch, x, y)
  BY ChainSmall
<1> HIDE DEF e
<1>4. RetriedFirst(L \o e) /\ RetriedFirst(M \o e)
  <2>1. ~ \E d \in Members(e) : d.attempts > 0
    BY <1>1
  <2> QED BY <1>1, <2>1, RetriedJoined DEF Ordered
<1>5. \A ch : InFlight(B \cup {c}, ch) = InFlight(B, ch)
  BY DEF InFlight
<1>6. Apart(B \cup {c}) /\ \A ch, a : Fresh(B, ch, a) => Fresh(B \cup {c}, ch, a)
  BY <1>5 DEF Ordered, Apart, Fresh
<1>7. ASSUME \A ch \in Channels : after[ch] = number[ch]
      PROVE  Ordered(B \cup {c}, L \o e, M, after)
  BY <1>4, <1>6, <1>7 DEF Ordered
<1>8. ASSUME c.number = Succ(number[c.channel]), after[c.channel] = c.number,
             \A ch \in Channels : ch # c.channel => after[ch] = number[ch]
      PROVE  Ordered(B \cup {c}, L, M \o e, after)
  <2>1. ASSUME NEW ch \in Channels
        PROVE  \E a \in Nat : Chain(M \o e, ch, a, Succ(after[ch])) /\ Fresh(B \cup {c}, ch, a)
    <3>1. PICK a \in Nat : Chain(M, ch, a, Succ(number[ch])) /\ Fresh(B, ch, a)
      BY DEF Ordered
    <3>2. Succ(number[ch]) \in Nat /\ Succ(after[ch]) \in Nat
      BY SuccIs DEF NumberType
    <3>3. Link(c, ch, Succ(number[ch]), Succ(after[ch]))
      BY <1>8 DEF Link, Unsent
    <3>4. Chain(e, ch, Succ(number[ch]), Succ(after[ch]))
      BY <1>3, <3>2, <3>3
    <3>5. Chain(M \o e, ch, a, Succ(after[ch]))
      BY <1>1, <3>1, <3>2, <3>4, ChainJoined
    <3> QED BY <1>6, <3>1, <3>5
  <2> QED BY <1>4, <1>6, <2>1 DEF Ordered
<1> QED BY <1>2, <1>7, <1>8



-----------------------------------------------------------------------------
(* Walks.  What a peer and a walk have in their lists, and what is true of *)
(* it between two turns of the loop and, with a command c in hand, within  *)
(* one.                                                                    *)

PeerHeld(p) == Members(p.outgoing) \cup Members(p.sendReliable) \cup Members(p.sent)
PeerCount(p) == Len(p.outgoing) + Len(p.sendReliable) + Len(p.sent)
WalkHeld(w) == PeerHeld(w.peer) \cup Members(w.outgoing) \cup Members(w.sendReliable)
WalkCount(w) == PeerCount(w.peer) + Len(w.outgoing) + Len(w.sendReliable)

Data == [c \in AllCommands |-> c.length]

\* The data in transit is what was sent, the next timeout that of the first, and queue
\* times are handed out in order.
Transit(p) == p.inTransit = SeqSum(Data, p.sent) /\ p.inTransit <= Larger(FlowWindow, Capacity)
FirstTimed(p) == p.sent # << >> => p.nextTimeout = Head(p.sent).sentTime + Head(p.sent).timeout
Dated(B, p) == \A c \in B : c.queueTime <= p.totalQueued

\* The two lists as they are when what is ahead goes back behind what was passed over,
\* and when a command in hand goes back first.
Outs(w) == w.peer.outgoing \o w.outgoing
Rels(w) == w.peer.sendReliable \o w.sendReliable
Queued(c) == Reliable(c) /\ HasPacket(c)
HandOuts(w, c) == IF Queued(c) THEN Outs(w) ELSE w.peer.outgoing \o (<<c>> \o w.outgoing)
HandRels(w, c) == IF Queued(c) THEN w.peer.sendReliable \o (<<c>> \o w.sendReliable) ELSE Rels(w)

WalkOrdered(w) == Ordered(WalkHeld(w), Outs(w), Rels(w), w.peer.number)
HandOrdered(w, c) == Ordered(WalkHeld(w) \cup {c}, HandOuts(w, c), HandRels(w, c), w.peer.number)

\* A reliable command is passed over only with all that are behind it.
Parted(w) ==
    /\ w.full \/ w.peer.sendReliable = << >> \/ w.sendReliable = << >>
    /\ w.wrap => w.sendReliable = << >>

\* Between two turns of the loop.
WalkGood(w, K) ==
    /\ w \in WalkType(now) /\ FirstTimed(w.peer) /\ Dated(WalkHeld(w), w.peer)
    /\ WalkOrdered(w)
    /\ w.peer.state \in {"connected", "crashed"}
    /\ w.peer.state = "connected" =>
          /\ Accounted(WalkHeld(w), WalkCount(w), w.peer.windows, w.peer.earliest, K)
          /\ Transit(w.peer)
    /\ w.peer.state # "connected" => Cardinality(WalkHeld(w)) = WalkCount(w)

\* Inside of a turn: c was taken out of its list and stands in none.
InHand(w, c, K) ==
    /\ w \in WalkType(now) /\ c \in Outgoings(now) \cup Packeted(now)
    /\ w.peer.state = "connected" /\ HandOrdered(w, c)
    /\ FirstTimed(w.peer) /\ Dated(WalkHeld(w) \cup {c}, w.peer)
    /\ Accounted(WalkHeld(w) \cup {c}, WalkCount(w) + 1, w.peer.windows, w.peer.earliest, K)
    /\ Transit(w.peer)

\* Nothing of this depends on the rest of a walk.
Alike(v, w) ==
    /\ v \in WalkType(now)
    /\ v.outgoing = w.outgoing /\ v.sendReliable = w.sendReliable
    /\ v.peer.state = w.peer.state
    /\ v.peer.outgoing = w.peer.outgoing /\ v.peer.sendReliable = w.peer.sendReliable
    /\ v.peer.sent = w.peer.sent /\ v.peer.windows = w.peer.windows
    /\ v.peer.earliest = w.peer.earliest /\ v.peer.totalQueued = w.peer.totalQueued
    /\ v.peer.nextTimeout = w.peer.nextTimeout /\ v.peer.inTransit = w.peer.inTransit
    /\ v.peer.number = w.peer.number

LEMMA AlikeHand ==
    ASSUME NEW w, NEW v, NEW c, NEW K, InHand(w, c, K), Alike(v, w)
    PROVE  InHand(v, c, K)
<1>1. WalkHeld(v) = WalkHeld(w) /\ WalkCount(v) = WalkCount(w)
  BY DEF Alike, WalkHeld, WalkCount, PeerHeld, PeerCount
<1>2. HandOrdered(v, c)
  BY <1>1 DEF InHand, Alike, HandOrdered, HandOuts, HandRels, Outs, Rels
<1> QED BY <1>1, <1>2 DEF InHand, Alike, FirstTimed, Dated, Transit

LEMMA AlikeGood ==
    ASSUME NEW w, NEW v, NEW K, WalkGood(w, K), Alike(v, w)
    PROVE  WalkGood(v, K)
<1>1. WalkHeld(v) = WalkHeld(w) /\ WalkCount(v) = WalkCount(w)
  BY DEF Alike, WalkHeld, WalkCount, PeerHeld, PeerCount
<1>2. WalkOrdered(v)
  BY <1>1 DEF WalkGood, Alike, WalkOrdered, Outs, Rels
<1> QED BY <1>1, <1>2 DEF WalkGood, Alike, FirstTimed, Dated, Transit

LEMMA WalkLists ==
    ASSUME NEW w \in WalkType(now)
    PROVE  /\ w.peer \in PeerType(now)
           /\ w.outgoing \in Seq(Outgoings(now)) /\ w.sendReliable \in Seq(Packeted(now))
           /\ w.peer.outgoing \in Seq(Outgoings(now)) /\ w.peer.sendReliable \in Seq(Packeted(now))
           /\ w.peer.sent \in Seq(Sents(now))
           /\ w.peer.totalQueued \in Nat /\ w.peer.nextTimeout \in Nat /\ w.peer.earliest \in Nat
           /\ w.peer.inTransit \in Int /\ w.peer.number \in NumberType
  BY DEF WalkType, PeerType, NumberType

\* The places of five lists.
LEMMA Places ==
    ASSUME NEW w \in WalkType(now)
    PROVE  /\ IsFiniteSet(WalkHeld(w)) /\ WalkCount(w) \in Nat
           /\ Cardinality(WalkHeld(w)) \in Nat /\ Cardinality(WalkHeld(w)) <= WalkCount(w)
<1> DEFINE a == w.peer.outgoing
           b == w.peer.sendReliable
           s == w.peer.sent
           o == w.outgoing
           r == w.sendReliable
<1>1. /\ a \in Seq(Outgoings(now)) /\ b \in Seq(Packeted(now)) /\ s \in Seq(Sents(now))
      /\ o \in Seq(Outgoings(now)) /\ r \in Seq(Packeted(now))
  BY WalkLists
<1>2. WalkHeld(w) = Members(a) \cup Members(b) \cup Members(s) \cup Members(o) \cup Members(r)
  BY DEF WalkHeld, PeerHeld
<1>3. WalkCount(w) = Len(a) + Len(b) + Len(s) + Len(o) + Len(r)
  BY DEF WalkCount, PeerCount
<1> HIDE DEF a, b, s, o, r
<1>4. /\ Len(a) \in Nat /\ Len(b) \in Nat /\ Len(s) \in Nat /\ Len(o) \in Nat /\ Len(r) \in Nat
  BY <1>1, LenProperties
<1>5. /\ IsFiniteSet(Members(a)) /\ Cardinality(Members(a)) <= Len(a)
      /\ IsFiniteSet(Members(b)) /\ Cardinality(Members(b)) <= Len(b)
      /\ IsFiniteSet(Members(s)) /\ Cardinality(Members(s)) <= Len(s)
      /\ IsFiniteSet(Members(o)) /\ Cardinality(Members(o)) <= Len(o)
      /\ IsFiniteSet(Members(r)) /\ Cardinality(Members(r)) <= Len(r)
  BY <1>1, MembersIn
<1>6. ASSUME NEW A, NEW B, IsFiniteSet(A), IsFiniteSet(B), NEW m \in Nat, NEW n \in Nat,
             Cardinality(A) <= m, Cardinality(B) <= n
      PROVE  /\ IsFiniteSet(A \cup B) /\ Cardinality(A \cup B) <= m + n
  <2>1. IsFiniteSet(A \cup B) /\ Cardinality(A \cup B) = Cardinality(A) + Cardinality(B) - Cardinality(A \cap B)
    BY <1>6, FS_Union
  <2>2. Cardinality(A) \in Nat /\ Cardinality(B) \in Nat /\ Cardinality(A \cap B) \in Nat
    BY <1>6, FS_CardinalityType, FS_Intersection
  <2> QED BY <1>6, <2>1, <2>2
<1> DEFINE A2 == Members(a) \cup Members(b)
           A3 == A2 \cup Members(s)
           A4 == A3 \cup Members(o)
           A5 == A4 \cup Members(r)
           n2 == Len(a) + Len(b)
           n3 == n2 + Len(s)
           n4 == n3 + Len(o)
           n5 == n4 + Len(r)
<1>7. n2 \in Nat /\ n3 \in Nat /\ n4 \in Nat /\ n5 \in Nat
  BY <1>4
<1>8. IsFiniteSet(A2) /\ Cardinality(A2) <= n2
  BY <1>4, <1>5, <1>6
<1> HIDE DEF A2, n2
<1>9. IsFiniteSet(A3) /\ Cardinality(A3) <= n3
  BY <1>4, <1>5, <1>6, <1>7, <1>8
<1> HIDE DEF A3, n3
<1>10. IsFiniteSet(A4) /\ Cardinality(A4) <= n4
  BY <1>4, <1>5, <1>6, <1>7, <1>9
<1> HIDE DEF A4, n4
<1>11. IsFiniteSet(A5) /\ Cardinality(A5) <= n5
  BY <1>4, <1>5, <1>6, <1>7, <1>10
<1>12. WalkHeld(w) = A5
  BY <1>2 DEF A2, A3, A4
<1>13. WalkCount(w) = n5
  BY <1>3 DEF n2, n3, n4
<1> QED BY <1>7, <1>11, <1>12, <1>13, FS_CardinalityType

LEMMA CommandSets ==
    /\ Outgoings(now) \subseteq Commands(now) /\ Packeted(now) \subseteq Commands(now)
    /\ Sents(now) \subseteq Commands(now) /\ Commands(now) \subseteq AllCommands
    /\ \A c \in Outgoings(now) \cup Packeted(now) :
          /\ c \in Commands(now)
          /\ Reliable(c) /\ HasPacket(c) => c \in Packeted(now)
          /\ ~ (Reliable(c) /\ HasPacket(c)) => c \in Outgoings(now)
    /\ \A c \in Outgoings(now) : Reliable(c) => ~ HasPacket(c)
    /\ \A c \in Packeted(now) : Reliable(c) /\ HasPacket(c)
  BY DEF Outgoings, Packeted, Sents, Commands

\* The lengths of the five lists.
Sized(w, a, b, s, o, r) ==
    /\ Len(w.peer.outgoing) = a /\ Len(w.peer.sendReliable) = b /\ Len(w.peer.sent) = s
    /\ Len(w.outgoing) = o /\ Len(w.sendReliable) = r

LEMMA CountIs ==
    ASSUME NEW w, NEW a \in Nat, NEW b \in Nat, NEW s \in Nat, NEW o \in Nat, NEW r \in Nat,
           Sized(w, a, b, s, o, r)
    PROVE  WalkCount(w) = a + b + s + o + r /\ PeerCount(w.peer) = a + b + s
  BY Zenon DEF Sized, WalkCount, PeerCount

LEMMA SizedExists ==
    ASSUME NEW w \in WalkType(now)
    PROVE  \E a, b, s, o, r \in Nat : Sized(w, a, b, s, o, r)
<1>1. /\ Len(w.peer.outgoing) \in Nat /\ Len(w.peer.sendReliable) \in Nat
      /\ Len(w.peer.sent) \in Nat /\ Len(w.outgoing) \in Nat /\ Len(w.sendReliable) \in Nat
  BY WalkLists, LenProperties
<1> QED BY <1>1, Zenon DEF Sized

\* The next command is the head of one of the lists ahead.
Next1(w) == IF TakesReliable(w) THEN Head(w.sendReliable) ELSE Head(w.outgoing)

SameRest(v, w) ==
    /\ v.wrap = w.wrap /\ v.canPing = w.canPing /\ v.size = w.size /\ v.full = w.full
    /\ v.datagram = w.datagram /\ v.dropped = w.dropped

LEMMA TakeGood ==
    ASSUME NEW w, NEW K, WalkGood(w, K), w.peer.state = "connected",
           w.outgoing # << >> \/ w.sendReliable # << >>
    PROVE  /\ InHand(Take(w), Next1(w), K) /\ Take(w).peer = w.peer /\ SameRest(Take(w), w)
           /\ TakesReliable(w) => Next1(w) \in Packeted(now)
           /\ ~ TakesReliable(w) => Next1(w) \in Outgoings(now)
           /\ w.sendReliable = << >> => Take(w).sendReliable = << >>
           /\ TakesReliable(w) => w.sendReliable # << >>
<1> DEFINE v == Take(w)
           c == Next1(w)
<1>1. w \in WalkType(now)
  BY DEF WalkGood
<1>2. /\ w.outgoing \in Seq(Outgoings(now)) /\ w.sendReliable \in Seq(Packeted(now))
      /\ w.peer \in PeerType(now)
  BY <1>1, WalkLists
<1>3. /\ v \in WalkType(now) /\ c \in Outgoings(now) \cup Packeted(now)
      /\ WalkHeld(w) = WalkHeld(v) \cup {c} /\ WalkCount(w) = WalkCount(v) + 1
      /\ v.peer = w.peer /\ SameRest(v, w)
      /\ TakesReliable(w) => c \in Packeted(now)
      /\ ~ TakesReliable(w) => c \in Outgoings(now)
  <2>1. CASE TakesReliable(w)
    <3> DEFINE r == Tail(w.sendReliable)
    <3>1. w.sendReliable # << >>
      BY <2>1 DEF TakesReliable
    <3>2. /\ c = Head(w.sendReliable) /\ c \in Packeted(now) /\ r \in Seq(Packeted(now))
          /\ Len(w.sendReliable) = Len(r) + 1 /\ Members(w.sendReliable) = Members(r) \cup {c}
          /\ Len(r) \in Nat
      <4>1. c = Head(w.sendReliable)
        BY <2>1 DEF Next1
      <4>2. /\ Head(w.sendReliable) \in Packeted(now) /\ Tail(w.sendReliable) \in Seq(Packeted(now))
            /\ Len(Tail(w.sendReliable)) = Len(w.sendReliable) - 1 /\ Len(w.sendReliable) \in Nat \ {0}
            /\ Members(w.sendReliable) = Members(Tail(w.sendReliable)) \cup {Head(w.sendReliable)}
        BY <1>2, <3>1, MembersTail
      <4> HIDE DEF c
      <4> QED BY <4>1, <4>2
    <3>3. v = [w EXCEPT !.sendReliable = r]
      BY <2>1 DEF Take
    <3> HIDE DEF v, c, r
    <3>4. /\ v \in WalkType(now) /\ v.peer = w.peer /\ v.outgoing = w.outgoing
          /\ v.sendReliable = r /\ SameRest(v, w)
      BY <1>1, <3>2, <3>3 DEF WalkType, SameRest
    <3>5. WalkHeld(w) = WalkHeld(v) \cup {c}
      BY <3>2, <3>4 DEF WalkHeld
    <3>6. WalkCount(w) = WalkCount(v) + 1
      <4>1. PICK a, b, s, o, l \in Nat : Sized(w, a, b, s, o, l)
        BY <1>1, SizedExists
      <4> DEFINE k == Len(r)
      <4>2. k \in Nat /\ l = k + 1
        BY <3>2, <4>1 DEF Sized
      <4>3. Sized(v, a, b, s, o, k)
        BY <3>4, <4>1 DEF Sized
      <4> HIDE DEF k
      <4>4. WalkCount(w) = a + b + s + o + l /\ WalkCount(v) = a + b + s + o + k
        BY <4>1, <4>2, <4>3, CountIs
      <4> QED BY <4>2, <4>4
    <3> QED BY <2>1, <3>2, <3>4, <3>5, <3>6
  <2>2. CASE ~ TakesReliable(w)
    <3> DEFINE r == Tail(w.outgoing)
    <3>1. w.outgoing # << >>
      BY <2>2 DEF TakesReliable
    <3>2. /\ c = Head(w.outgoing) /\ c \in Outgoings(now) /\ r \in Seq(Outgoings(now))
          /\ Len(w.outgoing) = Len(r) + 1 /\ Members(w.outgoing) = Members(r) \cup {c}
          /\ Len(r) \in Nat
      <4>1. c = Head(w.outgoing)
        BY <2>2 DEF Next1
      <4>2. /\ Head(w.outgoing) \in Outgoings(now) /\ Tail(w.outgoing) \in Seq(Outgoings(now))
            /\ Len(Tail(w.outgoing)) = Len(w.outgoing) - 1 /\ Len(w.outgoing) \in Nat \ {0}
            /\ Members(w.outgoing) = Members(Tail(w.outgoing)) \cup {Head(w.outgoing)}
        BY <1>2, <3>1, MembersTail
      <4> HIDE DEF c
      <4> QED BY <4>1, <4>2
    <3>3. v = [w EXCEPT !.outgoing = r]
      BY <2>2 DEF Take
    <3> HIDE DEF v, c, r
    <3>4. /\ v \in WalkType(now) /\ v.peer = w.peer /\ v.sendReliable = w.sendReliable
          /\ v.outgoing = r /\ SameRest(v, w)
      BY <1>1, <3>2, <3>3 DEF WalkType, SameRest
    <3>5. WalkHeld(w) = WalkHeld(v) \cup {c}
      BY <3>2, <3>4 DEF WalkHeld
    <3>6. WalkCount(w) = WalkCount(v) + 1
      <4>1. PICK a, b, s, o, l \in Nat : Sized(w, a, b, s, o, l)
        BY <1>1, SizedExists
      <4> DEFINE k == Len(r)
      <4>2. k \in Nat /\ o = k + 1
        BY <3>2, <4>1 DEF Sized
      <4>3. Sized(v, a, b, s, k, l)
        BY <3>4, <4>1 DEF Sized
      <4> HIDE DEF k
      <4>4. WalkCount(w) = a + b + s + o + l
        BY <4>1, CountIs
      <4>5. WalkCount(v) = a + b + s + k + l
        BY <4>2, <4>3, CountIs
      <4> QED BY <4>2, <4>4, <4>5
    <3> QED BY <2>2, <3>2, <3>4, <3>5, <3>6
  <2> QED BY <2>1, <2>2
<1>4. HandOrdered(v, c)
  <2> DEFINE s == w.sendReliable
             o == w.outgoing
  <2>1. CASE TakesReliable(w)
    <3>1. s # << >>
      BY <2>1 DEF TakesReliable
    <3>2. s = <<Head(s)>> \o Tail(s)
      BY <1>2, <3>1, MembersTail
    <3>3. c = Head(s) /\ v.sendReliable = Tail(s) /\ v.outgoing = o
      BY <1>1, <2>1 DEF Next1, Take, WalkType
    <3>4. Queued(c)
      BY <1>3, <2>1, CommandSets DEF Queued
    <3> HIDE DEF s, o, v, c
    <3>5. HandOuts(v, c) = Outs(w)
      BY <1>3, <3>3, <3>4 DEF HandOuts, Outs, o
    <3>6. HandRels(v, c) = Rels(w)
      BY <1>3, <3>2, <3>3, <3>4 DEF HandRels, Rels, s
    <3> QED BY <1>3, <3>5, <3>6 DEF HandOrdered, WalkOrdered, WalkGood
  <2>2. CASE ~ TakesReliable(w)
    <3>1. o # << >>
      BY <2>2 DEF TakesReliable
    <3>2. o = <<Head(o)>> \o Tail(o)
      BY <1>2, <3>1, MembersTail
    <3>3. c = Head(o) /\ v.outgoing = Tail(o) /\ v.sendReliable = s
      BY <1>1, <2>2 DEF Next1, Take, WalkType
    <3>4. ~ Queued(c)
      BY <1>3, <2>2, CommandSets DEF Queued
    <3> HIDE DEF s, o, v, c
    <3>5. HandOuts(v, c) = Outs(w)
      BY <1>3, <3>2, <3>3, <3>4 DEF HandOuts, Outs, o
    <3>6. HandRels(v, c) = Rels(w)
      BY <1>3, <3>3, <3>4 DEF HandRels, Rels, s
    <3> QED BY <1>3, <3>5, <3>6 DEF HandOrdered, WalkOrdered, WalkGood
  <2> QED BY <2>1, <2>2
<1>5. (w.sendReliable = << >> => v.sendReliable = << >>) /\ (TakesReliable(w) => w.sendReliable # << >>)
  BY <1>1 DEF Take, TakesReliable, WalkType
<1> HIDE DEF v, c
<1>6. InHand(v, c, K)
  BY <1>3, <1>4 DEF WalkGood, InHand
<1> QED BY <1>3, <1>5, <1>6 DEF v, c

\* A command in hand goes back to a list.
LEMMA KeepGood ==
    ASSUME NEW w, NEW c, NEW K, InHand(w, c, K)
    PROVE  /\ WalkGood(Keep(w, c), K) /\ Keep(w, c).peer.state = "connected"
           /\ SameRest(Keep(w, c), w)
           /\ Keep(w, c).outgoing = w.outgoing /\ Keep(w, c).sendReliable = w.sendReliable
<1> DEFINE p == w.peer
           v == Keep(w, c)
           a == IF Reliable(c) /\ HasPacket(c) THEN p.outgoing ELSE Append(p.outgoing, c)
           b == IF Reliable(c) /\ HasPacket(c) THEN Append(p.sendReliable, c) ELSE p.sendReliable
           q == IF Reliable(c) /\ HasPacket(c) THEN [p EXCEPT !.sendReliable = b]
                ELSE [p EXCEPT !.outgoing = a]
<1>1. w \in WalkType(now) /\ c \in Outgoings(now) \cup Packeted(now)
  BY DEF InHand
<1>2. /\ p \in PeerType(now) /\ p.outgoing \in Seq(Outgoings(now))
      /\ p.sendReliable \in Seq(Packeted(now)) /\ p.sent \in Seq(Sents(now))
  BY <1>1, WalkLists
<1>3. PICK i, j, s, o, r \in Nat : Sized(w, i, j, s, o, r)
  BY <1>1, SizedExists
<1>4. v = [w EXCEPT !.peer = q]
  BY Zenon DEF Keep
<1>5. /\ a \in Seq(Outgoings(now)) /\ b \in Seq(Packeted(now))
      /\ Members(a) \cup Members(b) = Members(p.outgoing) \cup Members(p.sendReliable) \cup {c}
      /\ \/ Len(a) = i + 1 /\ Len(b) = j
         \/ Len(a) = i /\ Len(b) = j + 1
  <2>1. CASE Reliable(c) /\ HasPacket(c)
    <3>1. c \in Packeted(now)
      BY <1>1, <2>1, CommandSets
    <3>2. /\ Append(p.sendReliable, c) \in Seq(Packeted(now))
          /\ Len(Append(p.sendReliable, c)) = Len(p.sendReliable) + 1
          /\ Members(Append(p.sendReliable, c)) = Members(p.sendReliable) \cup {c}
      BY <1>2, <3>1, MembersAppend
    <3>3. Len(p.outgoing) = i /\ Len(p.sendReliable) = j
      BY <1>3 DEF Sized
    <3>4. a = p.outgoing /\ b = Append(p.sendReliable, c)
      BY <2>1
    <3> HIDE DEF a, b, p
    <3>5. Len(b) = j + 1 /\ Members(b) = Members(p.sendReliable) \cup {c}
      BY <3>2, <3>3, <3>4
    <3>6. Len(a) = i /\ Members(a) = Members(p.outgoing)
      BY <3>3, <3>4
    <3>7. a \in Seq(Outgoings(now)) /\ b \in Seq(Packeted(now))
      BY <1>2, <3>2, <3>4
    <3> QED BY <3>5, <3>6, <3>7
  <2>2. CASE ~ (Reliable(c) /\ HasPacket(c))
    <3>1. c \in Outgoings(now)
      BY <1>1, <2>2, CommandSets
    <3>2. /\ Append(p.outgoing, c) \in Seq(Outgoings(now))
          /\ Len(Append(p.outgoing, c)) = Len(p.outgoing) + 1
          /\ Members(Append(p.outgoing, c)) = Members(p.outgoing) \cup {c}
      BY <1>2, <3>1, MembersAppend
    <3>3. Len(p.outgoing) = i /\ Len(p.sendReliable) = j
      BY <1>3 DEF Sized
    <3>4. b = p.sendReliable /\ a = Append(p.outgoing, c)
      BY <2>2
    <3> HIDE DEF a, b, p
    <3>5. Len(a) = i + 1 /\ Members(a) = Members(p.outgoing) \cup {c}
      BY <3>2, <3>3, <3>4
    <3>6. Len(b) = j /\ Members(b) = Members(p.sendReliable)
      BY <3>3, <3>4
    <3>7. a \in Seq(Outgoings(now)) /\ b \in Seq(Packeted(now))
      BY <1>2, <3>2, <3>4
    <3> QED BY <3>5, <3>6, <3>7
  <2> QED BY <2>1, <2>2
<1>6. /\ q \in PeerType(now) /\ q.outgoing = a /\ q.sendReliable = b /\ q.sent = p.sent
      /\ q.state = p.state /\ q.windows = p.windows /\ q.totalQueued = p.totalQueued
      /\ q.nextTimeout = p.nextTimeout /\ q.earliest = p.earliest /\ q.inTransit = p.inTransit
      /\ q.number = p.number
  <2> HIDE DEF p
  <2>1. CASE Reliable(c) /\ HasPacket(c)
    <3>1. q = [p EXCEPT !.sendReliable = b] /\ a = p.outgoing
      BY <2>1
    <3> HIDE DEF q, a, b
    <3> QED BY <1>2, <1>5, <3>1 DEF PeerType
  <2>2. CASE ~ (Reliable(c) /\ HasPacket(c))
    <3>1. q = [p EXCEPT !.outgoing = a] /\ b = p.sendReliable
      BY <2>2
    <3> HIDE DEF q, a, b
    <3> QED BY <1>2, <1>5, <3>1 DEF PeerType
  <2> QED BY <2>1, <2>2
<1>a. /\ Queued(c) => a = p.outgoing /\ b = Append(p.sendReliable, c)
      /\ ~ Queued(c) => a = Append(p.outgoing, c) /\ b = p.sendReliable
  BY DEF Queued
<1> HIDE DEF v, a, b, q
<1>7. /\ v \in WalkType(now) /\ v.peer = q /\ v.outgoing = w.outgoing
      /\ v.sendReliable = w.sendReliable /\ SameRest(v, w)
  BY <1>1, <1>4, <1>6, WalkWith DEF SameRest
<1>8. WalkHeld(v) = WalkHeld(w) \cup {c}
  BY <1>5, <1>6, <1>7 DEF WalkHeld, PeerHeld
<1>9. WalkCount(v) = WalkCount(w) + 1
  <2> DEFINE k == Len(a)
             l == Len(b)
  <2>1. (k = i + 1 /\ l = j) \/ (k = i /\ l = j + 1)
    BY <1>5
  <2>2. Sized(v, k, l, s, o, r)
    BY <1>3, <1>6, <1>7 DEF Sized
  <2> HIDE DEF k, l
  <2>3. k \in Nat /\ l \in Nat
    BY <2>1
  <2>4. WalkCount(v) = k + l + s + o + r
    BY <2>2, <2>3, CountIs
  <2>5. WalkCount(w) = i + j + s + o + r
    BY <1>3, CountIs
  <2> QED BY <2>1, <2>3, <2>4, <2>5
<1>10. FirstTimed(v.peer) /\ Dated(WalkHeld(v), v.peer) /\ Transit(v.peer) /\ v.peer.state = "connected"
  BY <1>6, <1>7, <1>8 DEF InHand, FirstTimed, Dated, Transit
<1>11. Accounted(WalkHeld(v), WalkCount(v), v.peer.windows, v.peer.earliest, K)
  BY <1>6, <1>7, <1>8, <1>9 DEF InHand
<1>b. WalkOrdered(v)
  <2>1. w.outgoing \in Seq(Outgoings(now)) /\ w.sendReliable \in Seq(Packeted(now))
    BY <1>1, WalkLists
  <2>2. Queued(c) => c \in Packeted(now)
    BY <1>1, CommandSets DEF Queued
  <2>3. ~ Queued(c) => c \in Outgoings(now)
    BY <1>1, CommandSets DEF Queued
  <2>4. a \o w.outgoing = HandOuts(w, c)
    <3>1. ASSUME ~ Queued(c)
          PROVE  Append(p.outgoing, c) \o w.outgoing = p.outgoing \o (<<c>> \o w.outgoing)
      <4> DEFINE S == Outgoings(now)
                 X == p.outgoing
                 Z == w.outgoing
      <4>1. c \in S /\ X \in Seq(S) /\ Z \in Seq(S)
        BY <1>2, <2>1, <2>3, <3>1
      <4> HIDE DEF S, X, Z
      <4>2. Append(X, c) \o Z = X \o (<<c>> \o Z)
        BY <4>1, AppendJoined
      <4> QED BY <4>2 DEF X, Z
    <3> QED BY <1>a, <3>1 DEF HandOuts, Outs
  <2>5. b \o w.sendReliable = HandRels(w, c)
    <3>1. ASSUME Queued(c)
          PROVE  Append(p.sendReliable, c) \o w.sendReliable
                    = p.sendReliable \o (<<c>> \o w.sendReliable)
      <4> DEFINE S == Packeted(now)
                 X == p.sendReliable
                 Z == w.sendReliable
      <4>1. c \in S /\ X \in Seq(S) /\ Z \in Seq(S)
        BY <1>2, <2>1, <2>2, <3>1
      <4> HIDE DEF S, X, Z
      <4>2. Append(X, c) \o Z = X \o (<<c>> \o Z)
        BY <4>1, AppendJoined
      <4> QED BY <4>2 DEF X, Z
    <3> QED BY <1>a, <3>1 DEF HandRels, Rels
  <2>6. Outs(v) = HandOuts(w, c) /\ Rels(v) = HandRels(w, c)
    BY <1>6, <1>7, <2>4, <2>5 DEF Outs, Rels
  <2> QED BY <1>6, <1>7, <1>8, <2>6 DEF InHand, HandOrdered, WalkOrdered
<1>12. WalkGood(v, K)
  BY <1>7, <1>10, <1>11, <1>b DEF WalkGood
<1> QED BY <1>7, <1>10, <1>12 DEF v

\* The reliable commands ahead go back all together.
LEMMA HoldGood ==
    ASSUME NEW w, NEW K, WalkGood(w, K)
    PROVE  /\ WalkGood(HoldReliable(w), K) /\ HoldReliable(w).peer.state = w.peer.state
           /\ SameRest(HoldReliable(w), w)
           /\ HoldReliable(w).outgoing = w.outgoing /\ HoldReliable(w).sendReliable = << >>
<1> DEFINE p == w.peer
           v == HoldReliable(w)
           b == p.sendReliable \o w.sendReliable
           q == [p EXCEPT !.sendReliable = b]
           u == [w EXCEPT !.peer = q]
<1>1. w \in WalkType(now)
  BY DEF WalkGood
<1>2. /\ p \in PeerType(now) /\ p.outgoing \in Seq(Outgoings(now))
      /\ p.sendReliable \in Seq(Packeted(now)) /\ w.sendReliable \in Seq(Packeted(now))
      /\ p.sent \in Seq(Sents(now))
  BY <1>1, WalkLists
<1>3. PICK i, j, s, o, r \in Nat : Sized(w, i, j, s, o, r)
  BY <1>1, SizedExists
<1>4. v = [u EXCEPT !.sendReliable = << >>]
  BY Zenon DEF HoldReliable
<1>5. /\ b \in Seq(Packeted(now)) /\ Members(b) = Members(p.sendReliable) \cup Members(w.sendReliable)
      /\ Len(b) = j + r
  <2>1. Len(p.sendReliable) = j /\ Len(w.sendReliable) = r
    BY <1>3 DEF Sized
  <2>2. /\ b \in Seq(Packeted(now)) /\ Members(b) = Members(p.sendReliable) \cup Members(w.sendReliable)
        /\ Len(b) = Len(p.sendReliable) + Len(w.sendReliable)
    BY <1>2, MembersConcat, ConcatProperties
  <2> HIDE DEF b
  <2> QED BY <2>1, <2>2
<1>a. b = Rels(w)
  BY DEF Rels
<1> HIDE DEF v, b, u
<1>6. /\ q \in PeerType(now) /\ q.outgoing = p.outgoing /\ q.sendReliable = b /\ q.sent = p.sent
      /\ q.state = p.state /\ q.windows = p.windows /\ q.totalQueued = p.totalQueued
      /\ q.nextTimeout = p.nextTimeout /\ q.earliest = p.earliest /\ q.inTransit = p.inTransit
      /\ q.number = p.number
  <2> HIDE DEF p
  <2> QED BY <1>2, <1>5 DEF PeerType
<1>7. u = [w EXCEPT !.peer = q]
  BY DEF u
<1> HIDE DEF q
<1>8. /\ u \in WalkType(now) /\ u.peer = q /\ u.outgoing = w.outgoing /\ SameRest(u, w)
  BY <1>1, <1>6, <1>7, WalkWith DEF SameRest
<1>9. /\ v \in WalkType(now) /\ v.peer = q /\ v.outgoing = w.outgoing
      /\ v.sendReliable = << >> /\ SameRest(v, w)
  <2>1. << >> \in Seq(Packeted(now))
    BY EmptySeq
  <2> QED BY <1>4, <1>8, <2>1 DEF WalkType, SameRest
<1>10. WalkHeld(v) = WalkHeld(w)
  BY <1>5, <1>6, <1>9, MembersOfNone DEF WalkHeld, PeerHeld
<1>11. WalkCount(v) = WalkCount(w)
  <2> DEFINE l == j + r
  <2>1. Sized(v, i, l, s, o, 0)
    BY <1>3, <1>5, <1>6, <1>9, MembersOfNone DEF Sized
  <2>2. l \in Nat
    OBVIOUS
  <2> HIDE DEF l
  <2>3. WalkCount(v) = i + l + s + o + 0
    BY <2>1, <2>2, CountIs
  <2>4. WalkCount(w) = i + j + s + o + r
    BY <1>3, CountIs
  <2> QED BY <2>2, <2>3, <2>4 DEF l
<1>12. FirstTimed(v.peer) /\ Dated(WalkHeld(v), v.peer)
  BY <1>6, <1>9, <1>10 DEF WalkGood, FirstTimed, Dated
<1>13. v.peer.state = "connected" =>
          /\ Accounted(WalkHeld(v), WalkCount(v), v.peer.windows, v.peer.earliest, K)
          /\ Transit(v.peer)
  BY <1>6, <1>9, <1>10, <1>11 DEF WalkGood, Transit
<1>b. WalkOrdered(v)
  <2>1. b \o << >> = b
    BY <1>5, ConcatEmptySeq
  <2>2. Rels(v) = Rels(w) /\ Outs(v) = Outs(w)
    BY <1>6, <1>9, <1>a, <2>1 DEF Rels, Outs
  <2> QED BY <1>6, <1>9, <1>10, <2>2 DEF WalkGood, WalkOrdered
<1>14. WalkGood(v, K)
  <2>1. v.peer.state \in {"connected", "crashed"}
    BY <1>6, <1>9 DEF WalkGood
  <2>2. v.peer.state # "connected" => Cardinality(WalkHeld(v)) = WalkCount(v)
    BY <1>6, <1>9, <1>10, <1>11 DEF WalkGood
  <2> QED BY <1>9, <1>12, <1>13, <1>b, <2>1, <2>2 DEF WalkGood
<1> QED BY <1>6, <1>9, <1>14 DEF v

-----------------------------------------------------------------------------
(* Filling a datagram: each turn of the loop.                              *)

\* The flow limit is at most the window or a datagram.
LEMMA FlowLimitIs ==
    ASSUME NEW p \in PeerType(now)
    PROVE  FlowLimit(p) \in Nat /\ FlowLimit(p) <= Larger(FlowWindow, Capacity)
<1> DEFINE x == p.throttle * FlowWindow
           y == Scale * FlowWindow
<1>1. p.throttle \in Nat /\ p.throttle <= Scale
  BY Sizes DEF PeerType
<1>2. FlowWindow \in Nat \ {0} /\ Scale \in Nat \ {0} /\ Capacity \in Nat
  BY Sizes
<1>3. x \in Nat /\ y \in Nat /\ x <= y
  <2>1. \A a, b, f \in Nat : a <= b => a * f \in Nat /\ b * f \in Nat /\ a * f <= b * f
    OBVIOUS
  <2> QED BY <1>1, <1>2, <2>1
<1>4. y = Scale * FlowWindow + 0 /\ 0 \in 0 .. Scale - 1
  BY <1>2
<1> HIDE DEF x, y
<1>5. x \div Scale \in Nat /\ x \div Scale <= y \div Scale
  BY <1>2, <1>3, DivMod, DivMonotone
<1>6. y \div Scale = FlowWindow
  BY <1>2, <1>3, <1>4, Divided
<1>7. FlowLimit(p) = Larger(x \div Scale, Capacity)
  BY DEF FlowLimit, x
<1> QED BY <1>2, <1>5, <1>6, <1>7 DEF Larger

\* A reliable command as it is once sent.
Resent(c, timeout) ==
    [c EXCEPT !.attempts = @ + 1, !.timeout = timeout, !.sentTime = now,
              !.since = IF @ = 0 THEN now ELSE @]

LEMMA ResentIs ==
    ASSUME now \in Nat \ {0}, NEW c \in Commands(now), Reliable(c), NEW timeout \in Nat \ {0}
    PROVE  LET r == Resent(c, timeout)
           IN  /\ r \in Sents(now) /\ r \in Commands(now) /\ r \in AllCommands
               /\ Follows(r, c) /\ r.sentTime = now /\ r.timeout = timeout
               /\ r.length = c.length /\ r.attempts > 0
<1> DEFINE r == Resent(c, timeout)
           n == c.attempts + 1
           s == IF c.since = 0 THEN now ELSE c.since
<1>1. c \in AllCommands /\ Sound(c) /\ c.sentTime <= now
  BY DEF Commands
<1>2. c.attempts \in Nat /\ c.since \in Nat /\ c.sentTime \in Nat
  BY <1>1 DEF AllCommands
<1>3. n \in Nat \ {0} /\ s \in Nat \ {0} /\ s <= now /\ (c.attempts > 0 => s = c.since)
  BY <1>1, <1>2 DEF Sound
<1>4. r = [c EXCEPT !.attempts = n, !.timeout = timeout, !.sentTime = now, !.since = s]
  BY Zenon DEF Resent
<1> HIDE DEF r, n, s
<1>5. /\ r \in AllCommands /\ r.kind = c.kind /\ r.channel = c.channel /\ r.number = c.number
      /\ r.queueTime = c.queueTime /\ r.length = c.length
      /\ r.attempts = n /\ r.timeout = timeout /\ r.sentTime = now /\ r.since = s
  BY <1>1, <1>3, <1>4 DEF AllCommands
<1>6. n > 0 /\ s > 0 /\ timeout > 0 /\ now <= now
  BY <1>3
<1>7. Sound(r)
  BY <1>1, <1>3, <1>5, <1>6 DEF Sound, Reliable, HasPacket
<1>8. r \in Commands(now)
  BY <1>5, <1>6, <1>7 DEF Commands
<1>9. r \in Sents(now)
  BY <1>5, <1>6, <1>8 DEF Sents
<1>10. Follows(r, c)
  BY <1>3, <1>5, <1>6 DEF Follows
<1> QED BY <1>5, <1>6, <1>8, <1>9, <1>10 DEF r

LEMMA WindowOf ==
    ASSUME NEW c \in AllCommands
    PROVE  Window(c) \in 0 .. Windows - 1
<1>1. c.number \in Nat /\ c.number < WindowSize * Windows
  BY Sizes DEF AllCommands
<1> DEFINE n == c.number
           q == n \div WindowSize
<1>2. n \in Nat /\ WindowSize \in Nat \ {0} /\ Windows \in Nat \ {0} /\ n < WindowSize * Windows
  BY <1>1, Sizes
<1>3. q \in Nat /\ n % WindowSize \in 0 .. WindowSize - 1 /\ n = WindowSize * q + (n % WindowSize)
  BY <1>2, DivMod
<1> HIDE DEF n, q
<1>4. q < Windows
  <2> SUFFICES ASSUME q >= Windows PROVE FALSE
    BY <1>2, <1>3
  <2>1. \A x \in Nat : \A y, z \in Nat : y <= z => x * y <= x * z
    OBVIOUS
  <2>2. WindowSize * Windows <= WindowSize * q
    BY <1>2, <1>3, <2>1
  <2>3. WindowSize * q <= n
    <3> DEFINE k == WindowSize * q
    <3>1. k \in Nat
      BY <1>2, <1>3
    <3> HIDE DEF k
    <3>2. n = k + (n % WindowSize)
      BY <1>3 DEF k
    <3> QED BY <1>3, <3>1, <3>2 DEF k
  <2> DEFINE k == WindowSize * q
             l == WindowSize * Windows
  <2>4. k \in Nat /\ l \in Nat
    BY <1>2, <1>3
  <2> HIDE DEF k, l
  <2>5. l <= k /\ k <= n /\ n < l
    BY <1>2, <2>2, <2>3 DEF k, l
  <2> QED BY <1>2, <2>4, <2>5
<1> QED BY <1>2, <1>3, <1>4 DEF Window, n, q

\* What is put into the datagram is not in the lists any more.
LEMMA PutSame ==
    ASSUME NEW w \in WalkType(now), NEW c \in Commands(now)
    PROVE  Put(w, c) \in WalkType(now) /\ Alike(Put(w, c), w) /\ Put(w, c).peer = w.peer
           /\ Put(w, c).wrap = w.wrap
<1> DEFINE v == Put(w, c)
           d == Append(w.datagram, c)
           z == w.size + 1 + c.length
<1>1. w.size \in Nat /\ w.datagram \in Seq(Commands(now))
  BY DEF WalkType
<1>2. c.length \in Nat
  BY DEF Commands, AllCommands
<1>3. z \in Nat /\ d \in Seq(Commands(now))
  <2>1. d \in Seq(Commands(now))
    BY <1>1, AppendProperties
  <2> QED BY <1>1, <1>2, <2>1
<1>4. v = [w EXCEPT !.datagram = d, !.size = z]
  BY Zenon DEF Put
<1> HIDE DEF v, d, z
<1>5. /\ v \in WalkType(now) /\ v.peer = w.peer /\ v.outgoing = w.outgoing
      /\ v.sendReliable = w.sendReliable /\ v.wrap = w.wrap
  BY <1>3, <1>4 DEF WalkType
<1> QED BY <1>5 DEF Alike, v

\* A list with one more at its end.
LEMMA AppendedTo ==
    ASSUME NEW S, NEW s \in Seq(S), NEW r \in S
    PROVE  LET sent == Append(s, r)
           IN  /\ sent \in Seq(S) /\ Len(sent) = Len(s) + 1 /\ sent # << >>
               /\ Members(sent) = Members(s) \cup {r}
               /\ Head(sent) = IF s = << >> THEN r ELSE Head(s)
<1> DEFINE m == Len(s)
           sent == Append(s, r)
<1>1. sent \in Seq(S) /\ Len(sent) = Len(s) + 1 /\ Members(sent) = Members(s) \cup {r}
  BY MembersAppend
<1>2. m \in Nat /\ (s = << >> <=> m = 0) /\ Head(s) = s[1]
  BY LenProperties, EmptySeq DEF Head
<1>3. \A i \in 1 .. m + 1 : sent[i] = IF i <= m THEN s[i] ELSE r
  BY AppendProperties
<1> HIDE DEF sent
<1>4. Head(sent) = sent[1]
  BY DEF Head
<1>5. sent[1] = IF m = 0 THEN r ELSE s[1]
  <2> HIDE DEF m
  <2>1. 1 \in 1 .. m + 1 /\ (m = 0 <=> ~ (1 <= m))
    BY <1>2
  <2> QED BY <1>3, <2>1
<1>6. sent # << >>
  BY <1>1, <1>2, MembersOfNone
<1> QED BY <1>1, <1>2, <1>4, <1>5, <1>6 DEF sent

\* One place of a table changes.
LEMMA Placed ==
    ASSUME NEW D, NEW I, NEW T, NEW W \in [D -> [I -> T]], NEW d \in D, NEW z \in I, NEW x \in T
    PROVE  LET V == [W EXCEPT ![d] = [W[d] EXCEPT ![z] = x]]
           IN  /\ V \in [D -> [I -> T]]
               /\ \A e \in D : \A k \in I : V[e][k] = IF e = d /\ k = z THEN x ELSE W[e][k]
<1> DEFINE g == [W[d] EXCEPT ![z] = x]
           V == [W EXCEPT ![d] = g]
<1>1. W[d] \in [I -> T]
  OBVIOUS
<1>2. g \in [I -> T] /\ g[z] = x /\ \A k \in I : k # z => g[k] = W[d][k]
  BY <1>1
<1> HIDE DEF g
<1>3. V \in [D -> [I -> T]] /\ V[d] = g /\ \A e \in D : e # d => V[e] = W[e]
  BY <1>2
<1>4. \A e \in D : \A k \in I : V[e][k] = IF e = d /\ k = z THEN x ELSE W[e][k]
  <2> HIDE DEF V
  <2> QED BY <1>2, <1>3
<1> QED BY <1>3, <1>4 DEF g

\* A window is begun only while nothing of it is on its way.
LEMMA WindowEmpty ==
    ASSUME NEW p \in PeerType(now), NEW c \in AllCommands, NEW R, NEW n, NEW earliest, NEW K,
           Accounted(R \cup {c}, n, p.windows, earliest, K),
           c.channel \in Channels, c.attempts = 0, c.number % WindowSize = 0,
           ~ WindowWrap(p, c)
    PROVE  \A d \in InFlight(R, c.channel) : Window(d) # Window(c)
<1> DEFINE k == Window(c)
           ch == c.channel
           x == p.windows[ch][k]
           D == InUse(R \cup {c}, ch, k)
<1>1. k \in 0 .. Windows - 1
  BY WindowOf
<1>2. x \in Nat
  <2>1. p.windows \in [Channels -> [0 .. Windows - 1 -> Nat]]
    BY DEF PeerType
  <2>2. p.windows[ch] \in [0 .. Windows - 1 -> Nat]
    BY <2>1
  <2> HIDE DEF k, ch
  <2> QED BY <1>1, <2>2
<1>3. k \in Ahead(k)
  <2> HIDE DEF k
  <2>1. Windows \in Nat \ {0} /\ FreeWindows \in Nat /\ 0 \in 0 .. FreeWindows + 1 /\ k + 0 = k
        /\ k \in Nat /\ k = Windows * 0 + k
    BY <1>1, Sizes
  <2>2. k % Windows = k
    BY <1>1, <2>1, Divided
  <2> QED BY <2>1, <2>2 DEF Ahead
<1>4. ~ (x > 0)
  BY <1>3 DEF WindowWrap
<1>5. x = Cardinality(D)
  <2> HIDE DEF k, ch
  <2> QED BY <1>1 DEF Accounted, ch
<1>6. IsFiniteSet(D)
  <2>1. IsFiniteSet(R \cup {c}) /\ D \in SUBSET (R \cup {c})
    BY DEF Accounted, InUse
  <2> QED BY <2>1, FiniteParts
<1>7. D = {}
  <2> HIDE DEF D, x
  <2>1. Cardinality(D) = 0
    BY <1>2, <1>4, <1>5
  <2> QED BY <1>6, <2>1, FS_EmptySet
<1> QED BY <1>7 DEF InUse, InFlight

\* No window keeps the command back, and none like it was passed over.
MayGo(w, c) ==
    /\ c.channel \in Channels => ~ WindowWrap(w.peer, c)
    /\ Queued(c) => w.peer.sendReliable = << >>

\* A reliable command is sent: its first attempt takes a place in its window.
LEMMA SendReliableGood ==
    ASSUME now \in Nat \ {0}, NEW w, NEW c, NEW K, InHand(w, c, K), Reliable(c),
           ~ FlowBlocked(w.peer, c),
           MayGo(w, c)
    PROVE  /\ WalkGood(SendReliable(w, c), K)
           /\ SendReliable(w, c).peer.sendReliable = w.peer.sendReliable
           /\ SendReliable(w, c).sendReliable = w.sendReliable
           /\ SendReliable(w, c).wrap = w.wrap
<1> DEFINE p == w.peer
           timeout == IF c.timeout = 0 THEN p.roundTrip ELSE c.timeout
           r == Resent(c, timeout)
           first == c.channel \in Channels /\ c.attempts < 1
           windows == IF first
                      THEN [p.windows EXCEPT ![c.channel] =
                                [p.windows[c.channel] EXCEPT ![Window(c)] = p.windows[c.channel][Window(c)] + 1]]
                      ELSE p.windows
           next == IF p.sent = << >> THEN now + timeout ELSE p.nextTimeout
           sent == Append(p.sent, r)
           transit == p.inTransit + c.length
           q == [p EXCEPT !.windows = windows, !.nextTimeout = next, !.sent = sent,
                          !.inTransit = transit]
           u == [w EXCEPT !.peer = q]
<1>1. /\ w \in WalkType(now) /\ c \in Commands(now) /\ c \in AllCommands
      /\ p \in PeerType(now)
  BY CommandSets, WalkLists DEF InHand
<1>2. /\ p.sent \in Seq(Sents(now)) /\ p.nextTimeout \in Nat /\ p.inTransit \in Int
      /\ p.windows \in [Channels -> [0 .. Windows - 1 -> Nat]] /\ p.roundTrip \in Nat \ {0}
  BY <1>1 DEF PeerType
<1>3. c.timeout \in Nat /\ c.length \in Nat /\ c.attempts \in Nat /\ Sound(c)
  BY <1>1 DEF AllCommands, Commands
<1>4. timeout \in Nat \ {0}
  BY <1>2, <1>3
<1> HIDE DEF timeout
<1>5. /\ r \in Sents(now) /\ r \in Commands(now) /\ r \in AllCommands
      /\ Follows(r, c) /\ r.sentTime = now /\ r.timeout = timeout
      /\ r.length = c.length /\ r.attempts > 0
  BY <1>1, <1>4, ResentIs
<1>6. SendReliable(w, c) = Put(u, r)
  BY Zenon DEF SendReliable, Resent, timeout
<1> HIDE DEF r
<1>7. /\ windows \in [Channels -> [0 .. Windows - 1 -> Nat]]
      /\ \A ch \in Channels : \A k \in 0 .. Windows - 1 :
            windows[ch][k] = IF First(r, c, ch, k) THEN p.windows[ch][k] + 1 ELSE p.windows[ch][k]
  <2> DEFINE z == Window(c)
             W == p.windows
  <2>1. z \in 0 .. Windows - 1
    BY <1>1, WindowOf
  <2>2. W \in [Channels -> [0 .. Windows - 1 -> Nat]]
    BY <1>2
  <2>3. \A ch, k : First(r, c, ch, k) <=> (c.attempts = 0 /\ c.channel = ch /\ z = k)
    BY <1>5 DEF First
  <2>4. first <=> (c.channel \in Channels /\ c.attempts = 0)
    BY <1>3
  <2>5. windows = IF first THEN [W EXCEPT ![c.channel] = [W[c.channel] EXCEPT ![z] = W[c.channel][z] + 1]]
                  ELSE W
    OBVIOUS
  <2> HIDE DEF z, W, first, windows
  <2>6. CASE first
    <3> DEFINE d == c.channel
               x == W[d][z] + 1
    <3>1. d \in Channels /\ x \in Nat
      <4>1. d \in Channels
        BY <2>4, <2>6
      <4>2. W[d] \in [0 .. Windows - 1 -> Nat]
        BY <2>2, <4>1
      <4>3. W[d][z] \in Nat
        BY <2>1, <4>2
      <4> HIDE DEF d
      <4> QED BY <4>1, <4>3
    <3>2. windows = [W EXCEPT ![d] = [W[d] EXCEPT ![z] = x]]
      BY <2>5, <2>6
    <3> HIDE DEF d, x
    <3>3. /\ windows \in [Channels -> [0 .. Windows - 1 -> Nat]]
          /\ \A e \in Channels : \A k \in 0 .. Windows - 1 :
                windows[e][k] = IF e = d /\ k = z THEN x ELSE W[e][k]
      <4> DEFINE I == 0 .. Windows - 1
      <4>1. z \in I /\ W \in [Channels -> [I -> Nat]]
        BY <2>1, <2>2
      <4> HIDE DEF I
      <4> DEFINE V == [W EXCEPT ![d] = [W[d] EXCEPT ![z] = x]]
      <4>2. /\ V \in [Channels -> [I -> Nat]]
            /\ \A e \in Channels : \A k \in I : V[e][k] = IF e = d /\ k = z THEN x ELSE W[e][k]
        <5>1. z \in I /\ W \in [Channels -> [I -> Nat]] /\ d \in Channels /\ x \in Nat
          BY <3>1, <4>1
        <5> QED BY <5>1, Placed
      <4>3. windows = V
        BY <3>2
      <4> HIDE DEF V
      <4> QED BY <4>2, <4>3 DEF I
    <3>4. \A e \in Channels : \A k \in 0 .. Windows - 1 :
             First(r, c, e, k) <=> (e = d /\ k = z)
      BY <2>3, <2>4, <2>6 DEF d
    <3>5. \A e \in Channels : \A k \in 0 .. Windows - 1 :
             windows[e][k] = IF First(r, c, e, k) THEN W[e][k] + 1 ELSE W[e][k]
      BY <3>3, <3>4 DEF x
    <3> QED BY <3>3, <3>5 DEF W
  <2>7. CASE ~ first
    <3>1. windows = W
      BY <2>5, <2>7
    <3>2. \A e \in Channels : \A k \in 0 .. Windows - 1 : ~ First(r, c, e, k)
      BY <2>3, <2>4, <2>7
    <3>3. windows \in [Channels -> [0 .. Windows - 1 -> Nat]]
      BY <2>2, <3>1
    <3> QED BY <3>1, <3>2, <3>3 DEF W
  <2> QED BY <2>6, <2>7
<1> HIDE DEF windows, first
<1>8. /\ sent \in Seq(Sents(now)) /\ Len(sent) = Len(p.sent) + 1 /\ sent # << >>
      /\ Members(sent) = Members(p.sent) \cup {r}
      /\ Head(sent) = IF p.sent = << >> THEN r ELSE Head(p.sent)
  BY <1>2, <1>5, AppendedTo
<1>9. next \in Nat /\ transit \in Int
  BY <1>2, <1>3, <1>4
<1>10. q = [p EXCEPT !.windows = windows, !.nextTimeout = next, !.sent = sent,
                     !.inTransit = transit]
  OBVIOUS
<1>11. /\ next = IF p.sent = << >> THEN now + timeout ELSE p.nextTimeout
       /\ sent = Append(p.sent, r) /\ transit = p.inTransit + c.length
  OBVIOUS
<1> HIDE DEF next, sent, transit, q
<1>12. /\ q \in PeerType(now) /\ q.outgoing = p.outgoing /\ q.sendReliable = p.sendReliable
       /\ q.sent = sent /\ q.windows = windows /\ q.nextTimeout = next /\ q.inTransit = transit
       /\ q.state = p.state /\ q.totalQueued = p.totalQueued /\ q.earliest = p.earliest
       /\ q.number = p.number
  <2> HIDE DEF p
  <2> QED BY <1>1, <1>7, <1>8, <1>9, <1>10 DEF PeerType
<1>13. /\ u \in WalkType(now) /\ u.peer = q /\ u.outgoing = w.outgoing
       /\ u.sendReliable = w.sendReliable /\ u.wrap = w.wrap
  BY <1>1, <1>12, WalkWith
<1> HIDE DEF u
<1>14. WalkHeld(u) = WalkHeld(w) \cup {r}
  BY <1>8, <1>12, <1>13 DEF WalkHeld, PeerHeld
<1>15. WalkCount(u) = WalkCount(w) + 1
  <2>1. PICK a, b, s, o, l \in Nat : Sized(w, a, b, s, o, l)
    BY <1>1, SizedExists
  <2> DEFINE k == s + 1
  <2>2. k \in Nat
    OBVIOUS
  <2>3. Len(p.sent) = s
    BY <2>1 DEF Sized
  <2>4. Len(sent) = k
    BY <1>8, <2>3
  <2> HIDE DEF k
  <2>5. Sized(u, a, b, k, o, l)
    BY <1>12, <1>13, <2>1, <2>4 DEF Sized
  <2>6. WalkCount(w) = a + b + s + o + l
    BY <2>1, CountIs
  <2>7. WalkCount(u) = a + b + k + o + l
    BY <2>2, <2>5, CountIs
  <2> QED BY <2>2, <2>6, <2>7 DEF k
<1>16. FirstTimed(u.peer)
  <2>1. sent # << >> => next = Head(sent).sentTime + Head(sent).timeout
    BY <1>5, <1>8, <1>11 DEF InHand, FirstTimed
  <2> QED BY <1>12, <1>13, <2>1 DEF FirstTimed
<1>17. Dated(WalkHeld(u), u.peer)
  BY <1>5, <1>12, <1>13, <1>14 DEF InHand, Dated, Follows
<1>18. Transit(u.peer)
  <2>1. Data \in [AllCommands -> Int]
    BY DEF Data, AllCommands
  <2>2. p.sent \in Seq(AllCommands)
    <3>1. Sents(now) \subseteq AllCommands
      BY CommandSets
    <3> QED BY <1>2, <3>1
  <2>3. Data[r] = c.length
    BY <1>5 DEF Data
  <2>4. SeqSum(Data, sent) = SeqSum(Data, p.sent) + c.length
    BY <1>5, <1>11, <2>1, <2>2, <2>3, SeqSumAppend
  <2>5. p.inTransit = SeqSum(Data, p.sent) /\ p.inTransit <= Larger(FlowWindow, Capacity)
    BY DEF InHand, Transit
  <2>6. transit <= Larger(FlowWindow, Capacity)
    <3>1. CASE HasPacket(c)
      <4>1. transit <= FlowLimit(p)
        <5>1. ~ (p.inTransit + c.length > FlowLimit(p))
          BY <3>1 DEF FlowBlocked
        <5>2. FlowLimit(p) \in Nat
          BY <1>1, FlowLimitIs
        <5> QED BY <1>9, <1>11, <5>1, <5>2
      <4>2. FlowLimit(p) \in Nat /\ FlowLimit(p) <= Larger(FlowWindow, Capacity)
        BY <1>1, FlowLimitIs
      <4>3. Larger(FlowWindow, Capacity) \in Nat
        BY Sizes DEF Larger
      <4> QED BY <1>9, <4>1, <4>2, <4>3
    <3>2. CASE ~ HasPacket(c)
      <4>1. c.length = 0
        BY <1>3, <3>2 DEF Sound
      <4> QED BY <1>2, <1>11, <2>5, <4>1
    <3> QED BY <3>1, <3>2
  <2> QED BY <1>11, <1>12, <1>13, <2>4, <2>5, <2>6 DEF Transit
<1>19. Accounted(WalkHeld(u), WalkCount(u), u.peer.windows, u.peer.earliest, K)
  <2> DEFINE m == WalkCount(w)
             R == WalkHeld(w)
  <2>1. m \in Nat /\ Cardinality(R) <= m
    BY <1>1, Places
  <2>2. Accounted(R \cup {c}, m + 1, p.windows, p.earliest, K)
    BY DEF InHand
  <2> HIDE DEF m, R
  <2>3. Accounted(R \cup {r}, m + 1, windows, p.earliest, K)
    BY <1>5, <1>7, <2>1, <2>2, Swapped
  <2> QED BY <1>12, <1>13, <1>14, <1>15, <2>3 DEF m, R
<1>a. WalkOrdered(u)
  <2> DEFINE m == WalkCount(w)
             R == WalkHeld(w)
             A == Outgoings(now)
             B == Packeted(now)
             X == p.outgoing
             Y == w.outgoing
             G == p.sendReliable
             H == w.sendReliable
  <2>1. /\ X \in Seq(A) /\ Y \in Seq(A) /\ G \in Seq(B) /\ H \in Seq(B)
        /\ p.number \in NumberType
    BY <1>1, WalkLists
  <2>2. /\ Queued(c) => c \in B
        /\ ~ Queued(c) => c \in A /\ c.channel \notin Channels
    <3>1. c \in A \cup B
      BY DEF InHand
    <3>2. /\ Queued(c) => c \in B
          /\ ~ Queued(c) => c \in A
      BY <3>1, CommandSets DEF Queued
    <3>3. ~ Queued(c) => c.channel = Control
      BY <1>3 DEF Sound, Queued
    <3> QED BY <3>2, <3>3, Sizes
  <2>3. m \in Nat /\ Cardinality(R) <= m
    BY <1>1, Places
  <2>4. Accounted(R \cup {c}, m + 1, p.windows, p.earliest, K)
    BY DEF InHand
  <2> HIDE DEF m
  <2>5. c \notin R /\ R \subseteq AllCommands
    <3> HIDE DEF R
    <3> QED BY <2>3, <2>4, TakenApart
  <2>6. Outs(u) = X \o Y /\ Rels(u) = G \o H
    BY <1>12, <1>13 DEF Outs, Rels
  <2>7. /\ HandOuts(w, c) = IF Queued(c) THEN X \o Y ELSE X \o (<<c>> \o Y)
        /\ HandRels(w, c) = IF Queued(c) THEN G \o (<<c>> \o H) ELSE G \o H
    BY DEF HandOuts, HandRels, Outs, Rels
  <2> DEFINE L == HandOuts(w, c)
             M == HandRels(w, c)
             number == p.number
  <2>8. Ordered(R \cup {c}, L, M, number)
    BY DEF InHand, HandOrdered
  <2>9. c.attempts > 0 \/ c.attempts = 0
    BY <1>3
  <2>10. c.channel \in Channels /\ c.attempts = 0 /\ c.number % WindowSize = 0 =>
            \A d \in InFlight(R, c.channel) : Window(d) # Window(c)
    <3> HIDE DEF R
    <3> SUFFICES ASSUME c.channel \in Channels, c.attempts = 0, c.number % WindowSize = 0
                 PROVE  \A d \in InFlight(R, c.channel) : Window(d) # Window(c)
      OBVIOUS
    <3> QED BY <1>1, <2>4, WindowEmpty DEF MayGo
  <2>11. (Queued(c) => G = << >> /\ c.channel \in Channels)
    BY <1>3 DEF Sound, Queued, MayGo
  <2>12. number \in NumberType
    BY <2>1
  <2> HIDE DEF R, A, B, X, Y, G, H, L, M, number, p
  <2>13. CASE ~ Queued(c)
    <3>1. L = X \o (<<c>> \o Y) /\ M = G \o H
      BY <2>7, <2>13 DEF L, M
    <3>2. Ordered(R \cup {r}, L, M, number)
      BY <1>5, <2>2, <2>5, <2>8, <2>13, OrderedSwap
    <3>3. RetriedFirst(X \o Y)
      <4> DEFINE D == <<c>>
      <4>1. D \in Seq(A)
        BY <2>2, <2>13, MembersOfOne
      <4>2. RetriedFirst(X \o (D \o Y))
        BY <3>1, <3>2 DEF Ordered
      <4> HIDE DEF D
      <4> QED BY <2>1, <4>1, <4>2, RetriedWithout
    <3>4. Ordered(R \cup {r}, X \o Y, M, number)
      <4> DEFINE C == R \cup {r}
      <4>1. C \in SUBSET C
        OBVIOUS
      <4> HIDE DEF C
      <4> QED BY <3>2, <3>3, <4>1, OrderedLess DEF C
    <3> QED BY <1>12, <1>13, <1>14, <2>6, <3>1, <3>4 DEF WalkOrdered, R, number
  <2>14. CASE Queued(c) /\ c.attempts > 0
    <3>1. L = X \o Y /\ M = G \o (<<c>> \o H)
      BY <2>7, <2>14 DEF L, M
    <3>2. Ordered(R \cup {c}, L, G \o (<<c>> \o H), number)
      BY <2>8, <3>1
    <3>3. Ordered(R \cup {c}, L, G \o H, number)
      BY <2>1, <2>2, <2>12, <2>14, <3>2, OrderedWithout
    <3>4. Ordered(R \cup {r}, L, G \o H, number)
      BY <1>5, <2>5, <2>14, <3>3, OrderedSwap
    <3> QED BY <1>12, <1>13, <1>14, <2>6, <3>1, <3>4 DEF WalkOrdered, R, number
  <2>15. CASE Queued(c) /\ c.attempts = 0
    <3>1. L = X \o Y /\ M = G \o (<<c>> \o H) /\ G = << >>
      BY <2>7, <2>11, <2>15 DEF L, M
    <3>2. <<c>> \o H \in Seq(B)
      <4> DEFINE D == <<c>>
      <4>1. D \in Seq(B)
        BY <2>2, <2>15, MembersOfOne
      <4> HIDE DEF D
      <4>2. D \o H \in Seq(B)
        BY <2>1, <4>1, ConcatProperties
      <4> QED BY <4>2 DEF D
    <3>3. M = <<c>> \o H /\ G \o H = H
      BY <2>1, <3>1, <3>2, ConcatEmptySeq
    <3>4. Ordered(R \cup {c}, L, <<c>> \o H, number)
      BY <2>8, <3>3
    <3>5. Ordered(R \cup {r}, L, H, number)
      <4>1. R \in SUBSET AllCommands /\ c \in AllCommands /\ c \in B /\ H \in Seq(B)
        BY <1>1, <2>1, <2>2, <2>5, <2>15
      <4>2. Follows(r, c) /\ r.attempts > 0 /\ c.attempts = 0 /\ c.channel \in Channels
        BY <1>5, <2>11, <2>15
      <4>3. c.number % WindowSize = 0 => \A d \in InFlight(R, c.channel) : Window(d) # Window(c)
        BY <2>10, <4>2
      <4> QED BY <2>12, <3>4, <4>1, <4>2, <4>3, OrderedFirst
    <3> QED BY <1>12, <1>13, <1>14, <2>6, <3>1, <3>3, <3>5 DEF WalkOrdered, R, number
  <2> QED BY <2>9, <2>13, <2>14, <2>15
<1>20. WalkGood(u, K)
  <2>1. u.peer.state = "connected"
    BY <1>12, <1>13 DEF InHand
  <2> QED BY <1>13, <1>16, <1>17, <1>18, <1>19, <1>a, <2>1 DEF WalkGood
<1>21. /\ Put(u, r) \in WalkType(now) /\ Alike(Put(u, r), u) /\ Put(u, r).peer = u.peer
       /\ Put(u, r).wrap = u.wrap
  BY <1>5, <1>13, PutSame
<1>22. WalkGood(SendReliable(w, c), K)
  BY <1>6, <1>20, <1>21, AlikeGood
<1>23. /\ SendReliable(w, c).peer.sendReliable = w.peer.sendReliable
       /\ SendReliable(w, c).sendReliable = w.sendReliable
       /\ SendReliable(w, c).wrap = w.wrap
  BY <1>6, <1>12, <1>13, <1>21 DEF Alike
<1> QED BY <1>22, <1>23

\* A sequence cut in two.
LEMMA Cut ==
    ASSUME NEW S, NEW s \in Seq(S), NEW n \in 0 .. Len(s)
    PROVE  /\ SubSeq(s, 1, n) \in Seq(S) /\ Len(SubSeq(s, 1, n)) = n
           /\ SubSeq(s, n + 1, Len(s)) \in Seq(S) /\ Len(SubSeq(s, n + 1, Len(s))) = Len(s) - n
           /\ Members(s) = Members(SubSeq(s, 1, n)) \cup Members(SubSeq(s, n + 1, Len(s)))
           /\ s = SubSeq(s, 1, n) \o SubSeq(s, n + 1, Len(s))
<1> DEFINE l == Len(s)
           a == SubSeq(s, 1, n)
           b == SubSeq(s, n + 1, l)
<1>1. l \in Nat /\ n \in 0 .. l /\ \A i \in 1 .. l : s[i] \in S
  BY LenProperties, ElementOfSeq
<1>2. a \in Seq(S) /\ Len(a) = n
  <2> HIDE DEF l
  <2>1. (IF 1 <= n THEN n - 1 + 1 ELSE 0) = n /\ \A i \in 1 .. n : s[i] \in S
    BY <1>1
  <2> QED BY <1>1, <2>1, SubSeqProperties
<1>3. b \in Seq(S) /\ Len(b) = l - n
  <2> HIDE DEF l
  <2>1. /\ (IF n + 1 <= l THEN l - (n + 1) + 1 ELSE 0) = l - n /\ n + 1 \in Int
        /\ \A i \in n + 1 .. l : s[i] \in S
    BY <1>1
  <2> QED BY <1>1, <2>1, SubSeqProperties
<1>4. s = a \o b
  <2>1. l \in n .. l /\ n \in 1 - 1 .. l /\ 1 \in 1 .. l + 1
    BY <1>1
  <2>2. SubSeq(s, 1, n) \o SubSeq(s, n + 1, l) = SubSeq(s, 1, l)
    BY <2>1, ConcatAdjacentSubSeq
  <2>3. SubSeq(s, 1, l) = s
    BY SubSeqFull
  <2> QED BY <2>2, <2>3
<1> HIDE DEF a, b
<1>5. Members(a \o b) = Members(a) \cup Members(b)
  BY <1>2, <1>3, MembersConcat
<1> QED BY <1>2, <1>3, <1>4, <1>5 DEF a, b

LEMMA SameNumbersIs ==
    ASSUME NEW w \in WalkType(now), NEW c
    PROVE  \E n \in 0 .. Len(w.outgoing) : SameNumbers(w, c) = SubSeq(w.outgoing, 1, n)
<1> DEFINE s == w.outgoing
           l == Len(s)
           Others == {i \in 1 .. l : Numbers(s[i]) # Numbers(c)}
           Ends(n) == /\ \A i \in 1 .. n : Numbers(s[i]) = Numbers(c)
                      /\ n < l => Numbers(s[n + 1]) # Numbers(c)
           Places0 == {n \in 0 .. l : n < l => n + 1 \in Others}
<1>1. l \in Nat
  BY WalkLists, LenProperties
<1>2. SameNumbers(w, c) = SubSeq(s, 1, CHOOSE n \in 0 .. l : Ends(n))
  BY Zenon DEF SameNumbers
<1> HIDE DEF s, l, Others
<1>3. l \in Places0 /\ Places0 \in SUBSET Nat /\ Places0 # {}
  <2>1. l \in 0 .. l /\ ~ (l < l)
    BY <1>1
  <2>2. l \in Places0
    BY <2>1
  <2>3. Places0 \subseteq Nat
    BY <1>1
  <2> QED BY <2>2, <2>3
<1>4. PICK n \in Places0 : \A k \in Places0 : n <= k
  <2> HIDE DEF Places0
  <2> QED BY <1>3, Least
<1>5. \A i \in 1 .. n : i \notin Others
  <2> SUFFICES ASSUME NEW i \in 1 .. n, i \in Others PROVE FALSE
    OBVIOUS
  <2>1. i - 1 \in 0 .. l /\ i - 1 + 1 = i /\ ~ (n <= i - 1)
    BY <1>1, <1>4
  <2>2. i - 1 \in Places0
    BY <2>1
  <2> QED BY <1>4, <2>1, <2>2
<1>6. n \in 0 .. l /\ Ends(n)
  BY <1>1, <1>4, <1>5 DEF Others
<1> HIDE DEF Ends
<1>7. (CHOOSE k \in 0 .. l : Ends(k)) \in 0 .. l
  BY <1>6
<1> QED BY <1>2, <1>7 DEF s, l

\* An unreliable packet is dropped with what shares its numbers.
LEMMA DropGood ==
    ASSUME NEW w, NEW c, NEW K, InHand(w, c, K), c \in Outgoings(now), ~ Reliable(c)
    PROVE  /\ WalkGood(Drop(w, c), K)
           /\ Drop(w, c).peer.sendReliable = w.peer.sendReliable
           /\ Drop(w, c).sendReliable = w.sendReliable /\ Drop(w, c).wrap = w.wrap
<1> DEFINE s == w.outgoing
           e == <<c>>
<1>1. w \in WalkType(now) /\ s \in Seq(Outgoings(now)) /\ w.peer \in PeerType(now)
  BY WalkLists DEF InHand
<1>2. PICK n \in 0 .. Len(s) : SameNumbers(w, c) = SubSeq(s, 1, n)
  BY <1>1, SameNumbersIs
<1> DEFINE a == SubSeq(s, 1, n)
           b == SubSeq(s, n + 1, Len(s))
           all == e \o a
           dropped == Append(w.dropped, all)
           v == [w EXCEPT !.outgoing = b, !.dropped = dropped]
           q == [w.peer EXCEPT !.state = "crashed"]
           Packet0 == \A i \in DOMAIN all : HasPacket(all[i])
<1>3. /\ a \in Seq(Outgoings(now)) /\ Len(a) = n
      /\ b \in Seq(Outgoings(now)) /\ Len(b) = Len(s) - n
      /\ Members(s) = Members(a) \cup Members(b) /\ s = a \o b
  BY <1>1, Cut
<1>4. e \in Seq(Outgoings(now)) /\ Len(e) = 1 /\ Members(e) = {c}
  BY MembersOfOne
<1>5. n \in Nat /\ Len(s) \in Nat
  BY <1>1, LenProperties
<1>6. /\ all \in Seq(Outgoings(now)) /\ Len(all) = n + 1 /\ Members(all) = {c} \cup Members(a)
      /\ DOMAIN all = 1 .. n + 1
  <2> HIDE DEF e, a
  <2>1. e \o a \in Seq(Outgoings(now)) /\ Len(e \o a) = 1 + n
    <3>1. a \in Seq(Outgoings(now)) /\ Len(a) = n /\ e \in Seq(Outgoings(now)) /\ Len(e) = 1
      BY <1>3, <1>4
    <3>2. e \o a \in Seq(Outgoings(now)) /\ Len(e \o a) = Len(e) + Len(a)
      BY <3>1, ConcatProperties
    <3> QED BY <3>1, <3>2
  <2>2. Members(e \o a) = {c} \cup Members(a)
    BY <1>3, <1>4, MembersConcat
  <2> HIDE DEF all
  <2>3. all = e \o a
    BY DEF all
  <2>4. Len(all) = n + 1
    BY <1>5, <2>1, <2>3
  <2> QED BY <2>1, <2>2, <2>3, <2>4, LenProperties
<1>7. Drop(w, c) = IF Packet0 THEN v ELSE [v EXCEPT !.peer.state = "crashed"]
  <2>1. Len(<<c>> \o SameNumbers(w, c)) = n + 1
    BY <1>2, <1>6
  <2> HIDE DEF b
  <2>2. b = SubSeq(w.outgoing, Len(<<c>> \o SameNumbers(w, c)), Len(w.outgoing))
    BY <2>1 DEF b
  <2> QED BY <1>2, <2>2, Zenon DEF Drop
<1>a. <<c>> \o s = all \o b
  <2> HIDE DEF e, a, b
  <2>1. e \o s = (e \o a) \o b
    <3>1. (e \o a) \o b = e \o (a \o b)
      BY <1>3, <1>4, ConcatAssociative
    <3> QED BY <1>3, <3>1
  <2> QED BY <2>1 DEF e, all
<1> HIDE DEF a, b, all, e
<1>8. dropped \in Seq(Seq(Outgoings(now)))
  <2>1. w.dropped \in Seq(Seq(Outgoings(now)))
    BY <1>1 DEF WalkType
  <2> QED BY <1>6, <2>1, AppendProperties
<1> HIDE DEF dropped
<1>9. /\ v \in WalkType(now) /\ v.peer = w.peer /\ v.outgoing = b
      /\ v.sendReliable = w.sendReliable /\ v.wrap = w.wrap
  BY <1>1, <1>3, <1>8 DEF WalkType
<1> HIDE DEF v
<1>10. WalkHeld(w) \cup {c} = WalkHeld(v) \cup Members(all)
  BY <1>3, <1>6, <1>9 DEF WalkHeld, s
<1>b. WalkOrdered(v)
  <2> DEFINE X == w.peer.outgoing
             A == Outgoings(now)
             B == WalkHeld(w) \cup {c}
             C == WalkHeld(v)
             M == Rels(w)
             number == w.peer.number
  <2>1. X \in Seq(A) /\ all \in Seq(A) /\ b \in Seq(A)
    BY <1>1, <1>3, <1>6, WalkLists
  <2>2. HandOuts(w, c) = X \o (all \o b) /\ HandRels(w, c) = M
    BY <1>a DEF HandOuts, HandRels, Queued, s
  <2>3. Ordered(B, X \o (all \o b), M, number)
    BY <2>2 DEF InHand, HandOrdered
  <2>4. C \in SUBSET B
    BY <1>10
  <2>5. Outs(v) = X \o b /\ Rels(v) = M
    BY <1>9 DEF Outs, Rels
  <2> HIDE DEF X, A, B, C, M, number
  <2>6. Ordered(C, X \o b, M, number)
    BY <2>1, <2>3, <2>4, OrderedOut
  <2> QED BY <1>9, <2>5, <2>6 DEF WalkOrdered, C, number
<1>11. FirstTimed(v.peer) /\ Dated(WalkHeld(v), v.peer)
  BY <1>9, <1>10 DEF InHand, Dated
<1>c2. WalkCount(w) + 1 = WalkCount(v) + (n + 1)
  <2>1. PICK x, y, z, o, l \in Nat : Sized(w, x, y, z, o, l)
    BY <1>1, SizedExists
  <2> DEFINE k == o - n
  <2>2. o = Len(s)
    BY <2>1 DEF Sized
  <2>3. k \in Nat /\ Len(b) = k
    BY <1>3, <2>2
  <2> HIDE DEF k
  <2>4. Sized(v, x, y, z, k, l)
    BY <1>9, <2>1, <2>3 DEF Sized
  <2>5. WalkCount(w) = x + y + z + o + l
    BY <2>1, CountIs
  <2>6. WalkCount(v) = x + y + z + k + l
    BY <2>3, <2>4, CountIs
  <2> QED BY <1>5, <2>3, <2>5, <2>6 DEF k
<1>c3. /\ WalkCount(v) \in Nat /\ Cardinality(WalkHeld(v)) <= WalkCount(v)
  BY <1>9, Places
<1>c4. Cardinality(Members(all)) <= n + 1
  BY <1>6, MembersIn
<1>c5. Accounted(WalkHeld(w) \cup {c}, WalkCount(w) + 1, w.peer.windows, w.peer.earliest, K)
  BY DEF InHand
<1>c6. Accounted(WalkHeld(v) \cup Members(all), WalkCount(v) + (n + 1), w.peer.windows, w.peer.earliest, K)
  BY <1>10, <1>c2, <1>c5
<1>12. CASE Packet0
  <2>1. \A d \in Members(all) : ~ Reliable(d) /\ d.attempts = 0
    <3> SUFFICES ASSUME NEW d \in Members(all) PROVE ~ Reliable(d) /\ d.attempts = 0
      OBVIOUS
    <3>1. HasPacket(d) /\ d \in Outgoings(now)
      BY <1>6, <1>12, MembersIn DEF Members
    <3>2. ~ Reliable(d)
      BY <3>1 DEF Outgoings
    <3>3. d.attempts \in Nat /\ (d.attempts > 0 => Reliable(d))
      BY <3>1 DEF Outgoings, Commands, AllCommands, Sound
    <3> QED BY <3>2, <3>3
  <2> DEFINE R == WalkHeld(v)
             D == Members(all)
             m == WalkCount(v)
             l == n + 1
  <2>7. l \in Nat
    BY <1>5
  <2> HIDE DEF R, D, m, l
  <2>8. Accounted(R, m, w.peer.windows, w.peer.earliest, K)
    <3>1. Accounted(R \cup D, m + l, w.peer.windows, w.peer.earliest, K)
      BY <1>c6 DEF R, D, m, l
    <3>2. m \in Nat /\ Cardinality(R) <= m /\ Cardinality(D) <= l
      BY <1>c3, <1>c4 DEF R, D, m, l
    <3>3. \A d \in D : ~ Reliable(d) /\ d.attempts = 0
      BY <2>1 DEF D
    <3> QED BY <2>7, <3>1, <3>2, <3>3, Dropped
  <2>9. WalkGood(v, K)
    BY <1>9, <1>11, <1>b, <2>8 DEF WalkGood, R, m, InHand
  <2> QED BY <1>7, <1>9, <1>12, <2>9
<1>13. CASE ~ Packet0
  <2>1. q \in PeerType(now) /\ q.state = "crashed" /\ q.sent = w.peer.sent /\ q.nextTimeout = w.peer.nextTimeout
        /\ q.totalQueued = w.peer.totalQueued /\ q.outgoing = w.peer.outgoing
        /\ q.sendReliable = w.peer.sendReliable /\ q.number = w.peer.number
    <3> DEFINE p == w.peer
    <3>1. "crashed" \in States
      BY Zenon DEF States
    <3>2. p \in PeerType(now) /\ q = [p EXCEPT !.state = "crashed"]
      BY <1>1
    <3> HIDE DEF p, q
    <3>3. /\ q \in PeerType(now) /\ q.state = "crashed" /\ q.sent = p.sent /\ q.nextTimeout = p.nextTimeout
          /\ q.totalQueued = p.totalQueued /\ q.outgoing = p.outgoing /\ q.sendReliable = p.sendReliable
          /\ q.number = p.number
      BY <3>1, <3>2 DEF PeerType
    <3> QED BY <3>3 DEF p
  <2>2. Drop(w, c) = [v EXCEPT !.peer = q]
    <3>1. Drop(w, c) = [v EXCEPT !.peer.state = "crashed"]
      BY <1>7, <1>13
    <3>2. [v EXCEPT !.peer.state = "crashed"] = [v EXCEPT !.peer = [v.peer EXCEPT !.state = "crashed"]]
      BY Zenon
    <3> QED BY <1>9, <3>1, <3>2
  <2> HIDE DEF q
  <2> DEFINE u == Drop(w, c)
  <2>3. /\ u \in WalkType(now) /\ u.peer = q /\ u.outgoing = v.outgoing /\ u.sendReliable = v.sendReliable
        /\ u.wrap = v.wrap
    BY <1>9, <2>1, <2>2, WalkWith
  <2> HIDE DEF u
  <2>4. WalkHeld(u) = WalkHeld(v)
    BY <1>9, <2>1, <2>3 DEF WalkHeld, PeerHeld
  <2>5. FirstTimed(u.peer) /\ Dated(WalkHeld(u), u.peer)
    BY <1>9, <1>11, <2>1, <2>3, <2>4 DEF FirstTimed, Dated
  <2>6. u.peer.state # "connected" /\ u.peer.state \in {"connected", "crashed"}
    BY <2>1, <2>3
  <2>7. WalkOrdered(u)
    BY <1>9, <1>b, <2>1, <2>3, <2>4 DEF WalkOrdered, Outs, Rels
  <2>8. Cardinality(WalkHeld(u)) = WalkCount(u)
    <3> DEFINE R == WalkHeld(v)
               D == Members(all)
               m == WalkCount(v)
               l == n + 1
    <3>1. IsFiniteSet(R \cup D) /\ Cardinality(R \cup D) = m + l
      BY <1>c6 DEF Accounted
    <3>2. m \in Nat /\ Cardinality(R) <= m /\ Cardinality(D) <= l /\ l \in Nat
      BY <1>5, <1>c3, <1>c4
    <3> HIDE DEF R, D, m, l
    <3>3. Cardinality(R) = m
      BY <3>1, <3>2, PartFills
    <3>4. WalkCount(u) = WalkCount(v)
      BY <1>9, <2>1, <2>3 DEF WalkCount, PeerCount
    <3> QED BY <2>4, <3>3, <3>4 DEF R, m
  <2>9. WalkGood(u, K)
    BY <2>3, <2>5, <2>6, <2>7, <2>8 DEF WalkGood
  <2> QED BY <1>9, <2>1, <2>3, <2>9 DEF u
<1> QED BY <1>12, <1>13

\* What a walk notes for itself.
NotesAlike(w, x, n) ==
    /\ Alike([w EXCEPT !.wrap = x], w) /\ Alike([w EXCEPT !.canPing = x], w)
    /\ [w EXCEPT !.canPing = x].peer = w.peer /\ [w EXCEPT !.canPing = x].wrap = w.wrap
    /\ [w EXCEPT !.peer.counter = n].wrap = w.wrap
    /\ Alike([w EXCEPT !.peer.counter = n], w)
    /\ Alike([w EXCEPT !.full = TRUE, !.peer.continue = TRUE], w)
    /\ [w EXCEPT !.full = TRUE, !.peer.continue = TRUE].full
    /\ [w EXCEPT !.full = TRUE, !.peer.continue = TRUE].wrap = w.wrap

\* It changes none of this.
LEMMA NotedAlike ==
    ASSUME NEW w \in WalkType(now), NEW x \in BOOLEAN, NEW n \in 0 .. Scale - 1
    PROVE  NotesAlike(w, x, n)
<1> DEFINE p == w.peer
           q == [p EXCEPT !.counter = n]
           r == [p EXCEPT !.continue = TRUE]
           v == [w EXCEPT !.peer = r]
<1>1. p \in PeerType(now)
  BY WalkLists
<1>2. Alike([w EXCEPT !.wrap = x], w)
  BY DEF WalkType, Alike
<1>3. /\ Alike([w EXCEPT !.canPing = x], w) /\ [w EXCEPT !.canPing = x].peer = w.peer
      /\ [w EXCEPT !.canPing = x].wrap = w.wrap
  BY DEF WalkType, Alike
<1>4. [w EXCEPT !.peer.counter = n] = [w EXCEPT !.peer = q]
  BY Zenon
<1>5. [w EXCEPT !.full = TRUE, !.peer.continue = TRUE] = [v EXCEPT !.full = TRUE]
  <2> DEFINE u == [w EXCEPT !.full = TRUE]
  <2>1. u.peer = w.peer
    BY DEF WalkType
  <2>2. [w EXCEPT !.full = TRUE, !.peer.continue = TRUE] = [u EXCEPT !.peer.continue = TRUE]
    BY Zenon
  <2>3. [u EXCEPT !.peer.continue = TRUE] = [u EXCEPT !.peer = [u.peer EXCEPT !.continue = TRUE]]
    BY Zenon
  <2>4. [u EXCEPT !.peer = r] = [v EXCEPT !.full = TRUE]
    <3> HIDE DEF r
    <3> QED BY DEF WalkType
  <2> QED BY <2>1, <2>2, <2>3, <2>4
<1>6. /\ q \in PeerType(now) /\ q.state = p.state /\ q.outgoing = p.outgoing
      /\ q.sendReliable = p.sendReliable /\ q.sent = p.sent /\ q.windows = p.windows
      /\ q.earliest = p.earliest /\ q.totalQueued = p.totalQueued
      /\ q.nextTimeout = p.nextTimeout /\ q.inTransit = p.inTransit /\ q.number = p.number
  <2> HIDE DEF p
  <2> QED BY <1>1 DEF PeerType
<1>7. /\ r \in PeerType(now) /\ r.state = p.state /\ r.outgoing = p.outgoing
      /\ r.sendReliable = p.sendReliable /\ r.sent = p.sent /\ r.windows = p.windows
      /\ r.earliest = p.earliest /\ r.totalQueued = p.totalQueued
      /\ r.nextTimeout = p.nextTimeout /\ r.inTransit = p.inTransit /\ r.number = p.number
  <2> HIDE DEF p
  <2> QED BY <1>1 DEF PeerType
<1> HIDE DEF q, r
<1>8. Alike([w EXCEPT !.peer = q], w) /\ [w EXCEPT !.peer = q].wrap = w.wrap
  BY <1>6, WalkWith DEF Alike
<1>9. v \in WalkType(now) /\ v.peer = r /\ v.outgoing = w.outgoing /\ v.sendReliable = w.sendReliable
      /\ v.wrap = w.wrap
  BY <1>7, WalkWith
<1> HIDE DEF v
<1>10. Alike([v EXCEPT !.full = TRUE], w) /\ [v EXCEPT !.full = TRUE].full
       /\ [v EXCEPT !.full = TRUE].wrap = w.wrap
  <2> DEFINE u == [v EXCEPT !.full = TRUE]
  <2>1. /\ u \in WalkType(now) /\ u.peer = r /\ u.outgoing = w.outgoing
        /\ u.sendReliable = w.sendReliable /\ u.full /\ u.wrap = w.wrap
    BY <1>9 DEF WalkType
  <2> HIDE DEF u
  <2>2. Alike(u, w)
    BY <1>7, <2>1 DEF Alike
  <2> QED BY <2>1, <2>2 DEF u
<1> QED BY <1>2, <1>3, <1>4, <1>5, <1>8, <1>10 DEF NotesAlike

LEMMA SendUnreliableGood ==
    ASSUME NEW w, NEW c, NEW K, InHand(w, c, K), ~ Reliable(c)
    PROVE  /\ WalkGood(SendUnreliable(w, c), K)
           /\ SendUnreliable(w, c).peer.sendReliable = w.peer.sendReliable
           /\ SendUnreliable(w, c).sendReliable = w.sendReliable
           /\ SendUnreliable(w, c).wrap = w.wrap
<1> DEFINE counter == (w.peer.counter + ThrottleStep) % Scale
           v == IF c.first THEN [w EXCEPT !.peer.counter = counter] ELSE w
<1>1. w \in WalkType(now) /\ c \in Commands(now) /\ c \in Outgoings(now)
  BY CommandSets DEF InHand
<1>2. counter \in 0 .. Scale - 1
  <2> DEFINE k == w.peer.counter + ThrottleStep
  <2>1. w.peer.counter \in Nat
    BY <1>1, Sizes DEF WalkType, PeerType
  <2>2. k \in Nat
    BY <2>1, Sizes
  <2> HIDE DEF k
  <2>3. k % Scale \in 0 .. Scale - 1
    BY <2>2, Sizes, DivMod
  <2> QED BY <2>3 DEF k
<1> HIDE DEF counter
<1>3. v = w \/ (Alike(v, w) /\ v.wrap = w.wrap)
  <2> DEFINE x == [w EXCEPT !.peer.counter = counter]
  <2>1. Alike(x, w) /\ x.wrap = w.wrap
    <3>1. TRUE \in BOOLEAN
      OBVIOUS
    <3>2. NotesAlike(w, TRUE, counter)
      BY <1>1, <1>2, <3>1, NotedAlike
    <3> QED BY <3>2 DEF NotesAlike
  <2> HIDE DEF x
  <2>2. v = w \/ v = x
    BY DEF x
  <2> QED BY <2>1, <2>2
<1>4. InHand(v, c, K)
  BY <1>3, AlikeHand
<1>5. SendUnreliable(w, c) \in {Drop(v, c), Put(v, c)}
  BY Zenon DEF SendUnreliable, counter
<1> HIDE DEF v
<1>6. /\ WalkGood(Drop(v, c), K) /\ Drop(v, c).peer.sendReliable = v.peer.sendReliable
      /\ Drop(v, c).sendReliable = v.sendReliable /\ Drop(v, c).wrap = v.wrap
  BY <1>1, <1>4, DropGood
<1>7. v \in WalkType(now)
  BY <1>4 DEF InHand
<1>8. WalkGood(v, K)
  <2> DEFINE R == WalkHeld(v)
             m == WalkCount(v)
             D == {c}
             windows == v.peer.windows
             earliest == v.peer.earliest
  <2>1. m \in Nat /\ Cardinality(R) <= m
    BY <1>7, Places
  <2>2. Accounted(R \cup D, m + 1, windows, earliest, K)
    BY <1>4 DEF InHand
  <2>3. Cardinality(D) <= 1
    BY FS_Singleton
  <2>4. \A d \in D : ~ Reliable(d) /\ d.attempts = 0
    BY <1>1 DEF Commands, Sound, AllCommands
  <2> HIDE DEF R, m, D, windows, earliest
  <2>5. Accounted(R, m, windows, earliest, K)
    BY <2>1, <2>2, <2>3, <2>4, Dropped
  <2>6. Dated(WalkHeld(v), v.peer)
    BY <1>4 DEF InHand, Dated
  <2>7. WalkOrdered(v)
    <3> DEFINE X == v.peer.outgoing
               Y == v.outgoing
               A == Outgoings(now)
               E == <<c>>
               B == WalkHeld(v) \cup {c}
               C == WalkHeld(v)
               M == Rels(v)
               number == v.peer.number
    <3>1. X \in Seq(A) /\ E \in Seq(A) /\ Y \in Seq(A)
      BY <1>1, <1>7, WalkLists, MembersOfOne
    <3>2. HandOuts(v, c) = X \o (E \o Y) /\ HandRels(v, c) = M
      BY DEF HandOuts, HandRels, Queued
    <3>3. Ordered(B, X \o (E \o Y), M, number)
      BY <1>4, <3>2 DEF InHand, HandOrdered
    <3>4. C \in SUBSET B
      OBVIOUS
    <3>5. Outs(v) = X \o Y
      BY DEF Outs
    <3> HIDE DEF X, Y, A, E, B, C, M, number
    <3>6. Ordered(C, X \o Y, M, number)
      BY <3>1, <3>3, <3>4, OrderedOut
    <3> QED BY <3>5, <3>6 DEF WalkOrdered, C, M, number
  <2> QED BY <1>4, <2>5, <2>6, <2>7 DEF InHand, WalkGood, R, m, windows, earliest
<1>9. WalkGood(Put(v, c), K) /\ Alike(Put(v, c), v) /\ Put(v, c).wrap = v.wrap
  BY <1>1, <1>7, <1>8, PutSame, AlikeGood
<1>10. /\ v.peer.sendReliable = w.peer.sendReliable /\ v.sendReliable = w.sendReliable
       /\ v.wrap = w.wrap
  BY <1>3 DEF Alike
<1> QED BY <1>5, <1>6, <1>9, <1>10 DEF Alike

\* One turn of the loop keeps the accounts.
LEMMA CheckCommandGood ==
    ASSUME now \in Nat \ {0}, NEW w, NEW K, WalkGood(w, K), w.peer.state = "connected",
           w.outgoing # << >> \/ w.sendReliable # << >>, ~ w.full, Parted(w)
    PROVE  WalkGood(CheckCommand(w), K) /\ Parted(CheckCommand(w))
<1> DEFINE c == Next1(w)
           v == Take(w)
           u == IF Reliable(c) THEN [v EXCEPT !.canPing = FALSE] ELSE v
           x == [v EXCEPT !.wrap = TRUE]
<1>1. /\ InHand(v, c, K) /\ v.peer = w.peer /\ SameRest(v, w)
      /\ ~ TakesReliable(w) => c \in Outgoings(now)
      /\ w.sendReliable = << >> => v.sendReliable = << >>
      /\ TakesReliable(w) => w.sendReliable # << >>
  BY TakeGood
<1>2. v \in WalkType(now)
  BY <1>1 DEF InHand
<1>3. CheckCommand(w) =
      IF Reliable(c) /\ c.channel \in Channels /\ w.wrap THEN Keep(v, c)
      ELSE IF Reliable(c) /\ c.channel \in Channels /\ WindowWrap(w.peer, c)
           THEN HoldReliable(Keep(x, c))
      ELSE IF Reliable(c) /\ FlowBlocked(w.peer, c) THEN HoldReliable(Keep(v, c))
      ELSE IF ~ Fits(w, c)
           THEN [Keep(u, c) EXCEPT !.full = TRUE, !.peer.continue = TRUE]
      ELSE IF Reliable(c) THEN SendReliable(u, c)
      ELSE SendUnreliable(v, c)
  BY Zenon DEF CheckCommand, Next1
<1> HIDE DEF c, v
<1>a. Queued(c) => w.sendReliable # << >>
  BY <1>1 DEF Outgoings, Queued
<1>b. Reliable(c) /\ c.channel \in Channels => Queued(c)
  <2>1. c \in Commands(now)
    BY <1>1, CommandSets DEF InHand
  <2> QED BY <2>1, Sizes DEF Commands, Sound, Queued
<1>c. Queued(c) => ~ w.wrap /\ w.peer.sendReliable = << >>
  BY <1>a DEF Parted
<1>4. /\ InHand(u, c, K) /\ u.peer = w.peer /\ InHand(x, c, K)
      /\ u.wrap = w.wrap /\ u.sendReliable = v.sendReliable
  <2>1. Scale - 1 \in 0 .. Scale - 1 /\ TRUE \in BOOLEAN /\ FALSE \in BOOLEAN
    BY Sizes
  <2>2. Alike([v EXCEPT !.canPing = FALSE], v) /\ [v EXCEPT !.canPing = FALSE].peer = v.peer
        /\ [v EXCEPT !.canPing = FALSE].wrap = v.wrap
    <3>1. NotesAlike(v, FALSE, Scale - 1)
      BY <1>2, <2>1, NotedAlike
    <3> QED BY <3>1 DEF NotesAlike
  <2>3. Alike(x, v)
    <3>1. NotesAlike(v, TRUE, Scale - 1)
      BY <1>2, <2>1, NotedAlike
    <3> QED BY <3>1 DEF NotesAlike
  <2> HIDE DEF x
  <2>4. InHand(x, c, K) /\ InHand([v EXCEPT !.canPing = FALSE], c, K)
    BY <1>1, <2>2, <2>3, AlikeHand
  <2> QED BY <1>1, <2>2, <2>4 DEF SameRest, Alike
<1> HIDE DEF u, x
<1>5. /\ WalkGood(Keep(v, c), K) /\ WalkGood(Keep(u, c), K) /\ WalkGood(Keep(x, c), K)
      /\ SameRest(Keep(u, c), u) /\ Keep(u, c).sendReliable = u.sendReliable
  BY <1>1, <1>4, KeepGood
<1>6. /\ WalkGood(HoldReliable(Keep(v, c)), K) /\ WalkGood(HoldReliable(Keep(x, c)), K)
      /\ HoldReliable(Keep(v, c)).sendReliable = << >> /\ HoldReliable(Keep(x, c)).sendReliable = << >>
  BY <1>5, HoldGood
<1>7. /\ WalkGood([Keep(u, c) EXCEPT !.full = TRUE, !.peer.continue = TRUE], K)
      /\ Parted([Keep(u, c) EXCEPT !.full = TRUE, !.peer.continue = TRUE])
  <2> DEFINE k == Keep(u, c)
  <2>1. k \in WalkType(now)
    BY <1>5 DEF WalkGood
  <2>2. WalkGood(k, K)
    BY <1>5
  <2> HIDE DEF k
  <2>3. Scale - 1 \in 0 .. Scale - 1 /\ TRUE \in BOOLEAN
    BY Sizes
  <2>4. /\ Alike([k EXCEPT !.full = TRUE, !.peer.continue = TRUE], k)
        /\ [k EXCEPT !.full = TRUE, !.peer.continue = TRUE].full
        /\ [k EXCEPT !.full = TRUE, !.peer.continue = TRUE].wrap = k.wrap
    <3>1. NotesAlike(k, TRUE, Scale - 1)
      BY <2>1, <2>3, NotedAlike
    <3> QED BY <3>1 DEF NotesAlike
  <2>5. WalkGood([k EXCEPT !.full = TRUE, !.peer.continue = TRUE], K)
    BY <2>2, <2>4, AlikeGood
  <2>6. k.wrap => k.sendReliable = << >>
    BY <1>1, <1>4, <1>5 DEF SameRest, Parted, k
  <2> DEFINE l == [k EXCEPT !.full = TRUE, !.peer.continue = TRUE]
  <2>7. l.full /\ l.wrap = k.wrap /\ l.sendReliable = k.sendReliable
    BY <2>4 DEF Alike
  <2> HIDE DEF l
  <2>8. Parted(l)
    BY <2>6, <2>7 DEF Parted
  <2> QED BY <2>5, <2>8 DEF k, l
<1>8. ASSUME Reliable(c), ~ FlowBlocked(w.peer, c),
             c.channel \in Channels => ~ WindowWrap(w.peer, c)
      PROVE  WalkGood(SendReliable(u, c), K) /\ Parted(SendReliable(u, c))
  <2>1. MayGo(u, c)
    BY <1>4, <1>8, <1>c DEF MayGo
  <2> DEFINE y == SendReliable(u, c)
  <2>2. /\ WalkGood(y, K) /\ y.peer.sendReliable = u.peer.sendReliable
        /\ y.sendReliable = u.sendReliable /\ y.wrap = u.wrap
    BY <1>4, <1>8, <2>1, SendReliableGood
  <2> HIDE DEF y
  <2>3. Parted(y)
    BY <1>1, <1>4, <2>2 DEF Parted
  <2> QED BY <2>2, <2>3 DEF y
<1>9. ASSUME ~ Reliable(c)
      PROVE  WalkGood(SendUnreliable(v, c), K) /\ Parted(SendUnreliable(v, c))
  <2> DEFINE y == SendUnreliable(v, c)
  <2>2. /\ WalkGood(y, K) /\ y.peer.sendReliable = v.peer.sendReliable
        /\ y.sendReliable = v.sendReliable /\ y.wrap = v.wrap
    BY <1>1, <1>9, SendUnreliableGood
  <2> HIDE DEF y
  <2>3. Parted(y)
    BY <1>1, <2>2 DEF Parted, SameRest
  <2> QED BY <2>2, <2>3 DEF y
<1>10. \A y : y.sendReliable = << >> => Parted(y)
  BY DEF Parted
<1>11. ~ (Reliable(c) /\ c.channel \in Channels /\ w.wrap)
  BY <1>b, <1>c
<1>12. Parted(HoldReliable(Keep(v, c))) /\ Parted(HoldReliable(Keep(x, c)))
  BY <1>6, <1>10
<1> QED BY <1>3, <1>6, <1>7, <1>8, <1>9, <1>11, <1>12

\* The other commands ahead go back all together.
HoldOutgoing(w) == [w EXCEPT !.peer.outgoing = @ \o w.outgoing, !.outgoing = << >>]

LEMMA HoldOutgoingGood ==
    ASSUME NEW w, NEW K, WalkGood(w, K)
    PROVE  /\ WalkGood(HoldOutgoing(w), K) /\ HoldOutgoing(w).peer.state = w.peer.state
           /\ SameRest(HoldOutgoing(w), w)
           /\ HoldOutgoing(w).sendReliable = w.sendReliable /\ HoldOutgoing(w).outgoing = << >>
<1> DEFINE p == w.peer
           v == HoldOutgoing(w)
           b == p.outgoing \o w.outgoing
           q == [p EXCEPT !.outgoing = b]
           u == [w EXCEPT !.peer = q]
<1>1. w \in WalkType(now)
  BY DEF WalkGood
<1>2. /\ p \in PeerType(now) /\ p.outgoing \in Seq(Outgoings(now))
      /\ p.sendReliable \in Seq(Packeted(now)) /\ w.outgoing \in Seq(Outgoings(now))
      /\ p.sent \in Seq(Sents(now))
  BY <1>1, WalkLists
<1>3. PICK i, j, s, o, r \in Nat : Sized(w, i, j, s, o, r)
  BY <1>1, SizedExists
<1>4. v = [u EXCEPT !.outgoing = << >>]
  BY Zenon DEF HoldOutgoing
<1>5. /\ b \in Seq(Outgoings(now)) /\ Members(b) = Members(p.outgoing) \cup Members(w.outgoing)
      /\ Len(b) = i + o
  <2>1. Len(p.outgoing) = i /\ Len(w.outgoing) = o
    BY <1>3 DEF Sized
  <2>2. /\ b \in Seq(Outgoings(now)) /\ Members(b) = Members(p.outgoing) \cup Members(w.outgoing)
        /\ Len(b) = Len(p.outgoing) + Len(w.outgoing)
    BY <1>2, MembersConcat, ConcatProperties
  <2> HIDE DEF b
  <2> QED BY <2>1, <2>2
<1>a. b = Outs(w)
  BY DEF Outs
<1> HIDE DEF v, b, u
<1>6. /\ q \in PeerType(now) /\ q.outgoing = b /\ q.sendReliable = p.sendReliable /\ q.sent = p.sent
      /\ q.state = p.state /\ q.windows = p.windows /\ q.totalQueued = p.totalQueued
      /\ q.nextTimeout = p.nextTimeout /\ q.earliest = p.earliest /\ q.inTransit = p.inTransit
      /\ q.number = p.number
  <2> HIDE DEF p
  <2> QED BY <1>2, <1>5 DEF PeerType
<1>7. u = [w EXCEPT !.peer = q]
  BY DEF u
<1> HIDE DEF q
<1>8. /\ u \in WalkType(now) /\ u.peer = q /\ u.sendReliable = w.sendReliable /\ SameRest(u, w)
  BY <1>1, <1>6, <1>7, WalkWith DEF SameRest
<1>9. /\ v \in WalkType(now) /\ v.peer = q /\ v.sendReliable = w.sendReliable
      /\ v.outgoing = << >> /\ SameRest(v, w)
  <2>1. << >> \in Seq(Outgoings(now))
    BY EmptySeq
  <2> QED BY <1>4, <1>8, <2>1 DEF WalkType, SameRest
<1>10. WalkHeld(v) = WalkHeld(w)
  BY <1>5, <1>6, <1>9, MembersOfNone DEF WalkHeld, PeerHeld
<1>11. WalkCount(v) = WalkCount(w)
  <2> DEFINE l == i + o
  <2>1. Sized(v, l, j, s, 0, r)
    BY <1>3, <1>5, <1>6, <1>9, MembersOfNone DEF Sized
  <2>2. l \in Nat
    OBVIOUS
  <2> HIDE DEF l
  <2>3. WalkCount(v) = l + j + s + 0 + r
    BY <2>1, <2>2, CountIs
  <2>4. WalkCount(w) = i + j + s + o + r
    BY <1>3, CountIs
  <2> QED BY <2>2, <2>3, <2>4 DEF l
<1>12. FirstTimed(v.peer) /\ Dated(WalkHeld(v), v.peer)
  BY <1>6, <1>9, <1>10 DEF WalkGood, FirstTimed, Dated
<1>13. v.peer.state = "connected" =>
          /\ Accounted(WalkHeld(v), WalkCount(v), v.peer.windows, v.peer.earliest, K)
          /\ Transit(v.peer)
  BY <1>6, <1>9, <1>10, <1>11 DEF WalkGood, Transit
<1>b. WalkOrdered(v)
  <2>1. b \o << >> = b
    BY <1>5, ConcatEmptySeq
  <2>2. Rels(v) = Rels(w) /\ Outs(v) = Outs(w)
    BY <1>6, <1>9, <1>a, <2>1 DEF Rels, Outs
  <2> QED BY <1>6, <1>9, <1>10, <2>2 DEF WalkGood, WalkOrdered
<1>14. WalkGood(v, K)
  <2>1. v.peer.state \in {"connected", "crashed"}
    BY <1>6, <1>9 DEF WalkGood
  <2>2. v.peer.state # "connected" => Cardinality(WalkHeld(v)) = WalkCount(v)
    BY <1>6, <1>9, <1>10, <1>11 DEF WalkGood
  <2> QED BY <1>9, <1>12, <1>13, <1>b, <2>1, <2>2 DEF WalkGood
<1> QED BY <1>6, <1>9, <1>14 DEF v

\* One turn of the loop of CheckOutgoing.
Turn(w) ==
    IF w.full \/ w.peer.state # "connected" \/ w.outgoing \o w.sendReliable = << >>
    THEN w ELSE CheckCommand(w)

LEMMA TurnGood ==
    ASSUME now \in Nat \ {0}, NEW w, NEW K, WalkGood(w, K), Parted(w)
    PROVE  WalkGood(Turn(w), K) /\ Parted(Turn(w))
<1>1. CASE w.full \/ w.peer.state # "connected" \/ w.outgoing \o w.sendReliable = << >>
  BY <1>1 DEF Turn
<1>2. CASE ~ (w.full \/ w.peer.state # "connected" \/ w.outgoing \o w.sendReliable = << >>)
  <2>1. w.outgoing # << >> \/ w.sendReliable # << >>
    <3> SUFFICES ASSUME w.outgoing = << >>, w.sendReliable = << >> PROVE FALSE
      OBVIOUS
    <3>1. << >> \in Seq({}) /\ << >> \o << >> = << >>
      BY EmptySeq, ConcatEmptySeq
    <3> QED BY <1>2, <3>1
  <2> QED BY <1>2, <2>1, CheckCommandGood DEF Turn
<1> QED BY <1>1, <1>2

\* So does the whole loop, and nothing is ahead of it then.
LEMMA CheckOutgoingGood ==
    ASSUME now \in Nat \ {0}, NEW w, NEW K, WalkGood(w, K), Parted(w)
    PROVE  /\ WalkGood(CheckOutgoing(w), K)
           /\ CheckOutgoing(w).outgoing = << >> /\ CheckOutgoing(w).sendReliable = << >>
<1> DEFINE s == w.outgoing \o w.sendReliable
           n == Len(s)
           T == {x \in WalkType(now) : WalkGood(x, K) /\ Parted(x)}
           F == [y \in T \X (1 .. n) |-> Turn(y[1])]
           Value(g, u) == IF u = {} THEN w ELSE Turn(g[u \ {Max(u)}])
           IsFold(g) == g = [u \in SUBSET DOMAIN s |-> Value(g, u)]
           h == CHOOSE g : IsFold(g)
           end == h[DOMAIN s]
<1>1. w \in WalkType(now) /\ w \in T
  BY DEF WalkGood
<1>2. n \in Nat /\ DOMAIN s = 1 .. n
  <2>1. w.outgoing \in Seq(Commands(now)) /\ w.sendReliable \in Seq(Commands(now))
    <3>1. Outgoings(now) \subseteq Commands(now) /\ Packeted(now) \subseteq Commands(now)
      BY CommandSets
    <3>2. w.outgoing \in Seq(Outgoings(now)) /\ w.sendReliable \in Seq(Packeted(now))
      BY <1>1, WalkLists
    <3> QED BY <3>1, <3>2
  <2>2. s \in Seq(Commands(now))
    BY <2>1, ConcatProperties
  <2> HIDE DEF s
  <2> QED BY <2>2, LenProperties
<1>3. CheckOutgoing(w) = HoldReliable(HoldOutgoing(end))
  BY Zenon DEF CheckOutgoing, FoldLeft, MapThenFoldSet, Turn, HoldOutgoing
<1> HIDE DEF s, n
<1>4. ASSUME NEW x \in T PROVE Turn(x) \in T
  <2>1. WalkGood(Turn(x), K) /\ Parted(Turn(x))
    BY TurnGood
  <2> QED BY <2>1 DEF WalkGood
<1> HIDE DEF T
<1>5. F \in Turns(T, n)
  <2>1. ASSUME NEW y \in T \X (1 .. n) PROVE Turn(y[1]) \in T
    BY <1>4
  <2> QED BY <2>1 DEF Turns
<1>6. \A y \in T : \A i \in 1 .. n : F[<<y, i>>] = Turn(y)
  OBVIOUS
<1> HIDE DEF F
<1>7. ASSUME NEW u \in SUBSET (1 .. n), u # {}
      PROVE  Max(u) \in 1 .. n /\ u \ {Max(u)} \in SUBSET (1 .. n)
  BY <1>2, <1>7, LastPosition
<1>8. IsFold(h)
  <2>0. PICK g \in [SUBSET (1 .. n) -> T] : IsFoldOf(g, w, F, n)
    BY <1>1, <1>2, <1>5, FoldsObey, Zenon
  <2>1. \A u \in SUBSET (1 .. n) : g[u] = IF u = {} THEN w ELSE F[<<g[u \ {Max(u)}], Max(u)>>]
    BY <2>0 DEF IsFoldOf
  <2>2. ASSUME NEW u \in SUBSET (1 .. n) PROVE g[u] = Value(g, u)
    <3>1. CASE u = {}
      BY <2>1, <3>1
    <3>2. CASE u # {}
      <4>1. Max(u) \in 1 .. n /\ g[u \ {Max(u)}] \in T
        BY <1>7, <2>1, <3>2
      <4>2. F[<<g[u \ {Max(u)}], Max(u)>>] = Turn(g[u \ {Max(u)}])
        BY <1>6, <4>1
      <4> QED BY <2>1, <3>2, <4>2
    <3> QED BY <3>1, <3>2
  <2>3. IsFold(g)
    <3> HIDE DEF Value
    <3> QED BY <1>2, <2>1, <2>2
  <2> HIDE DEF IsFold
  <2> QED BY <2>3
<1>9. Obeys(h, w, F, T, n)
  <2>1. ASSUME NEW u \in SUBSET (1 .. n) PROVE h[u] = Value(h, u)
    <3> HIDE DEF Value, h
    <3> QED BY <1>2, <1>8
  <2> HIDE DEF h
  <2>2. ASSUME NEW u \in SUBSET (1 .. n), u = {} PROVE h[u] = w
    BY <2>1, <2>2
  <2>3. ASSUME NEW u \in SUBSET (1 .. n), u # {}, h[u \ {Max(u)}] \in T
        PROVE  h[u] = F[<<h[u \ {Max(u)}], Max(u)>>]
    BY <1>6, <1>7, <2>1, <2>3
  <2> QED BY <2>2, <2>3 DEF Obeys
<1> HIDE DEF h, Value, IsFold
<1>10. PICK r \in [0 .. n -> T] : IsRun(r, w, F, n) /\ h[1 .. n] = r[n]
  <2>1. n \in Nat /\ w \in T /\ F \in Turns(T, n) /\ Obeys(h, w, F, T, n)
    BY <1>1, <1>2, <1>5, <1>9
  <2> QED BY <2>1, FoldRuns
<1>11. end \in T
  <2>1. n \in 0 .. n
    BY <1>2
  <2> QED BY <1>2, <1>10, <2>1
<1> HIDE DEF end
<1>12. WalkGood(end, K)
  BY <1>11 DEF T
<1> QED BY <1>3, <1>12, HoldOutgoingGood, HoldGood

-----------------------------------------------------------------------------
(* Timeouts.  After i turns the rest of the sent list is still to come, and *)
(* what was in the other two lists stands behind what is retried.          *)

Rest(L, i) == SubSeq(L, i + 1, Len(L))
CheckedHeld(p, s, i) ==
    PeerHeld(s) \cup Members(p.outgoing) \cup Members(p.sendReliable) \cup Members(Rest(p.sent, i))
CheckedCount(p, s, i) ==
    PeerCount(s) + Len(p.outgoing) + Len(p.sendReliable) + Len(Rest(p.sent, i))

\* What justifies giving the peer up.
Outlived(p) ==
    \E c \in Sent(p) :
        \/ now - c.since >= TimeoutMaximum
        \/ /\ now - c.since >= TimeoutMinimum
           /\ \E d \in ToSet(p.sent) : Backoff(d) >= TimeoutLimit

\* The earliest timeout found so far is no earlier than the first sending of a command.
FirstSent(p, earliest) == \E d \in Sent(p) : d.since <= earliest

\* What is retried stands in front of what was there, in either list.
CheckedOrdered(p, s, i) ==
    /\ s.number = p.number /\ AllRetried(s.outgoing) /\ AllRetried(s.sendReliable)
    /\ Ordered(CheckedHeld(p, s, i), s.outgoing \o p.outgoing, s.sendReliable \o p.sendReliable,
               p.number)

\* After i turns of the loop over the sent list of p, which has made s of it.
Checked(p, s, i, K) ==
    /\ s \in PeerType(now) /\ s.totalQueued = p.totalQueued
    /\ s.state # "connected" => Outlived(p)
    /\ s.state = "connected" =>
          /\ Accounted(CheckedHeld(p, s, i), CheckedCount(p, s, i), p.windows, s.earliest, K)
          /\ Dated(CheckedHeld(p, s, i), p)
          /\ s.windows = p.windows
          /\ s.inTransit = SeqSum(Data, s.sent) + SeqSum(Data, Rest(p.sent, i))
          /\ s.inTransit <= p.inTransit
          /\ FirstTimed(s)
          /\ s.sent = << >> /\ i < Len(p.sent) =>
                s.nextTimeout = p.sent[i + 1].sentTime + p.sent[i + 1].timeout
          /\ s.earliest # Never => FirstSent(p, s.earliest)
          /\ CheckedOrdered(p, s, i)

LEMMA PeerListTypes ==
    ASSUME NEW p \in PeerType(now)
    PROVE  /\ p.outgoing \in Seq(Outgoings(now)) /\ p.sendReliable \in Seq(Packeted(now))
           /\ p.sent \in Seq(Sents(now)) /\ p.sent \in Seq(AllCommands)
           /\ p.totalQueued \in Nat /\ p.nextTimeout \in Nat /\ p.earliest \in Nat
           /\ p.inTransit \in Int /\ p.number \in NumberType
           /\ Len(p.outgoing) \in Nat /\ Len(p.sendReliable) \in Nat /\ Len(p.sent) \in Nat
<1>1. /\ p.outgoing \in Seq(Outgoings(now)) /\ p.sendReliable \in Seq(Packeted(now))
      /\ p.sent \in Seq(Sents(now))
      /\ p.totalQueued \in Nat /\ p.nextTimeout \in Nat /\ p.earliest \in Nat
      /\ p.inTransit \in Int /\ p.number \in NumberType
  BY DEF PeerType, NumberType
<1>2. Len(p.outgoing) \in Nat /\ Len(p.sendReliable) \in Nat /\ Len(p.sent) \in Nat
  BY <1>1, LenProperties
<1>3. p.sent \in Seq(AllCommands)
  <2>1. Sents(now) \subseteq AllCommands
    BY CommandSets
  <2> QED BY <1>1, <2>1
<1> QED BY <1>1, <1>2, <1>3

LEMMA DataType == Data \in [AllCommands -> Int]
  BY DEF Data, AllCommands

\* The lengths of the six lists.
CheckSized(p, s, i, a, b, z, o, r, k) ==
    /\ Len(s.outgoing) = a /\ Len(s.sendReliable) = b /\ Len(s.sent) = z
    /\ Len(p.outgoing) = o /\ Len(p.sendReliable) = r /\ Len(Rest(p.sent, i)) = k

\* What is still to come.
LEMMA RestIs ==
    ASSUME NEW S, NEW L \in Seq(S), NEW i \in 0 .. Len(L)
    PROVE  /\ Rest(L, i) \in Seq(S) /\ Len(Rest(L, i)) = Len(L) - i
           /\ Rest(L, 0) = L
           /\ i = Len(L) => Rest(L, i) = << >>
           /\ i # 0 => Rest(L, i - 1) = <<L[i]>> \o Rest(L, i)
<1> DEFINE l == Len(L)
<1>1. l \in Nat /\ i \in 0 .. l
  BY LenProperties
<1>2. Rest(L, i) \in Seq(S) /\ Len(Rest(L, i)) = l - i
  BY Cut DEF Rest
<1>3. Rest(L, 0) = L
  <2>1. 0 + 1 = 1
    OBVIOUS
  <2>2. SubSeq(L, 1, Len(L)) = L
    BY SubSeqFull
  <2> QED BY <2>1, <2>2 DEF Rest
<1>4. i = l => Rest(L, i) = << >>
  <2> SUFFICES ASSUME i = l PROVE Rest(L, i) = << >>
    OBVIOUS
  <2> HIDE DEF l
  <2>1. i + 1 \in Int /\ l \in Int /\ l < i + 1
    BY <1>1
  <2>2. SubSeq(L, i + 1, l) = << >>
    BY <2>1, SubSeqEmpty
  <2> QED BY <2>2 DEF Rest, l
<1>5. i # 0 => Rest(L, i - 1) = <<L[i]>> \o Rest(L, i)
  <2> SUFFICES ASSUME i # 0 PROVE Rest(L, i - 1) = <<L[i]>> \o Rest(L, i)
    OBVIOUS
  <2> HIDE DEF l
  <2>1. i \in 1 .. l /\ l \in i .. l /\ i - 1 + 1 = i
    BY <1>1
  <2>2. i \in 1 .. Len(L) /\ Len(L) \in i .. Len(L)
    BY <2>1 DEF l
  <2>3. SubSeq(L, i, Len(L)) = <<L[i]>> \o SubSeq(L, i + 1, Len(L))
    BY <2>2, SubSeqRecursiveFirst
  <2> QED BY <2>1, <2>3 DEF Rest
<1> QED BY <1>2, <1>3, <1>4, <1>5

LEMMA CheckedPlaces ==
    ASSUME NEW p \in PeerType(now), NEW s \in PeerType(now), NEW i \in 0 .. Len(p.sent)
    PROVE  /\ IsFiniteSet(CheckedHeld(p, s, i)) /\ CheckedCount(p, s, i) \in Nat
           /\ Cardinality(CheckedHeld(p, s, i)) <= CheckedCount(p, s, i)
<1> DEFINE w == [peer |-> s, outgoing |-> p.outgoing, sendReliable |-> p.sendReliable,
                 wrap |-> FALSE, canPing |-> TRUE, size |-> 0, full |-> FALSE,
                 datagram |-> << >>, dropped |-> << >>]
           A == Rest(p.sent, i)
<1>1. w \in WalkType(now)
  <2>1. << >> \in Seq(Commands(now)) /\ << >> \in Seq(Seq(Outgoings(now)))
    BY EmptySeq
  <2> QED BY <2>1, PeerListTypes DEF WalkType
<1>2. w.peer = s /\ w.outgoing = p.outgoing /\ w.sendReliable = p.sendReliable
  OBVIOUS
<1> HIDE DEF w
<1>3. /\ IsFiniteSet(WalkHeld(w)) /\ WalkCount(w) \in Nat
      /\ Cardinality(WalkHeld(w)) \in Nat /\ Cardinality(WalkHeld(w)) <= WalkCount(w)
  BY <1>1, Places
<1>4. A \in Seq(Sents(now))
  BY PeerListTypes, RestIs
<1>5. CheckedHeld(p, s, i) = WalkHeld(w) \cup Members(A)
  BY <1>2 DEF CheckedHeld, WalkHeld
<1>6. CheckedCount(p, s, i) = WalkCount(w) + Len(A)
  BY <1>2 DEF CheckedCount, WalkCount
<1> HIDE DEF A
<1>7. IsFiniteSet(Members(A)) /\ Cardinality(Members(A)) <= Len(A) /\ Len(A) \in Nat
      /\ Cardinality(Members(A)) \in Nat
  BY <1>4, MembersIn, LenProperties
<1> DEFINE X == WalkHeld(w)
           Y == Members(A)
           m == WalkCount(w)
           n == Len(A)
<1>8. /\ IsFiniteSet(X \cup Y)
      /\ Cardinality(X \cup Y) = Cardinality(X) + Cardinality(Y) - Cardinality(X \cap Y)
  BY <1>3, <1>7, FS_Union
<1>9. Cardinality(X \cap Y) \in Nat
  BY <1>3, FS_Intersection, FS_CardinalityType
<1>10. m \in Nat /\ n \in Nat /\ Cardinality(X) <= m /\ Cardinality(Y) <= n
       /\ Cardinality(X) \in Nat /\ Cardinality(Y) \in Nat
  BY <1>3, <1>7
<1> HIDE DEF X, Y, m, n
<1>11. m + n \in Nat /\ Cardinality(X \cup Y) <= m + n
  BY <1>8, <1>9, <1>10
<1> QED BY <1>5, <1>6, <1>8, <1>11 DEF X, Y, m, n

\* A command as it is retried.
Again(c) == [c EXCEPT !.timeout = 2 * @]

LEMMA AgainIs ==
    ASSUME NEW c \in Sents(now)
    PROVE  /\ Again(c) \in Sents(now) /\ Follows(Again(c), c) /\ Again(c).length = c.length
           /\ HasPacket(Again(c)) = HasPacket(c) /\ Again(c).attempts = c.attempts
           /\ c.attempts > 0 /\ Reliable(c) /\ c.sentTime \in Nat \ {0} /\ c.timeout \in Nat
           /\ c.since \in Nat \ {0} /\ c.since <= c.sentTime /\ c.length \in Nat /\ c \in AllCommands
           /\ ~ HasPacket(c) => c.length = 0
           /\ c.queueTime \in Nat /\ Again(c).queueTime = c.queueTime
<1> DEFINE r == Again(c)
           t == 2 * c.timeout
<1>1. c \in AllCommands /\ Sound(c) /\ c.sentTime <= now /\ c.attempts > 0
  BY DEF Sents, Commands
<1>2. /\ c.timeout \in Nat /\ c.sentTime \in Nat /\ c.since \in Nat /\ c.length \in Nat
      /\ c.queueTime \in Nat /\ c.attempts \in Nat
  BY <1>1 DEF AllCommands
<1>3. Reliable(c) /\ c.timeout > 0 /\ c.since > 0 /\ c.since <= c.sentTime
  BY <1>1 DEF Sound
<1>4. t \in Nat /\ t > 0
  BY <1>2, <1>3
<1>5. r = [c EXCEPT !.timeout = t]
  BY DEF Again
<1> HIDE DEF r, t
<1>6. /\ r \in AllCommands /\ r.kind = c.kind /\ r.channel = c.channel /\ r.number = c.number
      /\ r.queueTime = c.queueTime /\ r.length = c.length /\ r.attempts = c.attempts
      /\ r.timeout = t /\ r.sentTime = c.sentTime /\ r.since = c.since
  BY <1>1, <1>4, <1>5 DEF AllCommands
<1>7. Sound(r)
  BY <1>1, <1>4, <1>6 DEF Sound, Reliable, HasPacket
<1>8. r \in Sents(now)
  BY <1>1, <1>6, <1>7 DEF Sents, Commands
<1>9. Follows(r, c) /\ HasPacket(r) = HasPacket(c)
  BY <1>1, <1>6 DEF Follows, HasPacket
<1> QED BY <1>1, <1>2, <1>3, <1>6, <1>8, <1>9 DEF r, Sound

LEMMA SentLists ==
    ASSUME NEW c \in Sents(now)
    PROVE  /\ HasPacket(c) => c \in Packeted(now)
           /\ ~ HasPacket(c) => c \in Outgoings(now)
  BY DEF Sents, Commands, Sound, Packeted, Outgoings

LEMMA SentAt ==
    ASSUME NEW p \in PeerType(now), NEW i \in 1 .. Len(p.sent)
    PROVE  p.sent[i] \in Sents(now)
  BY PeerListTypes, ElementOfSeq

\* What a retry changes.
LEMMA RetryIs ==
    ASSUME NEW p \in PeerType(now), NEW s \in PeerType(now), NEW i \in 1 .. Len(p.sent)
    PROVE  LET c == p.sent[i]
               v == NextTimeout(Retry([s EXCEPT !.earliest = Earlier(c, s)], c), i, p.sent)
           IN  /\ v \in PeerType(now) /\ v.state = s.state /\ v.sent = s.sent
               /\ v.windows = s.windows /\ v.totalQueued = s.totalQueued /\ v.number = s.number
               /\ v.outgoing = IF HasPacket(c) THEN s.outgoing ELSE Append(s.outgoing, Again(c))
               /\ v.sendReliable = IF HasPacket(c) THEN Append(s.sendReliable, Again(c)) ELSE s.sendReliable
               /\ v.inTransit = s.inTransit - c.length /\ v.earliest = Earlier(c, s)
               /\ v.nextTimeout = IF s.sent = << >> /\ i < Len(p.sent)
                                  THEN p.sent[i + 1].sentTime + p.sent[i + 1].timeout
                                  ELSE s.nextTimeout
<1> DEFINE c == p.sent[i]
           e == Earlier(c, s)
           r == Again(c)
           l == Len(p.sent)
           x == p.sent[i + 1].sentTime + p.sent[i + 1].timeout
           a == Append(s.outgoing, r)
           b == Append(s.sendReliable, r)
           t == s.inTransit - c.length
           u == [s EXCEPT !.earliest = e]
           y == IF HasPacket(c) THEN [s EXCEPT !.earliest = e, !.sendReliable = b, !.inTransit = t]
                ELSE [s EXCEPT !.earliest = e, !.outgoing = a]
           v == NextTimeout(Retry(u, c), i, p.sent)
<1>1. c \in Sents(now) /\ l \in Nat /\ i \in 1 .. l
  BY SentAt, PeerListTypes
<1>2. /\ s.outgoing \in Seq(Outgoings(now)) /\ s.sendReliable \in Seq(Packeted(now))
      /\ s.inTransit \in Int /\ s.earliest \in Nat
  BY PeerListTypes
<1>3. e \in Nat
  BY <1>1, <1>2, AgainIs DEF Earlier
<1>4. t \in Int /\ (~ HasPacket(c) => t = s.inTransit)
  <2> DEFINE z == s.inTransit
             d == c.length
  <2>1. z \in Int /\ d \in Nat /\ (~ HasPacket(c) => d = 0)
    BY <1>1, <1>2, AgainIs
  <2> HIDE DEF z, d
  <2>2. z - d \in Int /\ (~ HasPacket(c) => z - d = z)
    BY <2>1
  <2> QED BY <2>2 DEF z, d
<1>5. /\ HasPacket(c) => b \in Seq(Packeted(now))
      /\ ~ HasPacket(c) => a \in Seq(Outgoings(now))
  <2>1. r \in Sents(now) /\ HasPacket(r) = HasPacket(c)
    BY <1>1, AgainIs
  <2> HIDE DEF r
  <2> QED BY <1>2, <2>1, SentLists, AppendProperties
<1>6. i < l => x \in Nat
  <2> SUFFICES ASSUME i < l PROVE x \in Nat
    OBVIOUS
  <2> DEFINE j == i + 1
  <2>1. j \in 1 .. l
    BY <1>1
  <2> HIDE DEF j
  <2>2. p.sent[j].sentTime \in Nat /\ p.sent[j].timeout \in Nat
    BY <2>1, SentAt, AgainIs
  <2> QED BY <2>2 DEF j
<1>7. Retry(u, c) = y
  <2>1. CASE HasPacket(c)
    <3>1. Retry(u, c) = [u EXCEPT !.sendReliable = Append(@, r), !.inTransit = @ - c.length]
      BY <2>1, Zenon DEF Retry, Again
    <3>2. u.sendReliable = s.sendReliable /\ u.inTransit = s.inTransit
      <4> HIDE DEF e
      <4> QED BY DEF PeerType
    <3>3. Retry(u, c) = [u EXCEPT !.sendReliable = b, !.inTransit = t]
      <4> HIDE DEF u
      <4>1. Retry(u, c) = [u EXCEPT !.sendReliable = Append(u.sendReliable, r), !.inTransit = u.inTransit - c.length]
        BY <3>1, Zenon
      <4> QED BY <3>2, <4>1, Zenon
    <3>4. [u EXCEPT !.sendReliable = b, !.inTransit = t] = [s EXCEPT !.earliest = e, !.sendReliable = b, !.inTransit = t]
      <4> HIDE DEF e, b, t
      <4> QED BY Zenon
    <3> QED BY <2>1, <3>3, <3>4
  <2>2. CASE ~ HasPacket(c)
    <3>1. Retry(u, c) = [u EXCEPT !.outgoing = Append(@, r)]
      BY <2>2, Zenon DEF Retry, Again
    <3>2. u.outgoing = s.outgoing
      <4> HIDE DEF e
      <4> QED BY DEF PeerType
    <3>3. Retry(u, c) = [u EXCEPT !.outgoing = a]
      <4> HIDE DEF u
      <4>1. Retry(u, c) = [u EXCEPT !.outgoing = Append(u.outgoing, r)]
        BY <3>1, Zenon
      <4> QED BY <3>2, <4>1, Zenon
    <3>4. [u EXCEPT !.outgoing = a] = [s EXCEPT !.earliest = e, !.outgoing = a]
      <4> HIDE DEF e, a
      <4> QED BY Zenon
    <3> QED BY <2>2, <3>3, <3>4
  <2> QED BY <2>1, <2>2
<1> HIDE DEF u
<1>8. /\ y \in PeerType(now) /\ y.state = s.state /\ y.sent = s.sent /\ y.windows = s.windows
      /\ y.totalQueued = s.totalQueued /\ y.nextTimeout = s.nextTimeout /\ y.earliest = e
      /\ y.outgoing = IF HasPacket(c) THEN s.outgoing ELSE a
      /\ y.sendReliable = IF HasPacket(c) THEN b ELSE s.sendReliable
      /\ y.inTransit = t /\ y.number = s.number
  <2>1. CASE HasPacket(c)
    <3>1. y = [s EXCEPT !.earliest = e, !.sendReliable = b, !.inTransit = t]
      BY <2>1
    <3> HIDE DEF e, a, b, t, y, c
    <3> QED BY <1>3, <1>4, <1>5, <2>1, <3>1 DEF PeerType
  <2>2. CASE ~ HasPacket(c)
    <3>1. y = [s EXCEPT !.earliest = e, !.outgoing = a]
      BY <2>2
    <3> HIDE DEF e, a, b, t, y, c
    <3> QED BY <1>3, <1>4, <1>5, <2>2, <3>1 DEF PeerType
  <2> QED BY <2>1, <2>2
<1> HIDE DEF y
<1>9. v = IF s.sent = << >> /\ i < l THEN [y EXCEPT !.nextTimeout = x] ELSE y
  BY <1>7, <1>8 DEF NextTimeout
<1>10. /\ v \in PeerType(now) /\ v.state = y.state /\ v.sent = y.sent /\ v.windows = y.windows
       /\ v.totalQueued = y.totalQueued /\ v.earliest = y.earliest /\ v.outgoing = y.outgoing
       /\ v.sendReliable = y.sendReliable /\ v.inTransit = y.inTransit /\ v.number = y.number
       /\ v.nextTimeout = IF s.sent = << >> /\ i < l THEN x ELSE s.nextTimeout
  <2> HIDE DEF v, x, l
  <2> QED BY <1>6, <1>8, <1>9 DEF PeerType
<1> HIDE DEF c, e, r, l, x, a, b, t, v
<1>11. /\ v \in PeerType(now) /\ v.state = s.state /\ v.sent = s.sent
       /\ v.windows = s.windows /\ v.totalQueued = s.totalQueued
       /\ v.outgoing = IF HasPacket(c) THEN s.outgoing ELSE a
       /\ v.sendReliable = IF HasPacket(c) THEN b ELSE s.sendReliable
       /\ v.inTransit = t /\ v.earliest = e /\ v.number = s.number
       /\ v.nextTimeout = IF s.sent = << >> /\ i < l THEN x ELSE s.nextTimeout
  BY <1>8, <1>10
<1> QED BY <1>11, Zenon DEF c, e, r, l, x, a, b, t, u, v

LEMMA CheckTimeoutTyped ==
    ASSUME NEW p \in PeerType(now), NEW s \in PeerType(now), NEW i \in 1 .. Len(p.sent)
    PROVE  CheckTimeout(s, i, p.sent) \in PeerType(now)
<1> DEFINE c == p.sent[i]
           v == NextTimeout(Retry([s EXCEPT !.earliest = Earlier(c, s)], c), i, p.sent)
           a == Append(s.sent, c)
           k == [s EXCEPT !.sent = a]
           o == [s EXCEPT !.state = "timed out"]
<1>1. v \in PeerType(now)
  BY RetryIs
<1>2. k \in PeerType(now)
  <2>1. a \in Seq(Sents(now))
    BY SentAt, PeerListTypes, AppendProperties
  <2> HIDE DEF a
  <2> QED BY <2>1 DEF PeerType
<1>3. o \in PeerType(now)
  <2>1. "timed out" \in States
    BY Zenon DEF States
  <2> DEFINE out == "timed out"
  <2> HIDE DEF out
  <2>2. out \in States
    BY <2>1, Zenon DEF out
  <2>3. [s EXCEPT !.state = out] \in PeerType(now)
    BY <2>2 DEF PeerType
  <2> QED BY <2>3, Zenon DEF out
<1>4. CheckTimeout(s, i, p.sent) \in {s, k, o, v}
  BY Zenon DEF CheckTimeout
<1> HIDE DEF v, k, o
<1> QED BY <1>1, <1>2, <1>3, <1>4

\* The i-th command leaves the rest of the list.
LEMMA RestLess ==
    ASSUME NEW p \in PeerType(now), NEW i \in 1 .. Len(p.sent)
    PROVE  LET c == p.sent[i]
           IN  /\ c \in Sents(now) /\ i \in 0 .. Len(p.sent) /\ i - 1 \in 0 .. Len(p.sent)
               /\ Members(Rest(p.sent, i - 1)) = Members(Rest(p.sent, i)) \cup {c}
               /\ Len(Rest(p.sent, i - 1)) = Len(Rest(p.sent, i)) + 1
               /\ Len(Rest(p.sent, i)) \in Nat
               /\ SeqSum(Data, Rest(p.sent, i - 1)) = c.length + SeqSum(Data, Rest(p.sent, i))
               /\ SeqSum(Data, Rest(p.sent, i)) \in Int
<1> DEFINE L == p.sent
           l == Len(L)
           c == L[i]
           b == Rest(L, i)
           e == <<c>>
<1>1. l \in Nat /\ i \in 1 .. l /\ c \in Sents(now) /\ L \in Seq(AllCommands)
  BY SentAt, PeerListTypes
<1>2. i \in 0 .. l /\ i - 1 \in 0 .. l /\ i # 0
  <2> HIDE DEF l
  <2> QED BY <1>1
<1>3. c \in AllCommands
  BY <1>1, AgainIs
<1>4. b \in Seq(AllCommands) /\ Rest(L, i - 1) = e \o b
  BY <1>1, <1>2, RestIs
<1>5. e \in Seq(AllCommands) /\ Len(e) = 1 /\ Members(e) = {c} /\ SeqSum(Data, e) = Data[c]
  BY <1>3, MembersOfOne, SeqSumOfOne, DataType
<1>6. Data[c] = c.length
  BY <1>3 DEF Data
<1> DEFINE j == i - 1
           d == Rest(L, j)
<1>7. d = e \o b
  BY <1>4
<1> HIDE DEF b, e, c, d
<1>8. Len(b) \in Nat /\ SeqSum(Data, b) \in Int
  BY <1>4, LenProperties, SeqSumType, DataType
<1>9. Members(d) = Members(b) \cup {c} /\ Len(d) = Len(b) + 1
  <2>1. Members(e \o b) = Members(e) \cup Members(b)
    BY <1>4, <1>5, MembersConcat
  <2>2. Len(e \o b) = Len(e) + Len(b)
    BY <1>4, <1>5, ConcatProperties
  <2> QED BY <1>5, <1>7, <1>8, <2>1, <2>2
<1>10. SeqSum(Data, d) = c.length + SeqSum(Data, b)
  BY <1>4, <1>5, <1>6, <1>7, DataType, SeqSumConcat
<1> QED BY <1>1, <1>2, <1>8, <1>9, <1>10 DEF L, l, b, c, d, j

LEMMA SentIs ==
    ASSUME NEW p \in PeerType(now)
    PROVE  /\ \A c \in Sent(p) : c \in Sents(now) /\ c \in PeerHeld(p) /\ c.attempts > 0
           /\ \A c \in Members(p.sent) : c \in Sent(p)
           /\ \A c \in PeerHeld(p) : c.attempts > 0 => c \in Sent(p)
           /\ PeerHeld(p) \subseteq Commands(now) /\ PeerHeld(p) \subseteq AllCommands
<1>1. /\ Members(p.outgoing) \subseteq Outgoings(now) /\ Members(p.sendReliable) \subseteq Packeted(now)
      /\ Members(p.sent) \subseteq Sents(now)
  BY PeerListTypes, MembersIn
<1>2. PeerHeld(p) \subseteq Commands(now) /\ PeerHeld(p) \subseteq AllCommands
  BY <1>1, CommandSets DEF PeerHeld
<1>3. Sent(p) = Members(p.sent) \cup {c \in Members(p.outgoing) \cup Members(p.sendReliable) : c.attempts > 0}
  BY DEF Sent, ToSet, Members
<1>4. \A c \in Members(p.sent) : c.attempts > 0
  BY <1>1 DEF Sents
<1> QED BY <1>1, <1>2, <1>3, <1>4 DEF PeerHeld, Sents

\* A timeout counts from the first sending of some command.
LEMMA EarlierSent ==
    ASSUME NEW p \in PeerType(now), NEW s \in PeerType(now), NEW i \in 1 .. Len(p.sent),
           s.earliest # Never => FirstSent(p, s.earliest)
    PROVE  LET c == p.sent[i]
               e == Earlier(c, s)
           IN  /\ e \in Nat \ {0} /\ FirstSent(p, e)
               /\ (e = s.earliest /\ e # Never) \/ e = c.sentTime
<1> DEFINE c == p.sent[i]
           e == Earlier(c, s)
<1>1. c \in Sents(now) /\ c \in Members(p.sent)
  BY SentAt, PeerListTypes DEF Members
<1>2. c \in Sent(p) /\ c.since <= c.sentTime /\ c.sentTime \in Nat \ {0}
  BY <1>1, SentIs, AgainIs
<1>3. s.earliest \in Nat
  BY PeerListTypes
<1>4. (e = s.earliest /\ e # Never) \/ e = c.sentTime
  BY DEF Earlier
<1> HIDE DEF e
<1>5. e \in Nat \ {0}
  BY <1>2, <1>3, <1>4 DEF Never
<1>6. FirstSent(p, e)
  BY <1>2, <1>4 DEF FirstSent
<1> QED BY <1>4, <1>5, <1>6 DEF e

\* Giving up is justified.
LEMMA GivesUpOutlived ==
    ASSUME now \in Nat, setting \in Settings,
           NEW p \in PeerType(now), NEW s \in PeerType(now), NEW i \in 1 .. Len(p.sent),
           s.earliest # Never => FirstSent(p, s.earliest),
           GivesUp(p.sent[i], Earlier(p.sent[i], s))
    PROVE  Outlived(p)
<1> DEFINE c == p.sent[i]
           e == Earlier(c, s)
<1>1. e \in Nat \ {0} /\ FirstSent(p, e)
  BY EarlierSent
<1>2. PICK d \in Sent(p) : d.since <= e
  BY <1>1 DEF FirstSent
<1>3. d.since \in Nat
  BY SentIs, AgainIs
<1>4. TimeoutMaximum \in Nat /\ TimeoutMinimum \in Nat
  BY SettingsAssumption DEF TimeoutMaximum, TimeoutMinimum
<1>5. \/ now - e >= TimeoutMaximum
      \/ Backoff(c) >= TimeoutLimit /\ now - e >= TimeoutMinimum
  BY DEF GivesUp
<1>6. c \in ToSet(p.sent)
  <2>1. DOMAIN p.sent = 1 .. Len(p.sent)
    BY PeerListTypes, LenProperties
  <2> QED BY <2>1 DEF ToSet
<1> HIDE DEF e, c
<1>7. CASE now - e >= TimeoutMaximum
  <2>1. now - d.since >= TimeoutMaximum
    BY <1>1, <1>2, <1>3, <1>4, <1>7
  <2> QED BY <2>1 DEF Outlived
<1>8. CASE Backoff(c) >= TimeoutLimit /\ now - e >= TimeoutMinimum
  <2>1. now - d.since >= TimeoutMinimum
    BY <1>1, <1>2, <1>3, <1>4, <1>8
  <2> QED BY <1>6, <1>8, <2>1 DEF Outlived
<1> QED BY <1>5, <1>7, <1>8

\* A command whose time has not come stays in the sent list.
LEMMA CheckedKept ==
    ASSUME NEW p \in PeerType(now), NEW s, NEW i \in 1 .. Len(p.sent), NEW K,
           Checked(p, s, i - 1, K), s.state = "connected"
    PROVE  Checked(p, [s EXCEPT !.sent = Append(@, p.sent[i])], i, K)
<1> DEFINE c == p.sent[i]
           a == Append(s.sent, c)
           v == [s EXCEPT !.sent = a]
           j == i - 1
<1>1. s \in PeerType(now) /\ c \in Sents(now) /\ c \in AllCommands
  BY SentAt, AgainIs DEF Checked
<1>2. /\ s.sent \in Seq(Sents(now)) /\ s.sent \in Seq(AllCommands) /\ Len(s.sent) \in Nat
      /\ s.inTransit \in Int
  BY <1>1, PeerListTypes
<1>3. /\ a \in Seq(Sents(now)) /\ Len(a) = Len(s.sent) + 1 /\ Members(a) = Members(s.sent) \cup {c}
      /\ a # << >>
      /\ Head(a) = IF s.sent = << >> THEN c ELSE Head(s.sent)
  BY <1>1, <1>2, AppendedTo
<1>4. SeqSum(Data, a) = SeqSum(Data, s.sent) + c.length
  <2>1. Data[c] = c.length
    BY <1>1 DEF Data
  <2>2. SeqSum(Data, a) = SeqSum(Data, s.sent) + Data[c]
    BY <1>1, <1>2, SeqSumAppend, DataType
  <2> QED BY <2>1, <2>2
<1> HIDE DEF a
<1>5. /\ v \in PeerType(now) /\ v.sent = a /\ v.outgoing = s.outgoing /\ v.sendReliable = s.sendReliable
      /\ v.state = s.state /\ v.totalQueued = s.totalQueued /\ v.windows = s.windows
      /\ v.inTransit = s.inTransit /\ v.nextTimeout = s.nextTimeout /\ v.earliest = s.earliest
      /\ v.number = s.number
  BY <1>1, <1>3 DEF PeerType
<1>6. /\ i \in 0 .. Len(p.sent) /\ j \in 0 .. Len(p.sent)
      /\ Members(Rest(p.sent, j)) = Members(Rest(p.sent, i)) \cup {c}
      /\ Len(Rest(p.sent, j)) = Len(Rest(p.sent, i)) + 1
      /\ Len(Rest(p.sent, i)) \in Nat
      /\ SeqSum(Data, Rest(p.sent, j)) = c.length + SeqSum(Data, Rest(p.sent, i))
      /\ SeqSum(Data, Rest(p.sent, i)) \in Int
  BY RestLess
<1>7. v = [s EXCEPT !.sent = Append(@, p.sent[i])]
  BY DEF a
<1>8. /\ Accounted(CheckedHeld(p, s, j), CheckedCount(p, s, j), p.windows, s.earliest, K)
      /\ Dated(CheckedHeld(p, s, j), p) /\ s.windows = p.windows
      /\ s.inTransit = SeqSum(Data, s.sent) + SeqSum(Data, Rest(p.sent, j))
      /\ s.inTransit <= p.inTransit /\ FirstTimed(s)
      /\ s.sent = << >> /\ j < Len(p.sent) =>
            s.nextTimeout = p.sent[j + 1].sentTime + p.sent[j + 1].timeout
      /\ s.earliest # Never => FirstSent(p, s.earliest)
      /\ s.totalQueued = p.totalQueued /\ CheckedOrdered(p, s, j)
  BY DEF Checked
<1>9. j < Len(p.sent) /\ j + 1 = i
  <2> DEFINE l == Len(p.sent)
  <2>1. l \in Nat /\ i \in 1 .. l
    BY PeerListTypes
  <2> HIDE DEF l
  <2>2. j < l /\ j + 1 = i
    BY <2>1
  <2> QED BY <2>2 DEF l
<1> HIDE DEF v, j
<1>10. CheckedHeld(p, v, i) = CheckedHeld(p, s, j)
  BY <1>3, <1>5, <1>6 DEF CheckedHeld, PeerHeld
<1>11. CheckedCount(p, v, i) = CheckedCount(p, s, j)
  <2> DEFINE x == Len(s.outgoing)
             b == Len(s.sendReliable)
             z == Len(s.sent)
             o == Len(p.outgoing)
             r == Len(p.sendReliable)
             k == Len(Rest(p.sent, i))
             z1 == z + 1
             k1 == k + 1
  <2>1. x \in Nat /\ b \in Nat /\ z \in Nat /\ o \in Nat /\ r \in Nat /\ k \in Nat
    BY <1>1, <1>6, PeerListTypes
  <2>2. CheckSized(p, s, j, x, b, z, o, r, k1) /\ CheckSized(p, v, i, x, b, z1, o, r, k)
    BY <1>3, <1>5, <1>6 DEF CheckSized
  <2> HIDE DEF x, b, z, o, r, k
  <2>3. z1 \in Nat /\ k1 \in Nat
    BY <2>1
  <2> HIDE DEF z1, k1
  <2>4. CheckedCount(p, s, j) = x + b + z + o + r + k1
    BY <2>2, Zenon DEF CheckSized, CheckedCount, PeerCount
  <2>5. CheckedCount(p, v, i) = x + b + z1 + o + r + k
    BY <2>2, Zenon DEF CheckSized, CheckedCount, PeerCount
  <2> QED BY <2>1, <2>4, <2>5 DEF z1, k1
<1>12. FirstTimed(v)
  BY <1>3, <1>5, <1>8, <1>9 DEF FirstTimed
<1>13. v.inTransit = SeqSum(Data, v.sent) + SeqSum(Data, Rest(p.sent, i))
  <2> DEFINE x == SeqSum(Data, s.sent)
             y == SeqSum(Data, Rest(p.sent, i))
             d == c.length
  <2>1. x \in Int /\ y \in Int /\ d \in Int
    <3>1. x \in Int
      BY <1>2, SeqSumType, DataType
    <3>2. y \in Int
      BY <1>6
    <3>3. d \in Nat
      BY <1>1, AgainIs
    <3> HIDE DEF x, y, d
    <3> QED BY <3>1, <3>2, <3>3
  <2>2. v.inTransit = x + (d + y) /\ SeqSum(Data, v.sent) = x + d
    BY <1>4, <1>5, <1>6, <1>8
  <2> HIDE DEF x, y, d
  <2>3. v.inTransit = SeqSum(Data, v.sent) + y
    BY <2>1, <2>2
  <2> QED BY <2>3 DEF y
<1>14. v.sent # << >>
  BY <1>3, <1>5
<1>a. CheckedOrdered(p, v, i)
  BY <1>5, <1>8, <1>10 DEF CheckedOrdered
<1>15. Checked(p, v, i, K)
  BY <1>5, <1>8, <1>10, <1>11, <1>12, <1>13, <1>14, <1>a DEF Checked
<1> QED BY <1>7, <1>15

\* A command whose time has come waits to be sent once more.
LEMMA CheckedRetried ==
    ASSUME NEW p \in PeerType(now), NEW s, NEW i \in 1 .. Len(p.sent), NEW K,
           Checked(p, s, i - 1, K), s.state = "connected"
    PROVE  LET c == p.sent[i]
           IN  Checked(p, NextTimeout(Retry([s EXCEPT !.earliest = Earlier(c, s)], c), i, p.sent), i, K)
<1> DEFINE c == p.sent[i]
           r == Again(c)
           e == Earlier(c, s)
           v == NextTimeout(Retry([s EXCEPT !.earliest = Earlier(c, s)], c), i, p.sent)
           a == IF HasPacket(c) THEN s.outgoing ELSE Append(s.outgoing, r)
           b == IF HasPacket(c) THEN Append(s.sendReliable, r) ELSE s.sendReliable
           j == i - 1
           l == Len(p.sent)
<1>1. s \in PeerType(now) /\ c \in Sents(now) /\ c \in AllCommands
  BY SentAt, AgainIs DEF Checked
<1>2. /\ v \in PeerType(now) /\ v.state = s.state /\ v.sent = s.sent
      /\ v.windows = s.windows /\ v.totalQueued = s.totalQueued /\ v.number = s.number
      /\ v.outgoing = a /\ v.sendReliable = b
      /\ v.inTransit = s.inTransit - c.length /\ v.earliest = e
      /\ v.nextTimeout = IF s.sent = << >> /\ i < l
                         THEN p.sent[i + 1].sentTime + p.sent[i + 1].timeout
                         ELSE s.nextTimeout
  BY <1>1, RetryIs
<1>3. /\ r \in Sents(now) /\ Follows(r, c) /\ HasPacket(r) = HasPacket(c)
      /\ c.attempts > 0 /\ r.attempts > 0 /\ r.since = c.since /\ c.since <= c.sentTime
      /\ r.queueTime = c.queueTime /\ c.length \in Nat
      /\ HasPacket(c) => r \in Packeted(now)
      /\ ~ HasPacket(c) => r \in Outgoings(now)
  BY <1>1, AgainIs, SentLists DEF Follows
<1>4. /\ i \in 0 .. Len(p.sent) /\ j \in 0 .. Len(p.sent)
      /\ Members(Rest(p.sent, j)) = Members(Rest(p.sent, i)) \cup {c}
      /\ Len(Rest(p.sent, j)) = Len(Rest(p.sent, i)) + 1
      /\ Len(Rest(p.sent, i)) \in Nat
      /\ SeqSum(Data, Rest(p.sent, j)) = c.length + SeqSum(Data, Rest(p.sent, i))
      /\ SeqSum(Data, Rest(p.sent, i)) \in Int
  BY RestLess
<1>5. /\ Accounted(CheckedHeld(p, s, j), CheckedCount(p, s, j), p.windows, s.earliest, K)
      /\ Dated(CheckedHeld(p, s, j), p) /\ s.windows = p.windows
      /\ s.inTransit = SeqSum(Data, s.sent) + SeqSum(Data, Rest(p.sent, j))
      /\ s.inTransit <= p.inTransit /\ FirstTimed(s)
      /\ s.earliest # Never => FirstSent(p, s.earliest)
      /\ s.totalQueued = p.totalQueued /\ CheckedOrdered(p, s, j)
  BY DEF Checked
<1>6. /\ s.outgoing \in Seq(Outgoings(now)) /\ s.sendReliable \in Seq(Packeted(now))
      /\ s.sent \in Seq(AllCommands) /\ s.inTransit \in Int /\ p.inTransit \in Int
      /\ Len(s.outgoing) \in Nat /\ Len(s.sendReliable) \in Nat /\ Len(s.sent) \in Nat
  BY <1>1, PeerListTypes
<1>7. e \in Nat \ {0} /\ FirstSent(p, e) /\ ((e = s.earliest /\ e # Never) \/ e = c.sentTime)
  BY <1>1, <1>5, EarlierSent
<1> HIDE DEF v, e, r, c
<1>8. /\ Members(a) \cup Members(b) = Members(s.outgoing) \cup Members(s.sendReliable) \cup {r}
      /\ \/ Len(a) = Len(s.outgoing) + 1 /\ Len(b) = Len(s.sendReliable)
         \/ Len(a) = Len(s.outgoing) /\ Len(b) = Len(s.sendReliable) + 1
  <2>1. CASE HasPacket(c)
    <3>1. /\ Len(Append(s.sendReliable, r)) = Len(s.sendReliable) + 1
          /\ Members(Append(s.sendReliable, r)) = Members(s.sendReliable) \cup {r}
      BY <1>3, <1>6, <2>1, MembersAppend
    <3>2. a = s.outgoing /\ b = Append(s.sendReliable, r)
      BY <2>1
    <3> HIDE DEF a, b
    <3> QED BY <3>1, <3>2
  <2>2. CASE ~ HasPacket(c)
    <3>1. /\ Len(Append(s.outgoing, r)) = Len(s.outgoing) + 1
          /\ Members(Append(s.outgoing, r)) = Members(s.outgoing) \cup {r}
      BY <1>3, <1>6, <2>2, MembersAppend
    <3>2. b = s.sendReliable /\ a = Append(s.outgoing, r)
      BY <2>2
    <3> HIDE DEF a, b
    <3> QED BY <3>1, <3>2
  <2> QED BY <2>1, <2>2
<1>a. /\ HasPacket(c) => a = s.outgoing /\ b = Append(s.sendReliable, r)
      /\ ~ HasPacket(c) => a = Append(s.outgoing, r) /\ b = s.sendReliable
  OBVIOUS
<1> HIDE DEF a, b
<1> DEFINE R == CheckedHeld(p, s, i)
           m == CheckedCount(p, s, i)
<1>9. CheckedHeld(p, s, j) = R \cup {c} /\ CheckedHeld(p, v, i) = R \cup {r}
  BY <1>2, <1>4, <1>8 DEF CheckedHeld, PeerHeld
<1>10. CheckedCount(p, s, j) = m + 1 /\ CheckedCount(p, v, i) = m + 1
  <2> DEFINE x == Len(s.outgoing)
             y == Len(s.sendReliable)
             z == Len(s.sent)
             o == Len(p.outgoing)
             q == Len(p.sendReliable)
             k == Len(Rest(p.sent, i))
             x1 == Len(v.outgoing)
             y1 == Len(v.sendReliable)
             k1 == Len(Rest(p.sent, j))
  <2>1. x \in Nat /\ y \in Nat /\ z \in Nat /\ o \in Nat /\ q \in Nat /\ k \in Nat
    BY <1>4, <1>6, PeerListTypes
  <2>2. k1 = k + 1 /\ ((x1 = x + 1 /\ y1 = y) \/ (x1 = x /\ y1 = y + 1))
    <3>1. k1 = k + 1
      BY <1>4
    <3>3. x1 = Len(a) /\ y1 = Len(b)
      BY <1>2
    <3>4. (Len(a) = x + 1 /\ Len(b) = y) \/ (Len(a) = x /\ Len(b) = y + 1)
      BY <1>8
    <3> HIDE DEF x, y, z, k, x1, y1, k1
    <3> QED BY <3>1, <3>3, <3>4
  <2>3. m = x + y + z + o + q + k
    BY Zenon DEF CheckedCount, PeerCount
  <2>4. CheckedCount(p, s, j) = x + y + z + o + q + k1
    BY Zenon DEF CheckedCount, PeerCount
  <2>5. CheckedCount(p, v, i) = x1 + y1 + z + o + q + k
    BY <1>2, Zenon DEF CheckedCount, PeerCount
  <2> DEFINE c1 == CheckedCount(p, s, j)
             c2 == CheckedCount(p, v, i)
  <2> HIDE DEF x, y, z, o, q, k, x1, y1, k1, m, c1, c2
  <2>6. c1 = m + 1 /\ c2 = m + 1
    <3>1. c1 = x + y + z + o + q + k1 /\ c2 = x1 + y1 + z + o + q + k
      BY <2>4, <2>5 DEF c1, c2
    <3>2. /\ x + y + z + o + q + (k + 1) = (x + y + z + o + q + k) + 1
          /\ (x + 1) + y + z + o + q + k = (x + y + z + o + q + k) + 1
          /\ x + (y + 1) + z + o + q + k = (x + y + z + o + q + k) + 1
      BY <2>1
    <3>3. CASE x1 = x + 1 /\ y1 = y
      BY <2>2, <2>3, <3>1, <3>2, <3>3, Zenon
    <3>4. CASE x1 = x /\ y1 = y + 1
      BY <2>2, <2>3, <3>1, <3>2, <3>4, Zenon
    <3> QED BY <2>2, <3>3, <3>4, Zenon
  <2> QED BY <2>6 DEF c1, c2
<1>11. m \in Nat /\ Cardinality(R) <= m
  BY <1>1, <1>4, CheckedPlaces
<1> HIDE DEF R, m
<1>12. Accounted(R \cup {r}, m + 1, p.windows, s.earliest, K)
  <2>1. Accounted(R \cup {c}, m + 1, p.windows, s.earliest, K)
    BY <1>5, <1>9, <1>10
  <2>2. \A ch \in Channels : \A k \in 0 .. Windows - 1 :
           p.windows[ch][k] = IF First(r, c, ch, k) THEN p.windows[ch][k] + 1 ELSE p.windows[ch][k]
    BY <1>1, <1>3 DEF First, AllCommands
  <2> QED BY <1>3, <1>11, <2>1, <2>2, Swapped
<1>13. Accounted(CheckedHeld(p, v, i), CheckedCount(p, v, i), p.windows, v.earliest, K)
  <2>1. e # Never => \E d \in R \cup {r} : d.attempts > 0 /\ d.since <= e
    <3>1. CASE e = s.earliest /\ e # Never
      BY <1>12, <3>1 DEF Accounted
    <3>2. CASE e = c.sentTime
      BY <1>3, <3>2
    <3> QED BY <1>7, <3>1, <3>2
  <2>2. Accounted(R \cup {r}, m + 1, p.windows, e, K)
    BY <1>12, <2>1 DEF Accounted
  <2> QED BY <1>2, <1>9, <1>10, <2>2
<1>14. Dated(CheckedHeld(p, v, i), p)
  BY <1>3, <1>5, <1>9 DEF Dated
<1>15. /\ v.inTransit = SeqSum(Data, v.sent) + SeqSum(Data, Rest(p.sent, i))
       /\ v.inTransit <= p.inTransit
  <2> DEFINE x == SeqSum(Data, s.sent)
             y == SeqSum(Data, Rest(p.sent, i))
             d == c.length
             t == s.inTransit
             t0 == p.inTransit
  <2>1. x \in Int /\ y \in Int /\ d \in Nat /\ t \in Int /\ t0 \in Int
    <3>1. x \in Int
      BY <1>6, SeqSumType, DataType
    <3>2. y \in Int /\ d \in Nat /\ t \in Int /\ t0 \in Int
      BY <1>3, <1>4, <1>6
    <3> HIDE DEF x, y, d, t, t0
    <3> QED BY <3>1, <3>2
  <2>2. t = x + (d + y) /\ v.inTransit = t - d /\ t <= t0
    BY <1>2, <1>4, <1>5
  <2> HIDE DEF x, y, d, t, t0
  <2>3. v.inTransit = x + y /\ v.inTransit <= t0
    BY <2>1, <2>2
  <2> QED BY <1>2, <2>3 DEF x, y, t0
<1>16. FirstTimed(v)
  BY <1>2, <1>5 DEF FirstTimed
<1>17. v.sent = << >> /\ i < l => v.nextTimeout = p.sent[i + 1].sentTime + p.sent[i + 1].timeout
  BY <1>2
<1>b. CheckedOrdered(p, v, i)
  <2> DEFINE X == s.outgoing
             Y == p.outgoing
             A == Outgoings(now)
             B == Packeted(now)
             G == s.sendReliable
             H == p.sendReliable
             C == R \cup {r}
             number == p.number
  <2>1. /\ X \in Seq(A) /\ Y \in Seq(A) /\ G \in Seq(B) /\ H \in Seq(B)
        /\ number \in NumberType
    BY <1>1, PeerListTypes
  <2>2. c \notin R
    <3>1. Accounted(R \cup {c}, m + 1, p.windows, s.earliest, K)
      BY <1>5, <1>9, <1>10
    <3> QED BY <1>11, <3>1, TakenApart
  <2>3. /\ Ordered(R \cup {c}, X \o Y, G \o H, number) /\ s.number = number
        /\ AllRetried(X) /\ AllRetried(G)
    BY <1>5, <1>9 DEF CheckedOrdered
  <2>4. v.outgoing = a /\ v.sendReliable = b /\ v.number = s.number
    BY <1>2
  <2>5. CheckedHeld(p, v, i) = C
    BY <1>9
  <2>6. /\ HasPacket(c) => a = X /\ b = Append(G, r)
        /\ ~ HasPacket(c) => a = Append(X, r) /\ b = G
    BY <1>a
  <2>7. /\ HasPacket(c) => r \in B
        /\ ~ HasPacket(c) => r \in A
    BY <1>3
  <2> HIDE DEF X, Y, A, B, G, H, number, C
  <2>8. Ordered(C, X \o Y, G \o H, number)
    BY <1>3, <2>2, <2>3, OrderedSwap DEF C
  <2>9. CASE HasPacket(c)
    <3>1. Ordered(C, X \o Y, G \o (<<r>> \o H), number)
      BY <1>3, <2>1, <2>3, <2>7, <2>8, <2>9, OrderedWith
    <3>2. Append(G, r) \o H = G \o (<<r>> \o H)
      <4>1. r \in B /\ G \in Seq(B) /\ H \in Seq(B)
        BY <2>1, <2>7, <2>9
      <4> QED BY <4>1, AppendJoined
    <3>3. AllRetried(Append(G, r))
      <4>1. Members(Append(G, r)) = Members(G) \cup {r}
        BY <2>1, <2>7, <2>9, MembersAppend
      <4> QED BY <1>3, <2>3, <4>1 DEF AllRetried
    <3>4. Ordered(C, a \o Y, b \o H, number) /\ AllRetried(a) /\ AllRetried(b)
      BY <2>3, <2>6, <2>9, <3>1, <3>2, <3>3
    <3> QED BY <2>3, <2>4, <2>5, <3>4 DEF CheckedOrdered, Y, H, number
  <2>10. CASE ~ HasPacket(c)
    <3>1. RetriedFirst(X \o (<<r>> \o Y))
      <4>1. RetriedFirst(X \o Y)
        BY <2>8 DEF Ordered
      <4> QED BY <1>3, <2>1, <2>3, <2>7, <2>10, <4>1, RetriedWith
    <3>2. Append(X, r) \o Y = X \o (<<r>> \o Y)
      <4>1. r \in A /\ X \in Seq(A) /\ Y \in Seq(A)
        BY <2>1, <2>7, <2>10
      <4> QED BY <4>1, AppendJoined
    <3>3. AllRetried(Append(X, r))
      <4>1. Members(Append(X, r)) = Members(X) \cup {r}
        BY <2>1, <2>7, <2>10, MembersAppend
      <4> QED BY <1>3, <2>3, <4>1 DEF AllRetried
    <3>4. RetriedFirst(a \o Y) /\ AllRetried(a) /\ AllRetried(b)
      BY <2>3, <2>6, <2>10, <3>1, <3>2, <3>3
    <3>5. Ordered(C, a \o Y, G \o H, number)
      BY <2>8, <3>4, OrderedLess
    <3>6. b = G
      BY <2>6, <2>10
    <3> QED BY <2>3, <2>4, <2>5, <3>4, <3>5, <3>6 DEF CheckedOrdered, Y, H, number
  <2> QED BY <2>9, <2>10
<1>18. Checked(p, v, i, K)
  BY <1>2, <1>5, <1>7, <1>13, <1>14, <1>15, <1>16, <1>17, <1>b DEF Checked
<1> QED BY <1>18 DEF v, c

\* One turn of the loop.
LEMMA CheckedTurn ==
    ASSUME now \in Nat, setting \in Settings,
           NEW p \in PeerType(now), NEW s, NEW i \in 1 .. Len(p.sent), NEW K,
           Checked(p, s, i - 1, K)
    PROVE  Checked(p, CheckTimeout(s, i, p.sent), i, K)
<1> DEFINE c == p.sent[i]
           v == NextTimeout(Retry([s EXCEPT !.earliest = Earlier(c, s)], c), i, p.sent)
           k == [s EXCEPT !.sent = Append(@, c)]
           o == [s EXCEPT !.state = "timed out"]
<1>1. s \in PeerType(now)
  BY DEF Checked
<1>2. CheckTimeout(s, i, p.sent) =
         IF s.state # "connected" THEN s
         ELSE IF ~ Expired(c) THEN k
         ELSE IF GivesUp(c, Earlier(c, s)) THEN o ELSE v
  BY Zenon DEF CheckTimeout
<1>3. s.state = "connected" => Checked(p, k, i, K) /\ Checked(p, v, i, K)
  BY CheckedKept, CheckedRetried
<1>4. s.state # "connected" => Checked(p, s, i, K)
  BY DEF Checked
<1>5. s.state = "connected" /\ GivesUp(c, Earlier(c, s)) => Checked(p, o, i, K)
  <2> SUFFICES ASSUME s.state = "connected", GivesUp(c, Earlier(c, s)) PROVE Checked(p, o, i, K)
    OBVIOUS
  <2>1. Outlived(p)
    <3>1. s.earliest # Never => FirstSent(p, s.earliest)
      BY DEF Checked
    <3> QED BY <1>1, <3>1, GivesUpOutlived
  <2> DEFINE out == "timed out"
  <2>2. out \in States /\ out # "connected"
    BY Zenon DEF States
  <2>3. o = [s EXCEPT !.state = out]
    BY Zenon
  <2> HIDE DEF out, o
  <2>4. o \in PeerType(now) /\ o.state # "connected" /\ o.totalQueued = s.totalQueued
    BY <1>1, <2>2, <2>3 DEF PeerType
  <2>5. s.totalQueued = p.totalQueued
    BY DEF Checked
  <2> QED BY <2>1, <2>4, <2>5 DEF Checked
<1> HIDE DEF v, k, o, c
<1> QED BY <1>2, <1>3, <1>4, <1>5

\* What is true of a peer between two actions.
PeerOrdered(p) == Ordered(PeerHeld(p), p.outgoing, p.sendReliable, p.number)

PeerGood(p, K) ==
    /\ p \in PeerType(now) /\ FirstTimed(p) /\ Dated(PeerHeld(p), p) /\ PeerOrdered(p)
    /\ p.state = "connected" =>
          /\ Accounted(PeerHeld(p), PeerCount(p), p.windows, p.earliest, K)
          /\ Transit(p)
    /\ p.state # "connected" => Cardinality(PeerHeld(p)) = PeerCount(p)

LEMMA WalkDone ==
    ASSUME NEW w, NEW K, WalkGood(w, K), w.outgoing = << >>, w.sendReliable = << >>
    PROVE  PeerGood(w.peer, K)
<1> DEFINE p == w.peer
<1>1. p \in PeerType(now)
  BY WalkLists DEF WalkGood
<1>2. WalkHeld(w) = PeerHeld(p)
  BY MembersOfNone DEF WalkHeld
<1>3. WalkCount(w) = PeerCount(p)
  <2> DEFINE a == Len(p.outgoing)
             b == Len(p.sendReliable)
             s == Len(p.sent)
  <2>1. a \in Nat /\ b \in Nat /\ s \in Nat
    BY <1>1, PeerListTypes
  <2>2. Len(w.outgoing) = 0 /\ Len(w.sendReliable) = 0
    BY MembersOfNone
  <2>3. WalkCount(w) = a + b + s + 0 + 0
    BY <2>2, Zenon DEF WalkCount, PeerCount
  <2>4. PeerCount(p) = a + b + s
    BY Zenon DEF PeerCount
  <2> HIDE DEF a, b, s
  <2>5. a + b + s + 0 + 0 = a + b + s
    BY <2>1
  <2> QED BY <2>3, <2>4, <2>5, Zenon
<1>4. PeerOrdered(p)
  <2>1. p.outgoing \in Seq(Outgoings(now)) /\ p.sendReliable \in Seq(Packeted(now))
    BY <1>1, PeerListTypes
  <2>2. Outs(w) = p.outgoing /\ Rels(w) = p.sendReliable
    BY <2>1, ConcatEmptySeq DEF Outs, Rels
  <2> QED BY <1>2, <2>2 DEF WalkGood, WalkOrdered, PeerOrdered
<1> HIDE DEF p
<1> QED BY <1>1, <1>2, <1>3, <1>4 DEF WalkGood, PeerGood, p

\* A walk from a peer's lists.
WalkOf(p, outgoing, sendReliable) ==
    [peer |-> p, outgoing |-> outgoing, sendReliable |-> sendReliable,
     wrap |-> FALSE, canPing |-> TRUE, size |-> 0, full |-> FALSE,
     datagram |-> << >>, dropped |-> << >>]

LEMMA WalkOfTyped ==
    ASSUME NEW p \in PeerType(now), NEW o \in Seq(Outgoings(now)), NEW r \in Seq(Packeted(now))
    PROVE  LET w == WalkOf(p, o, r)
           IN  w \in WalkType(now) /\ w.peer = p /\ w.outgoing = o /\ w.sendReliable = r
<1>1. << >> \in Seq(Commands(now)) /\ << >> \in Seq(Seq(Outgoings(now)))
  BY EmptySeq
<1> QED BY <1>1 DEF WalkType, WalkOf

\* Before the first turn.
LEMMA CheckedFirst ==
    ASSUME NEW p, NEW K, PeerGood(p, K), p.state = "connected"
    PROVE  Checked(p, [p EXCEPT !.sent = << >>, !.outgoing = << >>, !.sendReliable = << >>], 0, K)
<1> DEFINE s == [p EXCEPT !.sent = << >>, !.outgoing = << >>, !.sendReliable = << >>]
           L == p.sent
<1>1. /\ p \in PeerType(now) /\ FirstTimed(p) /\ Dated(PeerHeld(p), p)
      /\ Accounted(PeerHeld(p), PeerCount(p), p.windows, p.earliest, K) /\ Transit(p)
      /\ PeerOrdered(p)
  BY DEF PeerGood
<1>2. /\ s \in PeerType(now) /\ s.sent = << >> /\ s.outgoing = << >> /\ s.sendReliable = << >>
      /\ s.state = p.state /\ s.totalQueued = p.totalQueued /\ s.windows = p.windows
      /\ s.inTransit = p.inTransit /\ s.nextTimeout = p.nextTimeout /\ s.earliest = p.earliest
      /\ s.number = p.number
  <2>1. << >> \in Seq(Sents(now)) /\ << >> \in Seq(Outgoings(now)) /\ << >> \in Seq(Packeted(now))
    BY EmptySeq
  <2> QED BY <1>1, <2>1 DEF PeerType
<1>3. /\ L \in Seq(AllCommands) /\ Len(L) \in Nat /\ Len(p.outgoing) \in Nat
      /\ Len(p.sendReliable) \in Nat /\ p.inTransit \in Int
  BY <1>1, PeerListTypes
<1>4. Rest(L, 0) = L
  <2>1. 0 \in 0 .. Len(L)
    BY <1>3
  <2> QED BY <1>3, <2>1, RestIs
<1> HIDE DEF s
<1>5. CheckedHeld(p, s, 0) = PeerHeld(p)
  BY <1>2, <1>4, MembersOfNone DEF CheckedHeld, PeerHeld
<1>6. CheckedCount(p, s, 0) = PeerCount(p)
  <2> DEFINE a == Len(p.outgoing)
             b == Len(p.sendReliable)
             n == Len(L)
  <2>1. Len(s.outgoing) = 0 /\ Len(s.sendReliable) = 0 /\ Len(s.sent) = 0 /\ Len(Rest(L, 0)) = n
    BY <1>2, <1>4, MembersOfNone
  <2>2. CheckedCount(p, s, 0) = 0 + 0 + 0 + a + b + n
    BY <2>1, Zenon DEF CheckedCount, PeerCount
  <2>3. PeerCount(p) = a + b + n
    BY Zenon DEF PeerCount
  <2>4. a \in Nat /\ b \in Nat /\ n \in Nat
    BY <1>3
  <2> HIDE DEF a, b, n
  <2>5. 0 + 0 + 0 + a + b + n = a + b + n
    BY <2>4
  <2> QED BY <2>2, <2>3, <2>5, Zenon
<1>7. s.inTransit = SeqSum(Data, s.sent) + SeqSum(Data, Rest(L, 0)) /\ s.inTransit <= p.inTransit
  <2> DEFINE x == SeqSum(Data, L)
  <2>1. SeqSum(Data, s.sent) = 0 /\ x \in Int
    BY <1>2, <1>3, SeqSumOfNone, SeqSumType, DataType
  <2>2. s.inTransit = x
    BY <1>1, <1>2 DEF Transit
  <2> HIDE DEF x
  <2>3. x = 0 + x /\ x <= x
    BY <2>1
  <2> QED BY <1>2, <1>4, <2>1, <2>2, <2>3 DEF x
<1>8. s.sent = << >> /\ 0 < Len(L) => s.nextTimeout = L[0 + 1].sentTime + L[0 + 1].timeout
  <2> SUFFICES ASSUME 0 < Len(L) PROVE s.nextTimeout = L[0 + 1].sentTime + L[0 + 1].timeout
    OBVIOUS
  <2>1. L # << >>
    BY MembersOfNone
  <2>2. 0 + 1 = 1 /\ Head(L) = L[1]
    BY DEF Head
  <2> QED BY <1>1, <1>2, <2>1, <2>2 DEF FirstTimed
<1>9. s.earliest # Never => FirstSent(p, s.earliest)
  <2> SUFFICES ASSUME s.earliest # Never PROVE FirstSent(p, s.earliest)
    OBVIOUS
  <2>1. PICK d \in PeerHeld(p) : d.attempts > 0 /\ d.since <= p.earliest
    BY <1>1, <1>2 DEF Accounted
  <2> QED BY <1>1, <1>2, <2>1, SentIs DEF FirstSent
<1>10. FirstTimed(s)
  BY <1>2 DEF FirstTimed
<1>a. CheckedOrdered(p, s, 0)
  <2>1. p.outgoing \in Seq(Outgoings(now)) /\ p.sendReliable \in Seq(Packeted(now))
    BY <1>1, PeerListTypes
  <2>2. s.outgoing \o p.outgoing = p.outgoing /\ s.sendReliable \o p.sendReliable = p.sendReliable
    BY <1>2, <2>1, ConcatEmptySeq
  <2>3. AllRetried(s.outgoing) /\ AllRetried(s.sendReliable)
    BY <1>2, MembersOfNone DEF AllRetried
  <2> QED BY <1>1, <1>2, <1>5, <2>2, <2>3 DEF CheckedOrdered, PeerOrdered
<1>11. Checked(p, s, 0, K)
  BY <1>1, <1>2, <1>5, <1>6, <1>7, <1>8, <1>9, <1>10, <1>a DEF Checked
<1> QED BY <1>11 DEF s

\* After the last one the other lists follow what is retried.
LEMMA CheckedLast ==
    ASSUME NEW p, NEW s, NEW K, PeerGood(p, K), p.state = "connected",
           Checked(p, s, Len(p.sent), K), s.state = "connected"
    PROVE  LET v == [s EXCEPT !.outgoing = @ \o p.outgoing, !.sendReliable = @ \o p.sendReliable]
           IN  PeerGood(v, K) /\ v.state = "connected" /\ v.totalQueued = p.totalQueued
<1> DEFINE n == Len(p.sent)
           w == WalkOf(s, p.outgoing, p.sendReliable)
           x == HoldOutgoing(w)
           y == HoldReliable(x)
           v == [s EXCEPT !.outgoing = @ \o p.outgoing, !.sendReliable = @ \o p.sendReliable]
<1>1. s \in PeerType(now) /\ p \in PeerType(now) /\ Transit(p) /\ s.totalQueued = p.totalQueued
  BY DEF Checked, PeerGood
<1>2. /\ p.outgoing \in Seq(Outgoings(now)) /\ p.sendReliable \in Seq(Packeted(now))
      /\ p.sent \in Seq(AllCommands) /\ n \in Nat /\ p.inTransit \in Int /\ s.inTransit \in Int
      /\ s.sent \in Seq(AllCommands)
  BY <1>1, PeerListTypes
<1>3. w \in WalkType(now) /\ w.peer = s /\ w.outgoing = p.outgoing /\ w.sendReliable = p.sendReliable
  BY <1>1, <1>2, WalkOfTyped
<1>4. Rest(p.sent, n) = << >>
  <2> HIDE DEF n
  <2>1. n + 1 \in Int /\ n \in Int /\ n < n + 1
    BY <1>2
  <2>2. SubSeq(p.sent, n + 1, n) = << >>
    BY <2>1, SubSeqEmpty
  <2> QED BY <2>2 DEF Rest, n
<1> HIDE DEF w
<1>5. CheckedHeld(p, s, n) = WalkHeld(w)
  BY <1>3, <1>4, MembersOfNone DEF CheckedHeld, WalkHeld
<1>6. CheckedCount(p, s, n) = WalkCount(w)
  <2> DEFINE c == WalkCount(w)
  <2>1. Len(Rest(p.sent, n)) = 0
    BY <1>4, MembersOfNone
  <2>2. CheckedCount(p, s, n) = c + 0
    BY <1>3, <2>1, Zenon DEF CheckedCount, WalkCount
  <2>3. c \in Nat
    BY <1>3, Places
  <2> HIDE DEF c
  <2>4. c + 0 = c
    BY <2>3
  <2> QED BY <2>2, <2>4, Zenon DEF c
<1>7. /\ Accounted(CheckedHeld(p, s, n), CheckedCount(p, s, n), p.windows, s.earliest, K)
      /\ Dated(CheckedHeld(p, s, n), p) /\ s.windows = p.windows
      /\ s.inTransit = SeqSum(Data, s.sent) + SeqSum(Data, Rest(p.sent, n))
      /\ s.inTransit <= p.inTransit /\ FirstTimed(s) /\ CheckedOrdered(p, s, n)
  BY DEF Checked
<1>8. Transit(s)
  <2> DEFINE a == SeqSum(Data, s.sent)
             m == Larger(FlowWindow, Capacity)
             t == s.inTransit
             u == p.inTransit
  <2>1. a \in Int /\ SeqSum(Data, Rest(p.sent, n)) = 0
    BY <1>2, <1>4, SeqSumOfNone, SeqSumType, DataType
  <2>2. t = a + 0 /\ t <= u /\ u <= m
    BY <1>1, <1>7, <2>1 DEF Transit
  <2>3. m \in Nat
    BY Sizes DEF Larger
  <2>4. t \in Int /\ u \in Int
    BY <1>2
  <2> HIDE DEF a, m, t, u
  <2>5. t = a /\ t <= m
    BY <2>1, <2>2, <2>3, <2>4
  <2> QED BY <2>5 DEF Transit, a, m, t
<1>a. WalkOrdered(w)
  BY <1>3, <1>5, <1>7 DEF CheckedOrdered, WalkOrdered, Outs, Rels
<1>9. WalkGood(w, K)
  BY <1>1, <1>3, <1>5, <1>6, <1>7, <1>8, <1>a DEF WalkGood, Dated
<1>10. WalkGood(x, K) /\ x.sendReliable = w.sendReliable /\ x.outgoing = << >>
  BY <1>9, HoldOutgoingGood
<1>11. WalkGood(y, K) /\ y.sendReliable = << >> /\ y.outgoing = << >>
  <2> HIDE DEF x
  <2> QED BY <1>10, HoldGood
<1>12. y.peer = v
  <2> DEFINE a == s.outgoing \o p.outgoing
             b == s.sendReliable \o p.sendReliable
             q == [s EXCEPT !.outgoing = a]
  <2>1. x = [[w EXCEPT !.peer = q] EXCEPT !.outgoing = << >>]
    BY <1>3, Zenon DEF HoldOutgoing
  <2>2. a \in Seq(Outgoings(now))
    BY <1>1, <1>2, PeerListTypes, ConcatProperties
  <2> HIDE DEF a
  <2>3. q \in PeerType(now) /\ q.sendReliable = s.sendReliable
    BY <1>1, <2>2 DEF PeerType
  <2> HIDE DEF q
  <2>4. x.peer = q /\ x.sendReliable = p.sendReliable /\ x \in WalkType(now)
    <3> DEFINE z == [w EXCEPT !.peer = q]
    <3>1. z \in WalkType(now) /\ z.peer = q /\ z.sendReliable = p.sendReliable
      BY <1>3, <2>3, WalkWith
    <3>2. x = [z EXCEPT !.outgoing = << >>]
      BY <2>1
    <3> HIDE DEF z, x
    <3>3. x.peer = q /\ x.sendReliable = p.sendReliable
      BY <3>1, <3>2 DEF WalkType
    <3> QED BY <1>10, <3>3 DEF WalkGood
  <2> HIDE DEF x
  <2>5. y = [[x EXCEPT !.peer = [q EXCEPT !.sendReliable = b]] EXCEPT !.sendReliable = << >>]
    BY <2>3, <2>4, Zenon DEF HoldReliable
  <2>6. y.peer = [q EXCEPT !.sendReliable = b]
    <3> DEFINE z == [q EXCEPT !.sendReliable = b]
    <3> HIDE DEF z
    <3>1. y = [[x EXCEPT !.peer = z] EXCEPT !.sendReliable = << >>]
      BY <2>5 DEF z
    <3> HIDE DEF y
    <3>2. y.peer = z
      BY <2>4, <3>1 DEF WalkType
    <3> QED BY <3>2 DEF z
  <2>7. v = [q EXCEPT !.sendReliable = b]
    <3>1. v = [s EXCEPT !.outgoing = a, !.sendReliable = b]
      BY Zenon DEF a
    <3> HIDE DEF v, b
    <3> QED BY <3>1, Zenon DEF q
  <2> QED BY <2>6, <2>7
<1> HIDE DEF y, v
<1>13. PeerGood(v, K)
  BY <1>11, <1>12, WalkDone
<1>14. v.state = "connected" /\ v.totalQueued = p.totalQueued
  <2> DEFINE a == s.outgoing \o p.outgoing
             b == s.sendReliable \o p.sendReliable
  <2>1. v = [s EXCEPT !.outgoing = a, !.sendReliable = b]
    BY Zenon DEF v
  <2> HIDE DEF a, b
  <2>2. v.state = s.state /\ v.totalQueued = s.totalQueued
    BY <1>1, <2>1 DEF PeerType
  <2> QED BY <1>1, <2>2
<1> QED BY <1>13, <1>14 DEF v

\* The loop of check_timeouts as a run of turns, i to i + 1.
LEMMA TimeoutRun ==
    ASSUME now \in Nat, setting \in Settings, NEW p, NEW K, PeerGood(p, K), p.state = "connected"
    PROVE  \E end : /\ Checked(p, end, Len(p.sent), K)
                    /\ CheckTimeouts(p) =
                         IF end.state # "connected"
                         THEN [end EXCEPT !.sent = << >>, !.outgoing = << >>, !.sendReliable = << >>]
                         ELSE [end EXCEPT !.outgoing = @ \o p.outgoing,
                                          !.sendReliable = @ \o p.sendReliable]
<1> DEFINE n == Len(p.sent)
           s == [i \in DOMAIN p.sent |-> i]
           b == [p EXCEPT !.sent = << >>, !.outgoing = << >>, !.sendReliable = << >>]
           T == PeerType(now)
           F == [y \in T \X (1 .. n) |-> CheckTimeout(y[1], y[2], p.sent)]
           Value(g, u) == IF u = {} THEN b ELSE CheckTimeout(g[u \ {Max(u)}], s[Max(u)], p.sent)
           IsFold(g) == g = [u \in SUBSET DOMAIN s |-> Value(g, u)]
           h == CHOOSE g : IsFold(g)
           end == h[DOMAIN s]
<1>1. p \in PeerType(now)
  BY DEF PeerGood
<1>2. n \in Nat /\ DOMAIN s = 1 .. n /\ \A i \in 1 .. n : s[i] = i
  <2>1. p.sent \in Seq(Sents(now))
    BY <1>1, PeerListTypes
  <2>2. n \in Nat /\ DOMAIN p.sent = 1 .. n
    BY <2>1, LenProperties
  <2> HIDE DEF n
  <2> QED BY <2>2
<1>3. CheckTimeouts(p) =
         IF end.state # "connected"
         THEN [end EXCEPT !.sent = << >>, !.outgoing = << >>, !.sendReliable = << >>]
         ELSE [end EXCEPT !.outgoing = @ \o p.outgoing, !.sendReliable = @ \o p.sendReliable]
  BY Zenon DEF CheckTimeouts, FoldLeftDomain, FoldLeft, MapThenFoldSet
<1>4. Checked(p, b, 0, K)
  BY CheckedFirst
<1>5. b \in T
  BY <1>4 DEF Checked
<1>6. ASSUME NEW x \in T, NEW i \in 1 .. n PROVE CheckTimeout(x, i, p.sent) \in T
  BY <1>1, CheckTimeoutTyped
<1> HIDE DEF s, n, b, T
<1>7. F \in Turns(T, n)
  <2>1. ASSUME NEW y \in T \X (1 .. n) PROVE CheckTimeout(y[1], y[2], p.sent) \in T
    BY <1>6
  <2> QED BY <2>1 DEF Turns
<1>8. \A y \in T : \A i \in 1 .. n : F[<<y, i>>] = CheckTimeout(y, i, p.sent)
  OBVIOUS
<1> HIDE DEF F
<1>9. ASSUME NEW u \in SUBSET (1 .. n), u # {}
      PROVE  Max(u) \in 1 .. n /\ u \ {Max(u)} \in SUBSET (1 .. n)
  BY <1>2, <1>9, LastPosition
<1>10. IsFold(h)
  <2>0. PICK g \in [SUBSET (1 .. n) -> T] : IsFoldOf(g, b, F, n)
    BY <1>2, <1>5, <1>7, FoldsObey, Zenon
  <2>1. \A u \in SUBSET (1 .. n) : g[u] = IF u = {} THEN b ELSE F[<<g[u \ {Max(u)}], Max(u)>>]
    BY <2>0 DEF IsFoldOf
  <2>2. ASSUME NEW u \in SUBSET (1 .. n) PROVE g[u] = Value(g, u)
    <3>1. CASE u = {}
      BY <2>1, <3>1
    <3>2. CASE u # {}
      <4>1. Max(u) \in 1 .. n /\ g[u \ {Max(u)}] \in T
        BY <1>9, <2>1, <3>2
      <4>2. F[<<g[u \ {Max(u)}], Max(u)>>] = CheckTimeout(g[u \ {Max(u)}], Max(u), p.sent)
        BY <1>8, <4>1
      <4>3. s[Max(u)] = Max(u)
        BY <1>2, <4>1
      <4> QED BY <2>1, <3>2, <4>2, <4>3
    <3> QED BY <3>1, <3>2
  <2>3. IsFold(g)
    <3> HIDE DEF Value
    <3> QED BY <1>2, <2>1, <2>2
  <2> HIDE DEF IsFold
  <2> QED BY <2>3
<1>11. Obeys(h, b, F, T, n)
  <2>1. ASSUME NEW u \in SUBSET (1 .. n) PROVE h[u] = Value(h, u)
    <3> HIDE DEF Value, h
    <3> QED BY <1>2, <1>10
  <2> HIDE DEF h
  <2>2. ASSUME NEW u \in SUBSET (1 .. n), u = {} PROVE h[u] = b
    BY <2>1, <2>2
  <2>3. ASSUME NEW u \in SUBSET (1 .. n), u # {}, h[u \ {Max(u)}] \in T
        PROVE  h[u] = F[<<h[u \ {Max(u)}], Max(u)>>]
    <3>1. Max(u) \in 1 .. n /\ s[Max(u)] = Max(u)
      BY <1>2, <1>9, <2>3
    <3>2. h[u] = CheckTimeout(h[u \ {Max(u)}], Max(u), p.sent)
      BY <2>1, <2>3, <3>1
    <3> QED BY <1>8, <2>3, <3>1, <3>2
  <2> QED BY <2>2, <2>3 DEF Obeys
<1> HIDE DEF h, Value, IsFold
<1>12. PICK r \in [0 .. n -> T] : IsRun(r, b, F, n) /\ h[1 .. n] = r[n]
  <2>1. n \in Nat /\ b \in T /\ F \in Turns(T, n) /\ Obeys(h, b, F, T, n)
    BY <1>2, <1>5, <1>7, <1>11
  <2> QED BY <2>1, FoldRuns
<1>13. \A i \in Nat : i <= n => Checked(p, r[i], i, K)
  <2> DEFINE N == {i \in Nat : i <= n => Checked(p, r[i], i, K)}
  <2>1. 0 \in N
    BY <1>4, <1>12 DEF IsRun
  <2>2. ASSUME NEW i \in Nat, i \in N PROVE i + 1 \in N
    <3> SUFFICES ASSUME i + 1 <= n PROVE Checked(p, r[i + 1], i + 1, K)
      OBVIOUS
    <3>1. i + 1 \in 1 .. n /\ (i + 1) - 1 = i /\ i \in 0 .. n
      BY <1>2
    <3>2. Checked(p, r[i], i, K)
      BY <2>2, <3>1
    <3>3. r[i + 1] = CheckTimeout(r[i], i + 1, p.sent)
      BY <1>8, <1>12, <3>1 DEF IsRun
    <3> DEFINE j == i + 1
    <3>4. j \in 1 .. Len(p.sent) /\ j - 1 = i
      BY <3>1 DEF n
    <3> HIDE DEF j
    <3>5. Checked(p, CheckTimeout(r[i], j, p.sent), j, K)
      BY <1>1, <3>2, <3>4, CheckedTurn
    <3> QED BY <3>3, <3>5 DEF j
  <2> HIDE DEF N
  <2>3. Nat \subseteq N
    BY <2>1, <2>2, Induction
  <2> QED BY <2>3 DEF N
<1>14. Checked(p, end, Len(p.sent), K)
  <2>1. end = r[n] /\ n <= n
    BY <1>2, <1>12
  <2>2. Checked(p, r[n], n, K)
    BY <1>2, <1>13, <2>1
  <2> QED BY <2>1, <2>2 DEF n
<1> HIDE DEF end
<1> QED BY <1>3, <1>14

\* check_timeouts keeps all that is true of a peer; or the peer is given up and has
\* nothing left.
LEMMA CheckTimeoutsGood ==
    ASSUME now \in Nat, setting \in Settings, NEW p, NEW K, PeerGood(p, K), p.state = "connected"
    PROVE  /\ PeerGood(CheckTimeouts(p), K) /\ CheckTimeouts(p).totalQueued = p.totalQueued
           /\ CheckTimeouts(p).state # "connected" => Outlived(p) /\ PeerHeld(CheckTimeouts(p)) = {}
<1>1. PICK end : /\ Checked(p, end, Len(p.sent), K)
                 /\ CheckTimeouts(p) =
                      IF end.state # "connected"
                      THEN [end EXCEPT !.sent = << >>, !.outgoing = << >>, !.sendReliable = << >>]
                      ELSE [end EXCEPT !.outgoing = @ \o p.outgoing,
                                       !.sendReliable = @ \o p.sendReliable]
  BY TimeoutRun
<1>2. CASE end.state # "connected"
  <2> DEFINE v == [end EXCEPT !.sent = << >>, !.outgoing = << >>, !.sendReliable = << >>]
  <2>1. end \in PeerType(now) /\ end.totalQueued = p.totalQueued /\ Outlived(p)
    BY <1>1, <1>2 DEF Checked
  <2>2. << >> \in Seq(Sents(now)) /\ << >> \in Seq(Outgoings(now)) /\ << >> \in Seq(Packeted(now))
    BY EmptySeq
  <2>3. /\ v \in PeerType(now) /\ v.state = end.state /\ v.totalQueued = end.totalQueued
        /\ v.sent = << >> /\ v.outgoing = << >> /\ v.sendReliable = << >>
        /\ v.number \in NumberType
    BY <2>1, <2>2 DEF PeerType, NumberType
  <2>4. CheckTimeouts(p) = v
    BY <1>1, <1>2
  <2> HIDE DEF v
  <2>5. PeerHeld(v) = {}
    BY <2>3, MembersOfNone DEF PeerHeld
  <2>7. Cardinality(PeerHeld(v)) = PeerCount(v)
    BY <2>3, <2>5, MembersOfNone, FS_EmptySet DEF PeerCount
  <2>6. PeerGood(v, K)
    BY <1>2, <2>3, <2>5, <2>7, OrderedNone DEF PeerGood, FirstTimed, Dated, PeerOrdered
  <2> QED BY <2>1, <2>3, <2>4, <2>5, <2>6
<1>3. CASE end.state = "connected"
  <2> DEFINE v == [end EXCEPT !.outgoing = @ \o p.outgoing, !.sendReliable = @ \o p.sendReliable]
  <2>1. PeerGood(v, K) /\ v.state = "connected" /\ v.totalQueued = p.totalQueued
    BY <1>1, <1>3, CheckedLast
  <2>2. CheckTimeouts(p) = v
    BY <1>1, <1>3
  <2> HIDE DEF v
  <2> QED BY <2>1, <2>2
<1> QED BY <1>2, <1>3

-----------------------------------------------------------------------------
(* Queueing.                                                               *)

\* What a peer keeps when a command takes its numbers.
Renumbered(q, p) ==
    /\ q \in PeerType(now)
    /\ q.state = p.state /\ q.outgoing = p.outgoing /\ q.sendReliable = p.sendReliable
    /\ q.sent = p.sent /\ q.windows = p.windows /\ q.totalQueued = p.totalQueued
    /\ q.nextTimeout = p.nextTimeout /\ q.earliest = p.earliest /\ q.inTransit = p.inTransit

\* The number a command takes.
NumberTaken(q, p, k, n) ==
    IF k.kind \in {"reliable", "ping"}
    THEN /\ n = Succ(p.number[k.channel]) /\ q.number[k.channel] = n
         /\ \A ch \in Channels : ch # k.channel => q.number[ch] = p.number[ch]
    ELSE q.number = p.number

LEMMA SetupIs ==
    ASSUME NEW p \in PeerType(now), NEW k, k.kind \in Kind, k.channel \in Channels \cup {Control},
           NEW first \in BOOLEAN
    PROVE  LET s == Setup(p, k, first)
           IN  /\ Renumbered(s.peer, p) /\ s.number \in 0 .. Modulus - 1 /\ s.unreliable \in Nat
               /\ NumberTaken(s.peer, p, k, s.number)
<1> DEFINE ch == k.channel
           s == Setup(p, k, first)
<1>1. /\ p.number \in [Channels \cup {Control} -> 0 .. Modulus - 1]
      /\ p.unreliable \in [Channels \cup {Control} -> Nat]
      /\ p.number[ch] \in 0 .. Modulus - 1 /\ p.unreliable[ch] \in Nat
      /\ Modulus \in Nat \ {0} /\ 0 \in 0 .. Modulus - 1
  <2>1. /\ p.number \in [Channels \cup {Control} -> 0 .. Modulus - 1]
        /\ p.unreliable \in [Channels \cup {Control} -> Nat]
    BY DEF PeerType
  <2>2. Modulus \in Nat \ {0}
    BY Sizes
  <2>3. 0 \in 0 .. Modulus - 1
    BY <2>2
  <2>4. p.number[ch] \in 0 .. Modulus - 1 /\ p.unreliable[ch] \in Nat
    BY <2>1
  <2> QED BY <2>1, <2>2, <2>3, <2>4
<1>2. CASE k.kind = "unreliable"
  <2> DEFINE u == p.unreliable[ch] + (IF first THEN 1 ELSE 0)
             f == [p.unreliable EXCEPT ![ch] = u]
             q == [p EXCEPT !.unreliable = f]
  <2>1. u \in Nat
    BY <1>1
  <2>2. s = [peer |-> q, number |-> p.number[ch], unreliable |-> u]
    BY <1>2, Zenon DEF Setup
  <2> HIDE DEF u
  <2>3. f \in [Channels \cup {Control} -> Nat]
    BY <1>1, <2>1
  <2> HIDE DEF f
  <2>4. Renumbered(q, p)
    BY <2>3 DEF Renumbered, PeerType
  <2>5. q.number = p.number
    BY DEF PeerType
  <2> HIDE DEF q, s
  <2> QED BY <1>1, <1>2, <2>1, <2>2, <2>4, <2>5 DEF s, NumberTaken
<1>3. CASE k.kind = "unsequenced"
  <2>1. s = [peer |-> p, number |-> 0, unreliable |-> 0]
    BY <1>3 DEF Setup
  <2>2. Renumbered(p, p)
    BY DEF Renumbered
  <2> HIDE DEF s
  <2> QED BY <1>1, <1>3, <2>1, <2>2 DEF s, NumberTaken
<1>4. CASE k.kind # "unreliable" /\ k.kind # "unsequenced"
  <2> DEFINE x == p.number[ch] + 1
             n == x % Modulus
             f == [p.number EXCEPT ![ch] = n]
             g == [p.unreliable EXCEPT ![ch] = 0]
             q == [p EXCEPT !.number = f, !.unreliable = g]
  <2>1. s = [peer |-> q, number |-> n, unreliable |-> 0]
    BY <1>4, Zenon DEF Setup
  <2>2. x \in Nat
    BY <1>1
  <2> HIDE DEF x
  <2>3. n \in 0 .. Modulus - 1
    BY <1>1, <2>2, DivMod
  <2>6. n = Succ(p.number[ch])
    BY DEF x, Succ
  <2> HIDE DEF n
  <2>4. f \in [Channels \cup {Control} -> 0 .. Modulus - 1] /\ g \in [Channels \cup {Control} -> Nat]
    BY <1>1, <2>3
  <2>7. f[ch] = n /\ \A d \in Channels : d # ch => f[d] = p.number[d]
    BY <1>1
  <2> HIDE DEF f, g
  <2>5. Renumbered(q, p)
    BY <2>4 DEF Renumbered, PeerType
  <2>8. q.number = f
    BY DEF PeerType
  <2> HIDE DEF q, s
  <2>9. NumberTaken(q, p, k, n)
    BY <1>4, <2>6, <2>7, <2>8 DEF NumberTaken, Kind
  <2> QED BY <2>1, <2>3, <2>5, <2>9 DEF s
<1> QED BY <1>2, <1>3, <1>4

\* A packet the application may send, or a ping.
Sendable(k) ==
    /\ k \in Packet
    /\ IF k.kind = "ping" THEN k.channel = Control /\ k.lengths = <<0>> ELSE k.channel \in Channels

LEMMA QueuePartGood ==
    ASSUME now \in Nat, NEW p, NEW K, PeerGood(p, K), p.state = "connected",
           NEW k, Sendable(k), NEW i \in DOMAIN k.lengths, NEW id \in Nat
    PROVE  PeerGood(QueuePart(p, k, i, id), K) /\ QueuePart(p, k, i, id).state = "connected"
<1> DEFINE first == i = 1
           s == Setup(p, k, first)
           time == p.totalQueued + 1
           c == [kind |-> k.kind, channel |-> k.channel, length |-> k.lengths[i],
                 packet |-> id, first |-> first, number |-> s.number,
                 unreliable |-> s.unreliable, queueTime |-> time, attempts |-> 0,
                 sentTime |-> 0, timeout |-> 0, since |-> 0]
           q == [s.peer EXCEPT !.totalQueued = time]
           v == QueuePart(p, k, i, id)
<1>1. /\ p \in PeerType(now) /\ FirstTimed(p) /\ Dated(PeerHeld(p), p)
      /\ Accounted(PeerHeld(p), PeerCount(p), p.windows, p.earliest, K) /\ Transit(p)
      /\ PeerOrdered(p)
  BY DEF PeerGood
<1>2. /\ k.kind \in Kind /\ k.channel \in Channels \cup {Control} /\ k.lengths \in Seq(Nat)
      /\ k.kind = "ping" => k.lengths = <<0>> /\ k.channel = Control
      /\ k.kind # "ping" => k.channel \in Channels
  BY DEF Sendable, Packet
<1>3. k.lengths[i] \in Nat /\ (k.kind = "ping" => k.lengths[i] = 0)
  BY <1>2
<1>4. /\ Renumbered(s.peer, p) /\ s.number \in 0 .. Modulus - 1 /\ s.unreliable \in Nat
      /\ NumberTaken(s.peer, p, k, s.number)
  BY <1>1, <1>2, SetupIs
<1>5. time \in Nat \ {0} /\ p.totalQueued \in Nat /\ \A d \in PeerHeld(p) : d.queueTime <= p.totalQueued
  BY <1>1, PeerListTypes DEF Dated
<1>6. v = IF Reliable(c) /\ HasPacket(c)
          THEN [q EXCEPT !.sendReliable = Append(@, c)] ELSE [q EXCEPT !.outgoing = Append(@, c)]
  BY Zenon DEF QueuePart
<1> HIDE DEF s, time, first
<1>7. first \in BOOLEAN
  BY DEF first
<1>8. c \in AllCommands /\ c.attempts = 0 /\ c.queueTime = time /\ c.kind = k.kind
  BY <1>2, <1>3, <1>4, <1>5, <1>7 DEF AllCommands
<1>o. c.channel = k.channel /\ c.number = s.number
  OBVIOUS
<1>9. c \in Commands(now)
  <2>1. c.sentTime = 0 /\ c.since = 0 /\ c.attempts = 0 /\ c.length = k.lengths[i] /\ c.channel = k.channel
        /\ c.kind = k.kind
    OBVIOUS
  <2> HIDE DEF c
  <2> QED BY <1>2, <1>3, <1>8, <2>1 DEF Commands, Sound, HasPacket
<1> HIDE DEF c
<1>10. /\ q \in PeerType(now) /\ q.totalQueued = time /\ q.state = p.state
       /\ q.outgoing = p.outgoing /\ q.sendReliable = p.sendReliable /\ q.sent = p.sent
       /\ q.windows = p.windows /\ q.nextTimeout = p.nextTimeout /\ q.earliest = p.earliest
       /\ q.inTransit = p.inTransit /\ q.number = s.peer.number
  BY <1>4, <1>5 DEF Renumbered, PeerType
<1> HIDE DEF q, v
<1> DEFINE a == Append(p.outgoing, c)
           b == Append(p.sendReliable, c)
           B == PeerHeld(p)
           m == PeerCount(p)
<1>11. /\ p.outgoing \in Seq(Outgoings(now)) /\ p.sendReliable \in Seq(Packeted(now))
       /\ Len(p.outgoing) \in Nat /\ Len(p.sendReliable) \in Nat /\ Len(p.sent) \in Nat
  BY <1>1, PeerListTypes
<1>u. NumberTaken(q, p, k, c.number) /\ q.number \in NumberType
  <2>1. q.number \in NumberType
    BY <1>10, PeerListTypes
  <2> QED BY <1>4, <1>10, <1>o, <2>1 DEF NumberTaken
<1>q. /\ p.outgoing \in Seq(Commands(now)) /\ p.sendReliable \in Seq(Commands(now))
      /\ c \in Commands(now) /\ p.number \in NumberType
      /\ Ordered(B, p.outgoing, p.sendReliable, p.number)
  <2>1. Outgoings(now) \subseteq Commands(now) /\ Packeted(now) \subseteq Commands(now)
    BY DEF Outgoings, Packeted
  <2>2. p.number \in NumberType
    BY <1>1, PeerListTypes
  <2>3. Ordered(B, p.outgoing, p.sendReliable, p.number)
    BY <1>1 DEF PeerOrdered
  <2> QED BY <1>9, <1>11, <2>1, <2>2, <2>3
<1>12. /\ v \in PeerType(now) /\ v.totalQueued = time /\ v.state = p.state /\ v.sent = p.sent
       /\ v.windows = p.windows /\ v.nextTimeout = p.nextTimeout /\ v.earliest = p.earliest
       /\ v.inTransit = p.inTransit /\ PeerHeld(v) = B \cup {c} /\ PeerCount(v) = m + 1
       /\ PeerOrdered(v)
  <2>1. CASE Reliable(c) /\ HasPacket(c)
    <3>1. c \in Packeted(now)
      BY <1>9, <2>1 DEF Packeted
    <3>2. b \in Seq(Packeted(now)) /\ Len(b) = Len(p.sendReliable) + 1
          /\ Members(b) = Members(p.sendReliable) \cup {c}
      BY <1>11, <3>1, AppendedTo
    <3>3. v = [q EXCEPT !.sendReliable = b]
      BY <1>6, <1>10, <2>1
    <3> HIDE DEF b
    <3>4. /\ v \in PeerType(now) /\ v.totalQueued = time /\ v.state = p.state /\ v.sent = p.sent
          /\ v.windows = p.windows /\ v.nextTimeout = p.nextTimeout /\ v.earliest = p.earliest
          /\ v.inTransit = p.inTransit /\ v.outgoing = p.outgoing /\ v.sendReliable = b
          /\ v.number = q.number
      BY <1>10, <3>2, <3>3 DEF PeerType
    <3>5. PeerHeld(v) = B \cup {c}
      BY <3>2, <3>4 DEF PeerHeld
    <3>6. PeerCount(v) = m + 1
      <4> DEFINE x == Len(p.outgoing)
                 y == Len(p.sendReliable)
                 z == Len(p.sent)
      <4>1. PeerCount(v) = x + (y + 1) + z
        BY <3>2, <3>4, Zenon DEF PeerCount
      <4>2. m = x + y + z
        BY Zenon DEF PeerCount
      <4>3. x \in Nat /\ y \in Nat /\ z \in Nat
        BY <1>11
      <4> HIDE DEF x, y, z, m
      <4>4. x + (y + 1) + z = x + y + z + 1
        BY <4>3
      <4> QED BY <4>1, <4>2, <4>4, Zenon
    <3>7. PeerOrdered(v)
      <4>1. Ordered(B \cup {c}, p.outgoing, b, q.number)
        <5>1. /\ c.number = Succ(p.number[c.channel]) /\ q.number[c.channel] = c.number
              /\ \A ch \in Channels : ch # c.channel => q.number[ch] = p.number[ch]
          BY <1>8, <1>o, <1>u, <2>1 DEF NumberTaken, Reliable
        <5> QED BY <1>8, <1>q, <1>u, <5>1, OrderedMore DEF b
      <4> QED BY <3>4, <3>5, <4>1 DEF PeerOrdered
    <3> QED BY <3>4, <3>5, <3>6, <3>7
  <2>2. CASE ~ (Reliable(c) /\ HasPacket(c))
    <3>1. c \in Outgoings(now)
      BY <1>9, <2>2 DEF Outgoings
    <3>2. a \in Seq(Outgoings(now)) /\ Len(a) = Len(p.outgoing) + 1
          /\ Members(a) = Members(p.outgoing) \cup {c}
      BY <1>11, <3>1, AppendedTo
    <3>3. v = [q EXCEPT !.outgoing = a]
      BY <1>6, <1>10, <2>2
    <3> HIDE DEF a
    <3>4. /\ v \in PeerType(now) /\ v.totalQueued = time /\ v.state = p.state /\ v.sent = p.sent
          /\ v.windows = p.windows /\ v.nextTimeout = p.nextTimeout /\ v.earliest = p.earliest
          /\ v.inTransit = p.inTransit /\ v.outgoing = a /\ v.sendReliable = p.sendReliable
          /\ v.number = q.number
      BY <1>10, <3>2, <3>3 DEF PeerType
    <3>5. PeerHeld(v) = B \cup {c}
      BY <3>2, <3>4 DEF PeerHeld
    <3>6. PeerCount(v) = m + 1
      <4> DEFINE x == Len(p.outgoing)
                 y == Len(p.sendReliable)
                 z == Len(p.sent)
      <4>1. PeerCount(v) = (x + 1) + y + z
        BY <3>2, <3>4, Zenon DEF PeerCount
      <4>2. m = x + y + z
        BY Zenon DEF PeerCount
      <4>3. x \in Nat /\ y \in Nat /\ z \in Nat
        BY <1>11
      <4> HIDE DEF x, y, z, m
      <4>4. (x + 1) + y + z = x + y + z + 1
        BY <4>3
      <4> QED BY <4>1, <4>2, <4>4, Zenon
    <3>7. PeerOrdered(v)
      <4>1. Ordered(B \cup {c}, a, p.sendReliable, q.number)
        <5>1. \A ch \in Channels : q.number[ch] = p.number[ch]
          <6>1. CASE k.kind \in {"reliable", "ping"}
            <7>1. k.channel = Control /\ Control \notin Channels
              BY <1>8, <2>2, <6>1, ChannelsAssumption DEF Reliable, HasPacket, Sendable, Control
            <7> QED BY <1>u, <6>1, <7>1 DEF NumberTaken
          <6>2. CASE k.kind \notin {"reliable", "ping"}
            BY <1>u, <6>2 DEF NumberTaken
          <6> QED BY <6>1, <6>2
        <5> QED BY <1>8, <1>q, <1>u, <5>1, OrderedMore DEF a
      <4> QED BY <3>4, <3>5, <4>1 DEF PeerOrdered
    <3> QED BY <3>4, <3>5, <3>6, <3>7
  <2> QED BY <2>1, <2>2
<1>13. m \in Nat
  <2> DEFINE x == Len(p.outgoing)
             y == Len(p.sendReliable)
             z == Len(p.sent)
  <2>1. m = x + y + z
    BY Zenon DEF PeerCount
  <2>2. x \in Nat /\ y \in Nat /\ z \in Nat
    BY <1>11
  <2> HIDE DEF x, y, z, m
  <2>3. x + y + z \in Nat
    BY <2>2
  <2> QED BY <2>1, <2>3
<1> HIDE DEF B, m
<1>14. \A d \in B : d.queueTime # c.queueTime
  <2>1. \A d \in B : d.queueTime <= p.totalQueued
    BY <1>5 DEF B
  <2>2. time = p.totalQueued + 1
    BY DEF time
  <2> QED BY <1>5, <1>8, <2>1, <2>2
<1>15. Accounted(B, m, p.windows, p.earliest, K)
  BY <1>1 DEF B, m
<1>16. Accounted(B \cup {c}, m + 1, p.windows, p.earliest, K)
  BY <1>8, <1>13, <1>14, <1>15, Added
<1>17. \A d \in B \cup {c} : d.queueTime <= time
  <2>1. \A d \in B : d.queueTime <= p.totalQueued /\ d.queueTime \in Nat
    <3>1. B \subseteq AllCommands
      BY <1>15 DEF Accounted
    <3> QED BY <1>5, <3>1 DEF B, AllCommands
  <2>2. time = p.totalQueued + 1
    BY DEF time
  <2> QED BY <1>5, <1>8, <2>1, <2>2
<1>18. FirstTimed(v) /\ Transit(v) /\ Dated(PeerHeld(v), v)
  BY <1>1, <1>12, <1>17 DEF FirstTimed, Transit, Dated
<1>19. PeerGood(v, K) /\ v.state = "connected"
  BY <1>12, <1>16, <1>18 DEF PeerGood
<1> QED BY <1>19 DEF v

LEMMA QueuePacketGood ==
    ASSUME now \in Nat, NEW p, NEW K, PeerGood(p, K), p.state = "connected", NEW k, Sendable(k)
    PROVE  PeerGood(QueuePacket(p, k), K) /\ QueuePacket(p, k).state = "connected"
<1> DEFINE n == Len(k.lengths)
           s == [i \in DOMAIN k.lengths |-> i]
           id == p.totalQueued + 1
           T == {x \in PeerType(now) : PeerGood(x, K) /\ x.state = "connected"}
           F == [y \in T \X (1 .. n) |-> QueuePart(y[1], k, y[2], id)]
           Value(g, u) == IF u = {} THEN p ELSE QueuePart(g[u \ {Max(u)}], k, s[Max(u)], id)
           IsFold(g) == g = [u \in SUBSET DOMAIN s |-> Value(g, u)]
           h == CHOOSE g : IsFold(g)
           end == h[DOMAIN s]
<1>1. p \in T /\ id \in Nat
  <2>1. p \in PeerType(now)
    BY DEF PeerGood
  <2>2. p.totalQueued \in Nat
    BY <2>1, PeerListTypes
  <2> QED BY <2>1, <2>2
<1>2. /\ n \in Nat /\ DOMAIN k.lengths = 1 .. n /\ DOMAIN s = 1 .. n
      /\ \A i \in 1 .. n : s[i] = i
  <2>1. k.lengths \in Seq(Nat)
    BY DEF Sendable, Packet
  <2>2. n \in Nat /\ DOMAIN k.lengths = 1 .. n
    BY <2>1, LenProperties
  <2> HIDE DEF n
  <2> QED BY <2>2
<1>3. QueuePacket(p, k) = end
  BY Zenon DEF QueuePacket, FoldLeftDomain, FoldLeft, MapThenFoldSet
<1>4. ASSUME NEW x \in T, NEW i \in 1 .. n PROVE QueuePart(x, k, i, id) \in T
  <2>1. i \in DOMAIN k.lengths /\ PeerGood(x, K) /\ x.state = "connected"
    BY <1>2
  <2> DEFINE y == QueuePart(x, k, i, id)
  <2> HIDE DEF id
  <2>2. PeerGood(y, K) /\ y.state = "connected"
    BY <1>1, <2>1, QueuePartGood
  <2> HIDE DEF y
  <2>3. y \in T
    BY <2>2 DEF PeerGood
  <2> QED BY <2>3 DEF y
<1> HIDE DEF s, n, T, id
<1>5. F \in Turns(T, n)
  <2>1. ASSUME NEW y \in T \X (1 .. n) PROVE QueuePart(y[1], k, y[2], id) \in T
    BY <1>4
  <2> QED BY <2>1 DEF Turns
<1>6. \A y \in T : \A i \in 1 .. n : F[<<y, i>>] = QueuePart(y, k, i, id)
  OBVIOUS
<1> HIDE DEF F
<1>7. ASSUME NEW u \in SUBSET (1 .. n), u # {}
      PROVE  Max(u) \in 1 .. n /\ u \ {Max(u)} \in SUBSET (1 .. n)
  BY <1>2, <1>7, LastPosition
<1>8. IsFold(h)
  <2>0. PICK g \in [SUBSET (1 .. n) -> T] : IsFoldOf(g, p, F, n)
    <3>1. n \in Nat /\ p \in T /\ F \in Turns(T, n)
      BY <1>1, <1>2, <1>5
    <3> QED BY <3>1, FoldsObey, Zenon
  <2>1. \A u \in SUBSET (1 .. n) : g[u] = IF u = {} THEN p ELSE F[<<g[u \ {Max(u)}], Max(u)>>]
    BY <2>0 DEF IsFoldOf
  <2>2. ASSUME NEW u \in SUBSET (1 .. n) PROVE g[u] = Value(g, u)
    <3>1. CASE u = {}
      BY <2>1, <3>1
    <3>2. CASE u # {}
      <4>1. Max(u) \in 1 .. n /\ g[u \ {Max(u)}] \in T
        BY <1>7, <2>1, <3>2
      <4>2. F[<<g[u \ {Max(u)}], Max(u)>>] = QueuePart(g[u \ {Max(u)}], k, Max(u), id)
        BY <1>6, <4>1
      <4>3. s[Max(u)] = Max(u)
        BY <1>2, <4>1
      <4> QED BY <2>1, <3>2, <4>2, <4>3
    <3> QED BY <3>1, <3>2
  <2>3. IsFold(g)
    <3> HIDE DEF Value
    <3> QED BY <1>2, <2>1, <2>2
  <2> HIDE DEF IsFold
  <2> QED BY <2>3
<1>9. Obeys(h, p, F, T, n)
  <2>1. ASSUME NEW u \in SUBSET (1 .. n) PROVE h[u] = Value(h, u)
    <3> HIDE DEF Value, h
    <3> QED BY <1>2, <1>8
  <2> HIDE DEF h
  <2>2. ASSUME NEW u \in SUBSET (1 .. n), u = {} PROVE h[u] = p
    BY <2>1, <2>2
  <2>3. ASSUME NEW u \in SUBSET (1 .. n), u # {}, h[u \ {Max(u)}] \in T
        PROVE  h[u] = F[<<h[u \ {Max(u)}], Max(u)>>]
    <3>1. Max(u) \in 1 .. n /\ s[Max(u)] = Max(u)
      BY <1>2, <1>7, <2>3
    <3>2. h[u] = QueuePart(h[u \ {Max(u)}], k, Max(u), id)
      BY <2>1, <2>3, <3>1
    <3> QED BY <1>6, <2>3, <3>1, <3>2
  <2> QED BY <2>2, <2>3 DEF Obeys
<1> HIDE DEF h, Value, IsFold
<1>10. PICK r \in [0 .. n -> T] : IsRun(r, p, F, n) /\ h[1 .. n] = r[n]
  <2>1. n \in Nat /\ p \in T /\ F \in Turns(T, n) /\ Obeys(h, p, F, T, n)
    BY <1>1, <1>2, <1>5, <1>9
  <2> QED BY <2>1, FoldRuns
<1>11. end \in T
  <2>1. n \in 0 .. n
    BY <1>2
  <2> QED BY <1>2, <1>10, <2>1
<1> HIDE DEF end
<1> QED BY <1>3, <1>11 DEF T

LEMMA PingSendable == Sendable(Ping)
<1>1. <<0>> \in Seq(Nat)
  BY MembersOfOne
<1>2. Ping \in Packet /\ Ping.kind = "ping" /\ Ping.channel = Control /\ Ping.lengths = <<0>>
  BY <1>1 DEF Ping, Packet, Kind
<1> QED BY <1>2 DEF Sendable

-----------------------------------------------------------------------------
(* A pass.                                                                 *)

\* A walk that has all of the two lists of p ahead of it.
StartsAt(w, p) ==
    /\ w \in WalkType(now)
    /\ w.peer = [p EXCEPT !.outgoing = << >>, !.sendReliable = << >>]
    /\ w.outgoing = p.outgoing /\ w.sendReliable = p.sendReliable /\ w.wrap = FALSE

LEMMA StartGood ==
    ASSUME NEW p, NEW K, PeerGood(p, K), p.state = "connected", NEW w, StartsAt(w, p)
    PROVE  /\ WalkGood(w, K) /\ Parted(w)
           /\ w.peer.state = "connected" /\ w.peer.totalQueued = p.totalQueued
<1> DEFINE q == [p EXCEPT !.outgoing = << >>, !.sendReliable = << >>]
<1>1. /\ p \in PeerType(now) /\ FirstTimed(p) /\ Dated(PeerHeld(p), p)
      /\ Accounted(PeerHeld(p), PeerCount(p), p.windows, p.earliest, K) /\ Transit(p)
      /\ PeerOrdered(p)
  BY DEF PeerGood
<1>2. w \in WalkType(now) /\ w.peer = q /\ w.outgoing = p.outgoing /\ w.sendReliable = p.sendReliable
      /\ w.wrap = FALSE
  BY DEF StartsAt
<1>3. /\ q.outgoing = << >> /\ q.sendReliable = << >> /\ q.sent = p.sent /\ q.state = p.state
      /\ q.windows = p.windows /\ q.totalQueued = p.totalQueued
      /\ q.nextTimeout = p.nextTimeout /\ q.earliest = p.earliest /\ q.inTransit = p.inTransit
      /\ q.number = p.number
  BY <1>1 DEF PeerType
<1> HIDE DEF q
<1>4. WalkHeld(w) = PeerHeld(p)
  BY <1>2, <1>3, MembersOfNone DEF WalkHeld, PeerHeld
<1>5. WalkCount(w) = PeerCount(p)
  <2> DEFINE a == Len(p.outgoing)
             b == Len(p.sendReliable)
             s == Len(p.sent)
  <2>1. a \in Nat /\ b \in Nat /\ s \in Nat
    BY <1>1, PeerListTypes
  <2>2. Len(q.outgoing) = 0 /\ Len(q.sendReliable) = 0
    BY <1>3, MembersOfNone
  <2>3. WalkCount(w) = 0 + 0 + s + a + b
    BY <1>2, <1>3, <2>2, Zenon DEF WalkCount, PeerCount
  <2>4. PeerCount(p) = a + b + s
    BY Zenon DEF PeerCount
  <2> HIDE DEF a, b, s
  <2>5. 0 + 0 + s + a + b = a + b + s
    BY <2>1
  <2> QED BY <2>3, <2>4, <2>5, Zenon
<1>6. FirstTimed(w.peer) /\ Dated(WalkHeld(w), w.peer) /\ Transit(w.peer)
  BY <1>1, <1>2, <1>3, <1>4 DEF FirstTimed, Dated, Transit
<1>7. w.peer.state \in {"connected", "crashed"}
  BY <1>2, <1>3
<1>a. Outs(w) = p.outgoing /\ Rels(w) = p.sendReliable
  <2>1. p.outgoing \in Seq(Outgoings(now)) /\ p.sendReliable \in Seq(Packeted(now))
    BY <1>1, PeerListTypes
  <2> QED BY <1>2, <1>3, <2>1, ConcatEmptySeq DEF Outs, Rels
<1>b. WalkOrdered(w)
  BY <1>1, <1>2, <1>3, <1>4, <1>a DEF WalkOrdered, PeerOrdered
<1>c. Parted(w)
  BY <1>2, <1>3 DEF Parted
<1>8. WalkGood(w, K)
  BY <1>1, <1>2, <1>3, <1>4, <1>5, <1>6, <1>7, <1>b DEF WalkGood
<1> QED BY <1>2, <1>3, <1>8, <1>c

LEMMA WalkStarts ==
    ASSUME NEW p \in PeerType(now)
    PROVE  StartsAt(Walk(p), p)
<1> DEFINE q == [p EXCEPT !.outgoing = << >>, !.sendReliable = << >>]
           w == WalkOf(q, p.outgoing, p.sendReliable)
<1>1. p.outgoing \in Seq(Outgoings(now)) /\ p.sendReliable \in Seq(Packeted(now))
  BY PeerListTypes
<1>2. q \in PeerType(now)
  <2>1. << >> \in Seq(Outgoings(now)) /\ << >> \in Seq(Packeted(now))
    BY EmptySeq
  <2> QED BY <2>1 DEF PeerType
<1>3. Walk(p) = w
  BY Zenon DEF Walk, WalkOf
<1> HIDE DEF q
<1>4. w \in WalkType(now) /\ w.peer = q /\ w.outgoing = p.outgoing /\ w.sendReliable = p.sendReliable
  BY <1>1, <1>2, WalkOfTyped
<1>5. w.wrap = FALSE
  BY DEF WalkOf
<1> HIDE DEF w
<1> QED BY <1>3, <1>4, <1>5 DEF StartsAt, q

LEMMA PingIfQuietGood ==
    ASSUME now \in Nat \ {0}, NEW w, NEW K, WalkGood(w, K), w.outgoing = << >>, w.sendReliable = << >>
    PROVE  /\ WalkGood(PingIfQuiet(w), K)
           /\ PingIfQuiet(w).outgoing = << >> /\ PingIfQuiet(w).sendReliable = << >>
<1>1. CASE ~ WantsPing(w)
  BY <1>1 DEF PingIfQuiet
<1>2. CASE WantsPing(w)
  <2> DEFINE p == QueuePacket(w.peer, Ping)
             q == [p EXCEPT !.outgoing = << >>, !.sendReliable = << >>]
             o == p.outgoing
             r == p.sendReliable
             v == [w EXCEPT !.peer = q, !.outgoing = o, !.sendReliable = r, !.wrap = FALSE,
                            !.full = FALSE]
  <2>1. w.peer.state = "connected" /\ PeerGood(w.peer, K)
    BY <1>2, WalkDone DEF WantsPing
  <2>2. PeerGood(p, K) /\ p.state = "connected"
    BY <2>1, PingSendable, QueuePacketGood
  <2>3. PingIfQuiet(w) = CheckOutgoing(v)
    BY <1>2, Zenon DEF PingIfQuiet
  <2> HIDE DEF p
  <2>4. p \in PeerType(now) /\ o \in Seq(Outgoings(now)) /\ r \in Seq(Packeted(now))
    BY <2>2, PeerListTypes DEF PeerGood
  <2>5. q \in PeerType(now)
    <3>1. << >> \in Seq(Outgoings(now)) /\ << >> \in Seq(Packeted(now))
      BY EmptySeq
    <3> QED BY <2>4, <3>1 DEF PeerType
  <2>6. w \in WalkType(now)
    BY DEF WalkGood
  <2> HIDE DEF q, o, r
  <2>7. v \in WalkType(now) /\ v.peer = q /\ v.outgoing = o /\ v.sendReliable = r
        /\ v.wrap = FALSE
    BY <2>4, <2>5, <2>6 DEF WalkType
  <2> HIDE DEF v
  <2>8. StartsAt(v, p)
    BY <2>7 DEF StartsAt, q, o, r
  <2>9. WalkGood(v, K) /\ Parted(v)
    BY <2>2, <2>8, StartGood
  <2> QED BY <2>3, <2>9, CheckOutgoingGood
<1> QED BY <1>1, <1>2

\* A pass, with or without timeouts.
LEMMA SendPassGood ==
    ASSUME now \in Nat \ {0}, setting \in Settings, NEW p, NEW K, PeerGood(p, K),
           p.state = "connected", NEW check \in BOOLEAN
    PROVE  LET v == SendPass(p, check).peer
           IN  /\ PeerGood(v, K)
               /\ v.state \notin {"connected", "crashed"} => Outlived(p)
<1> DEFINE q == [p EXCEPT !.continue = FALSE]
           r == IF check /\ p.sent # << >> /\ now >= p.nextTimeout THEN CheckTimeouts(q) ELSE q
           w == SendPass(p, check)
<1>1. p \in PeerType(now)
  BY DEF PeerGood
<1>2. /\ q \in PeerType(now) /\ q.outgoing = p.outgoing /\ q.sendReliable = p.sendReliable
      /\ q.sent = p.sent /\ q.state = p.state
      /\ q.windows = p.windows /\ q.totalQueued = p.totalQueued
      /\ q.nextTimeout = p.nextTimeout /\ q.earliest = p.earliest /\ q.inTransit = p.inTransit
      /\ q.number = p.number
  BY <1>1 DEF PeerType
<1>3. w = IF r.state # "connected" THEN Walk(r) ELSE PingIfQuiet(CheckOutgoing(Walk(r)))
  BY Zenon DEF SendPass
<1> HIDE DEF q
<1>4. PeerGood(q, K) /\ q.state = "connected"
  BY <1>2 DEF PeerGood, FirstTimed, Dated, Transit, PeerHeld, PeerCount, PeerOrdered
<1>5. Outlived(q) => Outlived(p)
  BY <1>2 DEF Outlived, Sent
<1>6. PeerGood(r, K) /\ (r.state # "connected" => Outlived(p) /\ PeerHeld(r) = {})
  BY <1>4, <1>5, CheckTimeoutsGood
<1> HIDE DEF r, w
<1>7. r \in PeerType(now)
  BY <1>6 DEF PeerGood
<1>8. StartsAt(Walk(r), r)
  BY <1>7, WalkStarts
<1>9. CASE r.state = "connected"
  <2>1. WalkGood(Walk(r), K) /\ Parted(Walk(r))
    BY <1>6, <1>8, <1>9, StartGood
  <2>2. /\ WalkGood(CheckOutgoing(Walk(r)), K)
        /\ CheckOutgoing(Walk(r)).outgoing = << >> /\ CheckOutgoing(Walk(r)).sendReliable = << >>
    BY <2>1, CheckOutgoingGood
  <2>3. WalkGood(w, K) /\ w.outgoing = << >> /\ w.sendReliable = << >>
    BY <1>3, <1>9, <2>2, PingIfQuietGood
  <2>4. PeerGood(w.peer, K) /\ w.peer.state \in {"connected", "crashed"}
    BY <2>3, WalkDone DEF WalkGood
  <2> QED BY <2>4 DEF w
<1>10. CASE r.state # "connected"
  <2> DEFINE v == [r EXCEPT !.outgoing = << >>, !.sendReliable = << >>]
  <2>1. w.peer = v
    BY <1>3, <1>8, <1>10 DEF StartsAt
  <2>2. /\ v \in PeerType(now) /\ v.state = r.state /\ v.sent = r.sent /\ v.nextTimeout = r.nextTimeout
        /\ v.totalQueued = r.totalQueued /\ v.outgoing = << >> /\ v.sendReliable = << >>
    <3>1. << >> \in Seq(Outgoings(now)) /\ << >> \in Seq(Packeted(now))
      BY EmptySeq
    <3> QED BY <1>7, <3>1 DEF PeerType
  <2> HIDE DEF v
  <2>3. PeerHeld(v) \subseteq PeerHeld(r)
    BY <2>2, MembersOfNone DEF PeerHeld
  <2>5. PeerOrdered(v)
    <3>1. PeerHeld(v) = {}
      BY <1>6, <1>10, <2>3
    <3>2. v.number \in NumberType
      BY <2>2, PeerListTypes
    <3> QED BY <2>2, <3>1, <3>2, OrderedNone DEF PeerOrdered
  <2>6. Len(r.sent) = 0
    <3> DEFINE a == Len(r.outgoing)
               b == Len(r.sendReliable)
               s == Len(r.sent)
    <3>1. a \in Nat /\ b \in Nat /\ s \in Nat
      BY <1>7, PeerListTypes
    <3>2. PeerCount(r) = a + b + s
      BY Zenon DEF PeerCount
    <3>3. PeerCount(r) = 0
      BY <1>6, <1>10, FS_EmptySet DEF PeerGood
    <3> HIDE DEF a, b, s
    <3>4. s = 0
      BY <3>1, <3>2, <3>3
    <3> QED BY <3>4 DEF s
  <2>7. Cardinality(PeerHeld(v)) = PeerCount(v)
    <3>1. PeerHeld(v) = {}
      BY <1>6, <1>10, <2>3
    <3>2. PeerCount(v) = 0
      BY <2>2, <2>6, MembersOfNone DEF PeerCount
    <3> QED BY <3>1, <3>2, FS_EmptySet
  <2>4. PeerGood(v, K)
    BY <1>6, <1>10, <2>2, <2>3, <2>5, <2>7 DEF PeerGood, FirstTimed, Dated
  <2> QED BY <1>6, <1>10, <2>1, <2>4 DEF w
<1> QED BY <1>9, <1>10

-----------------------------------------------------------------------------
(* Acknowledgements.                                                       *)

LEMMA PeerPlaces ==
    ASSUME NEW p \in PeerType(now)
    PROVE  /\ IsFiniteSet(PeerHeld(p)) /\ PeerCount(p) \in Nat
           /\ Cardinality(PeerHeld(p)) <= PeerCount(p)
<1> DEFINE o == << >>
           r == << >>
           w == WalkOf(p, o, r)
<1>1. w \in WalkType(now) /\ w.peer = p /\ w.outgoing = << >> /\ w.sendReliable = << >>
  <2>1. o \in Seq(Outgoings(now)) /\ r \in Seq(Packeted(now))
    BY EmptySeq
  <2> HIDE DEF o, r
  <2>2. w \in WalkType(now) /\ w.peer = p /\ w.outgoing = o /\ w.sendReliable = r
    BY <2>1, WalkOfTyped
  <2> HIDE DEF w
  <2> QED BY <2>2 DEF o, r
<1> HIDE DEF w
<1>2. IsFiniteSet(WalkHeld(w)) /\ WalkCount(w) \in Nat /\ Cardinality(WalkHeld(w)) <= WalkCount(w)
  BY <1>1, Places
<1>3. WalkHeld(w) = PeerHeld(p)
  BY <1>1, MembersOfNone DEF WalkHeld
<1>4. WalkCount(w) = PeerCount(p)
  <2> DEFINE a == Len(p.outgoing)
             b == Len(p.sendReliable)
             s == Len(p.sent)
             m == PeerCount(p)
  <2>1. a \in Nat /\ b \in Nat /\ s \in Nat
    BY PeerListTypes
  <2>2. WalkCount(w) = m + 0 + 0
    BY <1>1, MembersOfNone, Zenon DEF WalkCount
  <2>3. m = a + b + s
    BY Zenon DEF PeerCount
  <2> HIDE DEF a, b, s, m
  <2>4. m + 0 + 0 = m
    BY <2>1, <2>3
  <2> QED BY <2>2, <2>4 DEF m
<1> QED BY <1>2, <1>3, <1>4

\* A list without one of its own, and one that lost a command that was sent.
LEMMA OrderedOutAt ==
    ASSUME NEW S, NEW L \in Seq(S), NEW i \in 1 .. Len(L), NEW B, NEW C \in SUBSET B,
           NEW M, NEW number, Ordered(B, L, M, number)
    PROVE  Ordered(C, SubSeq(L, 1, i - 1) \o SubSeq(L, i + 1, Len(L)), M, number)
<1> DEFINE X == SubSeq(L, 1, i - 1)
           D == <<L[i]>>
           Z == SubSeq(L, i + 1, Len(L))
<1>1. L[i] \in S /\ X \in Seq(S) /\ Z \in Seq(S) /\ L = X \o (D \o Z)
  BY Split
<1>2. D \in Seq(S)
  BY <1>1, MembersOfOne
<1> HIDE DEF X, D, Z
<1>3. Ordered(B, X \o (D \o Z), M, number)
  BY <1>1
<1>4. Ordered(C, X \o Z, M, number)
  BY <1>1, <1>2, <1>3, OrderedOut
<1> QED BY <1>4 DEF X, Z

LEMMA OrderedWithoutAt ==
    ASSUME NEW S, NEW M \in Seq(S), NEW i \in 1 .. Len(M), M[i].attempts > 0,
           NEW B, NEW C \in SUBSET B, NEW L, NEW number \in NumberType, Ordered(B, L, M, number)
    PROVE  Ordered(C, L, SubSeq(M, 1, i - 1) \o SubSeq(M, i + 1, Len(M)), number)
<1> DEFINE X == SubSeq(M, 1, i - 1)
           d == M[i]
           Z == SubSeq(M, i + 1, Len(M))
           N == X \o Z
<1>1. d \in S /\ X \in Seq(S) /\ Z \in Seq(S) /\ M = X \o (<<d>> \o Z) /\ d.attempts > 0
  BY Split
<1> HIDE DEF X, d, Z
<1>2. Ordered(B, L, X \o (<<d>> \o Z), number)
  BY <1>1
<1>3. Ordered(B, L, N, number)
  BY <1>1, <1>2, OrderedWithout
<1> HIDE DEF N
<1>4. RetriedFirst(L)
  BY DEF Ordered
<1>5. Ordered(C, L, N, number)
  BY <1>3, <1>4, OrderedLess
<1> QED BY <1>5 DEF X, Z, N

\* The window of a channel loses a command that was sent.
LEMMA ReleaseIs ==
    ASSUME NEW p \in PeerType(now), NEW K,
           Accounted(PeerHeld(p), PeerCount(p), p.windows, p.earliest, K),
           NEW d \in PeerHeld(p), d.attempts > 0
    PROVE  LET q == Release(p, d.number, d.channel)
           IN  /\ Renumbered([q EXCEPT !.windows = p.windows], p) /\ q \in PeerType(now)
               /\ q.number = p.number
               /\ \A ch \in Channels : \A k \in 0 .. Windows - 1 :
                     q.windows[ch][k] = IF d.channel = ch /\ Window(d) = k
                                        THEN p.windows[ch][k] - 1 ELSE p.windows[ch][k]
<1> DEFINE W == p.windows
           n == Window(d)
           c == d.channel
           q == Release(p, d.number, c)
<1>1. d \in AllCommands /\ IsFiniteSet(PeerHeld(p))
  BY DEF Accounted
<1>2. n \in 0 .. Windows - 1 /\ n = d.number \div WindowSize
  BY <1>1, WindowOf DEF Window
<1>3. W \in [Channels -> [0 .. Windows - 1 -> Nat]]
  BY DEF PeerType
<1>4. Renumbered([p EXCEPT !.windows = W], p)
  BY DEF Renumbered, PeerType
<1>5. CASE c \in Channels
  <2> DEFINE x == W[c][n]
             V == [W EXCEPT ![c] = [W[c] EXCEPT ![n] = x - 1]]
             I == 0 .. Windows - 1
  <2>1. x = Cardinality(InUse(PeerHeld(p), c, n))
    BY <1>2, <1>5 DEF Accounted
  <2>2. d \in InUse(PeerHeld(p), c, n)
    BY DEF InUse
  <2>3. x \in Nat \ {0}
    <3> DEFINE U == InUse(PeerHeld(p), c, n)
    <3>1. U \in SUBSET PeerHeld(p)
      BY DEF InUse
    <3>2. IsFiniteSet(U) /\ Cardinality(U) \in Nat
      BY <1>1, <3>1, FiniteParts
    <3>3. U # {}
      BY <2>2
    <3> HIDE DEF U
    <3>4. Cardinality(U) # 0
      BY <3>2, <3>3, FS_EmptySet
    <3> QED BY <2>1, <3>2, <3>4 DEF U
  <2>4. q = [p EXCEPT !.windows = V]
    <3>1. q = IF c \in Channels /\ p.windows[c][n] > 0 THEN [p EXCEPT !.windows[c][n] = @ - 1] ELSE p
      BY <1>2, Zenon DEF Release
    <3>2. [p EXCEPT !.windows[c][n] = @ - 1] = [p EXCEPT !.windows = V]
      BY Zenon
    <3>3. x > 0
      BY <2>3
    <3> QED BY <1>5, <3>1, <3>2, <3>3
  <2> HIDE DEF V, n, c, W
  <2>5. x - 1 \in Nat
    BY <2>3
  <2> DEFINE y == x - 1
  <2>6. /\ V \in [Channels -> [I -> Nat]]
        /\ \A e \in Channels : \A k \in I : V[e][k] = IF e = c /\ k = n THEN y ELSE W[e][k]
    <3>1. n \in I /\ W \in [Channels -> [I -> Nat]]
      BY <1>2, <1>3
    <3> HIDE DEF I
    <3>2. V = [W EXCEPT ![c] = [W[c] EXCEPT ![n] = y]]
      BY DEF V
    <3>3. y \in Nat
      BY <2>5
    <3> HIDE DEF y
    <3> QED BY <1>5, <3>1, <3>2, <3>3, Placed
  <2> HIDE DEF q
  <2>7. q \in PeerType(now) /\ q.windows = V /\ [q EXCEPT !.windows = W] = [p EXCEPT !.windows = W]
        /\ q.number = p.number
    <3>1. V \in [Channels -> [0 .. Windows - 1 -> Nat]]
      BY <2>6
    <3> QED BY <2>4, <3>1 DEF PeerType
  <2>8. \A ch \in Channels : \A k \in 0 .. Windows - 1 :
            q.windows[ch][k] = IF c = ch /\ n = k THEN W[ch][k] - 1 ELSE W[ch][k]
    BY <2>6, <2>7
  <2> QED BY <1>4, <2>7, <2>8 DEF q, n, c, W
<1>6. CASE c \notin Channels
  <2>1. q = p
    BY <1>6 DEF Release
  <2>2. \A ch \in Channels : c # ch
    BY <1>6
  <2> HIDE DEF q, n
  <2> QED BY <1>4, <2>1, <2>2 DEF q, n
<1> QED BY <1>5, <1>6

\* The front of the sent list is looked up again.
LEMMA NextFrontGood ==
    ASSUME now \in Nat, NEW x \in PeerType(now), x.state = "connected",
           Accounted(PeerHeld(x), PeerCount(x), x.windows, x.earliest, {}),
           Dated(PeerHeld(x), x), Transit(x), PeerOrdered(x)
    PROVE  PeerGood(NextFront(x), {}) /\ NextFront(x).state = "connected"
<1>1. CASE x.sent = << >>
  BY <1>1 DEF NextFront, PeerGood, FirstTimed
<1>2. CASE x.sent # << >>
  <2> DEFINE t == Head(x.sent).sentTime + Head(x.sent).timeout
             y == [x EXCEPT !.nextTimeout = t]
  <2>1. NextFront(x) = y
    BY <1>2 DEF NextFront
  <2>2. t \in Nat
    <3>1. x.sent \in Seq(AllCommands)
      BY PeerListTypes
    <3>2. Head(x.sent) \in AllCommands
      BY <1>2, <3>1, HeadTailProperties
    <3> QED BY <3>2 DEF AllCommands
  <2>3. y.nextTimeout = Head(y.sent).sentTime + Head(y.sent).timeout
    BY DEF PeerType
  <2> HIDE DEF t
  <2>4. /\ y \in PeerType(now) /\ y.outgoing = x.outgoing /\ y.sendReliable = x.sendReliable
        /\ y.sent = x.sent /\ y.state = x.state /\ y.windows = x.windows
        /\ y.totalQueued = x.totalQueued /\ y.earliest = x.earliest /\ y.inTransit = x.inTransit
        /\ y.number = x.number
    BY <2>2 DEF PeerType
  <2> HIDE DEF y
  <2>5. FirstTimed(y)
    BY <2>3 DEF FirstTimed
  <2>6. PeerGood(y, {})
    BY <2>4, <2>5 DEF PeerGood, Dated, Transit, PeerHeld, PeerCount, PeerOrdered
  <2> QED BY <2>1, <2>4, <2>6
<1> QED BY <1>1, <1>2

\* One command goes out of one of the lists, and out of its window.
LEMMA GoneGood ==
    ASSUME now \in Nat, NEW p, NEW K, PeerGood(p, K), p.state = "connected", p.earliest = Never,
           NEW d \in PeerHeld(p), d.attempts > 0, NEW x \in PeerType(now),
           PeerHeld(p) = PeerHeld(x) \cup {d}, PeerCount(p) = PeerCount(x) + 1,
           x.state = p.state, x.totalQueued = p.totalQueued, x.earliest = p.earliest,
           x.windows = Release(p, d.number, d.channel).windows, Transit(x), PeerOrdered(x)
    PROVE  PeerGood(NextFront(x), {}) /\ NextFront(x).state = "connected"
<1> DEFINE R == PeerHeld(x)
           m == PeerCount(x)
<1>1. /\ p \in PeerType(now) /\ Dated(PeerHeld(p), p)
      /\ Accounted(PeerHeld(p), PeerCount(p), p.windows, p.earliest, K)
  BY DEF PeerGood
<1>2. m \in Nat /\ Cardinality(R) <= m
  BY PeerPlaces
<1>3. \A ch \in Channels : \A k \in 0 .. Windows - 1 :
         x.windows[ch][k] = IF d.channel = ch /\ Window(d) = k
                            THEN p.windows[ch][k] - 1 ELSE p.windows[ch][k]
  <2> DEFINE q == Release(p, d.number, d.channel)
  <2>1. x.windows = q.windows
    OBVIOUS
  <2>2. \A ch \in Channels : \A k \in 0 .. Windows - 1 :
           q.windows[ch][k] = IF d.channel = ch /\ Window(d) = k
                              THEN p.windows[ch][k] - 1 ELSE p.windows[ch][k]
    <3> HIDE DEF R, m
    <3> QED BY <1>1, ReleaseIs
  <2> HIDE DEF q
  <2> QED BY <2>1, <2>2
<1>4. Accounted(R \cup {d}, m + 1, p.windows, Never, K)
  BY <1>1
<1> HIDE DEF R, m
<1> DEFINE V == x.windows
           W == p.windows
<1>5. \A ch \in Channels : \A k \in 0 .. Windows - 1 :
         V[ch][k] = IF d.channel = ch /\ Window(d) = k THEN W[ch][k] - 1 ELSE W[ch][k]
  BY <1>3
<1>6. Accounted(R \cup {d}, m + 1, W, Never, K)
  BY <1>4
<1> HIDE DEF V, W
<1>7. Accounted(R, m, V, Never, {})
  BY <1>2, <1>5, <1>6, Released
<1>8. Dated(R, x)
  BY <1>1 DEF R, Dated
<1> QED BY <1>7, <1>8, NextFrontGood DEF R, m, V

LEMMA FirstFound ==
    ASSUME NEW M \in SUBSET Nat, M # {}
    PROVE  (CHOOSE i \in M : \A j \in M : i <= j) \in M
  BY Least

LEMMA FindSentIs ==
    ASSUME NEW S, NEW L \in Seq(S), NEW number, NEW channel, FindSent(L, number, channel) # 0
    PROVE  LET i == FindSent(L, number, channel)
           IN  i \in 1 .. Len(L) /\ L[i].number = number /\ L[i].channel = channel
<1> DEFINE M == Matches(L, number, channel)
<1>1. DOMAIN L = 1 .. Len(L) /\ Len(L) \in Nat
  BY LenProperties
<1>2. M \in SUBSET Nat
  BY <1>1 DEF Matches
<1>3. M # {}
  BY DEF FindSent
<1>4. FindSent(L, number, channel) = CHOOSE i \in M : \A j \in M : i <= j
  BY <1>3 DEF FindSent
<1> HIDE DEF M
<1>5. FindSent(L, number, channel) \in M
  BY <1>2, <1>3, <1>4, FirstFound
<1> QED BY <1>1, <1>5 DEF M, Matches

LEMMA FindRetriedIs ==
    ASSUME NEW S, NEW L \in Seq(S), \A d \in S : d.attempts \in Nat,
           NEW number, NEW channel, FindRetried(L, number, channel) # 0
    PROVE  LET i == FindRetried(L, number, channel)
           IN  /\ i \in 1 .. Len(L) /\ L[i].number = number /\ L[i].channel = channel
               /\ L[i].attempts > 0
<1> DEFINE M == {i \in Matches(L, number, channel) :
                    /\ Reliable(L[i])
                    /\ \A j \in 1 .. i : Reliable(L[j]) => L[j].attempts >= 1}
<1>1. DOMAIN L = 1 .. Len(L) /\ Len(L) \in Nat /\ \A i \in 1 .. Len(L) : L[i] \in S
  BY LenProperties, ElementOfSeq
<1>2. M \in SUBSET Nat
  BY <1>1 DEF Matches
<1>3. M # {}
  BY DEF FindRetried
<1>4. FindRetried(L, number, channel) = CHOOSE i \in M : \A j \in M : i <= j
  BY <1>3 DEF FindRetried
<1> HIDE DEF M
<1>5. FindRetried(L, number, channel) \in M
  BY <1>2, <1>3, <1>4, FirstFound
<1> DEFINE i == FindRetried(L, number, channel)
<1> HIDE DEF i
<1>6. i \in M
  BY <1>5 DEF i
<1>7. i \in Matches(L, number, channel) /\ Reliable(L[i])
      /\ \A j \in 1 .. i : Reliable(L[j]) => L[j].attempts >= 1
  BY <1>6 DEF M
<1>8. i \in 1 .. Len(L) /\ L[i].number = number /\ L[i].channel = channel
  BY <1>1, <1>7 DEF Matches
<1>9. i \in 1 .. i /\ L[i].attempts \in Nat
  BY <1>1, <1>8
<1>10. L[i].attempts > 0
  BY <1>7, <1>9
<1> QED BY <1>8, <1>10 DEF i

LEMMA ListedAt ==
    ASSUME NEW S, NEW L \in Seq(S), NEW i \in 1 .. Len(L)
    PROVE  L[i] \in S /\ L[i] \in Members(L)
<1>1. L[i] \in S /\ Members(L) = {L[j] : j \in 1 .. Len(L)}
  BY ElementOfSeq, MembersIn
<1> QED BY <1>1

\* Found in the sent list: its data is no longer in transit.
LEMMA RemovedSent ==
    ASSUME now \in Nat, NEW p, NEW K, PeerGood(p, K), p.state = "connected", p.earliest = Never,
           NEW i \in 1 .. Len(p.sent)
    PROVE  LET d == p.sent[i]
               q == Release(p, d.number, d.channel)
               x == NextFront([q EXCEPT !.sent = RemoveAt(@, i), !.inTransit = @ - p.sent[i].length])
           IN  PeerGood(x, {}) /\ x.state = "connected"
<1> DEFINE d == p.sent[i]
           q == Release(p, d.number, d.channel)
           L == p.sent
           S == SubSeq(L, 1, i - 1) \o SubSeq(L, i + 1, Len(L))
           t == p.inTransit - d.length
           x == [q EXCEPT !.sent = S, !.inTransit = t]
<1>1. /\ p \in PeerType(now) /\ Transit(p) /\ PeerOrdered(p)
      /\ Accounted(PeerHeld(p), PeerCount(p), p.windows, p.earliest, K)
  BY DEF PeerGood
<1>2. /\ L \in Seq(Sents(now)) /\ L \in Seq(AllCommands) /\ p.inTransit \in Int
      /\ Len(p.outgoing) \in Nat /\ Len(p.sendReliable) \in Nat /\ Len(L) \in Nat
  BY <1>1, PeerListTypes
<1>3. d \in Sents(now) /\ d \in Members(L) /\ d \in AllCommands
  BY <1>2, ListedAt
<1>4. d \in PeerHeld(p) /\ d.attempts > 0 /\ d.length \in Nat
  BY <1>3 DEF PeerHeld, Sents, AllCommands
<1>5. /\ S \in Seq(Sents(now)) /\ Len(S) = Len(L) - 1 /\ Members(L) = Members(S) \cup {d}
  BY <1>2, MembersSplit
<1>6. SeqSum(Data, S) = SeqSum(Data, L) - d.length
  <2>1. SeqSum(Data, S) = SeqSum(Data, L) - Data[d]
    BY <1>2, DataType, SeqSumWithout
  <2>2. Data[d] = d.length
    BY <1>3 DEF Data
  <2> QED BY <2>1, <2>2
<1>7. RemoveAt(L, i) = S
  BY DEF RemoveAt
<1> HIDE DEF d, S
<1>8. /\ Renumbered([q EXCEPT !.windows = p.windows], p) /\ q \in PeerType(now)
      /\ q.number = p.number
  BY <1>1, <1>4, ReleaseIs
<1> HIDE DEF q
<1>9. /\ q.state = p.state /\ q.outgoing = p.outgoing /\ q.sendReliable = p.sendReliable
      /\ q.sent = p.sent /\ q.totalQueued = p.totalQueued
      /\ q.nextTimeout = p.nextTimeout /\ q.earliest = p.earliest /\ q.inTransit = p.inTransit
  BY <1>8 DEF Renumbered, PeerType
<1>10. [q EXCEPT !.sent = RemoveAt(@, i), !.inTransit = @ - p.sent[i].length] = x
  <2>1. p.sent[i] = d
    BY DEF d
  <2> HIDE DEF L
  <2>2. RemoveAt(q.sent, i) = S /\ q.inTransit - p.sent[i].length = t
    BY <1>7, <1>9, <2>1 DEF L
  <2>3. [q EXCEPT !.sent = RemoveAt(@, i), !.inTransit = @ - p.sent[i].length]
           = [q EXCEPT !.sent = RemoveAt(q.sent, i), !.inTransit = q.inTransit - p.sent[i].length]
    BY Zenon
  <2> HIDE DEF t
  <2> QED BY <2>2, <2>3, Zenon
<1>11. t \in Int
  BY <1>2, <1>4
<1>12. t = SeqSum(Data, S) /\ t <= Larger(FlowWindow, Capacity)
  <2> DEFINE m == Larger(FlowWindow, Capacity)
             y == p.inTransit
             z == d.length
  <2>1. y = SeqSum(Data, L) /\ y <= m
    BY <1>1 DEF Transit
  <2>2. m \in Nat
    BY Sizes DEF Larger
  <2>3. y \in Int /\ z \in Nat /\ t = y - z
    BY <1>2, <1>4
  <2>4. SeqSum(Data, S) = y - z
    BY <1>6, <2>1
  <2> HIDE DEF m, y, z, t
  <2>5. y - z <= m
    BY <2>1, <2>2, <2>3
  <2> QED BY <2>3, <2>4, <2>5 DEF m
<1> HIDE DEF t
<1>13. /\ x \in PeerType(now) /\ x.sent = S /\ x.inTransit = t /\ x.state = p.state
       /\ x.outgoing = p.outgoing /\ x.sendReliable = p.sendReliable
       /\ x.totalQueued = p.totalQueued /\ x.earliest = p.earliest /\ x.windows = q.windows
       /\ x.number = p.number
  BY <1>5, <1>8, <1>9, <1>11 DEF PeerType
<1> HIDE DEF x
<1>14. Transit(x)
  BY <1>12, <1>13 DEF Transit
<1>15. PeerHeld(p) = PeerHeld(x) \cup {d}
  BY <1>5, <1>13 DEF PeerHeld
<1>16. PeerCount(p) = PeerCount(x) + 1
  <2> DEFINE a == Len(p.outgoing)
             b == Len(p.sendReliable)
             l == Len(L)
  <2>1. PeerCount(p) = a + b + l
    BY Zenon DEF PeerCount
  <2>2. PeerCount(x) = a + b + (l - 1)
    BY <1>5, <1>13, Zenon DEF PeerCount
  <2>3. a \in Nat /\ b \in Nat /\ l \in Nat
    BY <1>2
  <2> HIDE DEF a, b, l
  <2>4. a + b + l = a + b + (l - 1) + 1
    BY <2>3
  <2> QED BY <2>1, <2>2, <2>4, Zenon
<1>17. x.windows = Release(p, d.number, d.channel).windows
  BY <1>13 DEF q
<1>o. PeerOrdered(x)
  <2>1. Ordered(PeerHeld(p), p.outgoing, p.sendReliable, p.number)
    BY <1>1 DEF PeerOrdered
  <2>2. RetriedFirst(p.outgoing)
    BY <2>1 DEF Ordered
  <2>3. Ordered(PeerHeld(x), p.outgoing, p.sendReliable, p.number)
    BY <1>15, <2>1, <2>2, OrderedLess
  <2> QED BY <1>13, <2>3 DEF PeerOrdered
<1>18. PeerGood(NextFront(x), {}) /\ NextFront(x).state = "connected"
  BY <1>4, <1>13, <1>14, <1>15, <1>16, <1>17, <1>o, GoneGood
<1> QED BY <1>10, <1>18, Zenon DEF d, q

\* Found among the commands without packet that are sent again: it was not in transit.
LEMMA RemovedOutgoing ==
    ASSUME now \in Nat, NEW p, NEW K, PeerGood(p, K), p.state = "connected", p.earliest = Never,
           NEW i \in 1 .. Len(p.outgoing), p.outgoing[i].attempts > 0
    PROVE  LET d == p.outgoing[i]
               q == Release(p, d.number, d.channel)
               x == NextFront([q EXCEPT !.outgoing = RemoveAt(@, i)])
           IN  PeerGood(x, {}) /\ x.state = "connected"
<1> DEFINE d == p.outgoing[i]
           q == Release(p, d.number, d.channel)
           L == p.outgoing
           S == SubSeq(L, 1, i - 1) \o SubSeq(L, i + 1, Len(L))
           x == [q EXCEPT !.outgoing = S]
<1>1. /\ p \in PeerType(now) /\ Transit(p) /\ PeerOrdered(p)
      /\ Accounted(PeerHeld(p), PeerCount(p), p.windows, p.earliest, K)
  BY DEF PeerGood
<1>2. /\ L \in Seq(Outgoings(now)) /\ Len(p.sent) \in Nat /\ Len(p.sendReliable) \in Nat /\ Len(L) \in Nat
  BY <1>1, PeerListTypes
<1>3. d \in Members(L)
  BY <1>2, ListedAt
<1>4. d \in PeerHeld(p) /\ d.attempts > 0
  BY <1>3 DEF PeerHeld
<1>5. /\ S \in Seq(Outgoings(now)) /\ Len(S) = Len(L) - 1 /\ Members(L) = Members(S) \cup {d}
  BY <1>2, MembersSplit
<1>6. RemoveAt(L, i) = S
  BY DEF RemoveAt
<1> HIDE DEF d, S
<1>7. /\ Renumbered([q EXCEPT !.windows = p.windows], p) /\ q \in PeerType(now)
      /\ q.number = p.number
  BY <1>1, <1>4, ReleaseIs
<1> HIDE DEF q
<1>8. /\ q.state = p.state /\ q.outgoing = p.outgoing /\ q.sendReliable = p.sendReliable
      /\ q.sent = p.sent /\ q.totalQueued = p.totalQueued
      /\ q.nextTimeout = p.nextTimeout /\ q.earliest = p.earliest /\ q.inTransit = p.inTransit
  BY <1>7 DEF Renumbered, PeerType
<1>9. [q EXCEPT !.outgoing = RemoveAt(@, i)] = x
  BY <1>6, <1>8, Zenon
<1>10. /\ x \in PeerType(now) /\ x.outgoing = S /\ x.inTransit = p.inTransit /\ x.state = p.state
       /\ x.sent = p.sent /\ x.sendReliable = p.sendReliable
       /\ x.totalQueued = p.totalQueued /\ x.earliest = p.earliest /\ x.windows = q.windows
       /\ x.number = p.number
  BY <1>5, <1>7, <1>8 DEF PeerType
<1> HIDE DEF x
<1>11. Transit(x)
  BY <1>1, <1>10 DEF Transit
<1>12. PeerHeld(p) = PeerHeld(x) \cup {d}
  BY <1>5, <1>10 DEF PeerHeld
<1>13. PeerCount(p) = PeerCount(x) + 1
  <2> DEFINE a == Len(p.sendReliable)
             s == Len(p.sent)
             l == Len(L)
  <2>1. PeerCount(p) = l + a + s
    BY Zenon DEF PeerCount
  <2>2. PeerCount(x) = (l - 1) + a + s
    BY <1>5, <1>10, Zenon DEF PeerCount
  <2>3. a \in Nat /\ s \in Nat /\ l \in Nat
    BY <1>2
  <2> HIDE DEF a, s, l
  <2>4. l + a + s = (l - 1) + a + s + 1
    BY <2>3
  <2> QED BY <2>1, <2>2, <2>4, Zenon
<1>14. x.windows = Release(p, d.number, d.channel).windows
  BY <1>10 DEF q
<1>o. PeerOrdered(x)
  <2>1. Ordered(PeerHeld(p), L, p.sendReliable, p.number)
    BY <1>1 DEF PeerOrdered
  <2>2. PeerHeld(x) \in SUBSET PeerHeld(p) /\ i \in 1 .. Len(L)
    BY <1>12
  <2> HIDE DEF L
  <2>3. Ordered(PeerHeld(x), S, p.sendReliable, p.number)
    BY <1>2, <2>1, <2>2, OrderedOutAt DEF S
  <2> QED BY <1>10, <2>3 DEF PeerOrdered
<1>15. PeerGood(NextFront(x), {}) /\ NextFront(x).state = "connected"
  BY <1>4, <1>10, <1>11, <1>12, <1>13, <1>14, <1>o, GoneGood
<1> QED BY <1>9, <1>15, Zenon DEF d, q

\* Found among the packets that are sent again: it was not in transit.
LEMMA RemovedPacketed ==
    ASSUME now \in Nat, NEW p, NEW K, PeerGood(p, K), p.state = "connected", p.earliest = Never,
           NEW i \in 1 .. Len(p.sendReliable), p.sendReliable[i].attempts > 0
    PROVE  LET d == p.sendReliable[i]
               q == Release(p, d.number, d.channel)
               x == NextFront([q EXCEPT !.sendReliable = RemoveAt(@, i)])
           IN  PeerGood(x, {}) /\ x.state = "connected"
<1> DEFINE d == p.sendReliable[i]
           q == Release(p, d.number, d.channel)
           L == p.sendReliable
           S == SubSeq(L, 1, i - 1) \o SubSeq(L, i + 1, Len(L))
           x == [q EXCEPT !.sendReliable = S]
<1>1. /\ p \in PeerType(now) /\ Transit(p) /\ PeerOrdered(p)
      /\ Accounted(PeerHeld(p), PeerCount(p), p.windows, p.earliest, K)
  BY DEF PeerGood
<1>2. /\ L \in Seq(Packeted(now)) /\ Len(p.sent) \in Nat /\ Len(p.outgoing) \in Nat /\ Len(L) \in Nat
  BY <1>1, PeerListTypes
<1>3. d \in Members(L)
  BY <1>2, ListedAt
<1>4. d \in PeerHeld(p) /\ d.attempts > 0
  BY <1>3 DEF PeerHeld
<1>5. /\ S \in Seq(Packeted(now)) /\ Len(S) = Len(L) - 1 /\ Members(L) = Members(S) \cup {d}
  BY <1>2, MembersSplit
<1>6. RemoveAt(L, i) = S
  BY DEF RemoveAt
<1> HIDE DEF d, S
<1>7. /\ Renumbered([q EXCEPT !.windows = p.windows], p) /\ q \in PeerType(now)
      /\ q.number = p.number
  BY <1>1, <1>4, ReleaseIs
<1> HIDE DEF q
<1>8. /\ q.state = p.state /\ q.outgoing = p.outgoing /\ q.sendReliable = p.sendReliable
      /\ q.sent = p.sent /\ q.totalQueued = p.totalQueued
      /\ q.nextTimeout = p.nextTimeout /\ q.earliest = p.earliest /\ q.inTransit = p.inTransit
  BY <1>7 DEF Renumbered, PeerType
<1>9. [q EXCEPT !.sendReliable = RemoveAt(@, i)] = x
  BY <1>6, <1>8, Zenon
<1>10. /\ x \in PeerType(now) /\ x.sendReliable = S /\ x.inTransit = p.inTransit /\ x.state = p.state
       /\ x.sent = p.sent /\ x.outgoing = p.outgoing
       /\ x.totalQueued = p.totalQueued /\ x.earliest = p.earliest /\ x.windows = q.windows
       /\ x.number = p.number
  BY <1>5, <1>7, <1>8 DEF PeerType
<1> HIDE DEF x
<1>11. Transit(x)
  BY <1>1, <1>10 DEF Transit
<1>12. PeerHeld(p) = PeerHeld(x) \cup {d}
  BY <1>5, <1>10 DEF PeerHeld
<1>13. PeerCount(p) = PeerCount(x) + 1
  <2> DEFINE a == Len(p.outgoing)
             s == Len(p.sent)
             l == Len(L)
  <2>1. PeerCount(p) = a + l + s
    BY Zenon DEF PeerCount
  <2>2. PeerCount(x) = a + (l - 1) + s
    BY <1>5, <1>10, Zenon DEF PeerCount
  <2>3. a \in Nat /\ s \in Nat /\ l \in Nat
    BY <1>2
  <2> HIDE DEF a, s, l
  <2>4. a + l + s = a + (l - 1) + s + 1
    BY <2>3
  <2> QED BY <2>1, <2>2, <2>4, Zenon
<1>14. x.windows = Release(p, d.number, d.channel).windows
  BY <1>10 DEF q
<1>o. PeerOrdered(x)
  <2>1. Ordered(PeerHeld(p), p.outgoing, L, p.number)
    BY <1>1 DEF PeerOrdered
  <2>2. /\ PeerHeld(x) \in SUBSET PeerHeld(p) /\ i \in 1 .. Len(L) /\ L[i].attempts > 0
        /\ p.number \in NumberType
    BY <1>1, <1>12, PeerListTypes
  <2> HIDE DEF L
  <2>3. Ordered(PeerHeld(x), p.outgoing, S, p.number)
    BY <1>2, <2>1, <2>2, OrderedWithoutAt DEF S
  <2> QED BY <1>10, <2>3 DEF PeerOrdered
<1>15. PeerGood(NextFront(x), {}) /\ NextFront(x).state = "connected"
  BY <1>4, <1>10, <1>11, <1>12, <1>13, <1>14, <1>o, GoneGood
<1> QED BY <1>9, <1>15, Zenon DEF d, q

\* remove_sent_reliable_command keeps the accounts.
LEMMA RemoveSentGood ==
    ASSUME now \in Nat, NEW p, NEW K, PeerGood(p, K), p.state = "connected", p.earliest = Never,
           NEW number, NEW channel
    PROVE  LET x == RemoveSent(p, number, channel)
           IN  PeerGood(x, {}) /\ x.state = "connected"
<1> DEFINE i == FindSent(p.sent, number, channel)
           j == FindRetried(p.outgoing, number, channel)
           k == FindRetried(p.sendReliable, number, channel)
           q == Release(p, number, channel)
           x == RemoveSent(p, number, channel)
<1>1. x = IF i # 0
          THEN NextFront([q EXCEPT !.sent = RemoveAt(@, i), !.inTransit = @ - p.sent[i].length])
          ELSE IF j # 0 THEN NextFront([q EXCEPT !.outgoing = RemoveAt(@, j)])
          ELSE IF k # 0 THEN NextFront([q EXCEPT !.sendReliable = RemoveAt(@, k)])
          ELSE p
  BY Zenon DEF RemoveSent
<1>2. p \in PeerType(now)
  BY DEF PeerGood
<1>3. /\ p.sent \in Seq(Sents(now)) /\ p.outgoing \in Seq(Outgoings(now))
      /\ p.sendReliable \in Seq(Packeted(now))
  BY <1>2, PeerListTypes
<1>4. /\ \A d \in Outgoings(now) : d.attempts \in Nat
      /\ \A d \in Packeted(now) : d.attempts \in Nat
  BY DEF Outgoings, Packeted, Commands, AllCommands
<1>5. i # 0 => i \in 1 .. Len(p.sent) /\ p.sent[i].number = number /\ p.sent[i].channel = channel
  BY <1>3, FindSentIs
<1>6. j # 0 => /\ j \in 1 .. Len(p.outgoing) /\ p.outgoing[j].attempts > 0
               /\ p.outgoing[j].number = number /\ p.outgoing[j].channel = channel
  BY <1>3, <1>4, FindRetriedIs
<1>7. k # 0 => /\ k \in 1 .. Len(p.sendReliable) /\ p.sendReliable[k].attempts > 0
               /\ p.sendReliable[k].number = number /\ p.sendReliable[k].channel = channel
  BY <1>3, <1>4, FindRetriedIs
<1> HIDE DEF i, j, k, x
<1>8. CASE i # 0
  <2>1. q = Release(p, p.sent[i].number, p.sent[i].channel)
    BY <1>5, <1>8, Zenon
  <2> DEFINE y == NextFront([q EXCEPT !.sent = RemoveAt(@, i), !.inTransit = @ - p.sent[i].length])
  <2>2. x = y
    BY <1>1, <1>8
  <2> HIDE DEF q
  <2>3. PeerGood(y, {}) /\ y.state = "connected"
    BY <1>5, <1>8, <2>1, RemovedSent, Zenon
  <2> QED BY <2>2, <2>3 DEF x
<1>9. CASE i = 0 /\ j # 0
  <2>1. q = Release(p, p.outgoing[j].number, p.outgoing[j].channel)
    BY <1>6, <1>9, Zenon
  <2> DEFINE y == NextFront([q EXCEPT !.outgoing = RemoveAt(@, j)])
  <2>2. x = y
    BY <1>1, <1>9
  <2> HIDE DEF q
  <2>3. PeerGood(y, {}) /\ y.state = "connected"
    BY <1>6, <1>9, <2>1, RemovedOutgoing, Zenon
  <2> QED BY <2>2, <2>3 DEF x
<1>10. CASE i = 0 /\ j = 0 /\ k # 0
  <2>1. q = Release(p, p.sendReliable[k].number, p.sendReliable[k].channel)
    BY <1>7, <1>10, Zenon
  <2> DEFINE y == NextFront([q EXCEPT !.sendReliable = RemoveAt(@, k)])
  <2>2. x = y
    BY <1>1, <1>10
  <2> HIDE DEF q
  <2>3. PeerGood(y, {}) /\ y.state = "connected"
    BY <1>7, <1>10, <2>1, RemovedPacketed, Zenon
  <2> QED BY <2>2, <2>3 DEF x
<1>11. CASE i = 0 /\ j = 0 /\ k = 0
  <2>1. x = p
    BY <1>1, <1>11
  <2>2. PeerGood(p, {})
    BY DEF PeerGood, Accounted
  <2> QED BY <2>1, <2>2 DEF x
<1> QED BY <1>8, <1>9, <1>10, <1>11

\* An acknowledgement has the first timeout forgotten.
LEMMA HeardGood ==
    ASSUME now \in Nat, NEW p, NEW K, PeerGood(p, K), p.state = "connected",
           NEW roundTrip \in Nat \ {0}, NEW throttle \in 0 .. Scale
    PROVE  LET x == Heard(p, roundTrip, throttle)
           IN  PeerGood(x, {}) /\ x.state = "connected" /\ x.earliest = Never
<1> DEFINE x == Heard(p, roundTrip, throttle)
<1>1. /\ p \in PeerType(now) /\ FirstTimed(p) /\ Dated(PeerHeld(p), p)
      /\ Accounted(PeerHeld(p), PeerCount(p), p.windows, p.earliest, K) /\ Transit(p)
      /\ PeerOrdered(p)
  BY DEF PeerGood
<1>2. Never \in Nat
  BY DEF Never
<1>3. /\ x \in PeerType(now) /\ x.state = p.state /\ x.outgoing = p.outgoing
      /\ x.sendReliable = p.sendReliable /\ x.sent = p.sent /\ x.windows = p.windows
      /\ x.totalQueued = p.totalQueued /\ x.nextTimeout = p.nextTimeout
      /\ x.earliest = Never /\ x.inTransit = p.inTransit
      /\ x.number = p.number
  BY <1>1, <1>2 DEF Heard, PeerType
<1> HIDE DEF x
<1>4. PeerHeld(x) = PeerHeld(p) /\ PeerCount(x) = PeerCount(p)
  BY <1>3 DEF PeerHeld, PeerCount
<1>5. Accounted(PeerHeld(p), PeerCount(p), p.windows, Never, {})
  BY <1>1 DEF Accounted
<1>6. FirstTimed(x) /\ Dated(PeerHeld(p), x) /\ Transit(x) /\ PeerOrdered(x)
  BY <1>1, <1>3, <1>4 DEF FirstTimed, Dated, Transit, PeerOrdered
<1>7. PeerGood(x, {})
  BY <1>3, <1>4, <1>5, <1>6 DEF PeerGood
<1> QED BY <1>3, <1>7 DEF x

-----------------------------------------------------------------------------
(* The invariant.                                                          *)

\* The data of a list, added up one by one.
LEMMA FoldIsSum ==
    ASSUME NEW s \in Seq(AllCommands)
    PROVE  FoldLeft(LAMBDA acc, c : acc + c.length, 0, s) = SeqSum(Data, s)
<1> DEFINE n == Len(s)
           T == Int
           z == 0
           F == [y \in T \X (1 .. n) |-> y[1] + s[y[2]].length]
           Value(g, u) == IF u = {} THEN z ELSE g[u \ {Max(u)}] + s[Max(u)].length
           IsFold(g) == g = [u \in SUBSET DOMAIN s |-> Value(g, u)]
           h == CHOOSE g : IsFold(g)
           end == h[DOMAIN s]
<1>1. n \in Nat /\ DOMAIN s = 1 .. n
  BY LenProperties
<1>2. FoldLeft(LAMBDA acc, c : acc + c.length, 0, s) = end
  BY Zenon DEF FoldLeft, MapThenFoldSet
<1>3. \A i \in 1 .. n : s[i] \in AllCommands /\ s[i].length \in Nat /\ Data[s[i]] = s[i].length
  <2> SUFFICES ASSUME NEW i \in 1 .. n
               PROVE  s[i] \in AllCommands /\ s[i].length \in Nat /\ Data[s[i]] = s[i].length
    OBVIOUS
  <2>1. s[i] \in AllCommands
    BY ListedAt
  <2>2. s[i].length \in Nat
    BY <2>1 DEF AllCommands
  <2>3. Data[s[i]] = s[i].length
    BY <2>1 DEF Data
  <2> QED BY <2>1, <2>2, <2>3
<1>4. z \in T
  OBVIOUS
<1>5. \A x \in T : \A i \in 1 .. n : x + s[i].length \in T
  BY <1>3
<1> HIDE DEF n, T, z
<1>6. F \in Turns(T, n)
  <2>1. ASSUME NEW y \in T \X (1 .. n) PROVE y[1] + s[y[2]].length \in T
    BY <1>5
  <2> QED BY <2>1 DEF Turns
<1>7. \A x \in T : \A i \in 1 .. n : F[<<x, i>>] = x + s[i].length
  OBVIOUS
<1> HIDE DEF F
<1>8. ASSUME NEW u \in SUBSET (1 .. n), u # {}
      PROVE  Max(u) \in 1 .. n /\ u \ {Max(u)} \in SUBSET (1 .. n)
  BY <1>1, <1>8, LastPosition
<1>9. IsFold(h)
  <2>0. PICK g \in [SUBSET (1 .. n) -> T] : IsFoldOf(g, z, F, n)
    <3>1. n \in Nat /\ z \in T /\ F \in Turns(T, n)
      BY <1>1, <1>4, <1>6
    <3> QED BY <3>1, FoldsObey, Zenon
  <2>1. \A u \in SUBSET (1 .. n) : g[u] = IF u = {} THEN z ELSE F[<<g[u \ {Max(u)}], Max(u)>>]
    BY <2>0 DEF IsFoldOf
  <2>2. ASSUME NEW u \in SUBSET (1 .. n) PROVE g[u] = Value(g, u)
    <3>1. CASE u = {}
      BY <2>1, <3>1
    <3>2. CASE u # {}
      <4>1. Max(u) \in 1 .. n /\ g[u \ {Max(u)}] \in T
        BY <1>8, <2>1, <3>2
      <4>2. F[<<g[u \ {Max(u)}], Max(u)>>] = g[u \ {Max(u)}] + s[Max(u)].length
        BY <1>7, <4>1
      <4> QED BY <2>1, <3>2, <4>2
    <3> QED BY <3>1, <3>2
  <2>3. IsFold(g)
    <3> HIDE DEF Value
    <3> QED BY <1>1, <2>1, <2>2
  <2> HIDE DEF IsFold
  <2> QED BY <2>3
<1>10. Obeys(h, z, F, T, n)
  <2>1. ASSUME NEW u \in SUBSET (1 .. n) PROVE h[u] = Value(h, u)
    <3> HIDE DEF Value, h
    <3> QED BY <1>1, <1>9
  <2> HIDE DEF h
  <2>2. ASSUME NEW u \in SUBSET (1 .. n), u = {} PROVE h[u] = z
    BY <2>1, <2>2
  <2>3. ASSUME NEW u \in SUBSET (1 .. n), u # {}, h[u \ {Max(u)}] \in T
        PROVE  h[u] = F[<<h[u \ {Max(u)}], Max(u)>>]
    <3>1. h[u] = h[u \ {Max(u)}] + s[Max(u)].length
      BY <2>1, <2>3
    <3> QED BY <1>7, <1>8, <2>3, <3>1
  <2> QED BY <2>2, <2>3 DEF Obeys
<1> HIDE DEF h, Value, IsFold
<1>11. PICK r \in [0 .. n -> T] : IsRun(r, z, F, n) /\ h[1 .. n] = r[n]
  <2>1. n \in Nat /\ z \in T /\ F \in Turns(T, n) /\ Obeys(h, z, F, T, n)
    BY <1>1, <1>4, <1>6, <1>10
  <2> QED BY <2>1, FoldRuns
<1>12. r \in [0 .. Len(s) -> Int] /\ SeqSums(r, Data, s)
  <2>1. r[0] = 0
    BY <1>11 DEF IsRun, z
  <2>2. ASSUME NEW i \in 1 .. n PROVE r[i] = r[i - 1] + Data[s[i]]
    <3>1. r[i] = F[<<r[i - 1], i>>] /\ i - 1 \in 0 .. n
      BY <1>1, <1>11 DEF IsRun
    <3>2. r[i] = r[i - 1] + s[i].length
      BY <1>7, <1>11, <3>1
    <3> QED BY <1>3, <3>2 DEF n
  <2> QED BY <1>11, <2>1, <2>2 DEF SeqSums, n, T
<1>13. SeqSum(Data, s) = r[Len(s)]
  BY <1>12, DataType, SeqSumIs
<1>14. end = r[n]
  BY <1>1, <1>11
<1> HIDE DEF end
<1> QED BY <1>2, <1>13, <1>14 DEF n

\* What is in the three lists.
LEMMA ListedHeld ==
    ASSUME NEW p \in PeerType(now)
    PROVE  /\ ToSet(Listed(p)) = PeerHeld(p) /\ Len(Listed(p)) = PeerCount(p)
           /\ Waiting(p) = Waits(PeerHeld(p))
           /\ ToSet(p.sent) = Members(p.sent) /\ ToSet(p.sendReliable) = Members(p.sendReliable)
           /\ Sent(p) = {c \in PeerHeld(p) : c.attempts > 0}
<1> DEFINE a == p.outgoing
           b == p.sendReliable
           s == p.sent
           C == Commands(now)
<1>1. a \in Seq(C) /\ b \in Seq(C) /\ s \in Seq(C)
  <2>1. Outgoings(now) \subseteq C /\ Packeted(now) \subseteq C /\ Sents(now) \subseteq C
    BY CommandSets
  <2>2. a \in Seq(Outgoings(now)) /\ b \in Seq(Packeted(now)) /\ s \in Seq(Sents(now))
    BY PeerListTypes
  <2> HIDE DEF a, b, s, C
  <2> QED BY <2>1, <2>2
<1>2. \A d \in Members(s) : d.attempts > 0
  <2>1. s \in Seq(Sents(now))
    BY PeerListTypes
  <2> QED BY <2>1, MembersIn DEF Sents
<1>3. Listed(p) = a \o b \o s /\ PeerHeld(p) = Members(a) \cup Members(b) \cup Members(s)
      /\ PeerCount(p) = Len(a) + Len(b) + Len(s)
  BY Zenon DEF Listed, PeerHeld, PeerCount
<1>4. Sent(p) = ToSet(s) \cup {c \in ToSet(a) \cup ToSet(b) : c.attempts > 0}
  BY Zenon DEF Sent
<1> HIDE DEF a, b, s, C
<1>5. \A l : ToSet(l) = Members(l)
  BY DEF ToSet, Members
<1>6. a \o b \in Seq(C) /\ Members(a \o b) = Members(a) \cup Members(b) /\ Len(a \o b) = Len(a) + Len(b)
  BY <1>1, MembersConcat, ConcatProperties
<1> DEFINE e == a \o b
<1>7. Members(e \o s) = Members(e) \cup Members(s) /\ Len(e \o s) = Len(e) + Len(s)
  <2>1. e \in Seq(C)
    BY <1>6
  <2> HIDE DEF e
  <2> QED BY <1>1, <2>1, MembersConcat, ConcatProperties
<1>8. ToSet(Listed(p)) = PeerHeld(p) /\ Len(Listed(p)) = PeerCount(p)
  BY <1>3, <1>5, <1>6, <1>7
<1>9. Sent(p) = {c \in PeerHeld(p) : c.attempts > 0}
  BY <1>2, <1>3, <1>4, <1>5
<1>10. Waiting(p) = Waits(PeerHeld(p))
  BY <1>8 DEF Waiting, Waits
<1> QED BY <1>5, <1>8, <1>9, <1>10

\* The invariant: what is true of the peer between two actions, and what the bounds say.
Inv ==
    /\ setting \in Settings /\ now \in 1 .. MaxTime
    /\ pass \in {"idle", "service", "flush"} /\ serviced \in BOOLEAN
    /\ PeerGood(peer, {})

LEMMA SettingIs ==
    ASSUME setting \in Settings
    PROVE  /\ MaxTime \in Nat \ {0} /\ Prompt \in BOOLEAN
           /\ Throttles \subseteq 0 .. Scale /\ RoundTrips \subseteq Nat \ {0}
           /\ \A k \in Packets : Sendable(k)
<1>1. MaxTime \in Nat \ {0} /\ Prompt \in BOOLEAN
  BY SettingsAssumption DEF MaxTime, Prompt
<1>2. Throttles \subseteq 0 .. Scale /\ RoundTrips \subseteq Nat \ {0}
  BY SettingsAssumption DEF Throttles, RoundTrips
<1>3. \A k \in Packets : Sendable(k)
  <2>1. \A k \in Packets : k \in Packet
    BY SettingsAssumption DEF Packets
  <2>2. \A k \in Packets : IF k.kind = "ping" THEN k.channel = Control /\ k.lengths = <<0>>
                           ELSE k.channel \in Channels
    BY SettingsAssumption DEF Packets
  <2> QED BY <2>1, <2>2 DEF Sendable
<1> QED BY <1>1, <1>2, <1>3

\* Of the commands that wait, some may be looked at or none.
LEMMA PeerFor ==
    ASSUME NEW p, NEW K, PeerGood(p, K)
    PROVE  PeerGood(p, {}) /\ PeerGood(p, Waits(PeerHeld(p)))
  BY DEF PeerGood, Accounted

LEMMA PeerLater ==
    ASSUME NEW t \in Nat
    PROVE  PeerType(t) \subseteq PeerType(t + 1)
<1>1. Commands(t) \subseteq Commands(t + 1)
  BY DEF Commands, AllCommands
<1>2. /\ Outgoings(t) \subseteq Outgoings(t + 1) /\ Packeted(t) \subseteq Packeted(t + 1)
      /\ Sents(t) \subseteq Sents(t + 1)
  BY <1>1 DEF Outgoings, Packeted, Sents
<1> DEFINE a == Outgoings(t)
           b == Packeted(t)
           c == Sents(t)
           d == Outgoings(t + 1)
           e == Packeted(t + 1)
           f == Sents(t + 1)
<1> HIDE DEF a, b, c, d, e, f
<1>3. Seq(a) \subseteq Seq(d) /\ Seq(b) \subseteq Seq(e) /\ Seq(c) \subseteq Seq(f)
  <2>1. a \subseteq d /\ b \subseteq e /\ c \subseteq f
    BY <1>2 DEF a, b, c, d, e, f
  <2> QED BY <2>1
<1>4. /\ Seq(Outgoings(t)) \subseteq Seq(Outgoings(t + 1)) /\ Seq(Packeted(t)) \subseteq Seq(Packeted(t + 1))
      /\ Seq(Sents(t)) \subseteq Seq(Sents(t + 1))
  BY <1>3 DEF a, b, c, d, e, f
<1> QED BY <1>4 DEF PeerType

LEMMA InitInv == Init => Inv
<1> SUFFICES ASSUME Init PROVE Inv
  OBVIOUS
<1>1. setting \in Settings /\ now = 1 /\ pass = "idle" /\ serviced = ~ Prompt
  BY DEF Init
<1> DEFINE numbers == [c \in Channels \cup {Control} |-> 0]
           windows == [c \in Channels |-> [n \in 0 .. Windows - 1 |-> 0]]
<1>2. PICK roundTrip \in RoundTrips, throttle \in Throttles :
         peer = [state |-> "connected", outgoing |-> << >>, sendReliable |-> << >>,
                 sent |-> << >>, number |-> numbers, unreliable |-> numbers, windows |-> windows,
                 totalQueued |-> 0, nextTimeout |-> 0, earliest |-> Never, inTransit |-> 0,
                 throttle |-> throttle, counter |-> 0, roundTrip |-> roundTrip,
                 lastReceive |-> 1, continue |-> FALSE]
  BY Zenon DEF Init
<1>3. /\ MaxTime \in Nat \ {0} /\ Prompt \in BOOLEAN
      /\ throttle \in 0 .. Scale /\ roundTrip \in Nat \ {0}
  BY <1>1, SettingIs
<1>4. /\ << >> \in Seq(Outgoings(now)) /\ << >> \in Seq(Packeted(now)) /\ << >> \in Seq(Sents(now))
  BY EmptySeq
<1>5. /\ numbers \in [Channels \cup {Control} -> 0 .. Modulus - 1]
      /\ numbers \in [Channels \cup {Control} -> Nat]
      /\ windows \in [Channels -> [0 .. Windows - 1 -> Nat]]
      /\ 0 \in 0 .. Scale - 1 /\ Never \in Nat
  <2>1. 0 \in 0 .. Modulus - 1 /\ 0 \in 0 .. Scale - 1 /\ Never \in Nat
    BY Sizes DEF Never
  <2> QED BY <2>1
<1>6. \A ch \in Channels : \A k \in 0 .. Windows - 1 : windows[ch][k] = 0
  OBVIOUS
<1> HIDE DEF numbers, windows
<1>7. "connected" \in States
  BY Zenon DEF States
<1>8. peer \in PeerType(now)
  BY <1>2, <1>3, <1>4, <1>5, <1>7 DEF PeerType
<1>9. /\ peer.state = "connected" /\ peer.outgoing = << >> /\ peer.sendReliable = << >>
      /\ peer.sent = << >> /\ peer.windows = windows /\ peer.earliest = Never /\ peer.inTransit = 0
  BY <1>2
<1>10. PeerHeld(peer) = {}
  BY <1>9, MembersOfNone DEF PeerHeld
<1>11. PeerCount(peer) = 0
  BY <1>9, MembersOfNone DEF PeerCount
<1>12. Cardinality({}) = 0 /\ IsFiniteSet({})
  BY FS_EmptySet
<1>13. \A ch, k : InUse({}, ch, k) = {}
  BY DEF InUse
<1>14. Accounted({}, 0, windows, Never, {})
  BY <1>6, <1>12, <1>13 DEF Accounted
<1>15. Transit(peer)
  <2>1. SeqSum(Data, << >>) = 0
    BY DataType, SeqSumOfNone
  <2>2. Larger(FlowWindow, Capacity) \in Nat
    BY Sizes DEF Larger
  <2> QED BY <1>9, <2>1, <2>2 DEF Transit
<1>o. PeerOrdered(peer)
  <2>1. peer.number \in NumberType
    BY <1>8, PeerListTypes
  <2> QED BY <1>9, <1>10, <2>1, OrderedNone DEF PeerOrdered
<1>16. PeerGood(peer, {})
  BY <1>8, <1>9, <1>10, <1>11, <1>14, <1>15, <1>o DEF PeerGood, FirstTimed, Dated
<1>17. now \in 1 .. MaxTime
  BY <1>1, <1>3
<1> QED BY <1>1, <1>3, <1>16, <1>17 DEF Inv

\* A step that leaves the time alone makes the peer v.
LEMMA PeerBecomes ==
    ASSUME Inv, now' = now, setting' = setting, NEW v, peer' = v, PeerGood(v, {}),
           pass' \in {"idle", "service", "flush"}, serviced' \in BOOLEAN
    PROVE  Inv'
<1>1. PeerGood(peer, {})'
  BY DEF PeerGood
<1>2. (now \in 1 .. MaxTime)' /\ (setting \in Settings)'
  BY DEF Inv, MaxTime
<1> QED BY <1>1, <1>2 DEF Inv

\* A datagram of a pass: nothing reliable is lost, and who is given up has been silent.
LEMMA TransmitInv ==
    ASSUME Inv, setting' = setting, peer.state = "connected", NEW check \in BOOLEAN,
           NEW caller \in {"service", "flush"}, Transmit(check, caller)
    PROVE  /\ Inv'
           /\ peer'.state = "connected" => Waiting(peer) \subseteq Waiting(peer')
           /\ peer'.state \notin {"connected", "crashed"} => Outlived(peer)
<1> DEFINE v == SendPass(peer, check).peer
           K == Waits(PeerHeld(peer))
<1>1. /\ setting \in Settings /\ now \in Nat \ {0} /\ serviced \in BOOLEAN
      /\ PeerGood(peer, {})
  BY SettingIs DEF Inv
<1>2. PeerGood(peer, K)
  BY <1>1, PeerFor
<1>3. /\ peer' = v /\ now' = now /\ serviced' = (serviced \/ check)
      /\ pass' \in {"idle", caller}
  BY DEF Transmit
<1> HIDE DEF K
<1>4. PeerGood(v, K) /\ (v.state \notin {"connected", "crashed"} => Outlived(peer))
  BY <1>1, <1>2, SendPassGood
<1> HIDE DEF v
<1>5. PeerGood(v, {})
  BY <1>4, PeerFor
<1>6. Inv'
  <2>1. pass' \in {"idle", "service", "flush"} /\ serviced' \in BOOLEAN
    BY <1>1, <1>3
  <2> QED BY <1>3, <1>5, <2>1, PeerBecomes
<1>7. v.state = "connected" => Waiting(peer) \subseteq Waiting(v)
  <2>1. peer \in PeerType(now) /\ v \in PeerType(now)
    BY <1>1, <1>4 DEF PeerGood
  <2>2. Waiting(peer) = K /\ Waiting(v) = Waits(PeerHeld(v))
    BY <2>1, ListedHeld DEF K
  <2> QED BY <1>4, <2>2 DEF PeerGood, Accounted
<1> QED BY <1>3, <1>4, <1>6, <1>7

\* What a pass keeps, and what giving the peer up takes.
PassKeeps ==
    (Service \/ Flush \/ Continue) /\ peer'.state = "connected" => Waiting(peer) \subseteq Waiting(peer')
GoneIfOutlived ==
    peer.state = "connected" /\ peer'.state \notin {"connected", "crashed"} => Outlived(peer)

LEMMA PassSteps ==
    ASSUME Inv, setting' = setting, Service \/ Flush \/ Continue
    PROVE  Inv' /\ PassKeeps /\ GoneIfOutlived
<1>1. TRUE \in BOOLEAN /\ FALSE \in BOOLEAN /\ "service" \in {"service", "flush"}
      /\ "flush" \in {"service", "flush"} /\ "service" # "flush"
  OBVIOUS
<1>2. PICK check \in BOOLEAN, caller \in {"service", "flush"} : Transmit(check, caller) /\ peer.state = "connected"
  <2>1. CASE Service
    BY <1>1, <2>1 DEF Service, Connected
  <2>2. CASE Flush
    BY <1>1, <2>2 DEF Flush, Connected
  <2>3. CASE Continue
    <3>1. pass \in {"service", "flush"} /\ Transmit(pass = "service", pass) /\ peer.state = "connected"
      BY <2>3 DEF Continue, Inv
    <3>2. (pass = "service") \in BOOLEAN
      OBVIOUS
    <3> QED BY <3>1, <3>2
  <2> QED BY <2>1, <2>2, <2>3
<1> QED BY <1>2, TransmitInv DEF PassKeeps, GoneIfOutlived

\* The other steps leave the peer connected.
LEMMA QueueSteps ==
    ASSUME Inv, setting' = setting, NEW k \in Packets, Queue(k)
    PROVE  Inv' /\ peer'.state = "connected"
<1> DEFINE v == QueuePacket(peer, k)
<1>1. setting \in Settings /\ now \in Nat /\ PeerGood(peer, {}) /\ serviced \in BOOLEAN
      /\ pass \in {"idle", "service", "flush"}
  BY SettingIs DEF Inv
<1>2. peer.state = "connected" /\ peer' = v /\ now' = now /\ pass' = pass /\ serviced' = serviced
  BY DEF Queue, Connected
<1>3. Sendable(k)
  BY <1>1, SettingIs
<1>4. PeerGood(v, {}) /\ v.state = "connected"
  BY <1>1, <1>2, <1>3, QueuePacketGood
<1> HIDE DEF v
<1> QED BY <1>1, <1>2, <1>4, PeerBecomes

LEMMA AcknowledgeSteps ==
    ASSUME Inv, setting' = setting,
           NEW c, NEW roundTrip \in RoundTrips, NEW throttle \in Throttles,
           Acknowledge(c, roundTrip, throttle)
    PROVE  Inv' /\ peer'.state = "connected"
<1> DEFINE p == Heard(peer, roundTrip, throttle)
           v == RemoveSent(p, c.number, c.channel)
<1>1. setting \in Settings /\ now \in Nat /\ PeerGood(peer, {}) /\ serviced \in BOOLEAN
      /\ pass \in {"idle", "service", "flush"}
  BY SettingIs DEF Inv
<1>2. peer.state = "connected" /\ peer' = v /\ now' = now /\ pass' = pass /\ serviced' = serviced
  BY DEF Acknowledge, Connected
<1>3. roundTrip \in Nat \ {0} /\ throttle \in 0 .. Scale
  BY <1>1, SettingIs
<1>4. PeerGood(p, {}) /\ p.state = "connected" /\ p.earliest = Never
  BY <1>1, <1>2, <1>3, HeardGood
<1> HIDE DEF p
<1>5. PeerGood(v, {}) /\ v.state = "connected"
  BY <1>1, <1>4, RemoveSentGood
<1> HIDE DEF v
<1> QED BY <1>1, <1>2, <1>5, PeerBecomes

LEMMA AgainSteps ==
    ASSUME Inv, setting' = setting, AcknowledgeAgain
    PROVE  Inv' /\ peer'.state = "connected"
<1> DEFINE v == Heard(peer, peer.roundTrip, peer.throttle)
<1>1. setting \in Settings /\ now \in Nat /\ PeerGood(peer, {}) /\ serviced \in BOOLEAN
      /\ pass \in {"idle", "service", "flush"}
  BY SettingIs DEF Inv
<1>2. peer.state = "connected" /\ peer' = v /\ now' = now /\ pass' = pass /\ serviced' = serviced
  BY DEF AcknowledgeAgain, Connected
<1>3. peer.roundTrip \in Nat \ {0} /\ peer.throttle \in 0 .. Scale
  BY <1>1 DEF PeerGood, PeerType
<1>4. PeerGood(v, {}) /\ v.state = "connected"
  BY <1>1, <1>2, <1>3, HeardGood
<1> HIDE DEF v
<1> QED BY <1>1, <1>2, <1>4, PeerBecomes

LEMMA TickSteps ==
    ASSUME Inv, setting' = setting, Tick
    PROVE  Inv' /\ peer'.state = "connected"
<1>1. setting \in Settings /\ now \in 1 .. MaxTime /\ PeerGood(peer, {}) /\ serviced \in BOOLEAN
      /\ pass \in {"idle", "service", "flush"} /\ MaxTime \in Nat \ {0} /\ Prompt \in BOOLEAN
  BY SettingIs DEF Inv
<1>2. /\ peer.state = "connected" /\ peer' = peer /\ now' = now + 1 /\ now < MaxTime
      /\ pass' = pass /\ serviced' = ~ Prompt
  BY DEF Tick, Connected
<1>3. now + 1 \in 1 .. MaxTime /\ now \in Nat
  BY <1>1, <1>2
<1>4. peer \in PeerType(now + 1)
  BY <1>1, <1>3, PeerLater DEF PeerGood
<1>5. PeerGood(peer, {})'
  BY <1>1, <1>2, <1>4 DEF PeerGood
<1>6. (now \in 1 .. MaxTime)' /\ (setting \in Settings)'
  BY <1>1, <1>2, <1>3 DEF MaxTime
<1>7. serviced' \in BOOLEAN
  BY <1>2
<1> QED BY <1>1, <1>2, <1>5, <1>6, <1>7 DEF Inv

LEMMA NextSteps ==
    ASSUME Inv, [Next]_vars
    PROVE  Inv' /\ PassKeeps /\ GoneIfOutlived
<1>1. CASE UNCHANGED vars
  <2>1. /\ now' = now /\ peer' = peer /\ pass' = pass /\ serviced' = serviced /\ setting' = setting
    BY <1>1 DEF vars
  <2>2. Inv'
    <3>1. PeerGood(peer, {})
      BY DEF Inv
    <3>2. pass \in {"idle", "service", "flush"} /\ serviced \in BOOLEAN
      BY DEF Inv
    <3> QED BY <2>1, <3>1, <3>2, PeerBecomes
  <2>3. PassKeeps /\ GoneIfOutlived
    BY <2>1 DEF PassKeeps, GoneIfOutlived
  <2> QED BY <2>2, <2>3
<1>2. CASE Next
  <2>1. setting' = setting /\ Step
    BY <1>2 DEF Next
  <2>2. PassKeeps
    BY <2>1, PassSteps DEF PassKeeps
  <2>3. CASE Service \/ Flush \/ Continue
    BY <2>1, <2>3, PassSteps
  <2>4. CASE \E k \in Packets : Queue(k)
    BY <2>1, <2>2, <2>4, QueueSteps DEF GoneIfOutlived
  <2>5. CASE \E c \in Sent(peer), roundTrip \in RoundTrips, throttle \in Throttles :
                Acknowledge(c, roundTrip, throttle)
    BY <2>1, <2>2, <2>5, AcknowledgeSteps DEF GoneIfOutlived
  <2>6. CASE AcknowledgeAgain
    BY <2>1, <2>2, <2>6, AgainSteps DEF GoneIfOutlived
  <2>7. CASE Tick
    BY <2>1, <2>2, <2>7, TickSteps DEF GoneIfOutlived
  <2> QED BY <2>1, <2>3, <2>4, <2>5, <2>6, <2>7 DEF Step
<1> QED BY <1>1, <1>2

\* The invariant holds of every reachable state.
THEOREM Invariant == Spec => []Inv
<1>1. Inv /\ [Next]_vars => Inv'
  BY NextSteps
<1> QED BY InitInv, <1>1, PTL DEF Spec

-----------------------------------------------------------------------------
(* What it says.                                                           *)

LEMMA InvTypes == Inv => TypeOK
<1> SUFFICES ASSUME Inv PROVE TypeOK
  OBVIOUS
<1>1. setting \in Settings /\ now \in 1 .. MaxTime /\ serviced \in BOOLEAN
      /\ pass \in {"idle", "service", "flush"} /\ PeerGood(peer, {}) /\ MaxTime \in Nat \ {0}
  BY SettingIs DEF Inv
<1>2. peer \in PeerType(now) /\ Dated(PeerHeld(peer), peer) /\ now \in Nat
  BY <1>1 DEF PeerGood
<1>3. peer.state \in {"connected", "timed out", "crashed"}
  <2>1. peer.state \in States
    BY <1>2 DEF PeerType
  <2> QED BY <2>1, Zenon DEF States
<1>4. /\ ToSet(peer.sent) = Members(peer.sent) /\ ToSet(Listed(peer)) = PeerHeld(peer)
      /\ ToSet(peer.sendReliable) = Members(peer.sendReliable)
  BY <1>2, ListedHeld
<1>5. /\ peer.sent \in Seq(Sents(now)) /\ peer.outgoing \in Seq(Outgoings(now))
      /\ peer.sendReliable \in Seq(Packeted(now)) /\ peer.totalQueued \in Nat
  BY <1>2, PeerListTypes
<1>6. /\ Members(peer.sent) \subseteq Sents(now) /\ Members(peer.outgoing) \subseteq Outgoings(now)
      /\ Members(peer.sendReliable) \subseteq Packeted(now)
  BY <1>5, MembersIn
<1>7. \A c \in ToSet(peer.sent) : Reliable(c) /\ c.attempts > 0 /\ c.timeout > 0
  BY <1>4, <1>6 DEF Sents, Commands, Sound
<1>8. \A c \in ToSet(peer.sendReliable) : Reliable(c) /\ HasPacket(c)
  BY <1>4, <1>6 DEF Packeted
<1>9. \A c \in ToSet(Listed(peer)) : c.sentTime \in 0 .. now /\ c.queueTime \in 1 .. peer.totalQueued
  <2>1. PeerHeld(peer) \subseteq Commands(now)
    BY <1>6, CommandSets DEF PeerHeld
  <2>2. \A c \in PeerHeld(peer) : c.sentTime \in Nat /\ c.sentTime <= now /\ c.queueTime \in Nat \ {0}
    BY <2>1 DEF Commands, AllCommands
  <2>3. \A c \in PeerHeld(peer) : c.queueTime <= peer.totalQueued
    BY <1>2 DEF Dated
  <2> QED BY <1>2, <1>4, <1>5, <2>2, <2>3
<1>10. peer.throttle \in 0 .. Scale /\ peer.counter \in 0 .. Scale - 1
  BY <1>2 DEF PeerType
<1> QED BY <1>1, <1>3, <1>7, <1>8, <1>9, <1>10 DEF TypeOK

LEMMA InvFirstTimed == Inv => NextTimeoutOfFirst
  BY DEF Inv, PeerGood, FirstTimed, NextTimeoutOfFirst

LEMMA InvCounts == Inv => InTransitCounted
<1> SUFFICES ASSUME Inv, peer.state = "connected"
             PROVE  /\ peer.inTransit = FoldLeft(LAMBDA acc, c : acc + c.length, 0, peer.sent)
                    /\ peer.inTransit <= Larger(FlowWindow, Capacity)
                    /\ \A ch \in Channels : \A n \in 0 .. Windows - 1 :
                          peer.windows[ch][n] =
                              Cardinality({c \in Sent(peer) : c.channel = ch /\ Window(c) = n})
  BY DEF InTransitCounted
<1>1. /\ peer \in PeerType(now) /\ Transit(peer)
      /\ Accounted(PeerHeld(peer), PeerCount(peer), peer.windows, peer.earliest, {})
  BY DEF Inv, PeerGood
<1>2. peer.sent \in Seq(AllCommands)
  BY <1>1, PeerListTypes
<1>3. FoldLeft(LAMBDA acc, c : acc + c.length, 0, peer.sent) = SeqSum(Data, peer.sent)
  BY <1>2, FoldIsSum
<1>4. ASSUME NEW ch \in Channels, NEW n \in 0 .. Windows - 1
      PROVE  peer.windows[ch][n] = Cardinality({c \in Sent(peer) : c.channel = ch /\ Window(c) = n})
  <2>1. Sent(peer) = {c \in PeerHeld(peer) : c.attempts > 0}
    BY <1>1, ListedHeld
  <2>2. {c \in Sent(peer) : c.channel = ch /\ Window(c) = n} = InUse(PeerHeld(peer), ch, n)
    BY <2>1 DEF InUse
  <2> QED BY <1>1, <2>2 DEF Accounted
<1> QED BY <1>1, <1>3, <1>4, Zenon DEF Transit

LEMMA InvOnce ==
    ASSUME Inv
    PROVE  /\ Cardinality(PeerHeld(peer)) = PeerCount(peer)
           /\ Len(Listed(peer)) = Cardinality(ToSet(Listed(peer)))
<1>1. /\ peer \in PeerType(now) /\ PeerGood(peer, {})
  BY DEF Inv, PeerGood
<1>2. ToSet(Listed(peer)) = PeerHeld(peer) /\ Len(Listed(peer)) = PeerCount(peer)
  BY <1>1, ListedHeld
<1>3. Cardinality(PeerHeld(peer)) = PeerCount(peer)
  BY <1>1 DEF PeerGood, Accounted
<1> QED BY <1>2, <1>3

-----------------------------------------------------------------------------
(* What an acknowledgement finds.  Whoever was sent is found, because in    *)
(* its list only those that were sent too stand ahead of it; and who is     *)
(* found is the one meant, because no other has its number.                 *)

\* Pings are told apart by their numbers.  With ENet's 65536 numbers this takes as many
\* pings in a row of which the first is still not acknowledged.
PingsApart ==
    \A c, d \in Sent(peer) :
        c.channel = Control /\ d.channel = Control /\ c.number = d.number => c = d

LEMMA FindSentNone ==
    ASSUME NEW S, NEW L \in Seq(S), NEW c \in Members(L)
    PROVE  FindSent(L, c.number, c.channel) # 0
<1> DEFINE M == Matches(L, c.number, c.channel)
<1>1. DOMAIN L = 1 .. Len(L) /\ Len(L) \in Nat /\ Members(L) = {L[i] : i \in 1 .. Len(L)}
  BY LenProperties, MembersIn
<1>2. M \in SUBSET Nat /\ 0 \notin M
  BY <1>1 DEF Matches
<1>3. M # {}
  BY <1>1 DEF Matches
<1>4. FindSent(L, c.number, c.channel) = CHOOSE i \in M : \A j \in M : i <= j
  BY <1>3 DEF FindSent
<1> HIDE DEF M
<1>5. FindSent(L, c.number, c.channel) \in M
  BY <1>2, <1>3, <1>4, FirstFound
<1> QED BY <1>2, <1>5

LEMMA FindRetriedNone ==
    ASSUME NEW S, NEW L \in Seq(S), \A d \in S : d.attempts \in Nat, RetriedFirst(L),
           NEW c \in Members(L), c.attempts > 0, Reliable(c)
    PROVE  FindRetried(L, c.number, c.channel) # 0
<1> DEFINE M == {i \in Matches(L, c.number, c.channel) :
                    /\ Reliable(L[i])
                    /\ \A j \in 1 .. i : Reliable(L[j]) => L[j].attempts >= 1}
<1>1. DOMAIN L = 1 .. Len(L) /\ Len(L) \in Nat /\ Members(L) = {L[i] : i \in 1 .. Len(L)}
      /\ \A i \in 1 .. Len(L) : L[i] \in S
  BY LenProperties, MembersIn, ElementOfSeq
<1>2. M \in SUBSET Nat /\ 0 \notin M
  BY <1>1 DEF Matches
<1>3. PICK k \in 1 .. Len(L) : L[k] = c
  BY <1>1
<1>4. \A j \in 1 .. k : L[j].attempts >= 1
  <2> SUFFICES ASSUME NEW j \in 1 .. k PROVE L[j].attempts >= 1
    OBVIOUS
  <2>1. j \in 1 .. Len(L) /\ L[j].attempts \in Nat
    BY <1>1, <1>3
  <2>2. L[j].attempts > 0
    BY <1>3, <2>1 DEF RetriedFirst
  <2> QED BY <2>1, <2>2
<1>5. k \in M
  BY <1>1, <1>3, <1>4 DEF Matches
<1>6. FindRetried(L, c.number, c.channel) = CHOOSE i \in M : \A j \in M : i <= j
  BY <1>5 DEF FindRetried
<1> HIDE DEF M
<1>7. FindRetried(L, c.number, c.channel) \in M
  BY <1>2, <1>5, <1>6, FirstFound
<1> QED BY <1>2, <1>7

\* Of three lists in which nothing stands twice, one loses one of its own.
LEMMA OneGone ==
    ASSUME NEW S, NEW a \in Seq(S), NEW b \in Seq(S), NEW s \in Seq(S), NEW i \in 1 .. Len(s),
           Cardinality(Members(a) \cup Members(b) \cup Members(s)) = Len(a) + Len(b) + Len(s)
    PROVE  Members(a) \cup Members(b) \cup Members(RemoveAt(s, i))
             = (Members(a) \cup Members(b) \cup Members(s)) \ {s[i]}
<1> DEFINE r == SubSeq(s, 1, i - 1) \o SubSeq(s, i + 1, Len(s))
           d == s[i]
           A == Members(a)
           B == Members(b)
           R == Members(r)
           T == A \cup B
           V == T \cup R
           x == Len(a)
           y == Len(b)
           z == Len(s)
<1>1. r \in Seq(S) /\ Len(r) = z - 1 /\ Members(s) = R \cup {d}
  BY MembersSplit
<1>2. RemoveAt(s, i) = r
  BY DEF RemoveAt
<1> HIDE DEF r, d
<1>3. /\ IsFiniteSet(A) /\ Cardinality(A) <= x /\ IsFiniteSet(B) /\ Cardinality(B) <= y
      /\ IsFiniteSet(R) /\ Cardinality(R) <= z - 1 /\ x \in Nat /\ y \in Nat /\ z \in Nat
  BY <1>1, MembersIn, LenProperties
<1>4. Cardinality(V \cup {d}) = x + y + z
  <2>1. V \cup {d} = A \cup B \cup Members(s)
    BY <1>1
  <2> QED BY <2>1
<1>5. Members(a) \cup Members(b) \cup Members(RemoveAt(s, i)) = V
      /\ Members(a) \cup Members(b) \cup Members(s) = V \cup {d}
  BY <1>1, <1>2
<1> HIDE DEF A, B, R, x, y, z
<1>6. /\ IsFiniteSet(T) /\ Cardinality(T) \in Nat
      /\ Cardinality(T) = Cardinality(A) + Cardinality(B) - Cardinality(A \cap B)
  BY <1>3, FS_Union, FS_CardinalityType
<1>7. Cardinality(A \cap B) \in Nat /\ Cardinality(A) \in Nat /\ Cardinality(B) \in Nat
      /\ Cardinality(R) \in Nat
  <2>1. A \cap B \in SUBSET A
    OBVIOUS
  <2> QED BY <1>3, <2>1, FiniteParts
<1>8. Cardinality(T) <= x + y
  BY <1>3, <1>6, <1>7
<1> HIDE DEF T
<1>9. /\ IsFiniteSet(V) /\ Cardinality(V) \in Nat /\ Cardinality(T \cap R) \in Nat
      /\ Cardinality(V) = Cardinality(T) + Cardinality(R) - Cardinality(T \cap R)
  <2>1. T \cap R \in SUBSET T
    OBVIOUS
  <2>2. IsFiniteSet(T \cap R) /\ Cardinality(T \cap R) \in Nat
    BY <1>6, <2>1, FiniteParts
  <2> QED BY <1>3, <1>6, <2>2, FS_Union, FS_CardinalityType
<1>10. Cardinality(V) < x + y + z
  <2> DEFINE t == Cardinality(T)
             u == Cardinality(R)
             v == Cardinality(T \cap R)
             l == Cardinality(V)
  <2>1. t \in Nat /\ u \in Nat /\ v \in Nat /\ l \in Nat /\ x \in Nat /\ y \in Nat /\ z \in Nat
    BY <1>3, <1>6, <1>7, <1>9
  <2>2. t <= x + y /\ u <= z - 1 /\ l = t + u - v
    BY <1>3, <1>8, <1>9
  <2> HIDE DEF t, u, v, l
  <2>3. l < x + y + z
    BY <2>1, <2>2
  <2> QED BY <2>3 DEF l
<1> HIDE DEF V
<1>11. d \notin V
  <2> SUFFICES ASSUME d \in V PROVE FALSE
    OBVIOUS
  <2>1. V \cup {d} = V
    OBVIOUS
  <2>2. Cardinality(V) = x + y + z
    BY <1>4, <2>1
  <2> DEFINE l == Cardinality(V)
             m == x + y + z
  <2>3. l \in Nat /\ m \in Nat /\ l < m /\ l = m
    BY <1>3, <1>9, <1>10, <2>2
  <2> HIDE DEF l, m
  <2> QED BY <2>3
<1> QED BY <1>5, <1>11 DEF d

\* Its window and the next timeout aside, a peer keeps its lists.
HasLists(x, a, b, s) == x.outgoing = a /\ x.sendReliable = b /\ x.sent = s

LEMMA ReleasedSame ==
    ASSUME NEW p \in PeerType(now), NEW number, NEW channel
    PROVE  LET q == Release(p, number, channel)
           IN  /\ \E W : q = [p EXCEPT !.windows = W]
               /\ HasLists(q, p.outgoing, p.sendReliable, p.sent)
<1> DEFINE q == Release(p, number, channel)
<1>1. \E W : q = [p EXCEPT !.windows = W]
  <2> DEFINE n == number \div WindowSize
             V == [p.windows EXCEPT ![channel] = [p.windows[channel] EXCEPT ![n] = p.windows[channel][n] - 1]]
  <2>1. [p EXCEPT !.windows[channel][n] = @ - 1] = [p EXCEPT !.windows = V]
    BY Zenon
  <2>2. p = [p EXCEPT !.windows = p.windows]
    BY DEF PeerType
  <2>3. q = p \/ q = [p EXCEPT !.windows[channel][n] = @ - 1]
    BY Zenon DEF Release
  <2> HIDE DEF V, q
  <2> QED BY <2>1, <2>2, <2>3
<1> HIDE DEF q
<1>2. HasLists(q, p.outgoing, p.sendReliable, p.sent)
  BY <1>1 DEF PeerType, HasLists
<1> QED BY <1>1, <1>2 DEF q

LEMMA ReleasedLists ==
    ASSUME NEW p \in PeerType(now), NEW number, NEW channel, NEW t, NEW S
    PROVE  LET q == Release(p, number, channel)
           IN  /\ HasLists(NextFront([q EXCEPT !.sent = S, !.inTransit = t]), p.outgoing, p.sendReliable, S)
               /\ HasLists(NextFront([q EXCEPT !.outgoing = S]), S, p.sendReliable, p.sent)
               /\ HasLists(NextFront([q EXCEPT !.sendReliable = S]), p.outgoing, S, p.sent)
<1> DEFINE q == Release(p, number, channel)
<1>1. PICK W : q = [p EXCEPT !.windows = W]
  BY ReleasedSame
<1> HIDE DEF q
<1> DEFINE x == [q EXCEPT !.sent = S, !.inTransit = t]
           y == [q EXCEPT !.outgoing = S]
           z == [q EXCEPT !.sendReliable = S]
<1>2. HasLists(x, p.outgoing, p.sendReliable, S) /\ HasLists(y, S, p.sendReliable, p.sent)
      /\ HasLists(z, p.outgoing, S, p.sent)
  BY <1>1 DEF PeerType, HasLists
<1>3. ASSUME NEW u \in {x, y, z}, NEW v
      PROVE  LET w == [u EXCEPT !.nextTimeout = v]
             IN  w.outgoing = u.outgoing /\ w.sendReliable = u.sendReliable /\ w.sent = u.sent
  BY <1>1 DEF PeerType
<1> HIDE DEF x, y, z
<1>4. ASSUME NEW u \in {x, y, z}
      PROVE  /\ NextFront(u).outgoing = u.outgoing /\ NextFront(u).sendReliable = u.sendReliable
             /\ NextFront(u).sent = u.sent
  BY <1>3 DEF NextFront
<1>5. /\ HasLists(NextFront(x), p.outgoing, p.sendReliable, S)
      /\ HasLists(NextFront(y), S, p.sendReliable, p.sent)
      /\ HasLists(NextFront(z), p.outgoing, S, p.sent)
  BY <1>2, <1>4 DEF HasLists
<1> QED BY <1>2, <1>5 DEF x, y, z, q

\* Among what was sent a command is told by its channel and its number.
LEMMA OnlyOne ==
    ASSUME Inv, PingsApart, NEW c \in Sent(peer), NEW d \in Sent(peer),
           c.number = d.number, c.channel = d.channel
    PROVE  c = d
<1>1. peer \in PeerType(now) /\ Apart(PeerHeld(peer))
  BY DEF Inv, PeerGood, PeerOrdered, Ordered
<1>2. Sent(peer) = {e \in PeerHeld(peer) : e.attempts > 0}
  BY <1>1, ListedHeld
<1>3. c.channel \in Channels \cup {Control}
  <2>1. /\ peer.sent \in Seq(Sents(now)) /\ peer.outgoing \in Seq(Outgoings(now))
        /\ peer.sendReliable \in Seq(Packeted(now))
    BY <1>1, PeerListTypes
  <2>2. /\ Members(peer.sent) \subseteq Sents(now) /\ Members(peer.outgoing) \subseteq Outgoings(now)
        /\ Members(peer.sendReliable) \subseteq Packeted(now)
    BY <2>1, MembersIn
  <2>3. c \in AllCommands
    BY <1>2, <2>2, CommandSets DEF PeerHeld, Commands
  <2> QED BY <2>3 DEF AllCommands
<1>4. CASE c.channel \in Channels
  BY <1>1, <1>2, <1>4 DEF Apart, InFlight
<1>5. CASE c.channel = Control
  BY <1>5 DEF PingsApart
<1> QED BY <1>3, <1>4, <1>5

\* An acknowledgement takes what it acknowledges out of the lists, and nothing else.
LEMMA InvFindable == Inv => (PingsApart => Findable)
<1> SUFFICES ASSUME Inv, PingsApart, NEW c \in Sent(peer)
             PROVE  ToSet(Listed(RemoveSent(peer, c.number, c.channel))) = ToSet(Listed(peer)) \ {c}
  BY DEF Findable
<1> DEFINE p == peer
           a == p.outgoing
           b == p.sendReliable
           s == p.sent
           number == c.number
           channel == c.channel
           i == FindSent(s, number, channel)
           j == FindRetried(a, number, channel)
           k == FindRetried(b, number, channel)
           q == Release(p, number, channel)
           v == RemoveSent(p, number, channel)
           C == Commands(now)
<1>1. p \in PeerType(now) /\ RetriedFirst(a) /\ RetriedFirst(b)
  BY DEF Inv, PeerGood, PeerOrdered, Ordered
<1>2. /\ s \in Seq(Sents(now)) /\ a \in Seq(Outgoings(now)) /\ b \in Seq(Packeted(now))
      /\ s \in Seq(C) /\ a \in Seq(C) /\ b \in Seq(C)
  <2>1. Outgoings(now) \subseteq C /\ Packeted(now) \subseteq C /\ Sents(now) \subseteq C
    BY CommandSets
  <2>2. s \in Seq(Sents(now)) /\ a \in Seq(Outgoings(now)) /\ b \in Seq(Packeted(now))
    BY <1>1, PeerListTypes
  <2> HIDE DEF a, b, s, C
  <2> QED BY <2>1, <2>2
<1>3. /\ PeerHeld(p) = Members(a) \cup Members(b) \cup Members(s)
      /\ PeerCount(p) = Len(a) + Len(b) + Len(s)
  BY Zenon DEF PeerHeld, PeerCount
<1>4. Cardinality(PeerHeld(p)) = PeerCount(p)
  BY InvOnce
<1>5. Sent(p) = {d \in PeerHeld(p) : d.attempts > 0} /\ ToSet(Listed(p)) = PeerHeld(p)
  BY <1>1, ListedHeld
<1>6. \A d \in C : d.attempts \in Nat /\ (d.attempts > 0 => Reliable(d))
  BY DEF Commands, AllCommands, Sound
<1>7. v = IF i # 0
          THEN NextFront([q EXCEPT !.sent = RemoveAt(@, i), !.inTransit = @ - s[i].length])
          ELSE IF j # 0 THEN NextFront([q EXCEPT !.outgoing = RemoveAt(@, j)])
          ELSE IF k # 0 THEN NextFront([q EXCEPT !.sendReliable = RemoveAt(@, k)])
          ELSE p
  BY Zenon DEF RemoveSent
<1>8. q.outgoing = a /\ q.sendReliable = b /\ q.sent = s
  BY <1>1, ReleasedSame DEF HasLists
<1>9. \A w : ToSet(Listed(w)) = ToSet(w.outgoing \o w.sendReliable \o w.sent)
  BY DEF Listed
<1> HIDE DEF v, q
<1>10. ASSUME NEW x \in Seq(C), NEW y \in Seq(C), NEW z \in Seq(C), HasLists(v, x, y, z)
       PROVE  ToSet(Listed(v)) = Members(x) \cup Members(y) \cup Members(z)
  <2> DEFINE e == x \o y
  <2>1. e \in Seq(C) /\ Members(e) = Members(x) \cup Members(y)
    BY MembersConcat, ConcatProperties
  <2>2. Listed(v) = e \o z
    BY <1>10 DEF Listed, HasLists
  <2> HIDE DEF e
  <2>3. Members(e \o z) = Members(e) \cup Members(z)
    BY <2>1, MembersConcat
  <2> QED BY <2>1, <2>2, <2>3 DEF ToSet, Members
<1>11. CASE i # 0
  <2>1. i \in 1 .. Len(s) /\ s[i].number = number /\ s[i].channel = channel
    BY <1>2, <1>11, FindSentIs
  <2>2. s[i] \in Sents(now) /\ s[i] \in Members(s)
    BY <1>2, <2>1, ListedAt
  <2>3. s[i] \in Sent(p)
    BY <1>3, <1>5, <2>2 DEF Sents
  <2>4. s[i] = c
    BY <2>1, <2>3, OnlyOne
  <2> DEFINE S == RemoveAt(s, i)
             t == q.inTransit - s[i].length
  <2>5. v = NextFront([q EXCEPT !.sent = S, !.inTransit = t])
    BY <1>7, <1>8, <1>11, Zenon
  <2> HIDE DEF t
  <2>6. S \in Seq(C)
    BY <1>2, <2>1, MembersSplit DEF RemoveAt
  <2>7. Members(a) \cup Members(b) \cup Members(S)
          = (Members(a) \cup Members(b) \cup Members(s)) \ {s[i]}
    <3>1. /\ a \in Seq(C) /\ b \in Seq(C) /\ s \in Seq(C) /\ i \in 1 .. Len(s)
          /\ Cardinality(Members(a) \cup Members(b) \cup Members(s)) = Len(a) + Len(b) + Len(s)
      BY <1>2, <1>3, <1>4, <2>1
    <3> HIDE DEF a, b, s, i, C
    <3> QED BY <3>1, OneGone
  <2> HIDE DEF S
  <2>8. HasLists(v, a, b, S)
    BY <1>1, <2>5, ReleasedLists DEF q
  <2>9. ToSet(Listed(v)) = Members(a) \cup Members(b) \cup Members(S)
    BY <1>2, <1>10, <2>6, <2>8
  <2> QED BY <1>3, <1>5, <2>4, <2>7, <2>9 DEF v
<1>12. CASE i = 0 /\ j # 0
  <2>1. /\ j \in 1 .. Len(a) /\ a[j].number = number /\ a[j].channel = channel
        /\ a[j].attempts > 0
    BY <1>2, <1>6, <1>12, FindRetriedIs
  <2>2. a[j] \in C /\ a[j] \in Members(a)
    BY <1>2, <2>1, ListedAt
  <2>3. a[j] \in Sent(p)
    BY <1>3, <1>5, <2>1, <2>2
  <2>4. a[j] = c
    BY <2>1, <2>3, OnlyOne
  <2> DEFINE S == RemoveAt(a, j)
  <2>5. v = NextFront([q EXCEPT !.outgoing = S])
    BY <1>7, <1>8, <1>12, Zenon
  <2>6. S \in Seq(C)
    BY <1>2, <2>1, MembersSplit DEF RemoveAt
  <2>7. Members(b) \cup Members(s) \cup Members(S)
          = (Members(b) \cup Members(s) \cup Members(a)) \ {a[j]}
    <3>1. Cardinality(Members(b) \cup Members(s) \cup Members(a)) = Len(b) + Len(s) + Len(a)
      <4> DEFINE x == Len(a)
                 y == Len(b)
                 z == Len(s)
      <4>1. x \in Nat /\ y \in Nat /\ z \in Nat
        BY <1>2, LenProperties
      <4>2. Members(b) \cup Members(s) \cup Members(a) = PeerHeld(p)
        BY <1>3
      <4>3. Cardinality(PeerHeld(p)) = x + y + z
        BY <1>3, <1>4
      <4> HIDE DEF x, y, z
      <4>4. x + y + z = y + z + x
        BY <4>1
      <4> QED BY <4>2, <4>3, <4>4 DEF x, y, z
    <3>2. a \in Seq(C) /\ b \in Seq(C) /\ s \in Seq(C) /\ j \in 1 .. Len(a)
      BY <1>2, <2>1
    <3> HIDE DEF a, b, s, j, C
    <3> QED BY <3>1, <3>2, OneGone
  <2> HIDE DEF S
  <2>8. HasLists(v, S, b, s)
    BY <1>1, <2>5, ReleasedLists DEF q
  <2>9. ToSet(Listed(v)) = Members(S) \cup Members(b) \cup Members(s)
    BY <1>2, <1>10, <2>6, <2>8
  <2>10. ToSet(Listed(v)) = PeerHeld(p) \ {c}
    BY <1>3, <2>4, <2>7, <2>9
  <2> QED BY <1>5, <2>10 DEF v
<1>13. CASE i = 0 /\ j = 0 /\ k # 0
  <2>1. /\ k \in 1 .. Len(b) /\ b[k].number = number /\ b[k].channel = channel
        /\ b[k].attempts > 0
    BY <1>2, <1>6, <1>13, FindRetriedIs
  <2>2. b[k] \in C /\ b[k] \in Members(b)
    BY <1>2, <2>1, ListedAt
  <2>3. b[k] \in Sent(p)
    BY <1>3, <1>5, <2>1, <2>2
  <2>4. b[k] = c
    BY <2>1, <2>3, OnlyOne
  <2> DEFINE S == RemoveAt(b, k)
  <2>5. v = NextFront([q EXCEPT !.sendReliable = S])
    BY <1>7, <1>8, <1>13, Zenon
  <2>6. S \in Seq(C)
    BY <1>2, <2>1, MembersSplit DEF RemoveAt
  <2>7. Members(a) \cup Members(s) \cup Members(S)
          = (Members(a) \cup Members(s) \cup Members(b)) \ {b[k]}
    <3>1. Cardinality(Members(a) \cup Members(s) \cup Members(b)) = Len(a) + Len(s) + Len(b)
      <4> DEFINE x == Len(a)
                 y == Len(b)
                 z == Len(s)
      <4>1. x \in Nat /\ y \in Nat /\ z \in Nat
        BY <1>2, LenProperties
      <4>2. Members(a) \cup Members(s) \cup Members(b) = PeerHeld(p)
        BY <1>3
      <4>3. Cardinality(PeerHeld(p)) = x + y + z
        BY <1>3, <1>4
      <4> HIDE DEF x, y, z
      <4>4. x + y + z = x + z + y
        BY <4>1
      <4> QED BY <4>2, <4>3, <4>4 DEF x, y, z
    <3>2. a \in Seq(C) /\ b \in Seq(C) /\ s \in Seq(C) /\ k \in 1 .. Len(b)
      BY <1>2, <2>1
    <3> HIDE DEF a, b, s, k, C
    <3> QED BY <3>1, <3>2, OneGone
  <2> HIDE DEF S
  <2>8. HasLists(v, a, S, s)
    BY <1>1, <2>5, ReleasedLists DEF q
  <2>9. ToSet(Listed(v)) = Members(a) \cup Members(S) \cup Members(s)
    BY <1>2, <1>10, <2>6, <2>8
  <2>10. ToSet(Listed(v)) = PeerHeld(p) \ {c}
    BY <1>3, <2>4, <2>7, <2>9
  <2> QED BY <1>5, <2>10 DEF v
<1>14. i # 0 \/ j # 0 \/ k # 0
  <2>1. c \in Members(a) \cup Members(b) \cup Members(s) /\ c.attempts > 0
    BY <1>3, <1>5
  <2>2. CASE c \in Members(s)
    BY <1>2, <2>2, FindSentNone
  <2>3. CASE c \in Members(a)
    <3>1. Reliable(c) /\ \A d \in C : d.attempts \in Nat
      BY <1>2, <1>6, <2>1, <2>3, MembersIn
    <3> QED BY <1>1, <1>2, <2>1, <2>3, <3>1, FindRetriedNone
  <2>4. CASE c \in Members(b)
    <3>1. Reliable(c) /\ \A d \in C : d.attempts \in Nat
      BY <1>2, <1>6, <2>1, <2>4, MembersIn
    <3> QED BY <1>1, <1>2, <2>1, <2>4, <3>1, FindRetriedNone
  <2> QED BY <2>1, <2>2, <2>3, <2>4
<1> QED BY <1>11, <1>12, <1>13, <1>14

-----------------------------------------------------------------------------
(* The results.                                                            *)

\* Every variable keeps its type, whatever is queued, sent, timed out and acknowledged.
THEOREM TypesHold == Spec => []TypeOK
  BY Invariant, InvTypes, PTL

\* reliableDataInTransit and the windows of the channels count what they should
\* (protocol.c:251-270, 1390, 1468-1518).
THEOREM CountsHold == Spec => []InTransitCounted
  BY Invariant, InvCounts, PTL

\* nextTimeout is the timeout of the first sent command (protocol.c:289, 1402, 1509).
THEOREM FirstTimeoutHolds == Spec => []NextTimeoutOfFirst
  BY Invariant, InvFirstTimed, PTL

\* While pings are told apart by their numbers, each command that was sent is found by its
\* acknowledgement, in whichever list it waits, and is the only one it removes
\* (protocol.c:195-292).
THEOREM SentIsFound == Spec => [](PingsApart => Findable)
  BY Invariant, InvFindable, PTL

\* A pass loses and doubles no reliable command (protocol.c:1361-1404, 1424-1582).
THEOREM PassesKeepReliable == Spec => PassKeepsReliable
<1>1. ASSUME Inv, Inv', [Next]_vars
      PROVE  [(Service \/ Flush \/ Continue) /\ peer'.state = "connected" =>
                /\ Waiting(peer) \subseteq Waiting(peer')
                /\ Len(Listed(peer')) = Cardinality(ToSet(Listed(peer')))]_vars
  <2>1. PassKeeps
    BY <1>1, NextSteps
  <2>2. peer'.state = "connected" => Len(Listed(peer')) = Cardinality(ToSet(Listed(peer')))
    <3>1. (Inv => Len(Listed(peer)) = Cardinality(ToSet(Listed(peer))))'
      BY InvOnce, PTL
    <3> QED BY <1>1, <3>1 DEF Listed
  <2> QED BY <2>1, <2>2 DEF PassKeeps
<1> QED BY Invariant, <1>1, PTL DEF Spec, PassKeepsReliable

\* A peer is given up only when a command of it has waited long enough (peer.c:476-483).
THEOREM GivenUpAfterSilence == Spec => GivenUpForSilence
<1>1. ASSUME Inv, [Next]_vars
      PROVE  [peer.state = "connected" /\ peer'.state = "timed out" =>
                \E c \in Sent(peer) :
                    \/ now - c.since >= TimeoutMaximum
                    \/ /\ now - c.since >= TimeoutMinimum
                       /\ \E d \in ToSet(peer.sent) : Backoff(d) >= TimeoutLimit]_vars
  <2> DEFINE out == "timed out"
  <2>1. out \notin {"connected", "crashed"}
    BY Zenon
  <2> HIDE DEF out
  <2>2. peer.state = "connected" /\ peer'.state = out => Outlived(peer)
    BY <1>1, <2>1, NextSteps DEF GoneIfOutlived
  <2> QED BY <2>2, Zenon DEF out, Outlived
<1> QED BY Invariant, <1>1, PTL DEF Spec, GivenUpForSilence
=============================================================================
