----------------------------- MODULE Bindings_proofs -----------------------------
(***************************************************************************)
(* Proofs about the owners of packets and the handles of the runtime, for  *)
(* every number of packets, objects, events, peers and handles.            *)
(*                                                                         *)
(* A reference count is the size of a set, that of the commands which hold *)
(* the packet, so every change of a count has to be one of that set.       *)
(***************************************************************************)
EXTENDS Bindings, FiniteSetTheorems, TLAPS

\* The commands that hold a packet, of which h[s] are of peer s.
Pairs(h) == UNION {{s} \X (1 .. h[s]) : s \in PeerSlots}
Counts(a) == [s \in PeerSlots |-> HeldBy(s)[a]]

LEMMA PeersFinite == IsFiniteSet(PeerSlots)
  BY HeldAssumption

LEMMA PairsMember ==
    ASSUME NEW h \in [PeerSlots -> Nat]
    PROVE  /\ \A x : x \in Pairs(h) <=> \E s \in PeerSlots : \E i \in 1 .. h[s] : x = <<s, i>>
           /\ \A s \in PeerSlots, i \in Nat : <<s, i>> \in Pairs(h) <=> i \in 1 .. h[s]
<1>1. \A x : x \in Pairs(h) <=> \E s \in PeerSlots : x \in {s} \X (1 .. h[s])
  BY DEF Pairs
<1>2. \A s, x : x \in {s} \X (1 .. h[s]) <=> \E i \in 1 .. h[s] : x = <<s, i>>
  OBVIOUS
<1>3. \A x : x \in Pairs(h) <=> \E s \in PeerSlots : \E i \in 1 .. h[s] : x = <<s, i>>
  BY <1>1, <1>2
<1>4. \A s \in PeerSlots, i \in Nat : <<s, i>> \in Pairs(h) <=> i \in 1 .. h[s]
  BY <1>3
<1> QED BY <1>3, <1>4

LEMMA PairsEmpty ==
    ASSUME NEW h \in [PeerSlots -> Nat]
    PROVE  Pairs(h) = {} <=> \A s \in PeerSlots : h[s] = 0
<1>1. ASSUME \A s \in PeerSlots : h[s] = 0 PROVE Pairs(h) = {}
  <2> SUFFICES ASSUME NEW x \in Pairs(h) PROVE FALSE
    OBVIOUS
  <2>1. PICK s \in PeerSlots : \E i \in 1 .. h[s] : x = <<s, i>>
    BY PairsMember
  <2> QED BY <1>1, <2>1
<1>2. ASSUME Pairs(h) = {}, NEW s \in PeerSlots, h[s] # 0 PROVE FALSE
  <2>1. 1 \in 1 .. h[s] /\ 1 \in Nat
    BY <1>2
  <2>2. <<s, 1>> \in Pairs(h)
    BY <2>1, PairsMember
  <2> QED BY <1>2, <2>2
<1> QED BY <1>1, <1>2

\* All the commands of one peer let go.
LEMMA PairsWithout ==
    ASSUME NEW h \in [PeerSlots -> Nat], IsFiniteSet(Pairs(h)), NEW s \in PeerSlots,
           NEW g \in [PeerSlots -> Nat], g = [h EXCEPT ![s] = 0]
    PROVE  /\ IsFiniteSet(Pairs(g))
           /\ Cardinality(Pairs(g)) = Cardinality(Pairs(h)) - h[s]
           /\ h[s] <= Cardinality(Pairs(h))
<1> DEFINE T == {s} \X (1 .. h[s])
<1>1. h[s] \in Nat
  OBVIOUS
<1>2. IsFiniteSet(1 .. h[s]) /\ Cardinality(1 .. h[s]) = h[s]
  <2> DEFINE k == h[s]
  <2>1. 1 \in Int /\ k \in Int /\ k \in Nat
    BY <1>1
  <2> HIDE DEF k
  <2>2. IsFiniteSet(1 .. k) /\ Cardinality(1 .. k) = IF 1 > k THEN 0 ELSE k - 1 + 1
    BY <2>1, FS_Interval
  <2>3. Cardinality(1 .. k) = k
    BY <2>1, <2>2
  <2> QED BY <2>2, <2>3 DEF k
<1>3. IsFiniteSet({s}) /\ Cardinality({s}) = 1
  BY FS_Singleton
<1>4. IsFiniteSet(T) /\ Cardinality(T) = h[s]
  <2>1. IsFiniteSet(T) /\ Cardinality(T) = Cardinality({s}) * Cardinality(1 .. h[s])
    BY <1>2, <1>3, FS_Product
  <2> QED BY <1>1, <1>2, <1>3, <2>1
<1>5. \A x : x \in T <=> \E i \in 1 .. h[s] : x = <<s, i>>
  OBVIOUS
<1> HIDE DEF T
<1>6. T \subseteq Pairs(h)
  BY <1>5, PairsMember
<1>7. Pairs(g) = Pairs(h) \ T
  <2>1. ASSUME NEW x \in Pairs(g) PROVE x \in Pairs(h) \ T
    <3>0. PICK t \in PeerSlots : \E i \in 1 .. g[t] : x = <<t, i>>
      BY PairsMember
    <3>1. PICK i \in 1 .. g[t] : x = <<t, i>>
      BY <3>0
    <3>2. t # s /\ g[t] = h[t]
      BY <3>1
    <3> QED BY <1>5, <3>1, <3>2, PairsMember
  <2>2. ASSUME NEW x \in Pairs(h) \ T PROVE x \in Pairs(g)
    <3>0. PICK t \in PeerSlots : \E i \in 1 .. h[t] : x = <<t, i>>
      BY PairsMember
    <3>1. PICK i \in 1 .. h[t] : x = <<t, i>>
      BY <3>0
    <3>2. t # s
      BY <1>5, <3>1, <2>2
    <3>3. g[t] = h[t]
      BY <3>2
    <3> QED BY <3>1, <3>3, PairsMember
  <2> QED BY <2>1, <2>2
<1>8. Pairs(h) \cap T = T
  BY <1>6
<1>9. IsFiniteSet(Pairs(g)) /\ Cardinality(Pairs(g)) = Cardinality(Pairs(h)) - h[s]
  <2>1. /\ IsFiniteSet(Pairs(h) \ T)
        /\ Cardinality(Pairs(h) \ T) = Cardinality(Pairs(h)) - Cardinality(Pairs(h) \cap T)
    BY FS_Difference
  <2> QED BY <1>4, <1>7, <1>8, <2>1
<1>10. Cardinality(T) <= Cardinality(Pairs(h))
  <2>1. T \in SUBSET Pairs(h)
    BY <1>6
  <2> QED BY <2>1, FS_Subset
<1> QED BY <1>4, <1>9, <1>10

\* One command lets go.
LEMMA PairsOneLess ==
    ASSUME NEW h \in [PeerSlots -> Nat], IsFiniteSet(Pairs(h)), NEW s \in PeerSlots, h[s] > 0,
           NEW g \in [PeerSlots -> Nat], g = [h EXCEPT ![s] = h[s] - 1]
    PROVE  /\ IsFiniteSet(Pairs(g))
           /\ Cardinality(Pairs(g)) = Cardinality(Pairs(h)) - 1
<1> DEFINE y == <<s, h[s]>>
<1>1. y \in Pairs(h)
  BY PairsMember
<1>2. Pairs(g) = Pairs(h) \ {y}
  <2>1. ASSUME NEW x \in Pairs(g) PROVE x \in Pairs(h) \ {y}
    <3>0. PICK t \in PeerSlots : \E i \in 1 .. g[t] : x = <<t, i>>
      BY PairsMember
    <3>1. PICK i \in 1 .. g[t] : x = <<t, i>>
      BY <3>0
    <3>2. i \in 1 .. h[t] /\ (t = s => i # h[s])
      BY <3>1
    <3> QED BY <3>1, <3>2, PairsMember
  <2>2. ASSUME NEW x \in Pairs(h) \ {y} PROVE x \in Pairs(g)
    <3>0. PICK t \in PeerSlots : \E i \in 1 .. h[t] : x = <<t, i>>
      BY PairsMember
    <3>1. PICK i \in 1 .. h[t] : x = <<t, i>>
      BY <3>0
    <3>2. t = s => i # h[s]
      BY <3>1, <2>2
    <3>3. i \in 1 .. g[t]
      BY <3>1, <3>2
    <3> QED BY <3>1, <3>3, PairsMember
  <2> QED BY <2>1, <2>2
<1> HIDE DEF y
<1> QED BY <1>1, <1>2, FS_RemoveElement

\* The same number of commands for every one of some peers.
LEMMA PairsOf ==
    ASSUME NEW peers \in SUBSET PeerSlots, NEW parts \in Nat,
           NEW h \in [PeerSlots -> Nat],
           \A s \in PeerSlots : h[s] = IF s \in peers THEN parts ELSE 0
    PROVE  /\ IsFiniteSet(Pairs(h))
           /\ Cardinality(Pairs(h)) = parts * Cardinality(peers)
<1>1. IsFiniteSet(peers) /\ Cardinality(peers) \in Nat
  BY PeersFinite, FS_Subset, FS_CardinalityType
<1>2. IsFiniteSet(1 .. parts) /\ Cardinality(1 .. parts) = parts
  <2>1. 1 \in Int /\ parts \in Int
    OBVIOUS
  <2>2. IsFiniteSet(1 .. parts) /\ Cardinality(1 .. parts) = IF 1 > parts THEN 0 ELSE parts - 1 + 1
    BY <2>1, FS_Interval
  <2> QED BY <2>2
<1>3. Pairs(h) = peers \X (1 .. parts)
  <2>1. \A x : x \in peers \X (1 .. parts) <=> \E s \in peers, i \in 1 .. parts : x = <<s, i>>
    OBVIOUS
  <2>2. ASSUME NEW x \in Pairs(h) PROVE \E s \in peers, i \in 1 .. parts : x = <<s, i>>
    <3>0. PICK t \in PeerSlots : \E i \in 1 .. h[t] : x = <<t, i>>
      BY PairsMember
    <3>1. PICK i \in 1 .. h[t] : x = <<t, i>>
      BY <3>0
    <3>2. t \in peers /\ h[t] = parts
      BY <3>1
    <3> QED BY <3>1, <3>2
  <2>3. ASSUME NEW s \in peers, NEW i \in 1 .. parts PROVE <<s, i>> \in Pairs(h)
    BY PairsMember
  <2> QED BY <2>1, <2>2, <2>3
<1>4. IsFiniteSet(Pairs(h)) /\ Cardinality(Pairs(h)) = Cardinality(peers) * Cardinality(1 .. parts)
  BY <1>1, <1>2, <1>3, FS_Product
<1>5. \A x, y \in Nat : x * y = y * x
  OBVIOUS
<1> QED BY <1>1, <1>2, <1>4, <1>5

\* If there is one, only its peer holds the packet, and once.
LEMMA PairsAlone ==
    ASSUME NEW h \in [PeerSlots -> Nat], IsFiniteSet(Pairs(h)), Cardinality(Pairs(h)) = 1,
           NEW s \in PeerSlots, h[s] > 0
    PROVE  \A t \in PeerSlots : h[t] = IF t = s THEN 1 ELSE 0
<1>1. PICK x : Pairs(h) = {x}
  BY FS_Singleton
<1>2. <<s, 1>> \in Pairs(h)
  BY PairsMember
<1>3. ASSUME NEW t \in PeerSlots, t # s, h[t] # 0 PROVE FALSE
  <2>1. <<t, 1>> \in Pairs(h)
    BY <1>3, PairsMember
  <2> QED BY <1>1, <1>2, <1>3, <2>1
<1>4. ASSUME h[s] # 1 PROVE FALSE
  <2>1. <<s, 2>> \in Pairs(h)
    BY <1>4, PairsMember
  <2>2. <<s, 1>> # <<s, 2>>
    OBVIOUS
  <2> QED BY <1>1, <1>2, <2>1, <2>2
<1> QED BY <1>3, <1>4

-----------------------------------------------------------------------------
Typed ==
    /\ BindingsTypeOK
    /\ host \in [connected : SUBSET PeerSlots, alive : BOOLEAN]

\* A packet is counted by as many as hold it, and what nobody has allocated nobody holds.
CountInv ==
    \A a \in Memory :
        /\ IsFiniteSet(Holders(a))
        /\ a \in Allocated => heap[a] = Cardinality(Holders(a))
        /\ a \notin Allocated => Holders(a) = {}

\* What arrived is held by that one command, until the application receives it.
ArrivedInv == \A s \in PeerSlots : \A a \in arrived[s] : a \in Allocated /\ heap[a] = 1

\* A packet that no command holds has one object, and no other packet has one.
OwnerInv ==
    /\ \A o \in Objects : Live(o) => Pointer(o) \in Allocated /\ heap[Pointer(o)] = 0
    /\ \A o, p \in Objects : Live(o) /\ Live(p) /\ Pointer(o) = Pointer(p) => o = p
    /\ \A a \in Allocated : heap[a] = 0 => \E o \in Objects : Live(o) /\ Pointer(o) = a

\* An event lets go of an object before the application takes it, and no two share one.
TakenInv ==
    /\ \A o \in taken : Live(o)
    /\ \A e \in Events : events[e] \notin taken
    /\ \A e, f \in Events : events[e] = events[f] /\ events[e] \in Objects => e = f

RuntimeInv ==
    /\ runtime \in [open : SUBSET Runtimes, closed : SUBSET Runtimes, refs : Nat,
                    initialized : BOOLEAN]
    /\ IsFiniteSet(runtime.open)
    /\ InitializedWhileOpen

PacketInv == Typed /\ CountInv /\ ArrivedInv /\ OwnerInv /\ TakenInv

BindingsInv == PacketInv /\ RuntimeInv

LEMMA HoldersPairs ==
    ASSUME NEW a
    PROVE  Holders(a) = Pairs(Counts(a)) /\ Holders(a)' = Pairs(Counts(a)')
<1>1. \A s \in PeerSlots : Counts(a)[s] = HeldBy(s)[a] /\ Counts(a)'[s] = HeldBy(s)'[a]
  BY DEF Counts
<1> QED BY <1>1 DEF Holders, Pairs

LEMMA CountsAre ==
    ASSUME Typed, NEW a \in Memory
    PROVE  /\ Counts(a) \in [PeerSlots -> Nat]
           /\ \A s \in PeerSlots :
                Counts(a)[s] = outgoing[s][a] + (IF a \in arrived[s] THEN 1 ELSE 0)
<1>1. \A s \in PeerSlots : outgoing[s][a] \in Nat
  BY DEF Typed, BindingsTypeOK
<1> QED BY <1>1 DEF Counts, HeldBy

LEMMA CountsNext ==
    ASSUME Typed', NEW a \in Memory
    PROVE  /\ Counts(a)' \in [PeerSlots -> Nat]
           /\ \A s \in PeerSlots :
                Counts(a)'[s] = outgoing'[s][a] + (IF a \in arrived'[s] THEN 1 ELSE 0)
<1>1. \A s \in PeerSlots : outgoing'[s][a] \in Nat
  BY DEF Typed, BindingsTypeOK
<1> QED BY <1>1 DEF Counts, HeldBy

LEMMA CountedAt ==
    ASSUME PacketInv, NEW a \in Memory
    PROVE  /\ Counts(a) \in [PeerSlots -> Nat]
           /\ IsFiniteSet(Pairs(Counts(a))) /\ Cardinality(Pairs(Counts(a))) \in Nat
           /\ a \in Allocated => heap[a] = Cardinality(Pairs(Counts(a)))
           /\ a \notin Allocated => Cardinality(Pairs(Counts(a))) = 0
           /\ Cardinality(Pairs(Counts(a))) = 0 => \A s \in PeerSlots : Counts(a)[s] = 0
<1>1. Counts(a) \in [PeerSlots -> Nat]
  BY CountsAre DEF PacketInv
<1>2. Holders(a) = Pairs(Counts(a))
  BY HoldersPairs
<1>3. /\ IsFiniteSet(Pairs(Counts(a)))
      /\ a \in Allocated => heap[a] = Cardinality(Pairs(Counts(a)))
      /\ a \notin Allocated => Pairs(Counts(a)) = {}
  BY <1>2 DEF PacketInv, CountInv
<1>4. /\ Cardinality(Pairs(Counts(a))) \in Nat
      /\ Cardinality(Pairs(Counts(a))) = 0 <=> Pairs(Counts(a)) = {}
  BY <1>3, FS_CardinalityType, FS_EmptySet
<1>5. Pairs(Counts(a)) = {} => \A s \in PeerSlots : Counts(a)[s] = 0
  BY <1>1, PairsEmpty
<1> QED BY <1>1, <1>3, <1>4, <1>5

LEMMA CountInvNext ==
    ASSUME \A a \in Memory :
                /\ IsFiniteSet(Pairs(Counts(a)'))
                /\ a \in Allocated' => heap'[a] = Cardinality(Pairs(Counts(a)'))
                /\ a \notin Allocated' => Cardinality(Pairs(Counts(a)')) = 0
    PROVE  CountInv'
<1>1. \A a \in Memory : Holders(a)' = Pairs(Counts(a)')
  BY HoldersPairs
<1>2. \A a \in Memory : a \notin Allocated' => Pairs(Counts(a)') = {}
  BY FS_EmptySet
<1> QED BY <1>1, <1>2 DEF CountInv

LEMMA CountsUnchanged ==
    ASSUME UNCHANGED <<outgoing, arrived>>, NEW a
    PROVE  Counts(a)' = Counts(a)
  BY DEF Counts, HeldBy

\* A live object's packet is held by nobody else.
LEMMA LiveFacts ==
    ASSUME PacketInv, NEW o \in Objects, Live(o)
    PROVE  /\ Pointer(o) \in Memory /\ Pointer(o) \in Allocated /\ heap[Pointer(o)] = 0
           /\ \A s \in PeerSlots : Counts(Pointer(o))[s] = 0
           /\ \A p \in Objects : Live(p) /\ p # o => Pointer(p) # Pointer(o)
<1>1. /\ Pointer(o) \in Memory /\ Pointer(o) \in Allocated /\ heap[Pointer(o)] = 0
      /\ \A p \in Objects : Live(p) /\ p # o => Pointer(p) # Pointer(o)
  BY DEF PacketInv, OwnerInv, Typed, BindingsTypeOK
<1>2. \A s \in PeerSlots : Counts(Pointer(o))[s] = 0
  BY <1>1, CountedAt
<1> QED BY <1>1, <1>2

-----------------------------------------------------------------------------
\* Only the heap and the objects matter to OwnerInv, and a pointer only while it is live.
LEMMA ReleaseKeeps ==
    ASSUME PacketInv, NEW o \in Objects, Live(o),
           heap' = Freed({Pointer(o)}), objects' = Released(o), UNCHANGED <<outgoing, arrived>>
    PROVE  CountInv' /\ ArrivedInv' /\ OwnerInv'
<1> DEFINE q == Pointer(o)
<1>1. /\ q \in Memory /\ q \in Allocated /\ heap[q] = 0
      /\ \A s \in PeerSlots : Counts(q)[s] = 0
      /\ \A p \in Objects : Live(p) /\ p # o => Pointer(p) # q
  BY LiveFacts
<1>2. Allocated' = Allocated \ {q} /\ \A a \in Allocated' : heap'[a] = heap[a]
  BY DEF Freed, Allocated
<1>3. objects \in [Objects -> [pointer : Memory \cup {None}, disposed : BOOLEAN]]
  BY DEF PacketInv, Typed, BindingsTypeOK
<1>4. /\ ~ Live(o)'
      /\ \A p \in Objects : p # o => (Live(p)' <=> Live(p)) /\ Pointer(p)' = Pointer(p)
  BY <1>3 DEF Released, Live, Pointer
<1> HIDE DEF q
<1>5. CountInv'
  <2>1. ASSUME NEW a \in Memory
        PROVE  /\ IsFiniteSet(Pairs(Counts(a)'))
               /\ a \in Allocated' => heap'[a] = Cardinality(Pairs(Counts(a)'))
               /\ a \notin Allocated' => Cardinality(Pairs(Counts(a)')) = 0
    <3>1. Counts(a)' = Counts(a)
      BY CountsUnchanged
    <3>2. a = q => Cardinality(Pairs(Counts(a))) = 0
      BY <1>1, CountedAt
    <3>3. /\ IsFiniteSet(Pairs(Counts(a)))
          /\ a \in Allocated => heap[a] = Cardinality(Pairs(Counts(a)))
          /\ a \notin Allocated => Cardinality(Pairs(Counts(a))) = 0
      BY CountedAt
    <3> QED BY <1>2, <3>1, <3>2, <3>3
  <2> QED BY <2>1, CountInvNext
<1>6. ArrivedInv'
  <2> SUFFICES ASSUME NEW s \in PeerSlots, NEW a \in arrived'[s]
               PROVE  a \in Allocated' /\ heap'[a] = 1
    BY DEF ArrivedInv
  <2>1. a \in Allocated /\ heap[a] = 1
    BY DEF PacketInv, ArrivedInv
  <2> QED BY <1>1, <1>2, <2>1
<1>7. OwnerInv'
  <2>1. ASSUME NEW p \in Objects, Live(p)'
        PROVE  Pointer(p)' \in Allocated' /\ heap'[Pointer(p)'] = 0
    <3>1. p # o /\ Live(p) /\ Pointer(p)' = Pointer(p) /\ Pointer(p) # q
      BY <1>1, <1>4, <2>1
    <3>2. Pointer(p) \in Allocated /\ heap[Pointer(p)] = 0
      BY <3>1 DEF PacketInv, OwnerInv
    <3> QED BY <1>2, <3>1, <3>2
  <2>2. ASSUME NEW p \in Objects, NEW r \in Objects,
               Live(p)', Live(r)', Pointer(p)' = Pointer(r)'
        PROVE  p = r
    <3>1. Live(p) /\ Live(r) /\ Pointer(p) = Pointer(r)
      BY <1>4, <2>2
    <3> QED BY <3>1 DEF PacketInv, OwnerInv
  <2>3. ASSUME NEW a \in Allocated', heap'[a] = 0
        PROVE  \E p \in Objects : Live(p)' /\ Pointer(p)' = a
    <3>1. a \in Allocated /\ a # q /\ heap[a] = 0
      BY <1>2, <2>3
    <3>2. PICK p \in Objects : Live(p) /\ Pointer(p) = a
      BY <3>1 DEF PacketInv, OwnerInv
    <3>3. p # o
      BY <3>1, <3>2 DEF q
    <3> QED BY <1>4, <3>2, <3>3
  <2> QED BY <2>1, <2>2, <2>3 DEF OwnerInv
<1> QED BY <1>5, <1>6, <1>7

\* References are given back, and what arrived and is still there is not concerned.
LEMMA DropKeeps ==
    ASSUME PacketInv, Typed', NEW held \in [Memory -> Nat], heap' = Drop(held), UNCHANGED objects,
           \A a \in Memory :
                /\ IsFiniteSet(Pairs(Counts(a)'))
                /\ Cardinality(Pairs(Counts(a)')) = Cardinality(Pairs(Counts(a))) - held[a],
           \A s \in PeerSlots : \A a \in arrived'[s] : a \in arrived[s] /\ held[a] = 0
    PROVE  CountInv' /\ ArrivedInv' /\ OwnerInv'
<1>1. Allocated \subseteq Memory /\ Allocated' \subseteq Memory
  BY DEF PacketInv, Typed, BindingsTypeOK
<1>2. /\ \A a : a \in Allocated' <=> a \in Allocated /\ ~ (held[a] > 0 /\ heap[a] = held[a])
      /\ \A a \in Allocated' : heap'[a] = heap[a] - held[a]
  BY DEF Drop, Allocated
<1>3. CountInv'
  <2>1. ASSUME NEW a \in Memory
        PROVE  /\ IsFiniteSet(Pairs(Counts(a)'))
               /\ a \in Allocated' => heap'[a] = Cardinality(Pairs(Counts(a)'))
               /\ a \notin Allocated' => Cardinality(Pairs(Counts(a)')) = 0
    <3> DEFINE c == Cardinality(Pairs(Counts(a)))
               d == Cardinality(Pairs(Counts(a)'))
    <3>1. c \in Nat /\ (a \in Allocated => heap[a] = c) /\ (a \notin Allocated => c = 0)
      BY CountedAt
    <3>2. IsFiniteSet(Pairs(Counts(a)')) /\ d = c - held[a] /\ held[a] \in Nat
      OBVIOUS
    <3>3. d \in Nat
      BY <3>2, FS_CardinalityType
    <3> HIDE DEF c, d
    <3>4. a \in Allocated' => heap'[a] = d
      BY <1>2, <3>1, <3>2
    <3>5. a \notin Allocated' => d = 0
      <4> SUFFICES ASSUME a \notin Allocated' PROVE d = 0
        OBVIOUS
      <4>1. CASE a \notin Allocated
        BY <3>1, <3>2, <3>3, <4>1
      <4>2. CASE held[a] > 0 /\ heap[a] = held[a] /\ a \in Allocated
        BY <3>1, <3>2, <4>2
      <4> QED BY <1>2, <4>1, <4>2
    <3> QED BY <3>2, <3>4, <3>5 DEF d
  <2> QED BY <2>1, CountInvNext
<1>4. ArrivedInv'
  <2> SUFFICES ASSUME NEW s \in PeerSlots, NEW a \in arrived'[s]
               PROVE  a \in Allocated' /\ heap'[a] = 1
    BY DEF ArrivedInv
  <2>1. a \in arrived[s] /\ held[a] = 0
    OBVIOUS
  <2>2. a \in Allocated /\ heap[a] = 1
    BY <2>1 DEF PacketInv, ArrivedInv
  <2> QED BY <1>2, <2>1, <2>2
<1>5. ASSUME NEW a \in Allocated
      PROVE  /\ heap[a] \in Nat /\ held[a] \in Nat
             /\ held[a] <= heap[a]
  <2>1. /\ heap[a] = Cardinality(Pairs(Counts(a))) /\ heap[a] \in Nat
    BY <1>1, CountedAt
  <2>2. Cardinality(Pairs(Counts(a)')) \in Nat
    BY <1>1, FS_CardinalityType
  <2>3. Cardinality(Pairs(Counts(a)')) = heap[a] - held[a] /\ held[a] \in Nat
    BY <1>1, <2>1
  <2> QED BY <2>1, <2>2, <2>3
<1>6. \A p \in Objects : (Live(p)' <=> Live(p)) /\ Pointer(p)' = Pointer(p)
  BY DEF Live, Pointer
<1>7. OwnerInv'
  <2>1. ASSUME NEW p \in Objects, Live(p)'
        PROVE  Pointer(p)' \in Allocated' /\ heap'[Pointer(p)'] = 0
    <3> DEFINE a == Pointer(p)
    <3>1. a \in Allocated /\ heap[a] = 0 /\ Pointer(p)' = a
      BY <1>6, <2>1 DEF PacketInv, OwnerInv
    <3> HIDE DEF a
    <3>2. held[a] = 0
      BY <1>5, <3>1
    <3>3. a \in Allocated' /\ heap'[a] = 0
      BY <1>2, <3>1, <3>2
    <3> QED BY <3>1, <3>3
  <2>2. ASSUME NEW p \in Objects, NEW r \in Objects,
               Live(p)', Live(r)', Pointer(p)' = Pointer(r)'
        PROVE  p = r
    BY <1>6, <2>2 DEF PacketInv, OwnerInv
  <2>3. ASSUME NEW a \in Allocated', heap'[a] = 0
        PROVE  \E p \in Objects : Live(p)' /\ Pointer(p)' = a
    <3>1. a \in Allocated /\ heap[a] - held[a] = 0 /\ ~ (held[a] > 0 /\ heap[a] = held[a])
      BY <1>2, <2>3
    <3>2. heap[a] = 0
      BY <1>5, <3>1
    <3>3. PICK p \in Objects : Live(p) /\ Pointer(p) = a
      BY <3>1, <3>2 DEF PacketInv, OwnerInv
    <3> QED BY <1>6, <3>3
  <2> QED BY <2>1, <2>2, <2>3 DEF OwnerInv
<1> QED BY <1>3, <1>4, <1>7

-----------------------------------------------------------------------------
LEMMA TypeFacts ==
    ASSUME PacketInv
    PROVE  /\ Allocated \subseteq Memory /\ \A a \in Allocated : heap[a] \in Nat
           /\ objects \in [Objects -> [pointer : Memory \cup {None}, disposed : BOOLEAN]]
           /\ events \in [Events -> Objects \cup {None, Disposed}]
           /\ taken \subseteq Objects
           /\ outgoing \in [PeerSlots -> [Memory -> Nat]]
           /\ arrived \in [PeerSlots -> SUBSET Memory]
           /\ host \in [connected : SUBSET PeerSlots, alive : BOOLEAN]
           /\ None \notin Objects /\ Disposed \notin Objects
  BY HeldAssumption DEF PacketInv, Typed, BindingsTypeOK

\* An object that is put where nothing referred to the one before.
LEMMA WrapKeepsTaken ==
    ASSUME PacketInv, NEW o \in Objects, NEW a \in Memory, objects' = Wrap(o, a), ~ Live(o)
    PROVE  /\ objects' \in [Objects -> [pointer : Memory \cup {None}, disposed : BOOLEAN]]
           /\ Live(o)' /\ Pointer(o)' = a
           /\ \A p \in Objects : p # o => (Live(p)' <=> Live(p)) /\ Pointer(p)' = Pointer(p)
           /\ o \notin taken
           /\ \A p \in taken : Live(p)'
<1>1. objects \in [Objects -> [pointer : Memory \cup {None}, disposed : BOOLEAN]]
      /\ taken \subseteq Objects
  BY TypeFacts
<1>2. /\ objects' \in [Objects -> [pointer : Memory \cup {None}, disposed : BOOLEAN]]
      /\ Live(o)' /\ Pointer(o)' = a
      /\ \A p \in Objects : p # o => (Live(p)' <=> Live(p)) /\ Pointer(p)' = Pointer(p)
  BY <1>1 DEF Wrap, Live, Pointer
<1>3. \A p \in taken : Live(p)
  BY DEF PacketInv, TakenInv
<1> QED BY <1>1, <1>2, <1>3

LEMMA FromBytesKeeps ==
    ASSUME PacketInv, NEW o \in Objects, NEW a \in Memory, FromBytes(o, a)
    PROVE  PacketInv'
<1>1. /\ ~ Live(o) /\ a \notin Allocated /\ heap' = With(a, 0) /\ objects' = Wrap(o, a)
      /\ UNCHANGED <<events, taken, outgoing, arrived, host>>
  BY DEF FromBytes, Unused
<1>2. Allocated' = Allocated \cup {a} /\ heap'[a] = 0 /\ \A b \in Allocated : heap'[b] = heap[b]
  BY <1>1 DEF With, Allocated
<1>3. /\ objects' \in [Objects -> [pointer : Memory \cup {None}, disposed : BOOLEAN]]
      /\ Live(o)' /\ Pointer(o)' = a
      /\ \A p \in Objects : p # o => (Live(p)' <=> Live(p)) /\ Pointer(p)' = Pointer(p)
      /\ \A p \in taken : Live(p)'
  BY <1>1, WrapKeepsTaken
<1>4. Typed'
  <2>1. Allocated' \subseteq Memory /\ \A b \in Allocated' : heap'[b] \in Nat
    BY <1>2, TypeFacts
  <2> QED BY <1>1, <1>3, <2>1, TypeFacts DEF Typed, BindingsTypeOK
<1>5. CountInv'
  <2>1. ASSUME NEW b \in Memory
        PROVE  /\ IsFiniteSet(Pairs(Counts(b)'))
               /\ b \in Allocated' => heap'[b] = Cardinality(Pairs(Counts(b)'))
               /\ b \notin Allocated' => Cardinality(Pairs(Counts(b)')) = 0
    <3>1. Counts(b)' = Counts(b)
      BY <1>1, CountsUnchanged
    <3>2. /\ IsFiniteSet(Pairs(Counts(b)))
          /\ b \in Allocated => heap[b] = Cardinality(Pairs(Counts(b)))
          /\ b \notin Allocated => Cardinality(Pairs(Counts(b))) = 0
      BY CountedAt
    <3> QED BY <1>1, <1>2, <3>1, <3>2
  <2> QED BY <2>1, CountInvNext
<1>6. ArrivedInv'
  BY <1>1, <1>2 DEF PacketInv, ArrivedInv
<1>7. OwnerInv'
  <2>1. ASSUME NEW p \in Objects, p # o, Live(p)'
        PROVE  Pointer(p)' \in Allocated /\ heap[Pointer(p)'] = 0
    BY <1>3, <2>1 DEF PacketInv, OwnerInv
  <2>2. ASSUME NEW p \in Objects, NEW r \in Objects,
               Live(p)', Live(r)', Pointer(p)' = Pointer(r)'
        PROVE  p = r
    <3>1. (p = o) <=> (r = o)
      BY <1>1, <1>3, <2>1, <2>2
    <3> QED BY <1>3, <2>2, <3>1 DEF PacketInv, OwnerInv
  <2>3. ASSUME NEW b \in Allocated', heap'[b] = 0
        PROVE  \E p \in Objects : Live(p)' /\ Pointer(p)' = b
    <3>1. CASE b = a
      BY <1>3, <3>1
    <3>2. CASE b # a
      <4>1. PICK p \in Objects : Live(p) /\ Pointer(p) = b
        BY <1>2, <2>3, <3>2 DEF PacketInv, OwnerInv
      <4> QED BY <1>1, <1>3, <4>1
    <3> QED BY <3>1, <3>2
  <2>4. \A p \in Objects : Live(p)' => Pointer(p)' \in Allocated' /\ heap'[Pointer(p)'] = 0
    BY <1>2, <1>3, <2>1
  <2> QED BY <2>2, <2>3, <2>4 DEF OwnerInv
<1>8. TakenInv'
  BY <1>1, <1>3 DEF PacketInv, TakenInv
<1> QED BY <1>4, <1>5, <1>6, <1>7, <1>8 DEF PacketInv

LEMMA ReleasedFacts ==
    ASSUME PacketInv, NEW o \in Objects, objects' = Released(o)
    PROVE  /\ objects' \in [Objects -> [pointer : Memory \cup {None}, disposed : BOOLEAN]]
           /\ ~ Live(o)'
           /\ \A p \in Objects : p # o => (Live(p)' <=> Live(p)) /\ Pointer(p)' = Pointer(p)
<1>1. objects \in [Objects -> [pointer : Memory \cup {None}, disposed : BOOLEAN]]
  BY TypeFacts
<1> QED BY <1>1 DEF Released, Live, Pointer

LEMMA FreedTyped ==
    ASSUME PacketInv, NEW a, heap' = Freed({a})
    PROVE  Allocated' \subseteq Memory /\ \A b \in Allocated' : heap'[b] \in Nat
<1>1. Allocated' = Allocated \ {a} /\ \A b \in Allocated' : heap'[b] = heap[b]
  BY DEF Freed, Allocated
<1> QED BY <1>1, TypeFacts

LEMMA ReleaseKeepsTaken ==
    ASSUME PacketInv, NEW o \in Objects, objects' = Released(o),
           taken' = taken \ {o}, UNCHANGED events
    PROVE  TakenInv'
<1>1. \A p \in Objects : p # o => (Live(p)' <=> Live(p))
  BY ReleasedFacts
<1>2. taken \subseteq Objects
  BY TypeFacts
<1> QED BY <1>1, <1>2 DEF PacketInv, TakenInv

LEMMA DisposePacketKeeps ==
    ASSUME PacketInv, NEW o \in Objects, DisposePacket(o)
    PROVE  PacketInv'
<1>1. /\ Live(o) /\ heap' = Freed({Pointer(o)}) /\ objects' = Released(o) /\ taken' = taken \ {o}
      /\ UNCHANGED <<events, outgoing, arrived, host>>
  BY DEF DisposePacket
<1>2. CountInv' /\ ArrivedInv' /\ OwnerInv'
  BY <1>1, ReleaseKeeps
<1>3. TakenInv'
  BY <1>1, ReleaseKeepsTaken
<1>4. Typed'
  BY <1>1, FreedTyped, ReleasedFacts, TypeFacts DEF Typed, BindingsTypeOK
<1> QED BY <1>2, <1>3, <1>4 DEF PacketInv

\* The packet changes its object, and nobody else's.
LEMMA RewrappedFacts ==
    ASSUME PacketInv, NEW o \in Objects, NEW q \in Objects, Live(o), ~ Live(q),
           objects' = Rewrapped(o, q)
    PROVE  /\ objects' \in [Objects -> [pointer : Memory \cup {None}, disposed : BOOLEAN]]
           /\ q # o /\ ~ Live(o)' /\ Live(q)' /\ Pointer(q)' = Pointer(o)
           /\ \A p \in Objects \ {o, q} : (Live(p)' <=> Live(p)) /\ Pointer(p)' = Pointer(p)
<1> DEFINE between == Released(o)
           anew == [pointer |-> Pointer(o), disposed |-> FALSE]
<1>1. objects \in [Objects -> [pointer : Memory \cup {None}, disposed : BOOLEAN]]
  BY TypeFacts
<1>2. /\ between \in [Objects -> [pointer : Memory \cup {None}, disposed : BOOLEAN]]
      /\ between[o].disposed = TRUE
      /\ \A p \in Objects : p # o => between[p] = objects[p]
  BY <1>1 DEF Released
<1>3. /\ anew \in [pointer : Memory \cup {None}, disposed : BOOLEAN]
      /\ anew.pointer = Pointer(o) /\ anew.disposed = FALSE
  BY <1>1 DEF Pointer
<1>4. q # o
  OBVIOUS
<1>5. objects' = [between EXCEPT ![q] = anew]
  BY DEF Rewrapped
<1> HIDE DEF between, anew
<1>6. /\ objects' \in [Objects -> [pointer : Memory \cup {None}, disposed : BOOLEAN]]
      /\ objects'[q] = anew /\ \A p \in Objects : p # q => objects'[p] = between[p]
  BY <1>2, <1>3, <1>5
<1>7. ~ Live(o)' /\ Live(q)'
  BY <1>2, <1>3, <1>4, <1>6 DEF Live
<1>8. Pointer(q)' = Pointer(o)
  BY <1>3, <1>6 DEF Pointer
<1>9. \A p \in Objects \ {o, q} : (Live(p)' <=> Live(p)) /\ Pointer(p)' = Pointer(p)
  BY <1>2, <1>6 DEF Live, Pointer
<1> QED BY <1>4, <1>6, <1>7, <1>8, <1>9

LEMMA RewrapKeeps ==
    ASSUME PacketInv, NEW o \in Objects, NEW q \in Objects, Rewrap(o, q)
    PROVE  PacketInv'
<1>1. /\ Live(o) /\ ~ Live(q) /\ objects' = Rewrapped(o, q) /\ taken' = taken \ {o}
      /\ UNCHANGED <<heap, events, outgoing, arrived, host>>
  BY DEF Rewrap, Unused
<1>2. /\ objects' \in [Objects -> [pointer : Memory \cup {None}, disposed : BOOLEAN]]
      /\ q # o /\ ~ Live(o)' /\ Live(q)' /\ Pointer(q)' = Pointer(o)
      /\ \A p \in Objects \ {o, q} : (Live(p)' <=> Live(p)) /\ Pointer(p)' = Pointer(p)
  BY <1>1, RewrappedFacts
<1>3. Typed'
  BY <1>1, <1>2, TypeFacts DEF Typed, BindingsTypeOK, Allocated
<1>4. CountInv' /\ ArrivedInv'
  <2>1. \A a : Holders(a)' = Holders(a)
    BY <1>1, HoldersPairs, CountsUnchanged
  <2> QED BY <1>1, <2>1 DEF PacketInv, CountInv, ArrivedInv, Allocated
<1>5. Allocated' = Allocated
  BY <1>1 DEF Allocated
<1>6. ASSUME NEW p \in Objects, Live(p)'
      PROVE  \E r \in Objects : /\ Live(r) /\ Pointer(r) = Pointer(p)'
                               /\ (p = q <=> r = o) /\ (p # q => r = p)
  <2>1. CASE p = q
    BY <1>1, <1>2, <2>1
  <2>2. CASE p # q
    <3>1. p \in Objects \ {o, q}
      BY <1>2, <1>6, <2>2
    <3> QED BY <1>2, <1>6, <2>2, <3>1
  <2> QED BY <2>1, <2>2
<1>7. OwnerInv'
  <2>1. ASSUME NEW p \in Objects, Live(p)'
        PROVE  Pointer(p)' \in Allocated' /\ heap'[Pointer(p)'] = 0
    BY <1>1, <1>5, <1>6, <2>1 DEF PacketInv, OwnerInv
  <2>2. ASSUME NEW p \in Objects, NEW r \in Objects,
               Live(p)', Live(r)', Pointer(p)' = Pointer(r)'
        PROVE  p = r
    <3>1. PICK x \in Objects : /\ Live(x) /\ Pointer(x) = Pointer(p)'
                               /\ (p = q <=> x = o) /\ (p # q => x = p)
      BY <1>6, <2>2
    <3>2. PICK y \in Objects : /\ Live(y) /\ Pointer(y) = Pointer(r)'
                               /\ (r = q <=> y = o) /\ (r # q => y = r)
      BY <1>6, <2>2
    <3>3. x = y
      BY <2>2, <3>1, <3>2 DEF PacketInv, OwnerInv
    <3> QED BY <3>1, <3>2, <3>3
  <2>3. ASSUME NEW a \in Allocated', heap'[a] = 0
        PROVE  \E p \in Objects : Live(p)' /\ Pointer(p)' = a
    <3>1. PICK p \in Objects : Live(p) /\ Pointer(p) = a
      BY <1>1, <1>5, <2>3 DEF PacketInv, OwnerInv
    <3>2. p # q
      BY <1>1, <3>1
    <3> QED BY <1>2, <3>1, <3>2
  <2> QED BY <2>1, <2>2, <2>3 DEF OwnerInv
<1>8. TakenInv'
  <2>1. taken \subseteq Objects /\ \A p \in taken : Live(p)
    BY TypeFacts DEF PacketInv, TakenInv
  <2>2. ASSUME NEW p \in taken' PROVE Live(p)'
    <3>1. p \in Objects \ {o, q} /\ Live(p)
      BY <1>1, <2>1
    <3> QED BY <1>2, <3>1
  <2> QED BY <1>1, <2>2 DEF PacketInv, TakenInv
<1> QED BY <1>3, <1>4, <1>7, <1>8 DEF PacketInv

\* The commands for the peers take the packet over from the object.
LEMMA GiveKeeps ==
    ASSUME PacketInv, NEW o \in Objects, NEW parts \in 1 .. MaxParts,
           NEW peers \in SUBSET PeerSlots, GiveTo(o, parts, peers)
    PROVE  PacketInv'
<1> DEFINE q == Pointer(o)
<1>1. /\ Live(o) /\ objects' = Released(o) /\ taken' = taken \ {o}
      /\ heap' = IF peers = {} THEN Rejected(o) ELSE HeldMore(o, parts, peers)
      /\ outgoing' = Queued(o, parts, peers)
      /\ UNCHANGED <<events, arrived, host>>
  BY DEF GiveTo
<1>2. /\ q \in Memory /\ q \in Allocated /\ heap[q] = 0
      /\ \A s \in PeerSlots : Counts(q)[s] = 0
      /\ \A p \in Objects : Live(p) /\ p # o => Pointer(p) # q
  BY <1>1, LiveFacts
<1>3. TakenInv'
  BY <1>1, ReleaseKeepsTaken
<1>4. parts \in Nat /\ parts >= 1
  BY HeldAssumption
<1>5. outgoing \in [PeerSlots -> [Memory -> Nat]]
  BY TypeFacts
<1>6. /\ \A s \in PeerSlots : outgoing'[s] = IF s \in peers
                                THEN [outgoing[s] EXCEPT ![q] = outgoing[s][q] + parts]
                                ELSE outgoing[s]
      /\ outgoing' \in [PeerSlots -> [Memory -> Nat]]
  <2>1. \A s \in PeerSlots :
            [outgoing[s] EXCEPT ![q] = outgoing[s][q] + parts] \in [Memory -> Nat]
    BY <1>2, <1>4, <1>5
  <2> QED BY <1>1, <1>5, <2>1 DEF Queued
<1>7. CASE peers = {}
  <2>1. heap' = Freed({Pointer(o)})
    BY <1>1, <1>7 DEF Rejected
  <2>2. outgoing' = outgoing
    BY <1>5, <1>6, <1>7
  <2>3. CountInv' /\ ArrivedInv' /\ OwnerInv'
    BY <1>1, <2>1, <2>2, ReleaseKeeps
  <2>4. Typed'
    BY <1>1, <2>1, <2>2, FreedTyped, ReleasedFacts, TypeFacts DEF Typed, BindingsTypeOK
  <2> QED BY <1>3, <2>3, <2>4 DEF PacketInv
<1>8. CASE peers # {}
  <2> DEFINE k == parts * Cardinality(peers)
  <2>1. k \in Nat /\ k # 0
    <3>1. IsFiniteSet(peers)
      BY PeersFinite, FS_Subset
    <3>2. Cardinality(peers) \in Nat /\ Cardinality(peers) # 0
      BY <1>8, <3>1, FS_CardinalityType, FS_EmptySet
    <3>3. \A x, y \in Nat : x # 0 /\ y # 0 => x * y \in Nat /\ x * y # 0
      OBVIOUS
    <3> QED BY <1>4, <3>2, <3>3
  <2>2. heap' = With(q, heap[q] + k)
    BY <1>1, <1>8 DEF HeldMore
  <2> HIDE DEF k
  <2>3. heap[q] + k = k
    BY <1>2, <2>1
  <2>4. Allocated' = Allocated /\ heap'[q] = k /\ \A b \in Allocated : b # q => heap'[b] = heap[b]
    BY <1>2, <2>2, <2>3 DEF With, Allocated
  <2>5. Typed'
    <3>1. Allocated' \subseteq Memory /\ \A b \in Allocated' : heap'[b] \in Nat
      BY <2>1, <2>4, TypeFacts
    <3> QED BY <1>1, <1>6, <3>1, ReleasedFacts, TypeFacts DEF Typed, BindingsTypeOK
  <2>6. CountInv'
    <3>1. ASSUME NEW b \in Memory
          PROVE  /\ IsFiniteSet(Pairs(Counts(b)'))
                 /\ b \in Allocated' => heap'[b] = Cardinality(Pairs(Counts(b)'))
                 /\ b \notin Allocated' => Cardinality(Pairs(Counts(b)')) = 0
      <4>1. Counts(b) \in [PeerSlots -> Nat] /\ Counts(b)' \in [PeerSlots -> Nat]
        BY <2>5, CountedAt, CountsNext
      <4>2. \A s \in PeerSlots :
              Counts(b)[s] = outgoing[s][b] + (IF b \in arrived[s] THEN 1 ELSE 0)
        BY CountsAre DEF PacketInv
      <4>3. \A s \in PeerSlots :
              Counts(b)'[s] = outgoing'[s][b] + (IF b \in arrived[s] THEN 1 ELSE 0)
        BY <1>1, <2>5, CountsNext
      <4>4. CASE b = q
        <5>1. \A s \in PeerSlots : outgoing[s][b] = 0 /\ b \notin arrived[s]
          <6> SUFFICES ASSUME NEW s \in PeerSlots PROVE outgoing[s][b] = 0 /\ b \notin arrived[s]
            OBVIOUS
          <6>1. outgoing[s][b] + (IF b \in arrived[s] THEN 1 ELSE 0) = 0
            BY <1>2, <4>2, <4>4
          <6>2. outgoing[s][b] \in Nat
            BY <1>5
          <6> QED BY <6>1, <6>2
        <5>2. \A s \in PeerSlots : outgoing'[s][b] = IF s \in peers THEN parts ELSE 0
          <6> SUFFICES ASSUME NEW s \in PeerSlots
                       PROVE  outgoing'[s][b] = IF s \in peers THEN parts ELSE 0
            OBVIOUS
          <6>1. s \in peers => outgoing'[s][b] = outgoing[s][b] + parts
            BY <1>5, <1>6, <4>4
          <6>2. s \notin peers => outgoing'[s][b] = outgoing[s][b]
            BY <1>6
          <6> QED BY <1>4, <5>1, <6>1, <6>2
        <5>3. \A s \in PeerSlots : Counts(b)'[s] = IF s \in peers THEN parts ELSE 0
          BY <1>4, <4>3, <5>1, <5>2
        <5>4. IsFiniteSet(Pairs(Counts(b)')) /\ Cardinality(Pairs(Counts(b)')) = k
          BY <1>4, <4>1, <5>3, PairsOf DEF k
        <5> QED BY <1>2, <2>4, <4>4, <5>4
      <4>5. CASE b # q
        <5>1. \A s \in PeerSlots : outgoing'[s][b] = outgoing[s][b]
          BY <1>5, <1>6, <4>5
        <5>2. Counts(b)' = Counts(b)
          BY <4>1, <4>2, <4>3, <5>1
        <5>3. /\ IsFiniteSet(Pairs(Counts(b)))
              /\ b \in Allocated => heap[b] = Cardinality(Pairs(Counts(b)))
              /\ b \notin Allocated => Cardinality(Pairs(Counts(b))) = 0
          BY CountedAt
        <5> QED BY <2>4, <4>5, <5>2, <5>3
      <4> QED BY <4>4, <4>5
    <3> QED BY <3>1, CountInvNext
  <2>7. ArrivedInv'
    <3> SUFFICES ASSUME NEW s \in PeerSlots, NEW a \in arrived[s]
                 PROVE  a \in Allocated' /\ heap'[a] = 1
      BY <1>1 DEF ArrivedInv
    <3>1. a \in Allocated /\ heap[a] = 1
      BY DEF PacketInv, ArrivedInv
    <3> QED BY <1>2, <2>4, <3>1
  <2>8. OwnerInv'
    <3>1. /\ ~ Live(o)'
          /\ \A p \in Objects : p # o => (Live(p)' <=> Live(p)) /\ Pointer(p)' = Pointer(p)
      BY <1>1, ReleasedFacts
    <3>2. ASSUME NEW p \in Objects, Live(p)'
          PROVE  Pointer(p)' \in Allocated' /\ heap'[Pointer(p)'] = 0
      <4>1. p # o /\ Live(p) /\ Pointer(p)' = Pointer(p) /\ Pointer(p) # q
        BY <1>2, <3>1, <3>2
      <4>2. Pointer(p) \in Allocated /\ heap[Pointer(p)] = 0
        BY <4>1 DEF PacketInv, OwnerInv
      <4> QED BY <2>4, <4>1, <4>2
    <3>3. ASSUME NEW p \in Objects, NEW r \in Objects,
                 Live(p)', Live(r)', Pointer(p)' = Pointer(r)'
          PROVE  p = r
      <4>1. Live(p) /\ Live(r) /\ Pointer(p) = Pointer(r)
        BY <3>1, <3>3
      <4> QED BY <4>1 DEF PacketInv, OwnerInv
    <3>4. ASSUME NEW a \in Allocated', heap'[a] = 0
          PROVE  \E p \in Objects : Live(p)' /\ Pointer(p)' = a
      <4>1. a # q /\ a \in Allocated /\ heap[a] = 0
        BY <2>1, <2>4, <3>4
      <4>2. PICK p \in Objects : Live(p) /\ Pointer(p) = a
        BY <4>1 DEF PacketInv, OwnerInv
      <4>3. p # o
        BY <4>1, <4>2
      <4> QED BY <3>1, <4>2, <4>3
    <3> QED BY <3>2, <3>3, <3>4 DEF OwnerInv
  <2> QED BY <1>3, <2>5, <2>6, <2>7, <2>8 DEF PacketInv
<1> QED BY <1>7, <1>8

-----------------------------------------------------------------------------
LEMMA DropTyped ==
    ASSUME PacketInv, NEW held \in [Memory -> Nat],
           \A a \in Memory : held[a] <= Cardinality(Pairs(Counts(a))), heap' = Drop(held)
    PROVE  Allocated' \subseteq Memory /\ \A b \in Allocated' : heap'[b] \in Nat
<1>1. /\ \A a \in Allocated' : a \in Allocated /\ heap'[a] = heap[a] - held[a]
  BY DEF Drop, Allocated
<1>2. ASSUME NEW a \in Allocated PROVE heap[a] - held[a] \in Nat
  <2>1. a \in Memory
    BY TypeFacts
  <2>2. heap[a] = Cardinality(Pairs(Counts(a))) /\ heap[a] \in Nat
    BY <2>1, CountedAt
  <2>3. held[a] \in Nat /\ held[a] <= heap[a]
    BY <2>1, <2>2
  <2> QED BY <2>2, <2>3
<1> QED BY <1>1, <1>2, TypeFacts

LEMMA OneTyped == \A a : One(a) \in [Memory -> Nat] /\ \A b \in Memory : One(a)[b] = IF b = a THEN 1 ELSE 0
  BY DEF One

\* A packet that arrived is held by no other command.
LEMMA ArrivedAlone ==
    ASSUME PacketInv, NEW s \in PeerSlots, NEW a \in arrived[s]
    PROVE  /\ a \in Memory /\ a \in Allocated /\ heap[a] = 1
           /\ \A t \in PeerSlots : Counts(a)[t] = IF t = s THEN 1 ELSE 0
           /\ \A t \in PeerSlots : outgoing[t][a] = 0
           /\ \A t \in PeerSlots : t # s => a \notin arrived[t]
<1>1. a \in Memory
  BY TypeFacts
<1>2. a \in Allocated /\ heap[a] = 1
  BY DEF PacketInv, ArrivedInv
<1>3. /\ Counts(a) \in [PeerSlots -> Nat] /\ IsFiniteSet(Pairs(Counts(a)))
      /\ Cardinality(Pairs(Counts(a))) = 1
  BY <1>1, <1>2, CountedAt
<1>4. /\ \A t \in PeerSlots :
            Counts(a)[t] = outgoing[t][a] + (IF a \in arrived[t] THEN 1 ELSE 0)
      /\ \A t \in PeerSlots : outgoing[t][a] \in Nat
  BY <1>1, CountsAre, TypeFacts DEF PacketInv
<1>5. Counts(a)[s] > 0
  BY <1>4
<1>6. \A t \in PeerSlots : Counts(a)[t] = IF t = s THEN 1 ELSE 0
  BY <1>3, <1>5, PairsAlone
<1>7. \A t \in PeerSlots : outgoing[t][a] = 0 /\ (t # s => a \notin arrived[t])
  <2> SUFFICES ASSUME NEW t \in PeerSlots
               PROVE  outgoing[t][a] = 0 /\ (t # s => a \notin arrived[t])
    OBVIOUS
  <2>1. CASE t = s
    <3>1. outgoing[s][a] + 1 = 1 /\ outgoing[s][a] \in Nat
      BY <1>4, <1>6, <2>1
    <3> QED BY <2>1, <3>1
  <2>2. CASE t # s
    <3>1. outgoing[t][a] + (IF a \in arrived[t] THEN 1 ELSE 0) = 0 /\ outgoing[t][a] \in Nat
      BY <1>4, <1>6, <2>2
    <3> QED BY <3>1
  <2> QED BY <2>1, <2>2
<1> QED BY <1>1, <1>2, <1>6, <1>7

LEMMA CommandDoneKeeps ==
    ASSUME PacketInv, NEW s \in PeerSlots, NEW a \in Memory, CommandDone(s, a)
    PROVE  PacketInv'
<1>1. /\ outgoing[s][a] > 0 /\ outgoing' = [outgoing EXCEPT ![s][a] = @ - 1]
      /\ heap' = Drop(One(a))
      /\ UNCHANGED <<objects, events, taken, arrived, host>>
  BY DEF CommandDone
<1>2. outgoing \in [PeerSlots -> [Memory -> Nat]]
  BY TypeFacts
<1>3. outgoing[s][a] \in Nat /\ outgoing[s][a] - 1 \in Nat
  BY <1>1, <1>2
<1>4. /\ outgoing' \in [PeerSlots -> [Memory -> Nat]]
      /\ outgoing'[s][a] = outgoing[s][a] - 1
      /\ \A t \in PeerSlots, b \in Memory :
            t # s \/ b # a => outgoing'[t][b] = outgoing[t][b]
  BY <1>1, <1>2, <1>3
<1>5. \A b \in Memory : One(a)[b] <= Cardinality(Pairs(Counts(b)))
  <2>1. /\ Counts(a) \in [PeerSlots -> Nat] /\ IsFiniteSet(Pairs(Counts(a)))
        /\ Cardinality(Pairs(Counts(a))) \in Nat
        /\ Cardinality(Pairs(Counts(a))) = 0 => Counts(a)[s] = 0
    BY CountedAt
  <2>2. Counts(a)[s] = outgoing[s][a] + (IF a \in arrived[s] THEN 1 ELSE 0)
    BY CountsAre DEF PacketInv
  <2>3. Counts(a)[s] # 0
    BY <1>1, <1>3, <2>2
  <2>4. 1 <= Cardinality(Pairs(Counts(a)))
    BY <2>1, <2>3
  <2>5. \A b \in Memory : Cardinality(Pairs(Counts(b))) \in Nat
    BY CountedAt
  <2> QED BY <2>4, <2>5, OneTyped
<1>6. Typed'
  <2>1. Allocated' \subseteq Memory /\ \A b \in Allocated' : heap'[b] \in Nat
    BY <1>1, <1>5, OneTyped, DropTyped
  <2> QED BY <1>1, <1>4, <2>1, TypeFacts DEF Typed, BindingsTypeOK
<1>7. ASSUME NEW b \in Memory
      PROVE  /\ IsFiniteSet(Pairs(Counts(b)'))
             /\ Cardinality(Pairs(Counts(b)')) = Cardinality(Pairs(Counts(b))) - One(a)[b]
  <2>1. /\ Counts(b) \in [PeerSlots -> Nat] /\ Counts(b)' \in [PeerSlots -> Nat]
        /\ IsFiniteSet(Pairs(Counts(b))) /\ Cardinality(Pairs(Counts(b))) \in Nat
    BY <1>6, CountedAt, CountsNext
  <2>2. \A t \in PeerSlots :
          Counts(b)[t] = outgoing[t][b] + (IF b \in arrived[t] THEN 1 ELSE 0)
    BY CountsAre DEF PacketInv
  <2>3. \A t \in PeerSlots :
          Counts(b)'[t] = outgoing'[t][b] + (IF b \in arrived[t] THEN 1 ELSE 0)
    BY <1>1, <1>6, CountsNext
  <2>4. CASE b = a
    <3>1. Counts(b)[s] > 0 /\ Counts(b)'[s] = Counts(b)[s] - 1
      BY <1>1, <1>3, <1>4, <2>2, <2>3, <2>4
    <3>2. \A t \in PeerSlots : t # s => Counts(b)'[t] = Counts(b)[t]
      BY <1>4, <2>2, <2>3
    <3>3. Counts(b)' = [Counts(b) EXCEPT ![s] = Counts(b)[s] - 1]
      BY <2>1, <3>1, <3>2
    <3>4. /\ IsFiniteSet(Pairs(Counts(b)'))
          /\ Cardinality(Pairs(Counts(b)')) = Cardinality(Pairs(Counts(b))) - 1
      BY <2>1, <3>1, <3>3, PairsOneLess
    <3> QED BY <2>4, <3>4, OneTyped
  <2>5. CASE b # a
    <3>1. Counts(b)' = Counts(b)
      BY <1>4, <2>1, <2>2, <2>3, <2>5
    <3> QED BY <2>1, <2>5, <3>1, OneTyped
  <2> QED BY <2>4, <2>5
<1>8. ASSUME NEW t \in PeerSlots, NEW b \in arrived'[t]
      PROVE  b \in arrived[t] /\ One(a)[b] = 0
  <2>1. b \in arrived[t]
    BY <1>1
  <2>2. b \in Memory /\ outgoing[s][b] = 0
    BY <2>1, ArrivedAlone
  <2> QED BY <1>1, <2>1, <2>2, OneTyped
<1>9. CountInv' /\ ArrivedInv' /\ OwnerInv'
  BY <1>1, <1>6, <1>7, <1>8, OneTyped, DropKeeps
<1>10. TakenInv'
  BY <1>1 DEF PacketInv, TakenInv, Live
<1> QED BY <1>6, <1>9, <1>10 DEF PacketInv

LEMMA HeldTyped ==
    ASSUME PacketInv, NEW s \in PeerSlots
    PROVE  HeldBy(s) \in [Memory -> Nat] /\ \A a \in Memory : HeldBy(s)[a] = Counts(a)[s]
<1>1. \A a \in Memory : Counts(a)[s] = HeldBy(s)[a] /\ Counts(a)[s] \in Nat
  BY CountsAre DEF PacketInv, Counts
<1> QED BY <1>1 DEF HeldBy

LEMMA ResetPeerKeeps ==
    ASSUME PacketInv, NEW s \in PeerSlots, ResetPeer(s)
    PROVE  PacketInv'
<1>1. /\ heap' = Drop(HeldBy(s))
      /\ outgoing' = [outgoing EXCEPT ![s] = [a \in Memory |-> 0]]
      /\ arrived' = [arrived EXCEPT ![s] = {}]
      /\ host' = [host EXCEPT !.connected = @ \ {s}]
      /\ UNCHANGED <<objects, events, taken>>
  BY DEF ResetPeer
<1>2. outgoing \in [PeerSlots -> [Memory -> Nat]] /\ arrived \in [PeerSlots -> SUBSET Memory]
      /\ host \in [connected : SUBSET PeerSlots, alive : BOOLEAN]
  BY TypeFacts
<1>3. /\ outgoing' \in [PeerSlots -> [Memory -> Nat]] /\ arrived' \in [PeerSlots -> SUBSET Memory]
      /\ host' \in [connected : SUBSET PeerSlots, alive : BOOLEAN]
      /\ arrived'[s] = {} /\ \A a \in Memory : outgoing'[s][a] = 0
      /\ \A t \in PeerSlots : t # s => outgoing'[t] = outgoing[t] /\ arrived'[t] = arrived[t]
  BY <1>1, <1>2
<1>4. /\ HeldBy(s) \in [Memory -> Nat] /\ \A a \in Memory : HeldBy(s)[a] = Counts(a)[s]
  BY HeldTyped
<1> DEFINE held == HeldBy(s)
<1> HIDE DEF held
<1>5. ASSUME NEW a \in Memory, NEW g \in [PeerSlots -> Nat], g = [Counts(a) EXCEPT ![s] = 0]
      PROVE  /\ held[a] <= Cardinality(Pairs(Counts(a)))
             /\ IsFiniteSet(Pairs(g))
             /\ Cardinality(Pairs(g)) = Cardinality(Pairs(Counts(a))) - held[a]
  <2>1. Counts(a) \in [PeerSlots -> Nat] /\ IsFiniteSet(Pairs(Counts(a)))
    BY CountedAt
  <2>2. held[a] = Counts(a)[s]
    BY <1>4 DEF held
  <2> DEFINE h == Counts(a)
  <2>3. h \in [PeerSlots -> Nat] /\ IsFiniteSet(Pairs(h)) /\ g = [h EXCEPT ![s] = 0]
    BY <1>5, <2>1
  <2> HIDE DEF h
  <2>4. /\ IsFiniteSet(Pairs(g))
        /\ Cardinality(Pairs(g)) = Cardinality(Pairs(h)) - h[s]
        /\ h[s] <= Cardinality(Pairs(h))
    BY <2>3, PairsWithout
  <2> QED BY <2>2, <2>4 DEF h
<1>6. Typed'
  <2>1. \A a \in Memory : held[a] <= Cardinality(Pairs(Counts(a)))
    <3> SUFFICES ASSUME NEW a \in Memory PROVE held[a] <= Cardinality(Pairs(Counts(a)))
      OBVIOUS
    <3> DEFINE g == [Counts(a) EXCEPT ![s] = 0]
    <3>1. g \in [PeerSlots -> Nat]
      BY CountedAt
    <3> HIDE DEF g
    <3>2. g = [Counts(a) EXCEPT ![s] = 0]
      BY DEF g
    <3> QED BY <1>5, <3>1, <3>2
  <2>2. Allocated' \subseteq Memory /\ \A b \in Allocated' : heap'[b] \in Nat
    BY <1>1, <1>4, <2>1, DropTyped DEF held
  <2> QED BY <1>1, <1>3, <2>2, TypeFacts DEF Typed, BindingsTypeOK
<1>7. ASSUME NEW a \in Memory
      PROVE  /\ IsFiniteSet(Pairs(Counts(a)'))
             /\ Cardinality(Pairs(Counts(a)')) = Cardinality(Pairs(Counts(a))) - held[a]
  <2>1. Counts(a) \in [PeerSlots -> Nat] /\ Counts(a)' \in [PeerSlots -> Nat]
    BY <1>6, CountedAt, CountsNext
  <2>2. \A t \in PeerSlots :
          Counts(a)[t] = outgoing[t][a] + (IF a \in arrived[t] THEN 1 ELSE 0)
    BY CountsAre DEF PacketInv
  <2>3. \A t \in PeerSlots :
          Counts(a)'[t] = outgoing'[t][a] + (IF a \in arrived'[t] THEN 1 ELSE 0)
    BY <1>6, CountsNext
  <2>4. Counts(a)' = [Counts(a) EXCEPT ![s] = 0]
    <3>1. Counts(a)'[s] = 0
      BY <1>3, <2>3
    <3>2. \A t \in PeerSlots : t # s => Counts(a)'[t] = Counts(a)[t]
      BY <1>3, <2>2, <2>3
    <3> QED BY <2>1, <3>1, <3>2
  <2> QED BY <1>5, <2>1, <2>4
<1>8. ASSUME NEW t \in PeerSlots, NEW b \in arrived'[t]
      PROVE  b \in arrived[t] /\ held[b] = 0
  <2>1. t # s /\ b \in arrived[t]
    BY <1>3
  <2>2. b \in Memory /\ Counts(b)[s] = 0
    BY <2>1, ArrivedAlone
  <2> QED BY <1>4, <2>1, <2>2 DEF held
<1>9. CountInv' /\ ArrivedInv' /\ OwnerInv'
  <2>1. held \in [Memory -> Nat] /\ heap' = Drop(held)
    BY <1>1, <1>4 DEF held
  <2> QED BY <1>1, <1>6, <1>7, <1>8, <2>1, DropKeeps
<1>10. TakenInv'
  BY <1>1 DEF PacketInv, TakenInv, Live
<1> QED BY <1>6, <1>9, <1>10 DEF PacketInv

LEMMA DestroyHostKeeps ==
    ASSUME PacketInv, DestroyHost
    PROVE  PacketInv'
<1>1. /\ heap' = Drop(HeldByAll)
      /\ outgoing' = [s \in PeerSlots |-> [a \in Memory |-> 0]]
      /\ arrived' = [s \in PeerSlots |-> {}]
      /\ host' = [connected |-> {}, alive |-> FALSE]
      /\ UNCHANGED <<objects, events, taken>>
  BY DEF DestroyHost
<1>2. /\ outgoing' \in [PeerSlots -> [Memory -> Nat]] /\ arrived' \in [PeerSlots -> SUBSET Memory]
      /\ host' \in [connected : SUBSET PeerSlots, alive : BOOLEAN]
  <2>1. [a \in Memory |-> 0] \in [Memory -> Nat]
    OBVIOUS
  <2> QED BY <1>1, <2>1
<1>3. \A a \in Memory : /\ HeldByAll[a] = Cardinality(Pairs(Counts(a)))
                        /\ HeldByAll[a] \in Nat
  BY CountedAt, HoldersPairs DEF HeldByAll
<1>4. HeldByAll \in [Memory -> Nat]
  BY <1>3 DEF HeldByAll
<1> DEFINE held == HeldByAll
<1>5. held \in [Memory -> Nat] /\ heap' = Drop(held)
      /\ \A a \in Memory : held[a] = Cardinality(Pairs(Counts(a))) /\ held[a] \in Nat
  BY <1>1, <1>3, <1>4
<1> HIDE DEF held
<1>6. Typed'
  <2>1. \A a \in Memory : held[a] <= Cardinality(Pairs(Counts(a)))
    BY <1>5
  <2>2. Allocated' \subseteq Memory /\ \A b \in Allocated' : heap'[b] \in Nat
    BY <1>5, <2>1, DropTyped
  <2> QED BY <1>1, <1>2, <2>2, TypeFacts DEF Typed, BindingsTypeOK
<1>7. ASSUME NEW a \in Memory
      PROVE  /\ IsFiniteSet(Pairs(Counts(a)'))
             /\ Cardinality(Pairs(Counts(a)')) = Cardinality(Pairs(Counts(a))) - held[a]
  <2>1. Counts(a)' \in [PeerSlots -> Nat]
    BY <1>6, CountsNext
  <2>2. \A t \in PeerSlots : Counts(a)'[t] = 0
    BY <1>1, <1>6, CountsNext
  <2>3. Pairs(Counts(a)') = {}
    BY <2>1, <2>2, PairsEmpty
  <2> QED BY <1>5, <2>3, FS_EmptySet
<1>8. \A t \in PeerSlots : arrived'[t] = {}
  BY <1>1
<1>9. CountInv' /\ ArrivedInv' /\ OwnerInv'
  BY <1>1, <1>5, <1>6, <1>7, <1>8, DropKeeps
<1>10. TakenInv'
  BY <1>1 DEF PacketInv, TakenInv, Live
<1> QED BY <1>6, <1>9, <1>10 DEF PacketInv

LEMMA ConnectPeerKeeps ==
    ASSUME PacketInv, NEW s \in PeerSlots, ConnectPeer(s)
    PROVE  PacketInv'
<1>1. /\ host' = [host EXCEPT !.connected = @ \cup {s}]
      /\ UNCHANGED <<heap, objects, events, taken, outgoing, arrived>>
  BY DEF ConnectPeer
<1>2. host' \in [connected : SUBSET PeerSlots, alive : BOOLEAN]
  BY <1>1, TypeFacts
<1>3. Typed'
  BY <1>1, <1>2, TypeFacts DEF Typed, BindingsTypeOK, Allocated
<1>4. CountInv'
  <2>1. \A a : Holders(a)' = Holders(a)
    BY <1>1, HoldersPairs, CountsUnchanged
  <2> QED BY <1>1, <2>1 DEF PacketInv, CountInv, Allocated
<1>5. ArrivedInv' /\ OwnerInv' /\ TakenInv'
  BY <1>1 DEF PacketInv, ArrivedInv, OwnerInv, TakenInv, Allocated, Live, Pointer
<1> QED BY <1>3, <1>4, <1>5 DEF PacketInv

LEMMA ArriveKeeps ==
    ASSUME PacketInv, NEW s \in PeerSlots, NEW a \in Memory, Arrive(s, a)
    PROVE  PacketInv'
<1>1. /\ a \notin Allocated /\ heap' = With(a, 1)
      /\ arrived' = [arrived EXCEPT ![s] = @ \cup {a}]
      /\ UNCHANGED <<objects, events, taken, outgoing, host>>
  BY DEF Arrive
<1>2. Allocated' = Allocated \cup {a} /\ heap'[a] = 1 /\ \A b \in Allocated : heap'[b] = heap[b]
  BY <1>1 DEF With, Allocated
<1>3. /\ arrived \in [PeerSlots -> SUBSET Memory] /\ arrived' \in [PeerSlots -> SUBSET Memory]
      /\ arrived'[s] = arrived[s] \cup {a}
      /\ \A t \in PeerSlots : t # s => arrived'[t] = arrived[t]
  BY <1>1, TypeFacts
<1>4. Typed'
  <2>1. Allocated' \subseteq Memory /\ \A b \in Allocated' : heap'[b] \in Nat
    BY <1>2, TypeFacts
  <2> QED BY <1>1, <1>3, <2>1, TypeFacts DEF Typed, BindingsTypeOK
<1>5. \A t \in PeerSlots : outgoing[t][a] = 0 /\ a \notin arrived[t]
  <2> SUFFICES ASSUME NEW t \in PeerSlots PROVE outgoing[t][a] = 0 /\ a \notin arrived[t]
    OBVIOUS
  <2>1. Counts(a)[t] = 0
    BY <1>1, CountedAt
  <2>2. Counts(a)[t] = outgoing[t][a] + (IF a \in arrived[t] THEN 1 ELSE 0)
        /\ outgoing[t][a] \in Nat
    BY CountsAre, TypeFacts DEF PacketInv
  <2> QED BY <2>1, <2>2
<1>6. CountInv'
  <2>1. ASSUME NEW b \in Memory
        PROVE  /\ IsFiniteSet(Pairs(Counts(b)'))
               /\ b \in Allocated' => heap'[b] = Cardinality(Pairs(Counts(b)'))
               /\ b \notin Allocated' => Cardinality(Pairs(Counts(b)')) = 0
    <3>1. Counts(b) \in [PeerSlots -> Nat] /\ Counts(b)' \in [PeerSlots -> Nat]
      BY <1>4, CountedAt, CountsNext
    <3>2. \A t \in PeerSlots :
            Counts(b)[t] = outgoing[t][b] + (IF b \in arrived[t] THEN 1 ELSE 0)
      BY CountsAre DEF PacketInv
    <3>3. \A t \in PeerSlots :
            Counts(b)'[t] = outgoing[t][b] + (IF b \in arrived'[t] THEN 1 ELSE 0)
      BY <1>1, <1>4, CountsNext
    <3>4. CASE b = a
      <4>1. \A t \in PeerSlots : Counts(b)'[t] = IF t \in {s} THEN 1 ELSE 0
        BY <1>3, <1>5, <3>3, <3>4
      <4>2. /\ IsFiniteSet(Pairs(Counts(b)'))
            /\ Cardinality(Pairs(Counts(b)')) = 1 * Cardinality({s})
        BY <3>1, <4>1, 1 \in Nat, {s} \in SUBSET PeerSlots, PairsOf
      <4>3. Cardinality({s}) = 1
        BY FS_Singleton
      <4>4. Cardinality(Pairs(Counts(b)')) = 1
        BY <4>2, <4>3
      <4> QED BY <1>2, <3>4, <4>2, <4>4
    <3>5. CASE b # a
      <4>1. Counts(b)' = Counts(b)
        BY <1>3, <3>1, <3>2, <3>3, <3>5
      <4>2. /\ IsFiniteSet(Pairs(Counts(b)))
            /\ b \in Allocated => heap[b] = Cardinality(Pairs(Counts(b)))
            /\ b \notin Allocated => Cardinality(Pairs(Counts(b))) = 0
        BY CountedAt
      <4> QED BY <1>2, <3>5, <4>1, <4>2
    <3> QED BY <3>4, <3>5
  <2> QED BY <2>1, CountInvNext
<1>7. ArrivedInv'
  <2> SUFFICES ASSUME NEW t \in PeerSlots, NEW b \in arrived'[t]
               PROVE  b \in Allocated' /\ heap'[b] = 1
    BY DEF ArrivedInv
  <2>1. CASE b = a
    BY <1>2, <2>1
  <2>2. CASE b # a
    <3>1. b \in arrived[t]
      BY <1>3, <2>2
    <3>2. b \in Allocated /\ heap[b] = 1
      BY <3>1 DEF PacketInv, ArrivedInv
    <3> QED BY <1>2, <3>2
  <2> QED BY <2>1, <2>2
<1>8. OwnerInv'
  <2>1. \A p \in Objects : (Live(p)' <=> Live(p)) /\ Pointer(p)' = Pointer(p)
    BY <1>1 DEF Live, Pointer
  <2>2. \A b \in Allocated' : heap'[b] = 0 => b \in Allocated /\ heap[b] = 0
    BY <1>2
  <2> QED BY <1>2, <2>1, <2>2 DEF PacketInv, OwnerInv
<1>9. TakenInv'
  BY <1>1 DEF PacketInv, TakenInv, Live
<1> QED BY <1>4, <1>6, <1>7, <1>8, <1>9 DEF PacketInv

\* The packet goes from the peer's queue to an object, through an event.
LEMMA ReceiveKeeps ==
    ASSUME PacketInv, NEW s \in PeerSlots, NEW a \in Memory, NEW e \in Events, NEW o \in Objects,
           Receive(s, a, e, o)
    PROVE  PacketInv'
<1>1. /\ a \in arrived[s] /\ ~ Live(o) /\ \A f \in Events : events[f] # o
      /\ heap' = [heap EXCEPT ![a] = @ - 1]
      /\ arrived' = [arrived EXCEPT ![s] = @ \ {a}]
      /\ objects' = Wrap(o, a)
      /\ events' = [events EXCEPT ![e] = o]
      /\ UNCHANGED <<taken, outgoing, host>>
  BY DEF Receive, Unused
<1>2. /\ a \in Allocated /\ heap[a] = 1
      /\ \A t \in PeerSlots : outgoing[t][a] = 0
      /\ \A t \in PeerSlots : t # s => a \notin arrived[t]
  BY <1>1, ArrivedAlone
<1>3. Allocated' = Allocated /\ heap'[a] = 0 /\ \A b \in Allocated : b # a => heap'[b] = heap[b]
  BY <1>1, <1>2 DEF Allocated
<1>4. /\ arrived \in [PeerSlots -> SUBSET Memory] /\ arrived' \in [PeerSlots -> SUBSET Memory]
      /\ arrived'[s] = arrived[s] \ {a}
      /\ \A t \in PeerSlots : t # s => arrived'[t] = arrived[t]
  BY <1>1, TypeFacts
<1>5. /\ objects' \in [Objects -> [pointer : Memory \cup {None}, disposed : BOOLEAN]]
      /\ Live(o)' /\ Pointer(o)' = a
      /\ \A p \in Objects : p # o => (Live(p)' <=> Live(p)) /\ Pointer(p)' = Pointer(p)
      /\ o \notin taken
      /\ \A p \in taken : Live(p)'
  BY <1>1, WrapKeepsTaken
<1>6. /\ events \in [Events -> Objects \cup {None, Disposed}]
      /\ events' \in [Events -> Objects \cup {None, Disposed}]
      /\ events'[e] = o /\ \A f \in Events : f # e => events'[f] = events[f]
  BY <1>1, TypeFacts
<1>7. Typed'
  <2>1. Allocated' \subseteq Memory /\ \A b \in Allocated' : heap'[b] \in Nat
    <3>1. \A b \in Allocated : heap[b] \in Nat
      BY TypeFacts
    <3>2. heap'[a] \in Nat
      BY <1>3
    <3>3. Allocated \subseteq Memory
      BY TypeFacts
    <3> QED BY <1>3, <3>1, <3>2, <3>3
  <2> QED BY <1>1, <1>4, <1>5, <1>6, <2>1, TypeFacts DEF Typed, BindingsTypeOK
<1>8. CountInv'
  <2>1. ASSUME NEW b \in Memory
        PROVE  /\ IsFiniteSet(Pairs(Counts(b)'))
               /\ b \in Allocated' => heap'[b] = Cardinality(Pairs(Counts(b)'))
               /\ b \notin Allocated' => Cardinality(Pairs(Counts(b)')) = 0
    <3>1. Counts(b) \in [PeerSlots -> Nat] /\ Counts(b)' \in [PeerSlots -> Nat]
      BY <1>7, CountedAt, CountsNext
    <3>2. \A t \in PeerSlots :
            Counts(b)[t] = outgoing[t][b] + (IF b \in arrived[t] THEN 1 ELSE 0)
      BY CountsAre DEF PacketInv
    <3>3. \A t \in PeerSlots :
            Counts(b)'[t] = outgoing[t][b] + (IF b \in arrived'[t] THEN 1 ELSE 0)
      BY <1>1, <1>7, CountsNext
    <3>4. CASE b = a
      <4>1. \A t \in PeerSlots : b \notin arrived'[t] /\ outgoing[t][b] = 0
        BY <1>2, <1>4, <3>4
      <4>2. \A t \in PeerSlots : Counts(b)'[t] = 0
        BY <3>3, <4>1
      <4>3. Pairs(Counts(b)') = {}
        BY <3>1, <4>2, PairsEmpty
      <4>4. IsFiniteSet(Pairs(Counts(b)')) /\ Cardinality(Pairs(Counts(b)')) = 0
        BY <4>3, FS_EmptySet
      <4> QED BY <1>2, <1>3, <3>4, <4>4
    <3>5. CASE b # a
      <4>1. Counts(b)' = Counts(b)
        BY <1>4, <3>1, <3>2, <3>3, <3>5
      <4>2. /\ IsFiniteSet(Pairs(Counts(b)))
            /\ b \in Allocated => heap[b] = Cardinality(Pairs(Counts(b)))
            /\ b \notin Allocated => Cardinality(Pairs(Counts(b))) = 0
        BY CountedAt
      <4> QED BY <1>3, <3>5, <4>1, <4>2
    <3> QED BY <3>4, <3>5
  <2> QED BY <2>1, CountInvNext
<1>9. ArrivedInv'
  <2> SUFFICES ASSUME NEW t \in PeerSlots, NEW b \in arrived'[t]
               PROVE  b \in Allocated' /\ heap'[b] = 1
    BY DEF ArrivedInv
  <2>1. b # a /\ b \in arrived[t]
    BY <1>2, <1>4
  <2>2. b \in Allocated /\ heap[b] = 1
    BY <2>1 DEF PacketInv, ArrivedInv
  <2> QED BY <1>3, <2>1, <2>2
<1>10. OwnerInv'
  <2>1. ASSUME NEW p \in Objects, p # o, Live(p)'
        PROVE  /\ Pointer(p)' # a /\ Pointer(p)' = Pointer(p)
               /\ Pointer(p) \in Allocated /\ heap[Pointer(p)] = 0
    <3>1. Live(p) /\ Pointer(p)' = Pointer(p)
      BY <1>5, <2>1
    <3>2. Pointer(p) \in Allocated /\ heap[Pointer(p)] = 0
      BY <3>1 DEF PacketInv, OwnerInv
    <3> QED BY <1>2, <3>1, <3>2
  <2>2. ASSUME NEW p \in Objects, Live(p)'
        PROVE  Pointer(p)' \in Allocated' /\ heap'[Pointer(p)'] = 0
    <3>1. CASE p = o
      BY <1>2, <1>3, <1>5, <3>1
    <3>2. CASE p # o
      BY <1>3, <2>1, <2>2, <3>2
    <3> QED BY <3>1, <3>2
  <2>3. ASSUME NEW p \in Objects, NEW r \in Objects,
               Live(p)', Live(r)', Pointer(p)' = Pointer(r)'
        PROVE  p = r
    <3>1. (p = o) <=> (r = o)
      BY <1>5, <2>1, <2>3
    <3> QED BY <1>5, <2>3, <3>1 DEF PacketInv, OwnerInv
  <2>4. ASSUME NEW b \in Allocated', heap'[b] = 0
        PROVE  \E p \in Objects : Live(p)' /\ Pointer(p)' = b
    <3>1. CASE b = a
      BY <1>5, <3>1
    <3>2. CASE b # a
      <4>1. PICK p \in Objects : Live(p) /\ Pointer(p) = b
        BY <1>3, <2>4, <3>2 DEF PacketInv, OwnerInv
      <4> QED BY <1>1, <1>5, <4>1
    <3> QED BY <3>1, <3>2
  <2> QED BY <2>2, <2>3, <2>4 DEF OwnerInv
<1>11. TakenInv'
  <2>1. \A f \in Events : events'[f] \notin taken
    BY <1>5, <1>6 DEF PacketInv, TakenInv
  <2>2. ASSUME NEW f \in Events, NEW g \in Events, events'[f] = events'[g], events'[f] \in Objects
        PROVE  f = g
    <3>1. (f = e) <=> (g = e)
      BY <1>1, <1>6, <2>2
    <3> QED BY <1>6, <2>2, <3>1 DEF PacketInv, TakenInv
  <2> QED BY <1>1, <1>5, <2>1, <2>2 DEF TakenInv
<1> QED BY <1>7, <1>8, <1>9, <1>10, <1>11 DEF PacketInv

\* The object leaves its event; if its packet is gone already there is nothing to take.
LEMMA TakePacketKeeps ==
    ASSUME PacketInv, NEW e \in Events, TakePacket(e)
    PROVE  PacketInv'
<1>1. /\ events[e] \in Objects
      /\ taken' = IF Live(events[e]) THEN taken \cup {events[e]} ELSE taken
      /\ events' = [events EXCEPT ![e] = None]
      /\ UNCHANGED <<heap, objects, outgoing, arrived, host>>
  BY DEF TakePacket
<1>2. /\ events \in [Events -> Objects \cup {None, Disposed}] /\ taken \subseteq Objects
      /\ None \notin Objects
  BY TypeFacts
<1>3. /\ events' \in [Events -> Objects \cup {None, Disposed}]
      /\ events'[e] = None /\ \A f \in Events : f # e => events'[f] = events[f]
      /\ taken' \subseteq Objects
  BY <1>1, <1>2
<1>4. Typed'
  BY <1>1, <1>3, TypeFacts DEF Typed, BindingsTypeOK, Allocated
<1>5. CountInv'
  <2>1. \A a : Holders(a)' = Holders(a)
    BY <1>1, HoldersPairs, CountsUnchanged
  <2> QED BY <1>1, <2>1 DEF PacketInv, CountInv, Allocated
<1>6. ArrivedInv' /\ OwnerInv'
  BY <1>1 DEF PacketInv, ArrivedInv, OwnerInv, Allocated, Live, Pointer
<1>7. TakenInv'
  <2>1. \A o \in taken' : Live(o)'
    BY <1>1 DEF PacketInv, TakenInv, Live
  <2>2. \A f \in Events : events'[f] \notin taken'
    <3> SUFFICES ASSUME NEW f \in Events PROVE events'[f] \notin taken'
      OBVIOUS
    <3>1. CASE f = e
      BY <1>2, <1>3, <3>1
    <3>2. CASE f # e
      <4>1. events'[f] = events[f] /\ events[f] \notin taken /\ events[f] # events[e]
        BY <1>1, <1>3, <3>2 DEF PacketInv, TakenInv
      <4> QED BY <1>1, <4>1
    <3> QED BY <3>1, <3>2
  <2>3. ASSUME NEW f \in Events, NEW g \in Events, events'[f] = events'[g], events'[f] \in Objects
        PROVE  f = g
    <3>1. f # e /\ g # e
      BY <1>2, <1>3, <2>3
    <3> QED BY <1>3, <2>3, <3>1 DEF PacketInv, TakenInv
  <2> QED BY <2>1, <2>2, <2>3 DEF TakenInv
<1> QED BY <1>4, <1>5, <1>6, <1>7 DEF PacketInv

LEMMA DisposeEventKeeps ==
    ASSUME PacketInv, NEW e \in Events, DisposeEvent(e)
    PROVE  PacketInv'
<1> DEFINE o == events[e]
<1>1. /\ events' = [events EXCEPT ![e] = Disposed]
      /\ IF o \in Objects /\ Live(o)
         THEN heap' = Freed({Pointer(o)}) /\ objects' = Released(o)
         ELSE UNCHANGED <<heap, objects>>
      /\ UNCHANGED <<taken, outgoing, arrived, host>>
  BY DEF DisposeEvent
<1>2. /\ events \in [Events -> Objects \cup {None, Disposed}] /\ taken \subseteq Objects
      /\ Disposed \notin Objects
  BY TypeFacts
<1>3. /\ events' \in [Events -> Objects \cup {None, Disposed}]
      /\ events'[e] = Disposed /\ \A f \in Events : f # e => events'[f] = events[f]
  BY <1>1, <1>2
<1>4. o \notin taken
  BY DEF PacketInv, TakenInv
<1>5. ASSUME \A p \in taken : Live(p)' PROVE TakenInv'
  <2>1. \A f \in Events : events'[f] \notin taken
    BY <1>2, <1>3 DEF PacketInv, TakenInv
  <2>2. ASSUME NEW f \in Events, NEW g \in Events, events'[f] = events'[g], events'[f] \in Objects
        PROVE  f = g
    <3>1. f # e /\ g # e
      BY <1>2, <1>3, <2>2
    <3> QED BY <1>3, <2>2, <3>1 DEF PacketInv, TakenInv
  <2> QED BY <1>1, <1>5, <2>1, <2>2 DEF TakenInv
<1> HIDE DEF o
<1>6. CASE o \in Objects /\ Live(o)
  <2>1. heap' = Freed({Pointer(o)}) /\ objects' = Released(o)
    BY <1>1, <1>6
  <2>2. CountInv' /\ ArrivedInv' /\ OwnerInv'
    BY <1>1, <1>6, <2>1, ReleaseKeeps
  <2>3. \A p \in taken : Live(p)'
    <3>1. \A p \in Objects : p # o => (Live(p)' <=> Live(p))
      BY <1>6, <2>1, ReleasedFacts
    <3> QED BY <1>2, <1>4, <3>1 DEF PacketInv, TakenInv
  <2>4. Typed'
    BY <1>1, <1>3, <1>6, <2>1, FreedTyped, ReleasedFacts, TypeFacts DEF Typed, BindingsTypeOK
  <2> QED BY <1>5, <2>2, <2>3, <2>4 DEF PacketInv
<1>7. CASE ~ (o \in Objects /\ Live(o))
  <2>1. UNCHANGED <<heap, objects>>
    BY <1>1, <1>7
  <2>2. CountInv'
    <3>1. \A a : Holders(a)' = Holders(a)
      BY <1>1, HoldersPairs, CountsUnchanged
    <3> QED BY <2>1, <3>1 DEF PacketInv, CountInv, Allocated
  <2>3. ArrivedInv' /\ OwnerInv'
    BY <1>1, <2>1 DEF PacketInv, ArrivedInv, OwnerInv, Allocated, Live, Pointer
  <2>4. \A p \in taken : Live(p)'
    BY <2>1 DEF PacketInv, TakenInv, Live
  <2>5. Typed'
    BY <1>1, <1>3, <2>1, TypeFacts DEF Typed, BindingsTypeOK, Allocated
  <2> QED BY <1>5, <2>2, <2>3, <2>4, <2>5 DEF PacketInv
<1> QED BY <1>6, <1>7

-----------------------------------------------------------------------------
LEMMA RuntimeKeeps ==
    ASSUME RuntimeInv, NEW r \in Runtimes, Initialize(r) \/ Close(r)
    PROVE  RuntimeInv'
<1> DEFINE open == runtime.open
           refs == runtime.refs
<1>1. /\ runtime \in [open : SUBSET Runtimes, closed : SUBSET Runtimes, refs : Nat,
                      initialized : BOOLEAN]
      /\ IsFiniteSet(open) /\ refs = Cardinality(open) /\ refs \in Nat
      /\ runtime.initialized = (open # {})
  BY DEF RuntimeInv, InitializedWhileOpen
<1>2. IsFiniteSet(open \cup {r}) /\ (r \notin open => Cardinality(open \cup {r}) = refs + 1)
  BY <1>1, FS_AddElement
<1>3. IsFiniteSet(open \ {r}) /\ (r \in open => Cardinality(open \ {r}) = refs - 1)
  BY <1>1, FS_RemoveElement
<1>4. CASE Initialize(r)
  <2>1. /\ r \notin open
        /\ runtime' = [runtime EXCEPT !.open = @ \cup {r}, !.refs = @ + 1, !.initialized = TRUE]
    BY <1>4 DEF Initialize
  <2>2. /\ runtime'.open = open \cup {r} /\ runtime'.refs = refs + 1
        /\ runtime'.initialized = TRUE
        /\ runtime' \in [open : SUBSET Runtimes, closed : SUBSET Runtimes, refs : Nat,
                         initialized : BOOLEAN]
    <3>1. runtime' = [open |-> open \cup {r}, closed |-> runtime.closed, refs |-> refs + 1,
                      initialized |-> TRUE]
      BY <1>1, <2>1
    <3>2. open \cup {r} \in SUBSET Runtimes /\ runtime.closed \in SUBSET Runtimes
      BY <1>1
    <3>3. refs + 1 \in Nat
      BY <1>1
    <3> HIDE DEF open, refs
    <3> QED BY <3>1, <3>2, <3>3
  <2>3. runtime'.open # {}
    BY <2>2
  <2> QED BY <1>2, <2>1, <2>2, <2>3 DEF RuntimeInv, InitializedWhileOpen
<1>5. CASE Close(r)
  <2>1. /\ r \in open
        /\ runtime' = [open |-> open \ {r}, closed |-> runtime.closed \cup {r},
                       refs |-> refs - 1, initialized |-> runtime.initialized /\ refs # 1]
    BY <1>5 DEF Close
  <2>2. refs # 0
    BY <1>1, <2>1, FS_EmptySet
  <2>3. refs - 1 \in Nat
    BY <1>1, <2>2
  <2>4. runtime.initialized /\ refs # 1 <=> open \ {r} # {}
    <3>1. refs - 1 = 0 <=> open \ {r} = {}
      BY <1>3, <2>1, FS_EmptySet
    <3>2. refs # 1 <=> refs - 1 # 0
      BY <1>1
    <3>3. runtime.initialized
      BY <1>1, <2>1
    <3> QED BY <3>1, <3>2, <3>3
  <2>5. runtime.closed \cup {r} \in SUBSET Runtimes /\ open \ {r} \in SUBSET Runtimes
    BY <1>1
  <2> HIDE DEF open, refs
  <2>6. /\ runtime'.open = open \ {r} /\ runtime'.refs = refs - 1
        /\ runtime'.initialized = (runtime.initialized /\ refs # 1)
        /\ runtime' \in [open : SUBSET Runtimes, closed : SUBSET Runtimes, refs : Nat,
                         initialized : BOOLEAN]
    BY <2>1, <2>3, <2>5
  <2>7. runtime'.initialized = (runtime'.open # {})
    BY <2>4, <2>6
  <2>8. IsFiniteSet(runtime'.open) /\ runtime'.refs = Cardinality(runtime'.open)
    BY <1>3, <2>1, <2>6
  <2> QED BY <2>6, <2>7, <2>8 DEF RuntimeInv, InitializedWhileOpen
<1> QED BY <1>4, <1>5

LEMMA PacketsStep ==
    ASSUME PacketInv, PacketsNext
    PROVE  PacketInv'
<1>1. host.connected \in SUBSET PeerSlots
  BY TypeFacts
<1>2. ASSUME NEW o \in Objects, DisposePacket(o) PROVE PacketInv'
  BY <1>2, DisposePacketKeeps
<1>3. ASSUME NEW o \in Objects, NEW a \in Memory, FromBytes(o, a) PROVE PacketInv'
  BY <1>3, FromBytesKeeps
<1>4. ASSUME NEW o \in Objects, NEW parts \in 1 .. MaxParts, Broadcast(o, parts) PROVE PacketInv'
  <2>1. PICK takers \in SUBSET host.connected : GiveTo(o, parts, takers)
    BY <1>4 DEF Broadcast
  <2>2. takers \in SUBSET PeerSlots
    BY <1>1
  <2> QED BY <2>1, <2>2, GiveKeeps
<1>5. ASSUME NEW o \in Objects, NEW parts \in 1 .. MaxParts, NEW s \in PeerSlots,
             SendTo(o, s, parts)
      PROVE  PacketInv'
  <2>1. PICK takers \in SUBSET ({s} \cap host.connected) : GiveTo(o, parts, takers)
    BY <1>5 DEF SendTo
  <2>2. takers \in SUBSET PeerSlots
    BY <1>1
  <2> QED BY <2>1, <2>2, GiveKeeps
<1>6. ASSUME NEW s \in PeerSlots, ConnectPeer(s) PROVE PacketInv'
  BY <1>6, ConnectPeerKeeps
<1>7. ASSUME NEW s \in PeerSlots, ResetPeer(s) PROVE PacketInv'
  BY <1>7, ResetPeerKeeps
<1>8. ASSUME NEW s \in PeerSlots, NEW a \in Memory, CommandDone(s, a) PROVE PacketInv'
  BY <1>8, CommandDoneKeeps
<1>9. ASSUME NEW s \in PeerSlots, NEW a \in Memory, Arrive(s, a) PROVE PacketInv'
  BY <1>9, ArriveKeeps
<1>10. ASSUME NEW s \in PeerSlots, NEW a \in Memory, NEW e \in Events, NEW o \in Objects,
              Receive(s, a, e, o)
       PROVE  PacketInv'
  BY <1>10, ReceiveKeeps
<1>11. ASSUME NEW e \in Events, TakePacket(e) PROVE PacketInv'
  BY <1>11, TakePacketKeeps
<1>12. ASSUME NEW e \in Events, DisposeEvent(e) PROVE PacketInv'
  BY <1>12, DisposeEventKeeps
<1>13. ASSUME DestroyHost PROVE PacketInv'
  BY <1>13, DestroyHostKeeps
<1>14. ASSUME NEW o \in Objects, NEW q \in Objects, Rewrap(o, q) PROVE PacketInv'
  BY <1>14, RewrapKeeps
<1> QED BY <1>2, <1>3, <1>4, <1>5, <1>6, <1>7, <1>8, <1>9, <1>10, <1>11, <1>12, <1>13, <1>14
    DEF PacketsNext

LEMMA PacketInvDependsOn ==
    ASSUME PacketInv, UNCHANGED <<heap, objects, events, taken, outgoing, arrived, host>>
    PROVE  PacketInv'
<1>1. \A a : Holders(a)' = Holders(a)
  BY HoldersPairs, CountsUnchanged
<1>2. CountInv'
  BY <1>1 DEF PacketInv, CountInv, Allocated
<1>3. ArrivedInv' /\ OwnerInv' /\ TakenInv'
  BY DEF PacketInv, ArrivedInv, OwnerInv, TakenInv, Allocated, Live, Pointer
<1>4. Typed'
  BY TypeFacts DEF Typed, BindingsTypeOK, Allocated
<1> QED BY <1>2, <1>3, <1>4 DEF PacketInv

LEMMA BindingsStep ==
    ASSUME BindingsInv, [BindingsNext]_bindingsVars
    PROVE  BindingsInv'
<1>1. CASE PacketsNext
  <2>1. PacketInv'
    BY <1>1, PacketsStep DEF BindingsInv
  <2>2. runtime' = runtime
    BY <1>1 DEF PacketsNext, DisposePacket, FromBytes, Rewrap, Broadcast, SendTo, GiveTo, ConnectPeer,
                ResetPeer, CommandDone, Arrive, Receive, TakePacket, DisposeEvent, DestroyHost
  <2>3. RuntimeInv'
    BY <2>2 DEF BindingsInv, RuntimeInv, InitializedWhileOpen
  <2> QED BY <2>1, <2>3 DEF BindingsInv
<1>2. CASE RuntimeNext
  <2>1. PICK r \in Runtimes : Initialize(r) \/ Close(r)
    BY <1>2 DEF RuntimeNext
  <2>2. UNCHANGED <<heap, objects, events, taken, outgoing, arrived, host>>
    BY <2>1 DEF Initialize, Close
  <2>3. PacketInv'
    BY <2>2, PacketInvDependsOn DEF BindingsInv
  <2>4. RuntimeInv'
    BY <2>1, RuntimeKeeps DEF BindingsInv
  <2> QED BY <2>3, <2>4 DEF BindingsInv
<1>3. CASE UNCHANGED bindingsVars
  <2>1. UNCHANGED <<heap, objects, events, taken, outgoing, arrived, host>> /\ runtime' = runtime
    BY <1>3 DEF bindingsVars
  <2>2. PacketInv'
    BY <2>1, PacketInvDependsOn DEF BindingsInv
  <2>3. RuntimeInv'
    BY <2>1 DEF BindingsInv, RuntimeInv, InitializedWhileOpen
  <2> QED BY <2>2, <2>3 DEF BindingsInv
<1> QED BY <1>1, <1>2, <1>3 DEF BindingsNext

LEMMA BindingsStart ==
    ASSUME BindingsInit
    PROVE  BindingsInv
<1>1. /\ heap = [a \in {} |-> 0]
      /\ objects = [o \in Objects |-> [pointer |-> None, disposed |-> TRUE]]
      /\ events = [e \in Events |-> Disposed]
      /\ taken = {}
      /\ outgoing = [s \in PeerSlots |-> [a \in Memory |-> 0]]
      /\ arrived = [s \in PeerSlots |-> {}]
      /\ host = [connected |-> {}, alive |-> TRUE]
      /\ runtime = [open |-> {}, closed |-> {}, refs |-> 0, initialized |-> FALSE]
  BY DEF BindingsInit
<1>2. Allocated = {}
  BY <1>1 DEF Allocated
<1>3. \A o \in Objects : ~ Live(o)
  BY <1>1 DEF Live
<1>4. Typed
  <2>1. [a \in Memory |-> 0] \in [Memory -> Nat]
    OBVIOUS
  <2>2. [pointer |-> None, disposed |-> TRUE] \in [pointer : Memory \cup {None}, disposed : BOOLEAN]
    OBVIOUS
  <2>3. /\ objects \in [Objects -> [pointer : Memory \cup {None}, disposed : BOOLEAN]]
        /\ outgoing \in [PeerSlots -> [Memory -> Nat]]
    BY <1>1, <2>1, <2>2
  <2>4. events \in [Events -> Objects \cup {None, Disposed}] /\ taken \subseteq Objects
        /\ arrived \in [PeerSlots -> SUBSET Memory]
    BY <1>1
  <2>5. host \in [connected : SUBSET PeerSlots, alive : BOOLEAN]
        /\ host.connected \subseteq PeerSlots
    BY <1>1
  <2> QED BY <1>2, <2>3, <2>4, <2>5 DEF Typed, BindingsTypeOK
<1>5. CountInv
  <2> SUFFICES ASSUME NEW a \in Memory PROVE IsFiniteSet(Holders(a)) /\ Holders(a) = {}
    BY <1>2 DEF CountInv
  <2>1. \A s \in PeerSlots : Counts(a)[s] = outgoing[s][a] + (IF a \in arrived[s] THEN 1 ELSE 0)
        /\ Counts(a) \in [PeerSlots -> Nat]
    BY <1>4, CountsAre
  <2>2. \A s \in PeerSlots : Counts(a)[s] = 0
    BY <1>1, <2>1
  <2>3. Counts(a) \in [PeerSlots -> Nat]
    BY <1>4, CountsAre
  <2>4. Pairs(Counts(a)) = {}
    BY <2>2, <2>3, PairsEmpty
  <2> QED BY <2>4, HoldersPairs, FS_EmptySet
<1>6. ArrivedInv
  BY <1>1 DEF ArrivedInv
<1>7. OwnerInv
  BY <1>2, <1>3 DEF OwnerInv
<1>8. TakenInv
  BY <1>1, HeldAssumption DEF TakenInv
<1>9. RuntimeInv
  <2>1. runtime.open = {} /\ runtime.refs = 0 /\ runtime.initialized = FALSE
    BY <1>1
  <2>2. runtime \in [open : SUBSET Runtimes, closed : SUBSET Runtimes, refs : Nat,
                     initialized : BOOLEAN]
    BY <1>1
  <2> QED BY <2>1, <2>2, FS_EmptySet DEF RuntimeInv, InitializedWhileOpen
<1> QED BY <1>4, <1>5, <1>6, <1>7, <1>8, <1>9 DEF BindingsInv, PacketInv

LEMMA BindingsInvariant == BindingsSpec => []BindingsInv
<1>1. BindingsInit => BindingsInv
  BY BindingsStart
<1>2. BindingsInv /\ [BindingsNext]_bindingsVars => BindingsInv'
  BY BindingsStep
<1> QED BY <1>1, <1>2, PTL DEF BindingsSpec

-----------------------------------------------------------------------------
\* Every variable keeps its type.
THEOREM BindingsTyped == BindingsSpec => []BindingsTypeOK
<1>1. BindingsInv => BindingsTypeOK
  BY DEF BindingsInv, PacketInv, Typed
<1> QED BY <1>1, BindingsInvariant, PTL

LEMMA OwnedHolds ==
    ASSUME PacketInv
    PROVE  Counted /\ Owned /\ TakenOutlivesEvent
<1>1. ASSUME NEW a \in Allocated PROVE heap[a] = HeldByAll[a]
  BY TypeFacts DEF PacketInv, CountInv, HeldByAll
<1>2. \A o \in Objects : Live(o) => Pointer(o) \in Allocated
  BY DEF PacketInv, OwnerInv
<1>3. ASSUME NEW s \in PeerSlots, NEW a \in Memory, HeldBy(s)[a] > 0 PROVE a \in Allocated
  <2>1. HeldBy(s)[a] = Counts(a)[s]
    BY HeldTyped
  <2>2. a \notin Allocated => Counts(a)[s] = 0
    BY CountedAt
  <2> QED BY <1>3, <2>1, <2>2
<1>4. ASSUME NEW a \in Allocated
      PROVE  Cardinality({o \in Objects : Live(o) /\ Pointer(o) = a}) = IF heap[a] = 0 THEN 1 ELSE 0
  <2> DEFINE owners == {o \in Objects : Live(o) /\ Pointer(o) = a}
  <2>1. CASE heap[a] = 0
    <3>1. PICK o \in Objects : Live(o) /\ Pointer(o) = a
      BY <2>1 DEF PacketInv, OwnerInv
    <3>2. owners = {o}
      BY <3>1 DEF PacketInv, OwnerInv
    <3> QED BY <2>1, <3>2, FS_Singleton
  <2>2. CASE heap[a] # 0
    <3>1. owners = {}
      BY <2>2 DEF PacketInv, OwnerInv
    <3> QED BY <2>2, <3>1, FS_EmptySet
  <2> QED BY <2>1, <2>2
<1>5. TakenOutlivesEvent
  BY DEF PacketInv, TakenInv, TakenOutlivesEvent
<1> QED BY <1>1, <1>2, <1>3, <1>4, <1>5 DEF Counted, Owned

\* In whatever order the application uses, takes, sends and disposes of packets and events,
\* closes the host and the runtime, and the library delivers, drops and frees: every packet
\* has exactly one owner, its reference count is the number of commands that hold it, a
\* packet that was taken outlives its event, and the library is initialized exactly while a
\* handle is open (index.ts:288-319, 408-421, 488-499, 811-829, packet.c:44).
THEOREM EveryPacketOwnedOnce == BindingsSpec => []OwnedOnce
<1>1. BindingsInv => OwnedOnce
  <2> SUFFICES ASSUME BindingsInv PROVE OwnedOnce
    OBVIOUS
  <2>1. Counted /\ Owned /\ TakenOutlivesEvent
    BY OwnedHolds DEF BindingsInv
  <2>2. InitializedWhileOpen
    BY DEF BindingsInv, RuntimeInv
  <2> QED BY <2>1, <2>2 DEF OwnedOnce
<1> QED BY <1>1, BindingsInvariant, PTL
=============================================================================
