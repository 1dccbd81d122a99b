------------------------- MODULE ReliableChannel_proofs -------------------------
(***************************************************************************)
(* The reliable channel is a fifo, for every size of the windows, every    *)
(* number of them and any number of packets: sequence numbers that are     *)
(* used again never make one packet be taken for another.                  *)
(***************************************************************************)
EXTENDS ReliableChannel, NumberLemmas, FiniteSetTheorems, SequenceTheorems, TLAPS

\* The window of packet n, counted from the first.
Abs(n) == n \div WindowSize

LEMMA Constants ==
    /\ WindowSize \in Nat \ {0} /\ Windows \in Nat \ {0} /\ Modulus \in Nat \ {0}
    /\ Modulus = WindowSize * Windows
    /\ FreeWindows \in Nat /\ FreeWindows >= 3 /\ Windows - FreeWindows - 2 \in Nat
    /\ Lifetime \in Nat \ {0} /\ Lifetime <= (Windows - FreeWindows + 1) * WindowSize
    /\ Lifetime < Modulus
    /\ MaxPackets \in Nat /\ Backlog \in Nat /\ MaxLosses \in Nat
<1>1. /\ WindowSize \in Nat \ {0} /\ Windows \in Nat \ {0}
      /\ FreeWindows \in Nat /\ FreeWindows >= 3 /\ Windows - FreeWindows - 2 \in Nat
      /\ MaxPackets \in Nat /\ Backlog \in Nat /\ MaxLosses \in Nat
  BY WindowSizeAssumption, WindowsAssumption, FreeWindowsAssumption, BoundsAssumption
<1>2. WindowSize * Windows \in Nat \ {0}
  BY <1>1
<1>3. (Windows - FreeWindows + 1) * WindowSize \in Nat
  BY <1>1
<1>4. Lifetime \in Nat \ {0} /\ Lifetime <= (Windows - FreeWindows + 1) * WindowSize
  BY <1>3, LifetimeAssumption
<1>5. (FreeWindows - 1) * WindowSize > 0
  BY <1>1
<1>6. (Windows - FreeWindows + 1) * WindowSize + (FreeWindows - 1) * WindowSize
        = WindowSize * Windows
  BY <1>1
<1>7. Lifetime < WindowSize * Windows
  BY <1>1, <1>2, <1>3, <1>4, <1>5, <1>6
<1> QED BY <1>1, <1>2, <1>4, <1>7 DEF Modulus

LEMMA Sizes ==
    WindowSize \in Nat \ {0} /\ Windows \in Nat \ {0} /\ Modulus \in Nat \ {0}
  BY Constants

LEMMA AbsFacts ==
    ASSUME NEW n \in Nat
    PROVE  /\ Abs(n) \in Nat
           /\ SeqNo(n) \in 0 .. Modulus - 1
           /\ Window(SeqNo(n)) \in WindowIndex
           /\ Window(SeqNo(n)) = Abs(n) % Windows
           /\ SeqNo(n) % WindowSize = n % WindowSize
           /\ n \div Modulus \in Nat
           /\ n = Modulus * (n \div Modulus) + SeqNo(n)
           /\ Abs(n) = Windows * (n \div Modulus) + Window(SeqNo(n))
<1> DEFINE a == Abs(n) \div Windows
           b == Abs(n) % Windows
           r == n % WindowSize
<1>1. Abs(n) \in Nat /\ r \in 0 .. WindowSize - 1 /\ n = WindowSize * Abs(n) + r
  BY Sizes, DivMod DEF Abs
<1>2. a \in Nat /\ b \in 0 .. Windows - 1 /\ Abs(n) = Windows * a + b
  BY <1>1, Sizes, DivMod
<1>3. SeqNo(n) \in 0 .. Modulus - 1 /\ n = Modulus * (n \div Modulus) + SeqNo(n)
  BY Sizes, DivMod DEF SeqNo
<1> HIDE DEF a, b, r
<1>4. /\ n \div Modulus = a
      /\ Window(SeqNo(n)) = b /\ SeqNo(n) % WindowSize = r
  <2>1. Modulus = WindowSize * Windows
    BY DEF Modulus
  <2>2. n = WindowSize * (Windows * a + b) + r
    BY <1>1, <1>2
  <2> QED BY <1>1, <1>2, <2>1, <2>2, Sizes, Cycle DEF SeqNo, Window
<1> QED BY <1>1, <1>2, <1>3, <1>4 DEF WindowIndex, b, r

LEMMA AbsMonotone ==
    ASSUME NEW m \in Nat, NEW n \in Nat, m <= n
    PROVE  Abs(m) <= Abs(n)
  BY Constants, DivMonotone DEF Abs

\* A sequence number stands for one packet among those that are less than a cycle apart.
LEMMA OneNumberEach ==
    ASSUME NEW m \in Nat, NEW n \in Nat, SeqNo(m) = SeqNo(n),
           n - m < Modulus, m - n < Modulus
    PROVE  m = n
  BY Constants, ModApart DEF SeqNo

\* How far ahead of c the receiver takes n to be, when it is not before it ...
LEMMA AheadOfNew ==
    ASSUME NEW c \in Nat, NEW n \in Nat, c <= n, n - c < Modulus
    PROVE  WindowsAhead(SeqNo(n), SeqNo(c)) = Abs(n) - Abs(c)
<1> DEFINE p == c \div Modulus
<1>1. n \div Modulus = IF SeqNo(n) < SeqNo(c) THEN p + 1 ELSE p
  BY Sizes, Wrapped DEF SeqNo
<1>2. /\ p \in Nat /\ Abs(c) = Windows * p + Window(SeqNo(c))
      /\ Abs(n) = Windows * (n \div Modulus) + Window(SeqNo(n))
      /\ Window(SeqNo(c)) \in Nat /\ Window(SeqNo(n)) \in Nat
  BY AbsFacts DEF WindowIndex
<1> HIDE DEF p
<1>3. Windows * (p + 1) = Windows * p + Windows
  BY <1>2, Sizes
<1>4. Windows * p \in Nat
  BY <1>2, Sizes
<1>5. Abs(n) = Windows * p + (IF SeqNo(n) < SeqNo(c) THEN Windows ELSE 0) + Window(SeqNo(n))
  <2>1. CASE SeqNo(n) < SeqNo(c)
    BY <2>1, <1>1, <1>2, <1>3
  <2>2. CASE ~ (SeqNo(n) < SeqNo(c))
    BY <2>2, <1>1, <1>2, <1>4
  <2> QED BY <2>1, <2>2
<1> QED BY <1>2, <1>4, <1>5, Sizes DEF WindowsAhead

\* ... and when it is.
LEMMA AheadOfOld ==
    ASSUME NEW c \in Nat, NEW n \in Nat, n < c, c - n < Modulus
    PROVE  WindowsAhead(SeqNo(n), SeqNo(c)) = Abs(n) - Abs(c) + Windows
<1> DEFINE p == n \div Modulus
<1>1. c \div Modulus = IF SeqNo(c) < SeqNo(n) THEN p + 1 ELSE p
  <2> n <= c
    OBVIOUS
  <2> QED BY Sizes, Wrapped DEF SeqNo
<1>2. SeqNo(n) # SeqNo(c)
  BY OneNumberEach, Sizes
<1>3. /\ p \in Nat /\ Abs(n) = Windows * p + Window(SeqNo(n))
      /\ Abs(c) = Windows * (c \div Modulus) + Window(SeqNo(c))
      /\ Window(SeqNo(c)) \in Nat /\ Window(SeqNo(n)) \in Nat
      /\ SeqNo(n) \in Int /\ SeqNo(c) \in Int
  BY AbsFacts DEF WindowIndex
<1> HIDE DEF p
<1>4. Windows * (p + 1) = Windows * p + Windows
  BY <1>3, Sizes
<1>5. Windows * p \in Nat
  BY <1>3, Sizes
<1>6. Abs(c) = Windows * p + (IF SeqNo(c) < SeqNo(n) THEN Windows ELSE 0) + Window(SeqNo(c))
  <2>1. CASE SeqNo(c) < SeqNo(n)
    BY <2>1, <1>1, <1>3, <1>4
  <2>2. CASE ~ (SeqNo(c) < SeqNo(n))
    BY <2>2, <1>1, <1>3, <1>5
  <2> QED BY <2>1, <2>2
<1>7. SeqNo(c) < SeqNo(n) \/ SeqNo(n) < SeqNo(c)
  BY <1>2, <1>3
<1>8. ~ (SeqNo(c) < SeqNo(n) /\ SeqNo(n) < SeqNo(c))
  BY <1>3
<1> QED BY <1>3, <1>5, <1>6, <1>7, <1>8, Sizes DEF WindowsAhead

-----------------------------------------------------------------------------
(* Lists.                                                                  *)

Distinct(s) == \A i, j \in DOMAIN s : i # j => s[i] # s[j]

LEMMA ListFacts ==
    ASSUME NEW S, NEW s \in Seq(S)
    PROVE  /\ Len(s) \in Nat /\ DOMAIN s = 1 .. Len(s)
           /\ \A i \in 1 .. Len(s) : s[i] \in S
           /\ ToSet(s) = {s[i] : i \in 1 .. Len(s)} /\ ToSet(s) \subseteq S
<1>1. Len(s) \in Nat /\ DOMAIN s = 1 .. Len(s) /\ s \in [1 .. Len(s) -> S]
  BY LenProperties
<1> QED BY <1>1 DEF ToSet

LEMMA PartFacts ==
    ASSUME NEW S, NEW s \in Seq(S), NEW m \in 1 .. Len(s) + 1, NEW n \in 0 .. Len(s), m <= n + 1
    PROVE  /\ SubSeq(s, m, n) \in Seq(S)
           /\ Len(SubSeq(s, m, n)) = n - m + 1
           /\ \A i \in 1 .. n - m + 1 : SubSeq(s, m, n)[i] = s[m + i - 1]
<1>1. Len(s) \in Nat /\ \A i \in 1 .. Len(s) : s[i] \in S
  BY ListFacts
<1>2. m \in Int /\ n \in Int /\ \A i \in m .. n : s[i] \in S
  BY <1>1
<1>3. /\ SubSeq(s, m, n) \in Seq(S)
      /\ Len(SubSeq(s, m, n)) = IF m <= n THEN n - m + 1 ELSE 0
      /\ \A i \in 1 .. n - m + 1 : SubSeq(s, m, n)[i] = s[m + i - 1]
  BY <1>2, SubSeqProperties
<1> QED BY <1>1, <1>3

LEMMA RemoveFacts ==
    ASSUME NEW S, NEW s \in Seq(S), NEW i \in 1 .. Len(s)
    PROVE  /\ RemoveAt(s, i) \in Seq(S)
           /\ Len(RemoveAt(s, i)) = Len(s) - 1
           /\ \A j \in 1 .. Len(s) - 1 :
                 RemoveAt(s, i)[j] = IF j < i THEN s[j] ELSE s[j + 1]
<1> DEFINE a == SubSeq(s, 1, i - 1)
           b == SubSeq(s, i + 1, Len(s))
<1>1. Len(s) \in Nat
  BY ListFacts
<1>2. /\ a \in Seq(S) /\ Len(a) = i - 1
      /\ \A j \in 1 .. i - 1 : a[j] = s[j]
  <2>1. 1 \in 1 .. Len(s) + 1 /\ i - 1 \in 0 .. Len(s) /\ 1 <= (i - 1) + 1
    BY <1>1
  <2>2. /\ a \in Seq(S) /\ Len(a) = (i - 1) - 1 + 1
        /\ \A j \in 1 .. (i - 1) - 1 + 1 : a[j] = s[1 + j - 1]
    BY <2>1, PartFacts
  <2> QED BY <1>1, <2>2
<1>3. /\ b \in Seq(S) /\ Len(b) = Len(s) - i
      /\ \A j \in 1 .. Len(s) - i : b[j] = s[i + j]
  <2>1. i + 1 \in 1 .. Len(s) + 1 /\ Len(s) \in 0 .. Len(s) /\ i + 1 <= Len(s) + 1
    BY <1>1
  <2>2. /\ b \in Seq(S) /\ Len(b) = Len(s) - (i + 1) + 1
        /\ \A j \in 1 .. Len(s) - (i + 1) + 1 : b[j] = s[(i + 1) + j - 1]
    BY <2>1, PartFacts
  <2>3. Len(s) - (i + 1) + 1 = Len(s) - i
    BY <1>1
  <2> HIDE DEF b
  <2>4. ASSUME NEW j \in 1 .. Len(s) - i PROVE b[j] = s[i + j]
    <3>1. (i + 1) + j - 1 = i + j
      BY <1>1
    <3>2. b[j] = s[(i + 1) + j - 1]
      BY <2>2, <2>3
    <3> QED BY <3>1, <3>2
  <2> QED BY <2>2, <2>3, <2>4
<1>4. RemoveAt(s, i) = a \o b
  BY DEF RemoveAt
<1> HIDE DEF a, b
<1>5. /\ a \o b \in Seq(S) /\ Len(a \o b) = Len(a) + Len(b)
      /\ \A j \in 1 .. Len(a) + Len(b) :
            (a \o b)[j] = IF j <= Len(a) THEN a[j] ELSE b[j - Len(a)]
  BY <1>2, <1>3, ConcatProperties
<1>6. Len(a) + Len(b) = Len(s) - 1
  BY <1>1, <1>2, <1>3
<1>7. ASSUME NEW j \in 1 .. Len(s) - 1
      PROVE  (a \o b)[j] = IF j < i THEN s[j] ELSE s[j + 1]
  <2>1. CASE j < i
    BY <1>1, <1>2, <1>5, <1>6, <2>1
  <2>2. CASE ~ (j < i)
    <3>1. j - (i - 1) \in 1 .. Len(s) - i /\ i + (j - (i - 1)) = j + 1
      BY <1>1, <2>2
    <3>2. b[j - (i - 1)] = s[j + 1]
      BY <1>3, <3>1
    <3>3. (a \o b)[j] = b[j - (i - 1)]
      BY <1>1, <1>2, <1>5, <1>6, <2>2
    <3> QED BY <2>2, <3>2, <3>3
  <2> QED BY <2>1, <2>2
<1> QED BY <1>4, <1>5, <1>6, <1>7

LEMMA InsertFacts ==
    ASSUME NEW S, NEW s \in Seq(S), NEW i \in 1 .. Len(s) + 1, NEW e \in S
    PROVE  /\ InsertAt(s, i, e) \in Seq(S)
           /\ Len(InsertAt(s, i, e)) = Len(s) + 1
           /\ \A j \in 1 .. Len(s) + 1 :
                 InsertAt(s, i, e)[j] = IF j < i THEN s[j] ELSE IF j = i THEN e ELSE s[j - 1]
<1> DEFINE a == SubSeq(s, 1, i - 1)
           m == <<e>>
           b == SubSeq(s, i, Len(s))
<1>1. Len(s) \in Nat
  BY ListFacts
<1>2. /\ a \in Seq(S) /\ Len(a) = i - 1
      /\ \A j \in 1 .. i - 1 : a[j] = s[j]
  <2>1. 1 \in 1 .. Len(s) + 1 /\ i - 1 \in 0 .. Len(s) /\ 1 <= (i - 1) + 1
    BY <1>1
  <2>2. /\ a \in Seq(S) /\ Len(a) = (i - 1) - 1 + 1
        /\ \A j \in 1 .. (i - 1) - 1 + 1 : a[j] = s[1 + j - 1]
    BY <2>1, PartFacts
  <2> QED BY <1>1, <2>2
<1>3. /\ b \in Seq(S) /\ Len(b) = Len(s) - i + 1
      /\ \A j \in 1 .. Len(s) - i + 1 : b[j] = s[i + j - 1]
  <2>1. Len(s) \in 0 .. Len(s) /\ i <= Len(s) + 1
    BY <1>1
  <2> QED BY <2>1, PartFacts
<1>4. m \in Seq(S) /\ Len(m) = 1 /\ m[1] = e
  OBVIOUS
<1>5. InsertAt(s, i, e) = (a \o m) \o b
  BY DEF InsertAt
<1> HIDE DEF a, m, b
<1> DEFINE c == a \o m
<1>6. /\ c \in Seq(S) /\ Len(c) = Len(a) + Len(m)
      /\ \A j \in 1 .. Len(a) + Len(m) : c[j] = IF j <= Len(a) THEN a[j] ELSE m[j - Len(a)]
  BY <1>2, <1>4, ConcatProperties
<1>7. Len(c) = i /\ \A j \in 1 .. i : c[j] = IF j < i THEN s[j] ELSE e
  <2>1. Len(a) + Len(m) = i
    BY <1>1, <1>2, <1>4
  <2>2. \A j \in 1 .. i : j < i => c[j] = s[j]
    BY <1>1, <1>2, <1>6, <2>1
  <2>3. c[i] = e
    <3>1. i \in 1 .. i /\ ~ (i <= Len(a)) /\ i - Len(a) = 1
      BY <1>1, <1>2
    <3> QED BY <1>4, <1>6, <2>1, <3>1
  <2> QED BY <1>6, <2>1, <2>2, <2>3
<1>8. c \in Seq(S) /\ b \in Seq(S)
  BY <1>3, <1>6
<1> HIDE DEF c
<1>9. /\ c \o b \in Seq(S) /\ Len(c \o b) = Len(c) + Len(b)
      /\ \A j \in 1 .. Len(c) + Len(b) : (c \o b)[j] = IF j <= Len(c) THEN c[j] ELSE b[j - Len(c)]
  BY <1>8, ConcatProperties
<1>10. Len(c) + Len(b) = Len(s) + 1
  BY <1>1, <1>3, <1>7
<1>11. ASSUME NEW j \in 1 .. Len(s) + 1
       PROVE  (c \o b)[j] = IF j < i THEN s[j] ELSE IF j = i THEN e ELSE s[j - 1]
  <2>1. CASE j <= i
    BY <1>1, <1>7, <1>9, <1>10, <2>1
  <2>2. CASE ~ (j <= i)
    <3>1. j - i \in 1 .. Len(s) - i + 1 /\ i + (j - i) - 1 = j - 1
      BY <1>1, <2>2
    <3>2. b[j - i] = s[j - 1]
      BY <1>3, <3>1
    <3>3. (c \o b)[j] = b[j - i]
      BY <1>1, <1>7, <1>9, <1>10, <2>2
    <3>4. ~ (j < i) /\ j # i
      BY <1>1, <2>2
    <3> QED BY <3>2, <3>3, <3>4
  <2> QED BY <2>1, <2>2
<1> QED BY <1>5, <1>9, <1>10, <1>11 DEF c

\* What is selected from a list keeps its order, and nothing else is left out.
LEMMA SelectedFacts ==
    ASSUME NEW S, NEW s \in Seq(S), NEW T
    PROVE  LET I == {i \in DOMAIN s : s[i] \in T}
               r == Selected(s, T)
           IN  /\ r \in Seq(S)
               /\ \E f \in [1 .. Len(r) -> I] :
                     /\ \A k \in 1 .. Len(r) : r[k] = s[f[k]]
                     /\ \A k, l \in 1 .. Len(r) : k < l => f[k] < f[l]
                     /\ \A i \in I : \E k \in 1 .. Len(r) : f[k] = i
<1> DEFINE I == {i \in DOMAIN s : s[i] \in T}
           r == Selected(s, T)
           Upto(i) == {j \in I : j <= i}
           rank(i) == Cardinality(Upto(i))
           N == Cardinality(I)
           f == [k \in 1 .. N |-> CHOOSE i \in I : rank(i) = k]
<1>1. /\ Len(s) \in Nat /\ I \subseteq 1 .. Len(s) /\ \A i \in I : s[i] \in S
  BY ListFacts
<1>2. \A i \in I : i \in Int
  BY <1>1
<1>3. IsFiniteSet(I) /\ N \in Nat
  <2>1. IsFiniteSet(1 .. Len(s))
    BY <1>1, FS_Interval
  <2> QED BY <2>1, <1>1, FS_Subset, FS_CardinalityType
<1>4. r = [k \in 1 .. N |-> s[CHOOSE i \in I : rank(i) = k]]
  BY DEF Selected
<1>5. \A i \in I : IsFiniteSet(Upto(i)) /\ rank(i) \in 1 .. N
  <2> SUFFICES ASSUME NEW i \in I PROVE IsFiniteSet(Upto(i)) /\ rank(i) \in 1 .. N
    OBVIOUS
  <2>1. Upto(i) \in SUBSET I /\ i \in Upto(i)
    BY <1>1
  <2>2. IsFiniteSet(Upto(i)) /\ rank(i) <= N
    BY <2>1, <1>3, FS_Subset
  <2>3. rank(i) \in Nat /\ rank(i) # 0
    BY <2>1, <2>2, FS_CardinalityType, FS_EmptySet
  <2> QED BY <1>3, <2>2, <2>3
<1>6. \A i \in I : rank(i) \in Int
  <2> SUFFICES ASSUME NEW i \in I PROVE rank(i) \in Int
    OBVIOUS
  <2>1. rank(i) \in 1 .. N
    BY <1>5
  <2> HIDE DEF I, rank, N
  <2> QED BY <1>3, <2>1
<1>7. \A i, j \in I : i < j => rank(i) < rank(j)
  <2> SUFFICES ASSUME NEW i \in I, NEW j \in I, i < j PROVE rank(i) < rank(j)
    OBVIOUS
  <2>1. Upto(i) \in SUBSET Upto(j) /\ j \in Upto(j) /\ j \notin Upto(i)
    BY <1>1
  <2>2. Upto(i) # Upto(j)
    BY <2>1
  <2>3. rank(i) <= rank(j) /\ rank(i) # rank(j)
    BY <2>1, <2>2, <1>5, FS_Subset
  <2>4. rank(i) \in Int /\ rank(j) \in Int
    BY <1>6
  <2> HIDE DEF rank
  <2> QED BY <2>3, <2>4
<1> HIDE DEF I, r, rank, N
<1>8. \A k \in 1 .. N : \E i \in I : rank(i) = k
  <2> DEFINE g == [i \in I |-> rank(i)]
  <2>1. g \in Injection(I, 1 .. N)
    <3>1. g \in [I -> 1 .. N]
      BY <1>5
    <3>2. \A i, j \in I : g[i] = g[j] => i = j
      <4> SUFFICES ASSUME NEW i \in I, NEW j \in I, i # j PROVE g[i] # g[j]
        OBVIOUS
      <4>1. i \in Int /\ j \in Int /\ rank(i) \in Int /\ rank(j) \in Int
        BY <1>2, <1>6
      <4> QED BY <4>1, <1>7
    <3> QED BY <3>1, <3>2 DEF Injection, IsInjective
  <2>2. IsFiniteSet(1 .. N) /\ Cardinality(1 .. N) = N
    BY <1>3, FS_Interval
  <2>3. g \in Surjection(I, 1 .. N)
    <3>1. N = Cardinality(I)
      BY DEF N
    <3> HIDE DEF g
    <3> QED BY <2>1, <2>2, <3>1, FS_Injection
  <2> QED BY <2>3 DEF Surjection
<1>9. \A k \in 1 .. N : f[k] \in I /\ rank(f[k]) = k
  BY <1>8
<1>10. r = [k \in 1 .. N |-> s[f[k]]]
  BY <1>4
<1> HIDE DEF f
<1>11. r \in Seq(S) /\ Len(r) = N
  <2>1. \A k \in 1 .. N : s[f[k]] \in S
    BY <1>1, <1>9
  <2>2. r \in [1 .. N -> S]
    BY <1>10, <2>1
  <2> QED BY <1>3, <2>2
<1>12. f \in [1 .. N -> I]
  BY <1>9 DEF f
<1>13. \A k \in 1 .. N : r[k] = s[f[k]]
  BY <1>10
<1>14. \A k, l \in 1 .. N : k < l => f[k] < f[l]
  <2> SUFFICES ASSUME NEW k \in 1 .. N, NEW l \in 1 .. N, k < l, ~ (f[k] < f[l]) PROVE FALSE
    OBVIOUS
  <2>1. f[k] \in I /\ f[l] \in I /\ rank(f[k]) = k /\ rank(f[l]) = l
    BY <1>9
  <2>2. f[k] = f[l] \/ f[l] < f[k]
    BY <2>1, <1>2
  <2> QED BY <2>1, <2>2, <1>7
<1>15. \A i \in I : \E k \in 1 .. N : f[k] = i
  <2> SUFFICES ASSUME NEW i \in I PROVE f[rank(i)] = i /\ rank(i) \in 1 .. N
    OBVIOUS
  <2>1. rank(i) \in 1 .. N
    BY <1>5
  <2>2. f[rank(i)] \in I /\ rank(f[rank(i)]) = rank(i)
    BY <2>1, <1>9
  <2>3. f[rank(i)] = i \/ f[rank(i)] < i \/ i < f[rank(i)]
    BY <2>2, <1>2
  <2> QED BY <2>1, <2>2, <2>3, <1>7
<1>16. /\ r \in Seq(S)
       /\ \E h \in [1 .. Len(r) -> I] :
             /\ \A k \in 1 .. Len(r) : r[k] = s[h[k]]
             /\ \A k, l \in 1 .. Len(r) : k < l => h[k] < h[l]
             /\ \A i \in I : \E k \in 1 .. Len(r) : h[k] = i
  BY <1>11, <1>12, <1>13, <1>14, <1>15
<1> QED BY <1>16 DEF I, r

LEMMA SelectedDistinct ==
    ASSUME NEW S, NEW s \in Seq(S), NEW T, Distinct(s)
    PROVE  /\ Selected(s, T) \in Seq(S)
           /\ Distinct(Selected(s, T))
           /\ ToSet(Selected(s, T)) = ToSet(s) \cap T
<1> DEFINE I == {i \in DOMAIN s : s[i] \in T}
           r == Selected(s, T)
<1>1. /\ r \in Seq(S)
      /\ \E f \in [1 .. Len(r) -> I] :
            /\ \A k \in 1 .. Len(r) : r[k] = s[f[k]]
            /\ \A k, l \in 1 .. Len(r) : k < l => f[k] < f[l]
            /\ \A i \in I : \E k \in 1 .. Len(r) : f[k] = i
  BY SelectedFacts
<1> HIDE DEF r
<1>2. PICK f \in [1 .. Len(r) -> I] :
            /\ \A k \in 1 .. Len(r) : r[k] = s[f[k]]
            /\ \A k, l \in 1 .. Len(r) : k < l => f[k] < f[l]
            /\ \A i \in I : \E k \in 1 .. Len(r) : f[k] = i
  BY <1>1
<1>3. Len(r) \in Nat /\ DOMAIN r = 1 .. Len(r) /\ Len(s) \in Nat /\ DOMAIN s = 1 .. Len(s)
  BY <1>1, ListFacts
<1>4. Distinct(r)
  <2> SUFFICES ASSUME NEW k \in 1 .. Len(r), NEW l \in 1 .. Len(r), k < l PROVE r[k] # r[l]
    BY <1>3 DEF Distinct
  <2>1. f[k] \in DOMAIN s /\ f[l] \in DOMAIN s /\ f[k] < f[l]
    BY <1>2
  <2>2. f[k] # f[l]
    BY <2>1, <1>3
  <2> QED BY <2>1, <2>2, <1>2 DEF Distinct
<1>5. ToSet(r) = ToSet(s) \cap T
  BY <1>2, <1>3 DEF ToSet
<1> QED BY <1>1, <1>4, <1>5 DEF r

LEMMA AppendDistinct ==
    ASSUME NEW S, NEW s \in Seq(S), NEW e \in S, Distinct(s), e \notin ToSet(s)
    PROVE  /\ Append(s, e) \in Seq(S) /\ Len(Append(s, e)) = Len(s) + 1
           /\ \A i \in 1 .. Len(s) : Append(s, e)[i] = s[i]
           /\ Append(s, e)[Len(s) + 1] = e
           /\ Distinct(Append(s, e))
           /\ ToSet(Append(s, e)) = ToSet(s) \cup {e}
<1> DEFINE t == Append(s, e)
<1>1. /\ t \in Seq(S) /\ Len(t) = Len(s) + 1
      /\ \A i \in 1 .. Len(s) : t[i] = s[i]
      /\ t[Len(s) + 1] = e
  BY AppendProperties
<1> HIDE DEF t
<1>2. Len(s) \in Nat /\ DOMAIN s = 1 .. Len(s) /\ DOMAIN t = 1 .. Len(s) + 1
  BY <1>1, ListFacts
<1>3. Distinct(t)
  BY <1>1, <1>2 DEF Distinct, ToSet
<1>4. ToSet(t) = ToSet(s) \cup {e}
  <2>1. \A x \in ToSet(t) : x \in ToSet(s) \cup {e}
    BY <1>1, <1>2 DEF ToSet
  <2>2. \A x \in ToSet(s) : x \in ToSet(t)
    BY <1>1, <1>2 DEF ToSet
  <2>3. e \in ToSet(t)
    <3>1. Len(s) + 1 \in DOMAIN t
      BY <1>2
    <3> QED BY <1>1, <3>1 DEF ToSet
  <2> QED BY <2>1, <2>2, <2>3
<1> QED BY <1>1, <1>3, <1>4 DEF t

LEMMA TailDistinct ==
    ASSUME NEW S, NEW s \in Seq(S), s # << >>, Distinct(s)
    PROVE  /\ Head(s) = s[1] /\ Head(s) \in ToSet(s) /\ Len(s) > 0
           /\ Tail(s) \in Seq(S) /\ Len(Tail(s)) = Len(s) - 1
           /\ \A i \in 1 .. Len(s) - 1 : Tail(s)[i] = s[i + 1]
           /\ Distinct(Tail(s))
           /\ ToSet(Tail(s)) = ToSet(s) \ {Head(s)}
<1> DEFINE t == Tail(s)
<1>1. /\ t \in Seq(S) /\ Len(t) = Len(s) - 1
      /\ \A i \in 1 .. Len(s) - 1 : t[i] = s[i + 1]
  BY HeadTailProperties
<1>2. Len(s) \in Nat /\ Len(s) # 0 /\ DOMAIN s = 1 .. Len(s)
  BY ListFacts, EmptySeq
<1>3. Head(s) = s[1]
  BY <1>2
<1> HIDE DEF t
<1>4. DOMAIN t = 1 .. Len(s) - 1
  BY <1>1, ListFacts
<1>5. Distinct(t)
  <2> SUFFICES ASSUME NEW i \in DOMAIN t, NEW j \in DOMAIN t, i # j PROVE t[i] # t[j]
    BY DEF Distinct
  <2>1. i + 1 \in DOMAIN s /\ j + 1 \in DOMAIN s /\ i + 1 # j + 1
    BY <1>2, <1>4
  <2>2. s[i + 1] # s[j + 1]
    BY <2>1 DEF Distinct
  <2> QED BY <2>2, <1>1, <1>4
<1>6. ToSet(t) = ToSet(s) \ {s[1]}
  <2>1. \A x \in ToSet(t) : x \in ToSet(s) /\ x # s[1]
    BY <1>1, <1>2, <1>4 DEF ToSet, Distinct
  <2>2. ASSUME NEW x \in ToSet(s), x # s[1] PROVE x \in ToSet(t)
    <3>1. PICK i \in 1 .. Len(s) : s[i] = x
      BY <1>2 DEF ToSet
    <3>2. i - 1 \in 1 .. Len(s) - 1 /\ (i - 1) + 1 = i
      BY <3>1, <1>2, <2>2
    <3>3. t[i - 1] = x
      BY <3>1, <3>2, <1>1
    <3> QED BY <3>2, <3>3, <1>4 DEF ToSet
  <2> QED BY <2>1, <2>2
<1>7. s[1] \in ToSet(s)
  BY <1>2 DEF ToSet
<1> QED BY <1>1, <1>2, <1>3, <1>5, <1>6, <1>7 DEF t

LEMMA ConcatDistinct ==
    ASSUME NEW S, NEW s \in Seq(S), NEW u \in Seq(S), Distinct(s), Distinct(u),
           ToSet(s) \cap ToSet(u) = {}
    PROVE  /\ s \o u \in Seq(S) /\ Len(s \o u) = Len(s) + Len(u)
           /\ \A i \in 1 .. Len(s) : (s \o u)[i] = s[i]
           /\ \A i \in 1 .. Len(u) : (s \o u)[Len(s) + i] = u[i]
           /\ Distinct(s \o u)
           /\ ToSet(s \o u) = ToSet(s) \cup ToSet(u)
<1> DEFINE t == s \o u
<1>1. /\ t \in Seq(S) /\ Len(t) = Len(s) + Len(u)
      /\ \A i \in 1 .. Len(s) + Len(u) : t[i] = IF i <= Len(s) THEN s[i] ELSE u[i - Len(s)]
  BY ConcatProperties
<1> HIDE DEF t
<1>2. /\ Len(s) \in Nat /\ DOMAIN s = 1 .. Len(s)
      /\ Len(u) \in Nat /\ DOMAIN u = 1 .. Len(u)
      /\ DOMAIN t = 1 .. Len(s) + Len(u)
  BY <1>1, ListFacts
<1>3. \A i \in 1 .. Len(s) : t[i] = s[i] /\ i \in DOMAIN t
  BY <1>1, <1>2
<1>4. \A i \in 1 .. Len(u) : t[Len(s) + i] = u[i] /\ Len(s) + i \in DOMAIN t
  <2> SUFFICES ASSUME NEW i \in 1 .. Len(u)
               PROVE  t[Len(s) + i] = u[i] /\ Len(s) + i \in DOMAIN t
    OBVIOUS
  <2>1. Len(s) + i \in 1 .. Len(s) + Len(u) /\ ~ (Len(s) + i <= Len(s)) /\ (Len(s) + i) - Len(s) = i
    BY <1>2
  <2>2. t[Len(s) + i] = u[(Len(s) + i) - Len(s)]
    BY <2>1, <1>1
  <2> QED BY <2>1, <2>2, <1>2
<1>5. ASSUME NEW i \in DOMAIN t
      PROVE  \/ i \in DOMAIN s /\ t[i] = s[i]
             \/ i - Len(s) \in DOMAIN u /\ t[i] = u[i - Len(s)]
  <2>1. CASE i <= Len(s)
    BY <2>1, <1>1, <1>2
  <2>2. CASE ~ (i <= Len(s))
    BY <2>2, <1>1, <1>2
  <2> QED BY <2>1, <2>2
<1>6. Distinct(t)
  <2> SUFFICES ASSUME NEW i \in DOMAIN t, NEW j \in DOMAIN t, i # j, t[i] = t[j] PROVE FALSE
    BY DEF Distinct
  <2>1. i - Len(s) # j - Len(s)
    BY <1>2
  <2>2. ~ (i \in DOMAIN s /\ t[i] = s[i] /\ j \in DOMAIN s /\ t[j] = s[j])
    BY DEF Distinct
  <2>3. ~ (/\ i - Len(s) \in DOMAIN u /\ t[i] = u[i - Len(s)]
           /\ j - Len(s) \in DOMAIN u /\ t[j] = u[j - Len(s)])
    BY <2>1 DEF Distinct
  <2>4. \A a \in DOMAIN s, b \in DOMAIN u : s[a] # u[b]
    BY DEF ToSet
  <2> QED BY <1>5, <2>2, <2>3, <2>4
<1>7. ToSet(t) = ToSet(s) \cup ToSet(u)
  <2>1. \A x \in ToSet(t) : x \in ToSet(s) \cup ToSet(u)
    BY <1>5 DEF ToSet
  <2>2. \A x \in ToSet(s) : x \in ToSet(t)
    BY <1>2, <1>3 DEF ToSet
  <2>3. \A x \in ToSet(u) : x \in ToSet(t)
    BY <1>2, <1>4 DEF ToSet
  <2> QED BY <2>1, <2>2, <2>3
<1> QED BY <1>1, <1>3, <1>4, <1>6, <1>7 DEF t

LEMMA RemoveDistinct ==
    ASSUME NEW S, NEW s \in Seq(S), NEW i \in 1 .. Len(s), Distinct(s)
    PROVE  /\ RemoveAt(s, i) \in Seq(S) /\ Len(RemoveAt(s, i)) = Len(s) - 1
           /\ \A j \in 1 .. Len(s) - 1 :
                 RemoveAt(s, i)[j] = IF j < i THEN s[j] ELSE s[j + 1]
           /\ Distinct(RemoveAt(s, i))
           /\ ToSet(RemoveAt(s, i)) = ToSet(s) \ {s[i]}
<1> DEFINE t == RemoveAt(s, i)
<1>1. /\ t \in Seq(S) /\ Len(t) = Len(s) - 1
      /\ \A j \in 1 .. Len(s) - 1 : t[j] = IF j < i THEN s[j] ELSE s[j + 1]
  BY RemoveFacts
<1> HIDE DEF t
<1>2. Len(s) \in Nat /\ DOMAIN s = 1 .. Len(s) /\ DOMAIN t = 1 .. Len(s) - 1
  BY <1>1, ListFacts
<1> DEFINE p(j) == IF j < i THEN j ELSE j + 1
<1>3. \A j \in DOMAIN t : p(j) \in DOMAIN s /\ p(j) # i /\ t[j] = s[p(j)]
  BY <1>1, <1>2
<1>4. \A j, k \in DOMAIN t : j # k => p(j) # p(k)
  BY <1>2
<1>5. \A k \in DOMAIN s : k # i => \E j \in DOMAIN t : p(j) = k
  <2> SUFFICES ASSUME NEW k \in DOMAIN s, k # i PROVE \E j \in DOMAIN t : p(j) = k
    OBVIOUS
  <2>1. CASE k < i
    BY <2>1, <1>2
  <2>2. CASE ~ (k < i)
    <3>1. k - 1 \in DOMAIN t /\ p(k - 1) = k
      BY <2>2, <1>2
    <3> QED BY <3>1
  <2> QED BY <2>1, <2>2
<1> HIDE DEF p
<1>6. Distinct(t)
  BY <1>3, <1>4 DEF Distinct
<1>7. ToSet(t) = ToSet(s) \ {s[i]}
  <2>1. i \in DOMAIN s
    BY <1>2
  <2>2. \A x \in ToSet(t) : x \in ToSet(s) /\ x # s[i]
    BY <1>3, <2>1 DEF ToSet, Distinct
  <2>3. \A x \in ToSet(s) : x # s[i] => x \in ToSet(t)
    BY <1>3, <1>5 DEF ToSet
  <2> QED BY <2>2, <2>3
<1> QED BY <1>1, <1>6, <1>7 DEF t

-----------------------------------------------------------------------------
(* The invariant.                                                          *)

\* Packet newest is the last that was put on the network.  The commands never sent are those
\* behind it and stand, in their order, behind those that are sent again.
OutInv ==
    /\ queued \in 0 .. MaxPackets /\ newest \in 0 .. queued
    /\ outgoing \in Seq(Packet) /\ unacked \in Seq(Packet)
    /\ attempted \subseteq 1 .. newest
    /\ Distinct(outgoing) /\ Distinct(unacked) /\ ToSet(unacked) \cap ToSet(outgoing) = {}
    /\ ToSet(unacked) \subseteq attempted /\ attempted \subseteq Outstanding
    /\ ToSet(outgoing) \ attempted = newest + 1 .. queued
    /\ \A i, j \in DOMAIN outgoing :
          i < j /\ outgoing[i] \notin attempted => outgoing[i] < outgoing[j]

\* The packets in S that are in the window with index w.
Within(S, w) == {n \in S : Window(SeqNo(n)) = w}

CountInv ==
    /\ windows \in [WindowIndex -> Nat]
    /\ \A w \in WindowIndex : windows[w] = Cardinality(Within(attempted, w))
    /\ used = {w \in WindowIndex : windows[w] > 0}

\* The windows of what is not acknowledged are less than a cycle apart.
SpanInv == \A n \in attempted : Abs(newest) <= Abs(n) + (Windows - FreeWindows - 2)

NetInv ==
    /\ losses \in 0 .. MaxLosses
    /\ data \subseteq 1 .. newest /\ acks \subseteq 1 .. newest
    /\ \A n \in data \cup acks : n > newest - Lifetime

\* The receiver has the first Count packets and holds some that it may.
Count == Len(delivered)

RecvInv ==
    /\ delivered \in Seq(Packet) /\ \A i \in 1 .. Count : delivered[i] = i
    /\ Count <= newest
    /\ incoming = SeqNo(Count)
    /\ held \in Seq(Packet)
    /\ \A i \in DOMAIN held :
          Count + 1 < held[i] /\ held[i] <= newest /\ Abs(held[i]) <= Abs(Count) + FreeWindows - 2
    /\ \A i, j \in DOMAIN held : i < j => held[i] < held[j]
    /\ leaving \in BOOLEAN

Got == (1 .. Count) \cup ToSet(held)

\* As long as the receiver takes packets, one is acknowledged only if it has it, and the
\* sender is ahead of it by no more windows than it can tell from those behind it.
AckInv ==
    ~ leaving =>
        /\ acks \subseteq Got
        /\ 1 .. newest \subseteq attempted \cup Got
        /\ Abs(newest) <= Abs(Count) + FreeWindows - 1

Inv == OutInv /\ CountInv /\ SpanInv /\ NetInv /\ RecvInv /\ AckInv

LEMMA OutFacts ==
    ASSUME OutInv
    PROVE  /\ queued \in Nat /\ queued <= MaxPackets /\ newest \in Nat /\ newest <= queued
           /\ ToSet(outgoing) \subseteq 1 .. queued /\ ToSet(unacked) \subseteq 1 .. newest
           /\ Outstanding \subseteq 1 .. queued
           /\ attempted = {n \in Outstanding : n <= newest}
<1>1. queued \in Nat /\ queued <= MaxPackets /\ newest \in Nat /\ newest <= queued
  BY Constants DEF OutInv
<1>2. \A n \in ToSet(outgoing) : n \in attempted \/ n \in newest + 1 .. queued
  BY DEF OutInv
<1>3. \A n \in attempted : n \in 1 .. newest /\ n \in Outstanding
  BY DEF OutInv
<1>4. \A n \in ToSet(unacked) : n \in attempted
  BY DEF OutInv
<1>5. ToSet(outgoing) \subseteq 1 .. queued /\ ToSet(unacked) \subseteq 1 .. newest
  BY <1>1, <1>2, <1>3, <1>4
<1>6. Outstanding \subseteq 1 .. queued
  BY <1>1, <1>5 DEF Outstanding
<1>7. ASSUME NEW n \in Outstanding, n <= newest PROVE n \in attempted
  BY <1>1, <1>2, <1>4, <1>7 DEF Outstanding
<1>8. attempted = {n \in Outstanding : n <= newest}
  BY <1>1, <1>3, <1>7
<1> QED BY <1>1, <1>5, <1>6, <1>8

\* A packet that was never sent is sent when its turn has come.
LEMMA HeadOfOutgoing ==
    ASSUME OutInv, outgoing # << >>, Head(outgoing) \notin attempted
    PROVE  Head(outgoing) = newest + 1 /\ newest < queued
<1>1. /\ outgoing \in Seq(Packet) /\ Distinct(outgoing)
      /\ ToSet(outgoing) \ attempted = newest + 1 .. queued
      /\ \A i, j \in DOMAIN outgoing :
            i < j /\ outgoing[i] \notin attempted => outgoing[i] < outgoing[j]
  BY DEF OutInv
<1>2. Head(outgoing) = outgoing[1] /\ Head(outgoing) \in ToSet(outgoing) /\ Len(outgoing) > 0
  BY <1>1, TailDistinct
<1>3. Head(outgoing) \in newest + 1 .. queued
  BY <1>1, <1>2
<1>4. newest + 1 \in ToSet(outgoing) /\ newest + 1 \notin attempted
  BY <1>1, <1>3, OutFacts
<1>5. Len(outgoing) \in Nat /\ DOMAIN outgoing = 1 .. Len(outgoing)
  BY <1>1, ListFacts
<1>6. PICK j \in DOMAIN outgoing : outgoing[j] = newest + 1
  BY <1>4 DEF ToSet
<1>7. j = 1
  <2> SUFFICES ASSUME j # 1 PROVE FALSE
    OBVIOUS
  <2>1. 1 \in DOMAIN outgoing /\ 1 < j
    BY <1>2, <1>5
  <2>2. outgoing[1] < newest + 1
    BY <2>1, <1>1, <1>2, <1>6
  <2> QED BY <2>2, <1>2, <1>3, OutFacts
<1> QED BY <1>2, <1>3, <1>6, <1>7, OutFacts

LEMMA SendOut ==
    ASSUME OutInv, Send
    PROVE  OutInv'
<1>1. /\ outgoing \in Seq(Packet) /\ unacked \in Seq(Packet) /\ attempted \subseteq 1 .. newest
      /\ Distinct(outgoing) /\ Distinct(unacked) /\ ToSet(unacked) \cap ToSet(outgoing) = {}
      /\ ToSet(unacked) \subseteq attempted /\ attempted \subseteq Outstanding
      /\ ToSet(outgoing) \ attempted = newest + 1 .. queued
      /\ \A i, j \in DOMAIN outgoing :
            i < j /\ outgoing[i] \notin attempted => outgoing[i] < outgoing[j]
  BY DEF OutInv
<1>2. /\ queued < MaxPackets /\ queued' = queued + 1
      /\ outgoing' = Append(outgoing, queued + 1)
      /\ UNCHANGED <<unacked, attempted, newest>>
  BY DEF Send
<1>3. queued + 1 \in Packet /\ queued + 1 \notin ToSet(outgoing) /\ queued + 1 \notin attempted
      /\ queued + 1 \notin ToSet(unacked)
  BY <1>1, <1>2, OutFacts, Constants DEF Packet
<1>4. /\ outgoing' \in Seq(Packet) /\ Len(outgoing') = Len(outgoing) + 1
      /\ \A i \in 1 .. Len(outgoing) : outgoing'[i] = outgoing[i]
      /\ outgoing'[Len(outgoing) + 1] = queued + 1
      /\ Distinct(outgoing')
      /\ ToSet(outgoing') = ToSet(outgoing) \cup {queued + 1}
  BY <1>1, <1>2, <1>3, AppendDistinct
<1>5. /\ Len(outgoing) \in Nat /\ DOMAIN outgoing = 1 .. Len(outgoing)
      /\ DOMAIN outgoing' = 1 .. Len(outgoing) + 1
  BY <1>1, <1>4, ListFacts
<1>6. ToSet(outgoing') \ attempted' = newest' + 1 .. queued'
  <2>1. (newest + 1 .. queued) \cup {queued + 1} = newest + 1 .. queued + 1
    BY OutFacts
  <2> QED BY <2>1, <1>1, <1>2, <1>3, <1>4
<1>7. ASSUME NEW i \in DOMAIN outgoing', NEW j \in DOMAIN outgoing', i < j,
             outgoing'[i] \notin attempted'
      PROVE  outgoing'[i] < outgoing'[j]
  <2>1. i \in DOMAIN outgoing /\ outgoing'[i] = outgoing[i] /\ outgoing[i] \in ToSet(outgoing)
    BY <1>4, <1>5, <1>7 DEF ToSet
  <2>2. CASE j \in DOMAIN outgoing
    BY <2>1, <2>2, <1>1, <1>2, <1>4, <1>5, <1>7
  <2>3. CASE j = Len(outgoing) + 1
    BY <2>1, <2>3, <1>4, OutFacts
  <2> QED BY <2>2, <2>3, <1>5
<1>8. queued' \in 0 .. MaxPackets /\ newest' \in 0 .. queued'
  BY <1>2, OutFacts, Constants
<1>9. ToSet(unacked') \cap ToSet(outgoing') = {} /\ attempted' \subseteq Outstanding'
  BY <1>1, <1>2, <1>3, <1>4 DEF Outstanding
<1> QED BY <1>1, <1>2, <1>4, <1>6, <1>7, <1>8, <1>9 DEF OutInv

\* What Transmit does to the sets that the rest of the invariant is about.
TransmitOld ==
    /\ Head(outgoing) \in attempted /\ attempted' = attempted
    /\ newest' = newest /\ UNCHANGED <<windows, used>>

TransmitNew ==
    /\ attempted' = attempted \cup {newest + 1} /\ newest' = newest + 1
    /\ newest + 1 \notin attempted
    /\ ~ WindowWrap(newest + 1)
    /\ windows' = [windows EXCEPT ![Window(SeqNo(newest + 1))] = @ + 1]
    /\ used' = used \cup {Window(SeqNo(newest + 1))}

LEMMA TransmitCases ==
    ASSUME OutInv, Transmit
    PROVE  /\ TransmitOld \/ TransmitNew
           /\ Head(outgoing) \in 1 .. newest'
           /\ data' = Alive(data \cup {Head(outgoing)}, newest')
           /\ acks' = Alive(acks, newest')
           /\ UNCHANGED <<queued, losses, receiver>>
<1> DEFINE n == Head(outgoing)
<1>1. /\ outgoing # << >> /\ ~ WindowWrap(n)
      /\ windows' = IF n \in attempted THEN windows
                    ELSE [windows EXCEPT ![Window(SeqNo(n))] = @ + 1]
      /\ used' = IF n \in attempted THEN used ELSE used \cup {Window(SeqNo(n))}
      /\ attempted' = attempted \cup {n}
      /\ newest' = Newest(n)
      /\ data' = Alive(data \cup {n}, Newest(n))
      /\ acks' = Alive(acks, Newest(n))
      /\ UNCHANGED <<queued, losses, receiver>>
  BY DEF Transmit
<1>2. CASE n \in attempted
  <2>1. n \in 1 .. newest
    BY <1>2 DEF OutInv
  <2>2. newest' = newest
    BY <2>1, <1>1, OutFacts DEF Newest
  <2> QED BY <2>1, <2>2, <1>1, <1>2 DEF TransmitOld
<1>3. CASE n \notin attempted
  <2>1. n = newest + 1
    BY <1>1, <1>3, HeadOfOutgoing
  <2>2. newest' = newest + 1 /\ Newest(n) = newest + 1
    BY <2>1, <1>1, OutFacts DEF Newest
  <2>3. n \in 1 .. newest'
    BY <2>1, <2>2, OutFacts
  <2>4. TransmitNew
    BY <2>1, <2>2, <1>1, <1>3 DEF TransmitNew
  <2> QED BY <2>2, <2>3, <2>4, <1>1
<1> QED BY <1>2, <1>3

LEMMA TransmitOut ==
    ASSUME OutInv, Transmit
    PROVE  OutInv'
<1> DEFINE n == Head(outgoing)
<1>1. /\ outgoing \in Seq(Packet) /\ unacked \in Seq(Packet) /\ attempted \subseteq 1 .. newest
      /\ Distinct(outgoing) /\ Distinct(unacked) /\ ToSet(unacked) \cap ToSet(outgoing) = {}
      /\ ToSet(unacked) \subseteq attempted /\ attempted \subseteq Outstanding
      /\ ToSet(outgoing) \ attempted = newest + 1 .. queued
      /\ \A i, j \in DOMAIN outgoing :
            i < j /\ outgoing[i] \notin attempted => outgoing[i] < outgoing[j]
  BY DEF OutInv
<1>2. /\ outgoing # << >> /\ outgoing' = Tail(outgoing) /\ unacked' = Append(unacked, n)
      /\ attempted' = attempted \cup {n} /\ queued' = queued
  BY DEF Transmit
<1>3. /\ n \in ToSet(outgoing) /\ n \in Packet
      /\ outgoing' \in Seq(Packet) /\ Len(outgoing') = Len(outgoing) - 1
      /\ \A i \in 1 .. Len(outgoing) - 1 : outgoing'[i] = outgoing[i + 1]
      /\ Distinct(outgoing') /\ ToSet(outgoing') = ToSet(outgoing) \ {n}
  <2>1. ToSet(outgoing) \subseteq Packet
    BY <1>1, ListFacts
  <2> QED BY <2>1, <1>1, <1>2, TailDistinct
<1>4. unacked' \in Seq(Packet) /\ Distinct(unacked') /\ ToSet(unacked') = ToSet(unacked) \cup {n}
  <2>1. n \notin ToSet(unacked)
    BY <1>1, <1>3
  <2> HIDE DEF n
  <2> QED BY <2>1, <1>1, <1>2, <1>3, AppendDistinct
<1>5. /\ Len(outgoing) \in Nat /\ DOMAIN outgoing = 1 .. Len(outgoing)
      /\ DOMAIN outgoing' = 1 .. Len(outgoing) - 1
  BY <1>1, <1>3, ListFacts
<1>6. n \in 1 .. newest' /\ (TransmitOld \/ TransmitNew)
  BY TransmitCases
<1>7. ASSUME TransmitOld
      PROVE  /\ attempted' \subseteq 1 .. newest' /\ ToSet(outgoing') \ attempted' = newest' + 1 .. queued'
             /\ newest' \in 0 .. queued'
  <2>1. newest' = newest /\ n \in attempted
    BY <1>7 DEF TransmitOld
  <2>2. attempted' \subseteq 1 .. newest'
    BY <2>1, <1>1, <1>2
  <2>3. ToSet(outgoing') \ attempted' = newest' + 1 .. queued'
    BY <2>1, <1>1, <1>2, <1>3
  <2>4. newest' \in 0 .. queued'
    BY <2>1, <1>2, OutFacts
  <2> QED BY <2>2, <2>3, <2>4
<1>8. ASSUME TransmitNew
      PROVE  /\ attempted' \subseteq 1 .. newest' /\ ToSet(outgoing') \ attempted' = newest' + 1 .. queued'
             /\ newest' \in 0 .. queued'
  <2>1. newest' = newest + 1 /\ attempted' = attempted \cup {newest + 1} /\ newest + 1 \notin attempted
    BY <1>8 DEF TransmitNew
  <2>2. n = newest + 1
    BY <2>1, <1>2
  <2>3. newest + 1 \in newest + 1 .. queued
    BY <2>1, <2>2, <1>1, <1>3
  <2>4. attempted' \subseteq 1 .. newest'
    <3>1. newest \in Nat /\ 1 .. newest + 1 = (1 .. newest) \cup {newest + 1}
      BY OutFacts
    <3> QED BY <2>1, <3>1, <1>1
  <2>5. (newest + 1 .. queued) \ {newest + 1} = newest + 2 .. queued /\ newest + 2 = (newest + 1) + 1
    BY OutFacts
  <2>6. ToSet(outgoing') \ attempted' = newest' + 1 .. queued'
    BY <2>1, <2>2, <2>5, <1>1, <1>2, <1>3
  <2>7. newest' \in 0 .. queued'
    BY <2>1, <2>3, <1>2, OutFacts
  <2> QED BY <2>4, <2>6, <2>7
<1>9. /\ attempted' \subseteq 1 .. newest' /\ ToSet(outgoing') \ attempted' = newest' + 1 .. queued'
      /\ newest' \in 0 .. queued'
  BY <1>6, <1>7, <1>8
<1>10. ASSUME NEW i \in DOMAIN outgoing', NEW j \in DOMAIN outgoing', i < j,
              outgoing'[i] \notin attempted'
       PROVE  outgoing'[i] < outgoing'[j]
  <2>1. /\ i + 1 \in DOMAIN outgoing /\ outgoing'[i] = outgoing[i + 1]
        /\ j + 1 \in DOMAIN outgoing /\ outgoing'[j] = outgoing[j + 1] /\ i + 1 < j + 1
    BY <1>3, <1>5, <1>10
  <2>2. outgoing[i + 1] \notin attempted
    BY <2>1, <1>2, <1>10
  <2> QED BY <2>1, <2>2, <1>1
<1>11. queued' \in 0 .. MaxPackets
  BY <1>2, OutFacts, Constants
<1>12. /\ ToSet(unacked') \cap ToSet(outgoing') = {} /\ ToSet(unacked') \subseteq attempted'
       /\ attempted' \subseteq Outstanding'
  BY <1>1, <1>2, <1>3, <1>4 DEF Outstanding
<1> QED BY <1>3, <1>4, <1>9, <1>10, <1>11, <1>12 DEF OutInv

LEMMA TimeOutOut ==
    ASSUME OutInv, NEW S \in SUBSET ToSet(unacked), TimeOut(S)
    PROVE  OutInv'
<1> DEFINE again == Selected(unacked, S)
           rest == Selected(unacked, ToSet(unacked) \ S)
<1>1. /\ outgoing \in Seq(Packet) /\ unacked \in Seq(Packet) /\ attempted \subseteq 1 .. newest
      /\ Distinct(outgoing) /\ Distinct(unacked) /\ ToSet(unacked) \cap ToSet(outgoing) = {}
      /\ ToSet(unacked) \subseteq attempted /\ attempted \subseteq Outstanding
      /\ ToSet(outgoing) \ attempted = newest + 1 .. queued
      /\ \A i, j \in DOMAIN outgoing :
            i < j /\ outgoing[i] \notin attempted => outgoing[i] < outgoing[j]
  BY DEF OutInv
<1>2. /\ outgoing' = again \o outgoing /\ unacked' = rest
      /\ UNCHANGED <<queued, attempted, newest>>
  BY DEF TimeOut, Requeue
<1>3. /\ again \in Seq(Packet) /\ Distinct(again) /\ ToSet(again) = ToSet(unacked) \cap S
      /\ rest \in Seq(Packet) /\ Distinct(rest) /\ ToSet(rest) = ToSet(unacked) \cap (ToSet(unacked) \ S)
  BY <1>1, SelectedDistinct
<1> HIDE DEF again, rest
<1>4. ToSet(again) = S /\ ToSet(rest) = ToSet(unacked) \ S /\ ToSet(again) \cap ToSet(outgoing) = {}
  BY <1>1, <1>3
<1>5. /\ outgoing' \in Seq(Packet) /\ Len(outgoing') = Len(again) + Len(outgoing)
      /\ \A i \in 1 .. Len(again) : outgoing'[i] = again[i]
      /\ \A i \in 1 .. Len(outgoing) : outgoing'[Len(again) + i] = outgoing[i]
      /\ Distinct(outgoing')
      /\ ToSet(outgoing') = ToSet(again) \cup ToSet(outgoing)
  BY <1>1, <1>2, <1>3, <1>4, ConcatDistinct
<1>6. /\ Len(outgoing) \in Nat /\ DOMAIN outgoing = 1 .. Len(outgoing)
      /\ Len(again) \in Nat /\ DOMAIN again = 1 .. Len(again)
      /\ DOMAIN outgoing' = 1 .. Len(again) + Len(outgoing)
  BY <1>1, <1>3, <1>5, ListFacts
<1>7. ASSUME NEW i \in DOMAIN outgoing', NEW j \in DOMAIN outgoing', i < j,
             outgoing'[i] \notin attempted'
      PROVE  outgoing'[i] < outgoing'[j]
  <2>1. ~ (i <= Len(again))
    <3> SUFFICES ASSUME i <= Len(again) PROVE FALSE
      OBVIOUS
    <3>1. i \in DOMAIN again /\ outgoing'[i] = again[i]
      BY <1>5, <1>6
    <3>2. again[i] \in ToSet(again)
      BY <3>1 DEF ToSet
    <3> QED BY <3>1, <3>2, <1>1, <1>2, <1>4, <1>7
  <2> DEFINE a == i - Len(again)
             b == j - Len(again)
  <2>2. /\ a \in DOMAIN outgoing /\ b \in DOMAIN outgoing /\ a < b
        /\ Len(again) + a = i /\ Len(again) + b = j
    <3>1. i \in 1 .. Len(again) + Len(outgoing) /\ j \in 1 .. Len(again) + Len(outgoing) /\ i < j
      BY <1>6, <1>7
    <3>2. a \in 1 .. Len(outgoing) /\ b \in 1 .. Len(outgoing)
      BY <2>1, <3>1, <1>6
    <3>3. a < b /\ Len(again) + a = i /\ Len(again) + b = j
      BY <3>1, <1>6
    <3> QED BY <3>2, <3>3, <1>6
  <2> HIDE DEF a, b
  <2>3. outgoing'[i] = outgoing[a] /\ outgoing'[j] = outgoing[b]
    BY <2>2, <1>5, <1>6
  <2> QED BY <2>2, <2>3, <1>1, <1>2, <1>7
<1>8. ToSet(outgoing') \ attempted' = newest' + 1 .. queued'
  BY <1>1, <1>2, <1>4, <1>5
<1>9. /\ ToSet(unacked') \cap ToSet(outgoing') = {} /\ ToSet(unacked') \subseteq attempted'
      /\ attempted' \subseteq Outstanding'
  BY <1>1, <1>2, <1>4, <1>5 DEF Outstanding
<1>10. queued' \in 0 .. MaxPackets /\ newest' \in 0 .. queued' /\ attempted' \subseteq 1 .. newest'
  BY <1>1, <1>2 DEF OutInv
<1> QED BY <1>2, <1>3, <1>5, <1>7, <1>8, <1>9, <1>10 DEF OutInv


-----------------------------------------------------------------------------
(* Acknowledgements.                                                       *)

\* What is not acknowledged is less than a cycle behind what was sent last.
LEMMA SpanFacts ==
    ASSUME OutInv, SpanInv, NEW n \in attempted
    PROVE  n \in Nat /\ n <= newest /\ newest - n < Modulus
<1>1. n \in Nat /\ n <= newest /\ newest \in Nat
  BY OutFacts DEF OutInv
<1> DEFINE x == Windows - FreeWindows - 2
<1>2. x \in Nat /\ Abs(newest) <= Abs(n) + x
  BY Constants DEF SpanInv
<1> HIDE DEF x
<1>3. newest - n < WindowSize * (x + 1)
  BY <1>1, <1>2, Sizes, DivWithin DEF Abs
<1>4. Windows - (x + 1) \in Nat
  BY Constants DEF x
<1>5. WindowSize * (Windows - (x + 1)) >= 0
  BY <1>4, Sizes
<1>6. WindowSize * (Windows - (x + 1)) = Modulus - WindowSize * (x + 1)
  BY <1>2, Sizes DEF Modulus
<1>7. WindowSize * (x + 1) \in Int
  BY <1>2, Sizes
<1> QED BY <1>1, <1>3, <1>5, <1>6, <1>7, Sizes

\* No two of them have the same number, and an acknowledgement is of the packet that has
\* its number.
LEMMA Unmistaken ==
    ASSUME OutInv, SpanInv, NEW p \in attempted, NEW m \in Nat, SeqNo(p) = SeqNo(m),
           \/ m \in attempted
           \/ m <= newest /\ m > newest - Lifetime
    PROVE  p = m
<1>1. p \in Nat /\ p <= newest /\ newest - p < Modulus /\ newest \in Nat
  BY SpanFacts, OutFacts
<1>2. m <= newest /\ newest - m < Modulus
  <2>1. CASE m \in attempted
    BY <2>1, SpanFacts
  <2>2. CASE m <= newest /\ m > newest - Lifetime
    <3>1. Lifetime \in Nat /\ Lifetime < Modulus /\ Modulus \in Nat
      BY Constants
    <3> QED BY <2>2, <3>1, <1>1
  <2> QED BY <2>1, <2>2
<1>3. p - m < Modulus /\ m - p < Modulus
  BY <1>1, <1>2, Sizes
<1> QED BY <1>1, <1>3, OneNumberEach

LEMMA AckEffect ==
    ASSUME OutInv, SpanInv, NetInv, NEW m \in Packet, ReceiveAck(m)
    PROVE  /\ m \in acks /\ m \in attempted
           /\ Release(m, Window(SeqNo(m)))
           /\ attempted' = attempted \ {m}
           /\ OutInv'
           /\ UNCHANGED <<queued, newest, data, acks, losses, receiver>>
<1> DEFINE s == SeqNo(m)
<1>1. /\ m \in acks
      /\ UNCHANGED <<queued, newest, data, acks, losses, receiver>>
  BY DEF ReceiveAck
<1>2. /\ outgoing \in Seq(Packet) /\ unacked \in Seq(Packet) /\ attempted \subseteq 1 .. newest
      /\ Distinct(outgoing) /\ Distinct(unacked) /\ ToSet(unacked) \cap ToSet(outgoing) = {}
      /\ ToSet(unacked) \subseteq attempted /\ attempted \subseteq Outstanding
      /\ ToSet(outgoing) \ attempted = newest + 1 .. queued
      /\ \A i, j \in DOMAIN outgoing :
            i < j /\ outgoing[i] \notin attempted => outgoing[i] < outgoing[j]
  BY DEF OutInv
<1>3. m \in Nat /\ m <= newest /\ m > newest - Lifetime
  BY <1>1, OutFacts DEF NetInv
<1>4. \A p \in attempted : SeqNo(p) = s => p = m
  BY <1>3, Unmistaken
<1>5. queued' \in 0 .. MaxPackets /\ newest' \in 0 .. queued'
  BY <1>1 DEF OutInv
<1> HIDE DEF s
<1>6. CASE Sent(s) # {}
  <2>1. /\ unacked' = RemoveAt(unacked, First(Sent(s))) /\ outgoing' = outgoing
        /\ Release(unacked[First(Sent(s))], Window(s))
    BY <1>6 DEF ReceiveAck, s
  <2>2. PICK i \in DOMAIN unacked : i \in Sent(s)
    BY <1>6 DEF Sent
  <2>3. \A j \in Sent(s) : unacked[j] = m
    <3>1. \A j \in DOMAIN unacked : unacked[j] \in attempted
      BY <1>2 DEF ToSet
    <3> QED BY <3>1, <1>4 DEF Sent
  <2>4. Sent(s) = {i}
    BY <2>2, <2>3, <1>2 DEF Sent, Distinct
  <2>5. First(Sent(s)) = i
    <3>1. i \in Int
      BY <1>2, ListFacts
    <3> QED BY <2>4, <3>1 DEF First
  <2>6. unacked[i] = m /\ i \in 1 .. Len(unacked) /\ m \in ToSet(unacked)
    BY <2>2, <2>3, <1>2, ListFacts DEF ToSet
  <2>7. /\ unacked' \in Seq(Packet) /\ Distinct(unacked')
        /\ ToSet(unacked') = ToSet(unacked) \ {m}
    BY <2>1, <2>5, <2>6, <1>2, RemoveDistinct
  <2>8. Release(m, Window(s)) /\ attempted' = attempted \ {m}
    BY <2>1, <2>5, <2>6 DEF Release
  <2>9. /\ ToSet(unacked') \cap ToSet(outgoing') = {} /\ ToSet(unacked') \subseteq attempted'
        /\ attempted' \subseteq Outstanding' /\ attempted' \subseteq 1 .. newest'
        /\ ToSet(outgoing') \ attempted' = newest' + 1 .. queued'
    BY <2>1, <2>6, <2>7, <2>8, <1>1, <1>2 DEF Outstanding
  <2>10. \A j, k \in DOMAIN outgoing' :
            j < k /\ outgoing'[j] \notin attempted' => outgoing'[j] < outgoing'[k]
    <3>1. \A j \in DOMAIN outgoing : outgoing[j] # m
      BY <2>6, <1>2 DEF ToSet
    <3> QED BY <3>1, <2>1, <2>8, <1>2
  <2>11. outgoing' \in Seq(Packet) /\ Distinct(outgoing')
    BY <2>1, <1>2
  <2>12. OutInv'
    BY <2>7, <2>9, <2>10, <2>11, <1>5 DEF OutInv
  <2> QED BY <2>6, <2>8, <2>12, <1>1, <1>2 DEF s
<1>7. CASE Sent(s) = {}
  <2>1. /\ Retried(s) # {}
        /\ outgoing' = RemoveAt(outgoing, First(Retried(s))) /\ unacked' = unacked
        /\ Release(outgoing[First(Retried(s))], Window(s))
    BY <1>7 DEF ReceiveAck, s
  <2>2. PICK i \in DOMAIN outgoing : i \in Retried(s)
    BY <2>1 DEF Retried
  <2>3. \A j \in Retried(s) : outgoing[j] = m /\ m \in attempted
    <3>1. \A j \in DOMAIN outgoing : j \in 1 .. j
      BY <1>2, ListFacts
    <3> QED BY <3>1, <1>4 DEF Retried
  <2>4. Retried(s) = {i}
    BY <2>2, <2>3, <1>2 DEF Retried, Distinct
  <2>5. First(Retried(s)) = i
    <3>1. i \in Int
      BY <1>2, ListFacts
    <3> QED BY <2>4, <3>1 DEF First
  <2>6. outgoing[i] = m /\ i \in 1 .. Len(outgoing) /\ m \in ToSet(outgoing) /\ m \in attempted
    BY <2>2, <2>3, <1>2, ListFacts DEF ToSet
  <2>7. /\ outgoing' \in Seq(Packet) /\ Len(outgoing') = Len(outgoing) - 1
        /\ \A j \in 1 .. Len(outgoing) - 1 :
              outgoing'[j] = IF j < i THEN outgoing[j] ELSE outgoing[j + 1]
        /\ Distinct(outgoing')
        /\ ToSet(outgoing') = ToSet(outgoing) \ {m}
    BY <2>1, <2>5, <2>6, <1>2, RemoveDistinct
  <2>8. Release(m, Window(s)) /\ attempted' = attempted \ {m}
    BY <2>1, <2>5, <2>6 DEF Release
  <2>9. /\ ToSet(unacked') \cap ToSet(outgoing') = {} /\ ToSet(unacked') \subseteq attempted'
        /\ attempted' \subseteq Outstanding' /\ attempted' \subseteq 1 .. newest'
        /\ ToSet(outgoing') \ attempted' = newest' + 1 .. queued'
    BY <2>1, <2>6, <2>7, <2>8, <1>1, <1>2 DEF Outstanding
  <2>10. /\ Len(outgoing) \in Nat /\ DOMAIN outgoing = 1 .. Len(outgoing)
         /\ DOMAIN outgoing' = 1 .. Len(outgoing) - 1
    BY <1>2, <2>7, ListFacts
  <2> DEFINE p(j) == IF j < i THEN j ELSE j + 1
  <2>11. \A j, k \in DOMAIN outgoing' :
            /\ p(j) \in DOMAIN outgoing /\ outgoing'[j] = outgoing[p(j)] /\ p(j) # i
            /\ j < k => p(j) < p(k)
    BY <2>6, <2>7, <2>10
  <2> HIDE DEF p
  <2>12. \A j \in DOMAIN outgoing : j # i => outgoing[j] # m
    BY <2>6, <2>10, <1>2 DEF Distinct
  <2>13. ASSUME NEW j \in DOMAIN outgoing', NEW k \in DOMAIN outgoing', j < k,
                outgoing'[j] \notin attempted'
         PROVE  outgoing'[j] < outgoing'[k]
    <3>1. outgoing[p(j)] \notin attempted
      BY <2>8, <2>11, <2>12, <2>13
    <3> QED BY <3>1, <2>11, <2>13, <1>2
  <2>14. unacked' \in Seq(Packet) /\ Distinct(unacked')
    BY <2>1, <1>2
  <2>15. OutInv'
    BY <2>7, <2>9, <2>13, <2>14, <1>5 DEF OutInv
  <2> QED BY <2>6, <2>8, <2>15, <1>1 DEF s
<1> QED BY <1>6, <1>7

-----------------------------------------------------------------------------
(* The windows of the sender.                                              *)

LEMMA WithinFacts ==
    ASSUME OutInv, NEW w
    PROVE  IsFiniteSet(Within(attempted, w)) /\ Cardinality(Within(attempted, w)) \in Nat
<1>1. attempted \subseteq 1 .. newest
  BY DEF OutInv
<1>2. IsFiniteSet(1 .. newest)
  BY OutFacts, FS_Interval
<1>3. Within(attempted, w) \in SUBSET (1 .. newest)
  BY <1>1 DEF Within
<1> QED BY <1>2, <1>3, FS_Subset, FS_CardinalityType

\* A window is in use while a command of it is not acknowledged.
LEMMA InUse ==
    ASSUME OutInv, CountInv, NEW n \in attempted
    PROVE  LET w == Window(SeqNo(n))
           IN  w \in WindowIndex /\ w \in used /\ windows[w] \in Nat /\ windows[w] > 0
<1> DEFINE w == Window(SeqNo(n))
<1>1. w \in WindowIndex
  BY OutFacts, AbsFacts DEF OutInv
<1>2. n \in Within(attempted, w)
  BY DEF Within
<1> HIDE DEF w
<1>3. Cardinality(Within(attempted, w)) # 0 /\ Cardinality(Within(attempted, w)) \in Nat
  BY <1>2, WithinFacts, FS_EmptySet
<1>4. windows[w] = Cardinality(Within(attempted, w))
  BY <1>1 DEF CountInv
<1>5. windows[w] \in Nat /\ windows[w] > 0
  BY <1>3, <1>4
<1> QED BY <1>1, <1>5 DEF CountInv, w

LEMMA NewCount ==
    ASSUME OutInv, CountInv, TransmitNew
    PROVE  CountInv'
<1> DEFINE n == newest + 1
           w == Window(SeqNo(n))
<1>1. /\ attempted' = attempted \cup {n} /\ n \notin attempted
      /\ windows' = [windows EXCEPT ![w] = @ + 1] /\ used' = used \cup {w}
  BY DEF TransmitNew
<1>2. w \in WindowIndex
  BY OutFacts, AbsFacts
<1>3. Within(attempted', w) = Within(attempted, w) \cup {n} /\ n \notin Within(attempted, w)
  BY <1>1 DEF Within
<1>4. \A x \in WindowIndex : x # w => Within(attempted', x) = Within(attempted, x)
  BY <1>1 DEF Within
<1> HIDE DEF n, w
<1>5. /\ windows \in [WindowIndex -> Nat]
      /\ \A x \in WindowIndex : windows[x] = Cardinality(Within(attempted, x))
      /\ used = {x \in WindowIndex : windows[x] > 0}
  BY DEF CountInv
<1>6. Cardinality(Within(attempted', w)) = Cardinality(Within(attempted, w)) + 1
  BY <1>3, WithinFacts, FS_AddElement
<1>7. /\ windows' \in [WindowIndex -> Nat] /\ windows'[w] = windows[w] + 1
      /\ \A x \in WindowIndex : x # w => windows'[x] = windows[x]
  BY <1>1, <1>2, <1>5
<1>8. \A x \in WindowIndex : windows'[x] = Cardinality(Within(attempted', x))
  BY <1>2, <1>4, <1>5, <1>6, <1>7
<1>9. used' = {x \in WindowIndex : windows'[x] > 0}
  BY <1>1, <1>2, <1>5, <1>7
<1> QED BY <1>7, <1>8, <1>9 DEF CountInv

LEMMA ReleaseCount ==
    ASSUME OutInv, CountInv, NEW m \in attempted, Release(m, Window(SeqNo(m)))
    PROVE  CountInv' /\ windows'[Window(SeqNo(m))] <= windows[Window(SeqNo(m))]
<1> DEFINE w == Window(SeqNo(m))
<1>1. /\ attempted' = attempted \ {m}
      /\ windows' = IF windows[w] > 0 THEN [windows EXCEPT ![w] = @ - 1] ELSE windows
      /\ used' = IF windows[w] = 1 THEN used \ {w} ELSE used
  BY DEF Release
<1>2. w \in WindowIndex /\ windows[w] \in Nat /\ windows[w] > 0
  BY InUse
<1>3. Within(attempted', w) = Within(attempted, w) \ {m} /\ m \in Within(attempted, w)
  BY <1>1 DEF Within
<1>4. \A x \in WindowIndex : x # w => Within(attempted', x) = Within(attempted, x)
  BY <1>1 DEF Within
<1> HIDE DEF w
<1>5. /\ windows \in [WindowIndex -> Nat]
      /\ \A x \in WindowIndex : windows[x] = Cardinality(Within(attempted, x))
      /\ used = {x \in WindowIndex : windows[x] > 0}
  BY DEF CountInv
<1>6. Cardinality(Within(attempted', w)) = Cardinality(Within(attempted, w)) - 1
  BY <1>3, WithinFacts, FS_RemoveElement
<1>7. /\ windows' \in [WindowIndex -> Nat] /\ windows'[w] = windows[w] - 1
      /\ \A x \in WindowIndex : x # w => windows'[x] = windows[x]
  BY <1>1, <1>2, <1>5
<1>8. \A x \in WindowIndex : windows'[x] = Cardinality(Within(attempted', x))
  BY <1>2, <1>4, <1>5, <1>6, <1>7
<1>9. used' = {x \in WindowIndex : windows'[x] > 0}
  BY <1>1, <1>2, <1>5, <1>7
<1>10. windows'[w] <= windows[w]
  BY <1>2, <1>7
<1> QED BY <1>7, <1>8, <1>9, <1>10 DEF CountInv, w

LEMMA NextWindow ==
    ASSUME NEW n \in Nat
    PROVE  Abs(n + 1) = IF SeqNo(n + 1) % WindowSize = 0 THEN Abs(n) + 1 ELSE Abs(n)
<1>1. SeqNo(n + 1) % WindowSize = (n + 1) % WindowSize
  BY AbsFacts
<1>2. (n + 1) \div WindowSize
        = IF (n + 1) % WindowSize = 0 THEN (n \div WindowSize) + 1 ELSE n \div WindowSize
  BY Sizes, DivNext
<1> QED BY <1>1, <1>2 DEF Abs

\* When the sender begins a window, the last it may still use is free.
LEMMA NewSpan ==
    ASSUME OutInv, CountInv, SpanInv, TransmitNew
    PROVE  SpanInv'
<1> DEFINE n == newest + 1
           x == Windows - FreeWindows - 2
<1>1. attempted' = attempted \cup {n} /\ newest' = n /\ ~ WindowWrap(n) /\ n \notin attempted
  BY DEF TransmitNew
<1>2. newest \in Nat /\ n \in Nat /\ Abs(n) \in Nat /\ Abs(newest) \in Nat /\ x \in Nat
  <2>1. newest \in Nat /\ n \in Nat
    BY OutFacts
  <2> QED BY <2>1, AbsFacts, Constants
<1>3. Abs(n) = IF SeqNo(n) % WindowSize = 0 THEN Abs(newest) + 1 ELSE Abs(newest)
  BY <1>2, NextWindow
<1>4. ASSUME NEW q \in attempted PROVE Abs(n) <= Abs(q) + x
  <2>1. Abs(newest) <= Abs(q) + x
    BY DEF SpanInv
  <2>2. q \in Nat /\ Abs(q) \in Nat
    BY SpanFacts, AbsFacts
  <2>3. CASE SeqNo(n) % WindowSize # 0
    BY <2>1, <2>3, <1>3
  <2>4. CASE SeqNo(n) % WindowSize = 0
    <3> SUFFICES ASSUME Abs(n) > Abs(q) + x PROVE FALSE
      BY <1>2, <2>2
    <3> DEFINE w == Window(SeqNo(n))
    <3>1. Abs(q) + Windows = Abs(n) + (FreeWindows + 1)
      BY <1>2, <1>3, <2>1, <2>2, <2>4, Constants
    <3>2. Abs(q) % Windows = ((Abs(n) % Windows) + (FreeWindows + 1)) % Windows
      <4>1. FreeWindows + 1 \in Nat
        BY Constants
      <4> HIDE DEF n
      <4> QED BY <3>1, <4>1, <1>2, <2>2, Sizes, Around
    <3>3. Window(SeqNo(q)) = (w + (FreeWindows + 1)) % Windows
      BY <3>2, <1>2, <2>2, AbsFacts
    <3>4. Window(SeqNo(q)) \in Ahead(w)
      <4>1. FreeWindows + 1 \in 0 .. FreeWindows + 1
        BY Constants
      <4> QED BY <3>3, <4>1 DEF Ahead
    <3>5. Window(SeqNo(q)) \in used
      BY InUse
    <3> QED BY <3>4, <3>5, <1>1, <2>4 DEF WindowWrap
  <2> QED BY <2>3, <2>4
<1>5. Abs(n) <= Abs(n) + x
  BY <1>2
<1> HIDE DEF n, x
<1> QED BY <1>1, <1>4, <1>5 DEF SpanInv, x

\* ... and a command of the one before was acknowledged, unless it was the first.
LEMMA NotFull ==
    ASSUME OutInv, CountInv, TransmitNew, SeqNo(newest + 1) % WindowSize = 0, Abs(newest) > 0
    PROVE  \E m \in 1 .. newest : Abs(m) = Abs(newest) /\ m \notin attempted
<1> DEFINE n == newest + 1
           w == Window(SeqNo(n))
           a == Abs(newest)
           X == WindowSize * a .. WindowSize * a + WindowSize - 1
           c == a % Windows
<1>1. newest \in Nat /\ n \in Nat /\ a \in Nat /\ Abs(n) = a + 1
  BY OutFacts, AbsFacts, NextWindow
<1>2. n = WindowSize * (a + 1)
  <2>1. SeqNo(n) % WindowSize = n % WindowSize
    BY <1>1, AbsFacts
  <2>2. n = WindowSize * Abs(n) + (n % WindowSize)
    BY <1>1, Sizes, DivMod DEF Abs
  <2>3. WindowSize * Abs(n) \in Int
    BY <1>1, Sizes
  <2> QED BY <1>1, <2>1, <2>2, <2>3
<1> HIDE DEF a
<1>3. /\ WindowSize * (a + 1) = WindowSize * a + WindowSize
      /\ WindowSize * a \in Nat /\ WindowSize * a >= 1
  <2>1. a - 1 \in Nat
    BY <1>1 DEF a
  <2>2. WindowSize * (a - 1) >= 0 /\ WindowSize * (a - 1) = WindowSize * a - WindowSize
    BY <1>1, <2>1, Sizes
  <2>3. WindowSize * (a + 1) = WindowSize * a + WindowSize /\ WindowSize * a \in Int
    BY <1>1, Sizes
  <2> QED BY <2>2, <2>3, Sizes
<1>4. \A m \in X : m \in 1 .. newest /\ Abs(m) = a
  <2> SUFFICES ASSUME NEW m \in X PROVE m \in 1 .. newest /\ Abs(m) = a
    OBVIOUS
  <2>1. m \in Nat /\ m - WindowSize * a \in 0 .. WindowSize - 1 /\ m <= newest /\ m >= 1
    BY <1>1, <1>2, <1>3, Sizes
  <2>2. m = WindowSize * a + (m - WindowSize * a)
    BY <2>1, <1>3
  <2>3. m \div WindowSize = a
    BY <2>1, <2>2, <1>1, Sizes, Divided
  <2> QED BY <2>1, <2>3, <1>1 DEF Abs
<1>5. c = (w + Windows - 1) % Windows
  <2>1. w = (a + 1) % Windows
    BY <1>1, AbsFacts
  <2> HIDE DEF n, w
  <2> QED BY <2>1, <1>1, Sizes, OneBack
<1>6. c \in WindowIndex
  BY <1>1, Sizes, DivMod DEF WindowIndex
<1>7. ~ (windows[c] >= WindowSize)
  BY <1>5 DEF TransmitNew, WindowWrap
<1>8. windows[c] \in Nat /\ windows[c] = Cardinality(Within(attempted, c))
  BY <1>6 DEF CountInv
<1>9. ~ (X \subseteq attempted)
  <2> SUFFICES ASSUME X \subseteq attempted PROVE FALSE
    OBVIOUS
  <2>1. \A m \in X : Window(SeqNo(m)) = c
    BY <1>4, AbsFacts
  <2> HIDE DEF X, c
  <2>2. X \in SUBSET Within(attempted, c)
    BY <2>1 DEF Within
  <2>3. Cardinality(X) <= Cardinality(Within(attempted, c))
    BY <2>2, WithinFacts, FS_Subset
  <2>4. Cardinality(X) = WindowSize
    <3>1. WindowSize * a \in Int /\ WindowSize * a + WindowSize - 1 \in Int
      BY <1>3, Sizes
    <3>2. Cardinality(X) = IF WindowSize * a > WindowSize * a + WindowSize - 1 THEN 0
                           ELSE (WindowSize * a + WindowSize - 1) - WindowSize * a + 1
      BY <3>1, FS_Interval DEF X
    <3> QED BY <3>2, <1>3, Sizes
  <2> QED BY <2>3, <2>4, <1>7, <1>8, Sizes
<1> QED BY <1>4, <1>9 DEF a

-----------------------------------------------------------------------------
(* The list of the receiver.                                               *)

Ascending(s) == \A i, j \in DOMAIN s : i < j => s[i] < s[j]

\* The numbers in a list that ascends grow at least as fast as their places.
LEMMA AscendingGrows ==
    ASSUME NEW s \in Seq(Nat), Ascending(s), NEW i \in 1 .. Len(s), NEW j \in i .. Len(s)
    PROVE  s[j] - s[i] >= j - i
<1>1. /\ Len(s) \in Nat /\ DOMAIN s = 1 .. Len(s) /\ \A k \in 1 .. Len(s) : s[k] \in Nat
  BY ListFacts
<1> DEFINE S == i + 1 .. j
           T == s[i] + 1 .. s[j]
           f == [k \in S |-> s[k]]
<1>2. i \in Int /\ j \in Int /\ 1 <= i /\ i <= j /\ j <= Len(s)
  BY <1>1
<1>3. s[i] \in Int /\ s[j] \in Int /\ s[i] <= s[j]
  <2>1. s[i] \in Int /\ s[j] \in Int
    BY <1>1, <1>2
  <2>2. i < j => s[i] < s[j]
    <3>1. i \in DOMAIN s /\ j \in DOMAIN s
      BY <1>1, <1>2
    <3> QED BY <3>1 DEF Ascending
  <2>3. i = j \/ i < j
    BY <1>2
  <2> QED BY <2>1, <2>2, <2>3
<1>4. \A k \in S : k \in DOMAIN s /\ s[k] \in T
  <2> SUFFICES ASSUME NEW k \in S PROVE k \in DOMAIN s /\ s[k] \in T
    OBVIOUS
  <2>1. k \in 1 .. Len(s) /\ k \in Int /\ i < k /\ k <= j
    BY <1>1, <1>2
  <2>2. k \in DOMAIN s /\ i \in DOMAIN s /\ j \in DOMAIN s /\ s[k] \in Int
    BY <2>1, <1>1, <1>2
  <2>3. s[i] < s[k] /\ (k < j => s[k] < s[j])
    BY <2>1, <2>2 DEF Ascending
  <2>4. k = j \/ k < j
    BY <2>1, <1>2
  <2>5. s[k] <= s[j]
    <3>1. CASE k = j
      BY <3>1, <1>3
    <3>2. CASE k < j
      BY <3>2, <2>2, <2>3, <1>3
    <3> QED BY <3>1, <3>2, <2>4
  <2>6. s[i] + 1 <= s[k]
    BY <2>2, <2>3, <1>3
  <2> QED BY <2>2, <2>5, <2>6, <1>3
<1>5. f \in Injection(S, T)
  <2>1. f \in [S -> T]
    BY <1>4
  <2>2. \A k, l \in S : f[k] = f[l] => k = l
    <3>1. ASSUME NEW k \in S, NEW l \in S, k < l PROVE s[k] # s[l]
      <4>1. k \in DOMAIN s /\ l \in DOMAIN s /\ s[k] \in Int /\ s[l] \in Int
        <5>1. k \in DOMAIN s /\ l \in DOMAIN s
          BY <1>4
        <5> QED BY <5>1, <1>1
      <4>2. s[k] < s[l]
        BY <4>1, <3>1 DEF Ascending
      <4> QED BY <4>1, <4>2
    <3>2. \A k \in S : k \in Int
      BY <1>2
    <3> SUFFICES ASSUME NEW k \in S, NEW l \in S, k # l PROVE s[k] # s[l]
      OBVIOUS
    <3>3. k < l \/ l < k
      BY <3>2
    <3> QED BY <3>1, <3>3
  <2> QED BY <2>1, <2>2 DEF Injection, IsInjective
<1>6. IsFiniteSet(T) /\ Cardinality(S) = j - i /\ Cardinality(T) = s[j] - s[i]
  <2>1. /\ Cardinality(S) = IF i + 1 > j THEN 0 ELSE j - (i + 1) + 1
    <3>1. i + 1 \in Int
      BY <1>2
    <3> QED BY <3>1, <1>2, FS_Interval
  <2>2. /\ IsFiniteSet(T)
        /\ Cardinality(T) = IF s[i] + 1 > s[j] THEN 0 ELSE s[j] - (s[i] + 1) + 1
    <3>1. s[i] + 1 \in Int
      BY <1>3
    <3> QED BY <3>1, <1>3, FS_Interval
  <2>3. Cardinality(S) = j - i
    BY <2>1, <1>2
  <2>4. Cardinality(T) = s[j] - s[i]
    BY <2>2, <1>3
  <2> QED BY <2>2, <2>3, <2>4
<1> HIDE DEF S, T, f
<1>7. Cardinality(S) <= Cardinality(T)
  BY <1>5, <1>6, FS_Injection
<1> QED BY <1>3, <1>6, <1>7, <1>2

\* Places that leave out none before them are the first ones.
LEMMA Prefix ==
    ASSUME NEW L \in Nat, NEW I \in SUBSET (1 .. L), \A i \in I : 1 .. i \subseteq I
    PROVE  Cardinality(I) \in 0 .. L /\ I = 1 .. Cardinality(I)
<1> DEFINE c == Cardinality(I)
<1>1. IsFiniteSet(1 .. L) /\ Cardinality(1 .. L) = L
  BY FS_Interval
<1>2. IsFiniteSet(I) /\ c <= L /\ c \in Nat
  BY <1>1, FS_Subset, FS_CardinalityType
<1>3. I \subseteq 1 .. c
  <2> SUFFICES ASSUME NEW i \in I PROVE i \in 1 .. c
    OBVIOUS
  <2>1. i \in 1 .. L
    OBVIOUS
  <2>2. 1 .. i \in SUBSET I
    OBVIOUS
  <2>3. Cardinality(1 .. i) <= c
    BY <2>2, <1>2, FS_Subset
  <2>4. Cardinality(1 .. i) = i
    BY <2>1, FS_Interval
  <2> QED BY <2>1, <2>3, <2>4, <1>2
<1>4. IsFiniteSet(1 .. c) /\ Cardinality(1 .. c) = c
  BY <1>2, FS_Interval
<1>5. I = 1 .. c
  BY <1>3, <1>4, FS_Subset
<1> QED BY <1>2, <1>5

\* Numbers that wrapped behind the receiver's are behind those that did not.
LEMMA InFront ==
    ASSUME NEW c \in Nat, incoming = SeqNo(c),
           NEW a \in Nat, c <= a, a - c < Modulus, NEW b \in Nat, c <= b, b - c < Modulus
    PROVE  StaysInFront(SeqNo(a), SeqNo(b)) <=> a <= b
<1> DEFINE p == c \div Modulus
           A == SeqNo(a)
           B == SeqNo(b)
<1>1. /\ a \div Modulus = IF A < incoming THEN p + 1 ELSE p
      /\ b \div Modulus = IF B < incoming THEN p + 1 ELSE p
  BY Sizes, Wrapped DEF SeqNo
<1>2. /\ A \in 0 .. Modulus - 1 /\ B \in 0 .. Modulus - 1 /\ p \in Nat
      /\ a = Modulus * (a \div Modulus) + A /\ b = Modulus * (b \div Modulus) + B
  BY AbsFacts
<1> HIDE DEF A, B, p
<1>3. Modulus * (p + 1) = Modulus * p + Modulus /\ Modulus * p \in Int
  BY <1>2, Sizes
<1>4. CASE A < incoming /\ B < incoming
  <2>1. a = Modulus * p + Modulus + A /\ b = Modulus * p + Modulus + B
    BY <1>1, <1>2, <1>3, <1>4
  <2>2. a <= b <=> A <= B
    BY <2>1, <1>2, <1>3, Sizes
  <2> QED BY <2>2, <1>4 DEF StaysInFront, A, B
<1>5. CASE A < incoming /\ ~ (B < incoming)
  <2>1. a = Modulus * p + Modulus + A /\ b = Modulus * p + B
    BY <1>1, <1>2, <1>3, <1>5
  <2>2. ~ (a <= b)
    BY <2>1, <1>2, <1>3, Sizes
  <2> QED BY <2>2, <1>5 DEF StaysInFront, A, B
<1>6. CASE ~ (A < incoming) /\ B < incoming
  <2>1. a = Modulus * p + A /\ b = Modulus * p + Modulus + B
    BY <1>1, <1>2, <1>3, <1>6
  <2>2. a <= b
    BY <2>1, <1>2, <1>3, Sizes
  <2> QED BY <2>2, <1>6 DEF StaysInFront, A, B
<1>7. CASE ~ (A < incoming) /\ ~ (B < incoming)
  <2>1. a = Modulus * p + A /\ b = Modulus * p + B
    BY <1>1, <1>2, <1>3, <1>7
  <2>2. a <= b <=> A <= B
    BY <2>1, <1>2, <1>3, Sizes
  <2> QED BY <2>2, <1>7 DEF StaysInFront, A, B
<1> QED BY <1>4, <1>5, <1>6, <1>7

\* The receiver holds nothing that is a cycle ahead of it.
LEMMA Behind ==
    ASSUME NEW c \in Nat, NEW n \in Nat, NEW x \in 0 .. FreeWindows, Abs(n) <= Abs(c) + x
    PROVE  n - c < Modulus
<1>1. x \in Nat /\ x + 1 <= Windows
  BY Constants
<1>2. n - c < WindowSize * (x + 1)
  BY <1>1, Sizes, DivWithin DEF Abs
<1>3. Windows - (x + 1) \in Nat
  BY <1>1, Sizes
<1>4. WindowSize * (Windows - (x + 1)) >= 0
  BY <1>3, Sizes
<1>5. /\ WindowSize * (Windows - (x + 1)) = Modulus - WindowSize * (x + 1)
      /\ WindowSize * (x + 1) \in Int
  BY <1>1, Sizes DEF Modulus
<1> QED BY <1>2, <1>4, <1>5, Sizes

LEMMA HeldFacts ==
    ASSUME OutInv, RecvInv
    PROVE  /\ Count \in Nat /\ Count <= newest /\ newest \in Nat
           /\ Len(held) \in Nat /\ DOMAIN held = 1 .. Len(held) /\ held \in Seq(Nat)
           /\ Ascending(held)
           /\ \A i \in DOMAIN held :
                 /\ held[i] \in Nat /\ held[i] \in Packet
                 /\ Count + 1 < held[i] /\ held[i] <= newest /\ held[i] - Count < Modulus
                 /\ Abs(held[i]) <= Abs(Count) + FreeWindows - 2
<1>1. delivered \in Seq(Packet) /\ held \in Seq(Packet) /\ Count <= newest
  BY DEF RecvInv
<1>2. Packet \subseteq Nat
  BY Constants DEF Packet
<1>3. /\ Count \in Nat /\ Count <= newest /\ newest \in Nat
      /\ Len(held) \in Nat /\ DOMAIN held = 1 .. Len(held)
      /\ \A i \in DOMAIN held : held[i] \in Packet
  BY <1>1, ListFacts, OutFacts DEF Count
<1>4. held \in Seq(Nat)
  BY <1>1, <1>2, SeqMonotonic
<1>5. Ascending(held)
  BY DEF RecvInv, Ascending
<1>6. ASSUME NEW i \in DOMAIN held
      PROVE  /\ held[i] \in Nat /\ held[i] \in Packet
             /\ Count + 1 < held[i] /\ held[i] <= newest /\ held[i] - Count < Modulus
             /\ Abs(held[i]) <= Abs(Count) + FreeWindows - 2
  <2>1. /\ held[i] \in Nat /\ held[i] \in Packet
    BY <1>2, <1>3
  <2>2. /\ Count + 1 < held[i] /\ held[i] <= newest
        /\ Abs(held[i]) <= Abs(Count) + FreeWindows - 2
    BY DEF RecvInv
  <2> DEFINE x == FreeWindows - 2
  <2>3. x \in 0 .. FreeWindows /\ Abs(held[i]) <= Abs(Count) + x
    BY <2>2, <1>3, AbsFacts, Constants
  <2> HIDE DEF x
  <2>4. held[i] - Count < Modulus
    BY <2>1, <2>3, <1>3, Behind
  <2> QED BY <2>1, <2>2, <2>4
<1> QED BY <1>3, <1>4, <1>5, <1>6

\* The search stops behind everything that was sent before.
LEMMA PlaceFacts ==
    ASSUME OutInv, RecvInv, NEW n \in Nat, Count <= n, n - Count < Modulus
    PROVE  /\ Place(SeqNo(n)) \in 0 .. Len(held)
           /\ \A i \in DOMAIN held : i <= Place(SeqNo(n)) <=> held[i] <= n
<1> DEFINE I == {i \in DOMAIN held : held[i] <= n}
           c == Cardinality(I)
<1>1. \A i \in DOMAIN held : StaysInFront(SeqNo(held[i]), SeqNo(n)) <=> held[i] <= n
  <2> SUFFICES ASSUME NEW i \in DOMAIN held
               PROVE  StaysInFront(SeqNo(held[i]), SeqNo(n)) <=> held[i] <= n
    OBVIOUS
  <2>1. Count \in Nat /\ held[i] \in Nat /\ Count <= held[i] /\ held[i] - Count < Modulus
    BY HeldFacts
  <2>2. incoming = SeqNo(Count)
    BY DEF RecvInv
  <2> QED BY <2>1, <2>2, InFront
<1>2. {i \in DOMAIN held : StaysInFront(SeqNo(held[i]), SeqNo(n))} = I
  BY <1>1
<1>3. Len(held) \in Nat /\ DOMAIN held = 1 .. Len(held) /\ \A i \in DOMAIN held : held[i] \in Nat
  BY HeldFacts
<1>4. \A i \in I : 1 .. i \subseteq I
  <2> SUFFICES ASSUME NEW i \in I, NEW j \in 1 .. i PROVE j \in I
    OBVIOUS
  <2>1. i \in 1 .. Len(held) /\ j \in DOMAIN held /\ i \in DOMAIN held /\ held[i] <= n
    BY <1>3
  <2>2. j < i => held[j] < held[i]
    BY <2>1, HeldFacts DEF Ascending
  <2>3. j = i \/ j < i
    BY <2>1
  <2>4. held[j] <= n
    BY <2>1, <2>2, <2>3, <1>3
  <2> QED BY <2>1, <2>4
<1>5. c \in 0 .. Len(held) /\ I = 1 .. c
  <2>1. I \in SUBSET (1 .. Len(held))
    BY <1>3
  <2> HIDE DEF I
  <2> QED BY <2>1, <1>3, <1>4, Prefix
<1> HIDE DEF I, c
<1>6. Place(SeqNo(n)) = IF I = {} THEN 0 ELSE CHOOSE i \in I : \A j \in I : j <= i
  <2> DEFINE J == {i \in DOMAIN held : StaysInFront(SeqNo(held[i]), SeqNo(n))}
  <2>1. Place(SeqNo(n)) = IF J = {} THEN 0 ELSE CHOOSE i \in J : \A j \in J : j <= i
    BY DEF Place
  <2>2. J = I
    BY <1>2
  <2> HIDE DEF J
  <2> QED BY <2>1, <2>2, Zenon
<1>7. Place(SeqNo(n)) = c
  <2>1. CASE c = 0
    BY <2>1, <1>5, <1>6
  <2>2. CASE c # 0
    <3>1. c \in I /\ \A j \in I : j <= c
      BY <2>2, <1>5
    <3>2. \A i \in I : (\A j \in I : j <= i) => i = c
      BY <3>1, <1>5
    <3>3. (CHOOSE i \in I : \A j \in I : j <= i) = c
      BY <3>1, <3>2
    <3> QED BY <3>1, <3>3, <1>6
  <2> QED BY <2>1, <2>2
<1>8. \A i \in DOMAIN held : i <= c <=> i \in I
  BY <1>3, <1>5
<1> QED BY <1>5, <1>7, <1>8 DEF I

\* In order is what follows without a gap.
LEMMA InOrderFacts ==
    ASSUME NEW c \in Nat, incoming = SeqNo(c), NEW s \in Seq(Nat), Ascending(s),
           \A i \in DOMAIN s : s[i] > c /\ s[i] - c < Modulus
    PROVE  /\ InOrder(s) \in 0 .. Len(s)
           /\ \A i \in 1 .. InOrder(s) : s[i] = c + i
           /\ \A i \in InOrder(s) + 1 .. Len(s) : s[i] > c + InOrder(s) + 1
<1> DEFINE P == {i \in DOMAIN s : s[i] = c + i}
           k == Cardinality(P)
<1>1. /\ Len(s) \in Nat /\ DOMAIN s = 1 .. Len(s) /\ \A i \in 1 .. Len(s) : s[i] \in Nat
  BY ListFacts
<1>2. \A i, j \in DOMAIN s : i <= j => s[j] - s[i] >= j - i
  <2> SUFFICES ASSUME NEW i \in DOMAIN s, NEW j \in DOMAIN s, i <= j PROVE s[j] - s[i] >= j - i
    OBVIOUS
  <2>1. i \in 1 .. Len(s) /\ j \in i .. Len(s)
    BY <1>1
  <2> QED BY <2>1, AscendingGrows
<1>3. \A i \in DOMAIN s : s[i] >= c + i
  <2> SUFFICES ASSUME NEW i \in DOMAIN s PROVE s[i] >= c + i
    OBVIOUS
  <2>1. 1 \in DOMAIN s /\ 1 <= i /\ i \in Int /\ s[1] \in Int /\ s[i] \in Int
    BY <1>1
  <2>2. s[1] >= c + 1 /\ s[i] - s[1] >= i - 1
    BY <2>1, <1>2
  <2> QED BY <2>1, <2>2
<1>4. ASSUME NEW i \in DOMAIN s
      PROVE  SeqNo(s[i]) = (incoming + i) % Modulus <=> s[i] = c + i
  <2>1. i \in Nat /\ s[i] \in Nat /\ s[i] >= c + i /\ s[i] > c /\ s[i] - c < Modulus
    BY <1>1, <1>3
  <2>2. (incoming + i) % Modulus = SeqNo(c + i)
    BY <2>1, Sizes, ModPlus DEF SeqNo
  <2>3. c + i \in Nat /\ s[i] - (c + i) < Modulus /\ (c + i) - s[i] < Modulus
    BY <2>1, Sizes
  <2>4. SeqNo(s[i]) = SeqNo(c + i) => s[i] = c + i
    BY <2>1, <2>3, OneNumberEach
  <2> QED BY <2>2, <2>4
<1>5. \A i \in P : 1 .. i \subseteq P
  <2> SUFFICES ASSUME NEW i \in P, NEW j \in 1 .. i PROVE j \in P
    OBVIOUS
  <2>1. i \in 1 .. Len(s) /\ i \in DOMAIN s /\ s[i] = c + i
    BY <1>1
  <2>2. j \in DOMAIN s /\ j <= i /\ j \in Int /\ i \in Int /\ s[j] \in Int
    BY <2>1, <1>1
  <2>3. s[i] - s[j] >= i - j /\ s[j] >= c + j
    BY <2>1, <2>2, <1>2, <1>3
  <2>4. \A x, y, u, v \in Int : x = c + u /\ x - y >= u - v /\ y >= c + v => y = c + v
    OBVIOUS
  <2>5. s[i] \in Int
    BY <2>1, <1>1
  <2>6. s[j] = c + j
    BY <2>1, <2>2, <2>3, <2>4, <2>5
  <2> QED BY <2>2, <2>6
<1>6. k \in 0 .. Len(s) /\ P = 1 .. k
  <2>1. P \in SUBSET (1 .. Len(s))
    BY <1>1
  <2> HIDE DEF P
  <2> QED BY <2>1, <1>1, <1>5, Prefix
<1>7. \A i \in DOMAIN s : i \in P <=> SeqNo(s[i]) = (incoming + i) % Modulus
  BY <1>4
<1> DEFINE Fits(l) ==
      /\ \A i \in 1 .. l : SeqNo(s[i]) = (incoming + i) % Modulus
      /\ l < Len(s) => SeqNo(s[l + 1]) # (incoming + l + 1) % Modulus
<1>8. P \subseteq DOMAIN s /\ \A i \in P : s[i] = c + i
  OBVIOUS
<1>9. \A i \in DOMAIN s : i \notin P => s[i] # c + i
  OBVIOUS
<1> HIDE DEF P, k
<1>10. \A l \in 0 .. Len(s) : incoming + l + 1 = incoming + (l + 1)
  <2>1. incoming \in Int
    BY AbsFacts, Sizes
  <2> QED BY <2>1, <1>1
<1>11. Fits(k)
  <2>1. \A i \in 1 .. k : i \in P /\ i \in DOMAIN s
    BY <1>6, <1>8
  <2>2. k < Len(s) => k + 1 \in DOMAIN s /\ k + 1 \notin P
    BY <1>1, <1>6
  <2>3. \A i \in 1 .. k : SeqNo(s[i]) = (incoming + i) % Modulus
    BY <2>1, <1>7
  <2>4. k < Len(s) => SeqNo(s[k + 1]) # (incoming + (k + 1)) % Modulus
    BY <2>2, <1>7
  <2> QED BY <2>3, <2>4, <1>6, <1>10
<1>12. ASSUME NEW l \in 0 .. Len(s), Fits(l) PROVE l = k
  <2>1. ~ (l < k)
    <3> SUFFICES ASSUME l < k PROVE FALSE
      OBVIOUS
    <3>1. l < Len(s) /\ l + 1 \in P /\ l + 1 \in DOMAIN s
      BY <1>1, <1>6
    <3> QED BY <3>1, <1>7, <1>10, <1>12
  <2>2. ~ (k < l)
    <3> SUFFICES ASSUME k < l PROVE FALSE
      OBVIOUS
    <3>1. k + 1 \in 1 .. l /\ k + 1 \in DOMAIN s /\ k + 1 \notin P
      BY <1>1, <1>6
    <3> QED BY <3>1, <1>7, <1>12
  <2> QED BY <2>1, <2>2, <1>6, <1>1
<1>13. InOrder(s) = CHOOSE l \in 0 .. Len(s) : Fits(l)
  BY DEF InOrder
<1> HIDE DEF Fits
<1>14. InOrder(s) = k
  BY <1>6, <1>11, <1>12, <1>13
<1>15. \A i \in 1 .. k : s[i] = c + i
  BY <1>6, <1>8
<1>16. \A i \in k + 1 .. Len(s) : s[i] > c + k + 1
  <2> SUFFICES ASSUME NEW i \in k + 1 .. Len(s) PROVE s[i] > c + k + 1
    OBVIOUS
  <2>1. /\ k \in Nat /\ k + 1 \in DOMAIN s /\ i \in DOMAIN s /\ k + 1 <= i /\ k + 1 \notin P /\ i \in Int
        /\ s[k + 1] \in Int /\ s[i] \in Int
    BY <1>1, <1>6
  <2>2. s[k + 1] >= c + (k + 1) /\ s[k + 1] # c + (k + 1) /\ s[i] - s[k + 1] >= i - (k + 1)
    BY <2>1, <1>2, <1>3, <1>9
  <2>3. \A x, y, z, l \in Int : x >= c + l /\ x # c + l /\ y - x >= z - l /\ l <= z
                                => y > c + l
    OBVIOUS
  <2>4. k + 1 \in Int /\ c + (k + 1) = c + k + 1
    BY <2>1
  <2>5. s[i] > c + (k + 1)
    BY <2>1, <2>2, <2>3, <2>4
  <2> QED BY <2>4, <2>5
<1> QED BY <1>6, <1>14, <1>15, <1>16

LEMMA AbsNat ==
    ASSUME NEW n \in Nat
    PROVE  Abs(n) \in Nat
  BY AbsFacts

LEMMA Free == FreeWindows \in Nat /\ FreeWindows >= 3 /\ Windows - FreeWindows - 2 \in Nat
  BY Constants

\* A packet that is new to the receiver has its place in the list.
LEMMA InsertedFacts ==
    ASSUME OutInv, RecvInv, NEW n \in Packet, Count < n, n <= newest,
           Abs(n) <= Abs(Count) + FreeWindows - 2, n \notin ToSet(held)
    PROVE  LET l == InsertAt(held, Place(SeqNo(n)) + 1, n)
           IN  /\ l \in Seq(Packet) /\ l \in Seq(Nat) /\ Ascending(l)
               /\ ToSet(l) = ToSet(held) \cup {n}
               /\ \A i \in DOMAIN l :
                     /\ l[i] > Count /\ l[i] - Count < Modulus
                     /\ l[i] <= newest /\ Abs(l[i]) <= Abs(Count) + FreeWindows - 2
<1> DEFINE p == Place(SeqNo(n)) + 1
           l == InsertAt(held, p, n)
<1>1. /\ Count \in Nat /\ Len(held) \in Nat /\ DOMAIN held = 1 .. Len(held)
      /\ Ascending(held) /\ held \in Seq(Packet)
      /\ \A i \in DOMAIN held :
            /\ held[i] \in Nat /\ Count < held[i] /\ held[i] - Count < Modulus
            /\ held[i] <= newest /\ Abs(held[i]) <= Abs(Count) + FreeWindows - 2
  <2>1. held \in Seq(Packet)
    BY DEF RecvInv
  <2>2. \A i \in DOMAIN held : held[i] \in Nat /\ Count + 1 < held[i] => Count < held[i]
    BY HeldFacts
  <2> QED BY <2>1, <2>2, HeldFacts
<1>2. n \in Nat /\ Packet \subseteq Nat
  BY Constants DEF Packet
<1>3. n - Count < Modulus
  <2> DEFINE x == FreeWindows - 2
  <2>1. x \in 0 .. FreeWindows /\ Abs(n) <= Abs(Count) + x
    BY <1>1, <1>2, AbsFacts, Constants
  <2> HIDE DEF x
  <2> QED BY <2>1, <1>1, <1>2, Behind
<1>4. Len(held) \in Nat /\ DOMAIN held = 1 .. Len(held)
  BY <1>1
<1>5. p \in 1 .. Len(held) + 1 /\ p \in Int /\ \A i \in DOMAIN held : i < p <=> held[i] <= n
  <2>1. /\ Place(SeqNo(n)) \in 0 .. Len(held)
        /\ \A i \in DOMAIN held : i <= Place(SeqNo(n)) <=> held[i] <= n
    BY <1>1, <1>2, <1>3, PlaceFacts
  <2> QED BY <2>1, <1>4
<1> HIDE DEF p
<1>6. /\ l \in Seq(Packet) /\ Len(l) = Len(held) + 1
      /\ \A j \in 1 .. Len(held) + 1 :
            l[j] = IF j < p THEN held[j] ELSE IF j = p THEN n ELSE held[j - 1]
  BY <1>1, <1>5, InsertFacts
<1>7. DOMAIN l = 1 .. Len(held) + 1 /\ ToSet(l) = {l[i] : i \in 1 .. Len(held) + 1}
  BY <1>6, ListFacts
<1> HIDE DEF l
<1>8. \A i \in DOMAIN held : held[i] # n
  BY DEF ToSet
<1>9. ASSUME NEW j \in DOMAIN l
      PROVE  /\ j \in Int
             /\ j < p => j \in DOMAIN held /\ l[j] = held[j] /\ l[j] < n
             /\ j = p => l[j] = n
             /\ j > p => j - 1 \in DOMAIN held /\ l[j] = held[j - 1] /\ l[j] > n
  <2>1. j \in 1 .. Len(held) + 1
    BY <1>7
  <2>2. ASSUME j < p PROVE j \in DOMAIN held /\ l[j] = held[j] /\ l[j] < n
    <3>1. j \in DOMAIN held
      BY <2>1, <2>2, <1>4, <1>5
    <3>2. l[j] = held[j]
      BY <2>1, <2>2, <1>6
    <3>3. held[j] <= n /\ held[j] # n /\ held[j] \in Nat
      BY <3>1, <2>2, <1>1, <1>5, <1>8
    <3> QED BY <3>1, <3>2, <3>3, <1>2
  <2>3. ASSUME j > p PROVE j - 1 \in DOMAIN held /\ l[j] = held[j - 1] /\ l[j] > n
    <3>1. j - 1 \in DOMAIN held /\ ~ (j - 1 < p) /\ ~ (j < p) /\ j # p
      BY <2>1, <2>3, <1>4, <1>5
    <3>2. l[j] = held[j - 1]
      BY <2>1, <3>1, <1>6
    <3>3. ~ (held[j - 1] <= n) /\ held[j - 1] \in Nat
      BY <3>1, <1>1, <1>5
    <3> QED BY <3>1, <3>2, <3>3, <1>2
  <2>4. j = p => l[j] = n
    BY <2>1, <1>6
  <2> QED BY <2>1, <2>2, <2>3, <2>4
<1>10. \A j \in DOMAIN l : l[j] = n \/ \E i \in DOMAIN held : l[j] = held[i]
  <2> SUFFICES ASSUME NEW j \in DOMAIN l PROVE l[j] = n \/ \E i \in DOMAIN held : l[j] = held[i]
    OBVIOUS
  <2>1. j < p \/ j = p \/ j > p
    BY <1>9, <1>5
  <2> QED BY <2>1, <1>9
<1>11. Ascending(l)
  <2> SUFFICES ASSUME NEW i \in DOMAIN l, NEW j \in DOMAIN l, i < j PROVE l[i] < l[j]
    BY DEF Ascending
  <2>1. i \in Int /\ j \in Int /\ p \in Int /\ l[i] \in Int /\ l[j] \in Int
    <3>1. l[i] \in Int /\ l[j] \in Int
      BY <1>1, <1>2, <1>10
    <3> QED BY <3>1, <1>9, <1>5
  <2>2. CASE i < p /\ j < p
    BY <2>2, <1>1, <1>9 DEF Ascending
  <2>3. CASE i < p /\ ~ (j < p)
    <3>1. l[i] < n
      BY <2>3, <1>9
    <3>2. l[j] = n \/ l[j] > n
      BY <2>1, <2>3, <1>9
    <3> QED BY <3>1, <3>2, <2>1, <1>2
  <2>4. CASE i = p
    BY <2>4, <2>1, <1>9
  <2>5. CASE i > p
    <3>1. /\ i - 1 \in DOMAIN held /\ l[i] = held[i - 1]
          /\ j - 1 \in DOMAIN held /\ l[j] = held[j - 1] /\ i - 1 < j - 1
      BY <2>1, <2>5, <1>9
    <3> QED BY <3>1, <1>1 DEF Ascending
  <2> QED BY <2>1, <2>2, <2>3, <2>4, <2>5
<1>12. ToSet(l) = ToSet(held) \cup {n}
  <2>1. ToSet(l) = {l[i] : i \in DOMAIN l} /\ ToSet(held) = {held[i] : i \in DOMAIN held}
    BY DEF ToSet
  <2>2. n \in ToSet(l)
    <3>1. p \in DOMAIN l
      BY <1>5, <1>7
    <3> QED BY <3>1, <2>1, <1>9
  <2>3. \A i \in DOMAIN held : held[i] \in ToSet(l)
    <3> SUFFICES ASSUME NEW i \in DOMAIN held PROVE held[i] \in ToSet(l)
      OBVIOUS
    <3>1. i \in 1 .. Len(held) /\ p \in Int
      BY <1>4, <1>5
    <3>2. CASE i < p
      <4>1. i \in DOMAIN l /\ i < p
        BY <3>1, <3>2, <1>4, <1>7
      <4> QED BY <4>1, <1>9, <2>1
    <3>3. CASE ~ (i < p)
      <4>1. i + 1 \in DOMAIN l /\ i + 1 > p /\ (i + 1) - 1 = i
        BY <3>1, <3>3, <1>4, <1>7
      <4> QED BY <4>1, <1>9, <2>1
    <3> QED BY <3>2, <3>3
  <2> QED BY <1>10, <2>1, <2>2, <2>3
<1>13. \A i \in DOMAIN l :
          /\ l[i] > Count /\ l[i] - Count < Modulus
          /\ l[i] <= newest /\ Abs(l[i]) <= Abs(Count) + FreeWindows - 2
  BY <1>1, <1>2, <1>3, <1>10
<1>14. l \in Seq(Nat)
  BY <1>2, <1>6, SeqMonotonic
<1> QED BY <1>6, <1>11, <1>12, <1>13, <1>14 DEF l, p

\* What is stored reaches the application as soon as it is in order.
LEMMA StoreFacts ==
    ASSUME OutInv, RecvInv, NEW n \in Packet, Count < n, n <= newest,
           Abs(n) <= Abs(Count) + FreeWindows - 2, n \notin ToSet(held),
           Store(n), newest' = newest, leaving' = leaving
    PROVE  /\ RecvInv' /\ Got \cup {n} \subseteq Got'
           /\ Count' \in Nat /\ Count <= Count'
<1> DEFINE l == InsertAt(held, Place(SeqNo(n)) + 1, n)
           k == InOrder(l)
           a == SubSeq(l, 1, k)
           b == SubSeq(l, k + 1, Len(l))
           c == Count
<1>1. /\ incoming' = (incoming + k) % Modulus
      /\ delivered' = delivered \o a /\ held' = b
  BY DEF Store
<1>2. /\ l \in Seq(Packet) /\ l \in Seq(Nat) /\ Ascending(l)
      /\ ToSet(l) = ToSet(held) \cup {n}
      /\ \A i \in DOMAIN l :
            /\ l[i] > c /\ l[i] - c < Modulus
            /\ l[i] <= newest /\ Abs(l[i]) <= Abs(c) + FreeWindows - 2
  BY InsertedFacts
<1>3. /\ c \in Nat /\ newest \in Nat /\ c <= newest
      /\ incoming = SeqNo(c) /\ delivered \in Seq(Packet) /\ leaving \in BOOLEAN
      /\ \A i \in 1 .. c : delivered[i] = i
  BY HeldFacts DEF RecvInv
<1> HIDE DEF l, c
<1>4. /\ Len(l) \in Nat /\ DOMAIN l = 1 .. Len(l)
      /\ ToSet(l) = {l[i] : i \in 1 .. Len(l)}
  BY <1>2, ListFacts
<1>5. /\ k \in 0 .. Len(l) /\ \A i \in 1 .. k : l[i] = c + i
      /\ \A i \in k + 1 .. Len(l) : l[i] > c + k + 1
  BY <1>2, <1>3, InOrderFacts
<1> HIDE DEF k
<1>6. /\ a \in Seq(Packet) /\ Len(a) = k /\ \A i \in 1 .. k : a[i] = c + i
  <2>1. 1 \in 1 .. Len(l) + 1 /\ k \in 0 .. Len(l) /\ 1 <= k + 1 /\ k \in Int
    BY <1>4, <1>5
  <2>2. /\ a \in Seq(Packet) /\ Len(a) = k - 1 + 1
        /\ \A i \in 1 .. k - 1 + 1 : a[i] = l[1 + i - 1]
    BY <2>1, <1>2, PartFacts
  <2> HIDE DEF a
  <2>3. k - 1 + 1 = k /\ \A i \in 1 .. k : 1 + i - 1 = i
    BY <2>1
  <2> QED BY <2>2, <2>3, <1>5
<1>7. /\ b \in Seq(Packet) /\ Len(b) = Len(l) - k
      /\ \A i \in 1 .. Len(l) - k : b[i] = l[k + i]
  <2>1. k + 1 \in 1 .. Len(l) + 1 /\ Len(l) \in 0 .. Len(l) /\ k + 1 <= Len(l) + 1 /\ k \in Int
    BY <1>4, <1>5
  <2>2. /\ b \in Seq(Packet) /\ Len(b) = Len(l) - (k + 1) + 1
        /\ \A i \in 1 .. Len(l) - (k + 1) + 1 : b[i] = l[(k + 1) + i - 1]
    <3> DEFINE m == k + 1
    <3>1. m \in 1 .. Len(l) + 1 /\ Len(l) \in 0 .. Len(l) /\ m <= Len(l) + 1
      BY <2>1
    <3> HIDE DEF m
    <3>2. /\ SubSeq(l, m, Len(l)) \in Seq(Packet) /\ Len(SubSeq(l, m, Len(l))) = Len(l) - m + 1
          /\ \A i \in 1 .. Len(l) - m + 1 : SubSeq(l, m, Len(l))[i] = l[m + i - 1]
      BY <3>1, <1>2, PartFacts
    <3> QED BY <3>2 DEF m
  <2> HIDE DEF b
  <2>3. Len(l) - (k + 1) + 1 = Len(l) - k /\ \A i \in 1 .. Len(l) - k : (k + 1) + i - 1 = k + i
    BY <2>1, <1>4
  <2> QED BY <2>2, <2>3
<1> HIDE DEF a, b
<1>8. /\ delivered' \in Seq(Packet) /\ Count' = c + k
      /\ \A i \in 1 .. c + k : delivered'[i] = i
  <2>1. Len(delivered) = c
    BY DEF c, Count
  <2>2. /\ delivered' \in Seq(Packet) /\ Len(delivered') = c + k
        /\ \A i \in 1 .. c + k : delivered'[i] = IF i <= c THEN delivered[i] ELSE a[i - c]
    <3>1. delivered' = delivered \o a /\ delivered \in Seq(Packet) /\ a \in Seq(Packet)
      BY <1>1, <1>3, <1>6
    <3>2. /\ delivered \o a \in Seq(Packet) /\ Len(delivered \o a) = Len(delivered) + Len(a)
          /\ \A i \in 1 .. Len(delivered) + Len(a) :
                (delivered \o a)[i] = IF i <= Len(delivered) THEN delivered[i]
                                                            ELSE a[i - Len(delivered)]
      BY <3>1, ConcatProperties
    <3> QED BY <3>1, <3>2, <2>1, <1>6
  <2>3. Count' = c + k
    BY <2>2 DEF Count
  <2>4. \A i \in 1 .. c + k : delivered'[i] = i
    <3> SUFFICES ASSUME NEW i \in 1 .. c + k PROVE delivered'[i] = i
      OBVIOUS
    <3>1. CASE i <= c
      BY <3>1, <2>2, <1>3
    <3>2. CASE ~ (i <= c)
      <4>1. i - c \in 1 .. k /\ c + (i - c) = i
        BY <3>2, <1>3, <1>5
      <4> QED BY <3>2, <4>1, <2>2, <1>6
    <3> QED BY <3>1, <3>2
  <2> QED BY <2>2, <2>3, <2>4
<1>9. c + k \in Nat /\ c + k <= newest /\ k \in Nat
  <2>1. CASE k = 0
    BY <2>1, <1>3
  <2>2. CASE k # 0
    <3>1. k \in 1 .. k /\ k \in DOMAIN l
      BY <2>2, <1>4, <1>5
    <3>2. l[k] = c + k /\ l[k] <= newest
      BY <3>1, <1>2, <1>5
    <3> QED BY <3>2, <1>3, <1>4, <1>5
  <2> QED BY <2>1, <2>2
<1>10. incoming' = SeqNo(c + k)
  BY <1>1, <1>3, <1>9, Sizes, ModPlus DEF SeqNo
<1>11. ASSUME NEW i \in DOMAIN b
       PROVE  /\ k + i \in k + 1 .. Len(l) /\ k + i \in DOMAIN l /\ b[i] = l[k + i] /\ i \in Int
              /\ b[i] > c + k + 1 /\ b[i] <= newest /\ Abs(b[i]) <= Abs(c + k) + FreeWindows - 2
  <2>1. i \in 1 .. Len(l) - k
    BY <1>7, ListFacts
  <2>2. k + i \in k + 1 .. Len(l) /\ k + i \in DOMAIN l /\ i \in Int
    BY <2>1, <1>4, <1>9
  <2>3. b[i] = l[k + i] /\ b[i] > c + k + 1 /\ b[i] <= newest /\ Abs(b[i]) <= Abs(c) + FreeWindows - 2
    BY <2>1, <2>2, <1>2, <1>5, <1>7
  <2>4. Abs(b[i]) \in Int
    <3>1. l[k + i] \in Nat
      BY <2>2, <1>2, <1>4, ListFacts
    <3> QED BY <3>1, <2>3, AbsNat
  <2>5. Abs(c) <= Abs(c + k)
    <3>1. c <= c + k
      BY <1>3, <1>9
    <3> QED BY <3>1, <1>3, <1>9, AbsMonotone
  <2>6. Abs(c) \in Int /\ Abs(c + k) \in Int /\ FreeWindows \in Int
    BY <1>3, <1>9, AbsNat, Free
  <2>7. Abs(b[i]) <= Abs(c + k) + FreeWindows - 2
    BY <2>3, <2>4, <2>5, <2>6
  <2> QED BY <2>2, <2>3, <2>7
<1>12. ASSUME NEW i \in DOMAIN b, NEW j \in DOMAIN b, i < j PROVE b[i] < b[j]
  <2>1. k + i < k + j
    BY <1>9, <1>11, <1>12
  <2> QED BY <2>1, <1>2, <1>11 DEF Ascending
<1>13. RecvInv'
  <2>1. Abs(Count)' = Abs(c + k)
    BY <1>8 DEF Abs
  <2>2. \A i \in DOMAIN held' :
           /\ Count' + 1 < held'[i] /\ held'[i] <= newest'
           /\ Abs(held'[i]) <= Abs(Count') + FreeWindows - 2
    BY <1>1, <1>8, <1>9, <1>11
  <2>3. held' \in Seq(Packet) /\ \A i, j \in DOMAIN held' : i < j => held'[i] < held'[j]
    BY <1>1, <1>7, <1>12
  <2> QED BY <1>3, <1>8, <1>9, <1>10, <2>2, <2>3 DEF RecvInv, Abs, SeqNo, Modulus
<1>14. \A x \in 1 .. c : x \in Got'
  <2>1. \A x \in 1 .. c : x \in 1 .. c + k
    BY <1>3, <1>9
  <2> QED BY <2>1, <1>8 DEF Got
<1>15. \A x \in ToSet(l) : x \in Got'
  <2> SUFFICES ASSUME NEW i \in 1 .. Len(l) PROVE l[i] \in Got'
    BY <1>4
  <2>1. CASE i <= k
    <3>1. l[i] = c + i /\ c + i \in 1 .. c + k
      BY <2>1, <1>3, <1>5, <1>9
    <3> QED BY <3>1, <1>8 DEF Got
  <2>2. CASE ~ (i <= k)
    <3>1. i - k \in 1 .. Len(l) - k /\ k + (i - k) = i
      BY <2>2, <1>4, <1>9
    <3>2. i - k \in DOMAIN b /\ b[i - k] = l[i]
      BY <3>1, <1>7, ListFacts
    <3> QED BY <3>2, <1>1 DEF Got, ToSet
  <2> QED BY <2>1, <2>2
<1>16. Got \cup {n} \subseteq Got'
  BY <1>2, <1>14, <1>15 DEF Got, c
<1> QED BY <1>3, <1>8, <1>9, <1>13, <1>16 DEF c

-----------------------------------------------------------------------------
(* What the receiver does with a packet.                                   *)

\* How far ahead it takes a packet to be that the network may deliver.
LEMMA AheadFacts ==
    ASSUME OutInv, NetInv, RecvInv, Abs(newest) <= Abs(Count) + FreeWindows - 1, NEW n \in data
    PROVE  /\ n \in Packet /\ n \in Nat /\ n <= newest /\ newest \in Nat /\ Count \in Nat
           /\ n < Count => WindowsAhead(SeqNo(n), SeqNo(Count)) >= FreeWindows - 1
           /\ n >= Count =>
                 /\ n - Count < Modulus
                 /\ WindowsAhead(SeqNo(n), SeqNo(Count)) = Abs(n) - Abs(Count)
                 /\ Abs(n) - Abs(Count) \in 0 .. FreeWindows - 1
<1>1. /\ n \in Nat /\ n <= newest /\ n > newest - Lifetime /\ n \in Packet
      /\ newest \in Nat /\ Count \in Nat /\ Count <= newest
  <2>1. n \in 1 .. newest /\ n > newest - Lifetime
    BY DEF NetInv
  <2>2. newest \in Nat /\ newest <= queued /\ queued <= MaxPackets /\ queued \in Nat
    BY OutFacts
  <2> QED BY <2>1, <2>2, HeldFacts, Constants DEF Packet
<1>2. Abs(n) \in Nat /\ Abs(Count) \in Nat /\ Abs(newest) \in Nat
  BY <1>1, AbsNat
<1>3. ASSUME n < Count PROVE WindowsAhead(SeqNo(n), SeqNo(Count)) >= FreeWindows - 1
  <2> DEFINE x == Windows - FreeWindows + 1
  <2>1. x \in Nat /\ Windows \in Nat
    BY Free, Sizes
  <2>2. Count - n < x * WindowSize /\ Count - n < Modulus
    <3>1. Lifetime \in Nat /\ Lifetime <= x * WindowSize /\ Lifetime < Modulus /\ Modulus \in Nat
      BY Constants
    <3>2. x * WindowSize \in Nat
      BY <2>1, Sizes
    <3>3. Count - n < Lifetime
      BY <1>1, <3>1
    <3> HIDE DEF x
    <3> QED BY <1>1, <3>1, <3>2, <3>3
  <2> HIDE DEF x
  <2>3. Abs(Count) <= Abs(n) + x
    BY <1>1, <2>1, <2>2, Sizes, DivApart DEF Abs
  <2>4. WindowsAhead(SeqNo(n), SeqNo(Count)) = Abs(n) - Abs(Count) + Windows
    BY <1>1, <1>3, <2>2, AheadOfOld
  <2>5. Windows - x = FreeWindows - 1
    BY Free, Sizes DEF x
  <2> QED BY <1>2, <2>1, <2>3, <2>4, <2>5, Free
<1>4. ASSUME n >= Count
      PROVE  /\ n - Count < Modulus
             /\ WindowsAhead(SeqNo(n), SeqNo(Count)) = Abs(n) - Abs(Count)
             /\ Abs(n) - Abs(Count) \in 0 .. FreeWindows - 1
  <2> DEFINE x == FreeWindows - 1
  <2>1. x \in 0 .. FreeWindows /\ Abs(newest) <= Abs(Count) + x
    BY <1>2, Free
  <2>2. Abs(n) <= Abs(newest) /\ Abs(Count) <= Abs(n)
    BY <1>1, <1>4, AbsMonotone
  <2> HIDE DEF x
  <2>3. Abs(n) <= Abs(Count) + x
    BY <2>1, <2>2, <1>2
  <2>4. n - Count < Modulus
    BY <1>1, <2>1, <2>3, Behind
  <2>5. WindowsAhead(SeqNo(n), SeqNo(Count)) = Abs(n) - Abs(Count)
    BY <1>1, <1>4, <2>4, AheadOfNew
  <2>6. Abs(n) - Abs(Count) \in 0 .. x
    BY <1>2, <2>1, <2>2, <2>3
  <2> QED BY <2>4, <2>5, <2>6 DEF x
<1> QED BY <1>1, <1>3, <1>4

\* A number that the search finds is that of the packet itself.
LEMMA Found ==
    ASSUME OutInv, RecvInv, NEW n \in Nat, Count <= n, n - Count < Modulus
    PROVE  n \in ToSet(held) <=>
              Place(SeqNo(n)) > 0 /\ SeqNo(held[Place(SeqNo(n))]) = SeqNo(n)
<1> DEFINE p == Place(SeqNo(n))
<1>1. /\ Count \in Nat /\ Len(held) \in Nat /\ DOMAIN held = 1 .. Len(held) /\ Ascending(held)
      /\ \A i \in DOMAIN held : held[i] \in Nat /\ Count < held[i] /\ held[i] - Count < Modulus
  <2>1. \A i \in DOMAIN held : held[i] \in Nat /\ Count \in Nat
                                 => (Count + 1 < held[i] => Count < held[i])
    OBVIOUS
  <2> QED BY <2>1, HeldFacts
<1>2. p \in 0 .. Len(held) /\ \A i \in DOMAIN held : i <= p <=> held[i] <= n
  BY PlaceFacts
<1> HIDE DEF p
<1>3. ToSet(held) = {held[i] : i \in DOMAIN held}
  BY DEF ToSet
<1>4. ASSUME NEW i \in DOMAIN held, held[i] = n PROVE p = i
  <2>1. i \in Int /\ p \in Int /\ i <= p /\ i > 0
    BY <1>1, <1>2, <1>4
  <2>2. p \in DOMAIN held /\ held[p] <= n /\ held[p] \in Int
    BY <2>1, <1>1, <1>2
  <2>3. ~ (i < p)
    <3> SUFFICES ASSUME i < p PROVE FALSE
      OBVIOUS
    <3>1. held[i] < held[p]
      BY <2>2, <1>1 DEF Ascending
    <3> QED BY <3>1, <2>2, <1>4
  <2> QED BY <2>1, <2>3
<1>5. ASSUME p > 0, SeqNo(held[p]) = SeqNo(n) PROVE n \in ToSet(held)
  <2>1. p \in DOMAIN held
    BY <1>1, <1>2, <1>5
  <2>2. /\ held[p] \in Nat /\ Count < held[p] /\ held[p] - Count < Modulus
    BY <2>1, <1>1
  <2>3. n - held[p] < Modulus /\ held[p] - n < Modulus
    <3>1. \A x \in Nat : Count < x /\ x - Count < Modulus => n - x < Modulus /\ x - n < Modulus
      BY <1>1, Sizes
    <3> QED BY <3>1, <2>2
  <2>4. held[p] = n
    BY <2>2, <2>3, <1>5, OneNumberEach
  <2> QED BY <2>1, <2>4, <1>3
<1>6. ASSUME n \in ToSet(held) PROVE p > 0 /\ SeqNo(held[p]) = SeqNo(n)
  <2>1. PICK i \in DOMAIN held : held[i] = n
    BY <1>3, <1>6
  <2>2. p = i /\ i > 0
    BY <2>1, <1>1, <1>4
  <2> QED BY <2>1, <2>2
<1> QED BY <1>5, <1>6 DEF p

\* It takes only what it has not got and may keep.
LEMMA WantedFacts ==
    ASSUME Inv, NEW n \in data, Wanted(SeqNo(n))
    PROVE  /\ n \in Packet /\ Count < n /\ n <= newest
           /\ Abs(n) <= Abs(Count) + FreeWindows - 2 /\ n \notin ToSet(held)
<1>1. OutInv /\ NetInv /\ RecvInv /\ ~ leaving /\ Abs(newest) <= Abs(Count) + FreeWindows - 1
  BY DEF Inv, AckInv, Wanted
<1> DEFINE a == WindowsAhead(SeqNo(n), SeqNo(Count))
<1>2. /\ n \in Packet /\ n \in Nat /\ n <= newest /\ newest \in Nat /\ Count \in Nat
      /\ n < Count => a >= FreeWindows - 1
      /\ n >= Count => /\ n - Count < Modulus
                       /\ a = Abs(n) - Abs(Count) /\ Abs(n) - Abs(Count) \in 0 .. FreeWindows - 1
  BY <1>1, AheadFacts
<1>3. /\ a \in 0 .. FreeWindows - 2 /\ SeqNo(n) # SeqNo(Count)
      /\ ~ (Place(SeqNo(n)) > 0 /\ SeqNo(held[Place(SeqNo(n))]) = SeqNo(n))
  BY DEF Inv, RecvInv, Wanted, InWindow
<1> HIDE DEF a
<1>4. Count < n
  <2>1. ~ (n < Count)
    BY <1>2, <1>3, Free
  <2>2. n # Count
    BY <1>3
  <2> QED BY <2>1, <2>2, <1>2
<1>5. n - Count < Modulus /\ Abs(n) - Abs(Count) <= FreeWindows - 2
  BY <1>2, <1>3, <1>4
<1>6. n \notin ToSet(held)
  BY <1>1, <1>2, <1>3, <1>4, <1>5, Found
<1>7. Abs(n) <= Abs(Count) + FreeWindows - 2
  <2>1. Abs(n) \in Int /\ Abs(Count) \in Int
    BY <1>2, AbsNat
  <2> QED BY <2>1, <1>5, Free
<1> QED BY <1>2, <1>4, <1>6, <1>7

\* What it does not take and acknowledges, it has.
LEMMA RefusedFacts ==
    ASSUME Inv, ~ leaving, NEW n \in data, ~ Wanted(SeqNo(n)),
           WindowsAhead(SeqNo(n), incoming) \notin {FreeWindows - 1, FreeWindows}
    PROVE  n \in Got
<1>1. OutInv /\ NetInv /\ RecvInv /\ Abs(newest) <= Abs(Count) + FreeWindows - 1
  BY DEF Inv, AckInv
<1> DEFINE a == WindowsAhead(SeqNo(n), SeqNo(Count))
<1>2. /\ n \in Packet /\ n \in Nat /\ n <= newest /\ newest \in Nat /\ Count \in Nat
      /\ n >= Count => /\ n - Count < Modulus
                       /\ a = Abs(n) - Abs(Count) /\ Abs(n) - Abs(Count) \in 0 .. FreeWindows - 1
  BY <1>1, AheadFacts
<1>3. incoming = SeqNo(Count)
  BY <1>1 DEF RecvInv
<1>4. a # FreeWindows - 1
  BY <1>3
<1>5. CASE n <= Count
  <2>1. n \in 1 .. Count
    BY <1>2, <1>5 DEF Packet
  <2> QED BY <2>1 DEF Got
<1>6. CASE n > Count
  <2>1. n >= Count /\ Count <= n
    BY <1>2, <1>6
  <2>2. /\ n - Count < Modulus /\ a \in 0 .. FreeWindows - 1
    BY <2>1, <1>2
  <2>3. a \in 0 .. FreeWindows - 2
    BY <2>2, <1>4, Free
  <2>4. InWindow(SeqNo(n))
    BY <2>3, <1>3 DEF InWindow
  <2>5. SeqNo(n) # incoming
    <3>1. Count - n < Modulus /\ n # Count
      BY <1>2, <1>6, Sizes
    <3> QED BY <3>1, <2>2, <1>2, <1>3, OneNumberEach
  <2>6. Place(SeqNo(n)) > 0 /\ SeqNo(held[Place(SeqNo(n))]) = SeqNo(n)
    BY <2>4, <2>5 DEF Wanted
  <2>7. n \in ToSet(held)
    BY <2>1, <2>2, <2>6, <1>1, <1>2, Found
  <2> QED BY <2>7 DEF Got
<1> QED BY <1>2, <1>5, <1>6

-----------------------------------------------------------------------------
(* Every step keeps the invariant.                                         *)

LEMMA InitInv ==
    ASSUME Init
    PROVE  Inv
<1>1. /\ queued = 0 /\ outgoing = << >> /\ unacked = << >> /\ attempted = {}
      /\ windows = [w \in WindowIndex |-> 0] /\ used = {}
      /\ newest = 0 /\ data = {} /\ acks = {} /\ losses = 0
      /\ incoming = 0 /\ held = << >> /\ delivered = << >> /\ leaving = FALSE
  BY DEF Init
<1>2. << >> \in Seq(Packet) /\ Len(<< >>) = 0 /\ DOMAIN << >> = {} /\ ToSet(<< >>) = {}
  BY DEF ToSet
<1>3. OutInv
  <2>1. newest + 1 .. queued = {}
    BY <1>1
  <2>2. Distinct(outgoing) /\ Distinct(unacked) /\ ToSet(unacked) = {} /\ ToSet(outgoing) = {}
    BY <1>1, <1>2 DEF Distinct
  <2>3. queued \in 0 .. MaxPackets /\ newest \in 0 .. queued
    BY <1>1, Constants
  <2>4. \A i, j \in DOMAIN outgoing :
           i < j /\ outgoing[i] \notin attempted => outgoing[i] < outgoing[j]
    BY <1>1, <1>2
  <2> QED BY <1>1, <1>2, <2>1, <2>2, <2>3, <2>4 DEF OutInv
<1>4. CountInv
  <2>1. \A w : Within(attempted, w) = {}
    BY <1>1 DEF Within
  <2> QED BY <1>1, <2>1, FS_EmptySet DEF CountInv
<1>5. SpanInv /\ NetInv
  BY <1>1, Constants DEF SpanInv, NetInv
<1>6. Count = 0 /\ SeqNo(0) = 0 /\ Abs(0) \in Nat
  <2>1. 0 % Modulus = 0
    <3>1. 0 \in Nat /\ 0 = Modulus * 0 + 0 /\ 0 \in 0 .. Modulus - 1
      BY Sizes
    <3> QED BY <3>1, Sizes, Divided
  <2> QED BY <1>1, <1>2, <2>1, AbsNat DEF Count, SeqNo
<1>7. RecvInv
  <2>1. /\ delivered \in Seq(Packet) /\ \A i \in 1 .. Count : delivered[i] = i
        /\ Count <= newest /\ incoming = SeqNo(Count) /\ leaving \in BOOLEAN
    <3>1. delivered \in Seq(Packet)
      BY <1>1, <1>2
    <3>2. \A i \in 1 .. Count : FALSE
      BY <1>6
    <3>3. Count <= newest
      BY <1>1, <1>6
    <3>4. incoming = SeqNo(Count)
      BY <1>1, <1>6, Zenon
    <3>5. leaving \in BOOLEAN
      BY <1>1, Zenon
    <3> QED BY <3>1, <3>2, <3>3, <3>4, <3>5
  <2>2. held \in Seq(Packet) /\ DOMAIN held = {}
    BY <1>1, <1>2
  <2> QED BY <2>1, <2>2 DEF RecvInv
<1>8. AckInv
  <2>1. Abs(newest) <= Abs(Count) + FreeWindows - 1
    BY <1>1, <1>6, Free
  <2>2. 1 .. newest = {}
    BY <1>1
  <2> QED BY <1>1, <2>1, <2>2 DEF AckInv
<1> QED BY <1>3, <1>4, <1>5, <1>7, <1>8 DEF Inv

LEMMA SendInv ==
    ASSUME Inv, Send
    PROVE  Inv'
<1>1. UNCHANGED <<attempted, windows, used, newest, data, acks, losses, receiver>>
  BY DEF Send
<1>2. OutInv'
  BY SendOut DEF Inv
<1>3. CountInv'
  BY <1>1 DEF Inv, CountInv, Within
<1>4. SpanInv' /\ NetInv'
  BY <1>1 DEF Inv, SpanInv, NetInv, Abs
<1>5. RecvInv'
  BY <1>1 DEF Inv, RecvInv, receiver, Count, Abs, SeqNo
<1>6. AckInv'
  BY <1>1 DEF Inv, AckInv, receiver, Count, Got, Abs
<1> QED BY <1>2, <1>3, <1>4, <1>5, <1>6 DEF Inv

LEMMA TimeOutInv ==
    ASSUME Inv, NEW S \in SUBSET ToSet(unacked), TimeOut(S)
    PROVE  Inv'
<1>1. UNCHANGED <<attempted, windows, used, newest, data, acks, losses, receiver>>
  BY DEF TimeOut
<1>2. OutInv'
  BY TimeOutOut DEF Inv
<1>3. CountInv'
  BY <1>1 DEF Inv, CountInv, Within
<1>4. SpanInv' /\ NetInv'
  BY <1>1 DEF Inv, SpanInv, NetInv, Abs
<1>5. RecvInv'
  BY <1>1 DEF Inv, RecvInv, receiver, Count, Abs, SeqNo
<1>6. AckInv'
  BY <1>1 DEF Inv, AckInv, receiver, Count, Got, Abs
<1> QED BY <1>2, <1>3, <1>4, <1>5, <1>6 DEF Inv

\* The packet that is sent first is not too far ahead of the receiver.
LEMMA NewAhead ==
    ASSUME Inv, TransmitNew, ~ leaving
    PROVE  Abs(newest + 1) <= Abs(Count) + FreeWindows - 1
<1>1. OutInv /\ CountInv /\ RecvInv
  BY DEF Inv
<1>2. /\ newest \in Nat /\ Count \in Nat /\ Abs(newest) \in Nat /\ Abs(Count) \in Nat
  BY <1>1, HeldFacts, AbsNat
<1>3. Abs(newest + 1) = IF SeqNo(newest + 1) % WindowSize = 0 THEN Abs(newest) + 1 ELSE Abs(newest)
  BY <1>2, NextWindow
<1>4. CASE SeqNo(newest + 1) % WindowSize # 0
  BY <1>3, <1>4 DEF Inv, AckInv
<1>5. CASE SeqNo(newest + 1) % WindowSize = 0 /\ Abs(newest) = 0
  BY <1>2, <1>3, <1>5, Free
<1>6. CASE SeqNo(newest + 1) % WindowSize = 0 /\ Abs(newest) > 0
  <2>1. PICK m \in 1 .. newest : Abs(m) = Abs(newest) /\ m \notin attempted
    BY <1>1, <1>6, NotFull
  <2>2. m \in Got
    BY <2>1 DEF Inv, AckInv
  <2>3. CASE m \in 1 .. Count
    <3>1. Abs(m) <= Abs(Count)
      BY <2>3, <1>2, AbsMonotone
    <3> QED BY <3>1, <2>1, <1>2, <1>3, <1>6, Free
  <2>4. CASE m \in ToSet(held)
    <3>1. Abs(m) <= Abs(Count) + FreeWindows - 2
      BY <2>4, <1>1, HeldFacts DEF ToSet
    <3> QED BY <3>1, <2>1, <1>2, <1>3, <1>6, Free
  <2> QED BY <2>2, <2>3, <2>4 DEF Got
<1> QED BY <1>2, <1>4, <1>5, <1>6

LEMMA TransmitInv ==
    ASSUME Inv, Transmit
    PROVE  Inv'
<1>1. OutInv /\ CountInv /\ SpanInv /\ NetInv /\ RecvInv /\ AckInv
  BY DEF Inv
<1>2. /\ TransmitOld \/ TransmitNew
      /\ Head(outgoing) \in 1 .. newest'
      /\ data' = Alive(data \cup {Head(outgoing)}, newest')
      /\ acks' = Alive(acks, newest')
      /\ UNCHANGED <<queued, losses, receiver>>
  BY <1>1, TransmitCases
<1>3. newest \in Nat /\ newest' \in Nat /\ newest <= newest'
  <2>1. newest \in Nat
    BY <1>1, OutFacts
  <2> QED BY <2>1, <1>2 DEF TransmitOld, TransmitNew
<1>4. OutInv'
  BY <1>1, TransmitOut
<1>5. CountInv' /\ SpanInv'
  <2>1. CASE TransmitOld
    BY <2>1, <1>1 DEF TransmitOld, CountInv, SpanInv, Within, Abs
  <2>2. CASE TransmitNew
    BY <2>2, <1>1, NewCount, NewSpan
  <2> QED BY <2>1, <2>2, <1>2
<1>6. NetInv'
  <2>1. losses' \in 0 .. MaxLosses
    BY <1>1, <1>2 DEF NetInv
  <2>2. \A n \in data' \cup acks' :
           (n = Head(outgoing) \/ n \in data \/ n \in acks) /\ n > newest' - Lifetime
    BY <1>2 DEF Alive
  <2>3. \A n \in data \cup acks : n \in 1 .. newest
    BY <1>1 DEF NetInv
  <2>4. \A n \in 1 .. newest : n \in 1 .. newest'
    BY <1>3
  <2> QED BY <2>1, <2>2, <2>3, <2>4, <1>2 DEF NetInv
<1>7. RecvInv'
  <2>1. UNCHANGED <<incoming, held, delivered, leaving>>
    BY <1>2 DEF receiver
  <2>2. Count' = Count /\ Count \in Nat
    BY <2>1, <1>1, HeldFacts DEF Count
  <2>3. Count <= newest'
    BY <2>2, <1>1, <1>3, HeldFacts
  <2>4. \A i \in DOMAIN held :
           /\ Count + 1 < held[i] /\ held[i] <= newest'
           /\ Abs(held[i]) <= Abs(Count) + FreeWindows - 2
    <3>1. \A i \in DOMAIN held : held[i] \in Nat /\ held[i] <= newest
      BY <1>1, HeldFacts
    <3>2. \A i \in DOMAIN held : held[i] <= newest'
      BY <3>1, <1>3
    <3> QED BY <3>2, <1>1, HeldFacts
  <2> QED BY <1>1, <2>1, <2>2, <2>3, <2>4 DEF RecvInv, Abs, SeqNo, Modulus
<1>8. AckInv'
  <2> SUFFICES ASSUME ~ leaving' PROVE AckInv'
    BY DEF AckInv
  <2>1. UNCHANGED <<incoming, held, delivered, leaving>> /\ ~ leaving
    BY <1>2 DEF receiver
  <2>2. Got' = Got /\ Count' = Count
    BY <2>1 DEF Got, Count
  <2>3. acks' \subseteq Got
    BY <1>1, <1>2, <2>1 DEF Alive, AckInv
  <2>4. 1 .. newest' \subseteq attempted' \cup Got /\ Abs(newest') <= Abs(Count) + FreeWindows - 1
    <3>1. CASE TransmitOld
      BY <3>1, <1>1, <2>1 DEF TransmitOld, AckInv
    <3>2. CASE TransmitNew
      <4>1. newest' = newest + 1 /\ attempted' = attempted \cup {newest + 1}
        BY <3>2 DEF TransmitNew
      <4>2. \A n \in 1 .. newest' : n = newest + 1 \/ n \in 1 .. newest
        BY <4>1, <1>3
      <4>3. 1 .. newest \subseteq attempted \cup Got
        BY <1>1, <2>1 DEF AckInv
      <4>4. Abs(newest + 1) <= Abs(Count) + FreeWindows - 1
        BY <3>2, <2>1, NewAhead
      <4> QED BY <4>1, <4>2, <4>3, <4>4
    <3> QED BY <3>1, <3>2, <1>2
  <2> QED BY <2>2, <2>3, <2>4 DEF AckInv, Abs
<1> QED BY <1>4, <1>5, <1>6, <1>7, <1>8 DEF Inv

LEMMA ReceiveAckInv ==
    ASSUME Inv, NEW m \in Packet, ReceiveAck(m)
    PROVE  Inv'
<1>1. OutInv /\ CountInv /\ SpanInv /\ NetInv /\ RecvInv /\ AckInv
  BY DEF Inv
<1>2. /\ m \in acks /\ m \in attempted /\ Release(m, Window(SeqNo(m)))
      /\ attempted' = attempted \ {m} /\ OutInv'
      /\ UNCHANGED <<queued, newest, data, acks, losses, receiver>>
  BY <1>1, AckEffect
<1>3. CountInv'
  BY <1>1, <1>2, ReleaseCount
<1>4. SpanInv' /\ NetInv'
  BY <1>1, <1>2 DEF SpanInv, NetInv, Abs
<1>5. RecvInv'
  BY <1>1, <1>2 DEF RecvInv, receiver, Count, Abs, SeqNo
<1>6. AckInv'
  BY <1>1, <1>2 DEF AckInv, receiver, Count, Got, Abs
<1> QED BY <1>2, <1>3, <1>4, <1>5, <1>6 DEF Inv

LEMMA ReceiveInv ==
    ASSUME Inv, NEW n \in Packet, Receive(n)
    PROVE  Inv' /\ Count' \in Nat /\ Count <= Count'
<1>1. OutInv /\ CountInv /\ SpanInv /\ NetInv /\ RecvInv /\ AckInv
  BY DEF Inv
<1>2. /\ n \in data
      /\ \/ Wanted(SeqNo(n)) /\ Store(n)
         \/ ~ Wanted(SeqNo(n)) /\ UNCHANGED <<incoming, held, delivered>>
      /\ QueueAcknowledgement(n)
      /\ UNCHANGED <<sender, newest, data, losses, leaving>>
  BY DEF Receive
<1>3. OutInv' /\ CountInv' /\ SpanInv'
  BY <1>1, <1>2 DEF OutInv, CountInv, SpanInv, sender, Within, Outstanding, Abs
<1>4. acks' \subseteq acks \cup {n}
  BY <1>2 DEF QueueAcknowledgement
<1>5. NetInv'
  BY <1>1, <1>2, <1>4 DEF NetInv
<1>6. /\ RecvInv' /\ Count' \in Nat /\ Count \in Nat /\ Count <= Count' /\ Got \subseteq Got'
      /\ ~ leaving => acks' \subseteq acks \cup Got'
  <2>1. CASE Wanted(SeqNo(n)) /\ Store(n)
    <3>1. /\ Count < n /\ n <= newest
          /\ Abs(n) <= Abs(Count) + FreeWindows - 2 /\ n \notin ToSet(held)
      BY <1>2, <2>1, WantedFacts
    <3>2. RecvInv' /\ Got \cup {n} \subseteq Got' /\ Count' \in Nat /\ Count <= Count'
      BY <1>1, <1>2, <2>1, <3>1, StoreFacts
    <3> QED BY <3>2, <1>1, <1>4, HeldFacts
  <2>2. CASE ~ Wanted(SeqNo(n)) /\ UNCHANGED <<incoming, held, delivered>>
    <3>1. RecvInv' /\ Got' = Got /\ Count' = Count
      BY <2>2, <1>1, <1>2 DEF RecvInv, Got, Count, Abs, SeqNo
    <3>2. ASSUME ~ leaving, n \in acks' PROVE n \in acks \/ n \in Got
      <4>1. \/ n \in acks
            \/ WindowsAhead(SeqNo(n), incoming') \notin {FreeWindows - 1, FreeWindows}
        BY <3>2, <1>2 DEF QueueAcknowledgement
      <4> QED BY <4>1, <3>2, <2>2, <1>2, RefusedFacts
    <3>3. Count \in Nat
      BY <1>1, HeldFacts
    <3> QED BY <3>1, <3>2, <3>3, <1>4
  <2> QED BY <2>1, <2>2, <1>2
<1>7. AckInv'
  <2> SUFFICES ASSUME ~ leaving' PROVE AckInv'
    BY DEF AckInv
  <2>1. ~ leaving /\ UNCHANGED <<attempted, newest>>
    BY <1>2 DEF sender
  <2>2. acks' \subseteq Got' /\ 1 .. newest \subseteq attempted \cup Got'
    BY <2>1, <1>1, <1>6 DEF AckInv
  <2>3. Abs(newest) <= Abs(Count') + FreeWindows - 1
    <3>1. Abs(Count) <= Abs(Count') /\ Abs(Count) \in Nat /\ Abs(Count') \in Nat
      BY <1>6, AbsMonotone, AbsNat
    <3>2. Abs(newest) \in Nat /\ Abs(newest) <= Abs(Count) + FreeWindows - 1
      BY <2>1, <1>1, HeldFacts, AbsNat DEF AckInv
    <3> QED BY <3>1, <3>2, Free
  <2> QED BY <2>1, <2>2, <2>3 DEF AckInv, Abs
<1> QED BY <1>3, <1>5, <1>6, <1>7 DEF Inv

LEMMA DisconnectLaterInv ==
    ASSUME Inv, DisconnectLater
    PROVE  Inv'
<1>1. leaving' = TRUE /\ UNCHANGED <<sender, newest, data, acks, losses, incoming, held, delivered>>
  BY DEF DisconnectLater
<1>2. OutInv' /\ CountInv' /\ SpanInv' /\ NetInv'
  BY <1>1 DEF Inv, OutInv, CountInv, SpanInv, NetInv, sender, Within, Outstanding, Abs
<1>3. RecvInv'
  BY <1>1 DEF Inv, RecvInv, Count, Abs, SeqNo
<1>4. AckInv'
  BY <1>1 DEF AckInv
<1> QED BY <1>2, <1>3, <1>4 DEF Inv

LEMMA LoseInv ==
    ASSUME Inv, NEW n \in Packet, Lose(n)
    PROVE  Inv'
<1>1. /\ losses < MaxLosses /\ losses' = losses + 1
      /\ data' \subseteq data /\ acks' \subseteq acks
      /\ UNCHANGED <<sender, newest, receiver>>
  BY DEF Lose
<1>2. OutInv' /\ CountInv' /\ SpanInv'
  BY <1>1 DEF Inv, OutInv, CountInv, SpanInv, sender, Within, Outstanding, Abs
<1>3. NetInv'
  <2>1. losses' \in 0 .. MaxLosses
    <3>1. losses \in 0 .. MaxLosses /\ MaxLosses \in Nat
      BY Constants DEF Inv, NetInv
    <3> QED BY <3>1, <1>1
  <2> QED BY <2>1, <1>1 DEF Inv, NetInv
<1>4. RecvInv'
  <2>1. UNCHANGED <<newest, incoming, held, delivered, leaving>>
    BY <1>1 DEF receiver
  <2> QED BY <2>1 DEF Inv, RecvInv, Count, Abs, SeqNo
<1>5. AckInv'
  <2>1. UNCHANGED <<attempted, newest, incoming, held, delivered, leaving>> /\ acks' \subseteq acks
    BY <1>1 DEF sender, receiver
  <2> QED BY <2>1 DEF Inv, AckInv, Count, Got, Abs
<1> QED BY <1>2, <1>3, <1>4, <1>5 DEF Inv

-----------------------------------------------------------------------------
(* The theorems.                                                           *)

LEMMA StepInv ==
    ASSUME Inv, [Next]_vars
    PROVE  Inv'
<1>1. CASE Send
  BY <1>1, SendInv
<1>2. CASE Transmit
  BY <1>2, TransmitInv
<1>3. CASE DisconnectLater
  BY <1>3, DisconnectLaterInv
<1>4. CASE \E n \in Packet : Receive(n) \/ ReceiveAck(n) \/ Lose(n)
  BY <1>4, ReceiveInv, ReceiveAckInv, LoseInv
<1>5. CASE TimeOuts
  BY <1>5, TimeOutInv DEF TimeOuts
<1>6. CASE UNCHANGED vars
  <2>1. /\ UNCHANGED <<queued, outgoing, unacked, attempted, windows, used>>
        /\ UNCHANGED <<newest, data, acks, losses>>
        /\ UNCHANGED <<incoming, held, delivered, leaving>>
    BY <1>6 DEF vars, sender, receiver
  <2>2. OutInv' /\ CountInv' /\ SpanInv' /\ NetInv'
    BY <2>1 DEF Inv, OutInv, CountInv, SpanInv, NetInv, Within, Outstanding, Abs
  <2>3. RecvInv' /\ AckInv'
    BY <2>1 DEF Inv, RecvInv, AckInv, Count, Got, Abs, SeqNo
  <2> QED BY <2>2, <2>3 DEF Inv
<1> QED BY <1>1, <1>2, <1>3, <1>4, <1>5, <1>6 DEF Next, Step

LEMMA Invariant == Spec => []Inv
<1>1. Init => Inv
  BY InitInv
<1>2. Inv /\ [Next]_vars => Inv'
  BY StepInv
<1> QED BY <1>1, <1>2, PTL DEF Spec

\* A list without duplicates has as many commands as places.
LEMMA DistinctLength ==
    ASSUME NEW S, NEW s \in Seq(S), Distinct(s)
    PROVE  IsFiniteSet(ToSet(s)) /\ Cardinality(ToSet(s)) = Len(s)
<1> DEFINE D == 1 .. Len(s)
           f == [i \in D |-> s[i]]
<1>1. Len(s) \in Nat /\ DOMAIN s = D /\ ToSet(s) = {s[i] : i \in D}
  BY ListFacts
<1>2. IsFiniteSet(D) /\ Cardinality(D) = Len(s)
  BY <1>1, FS_Interval
<1>3. f \in Bijection(D, ToSet(s))
  <2>1. f \in [D -> ToSet(s)]
    BY <1>1
  <2>2. \A i, j \in D : f[i] = f[j] => i = j
    BY <1>1 DEF Distinct
  <2>3. \A x \in ToSet(s) : \E i \in D : f[i] = x
    BY <1>1
  <2> HIDE DEF D, f
  <2> QED BY <2>1, <2>2, <2>3 DEF Bijection, Injection, Surjection, IsInjective
<1>4. ExistsBijection(D, ToSet(s))
  BY <1>3 DEF ExistsBijection
<1> HIDE DEF D
<1> QED BY <1>2, <1>4, FS_Bijection

\* No more commands of a window are under way than the window has numbers.
LEMMA OneWindowful ==
    ASSUME Inv, NEW w \in WindowIndex
    PROVE  windows[w] \in 0 .. WindowSize
<1> DEFINE B == Within(attempted, w)
<1>1. windows[w] = Cardinality(B) /\ windows[w] \in Nat
  BY DEF Inv, CountInv
<1>2. CASE B = {}
  BY <1>1, <1>2, FS_EmptySet, Sizes
<1>3. CASE B # {}
  <2>1. PICK m \in B : TRUE
    BY <1>3
  <2> DEFINE a == Abs(m)
             X == WindowSize * a .. WindowSize * a + WindowSize - 1
  <2>2. \A n \in B : /\ n \in Nat /\ n <= newest /\ newest \in Nat
                     /\ Window(SeqNo(n)) = w
                     /\ Abs(n) \in Nat /\ Abs(n) % Windows = w
                     /\ Abs(newest) \in Nat /\ Abs(n) <= Abs(newest)
                     /\ Abs(newest) <= Abs(n) + (Windows - FreeWindows - 2)
    <3> SUFFICES ASSUME NEW n \in B
                 PROVE  /\ n \in Nat /\ n <= newest /\ newest \in Nat
                        /\ Window(SeqNo(n)) = w
                        /\ Abs(n) \in Nat /\ Abs(n) % Windows = w
                        /\ Abs(newest) \in Nat /\ Abs(n) <= Abs(newest)
                        /\ Abs(newest) <= Abs(n) + (Windows - FreeWindows - 2)
      OBVIOUS
    <3>1. n \in attempted /\ Window(SeqNo(n)) = w
      BY DEF Within
    <3>2. n \in Nat /\ n <= newest /\ newest \in Nat
      BY <3>1, SpanFacts, OutFacts DEF Inv
    <3>3. Abs(newest) <= Abs(n) + (Windows - FreeWindows - 2)
      BY <3>1 DEF Inv, SpanInv
    <3>4. Abs(n) % Windows = w
      BY <3>1, <3>2, AbsFacts
    <3> QED BY <3>1, <3>2, <3>3, <3>4, AbsNat, AbsMonotone
  <2> HIDE DEF B
  <2>3. \A n \in B : Abs(n) = a
    <3> SUFFICES ASSUME NEW n \in B PROVE Abs(n) = a
      OBVIOUS
    <3>1. /\ Abs(n) \in Nat /\ a \in Nat /\ Abs(n) % Windows = a % Windows
          /\ Abs(newest) \in Nat /\ Abs(n) <= Abs(newest) /\ a <= Abs(newest)
          /\ Abs(newest) <= Abs(n) + (Windows - FreeWindows - 2)
          /\ Abs(newest) <= a + (Windows - FreeWindows - 2)
      BY <2>2
    <3> HIDE DEF a
    <3>2. Abs(n) - a < Windows /\ a - Abs(n) < Windows
      BY <3>1, Free, Sizes
    <3> QED BY <3>1, <3>2, Sizes, ModApart
  <2>4. a \in Nat
    BY <2>2
  <2>5. \A n \in B : n \in X
    <3> SUFFICES ASSUME NEW n \in B PROVE n \in X
      OBVIOUS
    <3>1. n \in Nat /\ n \div WindowSize = a
      BY <2>2, <2>3 DEF Abs
    <3> HIDE DEF a
    <3>2. n % WindowSize \in 0 .. WindowSize - 1 /\ n = WindowSize * a + (n % WindowSize)
      BY <3>1, Sizes, DivMod
    <3>3. WindowSize * a \in Int
      BY <2>4, Sizes
    <3> QED BY <3>2, <3>3, Sizes
  <2> HIDE DEF a
  <2>6. IsFiniteSet(X) /\ Cardinality(X) = WindowSize
    <3>1. WindowSize * a \in Int /\ WindowSize * a + WindowSize - 1 \in Int
      BY <2>4, Sizes
    <3>2. /\ IsFiniteSet(X)
          /\ Cardinality(X) = IF WindowSize * a > WindowSize * a + WindowSize - 1 THEN 0
                              ELSE (WindowSize * a + WindowSize - 1) - WindowSize * a + 1
      BY <3>1, FS_Interval
    <3> HIDE DEF X
    <3> QED BY <3>1, <3>2, Sizes
  <2> HIDE DEF X
  <2>7. B \in SUBSET X
    BY <2>5
  <2>8. Cardinality(B) <= Cardinality(X)
    BY <2>6, <2>7, FS_Subset
  <2> QED BY <2>6, <2>8, <1>1, Sizes
<1> QED BY <1>2, <1>3

LEMMA InvTypeOK == Inv => TypeOK
<1> SUFFICES ASSUME Inv PROVE TypeOK
  OBVIOUS
<1>1. /\ queued \in 0 .. MaxPackets /\ outgoing \in Seq(Packet) /\ unacked \in Seq(Packet)
      /\ losses \in 0 .. MaxLosses /\ held \in Seq(Packet) /\ delivered \in Seq(Packet)
      /\ leaving \in BOOLEAN
  BY DEF Inv, OutInv, NetInv, RecvInv
<1>2. newest \in 0 .. MaxPackets /\ \A n \in 1 .. newest : n \in Packet
  <2>1. newest \in Nat /\ newest <= queued /\ queued \in Nat /\ queued <= MaxPackets
    BY OutFacts DEF Inv
  <2> QED BY <2>1, Constants DEF Packet
<1>3. attempted \subseteq Packet /\ data \subseteq Packet /\ acks \subseteq Packet
  BY <1>2 DEF Inv, OutInv, NetInv
<1>4. windows \in [WindowIndex -> 0 .. WindowSize]
  <2>1. windows \in [WindowIndex -> Nat]
    BY DEF Inv, CountInv
  <2> QED BY <2>1, OneWindowful
<1>5. used \subseteq WindowIndex
  BY DEF Inv, CountInv
<1>6. incoming \in 0 .. Modulus - 1
  <2>1. Count \in Nat /\ incoming = SeqNo(Count)
    BY HeldFacts DEF Inv, RecvInv
  <2> QED BY <2>1, AbsFacts
<1> QED BY <1>1, <1>2, <1>3, <1>4, <1>5, <1>6 DEF TypeOK

LEMMA InvWindowsCount == Inv => WindowsCount
<1> SUFFICES ASSUME Inv PROVE WindowsCount
  OBVIOUS
<1>1. attempted \subseteq Outstanding
  BY DEF Inv, OutInv
<1>2. \A w : {n \in Outstanding \cap attempted : Window(SeqNo(n)) = w} = Within(attempted, w)
  BY <1>1 DEF Within
<1> QED BY <1>2 DEF Inv, CountInv, WindowsCount

LEMMA InvRetriesFirst == Inv => RetriesFirst
<1> SUFFICES ASSUME Inv PROVE RetriesFirst
  OBVIOUS
<1>1. /\ outgoing \in Seq(Packet) /\ unacked \in Seq(Packet) /\ attempted \subseteq 1 .. newest
      /\ Distinct(outgoing) /\ Distinct(unacked) /\ ToSet(unacked) \cap ToSet(outgoing) = {}
      /\ ToSet(outgoing) \ attempted = newest + 1 .. queued
      /\ \A i, j \in DOMAIN outgoing :
            i < j /\ outgoing[i] \notin attempted => outgoing[i] < outgoing[j]
  BY DEF Inv, OutInv
<1>2. newest \in Nat
  BY OutFacts DEF Inv
<1>3. ASSUME NEW i \in DOMAIN outgoing, NEW j \in DOMAIN outgoing, i < j,
             outgoing[j] \in attempted, outgoing[i] \notin attempted
      PROVE  FALSE
  <2>1. outgoing[i] \in ToSet(outgoing)
    BY DEF ToSet
  <2>2. outgoing[i] \in newest + 1 .. queued /\ outgoing[j] \in 1 .. newest
    BY <2>1, <1>1, <1>3
  <2>3. outgoing[i] < outgoing[j]
    BY <1>1, <1>3
  <2> QED BY <2>2, <2>3, <1>2
<1>4. /\ IsFiniteSet(ToSet(outgoing)) /\ Cardinality(ToSet(outgoing)) = Len(outgoing)
      /\ IsFiniteSet(ToSet(unacked)) /\ Cardinality(ToSet(unacked)) = Len(unacked)
      /\ Len(outgoing) \in Nat /\ Len(unacked) \in Nat
  BY <1>1, DistinctLength, ListFacts
<1>5. Cardinality(Outstanding) = Len(outgoing) + Len(unacked)
  <2>1. Cardinality(Outstanding)
          = Cardinality(ToSet(unacked)) + Cardinality(ToSet(outgoing)) - Cardinality({})
    BY <1>1, <1>4, FS_Union DEF Outstanding
  <2>2. Cardinality({}) = 0
    BY FS_EmptySet
  <2> QED BY <2>1, <2>2, <1>4
<1> QED BY <1>3, <1>5 DEF RetriesFirst

LEMMA InvHeldInOrder == Inv => HeldInOrder
<1> SUFFICES ASSUME Inv, NEW i \in DOMAIN held
             PROVE  held[i] > Len(delivered) + 1 /\ (i > 1 => held[i - 1] < held[i])
  BY DEF HeldInOrder
<1>1. /\ Count \in Nat /\ Len(held) \in Nat /\ DOMAIN held = 1 .. Len(held)
      /\ held[i] \in Nat /\ Count + 1 < held[i] /\ Ascending(held)
  BY HeldFacts DEF Inv
<1>2. i > 1 => i - 1 \in DOMAIN held /\ i - 1 < i
  BY <1>1
<1> QED BY <1>1, <1>2 DEF Ascending, Count

\* In every state, what the two ends keep agrees: the windows count the commands of the
\* lists, a retry is in front of what was never sent, the receiver's list is in order
\* (protocol.c:209, 255, 1497, peer.c:881) - for windows of every size and number that keep
\* a free one, and a network that holds a datagram for as long as Lifetime allows.
THEOREM ListsCorrect == Spec => []ListsAgree
<1>1. Inv => ListsAgree
  BY InvTypeOK, InvWindowsCount, InvRetriesFirst, InvHeldInOrder DEF ListsAgree
<1> QED BY <1>1, Invariant, PTL

\* A packet that the sender has forgotten is with the receiver: no acknowledgement is taken
\* for that of another packet, and none is sent for a packet that was discarded
\* (protocol.c:801, 1363, peer.c:758), although numbers wrap around any number of times.
THEOREM NothingLost == Spec => []NothingForgotten
<1>1. Inv => NothingForgotten
  <2> SUFFICES ASSUME Inv, ~ leaving, NEW n \in 1 .. queued
               PROVE  n \in Outstanding \cup ToSet(delivered) \cup ToSet(held)
    BY DEF NothingForgotten
  <2>1. OutInv /\ RecvInv /\ newest \in Nat /\ queued \in Nat
    BY OutFacts DEF Inv
  <2>2. CASE n <= newest
    <3>1. n \in 1 .. newest
      BY <2>1, <2>2
    <3>2. n \in attempted \/ n \in Got
      BY <3>1 DEF Inv, AckInv
    <3>3. attempted \subseteq Outstanding
      BY <2>1 DEF OutInv
    <3>4. ASSUME n \in 1 .. Count PROVE n \in ToSet(delivered)
      <4>1. delivered \in Seq(Packet) /\ n \in 1 .. Len(delivered) /\ delivered[n] = n
        BY <3>4, <2>1 DEF RecvInv, Count
      <4> QED BY <4>1, ListFacts
    <3> QED BY <3>2, <3>3, <3>4 DEF Got
  <2>3. CASE ~ (n <= newest)
    <3>1. n \in newest + 1 .. queued
      BY <2>1, <2>3
    <3> QED BY <3>1, <2>1 DEF OutInv, Outstanding
  <2> QED BY <2>2, <2>3
<1> QED BY <1>1, Invariant, PTL

\* The sequence of packets 1 .. n, which is what the application has sent.
LEMMA Numbers ==
    ASSUME NEW n \in Nat
    PROVE  LET s == [i \in 1 .. n |-> i]
           IN  s \in Seq(Nat) /\ Len(s) = n /\ \A i \in 1 .. n : s[i] = i
<1> DEFINE s == [i \in 1 .. n |-> i]
<1>1. s \in Seq(Nat)
  OBVIOUS
<1>2. DOMAIN s = 1 .. Len(s) /\ Len(s) \in Nat
  BY <1>1, ListFacts
<1>3. DOMAIN s = 1 .. n
  OBVIOUS
<1>4. Len(s) = n
  BY <1>2, <1>3
<1> QED BY <1>1, <1>4

LEMMA ReceiveStep ==
    ASSUME Inv, Inv', Count' >= Count, queued' = queued
    PROVE  Fifo!Receive \/ UNCHANGED <<queued, delivered>>
<1>1. /\ delivered \in Seq(Nat) /\ Len(delivered) \in Nat /\ \A i \in 1 .. Len(delivered) : delivered[i] = i
      /\ queued \in Nat
  <2>1. Packet \subseteq Nat /\ delivered \in Seq(Packet)
    BY Constants DEF Packet, Inv, RecvInv
  <2>2. delivered \in Seq(Nat)
    BY <2>1, SeqMonotonic
  <2> QED BY <2>2, OutFacts, ListFacts DEF Inv, RecvInv, Count
<1>2. /\ delivered' \in Seq(Nat) /\ Len(delivered') \in Nat
      /\ \A i \in 1 .. Len(delivered') : delivered'[i] = i /\ Len(delivered') <= queued
  <2>1. Packet \subseteq Nat /\ delivered' \in Seq(Packet)
    BY Constants DEF Packet, Inv, RecvInv
  <2>2. delivered' \in Seq(Nat)
    BY <2>1, SeqMonotonic
  <2>3. Len(delivered') \in Nat /\ Len(delivered') <= newest'
    BY <2>2, ListFacts DEF Inv, RecvInv, Count
  <2>4. newest' \in 0 .. queued'
    BY DEF Inv, OutInv
  <2>5. Len(delivered') <= queued
    BY <2>3, <2>4, <1>1
  <2> QED BY <2>2, <2>3, <2>5 DEF Inv, RecvInv, Count
<1>3. CASE Len(delivered') = Len(delivered)
  <2>1. delivered' = delivered
    BY <1>1, <1>2, <1>3, SeqEqual
  <2> QED BY <2>1
<1>4. CASE Len(delivered') # Len(delivered)
  <2> DEFINE s == [i \in 1 .. queued |-> i]
             m == Len(delivered')
  <2>1. s \in Seq(Nat) /\ Len(s) = queued /\ \A i \in 1 .. queued : s[i] = i
    BY <1>1, Numbers
  <2>2. m \in Len(delivered) + 1 .. queued /\ m \in Nat /\ m >= 1
    <3>1. m \in 1 .. m /\ m >= Len(delivered)
      BY <1>1, <1>2, <1>4 DEF Count
    <3> QED BY <3>1, <1>1, <1>2, <1>4
  <2> HIDE DEF s
  <2>3. /\ SubSeq(s, 1, m) \in Seq(Nat) /\ Len(SubSeq(s, 1, m)) = m
        /\ \A i \in 1 .. m : SubSeq(s, 1, m)[i] = i
    <3>1. 1 \in 1 .. Len(s) + 1 /\ m \in 0 .. Len(s) /\ 1 <= m + 1
      BY <2>1, <2>2, <1>1
    <3>2. /\ SubSeq(s, 1, m) \in Seq(Nat) /\ Len(SubSeq(s, 1, m)) = m - 1 + 1
          /\ \A i \in 1 .. m - 1 + 1 : SubSeq(s, 1, m)[i] = s[1 + i - 1]
      BY <3>1, <2>1, PartFacts
    <3> HIDE DEF m
    <3>3. m - 1 + 1 = m /\ \A i \in 1 .. m : 1 + i - 1 = i /\ i \in 1 .. queued
      BY <2>2, <1>1
    <3> QED BY <3>2, <3>3, <2>1
  <2>4. delivered' = SubSeq(s, 1, m)
    BY <2>3, <1>2, SeqEqual
  <2>5. \E n \in Len(delivered) + 1 .. Len(s) : delivered' = SubSeq(s, 1, n)
    BY <2>1, <2>2, <2>4
  <2>6. s' = s
    BY DEF s
  <2> QED BY <2>5, <2>6 DEF Fifo!Receive, s
<1> QED BY <1>3, <1>4

LEMMA SendStep ==
    ASSUME Inv, Send
    PROVE  Fifo!Send
<1> DEFINE s == [i \in 1 .. queued |-> i]
           q == queued + 1
           t == [i \in 1 .. q |-> i]
<1>1. queued' = q /\ UNCHANGED delivered /\ queued \in Nat /\ q \in Nat
  BY OutFacts DEF Inv, Send, receiver
<1>2. /\ s \in Seq(Nat) /\ Len(s) = queued /\ \A i \in 1 .. queued : s[i] = i
  BY <1>1, Numbers
<1>3. /\ t \in Seq(Nat) /\ Len(t) = q /\ \A i \in 1 .. q : t[i] = i
  <2> HIDE DEF q
  <2> QED BY <1>1, Numbers
<1>4. [i \in 1 .. queued |-> i]' = t
  BY <1>1
<1> HIDE DEF s, t
<1>5. /\ Append(s, q) \in Seq(Nat) /\ Len(Append(s, q)) = Len(s) + 1
      /\ \A i \in 1 .. Len(s) : Append(s, q)[i] = s[i]
      /\ Append(s, q)[Len(s) + 1] = q
  BY <1>1, <1>2, AppendProperties
<1>6. \A i \in 1 .. q : t[i] = Append(s, q)[i]
  <2> SUFFICES ASSUME NEW i \in 1 .. q PROVE t[i] = Append(s, q)[i]
    OBVIOUS
  <2>1. i \in 1 .. queued \/ i = queued + 1
    BY <1>1
  <2> QED BY <2>1, <1>2, <1>3, <1>5
<1>7. t = Append(s, q)
  BY <1>1, <1>2, <1>3, <1>5, <1>6, SeqEqual
<1> QED BY <1>1, <1>2, <1>4, <1>7 DEF Fifo!Send, s

\* The channel keeps the promise of ReliableFifo: in the order of sending, each packet once
\* and none that was not sent, for every behaviour of the network and of the timeouts.
THEOREM FifoImplemented == Spec => ImplementsFifo
<1>1. Init => Fifo!Init
  <2> SUFFICES ASSUME Init PROVE Fifo!Init
    OBVIOUS
  <2> DEFINE s == [i \in 1 .. queued |-> i]
  <2>1. s \in Seq(Nat) /\ Len(s) = 0
    BY Numbers DEF Init
  <2> HIDE DEF s
  <2>2. s = << >>
    BY <2>1, EmptySeq
  <2> QED BY <2>2 DEF Init, Fifo!Init, s
<1>2. Inv /\ Inv' /\ [Next]_vars => [Fifo!Next]_<<[n \in 1 .. queued |-> n], delivered>>
  <2> SUFFICES ASSUME Inv, Inv', [Next]_vars
               PROVE  Fifo!Next \/ UNCHANGED <<queued, delivered>>
    OBVIOUS
  <2>1. CASE Send
    BY <2>1, SendStep DEF Fifo!Next
  <2>2. CASE Transmit
    BY <2>2, TransmitCases DEF Inv, receiver
  <2>3. CASE DisconnectLater
    BY <2>3 DEF DisconnectLater, sender
  <2>4. ASSUME NEW n \in Packet, Receive(n) PROVE Fifo!Next \/ UNCHANGED <<queued, delivered>>
    <3>1. Count' \in Nat /\ Count <= Count'
      BY <2>4, ReceiveInv
    <3>2. Count \in Nat
      BY HeldFacts DEF Inv
    <3>3. Count' >= Count
      BY <3>1, <3>2
    <3>4. queued' = queued
      BY <2>4 DEF Receive, sender
    <3> QED BY <3>3, <3>4, ReceiveStep DEF Fifo!Next
  <2>5. ASSUME NEW n \in Packet, ReceiveAck(n) PROVE UNCHANGED <<queued, delivered>>
    BY <2>5 DEF ReceiveAck, receiver
  <2>6. ASSUME NEW n \in Packet, Lose(n) PROVE UNCHANGED <<queued, delivered>>
    BY <2>6 DEF Lose, sender, receiver
  <2>7. CASE TimeOuts
    BY <2>7 DEF TimeOuts, TimeOut, receiver
  <2>8. CASE UNCHANGED vars
    BY <2>8 DEF vars, sender, receiver
  <2> QED BY <2>1, <2>2, <2>3, <2>4, <2>5, <2>6, <2>7, <2>8 DEF Next, Step
<1> QED BY <1>1, <1>2, Invariant, PTL DEF Spec, ImplementsFifo, Fifo!Spec
=============================================================================
