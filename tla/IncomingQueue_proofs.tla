-------------------------- MODULE IncomingQueue_proofs --------------------------
(***************************************************************************)
(* Proofs about the receiving side of a channel, for any number of         *)
(* packets, any windows and any limit on the waiting data.                 *)
(*                                                                         *)
(* A command that arrives is put into its list, and packets are moved out  *)
(* of the lists by two loops.  The loops are folds; what they do to a list *)
(* is said by sets of positions: those that were moved, those that stay.   *)
(*                                                                         *)
(* While numbers are not used twice (Distinct) each packet has a place on  *)
(* one line: its distance from the first number.  The channel divides that *)
(* line: Past is what was handed over, Future what is still to come; Good  *)
(* says this of the lists, History of what the application got.            *)
(***************************************************************************)
EXTENDS IncomingQueue, NumberLemmas

-----------------------------------------------------------------------------
(* Numbers.                                                                *)

LEMMA Sizes ==
    /\ Windows \in Nat \ {0} /\ WindowSize \in Nat \ {0} /\ FreeWindows \in 1 .. Windows
    /\ Modulus \in Nat \ {0} /\ Modulus = WindowSize * Windows /\ Start \in 0 .. Modulus - 1
<1>1. \A x, y \in Nat \ {0} : x * y \in Nat \ {0} /\ x * y = y * x
  OBVIOUS
<1>2. Modulus = WindowSize * Windows /\ Modulus \in Nat \ {0}
  BY <1>1, WindowsAssumption DEF Modulus
<1> QED BY <1>2, WindowsAssumption

\* A set of numbers up to n has a greatest one.
LEMMA Greatest ==
    ASSUME NEW n \in Nat, NEW u \in SUBSET (0 .. n), u # {}
    PROVE  Max(u) \in u /\ \A k \in u : k <= Max(u)
<1> DEFINE D == {n - x : x \in u}
<1>1. \A x \in u : n - x \in Nat /\ n - (n - x) = x
  OBVIOUS
<1>2. D \in SUBSET Nat /\ D # {}
  BY <1>1
<1>3. PICK l \in D : \A k \in D : l <= k
  <2> HIDE DEF D
  <2> QED BY <1>2, Least
<1>4. PICK x \in u : l = n - x
  BY <1>3
<1>5. ASSUME NEW y \in u PROVE x >= y
  <2>1. n - x <= n - y
    BY <1>3, <1>4
  <2>2. x \in 0 .. n /\ y \in 0 .. n
    OBVIOUS
  <2> QED BY <2>1, <2>2
<1>6. Max(u) \in u /\ \A y \in u : Max(u) >= y
  <2>1. \E z \in u : \A y \in u : z >= y
    BY <1>5
  <2> QED BY <2>1, Zenon DEF Max
<1>7. \A x1, y \in 0 .. n : x1 >= y => y <= x1
  OBVIOUS
<1> QED BY <1>6, <1>7

\* How far x is ahead of from, around the cycle of numbers; and of the first number.
Ahead(from, x) == IF x >= from THEN x - from ELSE x + Modulus - from
Off(x) == Ahead(Start, x)

LEMMA OffType ==
    ASSUME NEW x \in 0 .. Modulus - 1
    PROVE  Off(x) \in 0 .. Modulus - 1
  BY Sizes DEF Off, Ahead

LEMMA OffSame ==
    ASSUME NEW x \in 0 .. Modulus - 1, NEW y \in 0 .. Modulus - 1, Off(x) = Off(y)
    PROVE  x = y
  BY Sizes DEF Off, Ahead

\* The next number, and the one after that.
LEMMA OffPlus ==
    ASSUME NEW x \in 0 .. Modulus - 1, NEW k \in 0 .. 2
    PROVE  /\ (x + k) % Modulus \in 0 .. Modulus - 1
           /\ Off(x) + k < Modulus => Off((x + k) % Modulus) = Off(x) + k
<1> DEFINE M == Modulus
           y == (x + k) % M
<1>1. M \in Nat \ {0} /\ x + k \in Nat
  BY Sizes
<1>2. y \in 0 .. M - 1 /\ (x + k) \div M \in Nat /\ x + k = M * ((x + k) \div M) + y
  <2> HIDE DEF M
  <2> QED BY <1>1, DivMod
<1>3. ASSUME Off(x) + k < Modulus PROVE Off(y) = Off(x) + k
  <2>1. CASE x + k < M
    <3>1. y = x + k
      <4> HIDE DEF M
      <4>1. x + k = M * 0 + (x + k) /\ x + k \in 0 .. M - 1 /\ 0 \in Int
        BY <1>1, <2>1
      <4> QED BY <1>1, <4>1, Divided
    <3> HIDE DEF y
    <3> QED BY <1>3, <2>1, <3>1, Sizes DEF Off, Ahead
  <2>2. CASE x + k >= M
    <3>1. x + k - M \in 0 .. M - 1
      <4>1. Off(x) + k < M
        BY <1>3
      <4> QED BY <4>1, <2>2, Sizes DEF Off, Ahead
    <3>2. y = x + k - M
      <4> HIDE DEF M
      <4>1. x + k = M * 1 + (x + k - M) /\ 1 \in Int
        BY <1>1, <2>2
      <4> QED BY <1>1, <3>1, <4>1, Divided
    <3> HIDE DEF y
    <3> QED BY <1>3, <2>2, <3>1, <3>2, Sizes DEF Off, Ahead
  <2> QED BY <1>1, <2>1, <2>2
<1> HIDE DEF y
<1> QED BY <1>2, <1>3 DEF M, y

\* No number is used twice, nor does one come back into the window of those that may arrive: a
\* packet takes two numbers at most (ENet's windows have 16 - 8 + 1 times 4096 of them).
Distinct == 2 * MaxPackets < (Windows - FreeWindows + 1) * WindowSize

LEMMA DistinctIs ==
    ASSUME Distinct
    PROVE  /\ 2 * MaxPackets \in Nat /\ (FreeWindows - 1) * WindowSize \in Nat
           /\ 2 * MaxPackets + (FreeWindows - 1) * WindowSize < Modulus
<1>1. \A w, f, s \in Nat : (w - f + 1) * s = w * s - (f - 1) * s
  OBVIOUS
<1>2. \A f, s \in Nat \ {0} : (f - 1) * s \in Nat
  OBVIOUS
<1>3. Windows \in Nat /\ FreeWindows \in Nat \ {0} /\ WindowSize \in Nat \ {0} /\ MaxPackets \in Nat
  BY Sizes, BoundsAssumption
<1>4. Modulus = Windows * WindowSize /\ Modulus \in Nat
  BY Sizes DEF Modulus
<1> DEFINE a == (Windows - FreeWindows + 1) * WindowSize
           b == (FreeWindows - 1) * WindowSize
           m == 2 * MaxPackets
<1>5. a = Modulus - b
  BY <1>1, <1>3, <1>4
<1>6. b \in Nat
  BY <1>2, <1>3
<1>7. m \in Nat /\ m < a
  BY <1>3 DEF Distinct
<1> HIDE DEF a, b, m
<1>8. m + b < Modulus
  BY <1>4, <1>5, <1>6, <1>7
<1> QED BY <1>6, <1>7, <1>8 DEF b, m

\* What is in the window is less than the free windows ahead.
LEMMA WindowAhead ==
    ASSUME NEW cur \in 0 .. Modulus - 1, NEW x \in 0 .. Modulus - 1, InWindow(cur, x)
    PROVE  Ahead(cur, x) < (FreeWindows - 1) * WindowSize
<1> DEFINE s == WindowSize
           y == IF x < cur THEN x + Modulus ELSE x
           f == FreeWindows - 2
<1>1. s \in Nat \ {0} /\ y \in Nat /\ cur \in Nat /\ x \in Nat /\ FreeWindows \in Nat
  BY Sizes
<1>2. cur \div s \in Nat /\ x \div s \in Nat
  <2> HIDE DEF s
  <2> QED BY <1>1, DivMod
<1>3. y \div s = (x \div s) + (IF x < cur THEN Windows ELSE 0)
  <2>1. CASE x < cur
    <3> DEFINE q == x \div s
               r == x % s
    <3>1. q \in Nat /\ r \in 0 .. s - 1 /\ x = s * q + r
      <4> HIDE DEF s
      <4> QED BY <1>1, DivMod
    <3> HIDE DEF q, r
    <3>2. y = x + s * Windows
      BY <2>1, Sizes
    <3> HIDE DEF y
    <3>3. \A a, b, c \in Nat : a * (b + c) = a * b + a * c
      OBVIOUS
    <3>4. y = s * (q + Windows) + r /\ q + Windows \in Int
      <4>1. s * (q + Windows) = s * q + s * Windows
        BY <3>1, <3>3, Sizes
      <4>2. s * q \in Nat /\ s * Windows \in Nat
        <5>1. \A a, b \in Nat : a * b \in Nat
          OBVIOUS
        <5> QED BY <5>1, <3>1, Sizes
      <4> QED BY <3>1, <3>2, <4>1, <4>2, Sizes
    <3> HIDE DEF s
    <3>5. y \div s = q + Windows
      BY <1>1, <3>1, <3>4, Divided
    <3> QED BY <2>1, <3>5 DEF q
  <2>2. CASE ~ x < cur
    BY <2>2, <1>2
  <2> QED BY <2>1, <2>2
<1>4. y \div s \in cur \div s .. (cur \div s) + f
  BY <1>1, <1>2, <1>3 DEF InWindow
<1>5. Ahead(cur, x) = y - cur
  BY Sizes DEF Ahead
<1> HIDE DEF s, y
<1>6. f \in Nat /\ y \div s <= (cur \div s) + f
  BY <1>1, <1>2, <1>4
<1>7. y - cur < s * (f + 1)
  <2> HIDE DEF f
  <2> QED BY <1>1, <1>6, DivWithin
<1>8. s * (f + 1) = (FreeWindows - 1) * WindowSize
  <2>1. \A a, b \in Nat : a * b = b * a
    OBVIOUS
  <2>2. f + 1 = FreeWindows - 1 /\ f + 1 \in Nat
    BY <1>1, <1>6
  <2> QED BY <1>1, <2>1, <2>2 DEF s
<1> QED BY <1>5, <1>7, <1>8

\* Nothing in the window was passed.
LEMMA WindowNotPassed ==
    ASSUME Distinct, NEW cur \in 0 .. Modulus - 1, NEW x \in 0 .. Modulus - 1,
           Off(cur) <= 2 * MaxPackets, InWindow(cur, x)
    PROVE  Off(x) >= Off(cur)
<1> DEFINE m == 2 * MaxPackets
           w == (FreeWindows - 1) * WindowSize
<1>1. m \in Nat /\ w \in Nat /\ m + w < Modulus
  BY DistinctIs
<1>2. Ahead(cur, x) < w /\ Off(cur) <= m
  BY WindowAhead
<1> HIDE DEF m, w
<1> QED BY <1>1, <1>2, Sizes DEF Off, Ahead

\* Where nothing in a list was passed, it is searched by the numbers as they were sent.
LEMMA PassesIs ==
    ASSUME NEW cur \in 0 .. Modulus - 1, NEW x \in 0 .. Modulus - 1,
           NEW e, e.reliable \in 0 .. Modulus - 1,
           Off(x) >= Off(cur), Off(e.reliable) >= Off(cur)
    PROVE  PassesReliable(cur, e, x) <=> Off(e.reliable) > Off(x)
  BY Sizes DEF PassesReliable, Off, Ahead

\* Selecting is a run over the positions.
Selects(r, S, q, K) ==
    /\ r \in [0 .. Len(q) -> Seq(S)]
    /\ r[0] = << >>
    /\ \A i \in 1 .. Len(q) : r[i] = IF i \in K THEN Append(r[i - 1], q[i]) ELSE r[i - 1]
    /\ Selected(q, K) = r[Len(q)]

LEMMA SelectedRuns ==
    ASSUME NEW S, NEW q \in Seq(S), NEW K
    PROVE  \E r : Selects(r, S, q, K)
<1> DEFINE n == Len(q)
           s == [i \in DOMAIN q |-> i]
           b == << >>
           T == Seq(S)
           F == [y \in T \X (1 .. n) |-> IF y[2] \in K THEN Append(y[1], q[y[2]]) ELSE y[1]]
           Value(g, u) == IF u = {} THEN b ELSE IF s[Max(u)] \in K THEN Append(g[u \ {Max(u)}], q[s[Max(u)]]) ELSE g[u \ {Max(u)}]
           IsFold(g) == g = [u \in SUBSET DOMAIN s |-> Value(g, u)]
           h == CHOOSE g : IsFold(g)
           end == h[DOMAIN s]
<1>1. n \in Nat /\ DOMAIN s = 1 .. n /\ \A i \in 1 .. n : s[i] = i /\ q[i] \in S
  <2>1. n \in Nat /\ DOMAIN q = 1 .. n /\ \A i \in 1 .. n : q[i] \in S
    BY LenProperties, ElementOfSeq
  <2> HIDE DEF n
  <2> QED BY <2>1
<1>2. Selected(q, K) = end
  BY Zenon DEF Selected, FoldLeftDomain, FoldLeft, MapThenFoldSet
<1>3. b \in T
  OBVIOUS
<1>4. ASSUME NEW x \in T, NEW i \in 1 .. n PROVE (IF i \in K THEN Append(x, q[i]) ELSE x) \in T
  <2>1. q[i] \in S
    BY <1>1
  <2> QED BY <2>1, AppendProperties
<1> HIDE DEF s, n, T, b
<1>5. F \in Turns(T, n)
  <2>1. ASSUME NEW y \in T \X (1 .. n) PROVE (IF y[2] \in K THEN Append(y[1], q[y[2]]) ELSE y[1]) \in T
    BY <1>4
  <2> QED BY <2>1 DEF Turns
<1>6. \A y \in T : \A i \in 1 .. n : F[<<y, i>>] = IF i \in K THEN Append(y, q[i]) ELSE y
  OBVIOUS
<1> HIDE DEF F
<1>7. ASSUME NEW u \in SUBSET (1 .. n), u # {}
      PROVE  Max(u) \in 1 .. n /\ u \ {Max(u)} \in SUBSET (1 .. n)
  BY <1>1, <1>7, LastPosition
<1>8. IsFold(h)
  <2>0. PICK g \in [SUBSET (1 .. n) -> T] : IsFoldOf(g, b, F, n)
    <3>1. n \in Nat /\ b \in T /\ F \in Turns(T, n)
      BY <1>1, <1>3, <1>5
    <3> QED BY <3>1, FoldsObey, Zenon
  <2>1. \A u \in SUBSET (1 .. n) : g[u] = IF u = {} THEN b ELSE F[<<g[u \ {Max(u)}], Max(u)>>]
    BY <2>0 DEF IsFoldOf
  <2>2. ASSUME NEW u \in SUBSET (1 .. n) PROVE g[u] = Value(g, u)
    <3>1. CASE u = {}
      BY <2>1, <3>1
    <3>2. CASE u # {}
      <4>1. Max(u) \in 1 .. n /\ g[u \ {Max(u)}] \in T
        BY <1>7, <2>1, <3>2
      <4>2. F[<<g[u \ {Max(u)}], Max(u)>>] = IF Max(u) \in K THEN Append(g[u \ {Max(u)}], q[Max(u)]) ELSE g[u \ {Max(u)}]
        BY <1>6, <4>1
      <4>3. s[Max(u)] = Max(u)
        BY <1>1, <4>1
      <4> QED BY <2>1, <3>2, <4>2, <4>3
    <3> QED BY <3>1, <3>2
  <2>3. IsFold(g)
    <3> HIDE DEF Value
    <3> QED BY <1>1, <2>1, <2>2
  <2> HIDE DEF IsFold
  <2> QED BY <2>3
<1>9. Obeys(h, b, F, T, n)
  <2>1. ASSUME NEW u \in SUBSET (1 .. n) PROVE h[u] = Value(h, u)
    <3> HIDE DEF Value, h
    <3> QED BY <1>1, <1>8
  <2> HIDE DEF h
  <2>2. ASSUME NEW u \in SUBSET (1 .. n), u = {} PROVE h[u] = b
    BY <2>1, <2>2
  <2>3. ASSUME NEW u \in SUBSET (1 .. n), u # {}, h[u \ {Max(u)}] \in T
        PROVE  h[u] = F[<<h[u \ {Max(u)}], Max(u)>>]
    <3>1. Max(u) \in 1 .. n /\ s[Max(u)] = Max(u)
      BY <1>1, <1>7, <2>3
    <3>2. h[u] = IF Max(u) \in K THEN Append(h[u \ {Max(u)}], q[Max(u)]) ELSE h[u \ {Max(u)}]
      BY <2>1, <2>3, <3>1
    <3> QED BY <1>6, <2>3, <3>1, <3>2
  <2> QED BY <2>2, <2>3 DEF Obeys
<1> HIDE DEF h, Value, IsFold
<1>10. PICK r \in [0 .. n -> T] : IsRun(r, b, F, n) /\ h[1 .. n] = r[n]
  <2>1. n \in Nat /\ b \in T /\ F \in Turns(T, n) /\ Obeys(h, b, F, T, n)
    BY <1>1, <1>3, <1>5, <1>9
  <2> QED BY <2>1, FoldRuns
<1>11. ASSUME NEW i \in 1 .. n
       PROVE  r[i] = IF i \in K THEN Append(r[i - 1], q[i]) ELSE r[i - 1]
  <2>1. r[i] = F[<<r[i - 1], i>>] /\ i - 1 \in 0 .. n
    BY <1>1, <1>10 DEF IsRun
  <2> QED BY <1>6, <1>10, <2>1
<1>12. r[0] = << >> /\ end = r[n]
  BY <1>1, <1>10 DEF IsRun, b
<1> HIDE DEF end
<1>13. Selects(r, S, q, K)
  BY <1>2, <1>10, <1>11, <1>12 DEF Selects, n, T
<1> QED BY <1>13

\* The positions f of the entries of s in q: those of K up to i, in their order.
Picks(f, s, q, K, i) ==
    /\ f \in [1 .. Len(s) -> K \cap 1 .. i]
    /\ \A k, l \in 1 .. Len(s) : k < l => f[k] < f[l]
    /\ \A k \in 1 .. Len(s) : s[k] = q[f[k]]
    /\ \A m \in K \cap 1 .. i : \E k \in 1 .. Len(s) : f[k] = m

LEMMA PicksMore ==
    ASSUME NEW S, NEW q \in Seq(S), NEW K, NEW i \in 1 .. Len(q), NEW s \in Seq(S),
           NEW f, Picks(f, s, q, K, i - 1), i \in K
    PROVE  \E g : Picks(g, Append(s, q[i]), q, K, i)
<1> DEFINE t == Append(s, q[i])
           l == Len(s)
           g == [k \in 1 .. l + 1 |-> IF k = l + 1 THEN i ELSE f[k]]
<1>1. q[i] \in S /\ l \in Nat /\ Len(q) \in Nat
  BY LenProperties, ElementOfSeq
<1>2. Len(t) = l + 1 /\ \A k \in 1 .. l : t[k] = s[k]
  BY <1>1, AppendProperties
<1>3. t[l + 1] = q[i]
  BY <1>1, AppendProperties
<1>4. \A k \in 1 .. l : f[k] \in K /\ f[k] \in 1 .. i - 1 /\ s[k] = q[f[k]]
  BY DEF Picks
<1>5. \A k, m \in 1 .. l : k < m => f[k] < f[m]
  BY DEF Picks
<1>6. \A m \in K \cap 1 .. i - 1 : \E k \in 1 .. l : f[k] = m
  BY DEF Picks
<1> HIDE DEF t, l
<1>7. g \in [1 .. Len(t) -> K \cap 1 .. i]
  BY <1>1, <1>2, <1>4
<1>8. \A k, m \in 1 .. Len(t) : k < m => g[k] < g[m]
  BY <1>1, <1>2, <1>4, <1>5
<1>9. \A k \in 1 .. Len(t) : t[k] = q[g[k]]
  BY <1>1, <1>2, <1>3, <1>4
<1>10. ASSUME NEW m \in K \cap 1 .. i PROVE \E k \in 1 .. Len(t) : g[k] = m
  <2>1. CASE m = i
    <3>1. l + 1 \in 1 .. Len(t) /\ g[l + 1] = m
      BY <1>1, <1>2, <2>1
    <3> QED BY <3>1
  <2>2. CASE m # i
    <3>1. m \in K \cap 1 .. i - 1
      BY <1>1, <2>2
    <3>2. PICK k \in 1 .. l : f[k] = m
      BY <1>6, <3>1
    <3>3. k \in 1 .. Len(t) /\ g[k] = m
      BY <1>1, <1>2, <3>2
    <3> QED BY <3>3
  <2> QED BY <2>1, <2>2
<1> HIDE DEF g
<1>11. Picks(g, t, q, K, i)
  BY <1>7, <1>8, <1>9, <1>10 DEF Picks
<1> QED BY <1>11 DEF t

\* The entries selected are those at the positions, in their order.
LEMMA SelectedIs ==
    ASSUME NEW S, NEW q \in Seq(S), NEW K
    PROVE  Selected(q, K) \in Seq(S) /\ \E f : Picks(f, Selected(q, K), q, K, Len(q))
<1> DEFINE n == Len(q)
           b == << >>
<1>0. n \in Nat
  BY LenProperties
<1>1. PICK r \in [0 .. n -> Seq(S)] :
             /\ r[0] = b
             /\ \A i \in 1 .. n : r[i] = IF i \in K THEN Append(r[i - 1], q[i]) ELSE r[i - 1]
             /\ Selected(q, K) = r[n]
  <2>1. PICK r : Selects(r, S, q, K)
    BY SelectedRuns
  <2> QED BY <2>1 DEF Selects
<1> DEFINE N == {i \in Nat : i <= n => \E f : Picks(f, r[i], q, K, i)}
<1>2. 0 \in N
  <2>1. Len(b) = 0
    OBVIOUS
  <2> HIDE DEF b
  <2>2. Picks([k \in {} |-> k], r[0], q, K, 0)
    BY <1>1, <2>1 DEF Picks
  <2> HIDE DEF n
  <2> QED BY <2>2
<1>3. ASSUME NEW i \in Nat, i \in N PROVE i + 1 \in N
  <2> DEFINE j == i + 1
  <2> SUFFICES ASSUME j <= n PROVE \E f : Picks(f, r[j], q, K, j)
    OBVIOUS
  <2>1. j \in 1 .. n /\ j - 1 = i /\ i \in 0 .. n /\ r[i] \in Seq(S)
    BY <1>0, <1>1
  <2>2. PICK f : Picks(f, r[i], q, K, i)
    BY <1>3, <2>1
  <2> HIDE DEF n, N, j
  <2>3. r[j] = IF j \in K THEN Append(r[i], q[j]) ELSE r[i]
    BY <1>1, <2>1
  <2>4. CASE j \in K
    BY <2>1, <2>2, <2>3, <2>4, PicksMore DEF n
  <2>5. CASE j \notin K
    <3>1. K \cap 1 .. j = K \cap 1 .. i
      BY <2>1, <2>5
    <3>2. Picks(f, r[j], q, K, j)
      BY <2>2, <2>3, <2>5, <3>1 DEF Picks
    <3> QED BY <3>2
  <2> QED BY <2>4, <2>5
<1>4. n \in N
  <2> HIDE DEF N
  <2>1. Nat \subseteq N
    BY <1>2, <1>3, Induction
  <2> QED BY <1>0, <2>1
<1>5. n \in 0 .. n
  BY <1>0
<1> QED BY <1>1, <1>4, <1>5

\* Positions selected once or not at all.
LEMMA SelectedSums ==
    ASSUME NEW S, NEW L \in [S -> Nat], NEW q \in Seq(S), NEW K, NEW J, K \cap J = {}
    PROVE  SeqSum(L, Selected(q, K)) + SeqSum(L, Selected(q, J)) <= SeqSum(L, q)
<1> DEFINE n == Len(q)
           b == << >>
<1>0. n \in Nat /\ L \in [S -> Int] /\ \A i \in 1 .. n : q[i] \in S /\ L[q[i]] \in Nat
  BY LenProperties, ElementOfSeq
<1>1. PICK r \in [0 .. n -> Seq(S)] :
             /\ r[0] = b
             /\ \A i \in 1 .. n : r[i] = IF i \in K THEN Append(r[i - 1], q[i]) ELSE r[i - 1]
             /\ Selected(q, K) = r[n]
  <2>1. PICK r : Selects(r, S, q, K)
    BY SelectedRuns
  <2> QED BY <2>1 DEF Selects
<1>2. PICK t \in [0 .. n -> Seq(S)] :
             /\ t[0] = b
             /\ \A i \in 1 .. n : t[i] = IF i \in J THEN Append(t[i - 1], q[i]) ELSE t[i - 1]
             /\ Selected(q, J) = t[n]
  <2>1. PICK t : Selects(t, S, q, J)
    BY SelectedRuns
  <2> QED BY <2>1 DEF Selects
<1>3. PICK m \in [0 .. n -> Int] : SeqSums(m, L, q)
  BY <1>0, SeqSumsExist
<1>4. SeqSum(L, q) = m[n]
  BY <1>0, <1>3, SeqSumIs
<1>5. m[0] = 0 /\ \A i \in 1 .. n : m[i] = m[i - 1] + L[q[i]]
  BY <1>3 DEF SeqSums
<1>6. SeqSum(L, b) = 0
  BY <1>0, SeqSumOfNone
<1> HIDE DEF b
<1> DEFINE N == {i \in Nat : i <= n => SeqSum(L, r[i]) + SeqSum(L, t[i]) <= m[i]}
<1>7. 0 \in N
  <2> HIDE DEF n
  <2> QED BY <1>1, <1>2, <1>5, <1>6
<1>8. ASSUME NEW i \in Nat, i \in N PROVE i + 1 \in N
  <2> DEFINE j == i + 1
             rs == SeqSum(L, r[i])
             ts == SeqSum(L, t[i])
  <2> SUFFICES ASSUME j <= n PROVE SeqSum(L, r[j]) + SeqSum(L, t[j]) <= m[j]
    OBVIOUS
  <2> HIDE DEF n
  <2>1. j \in 1 .. n /\ j - 1 = i /\ i \in 0 .. n /\ r[i] \in Seq(S) /\ t[i] \in Seq(S) /\ m[i] \in Int
    BY <1>0, <1>1, <1>2, <1>3
  <2>2. rs + ts <= m[i]
    BY <1>8, <2>1
  <2>3. rs \in Int /\ ts \in Int
    BY <1>0, <2>1, SeqSumType
  <2> HIDE DEF n, N, j
  <2>4. m[j] = m[i] + L[q[j]] /\ L[q[j]] \in Nat /\ q[j] \in S
    BY <1>0, <1>5, <2>1
  <2>5. SeqSum(L, r[j]) = IF j \in K THEN rs + L[q[j]] ELSE rs
    <3>1. CASE j \in K
      <4>1. r[j] = Append(r[i], q[j])
        BY <1>1, <2>1, <3>1
      <4>2. r[i] \in Seq(S) /\ q[j] \in S /\ L \in [S -> Int]
        BY <1>0, <2>1, <2>4
      <4>3. SeqSum(L, Append(r[i], q[j])) = SeqSum(L, r[i]) + L[q[j]]
        BY <4>2, SeqSumAppend
      <4> QED BY <3>1, <4>1, <4>3
    <3>2. CASE j \notin K
      BY <1>1, <2>1, <3>2
    <3> QED BY <3>1, <3>2
  <2>6. SeqSum(L, t[j]) = IF j \in J THEN ts + L[q[j]] ELSE ts
    <3>1. CASE j \in J
      <4>1. t[j] = Append(t[i], q[j])
        BY <1>2, <2>1, <3>1
      <4>2. t[i] \in Seq(S) /\ q[j] \in S /\ L \in [S -> Int]
        BY <1>0, <2>1, <2>4
      <4>3. SeqSum(L, Append(t[i], q[j])) = SeqSum(L, t[i]) + L[q[j]]
        BY <4>2, SeqSumAppend
      <4> QED BY <3>1, <4>1, <4>3
    <3>2. CASE j \notin J
      BY <1>2, <2>1, <3>2
    <3> QED BY <3>1, <3>2
  <2> HIDE DEF rs, ts
  <2>7. ~ (j \in K /\ j \in J)
    OBVIOUS
  <2> QED BY <2>1, <2>2, <2>3, <2>4, <2>5, <2>6, <2>7
<1>9. n \in N
  <2> HIDE DEF N
  <2>1. Nat \subseteq N
    BY <1>7, <1>8, Induction
  <2> QED BY <1>0, <2>1
<1> QED BY <1>0, <1>1, <1>2, <1>4, <1>9
-----------------------------------------------------------------------------
(* The walk over the unreliable list.                                      *)

Receivers == [reliable : 0 .. Modulus - 1, unreliable : Nat, reliables : Seq(Entries),
              unreliables : Seq(Entries), groups : SUBSET (1 .. MaxPackets),
              dispatched : Seq(Entries), waiting : Nat, leaving : BOOLEAN]
Walks == [start : Nat, dropped : Nat, moved : SUBSET Nat, stop : Nat, unreliable : Nat]

\* The last position before i that was not moved.
Kept(w, i) == Max({0} \cup {k \in 1 .. i - 1 : k \notin w.moved})

\* What one turn of the walk does, field by field.
Matches(r, e) == e.kind # "unsequenced" /\ e.reliable = r.reliable
Stays(v, w) == v = w
Runs(v, w, e) == /\ v.start = w.start /\ v.dropped = w.dropped /\ v.moved = w.moved
                 /\ v.stop = w.stop /\ v.unreliable = e.unreliable
Skips(v, w, i) == /\ v.start = i + 1 /\ v.moved = w.moved \cup (w.start .. i - 1)
                  /\ v.dropped = IF w.start # i THEN i
                                 ELSE IF w.dropped # i THEN Kept(w, i) ELSE w.dropped
                  /\ v.stop = w.stop /\ v.unreliable = w.unreliable
Stops(v, w, i) == /\ v.start = w.start /\ v.dropped = w.dropped /\ v.moved = w.moved
                  /\ v.stop = i /\ v.unreliable = w.unreliable
Drops(v, w, i) == /\ v.start = i + 1 /\ v.moved = w.moved \cup (w.start .. i - 1)
                  /\ v.dropped = i + 1 /\ v.stop = w.stop /\ v.unreliable = w.unreliable
Turn(r, v, w, e, i) ==
    \/ (w.stop > 0 \/ e.kind = "unsequenced") /\ Stays(v, w)
    \/ w.stop = 0 /\ Matches(r, e) /\ Complete(e) /\ Runs(v, w, e)
    \/ w.stop = 0 /\ Matches(r, e) /\ ~ Complete(e) /\ Skips(v, w, i)
    \/ w.stop = 0 /\ e.kind # "unsequenced" /\ e.reliable # r.reliable /\ InWindow(r.reliable, e.reliable)
       /\ Stops(v, w, i)
    \/ w.stop = 0 /\ e.kind # "unsequenced" /\ e.reliable # r.reliable /\ ~ InWindow(r.reliable, e.reliable)
       /\ Drops(v, w, i)

LEMMA KeptType ==
    ASSUME NEW w \in Walks, NEW i \in Nat \ {0}
    PROVE  /\ Kept(w, i) \in 0 .. i - 1
           /\ Kept(w, i) > 0 => Kept(w, i) \notin w.moved
           /\ \A k \in 1 .. i - 1 : k > Kept(w, i) => k \in w.moved
<1> DEFINE u == {0} \cup {k \in 1 .. i - 1 : k \notin w.moved}
           j == i - 1
<1>1. j \in Nat /\ u \in SUBSET (0 .. j) /\ u # {}
  OBVIOUS
<1> HIDE DEF u, j
<1>2. Max(u) \in u /\ \A k \in u : k <= Max(u)
  BY <1>1, Greatest
<1>3. Kept(w, i) = Max(u) /\ j = i - 1
  BY DEF Kept, u, j
<1> HIDE DEF Kept
<1>4. \A k \in 1 .. j : k \notin w.moved => k \in u
  BY <1>3 DEF u
<1>5. Max(u) = 0 \/ (Max(u) \in 1 .. j /\ Max(u) \notin w.moved)
  BY <1>2, <1>3 DEF u
<1> QED BY <1>1, <1>2, <1>3, <1>4, <1>5

Both(x, d, s) == [x EXCEPT !.dropped = d, !.start = s]

IsBoth(v, x, d, s) ==
    /\ v \in Walks /\ v.dropped = d /\ v.start = s /\ v.moved = x.moved
    /\ v.stop = x.stop /\ v.unreliable = x.unreliable

LEMMA TwoFields ==
    ASSUME NEW x \in Walks, NEW d \in Nat, NEW s \in Nat
    PROVE  IsBoth(Both(x, d, s), x, d, s)
<1>1. Both(x, d, s) \in Walks /\ Both(x, d, s).dropped = d /\ Both(x, d, s).start = s
      /\ Both(x, d, s).moved = x.moved /\ Both(x, d, s).stop = x.stop
      /\ Both(x, d, s).unreliable = x.unreliable
  BY DEF Walks, Both
<1> QED BY <1>1 DEF IsBoth

LEMMA WalkTurn ==
    ASSUME NEW r \in Receivers, NEW w \in Walks, NEW i \in 1 .. Len(r.unreliables)
    PROVE  /\ WalkUnreliable(r, w, i) \in Walks
           /\ Turn(r, WalkUnreliable(r, w, i), w, r.unreliables[i], i)
<1> DEFINE q == r.unreliables
           e == q[i]
           v == WalkUnreliable(r, w, i)
<1>1. i \in Nat \ {0} /\ e \in Entries /\ r.unreliable \in Nat
  <2>1. q \in Seq(Entries) /\ r.unreliable \in Nat
    BY DEF Receivers
  <2>2. e \in Entries
    BY <2>1, ElementOfSeq
  <2>3. Len(q) \in Nat
    BY <2>1, LenProperties
  <2> HIDE DEF e
  <2> QED BY <2>1, <2>2, <2>3
<1>2. Kept(w, i) \in Nat
  BY <1>1, KeptType
<1>3. v = IF w.stop > 0 \/ e.kind = "unsequenced" THEN w
          ELSE IF e.reliable = r.reliable /\ Complete(e)
          THEN [w EXCEPT !.unreliable = e.unreliable]
          ELSE IF e.reliable = r.reliable
          THEN [Move(w, i) EXCEPT
                   !.dropped = IF w.start # i THEN i ELSE IF w.dropped # i THEN Kept(w, i) ELSE w.dropped,
                   !.start = i + 1]
          ELSE IF InWindow(r.reliable, e.reliable) THEN [w EXCEPT !.stop = i]
          ELSE [Move(w, i) EXCEPT !.dropped = i + 1, !.start = i + 1]
  <2>1. Move(w, i).dropped = w.dropped
    BY DEF Move, Walks
  <2> QED BY <2>1 DEF WalkUnreliable, Kept
<1> DEFINE x == Move(w, i)
<1>4. x \in Walks /\ x.start = w.start /\ x.dropped = w.dropped /\ x.moved = w.moved \cup (w.start .. i - 1)
      /\ x.stop = w.stop /\ x.unreliable = w.unreliable
  <2>1. w.moved \cup (w.start .. i - 1) \in SUBSET Nat
    BY <1>1 DEF Walks
  <2> QED BY <2>1 DEF Move, Walks
<1>5. e.unreliable \in Nat
  BY <1>1 DEF Entries
<1> HIDE DEF v, x
<1>a. CASE w.stop > 0 \/ e.kind = "unsequenced"
  BY <1>3, <1>a DEF Turn, Stays, v
<1>b. CASE ~ (w.stop > 0 \/ e.kind = "unsequenced") /\ e.reliable = r.reliable /\ Complete(e)
  <2>1. v = [w EXCEPT !.unreliable = e.unreliable]
    BY <1>3, <1>b
  <2>2. v \in Walks /\ Runs(v, w, e)
    BY <2>1, <1>5 DEF Walks, Runs
  <2>3. w.stop = 0 /\ Matches(r, e)
    BY <1>b DEF Walks, Matches
  <2> QED BY <1>b, <2>2, <2>3 DEF Turn, v
<1>c. CASE ~ (w.stop > 0 \/ e.kind = "unsequenced") /\ e.reliable = r.reliable /\ ~ Complete(e)
  <2> DEFINE d == IF w.start # i THEN i ELSE IF w.dropped # i THEN Kept(w, i) ELSE w.dropped
  <2>1. v = Both(x, d, i + 1)
    BY <1>3, <1>c DEF x, Both
  <2>0. d \in Nat
    BY <1>1, <1>2 DEF Walks
  <2>2. v \in Walks /\ Skips(v, w, i)
    <3>1. v.dropped = d /\ v.start = i + 1 /\ v.moved = x.moved /\ v.stop = x.stop /\ v.unreliable = x.unreliable
          /\ v \in Walks
      <4> HIDE DEF d
      <4>1. i + 1 \in Nat /\ x \in Walks
        BY <1>1, <1>4
      <4>2. IsBoth(v, x, d, i + 1)
        BY <2>0, <2>1, <4>1, TwoFields
      <4> QED BY <4>2 DEF IsBoth
    <3> QED BY <3>1, <1>4 DEF Skips
  <2>3. w.stop = 0 /\ Matches(r, e)
    BY <1>c DEF Walks, Matches
  <2> HIDE DEF d
  <2> QED BY <1>c, <2>2, <2>3 DEF Turn, v
<1>d. CASE ~ (w.stop > 0 \/ e.kind = "unsequenced") /\ e.reliable # r.reliable /\ InWindow(r.reliable, e.reliable)
  <2>1. v = [w EXCEPT !.stop = i]
    BY <1>3, <1>d
  <2>2. v \in Walks /\ Stops(v, w, i)
    BY <1>1, <2>1 DEF Walks, Stops
  <2>3. w.stop = 0
    BY <1>d DEF Walks
  <2> QED BY <1>d, <2>2, <2>3 DEF Turn, v
<1>e. CASE ~ (w.stop > 0 \/ e.kind = "unsequenced") /\ e.reliable # r.reliable /\ ~ InWindow(r.reliable, e.reliable)
  <2>1. v = Both(x, i + 1, i + 1)
    BY <1>3, <1>e DEF x, Both
  <2>2. v \in Walks /\ Drops(v, w, i)
    <3>1. i + 1 \in Nat /\ x \in Walks
      BY <1>1, <1>4
    <3>2. v \in Walks /\ v.dropped = i + 1 /\ v.start = i + 1 /\ v.moved = x.moved
          /\ v.stop = x.stop /\ v.unreliable = x.unreliable
      <4> DEFINE j == i + 1
                 l == i + 1
      <4>1. j \in Nat /\ l \in Nat /\ v = Both(x, j, l) /\ j = i + 1 /\ l = i + 1
        BY <2>1, <3>1
      <4> HIDE DEF j, l
      <4>2. IsBoth(v, x, j, l)
        BY <3>1, <4>1, TwoFields
      <4> QED BY <4>1, <4>2 DEF IsBoth
    <3> QED BY <1>4, <3>2 DEF Drops
  <2>3. w.stop = 0
    BY <1>e DEF Walks
  <2> QED BY <1>e, <2>2, <2>3 DEF Turn, v
<1> QED BY <1>a, <1>b, <1>c, <1>d, <1>e

\* The walk is a run over the positions.
Walked(r) == FoldLeftDomain(LAMBDA acc, i : WalkUnreliable(r, acc, i), WalkStart(r), r.unreliables)
IsWalk(h, r) ==
    /\ h \in [0 .. Len(r.unreliables) -> Walks]
    /\ h[0] = WalkStart(r)
    /\ \A i \in 1 .. Len(r.unreliables) : Turn(r, h[i], h[i - 1], r.unreliables[i], i)
    /\ Walked(r) = h[Len(r.unreliables)]

LEMMA WalkRuns ==
    ASSUME NEW p \in Receivers
    PROVE  \E r : IsWalk(r, p)
<1> DEFINE n == Len(p.unreliables)
           s == [i \in DOMAIN p.unreliables |-> i]
           b == WalkStart(p)
           T == Walks
           F == [y \in T \X (1 .. n) |-> WalkUnreliable(p, y[1], y[2])]
           Value(g, u) == IF u = {} THEN b ELSE WalkUnreliable(p, g[u \ {Max(u)}], s[Max(u)])
           IsFold(g) == g = [u \in SUBSET DOMAIN s |-> Value(g, u)]
           h == CHOOSE g : IsFold(g)
           end == h[DOMAIN s]
<1> DEFINE q == p.unreliables
<1>1. n \in Nat /\ DOMAIN s = 1 .. n /\ \A i \in 1 .. n : s[i] = i
  <2>1. n \in Nat /\ DOMAIN q = 1 .. n
    <3>1. q \in Seq(Entries)
      BY DEF Receivers
    <3> QED BY <3>1, LenProperties
  <2> HIDE DEF n
  <2> QED BY <2>1
<1>2. Walked(p) = end
  BY Zenon DEF Walked, FoldLeftDomain, FoldLeft, MapThenFoldSet
<1>3. b \in T
  BY DEF Receivers, WalkStart, Walks
<1>4. ASSUME NEW x \in T, NEW i \in 1 .. n PROVE WalkUnreliable(p, x, i) \in T
  BY WalkTurn
<1> HIDE DEF s, n, T, b
<1>5. F \in Turns(T, n)
  <2>1. ASSUME NEW y \in T \X (1 .. n) PROVE WalkUnreliable(p, y[1], y[2]) \in T
    BY <1>4
  <2> QED BY <2>1 DEF Turns
<1>6. \A y \in T : \A i \in 1 .. n : F[<<y, i>>] = WalkUnreliable(p, y, i)
  OBVIOUS
<1> HIDE DEF F
<1>7. ASSUME NEW u \in SUBSET (1 .. n), u # {}
      PROVE  Max(u) \in 1 .. n /\ u \ {Max(u)} \in SUBSET (1 .. n)
  BY <1>1, <1>7, LastPosition
<1>8. IsFold(h)
  <2>0. PICK g \in [SUBSET (1 .. n) -> T] : IsFoldOf(g, b, F, n)
    <3>1. n \in Nat /\ b \in T /\ F \in Turns(T, n)
      BY <1>1, <1>3, <1>5
    <3> QED BY <3>1, FoldsObey, Zenon
  <2>1. \A u \in SUBSET (1 .. n) : g[u] = IF u = {} THEN b ELSE F[<<g[u \ {Max(u)}], Max(u)>>]
    BY <2>0 DEF IsFoldOf
  <2>2. ASSUME NEW u \in SUBSET (1 .. n) PROVE g[u] = Value(g, u)
    <3>1. CASE u = {}
      BY <2>1, <3>1
    <3>2. CASE u # {}
      <4>1. Max(u) \in 1 .. n /\ g[u \ {Max(u)}] \in T
        BY <1>7, <2>1, <3>2
      <4>2. F[<<g[u \ {Max(u)}], Max(u)>>] = WalkUnreliable(p, g[u \ {Max(u)}], Max(u))
        BY <1>6, <4>1
      <4>3. s[Max(u)] = Max(u)
        BY <1>1, <4>1
      <4> QED BY <2>1, <3>2, <4>2, <4>3
    <3> QED BY <3>1, <3>2
  <2>3. IsFold(g)
    <3> HIDE DEF Value
    <3> QED BY <1>1, <2>1, <2>2
  <2> HIDE DEF IsFold
  <2> QED BY <2>3
<1>9. Obeys(h, b, F, T, n)
  <2>1. ASSUME NEW u \in SUBSET (1 .. n) PROVE h[u] = Value(h, u)
    <3> HIDE DEF Value, h
    <3> QED BY <1>1, <1>8
  <2> HIDE DEF h
  <2>2. ASSUME NEW u \in SUBSET (1 .. n), u = {} PROVE h[u] = b
    BY <2>1, <2>2
  <2>3. ASSUME NEW u \in SUBSET (1 .. n), u # {}, h[u \ {Max(u)}] \in T
        PROVE  h[u] = F[<<h[u \ {Max(u)}], Max(u)>>]
    <3>1. Max(u) \in 1 .. n /\ s[Max(u)] = Max(u)
      BY <1>1, <1>7, <2>3
    <3>2. h[u] = WalkUnreliable(p, h[u \ {Max(u)}], Max(u))
      BY <2>1, <2>3, <3>1
    <3> QED BY <1>6, <2>3, <3>1, <3>2
  <2> QED BY <2>2, <2>3 DEF Obeys
<1> HIDE DEF h, Value, IsFold
<1>10. PICK r \in [0 .. n -> T] : IsRun(r, b, F, n) /\ h[1 .. n] = r[n]
  <2>1. n \in Nat /\ b \in T /\ F \in Turns(T, n) /\ Obeys(h, b, F, T, n)
    BY <1>1, <1>3, <1>5, <1>9
  <2> QED BY <2>1, FoldRuns
<1>11. ASSUME NEW i \in 1 .. n
       PROVE  r[i] = WalkUnreliable(p, r[i - 1], i) /\ r[i - 1] \in T
  <2>1. r[i] = F[<<r[i - 1], i>>] /\ i - 1 \in 0 .. n
    BY <1>1, <1>10 DEF IsRun
  <2> QED BY <1>6, <1>10, <2>1
<1>12. r[0] = b /\ end = r[n]
  BY <1>1, <1>10 DEF IsRun
<1> HIDE DEF end
<1>13. ASSUME NEW i \in 1 .. n PROVE Turn(p, r[i], r[i - 1], q[i], i)
  BY <1>11, WalkTurn DEF n, T
<1>14. IsWalk(r, p)
  BY <1>2, <1>10, <1>12, <1>13 DEF IsWalk, n, T, b
<1> QED BY <1>14

-----------------------------------------------------------------------------
(* Sequences taken apart and put together.                                 *)

LeadOf(q, n) == SubSeq(q, 1, n)
RestOf(q, n) == SubSeq(q, n + 1, Len(q))

LEMMA Parted ==
    ASSUME NEW S, NEW q \in Seq(S), NEW n \in 0 .. Len(q)
    PROVE  /\ LeadOf(q, n) \in Seq(S) /\ Len(LeadOf(q, n)) = n /\ \A i \in 1 .. n : LeadOf(q, n)[i] = q[i]
           /\ RestOf(q, n) \in Seq(S) /\ Len(RestOf(q, n)) = Len(q) - n
           /\ \A i \in 1 .. Len(q) - n : RestOf(q, n)[i] = q[n + i]
           /\ LeadOf(q, n) \o RestOf(q, n) = q
<1> DEFINE l == Len(q)
           m == n + 1
<1>1. l \in Nat /\ n \in 0 .. l /\ \A i \in 1 .. l : q[i] \in S
  BY LenProperties, ElementOfSeq
<1>2. LeadOf(q, n) \in Seq(S) /\ Len(LeadOf(q, n)) = n /\ \A i \in 1 .. n : LeadOf(q, n)[i] = q[i]
  <2> DEFINE one == 1
  <2>1. one = 1 /\ one \in Int /\ n \in Int /\ \A i \in one .. n : q[i] \in S
    BY <1>1
  <2> HIDE DEF one, l
  <2>2. /\ SubSeq(q, one, n) \in Seq(S)
        /\ Len(SubSeq(q, one, n)) = IF one <= n THEN n - one + 1 ELSE 0
        /\ \A i \in 1 .. n - one + 1 : SubSeq(q, one, n)[i] = q[one + i - 1]
    BY <2>1, SubSeqProperties
  <2>3. \A i \in 1 .. n : one + i - 1 = i
    BY <2>1
  <2> QED BY <1>1, <2>1, <2>2, <2>3 DEF LeadOf
<1>3. /\ RestOf(q, n) \in Seq(S) /\ Len(RestOf(q, n)) = l - n
      /\ \A i \in 1 .. l - n : RestOf(q, n)[i] = q[n + i]
  <2>1. m = n + 1 /\ m \in Int /\ l \in Int /\ \A i \in m .. l : q[i] \in S
    BY <1>1
  <2>2. RestOf(q, n) = SubSeq(q, m, l)
    BY DEF RestOf
  <2> HIDE DEF m, l
  <2>3. /\ SubSeq(q, m, l) \in Seq(S)
        /\ Len(SubSeq(q, m, l)) = IF m <= l THEN l - m + 1 ELSE 0
        /\ \A i \in 1 .. l - m + 1 : SubSeq(q, m, l)[i] = q[m + i - 1]
    BY <2>1, SubSeqProperties
  <2>4. \A i \in 1 .. l - n : m + i - 1 = n + i
    BY <1>1, <2>1
  <2> QED BY <1>1, <2>1, <2>2, <2>3, <2>4
<1>4. LeadOf(q, n) \o RestOf(q, n) = q
  <2> DEFINE a == LeadOf(q, n)
             b == RestOf(q, n)
  <2> HIDE DEF a, b, l
  <2>1. a \in Seq(S) /\ b \in Seq(S) /\ Len(a) = n /\ Len(b) = l - n
    BY <1>2, <1>3 DEF a, b
  <2>2. /\ a \o b \in Seq(S) /\ Len(a \o b) = Len(a) + Len(b)
        /\ \A i \in 1 .. Len(a) + Len(b) : (a \o b)[i] = IF i <= Len(a) THEN a[i] ELSE b[i - Len(a)]
    BY <2>1, ConcatProperties
  <2>3. Len(a \o b) = l /\ Len(a) + Len(b) = l
    BY <1>1, <2>1, <2>2
  <2>4. ASSUME NEW i \in 1 .. l PROVE (a \o b)[i] = q[i]
    <3>1. (a \o b)[i] = IF i <= n THEN a[i] ELSE b[i - n]
      BY <2>1, <2>2, <2>3
    <3>2. CASE i <= n
      BY <1>1, <1>2, <3>1, <3>2 DEF a
    <3>3. CASE ~ i <= n
      <4>1. i - n \in 1 .. l - n /\ n + (i - n) = i
        BY <1>1, <3>3
      <4> QED BY <1>3, <3>1, <3>3, <4>1 DEF b
    <3> QED BY <3>2, <3>3
  <2>5. l = Len(q)
    BY DEF l
  <2> DEFINE c == a \o b
  <2>6. c \in Seq(S) /\ Len(c) = Len(q) /\ \A i \in 1 .. Len(c) : c[i] = q[i]
    BY <2>2, <2>3, <2>4, <2>5
  <2> HIDE DEF c
  <2>7. c = q
    BY <2>6, SeqEqual
  <2> QED BY <2>7 DEF c, a, b
<1> QED BY <1>2, <1>3, <1>4

LEMMA PartedSums ==
    ASSUME NEW S, NEW L \in [S -> Int], NEW q \in Seq(S), NEW n \in 0 .. Len(q)
    PROVE  SeqSum(L, LeadOf(q, n)) + SeqSum(L, RestOf(q, n)) = SeqSum(L, q)
<1>1. LeadOf(q, n) \in Seq(S) /\ RestOf(q, n) \in Seq(S) /\ LeadOf(q, n) \o RestOf(q, n) = q
  BY Parted
<1> DEFINE a == LeadOf(q, n)
           b == RestOf(q, n)
<1>2. a \in Seq(S) /\ b \in Seq(S) /\ a \o b = q
  BY <1>1
<1> HIDE DEF a, b
<1>3. SeqSum(L, a \o b) = SeqSum(L, a) + SeqSum(L, b)
  BY <1>2, SeqSumConcat
<1> QED BY <1>2, <1>3 DEF a, b

\* An entry put in behind position n.
LEMMA Inserted ==
    ASSUME NEW S, NEW q \in Seq(S), NEW n \in 0 .. Len(q), NEW e \in S
    PROVE  /\ InsertAt(q, n + 1, e) \in Seq(S) /\ Len(InsertAt(q, n + 1, e)) = Len(q) + 1
           /\ \A i \in 1 .. n : InsertAt(q, n + 1, e)[i] = q[i]
           /\ InsertAt(q, n + 1, e)[n + 1] = e
           /\ \A i \in n + 1 .. Len(q) : InsertAt(q, n + 1, e)[i + 1] = q[i]
           /\ \A L \in [S -> Int] : SeqSum(L, InsertAt(q, n + 1, e)) = SeqSum(L, q) + L[e]
<1> DEFINE a == LeadOf(q, n)
           b == RestOf(q, n)
           o == <<e>>
           l == Len(q)
           x == a \o o
           t == InsertAt(q, n + 1, e)
<1>1. /\ a \in Seq(S) /\ Len(a) = n /\ \A i \in 1 .. n : a[i] = q[i]
      /\ b \in Seq(S) /\ Len(b) = l - n /\ \A i \in 1 .. l - n : b[i] = q[n + i]
  BY Parted
<1>2. o \in Seq(S) /\ Len(o) = 1 /\ o[1] = e
  OBVIOUS
<1>3. l \in Nat /\ n \in 0 .. l
  BY LenProperties
<1>4. t = x \o b
  <2>1. (n + 1) - 1 = n
    BY <1>3
  <2>2. LeadOf(q, n) = SubSeq(q, 1, n) /\ RestOf(q, n) = SubSeq(q, n + 1, Len(q))
    BY DEF LeadOf, RestOf
  <2>3. InsertAt(q, n + 1, e) = SubSeq(q, 1, (n + 1) - 1) \o <<e>> \o SubSeq(q, n + 1, Len(q))
    BY DEF InsertAt
  <2> QED BY <2>1, <2>2, <2>3, Zenon DEF t, x, a, b, o
<1>5. \A L \in [S -> Int] : SeqSum(L, q) = SeqSum(L, a) + SeqSum(L, b)
  <2>1. ASSUME NEW L \in [S -> Int] PROVE SeqSum(L, q) = SeqSum(L, a) + SeqSum(L, b)
    BY PartedSums
  <2> QED BY <2>1
<1>6. \A L \in [S -> Int] : SeqSum(L, o) = L[e]
  <2>1. ASSUME NEW L \in [S -> Int] PROVE SeqSum(L, o) = L[e]
    BY SeqSumOfOne
  <2> QED BY <2>1
<1>7. l = Len(q)
  OBVIOUS
<1> HIDE DEF a, b, o, l
<1>8. x \in Seq(S) /\ Len(x) = n + 1 /\ \A i \in 1 .. n + 1 : x[i] = IF i <= n THEN a[i] ELSE o[i - n]
  <2>1. /\ x \in Seq(S) /\ Len(x) = Len(a) + Len(o)
        /\ \A i \in 1 .. Len(a) + Len(o) : x[i] = IF i <= Len(a) THEN a[i] ELSE o[i - Len(a)]
    BY <1>1, <1>2, ConcatProperties
  <2> HIDE DEF x
  <2> QED BY <1>1, <1>2, <1>3, <2>1
<1>9. \A L \in [S -> Int] : SeqSum(L, x) = SeqSum(L, a) + L[e]
  <2>1. ASSUME NEW L \in [S -> Int] PROVE SeqSum(L, x) = SeqSum(L, a) + L[e]
    <3>1. SeqSum(L, a \o o) = SeqSum(L, a) + SeqSum(L, o)
      BY <1>1, <1>2, SeqSumConcat
    <3> QED BY <1>6, <3>1
  <2> QED BY <2>1
<1> HIDE DEF x
<1>10. t \in Seq(S) /\ Len(t) = l + 1 /\ \A i \in 1 .. l + 1 : t[i] = IF i <= n + 1 THEN x[i] ELSE b[i - (n + 1)]
  <2> DEFINE y == x \o b
  <2>1. /\ y \in Seq(S) /\ Len(y) = Len(x) + Len(b)
        /\ \A i \in 1 .. Len(x) + Len(b) : y[i] = IF i <= Len(x) THEN x[i] ELSE b[i - Len(x)]
    <3>1. x \in Seq(S) /\ b \in Seq(S)
      BY <1>1, <1>8
    <3> QED BY <3>1, ConcatProperties
  <2> HIDE DEF y, t
  <2>2. Len(x) + Len(b) = l + 1
    BY <1>1, <1>3, <1>8
  <2> QED BY <1>4, <1>8, <2>1, <2>2 DEF y
<1>11. \A L \in [S -> Int] : SeqSum(L, t) = SeqSum(L, q) + L[e]
  <2>1. ASSUME NEW L \in [S -> Int] PROVE SeqSum(L, t) = SeqSum(L, q) + L[e]
    <3>1. SeqSum(L, x \o b) = SeqSum(L, x) + SeqSum(L, b)
      <4>1. x \in Seq(S) /\ b \in Seq(S)
        BY <1>1, <1>8
      <4> QED BY <4>1, SeqSumConcat
    <3>2. SeqSum(L, a) \in Int /\ SeqSum(L, b) \in Int /\ L[e] \in Int
      BY <1>1, SeqSumType
    <3>3. SeqSum(L, x) = SeqSum(L, a) + L[e] /\ SeqSum(L, q) = SeqSum(L, a) + SeqSum(L, b)
          /\ SeqSum(L, t) = SeqSum(L, x) + SeqSum(L, b)
      BY <1>4, <1>5, <1>9, <3>1
    <3> HIDE DEF t
    <3> QED BY <3>2, <3>3
  <2> QED BY <2>1
<1> HIDE DEF t
<1>12. ASSUME NEW i \in 1 .. n PROVE t[i] = q[i]
  <2>1. i \in 1 .. n + 1 /\ i \in 1 .. l + 1 /\ i <= n + 1 /\ i <= n
    BY <1>3
  <2> QED BY <1>1, <1>8, <1>10, <2>1
<1>13. t[n + 1] = e
  <2>1. n + 1 \in 1 .. n + 1 /\ n + 1 \in 1 .. l + 1 /\ ~ n + 1 <= n /\ n + 1 - n = 1
    BY <1>3
  <2> QED BY <1>2, <1>8, <1>10, <2>1
<1>14. ASSUME NEW i \in n + 1 .. l PROVE t[i + 1] = q[i]
  <2>1. i + 1 \in 1 .. l + 1 /\ ~ i + 1 <= n + 1 /\ i + 1 - (n + 1) = i - n /\ i - n \in 1 .. l - n /\ n + (i - n) = i
    BY <1>3
  <2>2. t[i + 1] = b[i - n]
    BY <1>10, <2>1
  <2>3. b[i - n] = q[n + (i - n)]
    BY <1>1, <2>1
  <2> QED BY <2>1, <2>2, <2>3
<1> QED BY <1>7, <1>10, <1>11, <1>12, <1>13, <1>14 DEF t

LEMMA SeqSumAlike ==
    ASSUME NEW S, NEW L \in [S -> Int], NEW q \in Seq(S), NEW t \in Seq(S),
           Len(q) = Len(t), \A i \in 1 .. Len(q) : L[q[i]] = L[t[i]]
    PROVE  SeqSum(L, q) = SeqSum(L, t)
<1>1. PICK m \in [0 .. Len(q) -> Int] : SeqSums(m, L, q)
  BY SeqSumsExist
<1>2. SeqSums(m, L, t) /\ m \in [0 .. Len(t) -> Int]
  BY <1>1 DEF SeqSums
<1>3. SeqSum(L, q) = m[Len(q)]
  BY <1>1, SeqSumIs
<1>4. SeqSum(L, t) = m[Len(t)]
  BY <1>2, SeqSumIs
<1> QED BY <1>3, <1>4

\* Size is the sum of the parts of the packets in a list.
Weight == [e \in Entries |-> Parts(e.kind)]

LEMMA WeightIs == Weight \in [Entries -> Nat] /\ Weight \in [Entries -> Int]
                  /\ \A e \in Entries : Weight[e] = Parts(e.kind) /\ Weight[e] \in 1 .. 2
  BY DEF Weight, Parts

LEMMA SizeIsSum ==
    ASSUME NEW p \in Seq(Entries)
    PROVE  Size(p) = SeqSum(Weight, p)
<1> DEFINE n == Len(p)
           s == p
           b == 0
           T == Nat
           F == [y \in T \X (1 .. n) |-> (y[1] + Parts(s[y[2]].kind))]
           Value(g, u) == IF u = {} THEN b ELSE (g[u \ {Max(u)}] + Parts(s[Max(u)].kind))
           IsFold(g) == g = [u \in SUBSET DOMAIN s |-> Value(g, u)]
           h == CHOOSE g : IsFold(g)
           end == h[DOMAIN s]
<1>1. n \in Nat /\ DOMAIN s = 1 .. n /\ \A i \in 1 .. n : s[i] = p[i] /\ p[i] \in Entries
  <2>1. n \in Nat /\ DOMAIN p = 1 .. n /\ \A i \in 1 .. n : p[i] \in Entries
    BY LenProperties, ElementOfSeq
  <2> QED BY <2>1
<1>2. Size(p) = end
  BY Zenon DEF Size, FoldLeft, MapThenFoldSet
<1>3. b \in T
  OBVIOUS
<1>4. ASSUME NEW x \in T, NEW i \in 1 .. n PROVE (x + Parts(s[i].kind)) \in T
  <2>1. Parts(s[i].kind) \in Nat
    BY DEF Parts
  <2> QED BY <2>1
<1> HIDE DEF n, T, b
<1>5. F \in Turns(T, n)
  <2>1. ASSUME NEW y \in T \X (1 .. n) PROVE (y[1] + Parts(s[y[2]].kind)) \in T
    BY <1>4
  <2> QED BY <2>1 DEF Turns
<1>6. \A y \in T : \A i \in 1 .. n : F[<<y, i>>] = (y + Parts(s[i].kind))
  OBVIOUS
<1> HIDE DEF F
<1>7. ASSUME NEW u \in SUBSET (1 .. n), u # {}
      PROVE  Max(u) \in 1 .. n /\ u \ {Max(u)} \in SUBSET (1 .. n)
  BY <1>1, <1>7, LastPosition
<1>8. IsFold(h)
  <2>0. PICK g \in [SUBSET (1 .. n) -> T] : IsFoldOf(g, b, F, n)
    <3>1. n \in Nat /\ b \in T /\ F \in Turns(T, n)
      BY <1>1, <1>3, <1>5
    <3> QED BY <3>1, FoldsObey, Zenon
  <2>1. \A u \in SUBSET (1 .. n) : g[u] = IF u = {} THEN b ELSE F[<<g[u \ {Max(u)}], Max(u)>>]
    BY <2>0 DEF IsFoldOf
  <2>2. ASSUME NEW u \in SUBSET (1 .. n) PROVE g[u] = Value(g, u)
    <3>1. CASE u = {}
      BY <2>1, <3>1
    <3>2. CASE u # {}
      <4>1. Max(u) \in 1 .. n /\ g[u \ {Max(u)}] \in T
        BY <1>7, <2>1, <3>2
      <4>2. F[<<g[u \ {Max(u)}], Max(u)>>] = (g[u \ {Max(u)}] + Parts(s[Max(u)].kind))
        BY <1>6, <4>1
      <4>3. s[Max(u)] = p[Max(u)]
        BY <1>1, <4>1
      <4> QED BY <2>1, <3>2, <4>2, <4>3
    <3> QED BY <3>1, <3>2
  <2>3. IsFold(g)
    <3> HIDE DEF Value
    <3> QED BY <1>1, <2>1, <2>2
  <2> HIDE DEF IsFold
  <2> QED BY <2>3
<1>9. Obeys(h, b, F, T, n)
  <2>1. ASSUME NEW u \in SUBSET (1 .. n) PROVE h[u] = Value(h, u)
    <3> HIDE DEF Value, h
    <3> QED BY <1>1, <1>8
  <2> HIDE DEF h
  <2>2. ASSUME NEW u \in SUBSET (1 .. n), u = {} PROVE h[u] = b
    BY <2>1, <2>2
  <2>3. ASSUME NEW u \in SUBSET (1 .. n), u # {}, h[u \ {Max(u)}] \in T
        PROVE  h[u] = F[<<h[u \ {Max(u)}], Max(u)>>]
    <3>1. Max(u) \in 1 .. n /\ s[Max(u)] = p[Max(u)]
      BY <1>1, <1>7, <2>3
    <3>2. h[u] = (h[u \ {Max(u)}] + Parts(s[Max(u)].kind))
      BY <2>1, <2>3, <3>1
    <3> QED BY <1>6, <2>3, <3>1, <3>2
  <2> QED BY <2>2, <2>3 DEF Obeys
<1> HIDE DEF h, Value, IsFold
<1>10. PICK r \in [0 .. n -> T] : IsRun(r, b, F, n) /\ h[1 .. n] = r[n]
  <2>1. n \in Nat /\ b \in T /\ F \in Turns(T, n) /\ Obeys(h, b, F, T, n)
    BY <1>1, <1>3, <1>5, <1>9
  <2> QED BY <2>1, FoldRuns
<1>11. ASSUME NEW i \in 1 .. n PROVE r[i] = r[i - 1] + Weight[p[i]]
  <2>1. r[i] = F[<<r[i - 1], i>>] /\ i - 1 \in 0 .. n
    BY <1>1, <1>10 DEF IsRun
  <2>2. r[i] = r[i - 1] + Parts(s[i].kind)
    BY <1>6, <1>10, <2>1
  <2> QED BY <1>1, <2>2, WeightIs
<1>12. r[0] = 0 /\ end = r[n]
  BY <1>1, <1>10 DEF IsRun, b
<1> HIDE DEF end
<1>13. SeqSums(r, Weight, p) /\ r \in [0 .. Len(p) -> Int]
  BY <1>10, <1>11, <1>12 DEF SeqSums, n, T
<1>14. SeqSum(Weight, p) = r[Len(p)]
  BY <1>13, WeightIs, SeqSumIs
<1> QED BY <1>2, <1>12, <1>14 DEF n

-----------------------------------------------------------------------------
(* What handing packets over does to the record of the receiver.           *)

HeldBy(r) == SeqSum(Weight, r.reliables) + SeqSum(Weight, r.unreliables) + SeqSum(Weight, r.dispatched)

LEMMA WeighedNat ==
    ASSUME NEW q \in Seq(Entries)
    PROVE  SeqSum(Weight, q) \in Nat
  BY WeightIs, SeqSumNat

\* The walk over, and with its last run moved.
LEMMA WalkOverIs ==
    ASSUME NEW r \in Receivers
    PROVE  /\ \E h : IsWalk(h, r)
           /\ Walked(r) \in Walks
           /\ LET w == Walked(r)
                  end == IF w.stop > 0 THEN w.stop ELSE Len(r.unreliables) + 1
              IN  /\ end \in Nat
                  /\ WalkOver(r) \in Walks
                  /\ WalkOver(r).unreliable = w.unreliable
                  /\ w.start = end => WalkOver(r) = w
                  /\ w.start # end => /\ WalkOver(r).moved = w.moved \cup (w.start .. end - 1)
                                      /\ WalkOver(r).dropped = end
<1> DEFINE w == Walked(r)
           end == IF w.stop > 0 THEN w.stop ELSE Len(r.unreliables) + 1
<1>1. PICK h : IsWalk(h, r)
  BY WalkRuns
<1>2. Len(r.unreliables) \in Nat
  <2>1. r.unreliables \in Seq(Entries)
    BY DEF Receivers
  <2> QED BY <2>1, LenProperties
<1>3. w \in Walks
  <2> DEFINE n == Len(r.unreliables)
  <2>1. n \in 0 .. n /\ h \in [0 .. n -> Walks] /\ w = h[n]
    BY <1>1, <1>2 DEF IsWalk
  <2> HIDE DEF n, w
  <2> QED BY <2>1
<1>4. end \in Nat
  <2> DEFINE n == Len(r.unreliables)
  <2>1. n \in Nat /\ w.stop \in Nat
    BY <1>2, <1>3 DEF Walks
  <2> HIDE DEF n, w
  <2> QED BY <2>1 DEF n
<1>5. WalkOver(r) = IF w.start # end THEN [Move(w, end) EXCEPT !.dropped = end] ELSE w
  BY DEF WalkOver, Walked
<1> HIDE DEF w, end
<1>6. CASE w.start # end
  <2> DEFINE x == Move(w, end)
             v == [x EXCEPT !.dropped = end]
  <2>1. x \in Walks /\ x.start = w.start /\ x.moved = w.moved \cup (w.start .. end - 1)
        /\ x.unreliable = w.unreliable
    <3>1. w.moved \cup (w.start .. end - 1) \in SUBSET Nat
      <4>1. w.start \in Nat /\ w.moved \in SUBSET Nat
        BY <1>3 DEF Walks
      <4>2. \A k \in w.start .. end - 1 : k \in Nat
        BY <1>4, <4>1
      <4> QED BY <4>1, <4>2
    <3> DEFINE m == w.moved \cup (w.start .. end - 1)
    <3>2. x = [w EXCEPT !.moved = m]
      BY DEF Move
    <3> HIDE DEF m, x
    <3>3. m \in SUBSET Nat
      BY <3>1 DEF m
    <3>4. x \in Walks /\ x.start = w.start /\ x.moved = m /\ x.unreliable = w.unreliable
      BY <1>3, <3>2, <3>3 DEF Walks
    <3> QED BY <3>4 DEF m
  <2> HIDE DEF x
  <2>2. v \in Walks /\ v.start = x.start /\ v.moved = x.moved /\ v.unreliable = x.unreliable /\ v.dropped = end
    BY <1>4, <2>1 DEF Walks
  <2>3. WalkOver(r) = v
    BY <1>5, <1>6 DEF x
  <2> HIDE DEF v
  <2>4. /\ WalkOver(r) \in Walks /\ WalkOver(r).unreliable = w.unreliable
        /\ WalkOver(r).moved = w.moved \cup (w.start .. end - 1) /\ WalkOver(r).dropped = end
    BY <2>1, <2>2, <2>3
  <2> QED BY <1>1, <1>3, <1>4, <1>6, <2>4 DEF w, end
<1>7. CASE w.start = end
  BY <1>1, <1>3, <1>4, <1>5, <1>7 DEF w, end
<1> QED BY <1>6, <1>7

Staying(r, queued) == {i \in DOMAIN r.unreliables :
                          i \notin WalkOver(r).moved
                          /\ (i >= WalkOver(r).dropped \/ r.unreliables[i].id = queued)}

IsHandedOver(v, r, queued) ==
    /\ v \in Receivers /\ v.reliable = r.reliable /\ v.reliables = r.reliables /\ v.groups = r.groups
    /\ v.waiting = r.waiting /\ v.leaving = r.leaving
    /\ v.unreliable = WalkOver(r).unreliable
    /\ v.dispatched = r.dispatched \o Selected(r.unreliables, WalkOver(r).moved)
    /\ v.unreliables = Selected(r.unreliables, Staying(r, queued))
    /\ HeldBy(v) <= HeldBy(r)

LEMMA UnreliableHandedOver ==
    ASSUME NEW r \in Receivers, NEW queued
    PROVE  IsHandedOver(DispatchUnreliable(r, queued), r, queued)
<1> DEFINE q == r.unreliables
           a == WalkOver(r).unreliable
           m == Selected(q, WalkOver(r).moved)
           b == r.dispatched \o m
           c == Selected(q, Staying(r, queued))
           v == DispatchUnreliable(r, queued)
<1>1. v = [r EXCEPT !.unreliable = a, !.dispatched = b, !.unreliables = c]
  BY DEF DispatchUnreliable, Staying
<1>2. q \in Seq(Entries) /\ r.dispatched \in Seq(Entries) /\ r.reliables \in Seq(Entries)
  BY DEF Receivers
<1>3. a \in Nat
  BY WalkOverIs DEF Walks
<1>4. m \in Seq(Entries) /\ c \in Seq(Entries)
  BY <1>2, SelectedIs
<1>5. b \in Seq(Entries) /\ SeqSum(Weight, b) = SeqSum(Weight, r.dispatched) + SeqSum(Weight, m)
  <2> HIDE DEF m
  <2>1. b \in Seq(Entries)
    BY <1>2, <1>4, ConcatProperties
  <2> QED BY <1>2, <1>4, <2>1, WeightIs, SeqSumConcat
<1>6. SeqSum(Weight, m) + SeqSum(Weight, c) <= SeqSum(Weight, q)
  <2> DEFINE K == WalkOver(r).moved
             J == Staying(r, queued)
  <2>1. K \cap J = {}
    BY DEF Staying
  <2> HIDE DEF K, J
  <2>2. SeqSum(Weight, Selected(q, K)) + SeqSum(Weight, Selected(q, J)) <= SeqSum(Weight, q)
    BY <1>2, <2>1, WeightIs, SelectedSums
  <2> QED BY <2>2 DEF K, J
<1> HIDE DEF v, a, b, c, q, m
<1>7. /\ v \in Receivers /\ v.reliable = r.reliable /\ v.reliables = r.reliables /\ v.groups = r.groups
      /\ v.waiting = r.waiting /\ v.leaving = r.leaving
      /\ v.unreliable = a /\ v.dispatched = b /\ v.unreliables = c
  BY <1>1, <1>3, <1>4, <1>5 DEF Receivers
<1>8. HeldBy(v) <= HeldBy(r)
  <2>1. SeqSum(Weight, q) \in Nat /\ SeqSum(Weight, m) \in Nat /\ SeqSum(Weight, c) \in Nat
        /\ SeqSum(Weight, r.reliables) \in Nat /\ SeqSum(Weight, r.dispatched) \in Nat
    BY <1>2, <1>4, WeighedNat
  <2>2. HeldBy(v) = SeqSum(Weight, r.reliables) + SeqSum(Weight, c) + (SeqSum(Weight, r.dispatched) + SeqSum(Weight, m))
    BY <1>5, <1>7 DEF HeldBy
  <2>3. HeldBy(r) = SeqSum(Weight, r.reliables) + SeqSum(Weight, q) + SeqSum(Weight, r.dispatched)
    BY DEF HeldBy, q
  <2> QED BY <1>6, <2>1, <2>2, <2>3
<1> QED BY <1>7, <1>8 DEF IsHandedOver, v, a, b, c, m, q

\* The reliable commands that are next in line: up to which number each brings the channel, and how many.
LastUpTo(r, i) == IF i = 0 THEN r.reliable
                  ELSE (r.reliables[i].reliable + Parts(r.reliables[i].kind) - 1) % Modulus
LineOf(r) == {i \in 0 .. Len(r.reliables) :
                 \A k \in 1 .. i : NextInLine(LastUpTo(r, k - 1), r.reliables[k])}
Line(r) == Max(LineOf(r))
InLineMoved(r) == [r EXCEPT !.reliable = LastUpTo(r, Line(r)), !.unreliable = 0,
                            !.dispatched = @ \o LeadOf(r.reliables, Line(r)),
                            !.reliables = RestOf(r.reliables, Line(r))]

LEMMA ReliableIs ==
    ASSUME NEW r, NEW queued
    PROVE  DispatchReliable(r, queued) =
              IF Line(r) = 0 THEN r
              ELSE IF r.unreliables = << >> THEN InLineMoved(r)
              ELSE DispatchUnreliable(InLineMoved(r), queued)
  BY Zenon DEF DispatchReliable, Line, LineOf, LastUpTo, InLineMoved, LeadOf, RestOf

LEMMA LastUpToType ==
    ASSUME NEW r \in Receivers, NEW i \in 0 .. Len(r.reliables)
    PROVE  LastUpTo(r, i) \in 0 .. Modulus - 1
<1>1. CASE i = 0
  BY <1>1 DEF LastUpTo, Receivers
<1>2. CASE i # 0
  <2> DEFINE e == r.reliables[i]
             x == e.reliable + Parts(e.kind) - 1
  <2>1. e \in Entries
    <3>1. r.reliables \in Seq(Entries) /\ i \in 1 .. Len(r.reliables)
      BY <1>2 DEF Receivers
    <3> QED BY <3>1, ElementOfSeq
  <2>2. x \in Nat
    <3> HIDE DEF e
    <3>1. e.reliable \in Nat /\ Parts(e.kind) \in 1 .. 2
      BY <2>1, Sizes DEF Entries, Parts
    <3> QED BY <3>1
  <2> HIDE DEF x
  <2>3. x % Modulus \in 0 .. Modulus - 1
    BY <2>2, Sizes
  <2>4. LastUpTo(r, i) = x % Modulus
    BY <1>2 DEF LastUpTo, x
  <2> QED BY <2>3, <2>4
<1> QED BY <1>1, <1>2

LEMMA LineIs ==
    ASSUME NEW r \in Receivers
    PROVE  /\ Len(r.reliables) \in Nat
           /\ Line(r) \in 0 .. Len(r.reliables)
           /\ \A k \in 1 .. Line(r) : NextInLine(LastUpTo(r, k - 1), r.reliables[k])
           /\ Line(r) < Len(r.reliables)
                 => ~ NextInLine(LastUpTo(r, Line(r)), r.reliables[Line(r) + 1])
<1> DEFINE n == Len(r.reliables)
           u == LineOf(r)
           l == Line(r)
<1>1. n \in Nat
  <2>1. r.reliables \in Seq(Entries)
    BY DEF Receivers
  <2> QED BY <2>1, LenProperties
<1>2. u \in SUBSET (0 .. n) /\ u # {}
  <2>1. 0 \in u
    <3> HIDE DEF n
    <3>1. 0 \in 0 .. n /\ \A k \in 1 .. 0 : NextInLine(LastUpTo(r, k - 1), r.reliables[k])
      BY <1>1
    <3> QED BY <3>1 DEF LineOf, n
  <2> QED BY <2>1 DEF LineOf
<1>3. l \in u /\ \A k \in u : k <= l
  <2> HIDE DEF u, n
  <2>1. Max(u) \in u /\ \A k \in u : k <= Max(u)
    BY <1>1, <1>2, Greatest
  <2> QED BY <2>1 DEF Line, u
<1>4. l \in 0 .. n /\ \A k \in 1 .. l : NextInLine(LastUpTo(r, k - 1), r.reliables[k])
  BY <1>3 DEF LineOf
<1>5. ASSUME l < n, NextInLine(LastUpTo(r, l), r.reliables[l + 1]) PROVE FALSE
  <2> DEFINE j == l + 1
  <2> HIDE DEF l
  <2>1. j \in 0 .. n /\ j - 1 = l
    BY <1>1, <1>4, <1>5
  <2>2. ASSUME NEW k \in 1 .. j PROVE NextInLine(LastUpTo(r, k - 1), r.reliables[k])
    <3>1. CASE k = j
      BY <1>5, <2>1, <3>1
    <3>2. CASE k # j
      <4>1. k \in 1 .. l
        BY <1>1, <1>4, <3>2
      <4> QED BY <1>4, <4>1
    <3> QED BY <3>1, <3>2
  <2>3. j \in u
    <3> HIDE DEF j
    <3> QED BY <2>1, <2>2 DEF LineOf
  <2>4. j <= l
    BY <1>3, <2>3
  <2> QED BY <1>1, <1>4, <2>4
<1> QED BY <1>1, <1>4, <1>5

IsMovedInLine(v, r) ==
    /\ v \in Receivers /\ v.unreliables = r.unreliables /\ v.groups = r.groups
    /\ v.waiting = r.waiting /\ v.leaving = r.leaving
    /\ v.reliable = LastUpTo(r, Line(r)) /\ v.unreliable = 0
    /\ v.dispatched = r.dispatched \o LeadOf(r.reliables, Line(r))
    /\ v.reliables = RestOf(r.reliables, Line(r))
    /\ HeldBy(v) = HeldBy(r)

LEMMA ReliableMoved ==
    ASSUME NEW r \in Receivers
    PROVE  IsMovedInLine(InLineMoved(r), r)
<1> DEFINE n == Line(r)
           q == r.reliables
           x == LastUpTo(r, n)
           a == LeadOf(q, n)
           b == RestOf(q, n)
           d == r.dispatched \o a
           v == InLineMoved(r)
<1>1. q \in Seq(Entries) /\ r.dispatched \in Seq(Entries) /\ r.unreliables \in Seq(Entries)
  BY DEF Receivers
<1>2. n \in 0 .. Len(q)
  BY LineIs
<1>3. x \in 0 .. Modulus - 1
  BY <1>2, LastUpToType
<1> HIDE DEF n, q, x
<1>4. a \in Seq(Entries) /\ b \in Seq(Entries)
  BY <1>1, <1>2, Parted
<1>5. SeqSum(Weight, a) + SeqSum(Weight, b) = SeqSum(Weight, q)
  BY <1>1, <1>2, WeightIs, PartedSums
<1> HIDE DEF a, b
<1>6. d \in Seq(Entries) /\ SeqSum(Weight, d) = SeqSum(Weight, r.dispatched) + SeqSum(Weight, a)
  <2>1. d \in Seq(Entries)
    BY <1>1, <1>4, ConcatProperties
  <2> QED BY <1>1, <1>4, <2>1, WeightIs, SeqSumConcat
<1>7. v = [r EXCEPT !.reliable = x, !.unreliable = 0, !.dispatched = d, !.reliables = b]
  BY DEF InLineMoved, x, n, d, b, a, q
<1> HIDE DEF v, d
<1>8. /\ v \in Receivers /\ v.unreliables = r.unreliables /\ v.groups = r.groups
      /\ v.waiting = r.waiting /\ v.leaving = r.leaving
      /\ v.reliable = x /\ v.unreliable = 0 /\ v.dispatched = d /\ v.reliables = b
  BY <1>3, <1>4, <1>6, <1>7 DEF Receivers
<1>9. HeldBy(v) = HeldBy(r)
  <2>1. SeqSum(Weight, q) \in Nat /\ SeqSum(Weight, a) \in Nat /\ SeqSum(Weight, b) \in Nat
        /\ SeqSum(Weight, r.unreliables) \in Nat /\ SeqSum(Weight, r.dispatched) \in Nat
    BY <1>1, <1>4, WeighedNat
  <2>2. HeldBy(v) = SeqSum(Weight, b) + SeqSum(Weight, r.unreliables) + (SeqSum(Weight, r.dispatched) + SeqSum(Weight, a))
    BY <1>6, <1>8 DEF HeldBy
  <2>3. HeldBy(r) = SeqSum(Weight, q) + SeqSum(Weight, r.unreliables) + SeqSum(Weight, r.dispatched)
    BY DEF HeldBy, q
  <2> QED BY <1>5, <2>1, <2>2, <2>3
<1> QED BY <1>8, <1>9 DEF IsMovedInLine, v, d, a, b, x, n, q

\* Handing over keeps the types, and what is held does not grow.
KeepsHeld(v, r) ==
    v \in Receivers /\ v.groups = r.groups /\ v.waiting = r.waiting /\ v.leaving = r.leaving
    /\ HeldBy(v) <= HeldBy(r)

LEMMA HeldNat ==
    ASSUME NEW r \in Receivers
    PROVE  HeldBy(r) \in Nat
<1>1. r.reliables \in Seq(Entries) /\ r.unreliables \in Seq(Entries) /\ r.dispatched \in Seq(Entries)
  BY DEF Receivers
<1>2. SeqSum(Weight, r.reliables) \in Nat /\ SeqSum(Weight, r.unreliables) \in Nat
      /\ SeqSum(Weight, r.dispatched) \in Nat
  BY <1>1, WeighedNat
<1> QED BY <1>2 DEF HeldBy

LEMMA DispatchHolds ==
    ASSUME NEW r \in Receivers, NEW kind, NEW queued
    PROVE  KeepsHeld(Dispatch(r, kind, queued), r)
<1>1. ASSUME NEW p \in Receivers PROVE KeepsHeld(DispatchUnreliable(p, queued), p)
  BY UnreliableHandedOver DEF IsHandedOver, KeepsHeld
<1>2. KeepsHeld(r, r)
  BY HeldNat DEF KeepsHeld
<1> DEFINE p == InLineMoved(r)
<1>3. p \in Receivers /\ KeepsHeld(p, r)
  <2>1. IsMovedInLine(p, r)
    BY ReliableMoved
  <2>2. HeldBy(r) \in Nat
    BY HeldNat
  <2> HIDE DEF p
  <2> QED BY <2>1, <2>2 DEF IsMovedInLine, KeepsHeld
<1>4. KeepsHeld(DispatchUnreliable(p, queued), r)
  <2> DEFINE v == DispatchUnreliable(p, queued)
  <2>1. KeepsHeld(v, p)
    BY <1>1, <1>3
  <2> HIDE DEF p, v
  <2>2. HeldBy(r) \in Nat /\ HeldBy(p) \in Nat /\ HeldBy(v) \in Nat
    BY <1>3, <2>1, HeldNat DEF KeepsHeld
  <2>3. KeepsHeld(v, r)
    BY <1>3, <2>1, <2>2 DEF KeepsHeld
  <2> QED BY <2>3 DEF v
<1>5. KeepsHeld(DispatchReliable(r, queued), r)
  <2> HIDE DEF p
  <2> QED BY <1>2, <1>3, <1>4, ReliableIs DEF p
<1> QED BY <1>1, <1>5 DEF Dispatch

-----------------------------------------------------------------------------
(* A command put into its list, and a part marked.                         *)

LEMMA QueueType ==
    ASSUME NEW r \in Receivers, NEW c
    PROVE  /\ Queue(r, c) \in Seq(Entries)
           /\ Stop(r, c) \in 0 .. Len(Queue(r, c))
<1>1. r.reliables \in Seq(Entries) /\ r.unreliables \in Seq(Entries)
  BY DEF Receivers
<1>2. ASSUME NEW q \in Seq(Entries), NEW u \in SUBSET DOMAIN q
      PROVE  Max({0} \cup u) \in 0 .. Len(q)
  <2> DEFINE n == Len(q)
             s == {0} \cup u
  <2>1. n \in Nat /\ DOMAIN q = 1 .. n
    BY LenProperties
  <2>2. s \in SUBSET (0 .. n) /\ s # {}
    <3> HIDE DEF n
    <3> QED BY <2>1
  <2>3. n = Len(q)
    OBVIOUS
  <2> HIDE DEF n, s
  <2>4. Max(s) \in 0 .. n
    BY <2>1, <2>2, Greatest
  <2> QED BY <2>3, <2>4 DEF s
<1> DEFINE p == r.reliables
           q == r.unreliables
           u == {i \in DOMAIN p : ~ PassesReliable(r.reliable, p[i], c.reliable)}
           v == {i \in DOMAIN q : ~ PassesUnreliable(r.reliable, q[i], c.reliable, c.unreliable)}
<1>3. u \in SUBSET DOMAIN p /\ v \in SUBSET DOMAIN q
  OBVIOUS
<1>4. StopReliable(r, c) = Max({0} \cup u) /\ StopUnreliable(r, c) = Max({0} \cup v)
  BY DEF StopReliable, StopUnreliable
<1> HIDE DEF u, v
<1>5. StopReliable(r, c) \in 0 .. Len(p) /\ StopUnreliable(r, c) \in 0 .. Len(q)
  <2>1. Max({0} \cup u) \in 0 .. Len(p)
    BY <1>1, <1>2, <1>3
  <2>2. Max({0} \cup v) \in 0 .. Len(q)
    BY <1>1, <1>2, <1>3
  <2> QED BY <1>4, <2>1, <2>2
<1>6. 0 \in 0 .. Len(q)
  <2>1. Len(q) \in Nat
    BY <1>1, LenProperties
  <2> QED BY <2>1
<1>7. CASE Reliable(c.kind)
  BY <1>1, <1>5, <1>7 DEF Stop, Queue
<1>8. CASE ~ Reliable(c.kind)
  <2>1. Queue(r, c) = q
    BY <1>8 DEF Queue
  <2>2. Stop(r, c) = 0 \/ Stop(r, c) = StopUnreliable(r, c)
    BY <1>8 DEF Stop
  <2> QED BY <1>1, <1>5, <1>6, <2>1, <2>2
<1> QED BY <1>7, <1>8

Entry(c) == [id |-> c.id, kind |-> c.kind, reliable |-> c.reliable,
             unreliable |-> c.unreliable, got |-> IF Parts(c.kind) = 1 THEN {1} ELSE {}]
Longer(r, c) == InsertAt(Queue(r, c), Stop(r, c) + 1, Entry(c))
Queued(r, c) == IF Reliable(c.kind) THEN [[r EXCEPT !.waiting = @ + Parts(c.kind)] EXCEPT !.reliables = Longer(r, c)]
                ELSE [[r EXCEPT !.waiting = @ + Parts(c.kind)] EXCEPT !.unreliables = Longer(r, c)]

LEMMA QueueIncomingIs ==
    ASSUME NEW r, NEW c
    PROVE  QueueIncoming(r, c) = Dispatch(Queued(r, c), c.kind, c.id)
  BY Zenon DEF QueueIncoming, Queued, Longer, Entry

LEMMA EntryType ==
    ASSUME NEW c \in Commands
    PROVE  Entry(c) \in Entries /\ Entry(c).kind = c.kind /\ Entry(c).id = c.id
           /\ Entry(c).reliable = c.reliable /\ Entry(c).unreliable = c.unreliable
           /\ Entry(c).got = IF Parts(c.kind) = 1 THEN {1} ELSE {}
<1> DEFINE g == IF Parts(c.kind) = 1 THEN {1} ELSE {}
<1>1. g \in SUBSET (1 .. 2)
  OBVIOUS
<1> HIDE DEF g
<1>2. Entry(c) = [id |-> c.id, kind |-> c.kind, reliable |-> c.reliable, unreliable |-> c.unreliable, got |-> g]
  BY DEF Entry, g
<1>3. Entry(c).kind = c.kind /\ Entry(c).id = c.id
      /\ Entry(c).reliable = c.reliable /\ Entry(c).unreliable = c.unreliable /\ Entry(c).got = g
  BY <1>2
<1>4. Entry(c) \in Entries
  BY <1>1, <1>2 DEF Entries, Commands
<1> QED BY <1>3, <1>4 DEF g

IsQueued(v, r, c) ==
    /\ v \in Receivers /\ v.reliable = r.reliable /\ v.unreliable = r.unreliable /\ v.groups = r.groups
    /\ v.dispatched = r.dispatched /\ v.leaving = r.leaving
    /\ v.waiting = r.waiting + Parts(c.kind)
    /\ v.reliables = IF Reliable(c.kind) THEN Longer(r, c) ELSE r.reliables
    /\ v.unreliables = IF Reliable(c.kind) THEN r.unreliables ELSE Longer(r, c)
    /\ HeldBy(v) = HeldBy(r) + Parts(c.kind)

LEMMA QueuedIs ==
    ASSUME NEW r \in Receivers, NEW c \in Commands
    PROVE  IsQueued(Queued(r, c), r, c)
<1> DEFINE q == Queue(r, c)
           s == Stop(r, c)
           e == Entry(c)
           l == Longer(r, c)
           p == Parts(c.kind)
           v == Queued(r, c)
<1>1. q \in Seq(Entries) /\ s \in 0 .. Len(q) /\ e \in Entries
  BY QueueType, EntryType
<1>2. Weight[e] = p /\ p \in 1 .. 2
  <2>1. e.kind = c.kind
    BY EntryType
  <2>2. Weight[e] = Parts(e.kind) /\ Weight[e] \in 1 .. 2
    BY <1>1, WeightIs
  <2> HIDE DEF e
  <2> QED BY <2>1, <2>2
<1> HIDE DEF q, s, e
<1>3. l \in Seq(Entries) /\ SeqSum(Weight, l) = SeqSum(Weight, q) + p
  <2>1. l = InsertAt(q, s + 1, e)
    BY DEF Longer, q, s, e
  <2>2. InsertAt(q, s + 1, e) \in Seq(Entries)
        /\ \A L \in [Entries -> Int] : SeqSum(L, InsertAt(q, s + 1, e)) = SeqSum(L, q) + L[e]
    BY <1>1, Inserted
  <2> HIDE DEF l, p
  <2> QED BY <1>2, <2>1, <2>2, WeightIs
<1>4. r.waiting + p \in Nat
  <2>1. r.waiting \in Nat
    BY DEF Receivers
  <2> HIDE DEF p
  <2> QED BY <1>2, <2>1
<1>5. r.reliables \in Seq(Entries) /\ r.unreliables \in Seq(Entries) /\ r.dispatched \in Seq(Entries)
  BY DEF Receivers
<1>6. SeqSum(Weight, r.reliables) \in Nat /\ SeqSum(Weight, r.unreliables) \in Nat
      /\ SeqSum(Weight, r.dispatched) \in Nat
  BY <1>5, WeighedNat
<1> DEFINE x == [r EXCEPT !.waiting = @ + p]
<1>7. x \in Receivers /\ x.reliable = r.reliable /\ x.unreliable = r.unreliable /\ x.groups = r.groups
      /\ x.dispatched = r.dispatched /\ x.leaving = r.leaving
      /\ x.waiting = r.waiting + p /\ x.reliables = r.reliables /\ x.unreliables = r.unreliables
  <2> HIDE DEF p
  <2> QED BY <1>4 DEF Receivers
<1>8. v = IF Reliable(c.kind) THEN [x EXCEPT !.reliables = l] ELSE [x EXCEPT !.unreliables = l]
  BY DEF Queued
<1>9. q = IF Reliable(c.kind) THEN r.reliables ELSE r.unreliables
  BY DEF Queue, q
<1> HIDE DEF x, l, v
<1>10. CASE Reliable(c.kind)
  <2>1. /\ v \in Receivers /\ v.reliable = x.reliable /\ v.unreliable = x.unreliable /\ v.groups = x.groups
        /\ v.dispatched = x.dispatched /\ v.leaving = x.leaving
        /\ v.waiting = x.waiting /\ v.reliables = l /\ v.unreliables = x.unreliables
    BY <1>3, <1>7, <1>8, <1>10 DEF Receivers
  <2>2. HeldBy(v) = HeldBy(r) + p
    <3>1. HeldBy(v) = (SeqSum(Weight, r.reliables) + p) + SeqSum(Weight, r.unreliables) + SeqSum(Weight, r.dispatched)
      BY <1>3, <1>7, <1>9, <1>10, <2>1 DEF HeldBy
    <3> HIDE DEF p
    <3> QED BY <1>2, <1>6, <3>1 DEF HeldBy
  <2> QED BY <1>7, <1>10, <2>1, <2>2 DEF IsQueued, v, l
<1>11. CASE ~ Reliable(c.kind)
  <2>1. /\ v \in Receivers /\ v.reliable = x.reliable /\ v.unreliable = x.unreliable /\ v.groups = x.groups
        /\ v.dispatched = x.dispatched /\ v.leaving = x.leaving
        /\ v.waiting = x.waiting /\ v.unreliables = l /\ v.reliables = x.reliables
    BY <1>3, <1>7, <1>8, <1>11 DEF Receivers
  <2>2. HeldBy(v) = HeldBy(r) + p
    <3>1. HeldBy(v) = SeqSum(Weight, r.reliables) + (SeqSum(Weight, r.unreliables) + p) + SeqSum(Weight, r.dispatched)
      BY <1>3, <1>7, <1>9, <1>11, <2>1 DEF HeldBy
    <3> HIDE DEF p
    <3> QED BY <1>2, <1>6, <3>1 DEF HeldBy
  <2> QED BY <1>7, <1>11, <2>1, <2>2 DEF IsQueued, v, l
<1> QED BY <1>10, <1>11

\* A part marked in the lists.
MarkedEntry(e, c) == IF e.id = c.id THEN [e EXCEPT !.got = @ \cup {c.part}] ELSE e
MarkedIn(q, c) == [i \in DOMAIN q |-> MarkedEntry(q[i], c)]
Marked(r, c) == [r EXCEPT !.reliables = MarkedIn(@, c), !.unreliables = MarkedIn(@, c)]

LEMMA MarkPartIs ==
    ASSUME NEW r, NEW c
    PROVE  MarkPart(r, c) = IF Marked(r, c) # r /\ CompletedBy(Marked(r, c), c)
                            THEN Dispatch(Marked(r, c), c.kind, 0) ELSE Marked(r, c)
  BY Zenon DEF MarkPart, Marked, MarkedIn, MarkedEntry

LEMMA MarkedEntryIs ==
    ASSUME NEW e \in Entries, NEW c \in Commands
    PROVE  /\ MarkedEntry(e, c) \in Entries /\ MarkedEntry(e, c).id = e.id /\ MarkedEntry(e, c).kind = e.kind
           /\ MarkedEntry(e, c).reliable = e.reliable /\ MarkedEntry(e, c).unreliable = e.unreliable
           /\ MarkedEntry(e, c).got = IF e.id = c.id THEN e.got \cup {c.part} ELSE e.got
<1> DEFINE g == e.got \cup {c.part}
           v == [e EXCEPT !.got = g]
<1>1. g \in SUBSET (1 .. 2)
  BY DEF Entries, Commands
<1>2. MarkedEntry(e, c) = IF e.id = c.id THEN v ELSE e
  BY DEF MarkedEntry
<1> HIDE DEF g
<1>3. v \in Entries /\ v.id = e.id /\ v.kind = e.kind /\ v.reliable = e.reliable
      /\ v.unreliable = e.unreliable /\ v.got = g
  BY <1>1 DEF Entries
<1> HIDE DEF v
<1> QED BY <1>2, <1>3 DEF g

LEMMA MarkedInIs ==
    ASSUME NEW q \in Seq(Entries), NEW c \in Commands
    PROVE  /\ MarkedIn(q, c) \in Seq(Entries) /\ Len(MarkedIn(q, c)) = Len(q)
           /\ \A i \in 1 .. Len(q) : MarkedIn(q, c)[i] = MarkedEntry(q[i], c)
           /\ SeqSum(Weight, MarkedIn(q, c)) = SeqSum(Weight, q)
<1> DEFINE n == Len(q)
           t == MarkedIn(q, c)
<1>1. n \in Nat /\ DOMAIN q = 1 .. n /\ \A i \in 1 .. n : q[i] \in Entries
  BY LenProperties, ElementOfSeq
<1>2. n = Len(q)
  OBVIOUS
<1>3. t = [i \in 1 .. n |-> MarkedEntry(q[i], c)]
  <2> HIDE DEF n
  <2> QED BY <1>1 DEF MarkedIn
<1> HIDE DEF n, t
<1>4. \A i \in 1 .. n : MarkedEntry(q[i], c) \in Entries
  BY <1>1, MarkedEntryIs
<1>5. t \in Seq(Entries) /\ Len(t) = n /\ \A i \in 1 .. n : t[i] = MarkedEntry(q[i], c)
  BY <1>1, <1>3, <1>4
<1>6. ASSUME NEW i \in 1 .. n PROVE Weight[q[i]] = Weight[t[i]]
  <2>1. q[i] \in Entries /\ t[i] = MarkedEntry(q[i], c) /\ t[i] \in Entries /\ MarkedEntry(q[i], c).kind = q[i].kind
    BY <1>1, <1>4, <1>5, MarkedEntryIs
  <2>2. Weight[q[i]] = Parts(q[i].kind) /\ Weight[t[i]] = Parts(t[i].kind)
    BY <2>1, WeightIs
  <2> QED BY <2>1, <2>2
<1>7. SeqSum(Weight, q) = SeqSum(Weight, t)
  <2>1. Len(q) = Len(t) /\ \A i \in 1 .. Len(q) : Weight[q[i]] = Weight[t[i]]
    BY <1>2, <1>5, <1>6
  <2> QED BY <1>5, <2>1, WeightIs, SeqSumAlike
<1> QED BY <1>2, <1>5, <1>7 DEF t

IsMarked(v, r, c) ==
    /\ v \in Receivers /\ v.reliable = r.reliable /\ v.unreliable = r.unreliable /\ v.groups = r.groups
    /\ v.dispatched = r.dispatched /\ v.leaving = r.leaving /\ v.waiting = r.waiting
    /\ v.reliables = MarkedIn(r.reliables, c) /\ v.unreliables = MarkedIn(r.unreliables, c)
    /\ HeldBy(v) = HeldBy(r)

LEMMA MarkedIs ==
    ASSUME NEW r \in Receivers, NEW c \in Commands
    PROVE  IsMarked(Marked(r, c), r, c)
<1> DEFINE a == MarkedIn(r.reliables, c)
           b == MarkedIn(r.unreliables, c)
           v == Marked(r, c)
<1>1. r.reliables \in Seq(Entries) /\ r.unreliables \in Seq(Entries)
  BY DEF Receivers
<1>2. a \in Seq(Entries) /\ b \in Seq(Entries)
      /\ SeqSum(Weight, a) = SeqSum(Weight, r.reliables) /\ SeqSum(Weight, b) = SeqSum(Weight, r.unreliables)
  BY <1>1, MarkedInIs
<1>3. v = [r EXCEPT !.reliables = a, !.unreliables = b]
  BY DEF Marked
<1> HIDE DEF a, b, v
<1>4. /\ v \in Receivers /\ v.reliable = r.reliable /\ v.unreliable = r.unreliable /\ v.groups = r.groups
      /\ v.dispatched = r.dispatched /\ v.leaving = r.leaving /\ v.waiting = r.waiting
      /\ v.reliables = a /\ v.unreliables = b
  BY <1>2, <1>3 DEF Receivers
<1>5. HeldBy(v) = HeldBy(r)
  BY <1>2, <1>4 DEF HeldBy
<1> QED BY <1>4, <1>5 DEF IsMarked, v, a, b

LEMMA QueueIncomingHolds ==
    ASSUME NEW r \in Receivers, NEW c \in Commands
    PROVE  /\ QueueIncoming(r, c) \in Receivers
           /\ QueueIncoming(r, c).groups = r.groups
           /\ QueueIncoming(r, c).leaving = r.leaving
           /\ QueueIncoming(r, c).waiting = r.waiting + Parts(c.kind)
           /\ HeldBy(QueueIncoming(r, c)) <= HeldBy(r) + Parts(c.kind)
<1> DEFINE p == Queued(r, c)
           v == QueueIncoming(r, c)
<1>1. IsQueued(p, r, c)
  BY QueuedIs
<1>2. p \in Receivers
  BY <1>1 DEF IsQueued
<1>3. v = Dispatch(p, c.kind, c.id)
  BY QueueIncomingIs
<1> HIDE DEF p, v
<1>4. KeepsHeld(v, p)
  BY <1>2, <1>3, DispatchHolds
<1> QED BY <1>1, <1>4 DEF IsQueued, KeepsHeld, v

LEMMA MarkPartHolds ==
    ASSUME NEW r \in Receivers, NEW c \in Commands
    PROVE  KeepsHeld(MarkPart(r, c), r)
<1> DEFINE p == Marked(r, c)
           v == MarkPart(r, c)
<1>1. IsMarked(p, r, c)
  BY MarkedIs
<1>2. p \in Receivers
  BY <1>1 DEF IsMarked
<1>3. v = p \/ v = Dispatch(p, c.kind, 0)
  BY MarkPartIs
<1> HIDE DEF p, v
<1>4. KeepsHeld(p, p)
  BY <1>2, HeldNat DEF KeepsHeld
<1>5. KeepsHeld(v, p)
  BY <1>2, <1>3, <1>4, DispatchHolds
<1> QED BY <1>1, <1>5 DEF IsMarked, KeepsHeld, v

-----------------------------------------------------------------------------
(* Types, and what is held for the application.                            *)

HeldInv ==
    /\ TypeOK
    /\ Len(sender.packets) <= MaxPackets
    /\ HeldBy(receiver) <= receiver.waiting
    /\ receiver.waiting <= MaximumWaiting + 1

LEMMA ReceiverType == TypeOK <=>
    /\ sender \in [reliable : 0 .. Modulus - 1, unreliable : 0 .. UnreliableLimit, packets : Seq(AllKinds)]
    /\ net \subseteq Commands
    /\ receiver \in Receivers
    /\ delivered \in Seq(1 .. MaxPackets)
    /\ refused \in BOOLEAN
  BY DEF TypeOK, Receivers

LEMMA HeldInit ==
    ASSUME Init
    PROVE  HeldInv
<1> DEFINE none == << >>
           s == none
           t == none
           d == none
<1>1. none \in Seq(Entries) /\ none \in Seq(AllKinds) /\ none \in Seq(1 .. MaxPackets) /\ Len(none) = 0
  OBVIOUS
<1>2. SeqSum(Weight, none) = 0
  BY WeightIs, SeqSumOfNone
<1>3. /\ sender = [reliable |-> Start, unreliable |-> 0, packets |-> none] /\ net = {}
      /\ receiver = [reliable |-> Start, unreliable |-> 0, reliables |-> none, unreliables |-> none,
                     groups |-> {}, dispatched |-> none, waiting |-> 0, leaving |-> FALSE]
      /\ delivered = none /\ refused = FALSE
  BY DEF Init
<1> HIDE DEF none
<1>4. sender \in [reliable : 0 .. Modulus - 1, unreliable : 0 .. UnreliableLimit, packets : Seq(AllKinds)]
      /\ Len(sender.packets) = 0
  BY <1>1, <1>3, Sizes, WindowsAssumption
<1>5. receiver \in Receivers /\ HeldBy(receiver) = 0 /\ receiver.waiting = 0
  <2>1. receiver \in Receivers
    BY <1>1, <1>3, Sizes DEF Receivers
  <2>2. receiver.reliables = none /\ receiver.unreliables = none /\ receiver.dispatched = none /\ receiver.waiting = 0
    BY <1>3
  <2> QED BY <1>2, <2>1, <2>2 DEF HeldBy
<1>6. TypeOK
  <2>1. net \subseteq Commands /\ delivered \in Seq(1 .. MaxPackets) /\ refused \in BOOLEAN
    BY <1>1, <1>3
  <2> QED BY <1>4, <1>5, <2>1, ReceiverType
<1>7. Len(sender.packets) <= MaxPackets /\ HeldBy(receiver) <= receiver.waiting
      /\ receiver.waiting <= MaximumWaiting + 1
  BY <1>4, <1>5, BoundsAssumption
<1> QED BY <1>6, <1>7 DEF HeldInv

\* The kind of packet that is sent, and its numbers.
LEMMA SequenceHolds ==
    ASSUME HeldInv, Len(sender.packets) < MaxPackets,
           NEW kind \in AllKinds, NEW reliable \in 0 .. Modulus - 1, NEW unreliable \in Nat,
           ~ Reliable(kind) /\ kind # "unsequenced" => sender.unreliable < UnreliableLimit,
           Sequence(kind, reliable, unreliable)
    PROVE  /\ sender' \in [reliable : 0 .. Modulus - 1, unreliable : 0 .. UnreliableLimit, packets : Seq(AllKinds)]
           /\ Len(sender'.packets) <= MaxPackets
           /\ net' \subseteq Commands
<1> DEFINE s == sender.packets
           n == Len(s)
           p == Append(s, kind)
           x == IF Reliable(kind) THEN (sender.reliable + Parts(kind)) % Modulus ELSE sender.reliable
           u == IF Reliable(kind) THEN 0 ELSE IF kind = "unsequenced" THEN sender.unreliable
                ELSE sender.unreliable + 1
           Command(part) == [id |-> n + 1, kind |-> kind, reliable |-> reliable,
                             unreliable |-> unreliable, part |-> part]
<1>1. sender \in [reliable : 0 .. Modulus - 1, unreliable : 0 .. UnreliableLimit, packets : Seq(AllKinds)]
      /\ net \subseteq Commands
  BY ReceiverType DEF HeldInv
<1>2. sender' = [sender EXCEPT !.packets = p, !.reliable = x, !.unreliable = u]
      /\ net' = net \cup {Command(part) : part \in 1 .. Parts(kind)}
  BY DEF Sequence
<1>3. n \in Nat /\ p \in Seq(AllKinds) /\ Len(p) = n + 1
  BY <1>1, LenProperties, AppendProperties
<1>4. n < MaxPackets
  OBVIOUS
<1> HIDE DEF n, p
<1>5. x \in 0 .. Modulus - 1
  <2>1. sender.reliable + Parts(kind) \in Nat
    BY <1>1, Sizes DEF Parts
  <2> DEFINE y == sender.reliable + Parts(kind)
  <2>2. y \in Nat
    BY <2>1
  <2> HIDE DEF y
  <2>3. y % Modulus \in 0 .. Modulus - 1
    BY <2>2, Sizes
  <2> QED BY <1>1, <2>3 DEF y
<1>6. u \in 0 .. UnreliableLimit
  BY <1>1, WindowsAssumption
<1> HIDE DEF x, u
<1>7. sender' \in [reliable : 0 .. Modulus - 1, unreliable : 0 .. UnreliableLimit, packets : Seq(AllKinds)]
      /\ sender'.packets = p
  BY <1>1, <1>2, <1>3, <1>5, <1>6
<1>8. Len(sender'.packets) <= MaxPackets
  BY <1>3, <1>4, <1>7, BoundsAssumption
<1>9. ASSUME NEW part \in 1 .. Parts(kind) PROVE Command(part) \in Commands
  <2>1. n + 1 \in 1 .. MaxPackets
    BY <1>3, <1>4, BoundsAssumption
  <2>2. part \in 1 .. 2
    BY DEF Parts
  <2> QED BY <2>1, <2>2 DEF Commands
<1> HIDE DEF Command
<1> QED BY <1>1, <1>2, <1>7, <1>8, <1>9

LEMMA SendHolds ==
    ASSUME HeldInv, NEW kind \in Kinds, SendPacket(kind)
    PROVE  HeldInv'
<1> DEFINE turned == CASE kind = "unreliable" -> "reliable"
                       [] kind = "unreliableFragment" -> "fragment"
                       [] OTHER -> kind
           k == IF sender.unreliable >= UnreliableLimit THEN turned ELSE kind
           y == (sender.reliable + 1) % Modulus
           z == sender.unreliable + 1
<1>1. sender \in [reliable : 0 .. Modulus - 1, unreliable : 0 .. UnreliableLimit, packets : Seq(AllKinds)]
      /\ delivered \in Seq(1 .. MaxPackets) /\ refused \in BOOLEAN /\ receiver \in Receivers
  BY ReceiverType DEF HeldInv
<1>2. kind \in AllKinds
  BY KindsAssumption
<1>3. turned \in AllKinds /\ (Reliable(turned) \/ turned = "unsequenced")
  BY <1>2 DEF AllKinds, Reliable
<1>4. k \in AllKinds /\ (~ Reliable(k) /\ k # "unsequenced" => sender.unreliable < UnreliableLimit)
  <2> HIDE DEF turned
  <2> QED BY <1>1, <1>2, <1>3, WindowsAssumption
<1>5. y \in 0 .. Modulus - 1 /\ z \in Nat /\ 0 \in 0 .. Modulus - 1
  BY <1>1, Sizes
<1>6. UNCHANGED <<receiver, delivered, refused>> /\ Len(sender.packets) < MaxPackets
  BY DEF SendPacket
<1>7. Send(kind)
  BY DEF SendPacket
<1>8. IF Reliable(k) THEN Sequence(k, y, 0)
      ELSE IF k = "unsequenced" THEN Sequence(k, 0, 0)
      ELSE Sequence(k, sender.reliable, z)
  BY <1>7, Zenon DEF Send
<1> HIDE DEF k, y, z
<1> DEFINE o == 0
           q == 0
<1>9. o \in 0 .. Modulus - 1 /\ q \in Nat /\ o = 0 /\ q = 0 /\ sender.reliable \in 0 .. Modulus - 1
  BY <1>1, <1>5
<1>10. \/ Sequence(k, y, q) \/ Sequence(k, o, q) \/ Sequence(k, sender.reliable, z)
  BY <1>8
<1> HIDE DEF o, q
<1>11. /\ sender' \in [reliable : 0 .. Modulus - 1, unreliable : 0 .. UnreliableLimit, packets : Seq(AllKinds)]
       /\ Len(sender'.packets) <= MaxPackets /\ net' \subseteq Commands
  <2>1. CASE Sequence(k, y, q)
    BY <1>4, <1>5, <1>6, <1>9, <2>1, SequenceHolds
  <2>2. CASE Sequence(k, o, q)
    BY <1>4, <1>5, <1>6, <1>9, <2>2, SequenceHolds
  <2>3. CASE Sequence(k, sender.reliable, z)
    BY <1>4, <1>5, <1>6, <1>9, <2>3, SequenceHolds
  <2> QED BY <1>10, <2>1, <2>2, <2>3
<1>12. TypeOK'
  BY <1>1, <1>6, <1>11 DEF TypeOK, Receivers
<1> QED BY <1>6, <1>11, <1>12 DEF HeldInv, HeldBy

\* What one command can do to the receiver.
HeldRight(r) == r \in Receivers /\ HeldBy(r) <= r.waiting /\ r.waiting <= MaximumWaiting + 1

LEMMA QueuedHeldRight ==
    ASSUME NEW r, HeldRight(r), NEW c \in Commands, ~ Full(r)
    PROVE  HeldRight(QueueIncoming(r, c))
<1> DEFINE v == QueueIncoming(r, c)
           p == Parts(c.kind)
<1>1. r \in Receivers /\ HeldBy(r) \in Nat /\ r.waiting \in Nat /\ p \in 1 .. 2 /\ MaximumWaiting \in Nat
  BY HeldNat, BoundsAssumption DEF HeldRight, Receivers, Parts
<1>2. v \in Receivers /\ v.waiting = r.waiting + p /\ HeldBy(v) <= HeldBy(r) + p
  BY <1>1, QueueIncomingHolds
<1>3. HeldBy(v) \in Nat
  BY <1>2, HeldNat
<1> HIDE DEF v, p
<1>4. r.waiting < MaximumWaiting
  BY <1>1 DEF Full
<1> QED BY <1>1, <1>2, <1>3, <1>4 DEF HeldRight, v

LEMMA MarkedHeldRight ==
    ASSUME NEW r, HeldRight(r), NEW c \in Commands
    PROVE  HeldRight(MarkPart(r, c))
<1> DEFINE v == MarkPart(r, c)
<1>1. KeepsHeld(v, r) /\ r \in Receivers
  BY MarkPartHolds DEF HeldRight
<1> HIDE DEF v
<1>2. HeldBy(v) \in Nat /\ HeldBy(r) \in Nat
  BY <1>1, HeldNat DEF KeepsHeld
<1>3. r.waiting \in Nat
  BY <1>1 DEF Receivers
<1>4. v \in Receivers /\ v.waiting = r.waiting /\ HeldBy(v) <= HeldBy(r) /\ HeldBy(r) <= r.waiting
      /\ r.waiting <= MaximumWaiting + 1
  BY <1>1 DEF KeepsHeld, HeldRight
<1>5. HeldBy(v) <= v.waiting
  BY <1>2, <1>3, <1>4
<1>6. HeldRight(v)
  BY <1>4, <1>5 DEF HeldRight
<1> QED BY <1>6 DEF v

LEMMA ReceiveHolds ==
    ASSUME HeldInv, NEW c \in net, Receive(c)
    PROVE  HeldInv'
<1>1. c \in Commands /\ HeldRight(receiver)
  BY ReceiverType DEF HeldInv, HeldRight
<1>2. UNCHANGED <<sender, net, delivered>>
  BY DEF Receive
<1>3. CASE ReceiveWhole(c)
  <2> DEFINE again == c.kind = "unsequenced" /\ c.id \in receiver.groups
             kept == ~ again /\ ~ Discarded(receiver, c) /\ ~ Full(receiver)
             noted == IF c.kind = "unsequenced" /\ ~ again /\ (kept \/ receiver.leaving) THEN {c.id} ELSE {}
             r == IF kept THEN QueueIncoming(receiver, c) ELSE receiver
             g == r.groups \cup noted
  <2>1. receiver' = [r EXCEPT !.groups = g]
    BY <1>3, Zenon DEF ReceiveWhole
  <2>5. refused' \in BOOLEAN
    BY <1>3 DEF ReceiveWhole
  <2>2. HeldRight(r)
    BY <1>1, QueuedHeldRight
  <2>3. noted \in SUBSET (1 .. MaxPackets)
    BY <1>1 DEF Commands
  <2> HIDE DEF r, noted
  <2>4. g \in SUBSET (1 .. MaxPackets) /\ r \in Receivers
    BY <2>2, <2>3 DEF HeldRight, Receivers
  <2> HIDE DEF g
  <2>6. receiver' \in Receivers /\ receiver'.waiting = r.waiting /\ receiver'.reliables = r.reliables
        /\ receiver'.unreliables = r.unreliables /\ receiver'.dispatched = r.dispatched
    BY <2>1, <2>4 DEF Receivers
  <2>7. HeldRight(receiver')
    BY <2>2, <2>6 DEF HeldRight, HeldBy
  <2> QED BY <1>2, <2>5, <2>7 DEF HeldInv, HeldRight, TypeOK, Receivers, HeldBy
<1>4. CASE ReceiveFragment(c)
  <2> DEFINE r == receiver
  <2>1. \/ receiver' = r \/ receiver' = MarkPart(r, c)
        \/ ~ Full(r) /\ receiver' = MarkPart(QueueIncoming(r, c), c)
    BY <1>4 DEF ReceiveFragment
  <2>2. refused' \in BOOLEAN
    BY <1>4 DEF ReceiveFragment
  <2>3. HeldRight(receiver')
    <3>1. CASE receiver' = r
      BY <1>1, <3>1
    <3>2. CASE receiver' = MarkPart(r, c)
      BY <1>1, <3>2, MarkedHeldRight
    <3>3. CASE ~ Full(r) /\ receiver' = MarkPart(QueueIncoming(r, c), c)
      <4> DEFINE v == QueueIncoming(r, c)
      <4>1. HeldRight(v)
        BY <1>1, <3>3, QueuedHeldRight
      <4> HIDE DEF v
      <4>2. HeldRight(MarkPart(v, c))
        BY <1>1, <4>1, MarkedHeldRight
      <4> QED BY <3>3, <4>2 DEF v
    <3> QED BY <2>1, <3>1, <3>2, <3>3
  <2> QED BY <1>2, <2>2, <2>3 DEF HeldInv, HeldRight, TypeOK, Receivers, HeldBy
<1> QED BY <1>3, <1>4 DEF Receive

LEMMA ApplicationReceiveHolds ==
    ASSUME HeldInv, ApplicationReceive
    PROVE  HeldInv'
<1> DEFINE q == receiver.dispatched
           h == Head(q)
           t == Tail(q)
           w == receiver.waiting - Parts(h.kind)
           one == <<h>>
<1>1. receiver \in Receivers /\ q # << >> /\ delivered \in Seq(1 .. MaxPackets)
  BY ReceiverType DEF HeldInv, ApplicationReceive
<1>2. q \in Seq(Entries) /\ receiver.reliables \in Seq(Entries) /\ receiver.unreliables \in Seq(Entries)
  BY <1>1 DEF Receivers
<1>3. h \in Entries /\ t \in Seq(Entries) /\ q = one \o t
  BY <1>1, <1>2, MembersTail
<1>4. receiver' = [receiver EXCEPT !.dispatched = t, !.waiting = w]
  BY DEF ApplicationReceive
<1>5. delivered' = Append(delivered, h.id) /\ UNCHANGED <<sender, net, refused>>
  BY DEF ApplicationReceive
<1>6. one \in Seq(Entries) /\ SeqSum(Weight, one) = Parts(h.kind) /\ Parts(h.kind) \in 1 .. 2
  <2> HIDE DEF h
  <2>1. one \in Seq(Entries)
    BY <1>3, MembersOfOne
  <2>2. SeqSum(Weight, one) = Weight[h]
    BY <1>3, WeightIs, SeqSumOfOne
  <2>3. Weight[h] = Parts(h.kind) /\ Weight[h] \in 1 .. 2
    BY <1>3, WeightIs
  <2> QED BY <2>1, <2>2, <2>3
<1> DEFINE p == Parts(h.kind)
           a == SeqSum(Weight, receiver.reliables)
           b == SeqSum(Weight, receiver.unreliables)
           d == SeqSum(Weight, t)
<1>7. SeqSum(Weight, q) = p + d
  <2> HIDE DEF t, one, h, q
  <2>1. SeqSum(Weight, one \o t) = SeqSum(Weight, one) + SeqSum(Weight, t)
    BY <1>3, <1>6, WeightIs, SeqSumConcat
  <2> QED BY <1>3, <1>6, <2>1
<1>8. a \in Nat /\ b \in Nat /\ d \in Nat
  BY <1>2, <1>3, WeighedNat
<1>9. a + b + (p + d) <= receiver.waiting /\ receiver.waiting \in Nat /\ receiver.waiting <= MaximumWaiting + 1
  <2>1. HeldBy(receiver) = a + b + SeqSum(Weight, q)
    BY DEF HeldBy
  <2> QED BY <1>1, <1>7, <2>1 DEF HeldInv, Receivers
<1>10. h.id \in 1 .. MaxPackets
  BY <1>3 DEF Entries
<1>11. delivered' \in Seq(1 .. MaxPackets)
  <2> HIDE DEF h
  <2> QED BY <1>1, <1>5, <1>10, AppendProperties
<1>12. p \in 1 .. 2 /\ w = receiver.waiting - p
  BY <1>6
<1> HIDE DEF p, a, b, d, w, t
<1>13. w \in Nat /\ a + b + d <= w /\ w <= MaximumWaiting + 1
  BY <1>8, <1>9, <1>12, BoundsAssumption
<1>14. receiver' \in Receivers /\ receiver'.reliables = receiver.reliables
       /\ receiver'.unreliables = receiver.unreliables /\ receiver'.dispatched = t /\ receiver'.waiting = w
  BY <1>1, <1>3, <1>4, <1>13 DEF Receivers
<1>15. HeldBy(receiver') = a + b + d
  BY <1>14 DEF HeldBy, a, b, d
<1>16. TypeOK'
  BY <1>5, <1>11, <1>14 DEF HeldInv, TypeOK, Receivers
<1>17. HeldBy(receiver)' = HeldBy(receiver')
  BY DEF HeldBy
<1> QED BY <1>5, <1>13, <1>14, <1>15, <1>16, <1>17 DEF HeldInv

LEMMA HeldNext ==
    ASSUME HeldInv, [Next]_vars
    PROVE  HeldInv'
<1>1. ASSUME NEW kind \in Kinds, SendPacket(kind) PROVE HeldInv'
  BY <1>1, SendHolds
<1>2. ASSUME NEW c \in net, Receive(c) PROVE HeldInv'
  BY <1>2, ReceiveHolds
<1>3. CASE ApplicationReceive
  BY <1>3, ApplicationReceiveHolds
<1>4. CASE DisconnectLater
  <2>1. receiver \in Receivers
    BY ReceiverType DEF HeldInv
  <2>2. receiver' = [receiver EXCEPT !.leaving = TRUE]
    BY <1>4 DEF DisconnectLater
  <2>3. /\ receiver' \in Receivers /\ receiver'.reliables = receiver.reliables /\ receiver'.unreliables = receiver.unreliables
        /\ receiver'.dispatched = receiver.dispatched /\ receiver'.waiting = receiver.waiting
    BY <2>1, <2>2 DEF Receivers
  <2> QED BY <1>4, <2>3 DEF HeldInv, TypeOK, Receivers, HeldBy, DisconnectLater
<1>5. CASE UNCHANGED vars
  BY <1>5 DEF HeldInv, TypeOK, HeldBy, vars
<1> QED BY <1>1, <1>2, <1>3, <1>4, <1>5 DEF Next

LEMMA HeldAlways == Spec => []HeldInv
<1>1. Init => HeldInv
  BY HeldInit
<1>2. HeldInv /\ [Next]_vars => HeldInv'
  BY HeldNext
<1> QED BY <1>1, <1>2, PTL DEF Spec

(* Every variable keeps its type: positions that enet_peer_dispatch_incoming_unreliable_commands
   moves are positions of the list, and totalWaitingData is never less than what
   enet_peer_receive subtracts (peer.c:718-842, 238-256).  *)
THEOREM TypesHold == Spec => []TypeOK
<1>1. HeldInv => TypeOK
  BY DEF HeldInv
<1> QED BY <1>1, HeldAlways, PTL

(* What a peer holds for its application is counted in totalWaitingData, whatever is moved,
   completed or dropped, and the limit bounds it (peer.c:956-957, 988-993).  *)
THEOREM HeldBounded == Spec => []HeldIsBounded
<1>1. HeldInv => HeldIsBounded
  <2> SUFFICES ASSUME HeldInv PROVE HeldIsBounded
    OBVIOUS
  <2>1. receiver \in Receivers
    BY ReceiverType DEF HeldInv
  <2>2. Held = HeldBy(receiver)
    <3>1. receiver.reliables \in Seq(Entries) /\ receiver.unreliables \in Seq(Entries)
          /\ receiver.dispatched \in Seq(Entries)
      BY <2>1 DEF Receivers
    <3> QED BY <3>1, SizeIsSum DEF Held, HeldBy
  <2>3. HeldBy(receiver) \in Nat /\ receiver.waiting \in Nat
    BY <2>1, HeldNat DEF Receivers
  <2> QED BY <2>2, <2>3, BoundsAssumption DEF HeldInv, HeldIsBounded
<1> QED BY <1>1, HeldAlways, PTL

-----------------------------------------------------------------------------
(* The numbers that were sent.                                             *)

Ordered(c) == c.kind # "unsequenced"
\* Up to which number a command brings the channel.
End(c) == Off(c.reliable) + (IF Reliable(c.kind) THEN Parts(c.kind) - 1 ELSE 0)

Below(c, d) ==
    \/ End(c) < Off(d.reliable)
    \/ End(c) = Off(d.reliable) /\ ~ Reliable(d.kind) /\ c.unreliable < d.unreliable

SentRight(c) ==
    /\ c.id \in 1 .. Len(sender.packets) /\ c.kind = sender.packets[c.id]
    /\ Reliable(c.kind) => c.unreliable = 0 /\ Off(c.reliable) >= 1
    /\ ~ Reliable(c.kind) /\ Ordered(c) => c.unreliable >= 1
    /\ Ordered(c) => End(c) <= Off(sender.reliable)
    /\ Ordered(c) /\ End(c) = Off(sender.reliable) => c.unreliable <= sender.unreliable

SenderInv ==
    /\ Off(sender.reliable) <= 2 * Len(sender.packets)
    /\ \A c \in net : SentRight(c)
    /\ \A c, d \in net : c.id = d.id => c.reliable = d.reliable /\ c.unreliable = d.unreliable
    /\ \A c, d \in net : Ordered(c) /\ Ordered(d) /\ c.id < d.id => Below(c, d)
    /\ \A id \in 1 .. Len(sender.packets) : \E c \in net : c.id = id

Sent == HeldInv /\ SenderInv

\* A command or an entry of a list with the numbers of a command that was sent.
Known(e) ==
    \E c \in net : e.id = c.id /\ e.kind = c.kind /\ e.reliable = c.reliable /\ e.unreliable = c.unreliable

LEMMA SentTypes ==
    ASSUME Sent
    PROVE  /\ sender.reliable \in 0 .. Modulus - 1 /\ sender.unreliable \in Nat
           /\ Len(sender.packets) \in 0 .. MaxPackets /\ Off(sender.reliable) \in 0 .. 2 * MaxPackets
           /\ net \subseteq Commands /\ receiver \in Receivers
<1>1. sender \in [reliable : 0 .. Modulus - 1, unreliable : 0 .. UnreliableLimit, packets : Seq(AllKinds)]
      /\ net \subseteq Commands /\ receiver \in Receivers
  BY ReceiverType DEF HeldInv, Sent
<1>2. sender.reliable \in 0 .. Modulus - 1 /\ sender.unreliable \in 0 .. UnreliableLimit /\ sender.packets \in Seq(AllKinds)
  BY <1>1
<1> DEFINE n == Len(sender.packets)
           x == sender.reliable
<1>3. n \in Nat /\ n <= MaxPackets
  BY <1>2, LenProperties DEF HeldInv, Sent
<1>4. Off(x) \in 0 .. Modulus - 1 /\ Off(x) <= 2 * n
  BY <1>2, OffType DEF Sent, SenderInv
<1> HIDE DEF n, x
<1>5. Off(x) \in 0 .. 2 * MaxPackets /\ n \in 0 .. MaxPackets
  BY <1>3, <1>4, Sizes, BoundsAssumption
<1> QED BY <1>1, <1>2, <1>5, WindowsAssumption DEF n, x

LEMMA EndIs ==
    ASSUME NEW e, Off(e.reliable) \in Nat
    PROVE  /\ Parts(e.kind) \in 1 .. 2 /\ End(e) \in Nat /\ End(e) >= Off(e.reliable)
           /\ Reliable(e.kind) => Ordered(e) /\ End(e) = Off(e.reliable) + Parts(e.kind) - 1
           /\ ~ Reliable(e.kind) => End(e) = Off(e.reliable)
<1>1. Parts(e.kind) \in 1 .. 2 /\ (Reliable(e.kind) => Ordered(e))
  BY DEF Parts, Reliable, Ordered
<1> DEFINE p == Parts(e.kind)
           o == Off(e.reliable)
<1>2. End(e) = o + (IF Reliable(e.kind) THEN p - 1 ELSE 0)
  BY DEF End
<1> HIDE DEF p, o
<1>3. p \in 1 .. 2 /\ o \in Nat
  BY <1>1 DEF p, o
<1> QED BY <1>1, <1>2, <1>3 DEF p, o

LEMMA KnownIs ==
    ASSUME Sent, NEW e, Known(e)
    PROVE  /\ SentRight(e) /\ e.id \in Nat /\ e.kind \in AllKinds
           /\ e.reliable \in 0 .. Modulus - 1 /\ e.unreliable \in Nat
           /\ Off(e.reliable) \in Nat /\ End(e) \in Nat /\ End(e) >= Off(e.reliable)
           /\ Ordered(e) => End(e) <= Off(sender.reliable)
<1>1. PICK c \in net : e.id = c.id /\ e.kind = c.kind /\ e.reliable = c.reliable /\ e.unreliable = c.unreliable
  BY DEF Known
<1>2. SentRight(c) /\ c \in Commands
  BY SentTypes DEF Sent, SenderInv
<1>3. SentRight(e)
  BY <1>1, <1>2 DEF SentRight, End, Ordered
<1>4. e.id \in Nat /\ e.kind \in AllKinds /\ e.reliable \in 0 .. Modulus - 1 /\ e.unreliable \in Nat
  BY <1>1, <1>2 DEF Commands
<1>5. Off(e.reliable) \in Nat
  <2>1. Off(e.reliable) \in 0 .. Modulus - 1
    BY <1>4, OffType
  <2> QED BY <2>1, Sizes
<1>6. End(e) \in Nat /\ End(e) >= Off(e.reliable)
  BY <1>5, EndIs
<1>7. Ordered(e) => End(e) <= Off(sender.reliable)
  BY <1>3 DEF SentRight
<1> QED BY <1>3, <1>4, <1>5, <1>6, <1>7

LEMMA NetKnown ==
    ASSUME NEW c \in net
    PROVE  Known(c)
  BY DEF Known

LEMMA KnownPairs ==
    ASSUME Sent, NEW e, NEW f, Known(e), Known(f)
    PROVE  /\ e.id = f.id => e.kind = f.kind /\ e.reliable = f.reliable /\ e.unreliable = f.unreliable
           /\ Ordered(e) /\ Ordered(f) /\ e.id < f.id => Below(e, f)
<1>1. PICK c \in net : e.id = c.id /\ e.kind = c.kind /\ e.reliable = c.reliable /\ e.unreliable = c.unreliable
  BY DEF Known
<1>2. PICK d \in net : f.id = d.id /\ f.kind = d.kind /\ f.reliable = d.reliable /\ f.unreliable = d.unreliable
  BY DEF Known
<1>3. ASSUME e.id = f.id
      PROVE  e.kind = f.kind /\ e.reliable = f.reliable /\ e.unreliable = f.unreliable
  <2>1. c.id = d.id
    BY <1>1, <1>2, <1>3
  <2>2. c.reliable = d.reliable /\ c.unreliable = d.unreliable
    BY <2>1 DEF Sent, SenderInv
  <2>3. c.kind = sender.packets[c.id] /\ d.kind = sender.packets[d.id]
    BY DEF Sent, SenderInv, SentRight
  <2> QED BY <1>1, <1>2, <2>1, <2>2, <2>3
<1>4. ASSUME Ordered(e), Ordered(f), e.id < f.id PROVE Below(e, f)
  <2>1. Ordered(c) /\ Ordered(d) /\ c.id < d.id
    BY <1>1, <1>2, <1>4 DEF Ordered
  <2>2. Below(c, d)
    BY <2>1 DEF Sent, SenderInv
  <2> QED BY <1>1, <1>2, <2>2 DEF Below, End
<1> QED BY <1>3, <1>4

\* The numbers of reliable packets follow the order in which they were sent.
LEMMA ReliableOrder ==
    ASSUME Sent, NEW e, NEW f, Known(e), Known(f), Reliable(e.kind), Reliable(f.kind)
    PROVE  /\ Off(e.reliable) > Off(f.reliable) <=> e.id > f.id
           /\ e.reliable = f.reliable <=> e.id = f.id
<1>1. /\ e.id \in Nat /\ e.reliable \in 0 .. Modulus - 1 /\ Off(e.reliable) \in Nat
      /\ End(e) \in Nat /\ End(e) >= Off(e.reliable)
  BY KnownIs
<1>2. /\ f.id \in Nat /\ f.reliable \in 0 .. Modulus - 1 /\ Off(f.reliable) \in Nat
      /\ End(f) \in Nat /\ End(f) >= Off(f.reliable)
  BY KnownIs
<1>3. Ordered(e) /\ Ordered(f)
  BY DEF Ordered, Reliable
<1>4. e.id = f.id => e.reliable = f.reliable
  BY KnownPairs
<1>5. e.id < f.id => Off(e.reliable) < Off(f.reliable)
  <2>1. e.id < f.id => End(e) < Off(f.reliable)
    BY <1>3, KnownPairs DEF Below
  <2> QED BY <1>1, <1>2, <2>1
<1>6. f.id < e.id => Off(f.reliable) < Off(e.reliable)
  <2>1. f.id < e.id => End(f) < Off(e.reliable)
    BY <1>3, KnownPairs DEF Below
  <2> QED BY <1>1, <1>2, <2>1
<1>7. e.id < f.id \/ e.id = f.id \/ f.id < e.id
  BY <1>1, <1>2
<1> QED BY <1>1, <1>2, <1>4, <1>5, <1>6, <1>7

\* So do those of unreliable packets.
Later(e, f) ==
    Off(e.reliable) > Off(f.reliable) \/ (e.reliable = f.reliable /\ e.unreliable > f.unreliable)

LEMMA UnreliableOrder ==
    ASSUME Sent, NEW e, NEW f, Known(e), Known(f), Ordered(e), Ordered(f),
           ~ Reliable(e.kind), ~ Reliable(f.kind)
    PROVE  /\ Later(e, f) <=> e.id > f.id
           /\ e.reliable = f.reliable /\ e.unreliable = f.unreliable <=> e.id = f.id
<1>1. /\ e.id \in Nat /\ e.reliable \in 0 .. Modulus - 1 /\ Off(e.reliable) \in Nat /\ e.unreliable \in Nat
  BY KnownIs
<1>2. /\ f.id \in Nat /\ f.reliable \in 0 .. Modulus - 1 /\ Off(f.reliable) \in Nat /\ f.unreliable \in Nat
  BY KnownIs
<1>3. End(e) = Off(e.reliable) /\ End(f) = Off(f.reliable)
  BY <1>1, <1>2, EndIs
<1>4. e.id = f.id => e.reliable = f.reliable /\ e.unreliable = f.unreliable
  BY KnownPairs
<1>5. e.id < f.id => Off(e.reliable) < Off(f.reliable)
                     \/ (Off(e.reliable) = Off(f.reliable) /\ e.unreliable < f.unreliable)
  BY <1>3, KnownPairs DEF Below
<1>6. f.id < e.id => Off(f.reliable) < Off(e.reliable)
                     \/ (Off(f.reliable) = Off(e.reliable) /\ f.unreliable < e.unreliable)
  BY <1>3, KnownPairs DEF Below
<1>7. e.id < f.id \/ e.id = f.id \/ f.id < e.id
  BY <1>1, <1>2
<1>8. Off(e.reliable) = Off(f.reliable) <=> e.reliable = f.reliable
  BY <1>1, <1>2, OffSame
<1> QED BY <1>1, <1>2, <1>4, <1>5, <1>6, <1>7, <1>8 DEF Later

-----------------------------------------------------------------------------
(* What the walk has found.                                                *)

Ready(r, e) == ~ Ordered(e) \/ (e.reliable = r.reliable /\ Complete(e))

\* The unreliable list when it is walked: its numbers ascend, and only a packet without
\* numbers may stand before them.
UnreliablesRight(r) ==
    /\ r \in Receivers
    /\ \A i \in 1 .. Len(r.unreliables) :
          LET e == r.unreliables[i]
          IN  /\ Known(e) /\ ~ Reliable(e.kind)
              /\ Ordered(e) \/ (i = 1 /\ Complete(e))
              /\ Matches(r, e) => e.unreliable > r.unreliable
    /\ \A i, j \in 1 .. Len(r.unreliables) :
          i < j /\ Ordered(r.unreliables[i]) => r.unreliables[i].id < r.unreliables[j].id

LEMMA MatchingSorted ==
    ASSUME Sent, NEW r, UnreliablesRight(r),
           NEW i \in 1 .. Len(r.unreliables), NEW j \in 1 .. Len(r.unreliables), i < j,
           Matches(r, r.unreliables[i]), Matches(r, r.unreliables[j])
    PROVE  r.unreliables[i].unreliable < r.unreliables[j].unreliable
<1> DEFINE e == r.unreliables[i]
           f == r.unreliables[j]
<1>1. Known(e) /\ Known(f) /\ ~ Reliable(e.kind) /\ ~ Reliable(f.kind)
  BY DEF UnreliablesRight
<1>2. Ordered(e) /\ Ordered(f) /\ e.reliable = f.reliable
  BY DEF Matches, Ordered
<1>3. e.id < f.id
  BY <1>2 DEF UnreliablesRight
<1> HIDE DEF e, f
<1>4. e.id \in Nat /\ f.id \in Nat /\ e.unreliable \in Nat /\ f.unreliable \in Nat
      /\ Off(e.reliable) \in Nat
  BY <1>1, KnownIs
<1>5. Later(f, e)
  BY <1>1, <1>2, <1>3, <1>4, UnreliableOrder
<1>6. e.unreliable < f.unreliable
  BY <1>2, <1>4, <1>5 DEF Later
<1> QED BY <1>6 DEF e, f

\* How far the walk has come.
Bound(w, i) == IF w.stop > 0 THEN w.stop - 1 ELSE i

WalkPlaces(w, i) ==
    /\ 1 <= w.dropped /\ w.dropped <= w.start /\ w.start <= Bound(w, i) + 1 /\ w.stop <= i
    /\ \A k \in w.moved : 1 <= k /\ k < w.dropped
WalkMoved(p, w, i) ==
    /\ \A k \in w.moved : Ready(p, p.unreliables[k])
    /\ \A k \in w.start .. Bound(w, i) : Ready(p, p.unreliables[k])
    /\ \A k \in 1 .. Bound(w, i) : Ready(p, p.unreliables[k]) => k \in w.moved \/ k >= w.start
WalkKept(p, w) ==
    \A k \in w.dropped .. w.start - 1 : Matches(p, p.unreliables[k]) /\ ~ Complete(p.unreliables[k])
WalkNumber(p, w, i) ==
    /\ \/ w.unreliable = p.unreliable
       \/ \E k \in 1 .. Bound(w, i) : /\ Matches(p, p.unreliables[k]) /\ Complete(p.unreliables[k])
                                      /\ w.unreliable = p.unreliables[k].unreliable
    /\ \A k \in 1 .. Bound(w, i) : Matches(p, p.unreliables[k]) /\ Complete(p.unreliables[k])
                                   => p.unreliables[k].unreliable <= w.unreliable
    /\ w.unreliable >= p.unreliable
WalkStopped(p, w) ==
    w.stop > 0 => LET e == p.unreliables[w.stop]
                  IN  Ordered(e) /\ e.reliable # p.reliable /\ InWindow(p.reliable, e.reliable)
WalkInv(p, w, i) ==
    /\ WalkPlaces(w, i) /\ WalkMoved(p, w, i) /\ WalkKept(p, w) /\ WalkNumber(p, w, i) /\ WalkStopped(p, w)

LEMMA WalkInvTurn ==
    ASSUME Sent, NEW p, UnreliablesRight(p), NEW i \in 1 .. Len(p.unreliables),
           NEW w \in Walks, NEW v \in Walks, WalkInv(p, w, i - 1), Turn(p, v, w, p.unreliables[i], i)
    PROVE  WalkInv(p, v, i)
<1> DEFINE q == p.unreliables
           n == Len(q)
           e == q[i]
<1>1. n \in Nat /\ p.unreliable \in Nat /\ q \in Seq(Entries)
  <2>1. q \in Seq(Entries) /\ p.unreliable \in Nat
    BY DEF UnreliablesRight, Receivers
  <2> QED BY <2>1, LenProperties
<1>2. /\ w.start \in Nat /\ w.dropped \in Nat /\ w.stop \in Nat /\ w.unreliable \in Nat
      /\ v.start \in Nat /\ v.dropped \in Nat /\ v.stop \in Nat /\ v.unreliable \in Nat
  BY DEF Walks
<1>3. i \in 1 .. n /\ i - 1 \in Nat
  BY <1>1
<1>4. WalkPlaces(w, i - 1) /\ WalkMoved(p, w, i - 1) /\ WalkKept(p, w) /\ WalkNumber(p, w, i - 1) /\ WalkStopped(p, w)
  BY DEF WalkInv
<1>5. Known(e) /\ ~ Reliable(e.kind) /\ (Ordered(e) \/ (i = 1 /\ Complete(e))) /\ (Matches(p, e) => e.unreliable > p.unreliable)
  BY DEF UnreliablesRight
<1>6. e.unreliable \in Nat
  BY <1>5, KnownIs
<1> HIDE DEF n, q, e
<1>7. w.stop = 0 \/ w.stop > 0
  BY <1>2
<1>a. CASE w.stop > 0 /\ Stays(v, w)
  <2>1. v = w
    BY <1>a DEF Stays
  <2>2. Bound(v, i) = Bound(w, i - 1)
    BY <1>a, <2>1 DEF Bound
  <2>3. WalkPlaces(v, i)
    <3>1. w.stop <= i - 1
      BY <1>4 DEF WalkPlaces
    <3>2. w.stop <= i
      BY <1>2, <1>3, <3>1
    <3> QED BY <1>4, <2>1, <2>2, <3>2 DEF WalkPlaces
  <2>4. WalkMoved(p, v, i) /\ WalkKept(p, v) /\ WalkNumber(p, v, i) /\ WalkStopped(p, v)
    BY <1>4, <2>1, <2>2 DEF WalkMoved, WalkNumber
  <2> QED BY <2>3, <2>4 DEF WalkInv
<1>8. CASE w.stop = 0
  <2>0. Bound(w, i - 1) = i - 1 /\ (i - 1) + 1 = i
    BY <1>3, <1>8 DEF Bound
  <2>1. 1 <= w.dropped /\ w.dropped <= w.start /\ w.start <= i
    <3>1. w.start <= Bound(w, i - 1) + 1 /\ 1 <= w.dropped /\ w.dropped <= w.start
      BY <1>4 DEF WalkPlaces
    <3> QED BY <1>2, <1>3, <2>0, <3>1
  <2>2. \A k \in w.moved : k \in Nat /\ 1 <= k /\ k < w.dropped
    BY <1>4 DEF WalkPlaces, Walks
  <2>3. \A k \in w.moved : Ready(p, q[k])
    BY <1>4 DEF WalkMoved, q
  <2>4. \A k \in w.start .. i - 1 : Ready(p, q[k])
    BY <1>4, <2>0 DEF WalkMoved, q
  <2>5. \A k \in 1 .. i - 1 : Ready(p, q[k]) => k \in w.moved \/ k >= w.start
    BY <1>4, <2>0 DEF WalkMoved, q
  <2>6. \A k \in w.dropped .. w.start - 1 : Matches(p, q[k]) /\ ~ Complete(q[k])
    BY <1>4 DEF WalkKept, q
  <2>7. \/ w.unreliable = p.unreliable
        \/ \E k \in 1 .. i - 1 : Matches(p, q[k]) /\ Complete(q[k]) /\ w.unreliable = q[k].unreliable
    BY <1>4, <2>0 DEF WalkNumber, q
  <2>8. \A k \in 1 .. i - 1 : Matches(p, q[k]) /\ Complete(q[k]) => q[k].unreliable <= w.unreliable
    BY <1>4, <2>0 DEF WalkNumber, q
  <2>9. w.unreliable >= p.unreliable
    BY <1>4 DEF WalkNumber
  <2>10. \A k \in 1 .. i : k = i \/ k \in 1 .. i - 1
    BY <1>3
  <2>11. \A k \in 1 .. i - 1 : k \in 1 .. i
    BY <1>3
  <2>12. e = q[i] /\ i \in 1 .. i
    BY <1>3 DEF e
  \* The number stays where the turn does not run on.
  <2>13. ASSUME v.unreliable = w.unreliable, ~ (Matches(p, e) /\ Complete(e)), Bound(v, i) \in {i - 1, i}
         PROVE  WalkNumber(p, v, i)
    <3>1. \A k \in 1 .. i : Matches(p, q[k]) /\ Complete(q[k]) => q[k].unreliable <= v.unreliable
      BY <2>8, <2>10, <2>12, <2>13
    <3>2. \/ v.unreliable = p.unreliable
          \/ \E k \in 1 .. i - 1 : Matches(p, q[k]) /\ Complete(q[k]) /\ v.unreliable = q[k].unreliable
      BY <2>7, <2>13
    <3>3. CASE Bound(v, i) = i
      <4>1. \/ v.unreliable = p.unreliable
            \/ \E k \in 1 .. i : Matches(p, q[k]) /\ Complete(q[k]) /\ v.unreliable = q[k].unreliable
        BY <3>2, <2>11
      <4> QED BY <2>9, <2>13, <3>1, <3>3, <4>1 DEF WalkNumber, q
    <3>4. CASE Bound(v, i) = i - 1
      <4>1. \A k \in 1 .. i - 1 : Matches(p, q[k]) /\ Complete(q[k]) => q[k].unreliable <= v.unreliable
        BY <3>1, <2>11
      <4> QED BY <2>9, <2>13, <3>2, <3>4, <4>1 DEF WalkNumber, q
    <3> QED BY <2>13, <3>3, <3>4
  \* The run goes on.
  <2>14. ASSUME v.start = w.start, v.dropped = w.dropped, v.moved = w.moved, v.stop = 0, Ready(p, e)
         PROVE  WalkPlaces(v, i) /\ WalkMoved(p, v, i) /\ WalkKept(p, v) /\ WalkStopped(p, v)
    <3>0. Bound(v, i) = i
      BY <2>14 DEF Bound
    <3>1. WalkPlaces(v, i)
      <4>0. w.start <= i + 1 /\ 0 <= i
        BY <1>2, <1>3, <2>1
      <4>1. 1 <= v.dropped /\ v.dropped <= v.start /\ v.start <= i + 1 /\ v.stop <= i
        BY <2>1, <2>14, <4>0
      <4>2. \A k \in v.moved : 1 <= k /\ k < v.dropped
        BY <2>2, <2>14
      <4> QED BY <3>0, <4>1, <4>2 DEF WalkPlaces
    <3>2. ASSUME NEW k \in v.start .. i PROVE Ready(p, q[k])
      <4>1. k = i \/ k \in w.start .. i - 1
        BY <1>2, <1>3, <2>14, <3>2
      <4> QED BY <2>4, <2>12, <2>14, <4>1
    <3>3. ASSUME NEW k \in 1 .. i, Ready(p, q[k]) PROVE k \in v.moved \/ k >= v.start
      <4>1. CASE k = i
        BY <2>1, <2>14, <4>1
      <4>2. CASE k \in 1 .. i - 1
        BY <2>5, <2>14, <3>3, <4>2
      <4> QED BY <2>10, <4>1, <4>2
    <3>4. WalkMoved(p, v, i)
      BY <2>3, <2>14, <3>0, <3>2, <3>3 DEF WalkMoved, q
    <3>5. WalkKept(p, v) /\ WalkStopped(p, v)
      BY <1>2, <1>4, <2>14 DEF WalkKept, WalkStopped
    <3> QED BY <3>1, <3>4, <3>5
  \* The run is moved.
  <2>15. ASSUME v.start = i + 1, v.moved = w.moved \cup (w.start .. i - 1), v.stop = 0, ~ Ready(p, e),
                w.dropped <= v.dropped, v.dropped <= i + 1, w.start # i => v.dropped >= i
         PROVE  WalkPlaces(v, i) /\ WalkMoved(p, v, i) /\ WalkStopped(p, v)
    <3>0. Bound(v, i) = i
      BY <2>15 DEF Bound
    <3>1. ASSUME NEW k \in v.moved PROVE 1 <= k /\ k < v.dropped
      <4>1. CASE k \in w.moved
        <5>1. k \in Nat /\ 1 <= k /\ k < w.dropped
          BY <2>2, <4>1
        <5> QED BY <1>2, <2>15, <5>1
      <4>2. CASE k \in w.start .. i - 1
        <5>1. w.start # i
          BY <1>2, <1>3, <4>2
        <5>2. v.dropped >= i
          BY <2>15, <5>1
        <5>3. k \in Nat /\ w.start <= k /\ k < i
          BY <1>2, <1>3, <4>2
        <5>4. 1 <= w.start
          BY <1>2, <2>1
        <5>5. 1 <= k
          BY <1>2, <5>3, <5>4
        <5>6. k < v.dropped
          BY <1>2, <1>3, <5>2, <5>3
        <5> QED BY <5>5, <5>6
      <4> QED BY <2>15, <3>1, <4>1, <4>2
    <3>2. WalkPlaces(v, i)
      <4>1. 1 <= v.dropped /\ v.dropped <= v.start /\ v.start <= i + 1 /\ v.stop <= i
        BY <1>2, <1>3, <2>1, <2>15
      <4> QED BY <3>0, <3>1, <4>1 DEF WalkPlaces
    <3>3. ASSUME NEW k \in v.moved PROVE Ready(p, q[k])
      BY <2>3, <2>4, <2>15, <3>3
    <3>4. ASSUME NEW k \in v.start .. i PROVE Ready(p, q[k])
      BY <1>3, <2>15, <3>4
    <3>5. ASSUME NEW k \in 1 .. i, Ready(p, q[k]) PROVE k \in v.moved
      <4>1. k \in 1 .. i - 1
        BY <2>10, <2>12, <2>15, <3>5
      <4>2. CASE k \in w.moved
        BY <2>15, <4>2
      <4>3. CASE k >= w.start
        <5>1. k \in w.start .. i - 1
          BY <1>2, <1>3, <4>1, <4>3
        <5> QED BY <2>15, <5>1
      <4> QED BY <2>5, <3>5, <4>1, <4>2, <4>3
    <3>6. WalkMoved(p, v, i)
      BY <3>0, <3>3, <3>4, <3>5 DEF WalkMoved, q
    <3>7. WalkStopped(p, v)
      BY <2>15 DEF WalkStopped
    <3> QED BY <3>2, <3>6, <3>7
  <2>b. CASE e.kind = "unsequenced" /\ Stays(v, w)
    <3>1. v = w /\ v.stop = 0 /\ Ready(p, e) /\ ~ Matches(p, e)
      BY <1>8, <2>b DEF Stays, Ready, Ordered, Matches
    <3>2. Bound(v, i) = i
      BY <3>1 DEF Bound
    <3>3. WalkNumber(p, v, i)
      BY <2>13, <3>1, <3>2
    <3>4. WalkPlaces(v, i) /\ WalkMoved(p, v, i) /\ WalkKept(p, v) /\ WalkStopped(p, v)
      BY <2>14, <3>1
    <3> QED BY <3>3, <3>4 DEF WalkInv
  <2>c. CASE Matches(p, e) /\ Complete(e) /\ Runs(v, w, e)
    <3>1. /\ v.start = w.start /\ v.dropped = w.dropped /\ v.moved = w.moved
          /\ v.stop = 0 /\ v.unreliable = e.unreliable /\ Ready(p, e)
      BY <1>8, <2>c DEF Runs, Ready, Matches
    <3>2. Bound(v, i) = i
      BY <3>1 DEF Bound
    <3>3. WalkPlaces(v, i) /\ WalkMoved(p, v, i) /\ WalkKept(p, v) /\ WalkStopped(p, v)
      BY <2>14, <3>1
    <3>4. ASSUME NEW k \in 1 .. i, Matches(p, q[k]), Complete(q[k]) PROVE q[k].unreliable <= v.unreliable
      <4>1. CASE k = i
        BY <1>6, <2>12, <3>1, <4>1
      <4>2. CASE k # i
        <5>1. k < i /\ k \in 1 .. n
          BY <1>1, <1>3, <4>2
        <5>2. Matches(p, q[i])
          BY <2>c, <2>12
        <5>3. q[k].unreliable < q[i].unreliable
          BY <1>3, <3>4, <5>1, <5>2, MatchingSorted DEF q, n
        <5>4. q[k].unreliable \in Nat
          <6>1. Known(q[k])
            BY <5>1 DEF UnreliablesRight, q, n
          <6> QED BY <6>1, KnownIs
        <5> QED BY <1>6, <2>12, <3>1, <5>3, <5>4
      <4> QED BY <4>1, <4>2
    <3>5. v.unreliable >= p.unreliable
      BY <1>1, <1>5, <1>6, <2>c, <3>1
    <3>6. \E k \in 1 .. i : Matches(p, q[k]) /\ Complete(q[k]) /\ v.unreliable = q[k].unreliable
      BY <2>c, <2>12, <3>1
    <3>7. WalkNumber(p, v, i)
      BY <3>2, <3>4, <3>5, <3>6 DEF WalkNumber, q
    <3> QED BY <3>3, <3>7 DEF WalkInv
  <2>d. CASE Matches(p, e) /\ ~ Complete(e) /\ Skips(v, w, i)
    <3>1. /\ v.start = i + 1 /\ v.moved = w.moved \cup (w.start .. i - 1)
          /\ v.dropped = IF w.start # i THEN i ELSE IF w.dropped # i THEN Kept(w, i) ELSE w.dropped
          /\ v.stop = 0 /\ v.unreliable = w.unreliable /\ ~ Ready(p, e)
      BY <1>8, <2>d DEF Skips, Ready, Matches, Ordered
    <3>2. Bound(v, i) = i
      BY <3>1 DEF Bound
    <3>3. ASSUME w.start = i, w.dropped # i PROVE Kept(w, i) = i - 1 /\ i - 1 >= w.dropped
      <4>1. w.dropped <= i - 1 /\ 1 <= w.dropped
        BY <1>2, <1>3, <2>1, <3>3
      <4>2. i - 1 \notin w.moved
        <5>1. i - 1 \in w.moved => i - 1 < w.dropped
          BY <2>2
        <5> QED BY <1>2, <1>3, <4>1, <5>1
      <4>3. i \in Nat \ {0} /\ i - 1 \in 1 .. i - 1
        BY <1>2, <1>3, <4>1
      <4>4. Kept(w, i) \in 0 .. i - 1 /\ (i - 1 > Kept(w, i) => i - 1 \in w.moved)
        BY <4>3, KeptType
      <4>5. ~ i - 1 > Kept(w, i)
        BY <4>2, <4>4
      <4> DEFINE x == Kept(w, i)
      <4> HIDE DEF x
      <4>6. x \in 0 .. i - 1 /\ ~ i - 1 > x
        BY <4>4, <4>5 DEF x
      <4>7. x = i - 1
        BY <1>3, <4>6
      <4> QED BY <1>2, <1>3, <4>1, <4>7 DEF x
    <3>4. /\ v.dropped = i - 1 \/ v.dropped = i
          /\ w.dropped <= v.dropped
          /\ w.start # i => v.dropped = i
          /\ v.dropped = i - 1 => w.start = i
      <4>1. CASE w.start # i
        BY <1>2, <1>3, <2>1, <3>1, <4>1
      <4>2. CASE w.start = i /\ w.dropped # i
        BY <1>2, <1>3, <3>1, <3>3, <4>2
      <4>3. CASE w.start = i /\ w.dropped = i
        BY <1>2, <1>3, <3>1, <4>3
      <4> QED BY <4>1, <4>2, <4>3
    <3>5. WalkPlaces(v, i) /\ WalkMoved(p, v, i) /\ WalkStopped(p, v)
      <4>1. v.dropped <= i + 1 /\ (w.start # i => v.dropped >= i)
        BY <1>2, <1>3, <3>4
      <4>2. v.start = i + 1 /\ v.moved = w.moved \cup (w.start .. i - 1) /\ v.stop = 0 /\ ~ Ready(p, e)
        BY <3>1
      <4>3. w.dropped <= v.dropped
        BY <3>4
      <4> QED BY <2>15, <4>1, <4>2, <4>3
    <3>6. ASSUME NEW k \in v.dropped .. v.start - 1 PROVE Matches(p, q[k]) /\ ~ Complete(q[k])
      <4>1. k = i \/ (k = i - 1 /\ v.dropped = i - 1)
        BY <1>2, <1>3, <3>1, <3>4, <3>6
      <4>2. CASE k = i
        BY <2>d, <2>12, <4>2
      <4>3. CASE k = i - 1 /\ v.dropped = i - 1
        <5>1. k \in w.dropped .. w.start - 1
          BY <1>2, <1>3, <3>4, <4>3
        <5> QED BY <2>6, <5>1
      <4> QED BY <4>1, <4>2, <4>3
    <3>7. WalkKept(p, v)
      BY <3>6 DEF WalkKept, q
    <3>8. WalkNumber(p, v, i)
      BY <2>d, <2>13, <3>1, <3>2
    <3> QED BY <3>5, <3>7, <3>8 DEF WalkInv
  <2>e. CASE e.kind # "unsequenced" /\ e.reliable # p.reliable /\ InWindow(p.reliable, e.reliable) /\ Stops(v, w, i)
    <3>1. /\ v.start = w.start /\ v.dropped = w.dropped /\ v.moved = w.moved
          /\ v.stop = i /\ v.unreliable = w.unreliable
      BY <2>e DEF Stops
    <3>2. Bound(v, i) = i - 1
      BY <1>3, <3>1 DEF Bound
    <3>3. WalkPlaces(v, i)
      <4>1. (i - 1) + 1 = i /\ v.stop <= i
        BY <1>3, <3>1
      <4> QED BY <2>1, <2>2, <3>1, <3>2, <4>1 DEF WalkPlaces
    <3>4. WalkMoved(p, v, i)
      BY <2>3, <2>4, <2>5, <3>1, <3>2 DEF WalkMoved, q
    <3>5. WalkKept(p, v)
      BY <1>4, <3>1 DEF WalkKept
    <3>6. WalkNumber(p, v, i)
      <4>1. ~ Matches(p, e)
        BY <2>e DEF Matches
      <4> QED BY <2>13, <3>1, <3>2, <4>1
    <3>7. WalkStopped(p, v)
      BY <2>e, <3>1 DEF WalkStopped, Ordered, e, q
    <3> QED BY <3>3, <3>4, <3>5, <3>6, <3>7 DEF WalkInv
  <2>f. CASE e.kind # "unsequenced" /\ e.reliable # p.reliable /\ ~ InWindow(p.reliable, e.reliable) /\ Drops(v, w, i)
    <3>1. /\ v.start = i + 1 /\ v.moved = w.moved \cup (w.start .. i - 1) /\ v.dropped = i + 1
          /\ v.stop = 0 /\ v.unreliable = w.unreliable /\ ~ Ready(p, e) /\ ~ Matches(p, e)
      BY <1>8, <2>f DEF Drops, Ready, Matches, Ordered
    <3>2. Bound(v, i) = i
      BY <3>1 DEF Bound
    <3>3. WalkPlaces(v, i) /\ WalkMoved(p, v, i) /\ WalkStopped(p, v)
      <4>1. w.dropped <= v.dropped /\ v.dropped <= i + 1 /\ (w.start # i => v.dropped >= i)
        BY <1>2, <1>3, <2>1, <3>1
      <4> QED BY <2>15, <3>1, <4>1
    <3>4. WalkKept(p, v)
      BY <1>3, <3>1 DEF WalkKept
    <3>5. WalkNumber(p, v, i)
      BY <2>13, <3>1, <3>2
    <3> QED BY <3>3, <3>4, <3>5 DEF WalkInv
  <2> QED BY <1>8, <2>b, <2>c, <2>d, <2>e, <2>f DEF Turn, e, q
<1> QED BY <1>7, <1>8, <1>a DEF Turn, e, q


LEMMA WalkedRight ==
    ASSUME Sent, NEW p, UnreliablesRight(p)
    PROVE  Walked(p) \in Walks /\ WalkInv(p, Walked(p), Len(p.unreliables))
<1> DEFINE n == Len(p.unreliables)
<1>1. p \in Receivers /\ p.unreliables \in Seq(Entries) /\ p.unreliable \in Nat
  BY DEF UnreliablesRight, Receivers
<1>2. n \in Nat
  BY <1>1, LenProperties
<1>3. PICK h : IsWalk(h, p)
  BY <1>1, WalkRuns
<1>4. /\ h \in [0 .. n -> Walks] /\ h[0] = WalkStart(p) /\ Walked(p) = h[n]
      /\ \A i \in 1 .. n : Turn(p, h[i], h[i - 1], p.unreliables[i], i)
  BY <1>3 DEF IsWalk
<1> HIDE DEF n
<1> DEFINE N == {i \in Nat : i <= n => WalkInv(p, h[i], i)}
<1>5. 0 \in N
  <2>1. WalkStart(p) = [start |-> 1, dropped |-> 1, moved |-> {}, stop |-> 0, unreliable |-> p.unreliable]
    BY DEF WalkStart
  <2> DEFINE w == WalkStart(p)
  <2>2. w.start = 1 /\ w.dropped = 1 /\ w.moved = {} /\ w.stop = 0 /\ w.unreliable = p.unreliable
    BY <2>1
  <2> HIDE DEF w
  <2>3. Bound(w, 0) = 0
    BY <2>2 DEF Bound
  <2>4. WalkPlaces(w, 0) /\ WalkMoved(p, w, 0) /\ WalkKept(p, w) /\ WalkNumber(p, w, 0) /\ WalkStopped(p, w)
    BY <1>1, <2>2, <2>3 DEF WalkPlaces, WalkMoved, WalkKept, WalkNumber, WalkStopped
  <2> QED BY <1>4, <2>4 DEF w, WalkInv
<1>6. ASSUME NEW i \in Nat, i \in N PROVE i + 1 \in N
  <2> SUFFICES ASSUME i + 1 <= n PROVE WalkInv(p, h[i + 1], i + 1)
    OBVIOUS
  <2> DEFINE j == i + 1
  <2>1. i <= n /\ j \in 1 .. n /\ j - 1 = i
    BY <1>2
  <2>2. h[i] \in Walks /\ h[j] \in Walks
    BY <1>2, <1>4, <2>1
  <2>3. Turn(p, h[j], h[j - 1], p.unreliables[j], j)
    BY <1>4, <2>1
  <2>4. WalkInv(p, h[i], i)
    BY <1>6, <2>1
  <2> HIDE DEF j
  <2>5. WalkInv(p, h[i], j - 1) /\ Turn(p, h[j], h[i], p.unreliables[j], j)
    BY <2>1, <2>3, <2>4
  <2>6. WalkInv(p, h[j], j)
    BY <2>1, <2>2, <2>5, WalkInvTurn DEF n
  <2> QED BY <2>6 DEF j
<1> HIDE DEF N
<1>7. Nat \subseteq N
  BY <1>5, <1>6, Induction
<1>8. WalkInv(p, h[n], n)
  BY <1>2, <1>7 DEF N
<1>9. h[n] \in Walks
  BY <1>2, <1>4
<1> QED BY <1>4, <1>8, <1>9 DEF n

\* Where the walk ended.
WalkEnd(p) == IF Walked(p).stop > 0 THEN Walked(p).stop ELSE Len(p.unreliables) + 1

WalkedOver(p, W, q, end) ==
    /\ W \in Walks /\ q = p.unreliables
    /\ end \in 1 .. Len(q) + 1
    /\ \A k \in W.moved : k \in 1 .. end - 1 /\ k < W.dropped /\ Ready(p, q[k])
    /\ \A k \in 1 .. end - 1 : Ready(p, q[k]) => k \in W.moved
    /\ \A k \in 1 .. Len(q) : k >= W.dropped => k >= end \/ (Matches(p, q[k]) /\ ~ Complete(q[k]))
    /\ end <= Len(q) => Ordered(q[end]) /\ q[end].reliable # p.reliable /\ InWindow(p.reliable, q[end].reliable)
    /\ W.unreliable >= p.unreliable
    /\ \/ W.unreliable = p.unreliable
       \/ \E k \in 1 .. end - 1 : Matches(p, q[k]) /\ Complete(q[k]) /\ W.unreliable = q[k].unreliable
    /\ \A k \in 1 .. end - 1 : Matches(p, q[k]) /\ Complete(q[k]) => q[k].unreliable <= W.unreliable

LEMMA WalkOverRight ==
    ASSUME Sent, NEW p, UnreliablesRight(p)
    PROVE  WalkedOver(p, WalkOver(p), p.unreliables, WalkEnd(p))
<1> DEFINE q == p.unreliables
           n == Len(q)
           w == Walked(p)
           W == WalkOver(p)
           end == WalkEnd(p)
<1>1. p \in Receivers /\ q \in Seq(Entries)
  BY DEF UnreliablesRight, Receivers
<1>2. n \in Nat
  BY <1>1, LenProperties
<1>3. w \in Walks /\ WalkInv(p, w, n)
  BY WalkedRight
<1>4. /\ W \in Walks /\ W.unreliable = w.unreliable
      /\ w.start = end => W = w
      /\ w.start # end => W.moved = w.moved \cup (w.start .. end - 1) /\ W.dropped = end
  BY <1>1, WalkOverIs DEF WalkEnd
<1>5. end = IF w.stop > 0 THEN w.stop ELSE n + 1
  BY DEF WalkEnd
<1> HIDE DEF n, w, W, end, q
<1>6. w.start \in Nat /\ w.dropped \in Nat /\ w.stop \in Nat /\ W.dropped \in Nat
  BY <1>3, <1>4 DEF Walks
<1>7. WalkPlaces(w, n) /\ WalkMoved(p, w, n) /\ WalkKept(p, w) /\ WalkNumber(p, w, n) /\ WalkStopped(p, w)
  BY <1>3 DEF WalkInv
<1>8. Bound(w, n) = end - 1 /\ end \in 1 .. n + 1
  <2>1. w.stop <= n
    BY <1>7 DEF WalkPlaces
  <2> QED BY <1>2, <1>5, <1>6, <2>1 DEF Bound
<1>9. 1 <= w.dropped /\ w.dropped <= w.start /\ w.start <= end
  <2>1. 1 <= w.dropped /\ w.dropped <= w.start /\ w.start <= (end - 1) + 1
    BY <1>7, <1>8 DEF WalkPlaces
  <2> QED BY <1>2, <1>6, <1>8, <2>1
<1>10. \A k \in w.moved : k \in Nat /\ 1 <= k /\ k < w.dropped
  BY <1>3, <1>7 DEF WalkPlaces, Walks
<1>11. \A k \in w.moved : Ready(p, q[k])
  BY <1>7 DEF WalkMoved, q
<1>12. \A k \in w.start .. end - 1 : Ready(p, q[k])
  BY <1>7, <1>8 DEF WalkMoved, q
<1>13. \A k \in 1 .. end - 1 : Ready(p, q[k]) => k \in w.moved \/ k >= w.start
  BY <1>7, <1>8 DEF WalkMoved, q
<1>14. \A k \in w.dropped .. w.start - 1 : Matches(p, q[k]) /\ ~ Complete(q[k])
  BY <1>7 DEF WalkKept, q
<1>15. ASSUME NEW k \in W.moved PROVE k \in 1 .. end - 1 /\ k < W.dropped /\ Ready(p, q[k])
  <2>1. CASE k \in w.moved
    <3>1. k \in Nat /\ 1 <= k /\ k < w.dropped /\ Ready(p, q[k])
      BY <1>10, <1>11, <2>1
    <3>2. W.dropped = w.dropped \/ W.dropped = end
      BY <1>4
    <3> QED BY <1>2, <1>6, <1>8, <1>9, <3>1, <3>2
  <2>2. CASE k \notin w.moved
    <3>1. w.start # end /\ k \in w.start .. end - 1 /\ W.dropped = end
      BY <1>4, <1>15, <2>2
    <3>2. Ready(p, q[k])
      BY <1>12, <3>1
    <3>3. k \in 1 .. end - 1 /\ k < end
      BY <1>2, <1>6, <1>8, <1>9, <3>1
    <3> QED BY <3>1, <3>2, <3>3
  <2> QED BY <2>1, <2>2
<1>16. ASSUME NEW k \in 1 .. end - 1, Ready(p, q[k]) PROVE k \in W.moved
  <2>1. CASE k \in w.moved
    BY <1>4, <2>1
  <2>2. CASE k >= w.start
    <3>1. w.start # end /\ k \in w.start .. end - 1
      BY <1>2, <1>6, <1>8, <2>2
    <3> QED BY <1>4, <3>1
  <2> QED BY <1>13, <1>16, <2>1, <2>2
<1>17. ASSUME NEW k \in 1 .. n, k >= W.dropped, ~ k >= end PROVE Matches(p, q[k]) /\ ~ Complete(q[k])
  <2>1. w.start = end /\ W = w
    BY <1>4, <1>17
  <2>2. k \in w.dropped .. w.start - 1
    BY <1>2, <1>6, <1>8, <1>17, <2>1
  <2> QED BY <1>14, <2>2
<1>18. end <= n => Ordered(q[end]) /\ q[end].reliable # p.reliable /\ InWindow(p.reliable, q[end].reliable)
  <2> SUFFICES ASSUME end <= n PROVE Ordered(q[end]) /\ q[end].reliable # p.reliable /\ InWindow(p.reliable, q[end].reliable)
    OBVIOUS
  <2>1. w.stop > 0 /\ end = w.stop
    BY <1>2, <1>5, <1>6
  <2> QED BY <1>7, <2>1 DEF WalkStopped, q
<1>19. /\ W.unreliable >= p.unreliable
       /\ \/ W.unreliable = p.unreliable
          \/ \E k \in 1 .. end - 1 : Matches(p, q[k]) /\ Complete(q[k]) /\ W.unreliable = q[k].unreliable
       /\ \A k \in 1 .. end - 1 : Matches(p, q[k]) /\ Complete(q[k]) => q[k].unreliable <= W.unreliable
  BY <1>4, <1>7, <1>8 DEF WalkNumber, q
<1>20. WalkedOver(p, W, q, end)
  <2>1. Len(q) = n /\ q = p.unreliables
    BY DEF n, q
  <2> QED BY <1>4, <1>8, <1>15, <1>16, <1>17, <1>18, <1>19, <2>1 DEF WalkedOver
<1> QED BY <1>20 DEF W, q, end
-----------------------------------------------------------------------------
(* What was handed over, and what is still to come.                        *)

Past(c, r) ==
    \/ End(c) < Off(r.reliable)
    \/ End(c) = Off(r.reliable) /\ c.unreliable <= r.unreliable

Future(c, r) ==
    \/ Off(c.reliable) > Off(r.reliable)
    \/ Off(c.reliable) = Off(r.reliable) /\ ~ Reliable(c.kind) /\ c.unreliable > r.unreliable

Further(v, r) ==
    \/ Off(v.reliable) > Off(r.reliable)
    \/ v.reliable = r.reliable /\ v.unreliable >= r.unreliable

LEMMA RecordTypes ==
    ASSUME NEW r \in Receivers
    PROVE  r.reliable \in 0 .. Modulus - 1 /\ Off(r.reliable) \in Nat /\ r.unreliable \in Nat
<1>1. r.reliable \in 0 .. Modulus - 1 /\ r.unreliable \in Nat
  BY DEF Receivers
<1>2. Off(r.reliable) \in 0 .. Modulus - 1
  BY <1>1, OffType
<1> QED BY <1>1, <1>2, Sizes

LEMMA PastStays ==
    ASSUME Sent, NEW c, Known(c), NEW r \in Receivers, NEW v \in Receivers, Further(v, r), Past(c, r)
    PROVE  Past(c, v)
<1>1. End(c) \in Nat /\ c.unreliable \in Nat
  BY KnownIs
<1>2. /\ r.reliable \in 0 .. Modulus - 1 /\ Off(r.reliable) \in Nat /\ r.unreliable \in Nat
      /\ v.reliable \in 0 .. Modulus - 1 /\ Off(v.reliable) \in Nat /\ v.unreliable \in Nat
  BY RecordTypes
<1> QED BY <1>1, <1>2 DEF Past, Further

\* What is past was sent before what is to come.
LEMMA PastBeforeFuture ==
    ASSUME Sent, NEW r \in Receivers, NEW c, NEW e, Known(c), Known(e), Ordered(c), Ordered(e),
           Past(c, r), Future(e, r)
    PROVE  c.id < e.id
<1> DEFINE p == Off(r.reliable)
<1>1. p \in Nat /\ r.unreliable \in Nat
  BY RecordTypes
<1>2. c.id \in Nat /\ c.unreliable \in Nat /\ End(c) \in Nat /\ Off(c.reliable) \in Nat /\ End(c) >= Off(c.reliable)
  BY KnownIs
<1>3. e.id \in Nat /\ e.unreliable \in Nat /\ End(e) \in Nat /\ Off(e.reliable) \in Nat /\ End(e) >= Off(e.reliable)
  BY KnownIs
<1>4. ~ Reliable(c.kind) => End(c) = Off(c.reliable)
  BY <1>2, EndIs
<1>5. ~ Reliable(e.kind) => End(e) = Off(e.reliable)
  BY <1>3, EndIs
<1>6. Reliable(e.kind) => e.unreliable = 0
  BY KnownIs DEF SentRight
<1>7. End(c) < p \/ (End(c) = p /\ c.unreliable <= r.unreliable)
  BY DEF Past
<1>8. Off(e.reliable) > p \/ (Off(e.reliable) = p /\ ~ Reliable(e.kind) /\ e.unreliable > r.unreliable)
  BY DEF Future
<1> HIDE DEF p
<1>9. CASE c.id = e.id
  <2>1. c.kind = e.kind /\ c.reliable = e.reliable /\ c.unreliable = e.unreliable
    BY <1>9, KnownPairs
  <2> QED BY <1>1, <1>2, <1>3, <1>4, <1>7, <1>8, <2>1
<1>10. CASE e.id < c.id
  <2>1. Below(e, c)
    BY <1>10, KnownPairs
  <2>2. End(e) < Off(c.reliable)
        \/ (End(e) = Off(c.reliable) /\ ~ Reliable(c.kind) /\ e.unreliable < c.unreliable)
    BY <2>1 DEF Below
  <2> QED BY <1>1, <1>2, <1>3, <1>4, <1>7, <1>8, <2>2
<1> QED BY <1>2, <1>3, <1>9, <1>10

\* A are the packets that were handed over when the channel is at r, those without numbers
\* among G.
History(A, r, G) ==
    /\ \A i \in 1 .. Len(A) : A[i] \in 1 .. Len(sender.packets)
    /\ \A i \in 1 .. Len(A) : \A c \in net : c.id = A[i] /\ Ordered(c) => Past(c, r)
    /\ \A i, j \in 1 .. Len(A) : A[i] = A[j] => i = j
    /\ \A i, j \in 1 .. Len(A) : i < j /\ Sequenced(A[i]) /\ Sequenced(A[j]) => A[i] < A[j]
    /\ \A i \in 1 .. Len(A) : ~ Sequenced(A[i]) => A[i] \in G
    /\ \A c \in net : Reliable(c.kind) /\ End(c) <= Off(r.reliable) => \E i \in 1 .. Len(A) : A[i] = c.id

\* The packets of B are handed over while the channel goes on from r to v.
Brings(B, r, v, G, H) ==
    /\ \A i \in 1 .. Len(B) : Known(B[i]) /\ Complete(B[i])
    /\ \A i \in 1 .. Len(B) : Ordered(B[i]) => Future(B[i], r) /\ Past(B[i], v)
    /\ \A i \in 1 .. Len(B) : ~ Ordered(B[i]) => B[i].id \in H \ G
    /\ \A i, j \in 1 .. Len(B) : i < j => B[i].id # B[j].id
    /\ \A i, j \in 1 .. Len(B) : i < j /\ Ordered(B[i]) /\ Ordered(B[j]) => B[i].id < B[j].id
    /\ Further(v, r) /\ G \subseteq H
    /\ \A c \in net : Reliable(c.kind) /\ End(c) <= Off(v.reliable)
                      => End(c) <= Off(r.reliable) \/ \E i \in 1 .. Len(B) : B[i].id = c.id

FollowedBy(A2, A, B) ==
    /\ Len(A2) = Len(A) + Len(B)
    /\ \A i \in 1 .. Len(A) : A2[i] = A[i]
    /\ \A i \in 1 .. Len(B) : A2[Len(A) + i] = B[i].id

LEMMA HistoryGrows ==
    ASSUME Sent, NEW r \in Receivers, NEW v \in Receivers, NEW A, NEW B, NEW A2, NEW G, NEW H,
           Len(A) \in Nat, Len(B) \in Nat, FollowedBy(A2, A, B), History(A, r, G), Brings(B, r, v, G, H)
    PROVE  History(A2, v, H)
<1> DEFINE a == Len(A)
           b == Len(B)
           n == Len(A2)
<1>1. a \in Nat /\ b \in Nat /\ n = a + b /\ (\A i \in 1 .. a : A2[i] = A[i]) /\ (\A i \in 1 .. b : A2[a + i] = B[i].id)
  BY DEF FollowedBy
<1>2. /\ \A i \in 1 .. a : A[i] \in 1 .. Len(sender.packets)
      /\ \A i \in 1 .. a : \A c \in net : c.id = A[i] /\ Ordered(c) => Past(c, r)
      /\ \A i, j \in 1 .. a : A[i] = A[j] => i = j
      /\ \A i, j \in 1 .. a : i < j /\ Sequenced(A[i]) /\ Sequenced(A[j]) => A[i] < A[j]
      /\ \A i \in 1 .. a : ~ Sequenced(A[i]) => A[i] \in G
      /\ \A c \in net : Reliable(c.kind) /\ End(c) <= Off(r.reliable) => \E i \in 1 .. a : A[i] = c.id
  BY DEF History
<1>3. /\ \A i \in 1 .. b : Known(B[i])
      /\ \A i \in 1 .. b : Ordered(B[i]) => Future(B[i], r) /\ Past(B[i], v)
      /\ \A i \in 1 .. b : ~ Ordered(B[i]) => B[i].id \in H \ G
      /\ \A i, j \in 1 .. b : i < j => B[i].id # B[j].id
      /\ \A i, j \in 1 .. b : i < j /\ Ordered(B[i]) /\ Ordered(B[j]) => B[i].id < B[j].id
      /\ Further(v, r) /\ G \subseteq H
      /\ \A c \in net : Reliable(c.kind) /\ End(c) <= Off(v.reliable)
                        => End(c) <= Off(r.reliable) \/ \E i \in 1 .. b : B[i].id = c.id
  BY DEF Brings
<1> HIDE DEF a, b, n
<1>4. ASSUME NEW i \in 1 .. n PROVE i \in 1 .. a \/ (i - a \in 1 .. b /\ i = a + (i - a))
  BY <1>1
<1>5. ASSUME NEW i \in 1 .. b
      PROVE  /\ B[i].id \in 1 .. Len(sender.packets) /\ B[i].id \in Nat
             /\ Ordered(B[i]) <=> Sequenced(B[i].id)
  <2>1. SentRight(B[i]) /\ B[i].id \in Nat
    BY <1>3, KnownIs
  <2> QED BY <2>1 DEF SentRight, Sequenced, Kind, Ordered
<1>6. ASSUME NEW i \in 1 .. a, NEW k \in 1 .. b
      PROVE  /\ A[i] # B[k].id
             /\ Sequenced(A[i]) /\ Sequenced(B[k].id) => A[i] < B[k].id
  <2>1. PICK c \in net : c.id = A[i]
    BY <1>2 DEF Sent, SenderInv
  <2>2. Known(c) /\ Known(B[k])
    BY <1>3, NetKnown
  <2>3. Ordered(c) <=> Sequenced(A[i])
    BY <2>1, <2>2, KnownIs DEF SentRight, Sequenced, Kind, Ordered
  <2>4. ASSUME Sequenced(A[i]), Sequenced(B[k].id) PROVE A[i] < B[k].id
    <3>1. Past(c, r) /\ Future(B[k], r) /\ Ordered(c) /\ Ordered(B[k])
      BY <1>2, <1>3, <1>5, <2>1, <2>3, <2>4
    <3> QED BY <2>1, <2>2, <3>1, PastBeforeFuture
  <2>5. ASSUME A[i] = B[k].id PROVE FALSE
    <3>1. CASE Sequenced(A[i])
      <4>1. A[i] < B[k].id /\ B[k].id \in Nat
        BY <1>5, <2>4, <2>5, <3>1
      <4> QED BY <2>5, <4>1
    <3>2. CASE ~ Sequenced(A[i])
      <4>1. A[i] \in G /\ B[k].id \notin G
        BY <1>2, <1>3, <1>5, <2>5, <3>2
      <4> QED BY <2>5, <4>1
    <3> QED BY <3>1, <3>2
  <2> QED BY <2>4, <2>5
<1>7. ASSUME NEW i \in 1 .. n PROVE A2[i] \in 1 .. Len(sender.packets)
  <2>1. CASE i \in 1 .. a
    BY <1>1, <1>2, <2>1
  <2>2. CASE i - a \in 1 .. b /\ i = a + (i - a)
    BY <1>1, <1>5, <2>2
  <2> QED BY <1>4, <2>1, <2>2
<1>8. ASSUME NEW i \in 1 .. n, NEW c \in net, c.id = A2[i], Ordered(c) PROVE Past(c, v)
  <2>0. Known(c)
    BY NetKnown
  <2>1. CASE i \in 1 .. a
    <3>1. Past(c, r)
      BY <1>1, <1>2, <1>8, <2>1
    <3> QED BY <1>3, <2>0, <3>1, PastStays
  <2>2. CASE i - a \in 1 .. b /\ i = a + (i - a)
    <3> DEFINE k == i - a
    <3>1. k \in 1 .. b /\ c.id = B[k].id
      BY <1>1, <1>8, <2>2
    <3> HIDE DEF k
    <3>2. c.kind = B[k].kind /\ c.reliable = B[k].reliable /\ c.unreliable = B[k].unreliable
      BY <1>3, <2>0, <3>1, KnownPairs
    <3>3. Past(B[k], v)
      BY <1>3, <1>8, <3>1, <3>2 DEF Ordered
    <3> QED BY <3>2, <3>3 DEF Past, End
  <2> QED BY <1>4, <2>1, <2>2
<1>9. ASSUME NEW i \in 1 .. n, NEW j \in 1 .. n, i < j
      PROVE  A2[i] # A2[j] /\ (Sequenced(A2[i]) /\ Sequenced(A2[j]) => A2[i] < A2[j])
  <2>1. CASE j \in 1 .. a
    <3>1. i \in 1 .. a /\ i # j
      BY <1>1, <1>9, <2>1
    <3> QED BY <1>1, <1>2, <1>9, <2>1, <3>1
  <2>2. CASE i \in 1 .. a /\ j - a \in 1 .. b /\ j = a + (j - a)
    <3> DEFINE k == j - a
    <3>1. k \in 1 .. b /\ A2[j] = B[k].id
      BY <1>1, <2>2
    <3> HIDE DEF k
    <3> QED BY <1>1, <1>6, <2>2, <3>1
  <2>3. CASE i - a \in 1 .. b /\ i = a + (i - a) /\ j - a \in 1 .. b /\ j = a + (j - a)
    <3> DEFINE k == j - a
               l == i - a
    <3>1. k \in 1 .. b /\ A2[j] = B[k].id /\ l \in 1 .. b /\ A2[i] = B[l].id /\ l < k
      BY <1>1, <1>9, <2>3
    <3> HIDE DEF k, l
    <3>2. B[l].id # B[k].id /\ (Ordered(B[l]) /\ Ordered(B[k]) => B[l].id < B[k].id)
      BY <1>3, <3>1
    <3>3. (Ordered(B[l]) <=> Sequenced(B[l].id)) /\ (Ordered(B[k]) <=> Sequenced(B[k].id))
      BY <1>5, <3>1
    <3> QED BY <3>1, <3>2, <3>3
  <2> QED BY <1>4, <2>1, <2>2, <2>3
<1>10. ASSUME NEW i \in 1 .. n, NEW j \in 1 .. n, A2[i] = A2[j] PROVE i = j
  <2>1. i \in Nat /\ j \in Nat
    BY <1>1
  <2> QED BY <1>9, <1>10, <2>1
<1>11. ASSUME NEW i \in 1 .. n, ~ Sequenced(A2[i]) PROVE A2[i] \in H
  <2>1. CASE i \in 1 .. a
    BY <1>1, <1>2, <1>3, <1>11, <2>1
  <2>2. CASE i - a \in 1 .. b /\ i = a + (i - a)
    <3> DEFINE k == i - a
    <3>1. k \in 1 .. b /\ A2[i] = B[k].id
      BY <1>1, <2>2
    <3> HIDE DEF k
    <3> QED BY <1>3, <1>5, <1>11, <3>1
  <2> QED BY <1>4, <2>1, <2>2
<1>12. ASSUME NEW c \in net, Reliable(c.kind), End(c) <= Off(v.reliable) PROVE \E i \in 1 .. n : A2[i] = c.id
  <2>1. CASE End(c) <= Off(r.reliable)
    <3>1. PICK i \in 1 .. a : A[i] = c.id
      BY <1>2, <1>12, <2>1
    <3>2. i \in 1 .. n
      BY <1>1
    <3> QED BY <1>1, <3>1, <3>2
  <2>2. CASE \E i \in 1 .. b : B[i].id = c.id
    <3>1. PICK i \in 1 .. b : B[i].id = c.id
      BY <2>2
    <3>2. a + i \in 1 .. n /\ A2[a + i] = B[i].id
      BY <1>1
    <3> QED BY <3>1, <3>2
  <2> QED BY <1>3, <1>12, <2>1, <2>2
<1> QED BY <1>7, <1>8, <1>9, <1>10, <1>11, <1>12 DEF History, n

Ascending(q) == \A i, j \in 1 .. Len(q) : i < j => q[i].id < q[j].id

Placed(r) == r \in Receivers /\ Off(r.reliable) <= Off(sender.reliable)

ReliablesRight(r) ==
    /\ \A i \in 1 .. Len(r.reliables) :
          LET e == r.reliables[i]
          IN  Known(e) /\ Reliable(e.kind) /\ Off(e.reliable) > Off(r.reliable)
    /\ Ascending(r.reliables)

HeadWaits(r) == Len(r.reliables) > 0 => ~ NextInLine(r.reliable, r.reliables[1])

UnreliablesWait(r) ==
    /\ \A i \in 1 .. Len(r.unreliables) :
          LET e == r.unreliables[i]
          IN  Known(e) /\ ~ Reliable(e.kind) /\ Ordered(e) /\ Future(e, r) /\ ~ Ready(r, e)
    /\ Ascending(r.unreliables)

AllWhole(q) == \A i \in 1 .. Len(q) : Complete(q[i])

\* The channel between two commands.
Good(r) == Placed(r) /\ ReliablesRight(r) /\ HeadWaits(r) /\ UnreliablesWait(r) /\ AllWhole(r.dispatched)

-----------------------------------------------------------------------------
(* Reliable packets in line.                                               *)

LEMMA ReliableEnds ==
    ASSUME Sent, Distinct, NEW e, Known(e), Reliable(e.kind)
    PROVE  /\ e.reliable \in 0 .. Modulus - 1 /\ Off(e.reliable) \in Nat /\ Ordered(e)
           /\ End(e) \in Nat /\ End(e) = Off(e.reliable) + Parts(e.kind) - 1 /\ Parts(e.kind) \in 1 .. 2
           /\ End(e) <= Off(sender.reliable) /\ End(e) >= Off(e.reliable)
           /\ Off((e.reliable + Parts(e.kind) - 1) % Modulus) = End(e)
<1>1. /\ e.reliable \in 0 .. Modulus - 1 /\ Off(e.reliable) \in Nat
      /\ End(e) \in Nat /\ End(e) >= Off(e.reliable) /\ (Ordered(e) => End(e) <= Off(sender.reliable))
  BY KnownIs
<1>2. Ordered(e) /\ End(e) = Off(e.reliable) + Parts(e.kind) - 1 /\ Parts(e.kind) \in 1 .. 2
  BY <1>1, EndIs
<1>3. Off(sender.reliable) \in 0 .. 2 * MaxPackets
  BY SentTypes
<1>4. 2 * MaxPackets \in Nat /\ 2 * MaxPackets < Modulus
  <2> DEFINE m == 2 * MaxPackets
             f == (FreeWindows - 1) * WindowSize
  <2>1. m \in Nat /\ f \in Nat /\ m + f < Modulus /\ Modulus \in Nat
    BY DistinctIs, Sizes
  <2> HIDE DEF m, f
  <2>2. m < Modulus
    BY <2>1
  <2> QED BY <2>1, <2>2 DEF m
<1> DEFINE x == e.reliable
           k == Parts(e.kind) - 1
           s == Off(sender.reliable)
           m == 2 * MaxPackets
           y == (x + k) % Modulus
<1>5. x \in 0 .. Modulus - 1 /\ k \in 0 .. 1 /\ Off(x) \in Nat /\ Off(x) + k = End(e)
  BY <1>1, <1>2
<1>6. y = (e.reliable + Parts(e.kind) - 1) % Modulus
  BY <1>2, Sizes
<1>7. Off(x) + k <= s /\ s \in 0 .. m /\ m \in Nat /\ m < Modulus
  BY <1>1, <1>2, <1>3, <1>4, <1>5
<1> HIDE DEF x, k, s, m
<1>8. Off(x) + k < Modulus /\ k \in 0 .. 2
  BY <1>5, <1>7, Sizes
<1>9. Off(y) = Off(x) + k
  BY <1>5, <1>8, OffPlus
<1> HIDE DEF y
<1> QED BY <1>1, <1>2, <1>5, <1>6, <1>9

\* The packet in line is the next one.
LEMMA LineIsNext ==
    ASSUME Sent, Distinct, NEW last \in 0 .. Modulus - 1, NEW e, Known(e), Reliable(e.kind),
           Off(e.reliable) > Off(last), e.reliable = (last + 1) % Modulus
    PROVE  Off(e.reliable) = Off(last) + 1
<1>1. Off(last) \in 0 .. Modulus - 1 /\ Off(e.reliable) \in 0 .. Modulus - 1
  <2>1. e.reliable \in 0 .. Modulus - 1
    BY KnownIs
  <2> QED BY <2>1, OffType
<1> DEFINE one == 1
<1>2. one \in 0 .. 2 /\ one = 1
  OBVIOUS
<1> HIDE DEF one
<1>3. Off(last) + one < Modulus
  BY <1>1, <1>2, Sizes
<1>4. Off((last + one) % Modulus) = Off(last) + one
  BY <1>2, <1>3, OffPlus
<1> QED BY <1>2, <1>4

LEMMA InLine ==
    ASSUME Sent, Distinct, NEW r, Placed(r), ReliablesRight(r)
    PROVE  LET q == r.reliables
               n == Line(r)
               L(k) == IF k = 0 THEN Off(r.reliable) ELSE End(q[k])
           IN  /\ Len(q) \in Nat /\ n \in 0 .. Len(q)
               /\ \A k \in 0 .. Len(q) : LastUpTo(r, k) \in 0 .. Modulus - 1
                                         /\ Off(LastUpTo(r, k)) = L(k) /\ L(k) \in Nat
               /\ \A k \in 1 .. Len(q) : L(k - 1) < Off(q[k].reliable) /\ L(k - 1) < L(k)
               /\ \A k \in 1 .. n : Complete(q[k]) /\ Off(q[k].reliable) = L(k - 1) + 1
               /\ n < Len(q) => ~ NextInLine(LastUpTo(r, n), q[n + 1])
<1> DEFINE q == r.reliables
           n == Line(r)
           l == Len(q)
           L(k) == IF k = 0 THEN Off(r.reliable) ELSE End(q[k])
<1>1. r \in Receivers /\ Off(r.reliable) \in Nat /\ r.reliable \in 0 .. Modulus - 1
  BY RecordTypes DEF Placed
<1>2. /\ l \in Nat /\ n \in 0 .. l
      /\ \A k \in 1 .. n : NextInLine(LastUpTo(r, k - 1), q[k])
      /\ n < l => ~ NextInLine(LastUpTo(r, n), q[n + 1])
  BY <1>1, LineIs
<1>3. \A k \in 1 .. l : Known(q[k]) /\ Reliable(q[k].kind) /\ Off(q[k].reliable) > Off(r.reliable)
  BY DEF ReliablesRight
<1>4. \A k \in 0 .. l : LastUpTo(r, k) \in 0 .. Modulus - 1
  BY <1>1, LastUpToType
<1>5. \A k \in 1 .. l : LastUpTo(r, k) = (q[k].reliable + Parts(q[k].kind) - 1) % Modulus
  BY <1>2 DEF LastUpTo
<1>6. LastUpTo(r, 0) = r.reliable
  BY DEF LastUpTo
<1> HIDE DEF q, n, l
<1>7. \A k \in 1 .. l : /\ End(q[k]) \in Nat /\ Off(q[k].reliable) \in Nat /\ End(q[k]) >= Off(q[k].reliable)
                        /\ Off(LastUpTo(r, k)) = End(q[k]) /\ Ordered(q[k])
  BY <1>3, <1>5, ReliableEnds
<1>8. ASSUME NEW k \in 0 .. l
      PROVE  LastUpTo(r, k) \in 0 .. Modulus - 1 /\ Off(LastUpTo(r, k)) = L(k) /\ L(k) \in Nat
  <2>1. k = 0 \/ k \in 1 .. l
    BY <1>2
  <2> QED BY <1>1, <1>2, <1>4, <1>6, <1>7, <2>1
<1>9. ASSUME NEW k \in 1 .. l PROVE L(k - 1) < Off(q[k].reliable) /\ L(k - 1) < L(k)
  <2>0. End(q[k]) \in Nat /\ Off(q[k].reliable) \in Nat /\ End(q[k]) >= Off(q[k].reliable) /\ L(k) = End(q[k])
    BY <1>7
  <2>1. CASE k = 1
    <3>1. L(k - 1) = Off(r.reliable)
      BY <2>1
    <3> QED BY <1>1, <1>3, <2>0, <3>1
  <2>2. CASE k # 1
    <3> DEFINE j == k - 1
    <3>1. j \in 1 .. l /\ j < k
      BY <1>2, <2>2
    <3>2. L(j) = End(q[j])
      BY <3>1
    <3> HIDE DEF j
    <3>3. q[j].id < q[k].id
      BY <3>1 DEF ReliablesRight, Ascending, q, l
    <3>4. Below(q[j], q[k])
      BY <1>3, <1>7, <3>1, <3>3, KnownPairs
    <3>5. End(q[j]) < Off(q[k].reliable) /\ End(q[j]) \in Nat
      BY <1>3, <1>7, <3>1, <3>4 DEF Below
    <3>6. L(j) < Off(q[k].reliable) /\ L(j) < L(k)
      BY <2>0, <3>2, <3>5
    <3> QED BY <3>6 DEF j
  <2> QED BY <2>1, <2>2
<1>10. ASSUME NEW k \in 1 .. n PROVE Complete(q[k]) /\ Off(q[k].reliable) = L(k - 1) + 1
  <2> DEFINE j == k - 1
             e == q[k]
             last == LastUpTo(r, j)
  <2>1. j \in 0 .. l /\ k \in 1 .. l
    BY <1>2
  <2>2. NextInLine(last, e)
    BY <1>2
  <2>3. last \in 0 .. Modulus - 1 /\ Off(last) = L(j)
    BY <1>8, <2>1
  <2>4. L(j) < Off(e.reliable) /\ L(j) \in Nat /\ Off(e.reliable) \in Nat
    BY <1>7, <1>8, <1>9, <2>1
  <2>5. Known(e) /\ Reliable(e.kind)
    BY <1>3, <2>1
  <2> HIDE DEF last, e, j, L
  <2>6. Complete(e) /\ e.reliable = (last + 1) % Modulus
    BY <2>2 DEF NextInLine
  <2>7. Off(e.reliable) > Off(last)
    BY <2>3, <2>4
  <2>8. Off(e.reliable) = Off(last) + 1
    BY <2>3, <2>5, <2>6, <2>7, LineIsNext
  <2> QED BY <2>3, <2>6, <2>8 DEF j, e
<1> QED BY <1>2, <1>8, <1>9, <1>10 DEF q, n, l

LEMMA InLineHandedOver ==
    ASSUME Sent, Distinct, NEW r, Placed(r), ReliablesRight(r), AllWhole(r.dispatched), Line(r) > 0,
           NEW u, IsMovedInLine(u, r), NEW G
    PROVE  /\ Brings(LeadOf(r.reliables, Line(r)), r, u, G, G)
           /\ Placed(u) /\ ReliablesRight(u) /\ HeadWaits(u)
           /\ Off(u.reliable) > Off(r.reliable) /\ u.unreliable = 0
<1> DEFINE q == r.reliables
           n == Line(r)
           l == Len(q)
           L(k) == IF k = 0 THEN Off(r.reliable) ELSE End(q[k])
           a == LeadOf(q, n)
           b == RestOf(q, n)
<1>1. r \in Receivers /\ q \in Seq(Entries) /\ r.reliable \in 0 .. Modulus - 1 /\ Off(r.reliable) \in Nat
  BY RecordTypes DEF Placed, Receivers
<1>2. /\ l \in Nat /\ n \in 0 .. l /\ n > 0
      /\ \A k \in 0 .. l : LastUpTo(r, k) \in 0 .. Modulus - 1
                           /\ Off(LastUpTo(r, k)) = L(k) /\ L(k) \in Nat
      /\ \A k \in 1 .. l : L(k - 1) < Off(q[k].reliable) /\ L(k - 1) < L(k)
      /\ \A k \in 1 .. n : Complete(q[k]) /\ Off(q[k].reliable) = L(k - 1) + 1
      /\ n < l => ~ NextInLine(LastUpTo(r, n), q[n + 1])
  BY InLine
<1>3. \A k \in 1 .. l : Known(q[k]) /\ Reliable(q[k].kind) /\ Off(q[k].reliable) > Off(r.reliable)
  BY DEF ReliablesRight
<1>4. \A i, j \in 1 .. l : i < j => q[i].id < q[j].id
  BY DEF ReliablesRight, Ascending
<1>5. /\ Len(a) = n /\ \A i \in 1 .. n : a[i] = q[i]
      /\ Len(b) = l - n /\ \A i \in 1 .. l - n : b[i] = q[n + i]
  <2>1. n \in 0 .. Len(q) /\ q \in Seq(Entries)
    BY <1>1, <1>2
  <2> HIDE DEF n, q
  <2>2. /\ Len(LeadOf(q, n)) = n /\ \A i \in 1 .. n : LeadOf(q, n)[i] = q[i]
        /\ Len(RestOf(q, n)) = Len(q) - n /\ \A i \in 1 .. Len(q) - n : RestOf(q, n)[i] = q[n + i]
    BY <2>1, Parted
  <2> QED BY <2>2
<1>6. u \in Receivers /\ u.reliable = LastUpTo(r, n) /\ u.unreliable = 0 /\ u.reliables = b
  BY DEF IsMovedInLine
<1>7. \A k \in 1 .. l : /\ Ordered(q[k]) /\ End(q[k]) \in Nat /\ Off(q[k].reliable) \in Nat
                        /\ End(q[k]) >= Off(q[k].reliable) /\ End(q[k]) <= Off(sender.reliable)
                        /\ q[k].id \in Nat /\ q[k].unreliable = 0
  <2> SUFFICES ASSUME NEW k \in 1 .. l
      PROVE  /\ Ordered(q[k]) /\ End(q[k]) \in Nat /\ Off(q[k].reliable) \in Nat
             /\ End(q[k]) >= Off(q[k].reliable) /\ End(q[k]) <= Off(sender.reliable)
             /\ q[k].id \in Nat /\ q[k].unreliable = 0
    OBVIOUS
  <2>1. Known(q[k]) /\ Reliable(q[k].kind)
    BY <1>3
  <2>2. SentRight(q[k]) /\ q[k].id \in Nat
    BY <2>1, KnownIs
  <2> QED BY <2>1, <2>2, ReliableEnds DEF SentRight
<1> HIDE DEF q, n, l, a, b
<1>8. \A k \in 1 .. l : L(k) = End(q[k])
  BY <1>2
<1>9. Off(u.reliable) = L(n) /\ L(n) = End(q[n]) /\ n \in 1 .. l
  BY <1>2, <1>6, <1>8
<1>10. \A k \in 1 .. n : k \in 1 .. l
  BY <1>2
<1>11. ASSUME NEW k \in 1 .. n, k # n PROVE End(q[k]) < End(q[n])
  <2>1. q[k].id < q[n].id
    BY <1>2, <1>4, <1>9, <1>10, <1>11
  <2>2. Below(q[k], q[n])
    BY <1>3, <1>7, <1>9, <1>10, <2>1, KnownPairs
  <2> QED BY <1>3, <1>7, <1>9, <1>10, <2>2 DEF Below
<1>12. L(n) > Off(r.reliable)
  BY <1>3, <1>7, <1>9, <1>1
<1> HIDE DEF L
<1>13. Placed(u)
  <2>1. Off(u.reliable) <= Off(sender.reliable)
    BY <1>7, <1>9
  <2> QED BY <1>6, <2>1 DEF Placed
<1>14. ASSUME NEW i \in 1 .. l - n
       PROVE  n + i \in 1 .. l /\ b[i] = q[n + i] /\ Off(b[i].reliable) > Off(u.reliable)
  <2> DEFINE k == n + i
  <2>1. k \in 1 .. l /\ b[i] = q[k] /\ n < k
    BY <1>2, <1>5
  <2> HIDE DEF k
  <2>2. q[n].id < q[k].id
    BY <1>4, <1>9, <2>1
  <2>3. Below(q[n], q[k])
    BY <1>3, <1>7, <1>9, <2>1, <2>2, KnownPairs
  <2>4. End(q[n]) < Off(q[k].reliable)
    BY <1>3, <2>1, <2>3 DEF Below
  <2>5. Off(b[i].reliable) > Off(u.reliable)
    BY <1>9, <2>1, <2>4, <1>7
  <2> QED BY <2>1, <2>5 DEF k
<1>15. ReliablesRight(u)
  <2>1. ASSUME NEW i \in 1 .. Len(b)
        PROVE  Known(b[i]) /\ Reliable(b[i].kind) /\ Off(b[i].reliable) > Off(u.reliable)
    BY <1>3, <1>5, <1>14
  <2>2. ASSUME NEW i \in 1 .. Len(b), NEW j \in 1 .. Len(b), i < j PROVE b[i].id < b[j].id
    <3>1. i \in 1 .. l - n /\ j \in 1 .. l - n
      BY <1>5
    <3>2. n + i \in 1 .. l /\ n + j \in 1 .. l /\ b[i] = q[n + i] /\ b[j] = q[n + j]
      BY <1>14, <3>1
    <3>3. n + i < n + j
      BY <1>2, <2>2, <3>1
    <3> QED BY <1>4, <3>2, <3>3
  <2> QED BY <1>6, <2>1, <2>2 DEF ReliablesRight, Ascending
<1>16. HeadWaits(u)
  <2> SUFFICES ASSUME Len(b) > 0 PROVE ~ NextInLine(u.reliable, b[1])
    BY <1>6 DEF HeadWaits
  <2>1. n < l /\ 1 \in 1 .. l - n
    BY <1>2, <1>5
  <2>2. b[1] = q[n + 1]
    BY <1>5, <2>1
  <2> QED BY <1>2, <1>6, <2>1, <2>2
<1>17. Brings(a, r, u, G, G)
  <2>1. ASSUME NEW i \in 1 .. Len(a)
        PROVE  /\ a[i] = q[i] /\ i \in 1 .. l /\ i \in 1 .. n /\ Known(a[i]) /\ Complete(a[i]) /\ Ordered(a[i])
               /\ Future(a[i], r) /\ Past(a[i], u)
    <3>1. i \in 1 .. n /\ i \in 1 .. l /\ a[i] = q[i]
      BY <1>5, <1>10
    <3>2. Known(q[i]) /\ Complete(q[i]) /\ Ordered(q[i]) /\ Off(q[i].reliable) > Off(r.reliable)
      BY <1>2, <1>3, <1>7, <3>1
    <3>3. Past(q[i], u)
      <4>1. CASE i = n
        BY <1>6, <1>7, <1>9, <3>1, <4>1 DEF Past
      <4>2. CASE i # n
        BY <1>9, <1>11, <3>1, <4>2 DEF Past
      <4> QED BY <4>1, <4>2
    <3> QED BY <3>1, <3>2, <3>3 DEF Future
  <2>2. ASSUME NEW i \in 1 .. Len(a), NEW j \in 1 .. Len(a), i < j
        PROVE  a[i].id < a[j].id /\ a[i].id # a[j].id
    <3>1. a[i].id < a[j].id /\ a[i].id \in Nat /\ a[j].id \in Nat
      BY <1>4, <1>7, <2>1, <2>2
    <3> QED BY <3>1
  <2>3. ASSUME NEW c \in net, Reliable(c.kind), End(c) <= Off(u.reliable), ~ End(c) <= Off(r.reliable)
        PROVE  \E i \in 1 .. Len(a) : a[i].id = c.id
    <3> DEFINE S == {k \in 1 .. n : End(c) <= End(q[k])}
    <3>1. Known(c) /\ End(c) \in Nat /\ Off(c.reliable) \in Nat /\ End(c) >= Off(c.reliable) /\ c.id \in Nat
      BY NetKnown, KnownIs
    <3>2. Ordered(c)
      BY <2>3 DEF Reliable, Ordered
    <3>3. n \in S /\ S \in SUBSET Nat
      BY <1>2, <1>9, <2>3
    <3>4. PICK k \in S : \A j \in S : k <= j
      BY <3>3, Least
    <3>5. k \in 1 .. n /\ k \in 1 .. l /\ End(c) <= End(q[k])
      BY <1>10
    <3>6. End(c) > L(k - 1) /\ L(k - 1) \in Nat
      <4>1. CASE k = 1
        BY <1>1, <2>3, <3>1, <4>1 DEF L
      <4>2. CASE k # 1
        <5> DEFINE j == k - 1
        <5>1. j \in 1 .. n /\ j \in 1 .. l /\ j < k
          BY <1>2, <3>5, <4>2
        <5> HIDE DEF j
        <5>2. j \notin S
          BY <1>2, <3>4, <3>5, <5>1
        <5>3. ~ End(c) <= End(q[j]) /\ End(q[j]) \in Nat /\ L(j) = End(q[j])
          BY <1>7, <1>8, <5>1, <5>2
        <5>4. End(c) > L(j) /\ L(j) \in Nat
          BY <3>1, <5>3
        <5> QED BY <5>4 DEF j
      <4> QED BY <4>1, <4>2
    <3>7. Off(q[k].reliable) = L(k - 1) + 1
      BY <1>2, <3>5
    <3>8. Known(q[k]) /\ Ordered(q[k]) /\ q[k].id \in Nat /\ Reliable(q[k].kind)
          /\ End(q[k]) \in Nat /\ Off(q[k].reliable) \in Nat
      BY <1>3, <1>7, <3>5
    <3> HIDE DEF S
    <3>9. ~ c.id < q[k].id
      <4> SUFFICES ASSUME c.id < q[k].id PROVE FALSE
        OBVIOUS
      <4>1. Below(c, q[k])
        BY <3>1, <3>2, <3>8, KnownPairs
      <4>2. End(c) < Off(q[k].reliable)
        BY <3>8, <4>1 DEF Below
      <4> QED BY <3>1, <3>6, <3>7, <4>2
    <3>10. ~ q[k].id < c.id
      <4> SUFFICES ASSUME q[k].id < c.id PROVE FALSE
        OBVIOUS
      <4>1. Below(q[k], c)
        BY <3>1, <3>2, <3>8, KnownPairs
      <4>2. End(q[k]) < Off(c.reliable)
        BY <2>3, <4>1 DEF Below
      <4> QED BY <3>1, <3>5, <3>8, <4>2
    <3>11. q[k].id = c.id
      BY <3>1, <3>8, <3>9, <3>10
    <3>12. k \in 1 .. Len(a) /\ a[k] = q[k]
      BY <1>5, <3>5
    <3> QED BY <3>11, <3>12
  <2>4. Further(u, r)
    BY <1>9, <1>12 DEF Further
  <2> QED BY <2>1, <2>2, <2>3, <2>4 DEF Brings
<1> QED BY <1>6, <1>9, <1>12, <1>13, <1>15, <1>16, <1>17 DEF a, q, n

-----------------------------------------------------------------------------
(* Unreliable packets that are ready.                                      *)

\* The record when the unreliable list is walked; queued is the packet that was put into
\* it for this walk.
WalkReady(p, queued, G, H) ==
    /\ Placed(p) /\ ReliablesRight(p) /\ HeadWaits(p) /\ UnreliablesRight(p)
    /\ \A i \in 1 .. Len(p.unreliables) :
          p.unreliables[i].id = queued
             => \/ Ready(p, p.unreliables[i])
                \/ Future(p.unreliables[i], p) /\ \A j \in 1 .. Len(p.unreliables) : ~ Ready(p, p.unreliables[j])
    /\ \A i \in 1 .. Len(p.unreliables) : ~ Ordered(p.unreliables[i]) => p.unreliables[i].id \in H \ G
    /\ G \subseteq H

\* What is not in front of the end of the walk belongs to a later reliable packet.
LEMMA BehindTheEnd ==
    ASSUME Sent, Distinct, NEW p, Placed(p), UnreliablesRight(p), NEW m \in 1 .. Len(p.unreliables),
           m >= WalkEnd(p)
    PROVE  Ordered(p.unreliables[m]) /\ Off(p.unreliables[m].reliable) > Off(p.reliable)
<1> DEFINE q == p.unreliables
           end == WalkEnd(p)
           W == WalkOver(p)
           n == Len(q)
<1>1. WalkedOver(p, W, q, end)
  BY WalkOverRight
<1>2. end \in 1 .. n + 1 /\ n \in Nat
  <2>1. q \in Seq(Entries)
    BY DEF UnreliablesRight, Receivers
  <2> QED BY <1>1, <2>1, LenProperties DEF WalkedOver
<1>3. /\ \A i \in 1 .. n : Known(q[i]) /\ ~ Reliable(q[i].kind) /\ (Ordered(q[i]) \/ i = 1)
      /\ \A i, j \in 1 .. n : i < j /\ Ordered(q[i]) => q[i].id < q[j].id
  BY DEF UnreliablesRight
<1>4. end <= n => Ordered(q[end]) /\ q[end].reliable # p.reliable /\ InWindow(p.reliable, q[end].reliable)
  BY <1>1 DEF WalkedOver
<1> HIDE DEF q, end, n
<1>5. end <= n /\ end \in 1 .. n /\ m \in 1 .. n /\ m >= end
  BY <1>2 DEF n, q, end
<1>6. p.reliable \in 0 .. Modulus - 1 /\ Off(p.reliable) \in Nat
  BY RecordTypes DEF Placed
<1>7. /\ q[end].reliable \in 0 .. Modulus - 1 /\ Off(q[end].reliable) \in Nat
      /\ q[m].reliable \in 0 .. Modulus - 1 /\ Off(q[m].reliable) \in Nat
  BY <1>3, <1>5, KnownIs
<1>8. Off(p.reliable) <= 2 * MaxPackets
  <2>1. Off(sender.reliable) \in 0 .. 2 * MaxPackets
    BY SentTypes
  <2> DEFINE x == 2 * MaxPackets
  <2>2. x \in Nat
    BY BoundsAssumption
  <2> HIDE DEF x
  <2>3. Off(sender.reliable) \in 0 .. x
    BY <2>1 DEF x
  <2>4. Off(p.reliable) <= x
    BY <1>6, <2>2, <2>3 DEF Placed
  <2> QED BY <2>4 DEF x
<1>9. Off(q[end].reliable) > Off(p.reliable)
  <2>1. Off(q[end].reliable) >= Off(p.reliable)
    BY <1>4, <1>5, <1>6, <1>7, <1>8, WindowNotPassed
  <2>2. Off(q[end].reliable) # Off(p.reliable)
    BY <1>4, <1>5, <1>6, <1>7, OffSame
  <2> QED BY <1>6, <1>7, <2>1, <2>2
<1>10. Ordered(q[m])
  <2>1. m = 1 => m = end
    BY <1>2, <1>5
  <2> QED BY <1>3, <1>4, <1>5, <2>1
<1>11. Off(q[m].reliable) > Off(p.reliable)
  <2>1. CASE m = end
    BY <1>9, <2>1
  <2>2. CASE m # end
    <3>1. end < m
      BY <1>2, <1>5, <2>2
    <3>2. q[end].id < q[m].id
      BY <1>3, <1>4, <1>5, <3>1
    <3>3. Below(q[end], q[m])
      BY <1>3, <1>4, <1>5, <1>10, <3>2, KnownPairs
    <3>4. End(q[end]) = Off(q[end].reliable)
      BY <1>3, <1>5, <1>7, EndIs
    <3>5. Off(q[end].reliable) <= Off(q[m].reliable)
      BY <1>7, <3>3, <3>4 DEF Below
    <3> QED BY <1>6, <1>7, <1>9, <3>5
  <2> QED BY <2>1, <2>2
<1> QED BY <1>10, <1>11 DEF q

LEMMA UnreliableWalked ==
    ASSUME Sent, Distinct, NEW p, NEW queued, NEW G, NEW H, WalkReady(p, queued, G, H),
           NEW v, IsHandedOver(v, p, queued)
    PROVE  /\ Brings(Selected(p.unreliables, WalkOver(p).moved), p, v, G, H)
           /\ Placed(v) /\ ReliablesRight(v) /\ HeadWaits(v) /\ UnreliablesWait(v)
<1> DEFINE q == p.unreliables
           end == WalkEnd(p)
           W == WalkOver(p)
           K == W.moved
           n == Len(q)
           s == Selected(q, K)
           Y == Staying(p, queued)
           t == Selected(q, Y)
<1>0. Placed(p) /\ UnreliablesRight(p) /\ p \in Receivers /\ q \in Seq(Entries) /\ G \subseteq H
  BY DEF WalkReady, UnreliablesRight, Receivers
<1>1. /\ W \in Walks /\ end \in 1 .. n + 1
      /\ \A k \in K : k \in 1 .. end - 1 /\ k < W.dropped /\ Ready(p, q[k])
      /\ \A k \in 1 .. end - 1 : Ready(p, q[k]) => k \in K
      /\ \A k \in 1 .. n : k >= W.dropped => k >= end \/ (Matches(p, q[k]) /\ ~ Complete(q[k]))
      /\ W.unreliable >= p.unreliable
      /\ \/ W.unreliable = p.unreliable
         \/ \E k \in 1 .. end - 1 : Matches(p, q[k]) /\ Complete(q[k]) /\ W.unreliable = q[k].unreliable
      /\ \A k \in 1 .. end - 1 : Matches(p, q[k]) /\ Complete(q[k]) => q[k].unreliable <= W.unreliable
  BY <1>0, WalkOverRight DEF WalkedOver
<1>2. n \in Nat /\ DOMAIN q = 1 .. n
  BY <1>0, LenProperties
<1>3. /\ v \in Receivers /\ v.reliable = p.reliable /\ v.reliables = p.reliables
      /\ v.unreliable = W.unreliable /\ v.unreliables = t
  BY DEF IsHandedOver
<1>4. p.reliable \in 0 .. Modulus - 1 /\ Off(p.reliable) \in Nat /\ p.unreliable \in Nat /\ W.unreliable \in Nat
      /\ W.dropped \in Nat
  BY <1>0, <1>1, RecordTypes DEF Walks
<1>5. \A i \in 1 .. n : /\ Known(q[i]) /\ ~ Reliable(q[i].kind) /\ (Ordered(q[i]) \/ (i = 1 /\ Complete(q[i])))
                        /\ (Matches(p, q[i]) => q[i].unreliable > p.unreliable)
  BY <1>0 DEF UnreliablesRight
<1>6. \A i, j \in 1 .. n : i < j /\ Ordered(q[i]) => q[i].id < q[j].id
  BY <1>0 DEF UnreliablesRight
<1>7. \A i \in 1 .. n : q[i].id = queued
             => Ready(p, q[i]) \/ (Future(q[i], p) /\ \A j \in 1 .. n : ~ Ready(p, q[j]))
  BY DEF WalkReady
<1>8. \A i \in 1 .. n : ~ Ordered(q[i]) => q[i].id \in H \ G
  BY DEF WalkReady
<1>9. PICK f : Picks(f, s, q, K, n)
  BY <1>0, SelectedIs
<1>10. PICK g : Picks(g, t, q, Y, n)
  BY <1>0, SelectedIs
<1>11. Y = {i \in 1 .. n : i \notin K /\ (i >= W.dropped \/ q[i].id = queued)}
  BY <1>2 DEF Staying
<1>12. \A i \in 1 .. n : i >= end => Ordered(q[i]) /\ Off(q[i].reliable) > Off(p.reliable)
  BY <1>0, BehindTheEnd
<1>13. ASSUME NEW i \in 1 .. n, NEW j \in 1 .. n, i < j, Matches(p, q[i]), Matches(p, q[j])
       PROVE  q[i].unreliable < q[j].unreliable
  BY <1>0, <1>13, MatchingSorted
<1>14. \A e : Ready(v, e) <=> Ready(p, e)
  BY <1>3 DEF Ready
<1> HIDE DEF q, end, W, n, s, Y, t
<1>15. /\ \A k \in 1 .. Len(s) : f[k] \in K /\ f[k] \in 1 .. n
       /\ \A k, l \in 1 .. Len(s) : k < l => f[k] < f[l]
       /\ \A k \in 1 .. Len(s) : s[k] = q[f[k]]
  BY <1>9 DEF Picks
<1>16. /\ \A k \in 1 .. Len(t) : g[k] \in Y /\ g[k] \in 1 .. n
       /\ \A k, l \in 1 .. Len(t) : k < l => g[k] < g[l]
       /\ \A k \in 1 .. Len(t) : t[k] = q[g[k]]
  BY <1>10 DEF Picks
<1> HIDE DEF K
<1>17. \A i \in 1 .. n : q[i].id \in Nat /\ q[i].unreliable \in Nat /\ Off(q[i].reliable) \in Nat
                         /\ End(q[i]) = Off(q[i].reliable)
  <2> SUFFICES ASSUME NEW i \in 1 .. n
               PROVE  q[i].id \in Nat /\ q[i].unreliable \in Nat /\ Off(q[i].reliable) \in Nat
                      /\ End(q[i]) = Off(q[i].reliable)
    OBVIOUS
  <2>1. Known(q[i]) /\ ~ Reliable(q[i].kind)
    BY <1>5
  <2>2. q[i].id \in Nat /\ q[i].unreliable \in Nat /\ Off(q[i].reliable) \in Nat
    BY <2>1, KnownIs
  <2> QED BY <2>1, <2>2, EndIs
<1>18. ASSUME NEW k \in 1 .. Len(s)
       PROVE  /\ f[k] \in 1 .. n /\ s[k] = q[f[k]] /\ Known(s[k]) /\ Complete(s[k])
              /\ Ordered(s[k]) => Future(s[k], p) /\ Past(s[k], v)
              /\ ~ Ordered(s[k]) => s[k].id \in H \ G
  <2> DEFINE i == f[k]
  <2>1. i \in K /\ i \in 1 .. n /\ s[k] = q[i]
    BY <1>15
  <2> HIDE DEF i
  <2>2. i \in 1 .. end - 1 /\ Ready(p, q[i])
    BY <1>1, <2>1
  <2>3. Known(q[i]) /\ ~ Reliable(q[i].kind) /\ Complete(q[i])
    BY <1>5, <2>1, <2>2 DEF Ready
  <2>4. ASSUME Ordered(q[i]) PROVE Future(q[i], p) /\ Past(q[i], v)
    <3>1. Matches(p, q[i]) /\ q[i].reliable = p.reliable
      BY <2>2, <2>4 DEF Ready, Matches, Ordered
    <3>2. q[i].unreliable > p.unreliable /\ q[i].unreliable <= W.unreliable
      BY <1>1, <1>5, <2>1, <2>2, <2>3, <3>1
    <3>3. Off(q[i].reliable) = Off(p.reliable) /\ End(q[i]) = Off(v.reliable)
      BY <1>3, <1>17, <2>1, <3>1
    <3> QED BY <1>3, <2>3, <3>2, <3>3 DEF Future, Past
  <2> QED BY <1>8, <2>1, <2>3, <2>4 DEF i
<1>19. ASSUME NEW k \in 1 .. Len(s), NEW l \in 1 .. Len(s), k < l
       PROVE  s[k].id # s[l].id /\ (Ordered(s[k]) /\ Ordered(s[l]) => s[k].id < s[l].id)
  <2> DEFINE i == f[k]
             j == f[l]
  <2>1. i \in 1 .. n /\ j \in 1 .. n /\ i < j /\ s[k] = q[i] /\ s[l] = q[j]
    BY <1>15, <1>19
  <2> HIDE DEF i, j
  <2>2. CASE Ordered(q[i])
    <3>1. q[i].id < q[j].id
      BY <1>6, <2>1, <2>2
    <3> QED BY <1>17, <2>1, <3>1
  <2>3. CASE ~ Ordered(q[i])
    <3>1. Ordered(q[j])
      <4>1. i = 1 /\ j # 1
        BY <1>2, <1>5, <2>1, <2>3
      <4> QED BY <1>5, <2>1, <4>1
    <3>2. q[i].id = q[j].id => q[i].kind = q[j].kind
      BY <1>5, <2>1, KnownPairs
    <3> QED BY <2>1, <2>3, <3>1, <3>2 DEF Ordered
  <2> QED BY <2>2, <2>3
<1>20. Further(v, p)
  BY <1>1, <1>3 DEF Further
<1>21. Brings(s, p, v, G, H)
  BY <1>0, <1>3, <1>18, <1>19, <1>20 DEF Brings
<1>22. Placed(v) /\ ReliablesRight(v) /\ HeadWaits(v)
  BY <1>0, <1>3 DEF WalkReady, Placed, ReliablesRight, HeadWaits
<1>23. ASSUME NEW m \in Y PROVE Ordered(q[m]) /\ Future(q[m], v) /\ ~ Ready(v, q[m])
  <2>1. m \in 1 .. n /\ m \notin K /\ (m >= W.dropped \/ q[m].id = queued)
    BY <1>11
  <2>2. CASE m >= end
    <3>1. Ordered(q[m]) /\ Off(q[m].reliable) > Off(p.reliable)
      BY <1>12, <2>1, <2>2
    <3>2. q[m].reliable # p.reliable
      BY <1>4, <1>17, <2>1, <3>1
    <3> QED BY <1>3, <3>1, <3>2 DEF Future, Ready
  <2>3. CASE ~ m >= end /\ m >= W.dropped
    <3>1. Matches(p, q[m]) /\ ~ Complete(q[m])
      BY <1>1, <2>1, <2>3
    <3>2. Ordered(q[m]) /\ q[m].reliable = p.reliable /\ ~ Reliable(q[m].kind)
      BY <1>5, <2>1, <3>1 DEF Matches, Ordered
    <3>3. q[m].unreliable > W.unreliable
      <4>1. CASE W.unreliable = p.unreliable
        BY <1>5, <2>1, <3>1, <4>1
      <4>2. CASE \E k \in 1 .. end - 1 : Matches(p, q[k]) /\ Complete(q[k]) /\ W.unreliable = q[k].unreliable
        <5>1. PICK k \in 1 .. end - 1 : Matches(p, q[k]) /\ Complete(q[k]) /\ W.unreliable = q[k].unreliable
          BY <4>2
        <5>2. Ready(p, q[k])
          BY <5>1 DEF Ready, Matches
        <5>3. k < W.dropped
          BY <1>1, <5>2
        <5>4. k \in 1 .. n /\ k < m
          BY <1>1, <1>2, <1>4, <2>1, <2>3, <5>3
        <5> QED BY <1>13, <2>1, <3>1, <5>1, <5>4
      <4> QED BY <1>1, <4>1, <4>2
    <3>4. Future(q[m], v)
      BY <1>3, <3>2, <3>3 DEF Future
    <3>5. ~ Ready(v, q[m])
      BY <3>1, <3>2 DEF Ready
    <3> QED BY <3>2, <3>4, <3>5
  <2>4. CASE ~ m >= end /\ q[m].id = queued
    <3>1. m \in 1 .. end - 1
      BY <1>1, <1>2, <2>1, <2>4
    <3>2. ~ Ready(p, q[m])
      BY <1>1, <2>1, <3>1
    <3>3. Future(q[m], p) /\ \A j \in 1 .. n : ~ Ready(p, q[j])
      BY <1>7, <2>1, <2>4, <3>2
    <3>4. W.unreliable = p.unreliable
      <4> SUFFICES ASSUME NEW k \in 1 .. end - 1, Matches(p, q[k]), Complete(q[k]) PROVE FALSE
        BY <1>1
      <4>1. k \in 1 .. n
        BY <1>1, <1>2
      <4>2. Ready(p, q[k])
        BY DEF Ready, Matches
      <4> QED BY <3>3, <4>1, <4>2
    <3>5. Future(q[m], v)
      BY <1>3, <3>3, <3>4 DEF Future
    <3> QED BY <1>14, <3>2, <3>5 DEF Ready
  <2> QED BY <2>1, <2>2, <2>3, <2>4
<1>24. UnreliablesWait(v)
  <2>1. ASSUME NEW k \in 1 .. Len(t)
        PROVE  Known(t[k]) /\ ~ Reliable(t[k].kind) /\ Ordered(t[k]) /\ Future(t[k], v) /\ ~ Ready(v, t[k])
    <3>1. g[k] \in Y /\ g[k] \in 1 .. n /\ t[k] = q[g[k]]
      BY <1>16
    <3> QED BY <1>5, <1>23, <3>1
  <2>2. ASSUME NEW k \in 1 .. Len(t), NEW l \in 1 .. Len(t), k < l PROVE t[k].id < t[l].id
    <3>1. g[k] \in Y /\ g[k] \in 1 .. n /\ t[k] = q[g[k]] /\ g[l] \in 1 .. n /\ t[l] = q[g[l]] /\ g[k] < g[l]
      BY <1>16, <2>2
    <3>2. Ordered(q[g[k]])
      BY <1>23, <3>1
    <3> QED BY <1>6, <3>1, <3>2
  <2> QED BY <1>3, <2>1, <2>2 DEF UnreliablesWait, Ascending
<1> QED BY <1>21, <1>22, <1>24 DEF s, K, W, q

-----------------------------------------------------------------------------
(* A dispatch leaves the channel right.                                    *)

Ids(q) == [i \in DOMAIN q |-> q[i].id]
\* What was handed over when the record is r.
Taken(r) == delivered \o Ids(r.dispatched)

LEMMA TakenIs ==
    ASSUME Sent, NEW r \in Receivers
    PROVE  LET q == r.dispatched
               a == Len(delivered)
               s == Taken(r)
           IN  /\ a \in Nat /\ Len(q) \in Nat /\ Len(s) = a + Len(q)
               /\ \A i \in 1 .. a : s[i] = delivered[i]
               /\ \A i \in 1 .. Len(q) : s[a + i] = q[i].id
<1> DEFINE q == r.dispatched
           a == Len(delivered)
           n == Len(q)
           d == Ids(q)
           s == delivered \o d
<1>1. q \in Seq(Entries)
  BY DEF Receivers
<1>2. delivered \in Seq(1 .. MaxPackets)
  BY DEF Sent, HeldInv, TypeOK
<1> DEFINE S == 1 .. MaxPackets
<1>3. delivered \in Seq(S)
  BY <1>2
<1>4. a \in Nat
  BY <1>3, LenProperties
<1>5. n \in Nat /\ DOMAIN q = 1 .. n /\ \A i \in 1 .. n : q[i] \in Entries
  BY <1>1, LenProperties, ElementOfSeq
<1> HIDE DEF q, n
<1>6. d = [i \in 1 .. n |-> q[i].id] /\ \A i \in 1 .. n : q[i].id \in S
  BY <1>5 DEF Ids, Entries
<1> HIDE DEF S
<1>7. d \in Seq(S) /\ Len(d) = n /\ \A i \in 1 .. n : d[i] = q[i].id
  BY <1>5, <1>6
<1> HIDE DEF d
<1>8. s \in Seq(S) /\ Len(s) = Len(delivered) + Len(d)
      /\ (\A i \in 1 .. Len(delivered) : s[i] = delivered[i])
      /\ (\A i \in 1 .. Len(d) : s[Len(delivered) + i] = d[i])
  <2>1. delivered \in Seq(S) /\ d \in Seq(S)
    BY <1>3, <1>7
  <2> QED BY <2>1, ConcatProperties
<1> HIDE DEF s
<1>9. s = Taken(r)
  BY DEF s, d, q, Taken
<1> QED BY <1>4, <1>5, <1>7, <1>8, <1>9 DEF q, n

LEMMA TakenMore ==
    ASSUME Sent, NEW r \in Receivers, NEW v \in Receivers, NEW B \in Seq(Entries),
           v.dispatched = r.dispatched \o B
    PROVE  /\ Len(Taken(r)) \in Nat /\ Len(B) \in Nat /\ FollowedBy(Taken(v), Taken(r), B)
           /\ AllWhole(r.dispatched) /\ AllWhole(B) => AllWhole(v.dispatched)
<1> DEFINE q == r.dispatched
           x == v.dispatched
           a == Len(delivered)
           n == Len(q)
           m == Len(B)
           l == Len(x)
           s == Taken(r)
           t == Taken(v)
<1>1. q \in Seq(Entries) /\ x \in Seq(Entries) /\ x = q \o B
  BY DEF Receivers
<1>2. m \in Nat /\ n \in Nat
  BY <1>1, LenProperties
<1>3. l = n + m /\ (\A i \in 1 .. n : x[i] = q[i]) /\ (\A i \in 1 .. m : x[n + i] = B[i])
  <2> HIDE DEF q, x
  <2> QED BY <1>1
<1>4. /\ a \in Nat /\ Len(s) = a + n /\ (\A i \in 1 .. a : s[i] = delivered[i])
      /\ (\A i \in 1 .. n : s[a + i] = q[i].id)
  BY TakenIs
<1>5. /\ Len(t) = a + l /\ (\A i \in 1 .. a : t[i] = delivered[i])
      /\ (\A i \in 1 .. l : t[a + i] = x[i].id)
  BY TakenIs
<1> HIDE DEF q, x, a, n, m, l, s, t
<1>6. Len(t) = Len(s) + m /\ Len(s) \in Nat
  BY <1>2, <1>3, <1>4, <1>5
<1>7. ASSUME NEW i \in 1 .. Len(s) PROVE t[i] = s[i]
  <2>1. CASE i \in 1 .. a
    BY <1>4, <1>5, <2>1
  <2>2. CASE i \notin 1 .. a
    <3> DEFINE k == i - a
    <3>1. k \in 1 .. n /\ k \in 1 .. l /\ i = a + k
      BY <1>2, <1>3, <1>4, <2>2
    <3> HIDE DEF k
    <3> QED BY <1>3, <1>4, <1>5, <3>1
  <2> QED BY <2>1, <2>2
<1>8. ASSUME NEW i \in 1 .. m PROVE t[Len(s) + i] = B[i].id
  <2> DEFINE k == n + i
  <2>1. k \in 1 .. l /\ Len(s) + i = a + k /\ x[k] = B[i]
    BY <1>2, <1>3, <1>4
  <2> HIDE DEF k
  <2> QED BY <1>5, <2>1
<1>9. ASSUME AllWhole(q), AllWhole(B) PROVE AllWhole(x)
  <2> SUFFICES ASSUME NEW i \in 1 .. l PROVE Complete(x[i])
    BY DEF AllWhole, l
  <2>1. CASE i \in 1 .. n
    BY <1>3, <1>9, <2>1 DEF AllWhole, n
  <2>2. CASE i \notin 1 .. n
    <3> DEFINE k == i - n
    <3>1. k \in 1 .. m /\ i = n + k
      BY <1>2, <1>3, <2>2
    <3> HIDE DEF k
    <3>2. x[i] = B[k] /\ Complete(B[k])
      BY <1>3, <1>9, <3>1 DEF AllWhole, m
    <3> QED BY <3>2
  <2> QED BY <2>1, <2>2
<1> QED BY <1>2, <1>6, <1>7, <1>8, <1>9 DEF FollowedBy, q, x, m, s, t

LEMMA UnreliableDispatched ==
    ASSUME Sent, Distinct, NEW p, NEW queued, NEW G, NEW H, WalkReady(p, queued, G, H),
           AllWhole(p.dispatched), History(Taken(p), p, G), NEW v, v = DispatchUnreliable(p, queued)
    PROVE  Good(v) /\ History(Taken(v), v, H)
<1> DEFINE B == Selected(p.unreliables, WalkOver(p).moved)
<1>1. p \in Receivers /\ p.unreliables \in Seq(Entries)
  BY DEF WalkReady, Placed, Receivers
<1>2. IsHandedOver(v, p, queued)
  BY <1>1, UnreliableHandedOver
<1>3. Brings(B, p, v, G, H) /\ Placed(v) /\ ReliablesRight(v) /\ HeadWaits(v) /\ UnreliablesWait(v)
  BY <1>2, UnreliableWalked
<1>4. v \in Receivers /\ v.dispatched = p.dispatched \o B
  BY <1>2 DEF IsHandedOver
<1>5. B \in Seq(Entries)
  BY <1>1, SelectedIs
<1> HIDE DEF B
<1>6. AllWhole(B)
  BY <1>3 DEF Brings, AllWhole
<1>7. /\ Len(Taken(p)) \in Nat /\ Len(B) \in Nat /\ FollowedBy(Taken(v), Taken(p), B)
      /\ AllWhole(v.dispatched)
  BY <1>1, <1>4, <1>5, <1>6, TakenMore
<1>8. History(Taken(v), v, H)
  BY <1>1, <1>3, <1>4, <1>7, HistoryGrows
<1> QED BY <1>3, <1>7, <1>8 DEF Good

LEMMA ReliableDispatched ==
    ASSUME Sent, Distinct, NEW r, Placed(r), ReliablesRight(r), UnreliablesWait(r), AllWhole(r.dispatched),
           NEW G, History(Taken(r), r, G),
           NEW queued, \A i \in 1 .. Len(r.unreliables) : r.unreliables[i].id # queued,
           NEW v, v = DispatchReliable(r, queued)
    PROVE  Good(v) /\ History(Taken(v), v, G)
<1> DEFINE u == InLineMoved(r)
           B == LeadOf(r.reliables, Line(r))
<1>0. r \in Receivers /\ r.reliables \in Seq(Entries) /\ r.unreliables \in Seq(Entries)
  BY DEF Placed, Receivers
<1>1. Line(r) \in 0 .. Len(r.reliables) /\ Len(r.reliables) \in Nat
      /\ (Line(r) < Len(r.reliables) => ~ NextInLine(LastUpTo(r, Line(r)), r.reliables[Line(r) + 1]))
  BY <1>0, LineIs
<1>2. v = IF Line(r) = 0 THEN r ELSE IF r.unreliables = << >> THEN u ELSE DispatchUnreliable(u, queued)
  BY ReliableIs
<1>3. CASE Line(r) = 0
  <2>1. HeadWaits(r)
    BY <1>1, <1>3 DEF HeadWaits, LastUpTo
  <2> QED BY <1>2, <1>3, <2>1 DEF Good
<1>4. CASE Line(r) # 0
  <2>1. Line(r) > 0
    BY <1>1, <1>4
  <2>2. IsMovedInLine(u, r)
    BY <1>0, ReliableMoved
  <2> HIDE DEF u
  <2>3. /\ Brings(B, r, u, G, G) /\ Placed(u) /\ ReliablesRight(u) /\ HeadWaits(u)
        /\ Off(u.reliable) > Off(r.reliable) /\ u.unreliable = 0
    BY <2>1, <2>2, InLineHandedOver
  <2>4. u \in Receivers /\ u.dispatched = r.dispatched \o B /\ u.unreliables = r.unreliables
    BY <2>2 DEF IsMovedInLine
  <2>5. B \in Seq(Entries)
    BY <1>0, <1>1, Parted
  <2> HIDE DEF B
  <2>6. AllWhole(B)
    BY <2>3 DEF Brings, AllWhole
  <2>7. /\ Len(Taken(r)) \in Nat /\ Len(B) \in Nat /\ FollowedBy(Taken(u), Taken(r), B)
        /\ AllWhole(u.dispatched)
    BY <1>0, <2>4, <2>5, <2>6, TakenMore
  <2>8. History(Taken(u), u, G)
    BY <1>0, <2>3, <2>4, <2>7, HistoryGrows
  <2>9. CASE r.unreliables = << >>
    <3>1. v = u
      BY <1>2, <1>4, <2>9
    <3>2. Len(u.unreliables) = 0
      BY <2>4, <2>9
    <3>3. UnreliablesWait(u)
      BY <3>2 DEF UnreliablesWait, Ascending
    <3> QED BY <2>3, <2>7, <2>8, <3>1, <3>3 DEF Good
  <2>10. CASE r.unreliables # << >>
    <3>1. v = DispatchUnreliable(u, queued)
      BY <1>2, <1>4, <2>10
    <3>2. \A i \in 1 .. Len(r.unreliables) :
             /\ Known(r.unreliables[i]) /\ ~ Reliable(r.unreliables[i].kind) /\ Ordered(r.unreliables[i])
             /\ r.unreliables[i].unreliable > u.unreliable
      <4> SUFFICES ASSUME NEW i \in 1 .. Len(r.unreliables)
                   PROVE  /\ Known(r.unreliables[i]) /\ ~ Reliable(r.unreliables[i].kind) /\ Ordered(r.unreliables[i])
                          /\ r.unreliables[i].unreliable > u.unreliable
        OBVIOUS
      <4> DEFINE e == r.unreliables[i]
      <4>1. Known(e) /\ ~ Reliable(e.kind) /\ Ordered(e)
        BY DEF UnreliablesWait
      <4>2. e.unreliable \in Nat /\ e.unreliable >= 1
        BY <4>1, KnownIs DEF SentRight
      <4> QED BY <2>3, <4>1, <4>2
    <3>3. UnreliablesRight(u)
      BY <2>4, <3>2 DEF UnreliablesRight, UnreliablesWait, Ascending
    <3>4. WalkReady(u, queued, G, G)
      BY <2>3, <2>4, <3>2, <3>3 DEF WalkReady
    <3> QED BY <2>7, <2>8, <3>1, <3>4, UnreliableDispatched
  <2> QED BY <2>9, <2>10
<1> QED BY <1>3, <1>4

-----------------------------------------------------------------------------
(* A command finds its place.                                              *)

LEMMA PlacedWithin ==
    ASSUME Sent, NEW r, Placed(r)
    PROVE  Off(r.reliable) <= 2 * MaxPackets
<1>1. Off(r.reliable) \in Nat /\ Off(r.reliable) <= Off(sender.reliable)
  BY RecordTypes DEF Placed
<1>2. Off(sender.reliable) \in 0 .. 2 * MaxPackets
  BY SentTypes
<1> DEFINE x == 2 * MaxPackets
<1>3. x \in Nat
  BY BoundsAssumption
<1> HIDE DEF x
<1>4. Off(sender.reliable) \in 0 .. x
  BY <1>2 DEF x
<1>5. Off(r.reliable) <= x
  BY <1>1, <1>3, <1>4
<1> QED BY <1>5 DEF x

\* What is not discarded is still to come.
LEMMA NewIsFuture ==
    ASSUME Sent, Distinct, NEW r, Placed(r), NEW c, Known(c), Ordered(c),
           InWindow(r.reliable, c.reliable), Current(r, c)
    PROVE  Future(c, r)
<1>1. r.reliable \in 0 .. Modulus - 1 /\ Off(r.reliable) \in Nat /\ r.unreliable \in Nat
  BY RecordTypes DEF Placed
<1>2. c.reliable \in 0 .. Modulus - 1 /\ Off(c.reliable) \in Nat /\ c.unreliable \in Nat
  BY KnownIs
<1>3. Off(c.reliable) >= Off(r.reliable)
  BY <1>1, <1>2, PlacedWithin, WindowNotPassed
<1>4. Off(c.reliable) = Off(r.reliable) => c.reliable = r.reliable
  BY <1>1, <1>2, OffSame
<1> QED BY <1>1, <1>2, <1>3, <1>4 DEF Future, Current

\* The search compares numbers as they were sent.
LEMMA SearchIs ==
    ASSUME Sent, NEW r, Placed(r), NEW c, Known(c), Ordered(c), Future(c, r),
           NEW e, Known(e), Ordered(e), Future(e, r), Reliable(e.kind) <=> Reliable(c.kind)
    PROVE  /\ Reliable(c.kind) => (PassesReliable(r.reliable, e, c.reliable) <=> e.id > c.id)
           /\ ~ Reliable(c.kind)
                 => (PassesUnreliable(r.reliable, e, c.reliable, c.unreliable) <=> e.id > c.id)
           /\ e.reliable = c.reliable /\ e.unreliable = c.unreliable <=> e.id = c.id
<1>1. r.reliable \in 0 .. Modulus - 1 /\ Off(r.reliable) \in Nat
  BY RecordTypes DEF Placed
<1>2. c.reliable \in 0 .. Modulus - 1 /\ Off(c.reliable) \in Nat /\ e.reliable \in 0 .. Modulus - 1 /\ Off(e.reliable) \in Nat
  BY KnownIs
<1>3. Off(c.reliable) >= Off(r.reliable) /\ Off(e.reliable) >= Off(r.reliable)
  BY <1>1, <1>2 DEF Future
<1>4. PassesReliable(r.reliable, e, c.reliable) <=> Off(e.reliable) > Off(c.reliable)
  BY <1>1, <1>2, <1>3, PassesIs
<1>5. CASE Reliable(c.kind)
  <2>1. /\ Off(e.reliable) > Off(c.reliable) <=> e.id > c.id
        /\ e.reliable = c.reliable <=> e.id = c.id
    BY <1>5, ReliableOrder
  <2>2. e.unreliable = 0 /\ c.unreliable = 0
    BY <1>5, KnownIs DEF SentRight
  <2> QED BY <1>4, <1>5, <2>1, <2>2
<1>6. CASE ~ Reliable(c.kind)
  <2>1. /\ Later(e, c) <=> e.id > c.id
        /\ e.reliable = c.reliable /\ e.unreliable = c.unreliable <=> e.id = c.id
    BY <1>6, UnreliableOrder
  <2>2. PassesUnreliable(r.reliable, e, c.reliable, c.unreliable) <=> Later(e, c)
    BY <1>4 DEF PassesUnreliable, Later
  <2> QED BY <1>6, <2>1, <2>2
<1> QED BY <1>5, <1>6

\* The list a command goes to.
LEMMA QueueRight ==
    ASSUME Sent, NEW r, Placed(r), ReliablesRight(r), UnreliablesWait(r), NEW c
    PROVE  /\ Queue(r, c) \in Seq(Entries) /\ Len(Queue(r, c)) \in Nat /\ DOMAIN Queue(r, c) = 1 .. Len(Queue(r, c))
           /\ \A k \in 1 .. Len(Queue(r, c)) :
                 LET e == Queue(r, c)[k]
                 IN  Known(e) /\ Ordered(e) /\ Future(e, r) /\ (Reliable(e.kind) <=> Reliable(c.kind)) /\ e.id \in Nat
           /\ Ascending(Queue(r, c))
<1> DEFINE q == Queue(r, c)
<1>1. r.reliables \in Seq(Entries) /\ r.unreliables \in Seq(Entries)
  BY DEF Placed, Receivers
<1>2. q = IF Reliable(c.kind) THEN r.reliables ELSE r.unreliables
  BY DEF Queue
<1>3. q \in Seq(Entries)
  BY <1>1, <1>2
<1>4. Len(q) \in Nat /\ DOMAIN q = 1 .. Len(q)
  BY <1>3, LenProperties
<1>5. ASSUME NEW k \in 1 .. Len(q)
      PROVE  Known(q[k]) /\ Ordered(q[k]) /\ Future(q[k], r) /\ (Reliable(q[k].kind) <=> Reliable(c.kind)) /\ q[k].id \in Nat
  <2>1. CASE Reliable(c.kind)
    <3>1. Known(q[k]) /\ Reliable(q[k].kind) /\ Off(q[k].reliable) > Off(r.reliable)
      BY <1>2, <1>5, <2>1 DEF ReliablesRight
    <3>2. Ordered(q[k])
      BY <3>1 DEF Reliable, Ordered
    <3> QED BY <2>1, <3>1, <3>2, KnownIs DEF Future
  <2>2. CASE ~ Reliable(c.kind)
    <3>1. Known(q[k]) /\ ~ Reliable(q[k].kind) /\ Ordered(q[k]) /\ Future(q[k], r)
      BY <1>2, <1>5, <2>2 DEF UnreliablesWait
    <3> QED BY <2>2, <3>1, KnownIs
  <2> QED BY <2>1, <2>2
<1>6. Ascending(q)
  BY <1>2 DEF ReliablesRight, UnreliablesWait
<1> QED BY <1>3, <1>4, <1>5, <1>6

LEMMA StopIs ==
    ASSUME Sent, NEW r, Placed(r), ReliablesRight(r), UnreliablesWait(r),
           NEW c, Known(c), Ordered(c), Future(c, r), ~ Same(r, c)
    PROVE  /\ Stop(r, c) \in 0 .. Len(Queue(r, c))
           /\ \A k \in 1 .. Stop(r, c) : Queue(r, c)[k].id < c.id
           /\ \A k \in Stop(r, c) + 1 .. Len(Queue(r, c)) : c.id < Queue(r, c)[k].id
<1> DEFINE q == Queue(r, c)
           n == Len(q)
           s == Stop(r, c)
           u == {i \in 1 .. n : ~ q[i].id > c.id}
           z == {0} \cup u
<1>1. /\ n \in Nat /\ DOMAIN q = 1 .. n
      /\ \A k \in 1 .. n : Known(q[k]) /\ Ordered(q[k]) /\ Future(q[k], r) /\ (Reliable(q[k].kind) <=> Reliable(c.kind))
                           /\ q[k].id \in Nat
      /\ Ascending(q)
  BY QueueRight
<1>2. c.id \in Nat
  BY KnownIs
<1>3. c.kind # "unsequenced"
  BY DEF Ordered
<1>4. s = Max(z)
  <2>1. CASE Reliable(c.kind)
    <3>1. q = r.reliables /\ s = StopReliable(r, c)
      BY <1>3, <2>1 DEF Queue, Stop
    <3>2. s = Max({0} \cup {i \in 1 .. n : ~ PassesReliable(r.reliable, q[i], c.reliable)})
      BY <1>1, <3>1 DEF StopReliable
    <3>3. \A i \in 1 .. n : PassesReliable(r.reliable, q[i], c.reliable) <=> q[i].id > c.id
      BY <1>1, <2>1, SearchIs
    <3>4. u = {i \in 1 .. n : ~ PassesReliable(r.reliable, q[i], c.reliable)}
      BY <3>3
    <3> QED BY <3>2, <3>4
  <2>2. CASE ~ Reliable(c.kind)
    <3>1. q = r.unreliables /\ s = StopUnreliable(r, c)
      BY <1>3, <2>2 DEF Queue, Stop
    <3>2. s = Max({0} \cup {i \in 1 .. n : ~ PassesUnreliable(r.reliable, q[i], c.reliable, c.unreliable)})
      BY <1>1, <3>1 DEF StopUnreliable
    <3>3. \A i \in 1 .. n : PassesUnreliable(r.reliable, q[i], c.reliable, c.unreliable) <=> q[i].id > c.id
      BY <1>1, <2>2, SearchIs
    <3>4. u = {i \in 1 .. n : ~ PassesUnreliable(r.reliable, q[i], c.reliable, c.unreliable)}
      BY <3>3
    <3> QED BY <3>2, <3>4
  <2> QED BY <2>1, <2>2
<1>5. s > 0 => ~ (q[s].reliable = c.reliable /\ q[s].unreliable = c.unreliable)
  BY DEF Same
<1> HIDE DEF q, n, s
<1>6. z \in SUBSET (0 .. n) /\ z # {}
  BY <1>1
<1>7. s \in z /\ \A k \in z : k <= s
  <2> HIDE DEF z
  <2> QED BY <1>1, <1>4, <1>6, Greatest
<1>8. s \in 0 .. n /\ (s > 0 => s \in 1 .. n /\ ~ q[s].id > c.id)
  BY <1>1, <1>7
<1>9. ASSUME NEW k \in 1 .. s PROVE q[k].id < c.id
  <2>1. s > 0 /\ s \in 1 .. n /\ k \in 1 .. n /\ k <= s
    BY <1>1, <1>8
  <2>2. q[s].id # c.id
    BY <1>1, <1>5, <2>1, SearchIs
  <2>3. q[s].id < c.id
    BY <1>1, <1>2, <1>8, <2>1, <2>2
  <2>4. CASE k = s
    BY <2>3, <2>4
  <2>5. CASE k # s
    <3>1. k < s
      BY <1>1, <2>1, <2>5
    <3>2. q[k].id < q[s].id
      BY <1>1, <2>1, <3>1 DEF Ascending, n
    <3> QED BY <1>1, <1>2, <2>1, <2>3, <3>2
  <2> QED BY <2>4, <2>5
<1>10. ASSUME NEW k \in s + 1 .. n PROVE c.id < q[k].id
  <2>1. k \in 1 .. n /\ ~ k <= s
    BY <1>1, <1>8
  <2>2. k \notin z
    BY <1>7, <2>1
  <2>3. q[k].id > c.id
    BY <2>1, <2>2
  <2> QED BY <1>1, <1>2, <2>1, <2>3
<1> QED BY <1>8, <1>9, <1>10 DEF q, n, s

\* What is in the list when the command is.
HasInserted(t, q, n, e) ==
    /\ t \in Seq(Entries) /\ Len(t) = Len(q) + 1 /\ Len(q) \in Nat
    /\ \A i \in 1 .. Len(t) : \/ i <= n /\ i \in 1 .. Len(q) /\ t[i] = q[i]
                              \/ i = n + 1 /\ t[i] = e
                              \/ i > n + 1 /\ i - 1 \in n + 1 .. Len(q) /\ i - 1 \in 1 .. Len(q) /\ t[i] = q[i - 1]

LEMMA InsertedPlaces ==
    ASSUME NEW q \in Seq(Entries), NEW n \in 0 .. Len(q), NEW e \in Entries
    PROVE  HasInserted(InsertAt(q, n + 1, e), q, n, e)
<1> DEFINE t == InsertAt(q, n + 1, e)
           l == Len(q)
           m == Len(t)
<1>1. l \in Nat /\ n \in 0 .. l
  BY LenProperties
<1>2. /\ t \in Seq(Entries) /\ m = l + 1
      /\ \A i \in 1 .. n : t[i] = q[i]
      /\ t[n + 1] = e
      /\ \A i \in n + 1 .. l : t[i + 1] = q[i]
  <2>1. t \in Seq(Entries) /\ Len(t) = Len(q) + 1
    BY Inserted
  <2>2. \A i \in 1 .. n : t[i] = q[i]
    BY Inserted
  <2>3. t[n + 1] = e
    BY Inserted
  <2>4. \A i \in n + 1 .. Len(q) : t[i + 1] = q[i]
    BY Inserted
  <2> HIDE DEF t
  <2> QED BY <2>1, <2>2, <2>3, <2>4
<1> HIDE DEF t, l, m
<1>3. ASSUME NEW i \in 1 .. m
      PROVE  \/ i <= n /\ i \in 1 .. l /\ t[i] = q[i]
             \/ i = n + 1 /\ t[i] = e
             \/ i > n + 1 /\ i - 1 \in n + 1 .. l /\ i - 1 \in 1 .. l /\ t[i] = q[i - 1]
  <2>1. CASE i <= n
    <3>1. i \in 1 .. n /\ i \in 1 .. l
      BY <1>1, <2>1
    <3> QED BY <1>2, <2>1, <3>1
  <2>2. CASE i = n + 1
    BY <1>2, <2>2
  <2>3. CASE i > n + 1
    <3> DEFINE k == i - 1
    <3>1. k \in n + 1 .. l /\ k \in 1 .. l /\ k + 1 = i
      BY <1>1, <1>2, <2>3
    <3> HIDE DEF k
    <3>2. t[i] = q[k]
      BY <1>2, <3>1
    <3> QED BY <2>3, <3>1, <3>2 DEF k
  <2> QED BY <1>1, <1>2, <2>1, <2>2, <2>3
<1>4. HasInserted(t, q, n, e)
  BY <1>1, <1>2, <1>3 DEF l, m, HasInserted
<1> QED BY <1>4 DEF t

LEMMA InsertedAscending ==
    ASSUME NEW q \in Seq(Entries), NEW n \in 0 .. Len(q), NEW e \in Entries,
           NEW t, HasInserted(t, q, n, e), Ascending(q),
           \A k \in 1 .. n : q[k].id < e.id, \A k \in n + 1 .. Len(q) : e.id < q[k].id
    PROVE  Ascending(t)
<1> DEFINE l == Len(q)
           m == Len(t)
<1>1. /\ m = l + 1 /\ l \in Nat
      /\ \A i \in 1 .. m : \/ i <= n /\ i \in 1 .. l /\ t[i] = q[i]
                           \/ i = n + 1 /\ t[i] = e
                           \/ i > n + 1 /\ i - 1 \in n + 1 .. l /\ i - 1 \in 1 .. l /\ t[i] = q[i - 1]
  BY DEF HasInserted
<1>2. /\ \A i, j \in 1 .. l : i < j => q[i].id < q[j].id
      /\ \A k \in 1 .. n : q[k].id < e.id
      /\ \A k \in n + 1 .. l : e.id < q[k].id
  BY DEF Ascending
<1>3. n \in 0 .. l
  OBVIOUS
<1> HIDE DEF l, m
<1> SUFFICES ASSUME NEW i \in 1 .. m, NEW j \in 1 .. m, i < j PROVE t[i].id < t[j].id
  BY DEF Ascending, m
<1>4. i \in Nat /\ j \in Nat /\ n \in Nat
  BY <1>1, <1>3
<1>5. CASE j <= n /\ j \in 1 .. l /\ t[j] = q[j]
  <2>1. i \in 1 .. l /\ t[i] = q[i]
    BY <1>1, <1>4, <1>5
  <2> QED BY <1>2, <1>5, <2>1
<1>6. CASE j = n + 1 /\ t[j] = e
  <2>1. i \in 1 .. n /\ t[i] = q[i]
    BY <1>1, <1>4, <1>6
  <2> QED BY <1>2, <1>6, <2>1
<1>7. CASE j > n + 1 /\ j - 1 \in n + 1 .. l /\ j - 1 \in 1 .. l /\ t[j] = q[j - 1]
  <2> DEFINE k == j - 1
  <2>1. k \in n + 1 .. l /\ k \in 1 .. l /\ t[j] = q[k] /\ i <= k
    BY <1>4, <1>7
  <2> HIDE DEF k
  <2>2. CASE i <= n /\ i \in 1 .. l /\ t[i] = q[i]
    <3>1. i < k
      BY <1>3, <1>4, <2>1, <2>2
    <3> QED BY <1>2, <2>1, <2>2, <3>1
  <2>3. CASE i = n + 1 /\ t[i] = e
    BY <1>2, <2>1, <2>3
  <2>4. CASE i > n + 1 /\ i - 1 \in 1 .. l /\ t[i] = q[i - 1]
    <3> DEFINE h == i - 1
    <3>1. h \in 1 .. l /\ t[i] = q[h] /\ h < k
      BY <1>1, <1>3, <1>4, <2>1, <2>4
    <3> HIDE DEF h
    <3> QED BY <1>2, <2>1, <3>1
  <2> QED BY <1>1, <2>2, <2>3, <2>4
<1> QED BY <1>1, <1>5, <1>6, <1>7

LEMMA EntryKnown ==
    ASSUME Sent, NEW c \in net
    PROVE  /\ c \in Commands /\ Known(c) /\ Known(Entry(c)) /\ Entry(c) \in Entries
           /\ Entry(c).kind = c.kind /\ Entry(c).id = c.id
           /\ Entry(c).reliable = c.reliable /\ Entry(c).unreliable = c.unreliable
           /\ c.kind = "unsequenced" => Complete(Entry(c))
<1>1. c \in Commands /\ Known(c)
  BY SentTypes, NetKnown
<1>2. /\ Entry(c) \in Entries /\ Entry(c).kind = c.kind /\ Entry(c).id = c.id
      /\ Entry(c).reliable = c.reliable /\ Entry(c).unreliable = c.unreliable
      /\ Entry(c).got = IF Parts(c.kind) = 1 THEN {1} ELSE {}
  BY <1>1, EntryType
<1>3. Known(Entry(c))
  BY <1>2 DEF Known
<1>4. ASSUME c.kind = "unsequenced" PROVE Complete(Entry(c))
  <2>1. Parts(c.kind) = 1
    BY <1>4 DEF Parts
  <2>2. Entry(c).got = {1} /\ Parts(Entry(c).kind) = 1 /\ 1 .. 1 = {1}
    BY <1>2, <2>1
  <2> QED BY <2>2 DEF Complete
<1> QED BY <1>1, <1>2, <1>3, <1>4

\* Only the numbers of the record and what it handed over matter.
LEMMA HistoryAlike ==
    ASSUME NEW r, NEW v, NEW G, NEW H, v.reliable = r.reliable, v.unreliable = r.unreliable,
           v.dispatched = r.dispatched, History(Taken(r), r, G), G \subseteq H
    PROVE  History(Taken(v), v, H)
<1>1. Taken(v) = Taken(r)
  BY DEF Taken
<1>2. \A c : Past(c, v) <=> Past(c, r)
  BY DEF Past
<1> QED BY <1>1, <1>2 DEF History

LEMMA QueuedRight ==
    ASSUME Sent, Distinct, NEW r, Good(r), NEW G, NEW H, History(Taken(r), r, G), G \subseteq H,
           NEW c \in net, ~ Discarded(r, c), c.kind = "unsequenced" => c.id \in H \ G,
           NEW v, v = QueueIncoming(r, c)
    PROVE  Good(v) /\ History(Taken(v), v, H)
<1> DEFINE q == Queue(r, c)
           s == Stop(r, c)
           e == Entry(c)
           t == Longer(r, c)
           p == Queued(r, c)
           l == Len(q)
           m == Len(t)
<1>1. /\ Placed(r) /\ ReliablesRight(r) /\ HeadWaits(r) /\ UnreliablesWait(r) /\ AllWhole(r.dispatched)
      /\ r \in Receivers
  BY DEF Good, Placed
<1>2. /\ c \in Commands /\ Known(c) /\ Known(e) /\ e \in Entries /\ e.kind = c.kind /\ e.id = c.id
      /\ e.reliable = c.reliable /\ e.unreliable = c.unreliable
      /\ c.kind = "unsequenced" => Complete(e)
  BY EntryKnown
<1>3. /\ p \in Receivers /\ p.reliable = r.reliable /\ p.unreliable = r.unreliable /\ p.dispatched = r.dispatched
      /\ p.reliables = IF Reliable(c.kind) THEN t ELSE r.reliables
      /\ p.unreliables = IF Reliable(c.kind) THEN r.unreliables ELSE t
  BY <1>1, <1>2, QueuedIs DEF IsQueued
<1>4. v = Dispatch(p, c.kind, c.id)
  BY QueueIncomingIs
<1>5. /\ q \in Seq(Entries) /\ l \in Nat
      /\ \A k \in 1 .. l : Known(q[k]) /\ Ordered(q[k]) /\ Future(q[k], r)
                           /\ (Reliable(q[k].kind) <=> Reliable(c.kind)) /\ q[k].id \in Nat
      /\ Ascending(q)
  BY <1>1, QueueRight
<1>6. s \in 0 .. l
  BY <1>1, QueueType
<1>7. HasInserted(t, q, s, e)
  BY <1>2, <1>5, <1>6, InsertedPlaces DEF Longer
<1>8. q = IF Reliable(c.kind) THEN r.reliables ELSE r.unreliables
  BY DEF Queue
<1>9. c.kind = "unsequenced" => s = 0 /\ ~ Reliable(c.kind)
  BY DEF Stop, Reliable
<1>10. c.kind # "unsequenced" => InWindow(r.reliable, c.reliable) /\ Current(r, c) /\ ~ Same(r, c)
  BY DEF Discarded
<1>11. Ordered(c) => Future(c, r)
  BY <1>1, <1>2, <1>10, NewIsFuture DEF Ordered
<1>12. Ordered(c) => /\ \A k \in 1 .. s : q[k].id < c.id
                     /\ \A k \in s + 1 .. l : c.id < q[k].id
  BY <1>1, <1>2, <1>10, <1>11, StopIs DEF Ordered
<1>13. c.id \in Nat /\ c.unreliable \in Nat /\ Off(c.reliable) \in Nat /\ (Reliable(c.kind) => Ordered(c))
  BY <1>2, KnownIs DEF Reliable, Ordered
<1>14. Placed(p) /\ History(Taken(p), p, G) /\ AllWhole(p.dispatched)
  <2>1. History(Taken(p), p, G)
    BY <1>3, HistoryAlike
  <2> QED BY <1>1, <1>3, <2>1 DEF Placed
<1> HIDE DEF q, s, e, t, p, l
<1>15. Ordered(c) => Ascending(t)
  <2> SUFFICES ASSUME Ordered(c) PROVE Ascending(t)
    OBVIOUS
  <2>1. (\A k \in 1 .. s : q[k].id < e.id) /\ (\A k \in s + 1 .. Len(q) : e.id < q[k].id)
    BY <1>2, <1>12 DEF l
  <2>2. s \in 0 .. Len(q)
    BY <1>6 DEF l
  <2> QED BY <1>2, <1>5, <1>7, <2>1, <2>2, InsertedAscending
<1>16. /\ m = l + 1 /\ t \in Seq(Entries)
       /\ \A i \in 1 .. m : \/ i <= s /\ i \in 1 .. l /\ t[i] = q[i]
                            \/ i = s + 1 /\ t[i] = e
                            \/ i > s + 1 /\ i - 1 \in s + 1 .. l /\ i - 1 \in 1 .. l /\ t[i] = q[i - 1]
  BY <1>7 DEF HasInserted, l
<1> HIDE DEF m
<1>17. \A i \in 1 .. m : t[i] = e \/ \E k \in 1 .. l : t[i] = q[k]
  BY <1>16
<1>18. CASE Reliable(c.kind)
  <2>1. p.reliables = t /\ p.unreliables = r.unreliables /\ q = r.reliables
    BY <1>3, <1>8, <1>18
  <2>2. ReliablesRight(p)
    <3>1. ASSUME NEW i \in 1 .. m
          PROVE  Known(t[i]) /\ Reliable(t[i].kind) /\ Off(t[i].reliable) > Off(p.reliable)
      <4>1. CASE t[i] = e
        <5>1. Off(c.reliable) > Off(r.reliable)
          BY <1>11, <1>13, <1>18 DEF Future
        <5> QED BY <1>2, <1>3, <1>18, <4>1, <5>1
      <4>2. CASE \E k \in 1 .. l : t[i] = q[k]
        <5>1. PICK k \in 1 .. l : t[i] = q[k]
          BY <4>2
        <5>2. Known(q[k]) /\ Reliable(q[k].kind) /\ Future(q[k], r)
          BY <1>5, <1>18
        <5> QED BY <1>3, <5>1, <5>2 DEF Future
      <4> QED BY <1>17, <4>1, <4>2
    <3> QED BY <1>13, <1>15, <1>18, <2>1, <3>1 DEF ReliablesRight, m
  <2>3. UnreliablesWait(p)
    BY <1>1, <1>3, <2>1 DEF UnreliablesWait, Future, Ready
  <2>4. ASSUME NEW i \in 1 .. Len(p.unreliables) PROVE p.unreliables[i].id # c.id
    <3>1. Known(p.unreliables[i]) /\ ~ Reliable(p.unreliables[i].kind)
      BY <2>3 DEF UnreliablesWait
    <3> QED BY <1>2, <1>18, <3>1, KnownPairs
  <2>5. v = DispatchReliable(p, c.id)
    BY <1>4, <1>18 DEF Dispatch
  <2>6. Good(v) /\ History(Taken(v), v, G)
    BY <1>14, <2>2, <2>3, <2>4, <2>5, ReliableDispatched
  <2> QED BY <2>6, HistoryAlike
<1>19. CASE ~ Reliable(c.kind)
  <2>1. p.reliables = r.reliables /\ p.unreliables = t /\ q = r.unreliables
    BY <1>3, <1>8, <1>19
  <2>2. ReliablesRight(p) /\ HeadWaits(p)
    BY <1>1, <1>3, <2>1 DEF ReliablesRight, HeadWaits
  <2>3. \A k \in 1 .. l : ~ Ready(p, q[k])
    BY <1>1, <1>3, <2>1 DEF UnreliablesWait, Ready, l
  <2>4. \A k \in 1 .. l : q[k].id # c.id
    <3> SUFFICES ASSUME NEW k \in 1 .. l PROVE q[k].id # c.id
      OBVIOUS
    <3>1. CASE Ordered(c)
      <4>1. k \in 1 .. s \/ k \in s + 1 .. l
        BY <1>5, <1>6
      <4> QED BY <1>5, <1>12, <1>13, <3>1, <4>1
    <3>2. CASE ~ Ordered(c)
      <4>1. Known(q[k]) /\ Ordered(q[k])
        BY <1>5
      <4> QED BY <1>2, <3>2, <4>1, KnownPairs DEF Ordered
    <3> QED BY <3>1, <3>2
  <2>5. ASSUME NEW i \in 1 .. m, NEW j \in 1 .. m, i < j, Ordered(t[i]) PROVE t[i].id < t[j].id
    <3>1. CASE Ordered(c)
      BY <1>15, <2>5, <3>1 DEF Ascending, m
    <3>2. CASE ~ Ordered(c)
      <4>1. s = 0 /\ ~ Ordered(e)
        BY <1>2, <1>9, <3>2 DEF Ordered
      <4>2. i # s + 1
        BY <1>16, <2>5, <4>1
      <4>3. i - 1 \in 1 .. l /\ t[i] = q[i - 1]
        BY <1>16, <4>1, <4>2
      <4>4. j - 1 \in 1 .. l /\ t[j] = q[j - 1]
        BY <1>16, <2>5, <4>1, <4>2
      <4>5. i - 1 < j - 1
        BY <2>5
      <4> QED BY <1>5, <4>3, <4>4, <4>5 DEF Ascending, l
    <3> QED BY <3>1, <3>2
  <2>6. ASSUME NEW i \in 1 .. m
        PROVE  /\ Known(t[i]) /\ ~ Reliable(t[i].kind) /\ (Ordered(t[i]) \/ (i = 1 /\ Complete(t[i])))
               /\ Matches(p, t[i]) => t[i].unreliable > p.unreliable
    <3>1. CASE i = s + 1 /\ t[i] = e
      <4>1. CASE Ordered(c)
        <5>1. Matches(p, t[i]) => c.unreliable > r.unreliable
          <6>1. Matches(p, t[i]) => Off(c.reliable) = Off(r.reliable)
            BY <1>2, <1>3, <3>1 DEF Matches
          <6>2. Off(r.reliable) \in Nat
            BY <1>1, RecordTypes
          <6> QED BY <1>11, <1>13, <4>1, <6>1, <6>2 DEF Future
        <5> QED BY <1>2, <1>3, <1>19, <3>1, <4>1, <5>1 DEF Ordered
      <4>2. CASE ~ Ordered(c)
        <5>1. i = 1 /\ Complete(t[i]) /\ ~ Matches(p, t[i])
          BY <1>2, <1>9, <3>1, <4>2 DEF Ordered, Matches
        <5> QED BY <1>2, <1>19, <3>1, <5>1
      <4> QED BY <4>1, <4>2
    <3>2. CASE \E k \in 1 .. l : t[i] = q[k]
      <4>1. PICK k \in 1 .. l : t[i] = q[k]
        BY <3>2
      <4>2. Known(q[k]) /\ Ordered(q[k]) /\ Future(q[k], r) /\ ~ Reliable(q[k].kind)
        BY <1>5, <1>19
      <4>3. Matches(p, q[k]) => Off(q[k].reliable) = Off(r.reliable)
        BY <1>3 DEF Matches
      <4>4. Off(r.reliable) \in Nat
        BY <1>1, RecordTypes
      <4>5. Matches(p, q[k]) => q[k].unreliable > p.unreliable
        BY <1>3, <4>2, <4>3, <4>4 DEF Future
      <4> QED BY <4>1, <4>2, <4>5
    <3> QED BY <1>16, <3>1, <3>2
  <2>7. UnreliablesRight(p)
    BY <1>3, <2>1, <2>5, <2>6 DEF UnreliablesRight, m
  <2>8. ASSUME NEW i \in 1 .. m, t[i].id = c.id
        PROVE  Ready(p, t[i]) \/ (Future(t[i], p) /\ \A j \in 1 .. m : ~ Ready(p, t[j]))
    <3>1. t[i] = e
      BY <1>17, <2>4, <2>8
    <3>2. CASE Ready(p, e)
      BY <3>1, <3>2
    <3>3. CASE ~ Ready(p, e)
      <4>1. Ordered(c)
        BY <1>2, <3>3 DEF Ready, Ordered
      <4>2. Future(e, p)
        BY <1>2, <1>3, <1>11, <4>1 DEF Future
      <4>3. \A j \in 1 .. m : ~ Ready(p, t[j])
        BY <1>17, <2>3, <3>3
      <4> QED BY <3>1, <4>2, <4>3
    <3> QED BY <3>2, <3>3
  <2>9. ASSUME NEW i \in 1 .. m, ~ Ordered(t[i]) PROVE t[i].id \in H \ G
    <3>1. t[i] = e
      BY <1>5, <1>17, <2>9
    <3> QED BY <1>2, <2>9, <3>1 DEF Ordered
  <2>10. WalkReady(p, c.id, G, H)
    BY <1>14, <2>1, <2>2, <2>7, <2>8, <2>9 DEF WalkReady, m
  <2>11. v = DispatchUnreliable(p, c.id)
    BY <1>4, <1>19 DEF Dispatch
  <2> QED BY <1>14, <2>10, <2>11, UnreliableDispatched
<1> QED BY <1>18, <1>19

-----------------------------------------------------------------------------
(* A part is marked.                                                       *)

IsMarkedLike(x, e, c) ==
    /\ Known(x) /\ x.id = e.id /\ x.kind = e.kind /\ x.reliable = e.reliable /\ x.unreliable = e.unreliable
    /\ e.id # c.id => x = e

LEMMA MarkedLike ==
    ASSUME Sent, NEW c \in net, NEW q \in Seq(Entries), \A i \in 1 .. Len(q) : Known(q[i]),
           NEW t, t = MarkedIn(q, c)
    PROVE  Len(t) = Len(q) /\ \A i \in 1 .. Len(q) : IsMarkedLike(t[i], q[i], c)
<1> DEFINE n == Len(q)
<1>1. c \in Commands
  BY SentTypes
<1>2. Len(t) = n /\ (\A i \in 1 .. n : t[i] = MarkedEntry(q[i], c)) /\ (\A i \in 1 .. n : q[i] \in Entries)
  BY <1>1, MarkedInIs, ElementOfSeq
<1> SUFFICES ASSUME NEW i \in 1 .. n PROVE IsMarkedLike(t[i], q[i], c)
  BY <1>2
<1> DEFINE e == q[i]
           x == t[i]
<1>3. e \in Entries /\ Known(e) /\ x = MarkedEntry(e, c)
  BY <1>2
<1> HIDE DEF e, x
<1>4. x.id = e.id /\ x.kind = e.kind /\ x.reliable = e.reliable /\ x.unreliable = e.unreliable
  BY <1>1, <1>3, MarkedEntryIs
<1>5. Known(x)
  BY <1>3, <1>4 DEF Known
<1>6. e.id # c.id => x = e
  BY <1>3 DEF MarkedEntry
<1> QED BY <1>4, <1>5, <1>6 DEF IsMarkedLike, e, x

LEMMA MarkedRight ==
    ASSUME Sent, Distinct, NEW r, Good(r), NEW G, History(Taken(r), r, G),
           NEW c \in net, Parts(c.kind) > 1, NEW v, v = MarkPart(r, c)
    PROVE  Good(v) /\ History(Taken(v), v, G)
<1> DEFINE p == Marked(r, c)
           a == r.reliables
           b == r.unreliables
           x == p.reliables
           y == p.unreliables
<1>1. /\ Placed(r) /\ ReliablesRight(r) /\ HeadWaits(r) /\ UnreliablesWait(r) /\ AllWhole(r.dispatched)
      /\ r \in Receivers /\ a \in Seq(Entries) /\ b \in Seq(Entries)
  BY DEF Good, Placed, Receivers
<1>2. c \in Commands /\ Known(c)
  BY SentTypes, NetKnown
<1>3. /\ p \in Receivers /\ p.reliable = r.reliable /\ p.unreliable = r.unreliable /\ p.dispatched = r.dispatched
      /\ x = MarkedIn(a, c) /\ y = MarkedIn(b, c)
  BY <1>1, <1>2, MarkedIs DEF IsMarked
<1>4. v = IF p # r /\ CompletedBy(p, c) THEN Dispatch(p, c.kind, 0) ELSE p
  BY MarkPartIs
<1>5. \A i \in 1 .. Len(a) : Known(a[i]) /\ Reliable(a[i].kind) /\ Off(a[i].reliable) > Off(r.reliable)
  BY <1>1 DEF ReliablesRight
<1>6. \A i \in 1 .. Len(b) : Known(b[i]) /\ ~ Reliable(b[i].kind) /\ Ordered(b[i]) /\ Future(b[i], r) /\ ~ Ready(r, b[i])
  BY <1>1 DEF UnreliablesWait
<1> HIDE DEF a, b, p, x, y
<1>7. Len(x) = Len(a) /\ \A i \in 1 .. Len(a) : IsMarkedLike(x[i], a[i], c)
  BY <1>1, <1>3, <1>5, MarkedLike
<1>8. Len(y) = Len(b) /\ \A i \in 1 .. Len(b) : IsMarkedLike(y[i], b[i], c)
  BY <1>1, <1>3, <1>6, MarkedLike
<1>9. Placed(p) /\ History(Taken(p), p, G) /\ AllWhole(p.dispatched)
  <2>1. History(Taken(p), p, G)
    BY <1>3, HistoryAlike
  <2> QED BY <1>1, <1>3, <2>1 DEF Placed
<1>10. ReliablesRight(p)
  <2>1. ASSUME NEW i \in 1 .. Len(a) PROVE Known(x[i]) /\ Reliable(x[i].kind) /\ Off(x[i].reliable) > Off(p.reliable)
    BY <1>3, <1>5, <1>7 DEF IsMarkedLike
  <2>2. Ascending(x)
    BY <1>1, <1>7 DEF ReliablesRight, Ascending, IsMarkedLike, a
  <2> QED BY <1>7, <2>1, <2>2 DEF ReliablesRight, x
<1>11. Ascending(y)
  BY <1>1, <1>8 DEF UnreliablesWait, Ascending, IsMarkedLike, b
<1>12. \A i \in 1 .. Len(y) : Known(y[i]) /\ ~ Reliable(y[i].kind) /\ Ordered(y[i]) /\ Future(y[i], p) /\ y[i].id # 0
  <2> SUFFICES ASSUME NEW i \in 1 .. Len(b)
               PROVE  Known(y[i]) /\ ~ Reliable(y[i].kind) /\ Ordered(y[i]) /\ Future(y[i], p) /\ y[i].id # 0
    BY <1>8
  <2>1. IsMarkedLike(y[i], b[i], c) /\ ~ Reliable(b[i].kind) /\ Ordered(b[i]) /\ Future(b[i], r)
    BY <1>6, <1>8
  <2>2. Known(y[i]) /\ ~ Reliable(y[i].kind) /\ Ordered(y[i])
    BY <2>1 DEF IsMarkedLike, Ordered
  <2>3. Future(y[i], p)
    BY <1>3, <2>1 DEF IsMarkedLike, Future
  <2>4. y[i].id # 0
    BY <2>2, KnownIs DEF SentRight
  <2> QED BY <2>2, <2>3, <2>4
<1>13. ASSUME ~ (p # r /\ CompletedBy(p, c)), NEW q, q = Queue(p, c), NEW i \in DOMAIN q, q[i].id = c.id
       PROVE  p = r \/ ~ Complete(q[i])
  BY <1>13 DEF CompletedBy
<1>14. DOMAIN x = 1 .. Len(x) /\ DOMAIN y = 1 .. Len(y) /\ Len(a) \in Nat
  <2>1. x \in Seq(Entries) /\ y \in Seq(Entries)
    BY <1>3 DEF Receivers, x, y
  <2> QED BY <1>1, <2>1, LenProperties
<1>15. CASE Reliable(c.kind)
  <2>1. ASSUME NEW i \in 1 .. Len(b) PROVE y[i] = b[i]
    <3>1. b[i].id # c.id
      BY <1>2, <1>6, <1>15, KnownPairs
    <3> QED BY <1>8, <3>1 DEF IsMarkedLike
  <2>2. UnreliablesWait(p)
    <3>1. \A i \in 1 .. Len(y) : ~ Ready(p, y[i])
      BY <1>3, <1>6, <1>8, <2>1 DEF Ready
    <3> QED BY <1>11, <1>12, <3>1 DEF UnreliablesWait, y
  <2>3. CASE p # r /\ CompletedBy(p, c)
    <3>1. v = DispatchReliable(p, 0)
      BY <1>4, <1>15, <2>3 DEF Dispatch
    <3>2. \A i \in 1 .. Len(p.unreliables) : p.unreliables[i].id # 0
      BY <1>12 DEF y
    <3> QED BY <1>9, <1>10, <2>2, <3>1, <3>2, ReliableDispatched
  <2>4. CASE ~ (p # r /\ CompletedBy(p, c))
    <3>1. v = p /\ Queue(p, c) = x
      BY <1>4, <1>15, <2>4 DEF Queue, x
    <3>2. CASE p = r
      BY <3>1, <3>2
    <3>3. CASE p # r
      <4>1. ASSUME Len(x) > 0 PROVE ~ NextInLine(p.reliable, x[1])
        <5>1. 1 \in 1 .. Len(a) /\ 1 \in DOMAIN x /\ Len(a) > 0
          BY <1>7, <1>14, <4>1
        <5>2. CASE a[1].id = c.id
          <6>1. x[1].id = c.id
            BY <1>7, <5>1, <5>2 DEF IsMarkedLike
          <6>2. ~ Complete(x[1])
            BY <1>13, <2>4, <3>1, <3>3, <5>1, <6>1
          <6> QED BY <6>2 DEF NextInLine
        <5>3. CASE a[1].id # c.id
          <6>1. x[1] = a[1]
            BY <1>7, <5>1, <5>3 DEF IsMarkedLike
          <6>2. ~ NextInLine(r.reliable, a[1])
            BY <1>1, <5>1 DEF HeadWaits, a
          <6> QED BY <1>3, <6>1, <6>2
        <5> QED BY <5>2, <5>3
      <4>2. HeadWaits(p)
        BY <4>1 DEF HeadWaits, x
      <4> QED BY <1>9, <1>10, <2>2, <3>1, <4>2 DEF Good
    <3> QED BY <3>2, <3>3
  <2> QED BY <2>3, <2>4
<1>16. CASE ~ Reliable(c.kind)
  <2>1. HeadWaits(p)
    <3> SUFFICES ASSUME Len(x) > 0 PROVE ~ NextInLine(p.reliable, x[1])
      BY DEF HeadWaits, x
    <3>1. 1 \in 1 .. Len(a) /\ Len(a) > 0
      BY <1>7, <1>14
    <3>2. a[1].id # c.id
      BY <1>2, <1>5, <1>16, <3>1, KnownPairs
    <3>3. x[1] = a[1]
      BY <1>7, <3>1, <3>2 DEF IsMarkedLike
    <3>4. ~ NextInLine(r.reliable, a[1])
      BY <1>1, <3>1 DEF HeadWaits, a
    <3> QED BY <1>3, <3>3, <3>4
  <2>2. CASE p # r /\ CompletedBy(p, c)
    <3>1. v = DispatchUnreliable(p, 0)
      BY <1>4, <1>16, <2>2 DEF Dispatch
    <3>2. \A i \in 1 .. Len(y) : Matches(p, y[i]) => y[i].unreliable > p.unreliable
      <4> SUFFICES ASSUME NEW i \in 1 .. Len(y), Matches(p, y[i]) PROVE y[i].unreliable > p.unreliable
        OBVIOUS
      <4>1. Off(y[i].reliable) = Off(p.reliable) /\ Off(p.reliable) \in Nat
        BY <1>3, RecordTypes DEF Matches
      <4> QED BY <1>12, <4>1 DEF Future
    <3>3. UnreliablesRight(p)
      BY <1>3, <1>11, <1>12, <3>2 DEF UnreliablesRight, Ascending, y
    <3>4. WalkReady(p, 0, G, G)
      BY <1>9, <1>10, <1>12, <2>1, <3>3 DEF WalkReady, y
    <3> QED BY <1>9, <3>1, <3>4, UnreliableDispatched
  <2>3. CASE ~ (p # r /\ CompletedBy(p, c))
    <3>1. v = p /\ Queue(p, c) = y
      BY <1>4, <1>16, <2>3 DEF Queue, y
    <3>2. CASE p = r
      BY <3>1, <3>2
    <3>3. CASE p # r
      <4>1. ASSUME NEW i \in 1 .. Len(y) PROVE ~ Ready(p, y[i])
        <5>1. i \in 1 .. Len(b) /\ i \in DOMAIN y /\ IsMarkedLike(y[i], b[i], c)
          BY <1>8, <1>14
        <5>2. CASE b[i].id = c.id
          <6>1. y[i].id = c.id
            BY <5>1, <5>2 DEF IsMarkedLike
          <6>2. ~ Complete(y[i])
            BY <1>13, <2>3, <3>1, <3>3, <5>1, <6>1
          <6> QED BY <1>12, <6>2 DEF Ready
        <5>3. CASE b[i].id # c.id
          <6>1. y[i] = b[i] /\ ~ Ready(r, b[i])
            BY <1>6, <5>1, <5>3 DEF IsMarkedLike
          <6> QED BY <1>3, <6>1 DEF Ready
        <5> QED BY <5>2, <5>3
      <4>2. UnreliablesWait(p)
        BY <1>11, <1>12, <4>1 DEF UnreliablesWait, y
      <4> QED BY <1>9, <1>10, <2>1, <3>1, <4>2 DEF Good
    <3> QED BY <3>2, <3>3
  <2> QED BY <2>2, <2>3
<1> QED BY <1>15, <1>16

-----------------------------------------------------------------------------
(* A packet is sent.                                                       *)

\* The numbers that enet_peer_send gives to a packet.
Numbered(kind, x, u) ==
    /\ Reliable(kind) => x = (sender.reliable + 1) % Modulus /\ u = 0
    /\ ~ Reliable(kind) /\ kind # "unsequenced" => x = sender.reliable /\ u = sender.unreliable + 1

\* One more packet: what was sent stays.
OneMore ==
    LET n == Len(sender.packets)
    IN  /\ Len(sender'.packets) = n + 1
        /\ \A id \in 1 .. n : sender'.packets[id] = sender.packets[id]
        /\ Off(sender.reliable) <= Off(sender'.reliable)
        /\ net \subseteq net'
        /\ \A c \in net' : c \in net \/ (c.id = n + 1 /\ (Reliable(c.kind) => End(c) \in Nat /\ End(c) > Off(sender.reliable)))

\* The numbers of the sender, before and after.
NewNumbers(kind, x, u, s, y, v) ==
    /\ Off(y) \in Nat /\ Off(s) \in Nat
    /\ Off(y) = IF Reliable(kind) THEN Off(s) + Parts(kind) ELSE Off(s)
    /\ Reliable(kind) => Off(x) = Off(s) + 1 /\ u = 0 /\ v = 0
    /\ ~ Reliable(kind) /\ kind # "unsequenced" => x = s /\ u = sender.unreliable + 1 /\ v = u
    /\ kind = "unsequenced" => v = sender.unreliable

LEMMA NumbersGoOn ==
    ASSUME Sent, Distinct, Len(sender.packets) < MaxPackets, NEW kind \in AllKinds,
           NEW x, NEW u, Numbered(kind, x, u), NEW y, NEW v,
           y = IF Reliable(kind) THEN (sender.reliable + Parts(kind)) % Modulus ELSE sender.reliable,
           v = IF Reliable(kind) THEN 0 ELSE IF kind = "unsequenced" THEN sender.unreliable
               ELSE sender.unreliable + 1
    PROVE  NewNumbers(kind, x, u, sender.reliable, y, v)
<1> DEFINE s == sender.reliable
           n == Len(sender.packets)
           o == Off(s)
           p == Parts(kind)
           one == 1
<1>1. s \in 0 .. Modulus - 1 /\ o \in Nat /\ n \in Nat /\ o <= 2 * n
  BY SentTypes DEF Sent, SenderInv
<1>2. n + 1 <= MaxPackets /\ 2 * MaxPackets < Modulus /\ MaxPackets \in Nat
  <2> DEFINE m == 2 * MaxPackets
             f == (FreeWindows - 1) * WindowSize
  <2>1. m \in Nat /\ f \in Nat /\ m + f < Modulus /\ Modulus \in Nat
    BY DistinctIs, Sizes
  <2>2. n + 1 <= MaxPackets /\ MaxPackets \in Nat
    <3>1. n < MaxPackets
      OBVIOUS
    <3> HIDE DEF n
    <3> QED BY <1>1, <3>1, BoundsAssumption
  <2> HIDE DEF m, f, n
  <2>3. m < Modulus
    BY <2>1
  <2> QED BY <2>2, <2>3 DEF m
<1>3. p \in 1 .. 2 /\ one = 1
  BY DEF Parts
<1>4. y = IF Reliable(kind) THEN (s + p) % Modulus ELSE s
  OBVIOUS
<1>5. Reliable(kind) => x = (s + one) % Modulus /\ u = 0
  BY DEF Numbered
<1> HIDE DEF n, o, p, one
<1>6. o + p < Modulus /\ o + one < Modulus /\ p \in 0 .. 2 /\ one \in 0 .. 2
  BY <1>1, <1>2, <1>3, Sizes
<1> HIDE DEF s
<1>7. Off((s + p) % Modulus) = o + p /\ Off((s + one) % Modulus) = o + one
  BY <1>1, <1>6, OffPlus DEF o
<1>8. Off(y) = IF Reliable(kind) THEN Off(s) + Parts(kind) ELSE Off(s)
  BY <1>4, <1>7 DEF o, p
<1>9. Reliable(kind) => Off(x) = Off(s) + 1 /\ u = 0 /\ v = 0
  BY <1>3, <1>5, <1>7 DEF o
<1>10. ~ Reliable(kind) /\ kind # "unsequenced" => x = s /\ u = sender.unreliable + 1 /\ v = u
  BY DEF Numbered, s
<1>11. kind = "unsequenced" => v = sender.unreliable
  BY DEF Reliable
<1>12. Off(y) \in Nat /\ Off(s) \in Nat
  BY <1>1, <1>3, <1>8 DEF o, p
<1> QED BY <1>8, <1>9, <1>10, <1>11, <1>12 DEF NewNumbers, s

LEMMA SequenceRight ==
    ASSUME Sent, Distinct, Len(sender.packets) < MaxPackets, NEW kind \in AllKinds,
           NEW reliable \in 0 .. Modulus - 1, NEW unreliable \in Nat,
           Numbered(kind, reliable, unreliable), Sequence(kind, reliable, unreliable)
    PROVE  SenderInv' /\ OneMore
<1> DEFINE s == sender.packets
           n == Len(s)
           p == Append(s, kind)
           y == IF Reliable(kind) THEN (sender.reliable + Parts(kind)) % Modulus ELSE sender.reliable
           v == IF Reliable(kind) THEN 0 ELSE IF kind = "unsequenced" THEN sender.unreliable
                ELSE sender.unreliable + 1
           a == Off(sender.reliable)
           b == Off(y)
           x == reliable
           u == unreliable
           Command(part) == [id |-> n + 1, kind |-> kind, reliable |-> x,
                             unreliable |-> u, part |-> part]
<1>1. sender \in [reliable : 0 .. Modulus - 1, unreliable : 0 .. UnreliableLimit, packets : Seq(AllKinds)]
      /\ net \subseteq Commands
  BY ReceiverType DEF Sent, HeldInv
<1>2. sender' = [sender EXCEPT !.packets = p, !.reliable = y, !.unreliable = v]
      /\ net' = net \cup {Command(part) : part \in 1 .. Parts(kind)}
  BY DEF Sequence
<1>3. n \in Nat /\ Len(p) = n + 1 /\ p[n + 1] = kind /\ (\A id \in 1 .. n : p[id] = s[id])
  BY <1>1, AppendProperties, LenProperties
<1>4. NewNumbers(kind, x, u, sender.reliable, y, v)
  BY NumbersGoOn
<1>5. /\ a <= 2 * n
      /\ \A c \in net : SentRight(c)
      /\ \A c, d \in net : c.id = d.id => c.reliable = d.reliable /\ c.unreliable = d.unreliable
      /\ \A c, d \in net : Ordered(c) /\ Ordered(d) /\ c.id < d.id => Below(c, d)
      /\ \A id \in 1 .. n : \E c \in net : c.id = id
  BY DEF Sent, SenderInv
<1>6. x \in Nat /\ u \in Nat /\ sender.unreliable \in Nat /\ Parts(kind) \in 1 .. 2
  BY Sizes, <1>1, WindowsAssumption DEF Parts
<1>7. sender'.packets = p /\ sender'.reliable = y /\ sender'.unreliable = v
  BY <1>1, <1>2
<1> HIDE DEF n, p, y, v, b, s
<1>8. /\ a \in Nat /\ b \in Nat /\ b = IF Reliable(kind) THEN a + Parts(kind) ELSE a
      /\ Reliable(kind) => Off(x) = a + 1 /\ u = 0 /\ v = 0
      /\ ~ Reliable(kind) /\ kind # "unsequenced" => x = sender.reliable /\ Off(x) = a /\ u = sender.unreliable + 1 /\ v = u
      /\ kind = "unsequenced" => v = sender.unreliable
  BY <1>4 DEF NewNumbers, b
<1>9. a <= b /\ b <= 2 * (n + 1)
  BY <1>3, <1>5, <1>6, <1>8
<1> HIDE DEF x, u
<1>10. ASSUME NEW part \in 1 .. Parts(kind)
       PROVE  /\ Command(part).id = n + 1 /\ Command(part).kind = kind
              /\ Command(part).reliable = x /\ Command(part).unreliable = u
  OBVIOUS
<1>11. ASSUME NEW c \in net'
       PROVE  c \in net \/ (c.id = n + 1 /\ c.kind = kind /\ c.reliable = x /\ c.unreliable = u)
  BY <1>2, <1>10, <1>11
<1> DEFINE first == Command(1)
<1>12. first \in net' /\ first.id = n + 1
  <2>1. 1 \in 1 .. Parts(kind)
    BY <1>6
  <2> HIDE DEF Command
  <2> QED BY <1>2, <1>10, <2>1
<1> HIDE DEF first, Command
<1>13. ASSUME NEW c, c.kind = kind, c.reliable = x, c.unreliable = u
       PROVE  /\ Ordered(c) <=> kind # "unsequenced"
              /\ Reliable(kind) => End(c) = b
              /\ ~ Reliable(kind) => End(c) = Off(x)
              /\ Reliable(kind) => kind # "unsequenced"
  <2>1. End(c) = Off(x) + (IF Reliable(kind) THEN Parts(kind) - 1 ELSE 0)
    BY <1>13 DEF End
  <2>2. Off(x) \in Nat
    <3>1. x \in 0 .. Modulus - 1
      BY DEF x
    <3>2. Off(x) \in 0 .. Modulus - 1
      BY <3>1, OffType
    <3> QED BY <3>2, Sizes
  <2>3. Ordered(c) <=> kind # "unsequenced"
    BY <1>13 DEF Ordered
  <2>4. Reliable(kind) => kind # "unsequenced"
    BY DEF Reliable
  <2> DEFINE z == Off(x)
             k == Parts(kind)
  <2>5. Reliable(kind) => z = a + 1 /\ b = a + k
    BY <1>8
  <2>6. z \in Nat /\ k \in 1 .. 2 /\ a \in Nat
    BY <1>6, <1>8, <2>2
  <2>7. End(c) = z + (IF Reliable(kind) THEN k - 1 ELSE 0)
    BY <2>1
  <2> HIDE DEF z, k, a
  <2>8. (Reliable(kind) => End(c) = b) /\ (~ Reliable(kind) => End(c) = z)
    BY <2>5, <2>6, <2>7
  <2> QED BY <2>3, <2>4, <2>8 DEF z
<1>14. ASSUME NEW c \in net
       PROVE  /\ c.id \in 1 .. n /\ c.kind = s[c.id] /\ End(c) \in Nat /\ c.unreliable \in Nat
              /\ Reliable(c.kind) => c.unreliable = 0 /\ Off(c.reliable) >= 1
              /\ ~ Reliable(c.kind) /\ Ordered(c) => c.unreliable >= 1
              /\ Ordered(c) => End(c) <= a
              /\ Ordered(c) /\ End(c) = a => c.unreliable <= sender.unreliable
  <2>1. SentRight(c)
    BY <1>5
  <2>2. Known(c)
    BY NetKnown
  <2>3. End(c) \in Nat /\ c.unreliable \in Nat
    BY <2>2, KnownIs
  <2> QED BY <2>1, <2>3 DEF SentRight, n, s
\* What SentRight says when the packet is sent.
<1> DEFINE R(c) == /\ c.id \in 1 .. n + 1 /\ c.kind = p[c.id]
                   /\ Reliable(c.kind) => c.unreliable = 0 /\ Off(c.reliable) >= 1
                   /\ ~ Reliable(c.kind) /\ Ordered(c) => c.unreliable >= 1
                   /\ Ordered(c) => End(c) <= b
                   /\ Ordered(c) /\ End(c) = b => c.unreliable <= v
<1>15. ASSUME NEW c \in net' PROVE R(c)
  <2>1. CASE c \in net
    <3>1. c.id \in 1 .. n /\ c.id \in 1 .. n + 1 /\ c.kind = p[c.id]
      BY <1>3, <1>14, <2>1
    <3>2. Ordered(c) => End(c) <= b
      BY <1>8, <1>9, <1>14, <2>1
    <3>3. ASSUME Ordered(c), End(c) = b PROVE c.unreliable <= v
      <4>1. End(c) = a /\ ~ Reliable(kind)
        BY <1>6, <1>8, <1>14, <2>1, <3>3
      <4>2. c.unreliable <= sender.unreliable /\ c.unreliable \in Nat
        BY <1>14, <2>1, <3>3, <4>1
      <4> QED BY <1>6, <1>8, <4>1, <4>2
    <3> QED BY <1>14, <2>1, <3>1, <3>2, <3>3
  <2>2. CASE c.id = n + 1 /\ c.kind = kind /\ c.reliable = x /\ c.unreliable = u
    <3>1. c.id \in 1 .. n + 1 /\ c.kind = p[c.id]
      BY <1>3, <2>2
    <3>2. /\ Ordered(c) <=> kind # "unsequenced"
          /\ Reliable(kind) => End(c) = b
          /\ ~ Reliable(kind) => End(c) = Off(x)
      BY <1>13, <2>2
    <3>3. Reliable(kind) => c.unreliable = 0 /\ Off(c.reliable) >= 1
      BY <1>8, <2>2
    <3>4. ~ Reliable(kind) /\ Ordered(c) => c.unreliable >= 1
      BY <1>6, <1>8, <2>2, <3>2
    <3>5. Ordered(c) => End(c) <= b /\ c.unreliable <= v
      BY <1>6, <1>8, <2>2, <3>2
    <3> QED BY <2>2, <3>1, <3>3, <3>4, <3>5
  <2> QED BY <1>11, <2>1, <2>2
<1>16. ASSUME NEW c \in net', NEW d \in net', c.id = d.id
       PROVE  c.reliable = d.reliable /\ c.unreliable = d.unreliable
  <2>1. CASE c \in net
    <3>1. d \in net
      BY <1>3, <1>11, <1>14, <1>16, <2>1
    <3> QED BY <1>5, <1>16, <2>1, <3>1
  <2>2. CASE c \notin net
    <3>1. c.id = n + 1 /\ c.reliable = x /\ c.unreliable = u
      BY <1>11, <2>2
    <3>2. d \notin net
      <4>1. d \in net => d.id \in 1 .. n
        BY <1>14
      <4>2. d.id = n + 1
        BY <1>16, <3>1
      <4> QED BY <1>3, <4>1, <4>2
    <3> QED BY <1>11, <3>1, <3>2
  <2> QED BY <2>1, <2>2
<1>17. ASSUME NEW c \in net', NEW d \in net', Ordered(c), Ordered(d), c.id < d.id PROVE Below(c, d)
  <2>1. c.id \in 1 .. n + 1 /\ d.id \in 1 .. n + 1
    BY <1>15
  <2>2. c \in net
    BY <1>3, <1>11, <1>17, <2>1
  <2>3. CASE d \in net
    BY <1>5, <1>17, <2>2, <2>3
  <2>4. CASE d \notin net
    <3>1. d.kind = kind /\ d.reliable = x /\ d.unreliable = u /\ kind # "unsequenced"
      BY <1>11, <1>17, <2>4 DEF Ordered
    <3>2. End(c) <= a /\ End(c) \in Nat /\ c.unreliable \in Nat /\ (End(c) = a => c.unreliable <= sender.unreliable)
      BY <1>14, <1>17, <2>2
    <3>3. CASE Reliable(kind)
      <4>1. End(c) < Off(d.reliable)
        BY <1>8, <3>1, <3>2, <3>3
      <4> QED BY <4>1 DEF Below
    <3>4. CASE ~ Reliable(kind)
      <4>1. Off(d.reliable) = a /\ d.unreliable = sender.unreliable + 1 /\ ~ Reliable(d.kind)
        BY <1>8, <3>1, <3>4
      <4>2. End(c) < Off(d.reliable) \/ (End(c) = Off(d.reliable) /\ c.unreliable < d.unreliable)
        BY <1>6, <1>8, <3>2, <4>1
      <4> QED BY <4>1, <4>2 DEF Below
    <3> QED BY <3>3, <3>4
  <2> QED BY <2>3, <2>4
<1>18. ASSUME NEW id \in 1 .. n + 1 PROVE \E c \in net' : c.id = id
  <2>1. id \in 1 .. n \/ id = n + 1
    BY <1>3
  <2> QED BY <1>2, <1>5, <1>12, <2>1
<1>19. Len(sender'.packets) = n + 1 /\ Off(sender'.reliable) = b
  BY <1>3, <1>7 DEF b
<1>20. SenderInv'
  <2>1. Off(sender'.reliable) <= 2 * Len(sender'.packets)
    BY <1>9, <1>19
  <2>2. ASSUME NEW c \in net' PROVE SentRight(c)'
    <3>1. R(c)
      BY <1>15
    <3> QED BY <1>7, <1>19, <3>1 DEF SentRight, Off, Ahead
  <2>3. \A id \in 1 .. Len(sender'.packets) : \E c \in net' : c.id = id
    BY <1>18, <1>19
  <2>4. Off(sender.reliable)' = Off(sender'.reliable)
    BY DEF Off, Ahead
  <2> QED BY <1>16, <1>17, <2>1, <2>2, <2>3, <2>4 DEF SenderInv
<1>21. OneMore
  <2>1. \A id \in 1 .. n : sender'.packets[id] = s[id]
    BY <1>3, <1>7
  <2>2. ASSUME NEW c \in net', c \notin net PROVE c.id = n + 1 /\ (Reliable(c.kind) => End(c) \in Nat /\ End(c) > a)
    <3>1. c.id = n + 1 /\ c.kind = kind /\ c.reliable = x /\ c.unreliable = u
      BY <1>11, <2>2
    <3>2. Reliable(kind) => End(c) = b
      BY <1>13, <3>1
    <3> QED BY <1>6, <1>8, <3>1, <3>2
  <2>3. net \subseteq net'
    BY <1>2
  <2> QED BY <1>9, <1>19, <2>1, <2>2, <2>3 DEF OneMore, n, s
<1> QED BY <1>20, <1>21

\* What the application gets from a right channel stays right when one more packet is sent.
LEMMA SentKeeps ==
    ASSUME Sent, OneMore, Off(sender'.reliable) \in Nat, delivered' = delivered,
           NEW r, NEW G, Good(r), History(Taken(r), r, G)
    PROVE  Good(r)' /\ History(Taken(r), r, G)'
<1> DEFINE n == Len(sender.packets)
           m == Len(sender'.packets)
           a == Off(sender.reliable)
           b == Off(sender'.reliable)
<1>1. n \in Nat /\ a \in Nat /\ b \in Nat
  BY SentTypes
<1>2. /\ m = n + 1 /\ \A id \in 1 .. n : sender'.packets[id] = sender.packets[id]
      /\ a <= b /\ net \subseteq net'
      /\ \A c \in net' : c \in net \/ (c.id = n + 1 /\ (Reliable(c.kind) => End(c) \in Nat /\ End(c) > a))
  BY DEF OneMore
<1>3. PICK A : A = Taken(r)
  OBVIOUS
<1>16. Taken(r)' = A
  BY <1>3 DEF Taken, Ids
<1>4. Off(sender.reliable)' = b
  BY DEF Off, Ahead
<1>5. /\ r \in Receivers /\ Off(r.reliable) <= a
      /\ ReliablesRight(r) /\ HeadWaits(r) /\ UnreliablesWait(r) /\ AllWhole(r.dispatched)
  BY DEF Good, Placed
<1>6. Off(r.reliable) \in Nat
  BY <1>5, RecordTypes
<1>7. Off(r.reliable) <= b
  <2> HIDE DEF a, b
  <2> QED BY <1>1, <1>2, <1>5, <1>6
<1>8. \A e : Known(e) => Known(e)'
  BY <1>2 DEF Known
<1>9. Good(r)'
  <2>1. Placed(r)'
    BY <1>4, <1>5, <1>7 DEF Placed
  <2>2. ReliablesRight(r)'
    BY <1>5, <1>8 DEF ReliablesRight
  <2>3. UnreliablesWait(r)'
    BY <1>5, <1>8 DEF UnreliablesWait
  <2>4. HeadWaits(r)' /\ AllWhole(r.dispatched)'
    BY <1>5 DEF HeadWaits, AllWhole
  <2> QED BY <2>1, <2>2, <2>3, <2>4 DEF Good
<1>10. /\ \A i \in 1 .. Len(A) : A[i] \in 1 .. n
       /\ \A i \in 1 .. Len(A) : \A c \in net : c.id = A[i] /\ Ordered(c) => Past(c, r)
       /\ \A i, j \in 1 .. Len(A) : A[i] = A[j] => i = j
       /\ \A i, j \in 1 .. Len(A) : i < j /\ Sequenced(A[i]) /\ Sequenced(A[j]) => A[i] < A[j]
       /\ \A i \in 1 .. Len(A) : ~ Sequenced(A[i]) => A[i] \in G
       /\ \A c \in net : Reliable(c.kind) /\ End(c) <= Off(r.reliable) => \E i \in 1 .. Len(A) : A[i] = c.id
  BY <1>3 DEF History
<1>11. \A i \in 1 .. Len(A) : Sequenced(A[i])' <=> Sequenced(A[i])
  BY <1>2, <1>10 DEF Sequenced, Kind
<1> HIDE DEF n, m, a, b
<1>12. \A i \in 1 .. Len(A) : A[i] \in 1 .. m
  BY <1>1, <1>2, <1>10
<1>13. ASSUME NEW i \in 1 .. Len(A), NEW c \in net', c.id = A[i], Ordered(c) PROVE Past(c, r)
  <2>1. c.id # n + 1
    BY <1>1, <1>10, <1>13
  <2> QED BY <1>2, <1>10, <1>13, <2>1
<1>14. ASSUME NEW c \in net', Reliable(c.kind), End(c) <= Off(r.reliable)
       PROVE  \E i \in 1 .. Len(A) : A[i] = c.id
  <2>2. CASE c \in net
    BY <1>10, <1>14, <2>2
  <2>3. CASE c \notin net
    <3>1. End(c) \in Nat /\ End(c) > a /\ End(c) <= Off(r.reliable) /\ Off(r.reliable) <= a
      BY <1>2, <1>5, <1>14, <2>3 DEF a
    <3>2. FALSE
      BY <1>1, <1>6, <3>1
    <3> QED BY <3>2
  <2> QED BY <2>2, <2>3
<1>15. History(Taken(r), r, G)'
  <2>1. \A i, j \in 1 .. Len(A) : i < j /\ Sequenced(A[i])' /\ Sequenced(A[j])' => A[i] < A[j]
    BY <1>10, <1>11
  <2>2. \A i \in 1 .. Len(A) : ~ Sequenced(A[i])' => A[i] \in G
    BY <1>10, <1>11
  <2>3. \A i, j \in 1 .. Len(A) : A[i] = A[j] => i = j
    BY <1>10
  <2> QED BY <1>16, <1>12, <1>13, <1>14, <2>1, <2>2, <2>3 DEF History, m, Sequenced, Kind
<1> QED BY <1>9, <1>15

LEMMA SendRight ==
    ASSUME Sent, Distinct, NEW kind \in Kinds, SendPacket(kind)
    PROVE  SenderInv' /\ OneMore
<1> DEFINE turned == CASE kind = "unreliable" -> "reliable"
                       [] kind = "unreliableFragment" -> "fragment"
                       [] OTHER -> kind
           k == IF sender.unreliable >= UnreliableLimit THEN turned ELSE kind
           x == (sender.reliable + 1) % Modulus
           y == sender.reliable
           z == sender.unreliable + 1
           o == 0
           q == 0
<1>1. sender \in [reliable : 0 .. Modulus - 1, unreliable : 0 .. UnreliableLimit, packets : Seq(AllKinds)]
  BY ReceiverType DEF Sent, HeldInv
<1>2. kind \in AllKinds
  BY KindsAssumption
<1>3. turned \in AllKinds
  BY <1>2 DEF AllKinds
<1>4. k \in AllKinds
  <2> HIDE DEF turned
  <2> QED BY <1>2, <1>3
<1>5. x \in 0 .. Modulus - 1 /\ y \in 0 .. Modulus - 1 /\ z \in Nat /\ o \in 0 .. Modulus - 1 /\ q \in Nat
  BY <1>1, Sizes, WindowsAssumption
<1>6. Len(sender.packets) < MaxPackets /\ Send(kind)
  BY DEF SendPacket
<1>7. IF Reliable(k) THEN Sequence(k, x, 0)
      ELSE IF k = "unsequenced" THEN Sequence(k, 0, 0)
      ELSE Sequence(k, sender.reliable, z)
  BY <1>6, Zenon DEF Send
<1> HIDE DEF k
<1>8. \/ Sequence(k, x, q) /\ Numbered(k, x, q)
      \/ Sequence(k, o, q) /\ Numbered(k, o, q)
      \/ Sequence(k, y, z) /\ Numbered(k, y, z)
  <2>1. CASE Reliable(k)
    <3>1. Sequence(k, x, q)
      BY <1>7, <2>1
    <3>2. Numbered(k, x, q)
      BY <2>1 DEF Numbered
    <3> QED BY <3>1, <3>2
  <2>2. CASE ~ Reliable(k) /\ k = "unsequenced"
    <3>1. Sequence(k, o, q)
      BY <1>7, <2>2
    <3>2. Numbered(k, o, q)
      BY <2>2 DEF Numbered
    <3> QED BY <3>1, <3>2
  <2>3. CASE ~ Reliable(k) /\ k # "unsequenced"
    <3>1. Sequence(k, y, z)
      BY <1>7, <2>3
    <3>2. Numbered(k, y, z)
      BY <2>3 DEF Numbered
    <3> QED BY <3>1, <3>2
  <2> QED BY <2>1, <2>2, <2>3
<1> HIDE DEF x, y, z, o, q
<1>9. CASE Sequence(k, x, q) /\ Numbered(k, x, q)
  BY <1>4, <1>5, <1>6, <1>9, SequenceRight
<1>10. CASE Sequence(k, o, q) /\ Numbered(k, o, q)
  BY <1>4, <1>5, <1>6, <1>10, SequenceRight
<1>11. CASE Sequence(k, y, z) /\ Numbered(k, y, z)
  BY <1>4, <1>5, <1>6, <1>11, SequenceRight
<1> QED BY <1>8, <1>9, <1>10, <1>11

-----------------------------------------------------------------------------
(* The channel stays right.                                                *)

ChannelInv ==
    /\ Sent
    /\ \E r : r = receiver /\ Good(r) /\ History(Taken(r), r, r.groups)

\* Nothing but the receiver changes.
LEMMA RightAfterwards ==
    ASSUME UNCHANGED <<sender, net, delivered>>, NEW r, NEW G, Good(r), History(Taken(r), r, G)
    PROVE  Good(r)' /\ History(Taken(r), r, G)'
<1>1. \A e : Known(e) => Known(e)'
  BY DEF Known
<1>2. Placed(r) /\ ReliablesRight(r) /\ HeadWaits(r) /\ UnreliablesWait(r) /\ AllWhole(r.dispatched)
  BY DEF Good
<1>3. Placed(r)'
  BY <1>2 DEF Placed, Off, Ahead
<1>4. ReliablesRight(r)'
  BY <1>1, <1>2 DEF ReliablesRight
<1>5. UnreliablesWait(r)'
  BY <1>1, <1>2 DEF UnreliablesWait
<1>6. HeadWaits(r)' /\ AllWhole(r.dispatched)'
  BY <1>2 DEF HeadWaits, AllWhole
<1>7. Good(r)'
  BY <1>3, <1>4, <1>5, <1>6 DEF Good
<1>8. History(Taken(r), r, G)'
  BY DEF History, Taken, Ids, Sequenced, Kind
<1> QED BY <1>7, <1>8

LEMMA SenderAfterwards ==
    ASSUME SenderInv, UNCHANGED <<sender, net>>
    PROVE  SenderInv'
<1>1. Off(sender.reliable)' = Off(sender.reliable)
  BY DEF Off, Ahead
<1>2. \A c : SentRight(c)' <=> SentRight(c)
  BY <1>1 DEF SentRight
<1> QED BY <1>1, <1>2 DEF SenderInv

LEMMA SendKeepsRight ==
    ASSUME ChannelInv, Distinct, NEW kind \in Kinds, SendPacket(kind)
    PROVE  ChannelInv'
<1>1. Sent /\ UNCHANGED <<receiver, delivered>>
  BY DEF ChannelInv, SendPacket
<1>2. HeldInv'
  BY <1>1, SendHolds DEF Sent
<1>3. SenderInv' /\ OneMore
  BY <1>1, SendRight
<1>4. Off(sender'.reliable) \in Nat
  <2> DEFINE x == sender'.reliable
  <2>1. x \in 0 .. Modulus - 1
    BY <1>2 DEF HeldInv, TypeOK
  <2> HIDE DEF x
  <2>2. Off(x) \in 0 .. Modulus - 1
    BY <2>1, OffType
  <2>3. Off(x) \in Nat
    BY <2>2, Sizes
  <2> QED BY <2>3 DEF x
<1>5. PICK r : r = receiver /\ Good(r) /\ History(Taken(r), r, r.groups)
  BY DEF ChannelInv
<1>6. PICK G : G = r.groups
  OBVIOUS
<1>7. Good(r)' /\ History(Taken(r), r, G)'
  BY <1>1, <1>3, <1>4, <1>5, <1>6, SentKeeps
<1>8. (\E v : v = receiver /\ Good(v) /\ History(Taken(v), v, v.groups))'
  BY <1>1, <1>5, <1>6, <1>7
<1> QED BY <1>2, <1>3, <1>8 DEF ChannelInv, Sent

\* What the record says of the numbers and the lists decides.
LEMMA GoodAlike ==
    ASSUME NEW r, NEW v, Good(r), v \in Receivers,
           v.reliable = r.reliable, v.unreliable = r.unreliable, v.reliables = r.reliables,
           v.unreliables = r.unreliables, v.dispatched = r.dispatched
    PROVE  Good(v)
<1>1. Placed(r) /\ ReliablesRight(r) /\ HeadWaits(r) /\ UnreliablesWait(r) /\ AllWhole(r.dispatched)
  BY DEF Good
<1>2. Placed(v) /\ ReliablesRight(v) /\ HeadWaits(v) /\ AllWhole(v.dispatched)
  BY <1>1 DEF Placed, ReliablesRight, HeadWaits, AllWhole
<1>3. UnreliablesWait(v)
  BY <1>1 DEF UnreliablesWait, Future, Ready
<1> QED BY <1>2, <1>3 DEF Good

RightNow(v) == Good(v) /\ History(Taken(v), v, v.groups)

LEMMA WholeRight ==
    ASSUME Sent, Distinct, NEW r, r = receiver, RightNow(r), NEW c \in net, ReceiveWhole(c)
    PROVE  RightNow(receiver')
<1> DEFINE again == c.kind = "unsequenced" /\ c.id \in receiver.groups
           kept == ~ again /\ ~ Discarded(receiver, c) /\ ~ Full(receiver)
           noted == IF c.kind = "unsequenced" /\ ~ again /\ (kept \/ receiver.leaving) THEN {c.id} ELSE {}
           p == IF kept THEN QueueIncoming(receiver, c) ELSE receiver
           g == p.groups \cup noted
           G == r.groups
           H == G \cup noted
<1>1. receiver' = [p EXCEPT !.groups = g]
  BY Zenon DEF ReceiveWhole
<1>2. r \in Receivers /\ c \in Commands /\ Good(r) /\ History(Taken(r), r, G)
  BY SentTypes DEF RightNow
<1>3. c.id \in 1 .. MaxPackets /\ G \in SUBSET (1 .. MaxPackets)
  BY <1>2 DEF Commands, Receivers
<1>4. noted \in SUBSET (1 .. MaxPackets)
  BY <1>3
<1>5. p \in Receivers /\ p.groups = G
  BY <1>2, QueueIncomingHolds
<1>6. g = H
  BY <1>5
<1>7. Good(p) /\ History(Taken(p), p, H)
  <2>1. CASE kept
    <3>1. c.kind = "unsequenced" => c.id \in H \ G
      BY <2>1
    <3>2. ~ Discarded(r, c) /\ p = QueueIncoming(r, c) /\ G \subseteq H
      BY <2>1
    <3> HIDE DEF p, H, G
    <3> QED BY <1>2, <3>1, <3>2, QueuedRight
  <2>2. CASE ~ kept
    <3>1. p = r /\ G \subseteq H
      BY <2>2
    <3> HIDE DEF p, H, G
    <3>2. p.reliable = r.reliable /\ p.unreliable = r.unreliable /\ p.dispatched = r.dispatched
      BY <3>1
    <3>3. History(Taken(p), p, H)
      BY <1>2, <3>1, <3>2, HistoryAlike
    <3> QED BY <1>2, <3>1, <3>3
  <2> QED BY <2>1, <2>2
<1> HIDE DEF p, noted, H, g
<1>8. H \in SUBSET (1 .. MaxPackets)
  BY <1>3, <1>4 DEF H
<1> HIDE DEF G
<1>9. PICK v : v = receiver'
  OBVIOUS
<1>10. /\ v \in Receivers /\ v.groups = H /\ v.reliable = p.reliable /\ v.unreliable = p.unreliable
       /\ v.reliables = p.reliables /\ v.unreliables = p.unreliables /\ v.dispatched = p.dispatched
  BY <1>1, <1>5, <1>6, <1>8, <1>9 DEF Receivers
<1>11. Good(v)
  BY <1>7, <1>10, GoodAlike
<1>12. H \subseteq H
  OBVIOUS
<1>13. History(Taken(v), v, H)
  BY <1>7, <1>10, <1>12, HistoryAlike
<1> QED BY <1>9, <1>10, <1>11, <1>13 DEF RightNow

LEMMA FragmentRight ==
    ASSUME Sent, Distinct, NEW r, r = receiver, RightNow(r), NEW c \in net, ReceiveFragment(c)
    PROVE  RightNow(receiver')
<1> DEFINE G == r.groups
<1>1. r \in Receivers /\ c \in Commands /\ Good(r) /\ History(Taken(r), r, G)
  BY SentTypes DEF RightNow
<1>2. Parts(c.kind) > 1
  BY DEF ReceiveFragment
<1>3. c.kind # "unsequenced"
  BY <1>2 DEF Parts
<1>4. \/ receiver' = r \/ receiver' = MarkPart(r, c)
      \/ ~ Discarded(r, c) /\ receiver' = MarkPart(QueueIncoming(r, c), c)
  BY DEF ReceiveFragment
<1>5. ASSUME NEW p, p \in Receivers, p.groups = G, Good(p), History(Taken(p), p, G), receiver' = MarkPart(p, c)
      PROVE  RightNow(receiver')
  <2> DEFINE v == MarkPart(p, c)
  <2>1. KeepsHeld(v, p)
    BY <1>1, <1>5, MarkPartHolds
  <2>2. v.groups = G
    BY <1>5, <2>1 DEF KeepsHeld
  <2>3. v = MarkPart(p, c)
    OBVIOUS
  <2> HIDE DEF v, G
  <2>4. Good(v) /\ History(Taken(v), v, G)
    BY <1>2, <1>5, <2>3, MarkedRight
  <2> QED BY <1>5, <2>2, <2>3, <2>4 DEF RightNow
<1>6. CASE receiver' = r
  BY <1>6
<1>7. CASE receiver' = MarkPart(r, c)
  BY <1>1, <1>5, <1>7
<1>8. CASE ~ Discarded(r, c) /\ receiver' = MarkPart(QueueIncoming(r, c), c)
  <2> DEFINE p == QueueIncoming(r, c)
             H == G
  <2>1. p \in Receivers /\ p.groups = G
    BY <1>1, QueueIncomingHolds
  <2>2. p = QueueIncoming(r, c) /\ H = G /\ G \subseteq H /\ (c.kind = "unsequenced" => c.id \in H \ G)
    BY <1>3
  <2> HIDE DEF p, G, H
  <2>3. Good(p) /\ History(Taken(p), p, H)
    BY <1>1, <1>8, <2>2, QueuedRight
  <2> QED BY <1>5, <1>8, <2>1, <2>2, <2>3
<1> QED BY <1>4, <1>6, <1>7, <1>8

LEMMA ReceiveKeepsRight ==
    ASSUME ChannelInv, Distinct, NEW c \in net, Receive(c)
    PROVE  ChannelInv'
<1>1. Sent /\ UNCHANGED <<sender, net, delivered>>
  BY DEF ChannelInv, Receive
<1>2. PICK r : r = receiver /\ RightNow(r)
  BY DEF ChannelInv, RightNow
<1>3. RightNow(receiver')
  BY <1>1, <1>2, WholeRight, FragmentRight DEF Receive
<1>4. PICK v : v = receiver'
  OBVIOUS
<1>5. PICK G : G = v.groups
  OBVIOUS
<1>6. Good(v) /\ History(Taken(v), v, G)
  BY <1>3, <1>4, <1>5 DEF RightNow
<1>7. Good(v)' /\ History(Taken(v), v, G)'
  BY <1>1, <1>6, RightAfterwards
<1>8. HeldInv' /\ SenderInv'
  BY <1>1, ReceiveHolds, SenderAfterwards DEF Sent
<1>9. (\E w : w = receiver /\ Good(w) /\ History(Taken(w), w, w.groups))'
  BY <1>4, <1>5, <1>7
<1> QED BY <1>8, <1>9 DEF ChannelInv, Sent

\* The application takes the first of those that wait for it.
LEMMA TakeFirst ==
    ASSUME NEW S, NEW d \in Seq(S), NEW s \in Seq(S), s # << >>
    PROVE  Append(d, Head(s)) \o Tail(s) = d \o s
<1> DEFINE h == Head(s)
           t == Tail(s)
           one == <<h>>
<1>1. h \in S /\ t \in Seq(S) /\ one \in Seq(S) /\ s = one \o t
  BY MembersTail
<1>2. Append(d, h) = d \o one
  <2>1. h \in S
    BY <1>1
  <2> HIDE DEF h
  <2> QED BY <2>1
<1> HIDE DEF h, t, one
<1>3. (d \o one) \o t = d \o (one \o t)
  <2>1. one \in Seq(S) /\ t \in Seq(S)
    BY <1>1
  <2> QED BY <2>1, ConcatAssociative
<1>4. Append(d, h) \o t = d \o s
  BY <1>1, <1>2, <1>3
<1> QED BY <1>4 DEF h, t

LEMMA IdsTail ==
    ASSUME NEW q \in Seq(Entries), q # << >>
    PROVE  /\ Ids(q) \in Seq(1 .. MaxPackets) /\ Ids(q) # << >>
           /\ Head(Ids(q)) = Head(q).id /\ Tail(Ids(q)) = Ids(Tail(q))
<1> DEFINE n == Len(q)
           S == 1 .. MaxPackets
           d == Ids(q)
           t == Tail(q)
           e == Ids(t)
<1>1. n \in Nat /\ n # 0 /\ DOMAIN q = 1 .. n /\ \A i \in 1 .. n : q[i] \in Entries
  BY LenProperties, ElementOfSeq
<1>2. Head(q) = q[1] /\ t \in Seq(Entries) /\ Len(t) = n - 1 /\ (\A i \in 1 .. n - 1 : t[i] = q[i + 1]) /\ DOMAIN t = 1 .. n - 1
  <2>1. t \in Seq(Entries) /\ Len(t) = n - 1 /\ (\A i \in 1 .. Len(t) : t[i] = q[i + 1])
    BY HeadTailProperties
  <2>2. Head(q) = q[1]
    OBVIOUS
  <2> HIDE DEF n, t
  <2> QED BY <2>1, <2>2, LenProperties
<1> HIDE DEF n, t
<1>3. d = [i \in 1 .. n |-> q[i].id] /\ \A i \in 1 .. n : q[i].id \in S
  BY <1>1 DEF Ids, Entries
<1>4. e = [i \in 1 .. n - 1 |-> q[i + 1].id]
  BY <1>2 DEF Ids
<1> HIDE DEF S, d, e
<1>5. d \in Seq(S) /\ Len(d) = n /\ d # << >> /\ d[1] = q[1].id
  <2>1. d \in Seq(S) /\ Len(d) = n
    BY <1>1, <1>3
  <2>2. d # << >>
    BY <1>1, <2>1
  <2>3. 1 \in 1 .. n
    BY <1>1
  <2> QED BY <1>3, <2>1, <2>2, <2>3
<1>6. Head(d) = d[1]
  BY <1>5
<1>7. Tail(d) \in Seq(S) /\ Len(Tail(d)) = n - 1 /\ \A i \in 1 .. n - 1 : Tail(d)[i] = d[i + 1]
  <2>1. d \in Seq(S) /\ d # << >>
    BY <1>5
  <2>2. Tail(d) \in Seq(S) /\ Len(Tail(d)) = Len(d) - 1 /\ \A i \in 1 .. Len(Tail(d)) : Tail(d)[i] = d[i + 1]
    BY <2>1, HeadTailProperties
  <2> QED BY <1>5, <2>2
<1>8. \A i \in 1 .. n - 1 : d[i + 1] = q[i + 1].id /\ q[i + 1].id \in S
  BY <1>1, <1>3
<1>9. Tail(d) = e
  <2>1. e \in Seq(S) /\ Len(e) = n - 1
    <3> DEFINE m == n - 1
    <3>1. m \in Nat
      BY <1>1
    <3>2. e = [i \in 1 .. m |-> q[i + 1].id] /\ \A i \in 1 .. m : q[i + 1].id \in S
      BY <1>4, <1>8
    <3> HIDE DEF m
    <3>3. e \in [1 .. m -> S]
      BY <3>2
    <3>4. e \in Seq(S) /\ Len(e) = m
      BY <3>1, <3>3
    <3> QED BY <3>4 DEF m
  <2>2. \A i \in 1 .. n - 1 : Tail(d)[i] = e[i]
    BY <1>4, <1>7, <1>8
  <2> DEFINE u == Tail(d)
  <2>3. u \in Seq(S) /\ Len(u) = Len(e) /\ \A i \in 1 .. Len(u) : u[i] = e[i]
    BY <1>7, <2>1, <2>2
  <2> HIDE DEF u
  <2>4. u = e
    BY <2>1, <2>3, SeqEqual
  <2> QED BY <2>4 DEF u
<1> QED BY <1>2, <1>5, <1>6, <1>9 DEF d, e, S, t

LEMMA ApplicationKeepsRight ==
    ASSUME ChannelInv, ApplicationReceive
    PROVE  ChannelInv'
<1>1. Sent /\ UNCHANGED <<sender, net>>
  BY DEF ChannelInv, ApplicationReceive
<1>2. PICK r : r = receiver /\ Good(r) /\ History(Taken(r), r, r.groups)
  BY DEF ChannelInv
<1> DEFINE q == r.dispatched
           h == Head(q)
           t == Tail(q)
           w == r.waiting - Parts(h.kind)
<1>3. r \in Receivers /\ q \in Seq(Entries) /\ q # << >> /\ delivered \in Seq(1 .. MaxPackets)
  BY <1>1, <1>2, ReceiverType DEF HeldInv, Receivers, ApplicationReceive, Sent
<1>4. delivered' = Append(delivered, h.id) /\ receiver' = [r EXCEPT !.dispatched = t, !.waiting = w]
  BY <1>2 DEF ApplicationReceive
<1>5. PICK v : v = receiver'
  OBVIOUS
<1>6. HeldInv' /\ SenderInv'
  BY <1>1, ApplicationReceiveHolds, SenderAfterwards DEF Sent
<1>7. v \in Receivers
  <2>1. TypeOK'
    BY <1>6 DEF HeldInv
  <2>2. receiver' \in Receivers
    BY <2>1 DEF TypeOK, Receivers
  <2> QED BY <1>5, <2>2
<1>8. /\ v.reliable = r.reliable /\ v.unreliable = r.unreliable /\ v.reliables = r.reliables
      /\ v.unreliables = r.unreliables /\ v.dispatched = t /\ v.groups = r.groups
  <2> HIDE DEF t, w
  <2> QED BY <1>3, <1>4, <1>5 DEF Receivers
<1>9. PICK A : A = Taken(r)
  OBVIOUS
<1>10. Taken(v)' = A
  <2> DEFINE S == 1 .. MaxPackets
             s == Ids(q)
  <2>1. s \in Seq(S) /\ s # << >> /\ Head(s) = h.id /\ Tail(s) = Ids(t)
    BY <1>3, IdsTail
  <2>2. delivered \in Seq(S)
    BY <1>3
  <2> HIDE DEF S, s, h, t
  <2>3. Append(delivered, Head(s)) \o Tail(s) = delivered \o s
    BY <2>1, <2>2, TakeFirst
  <2>4. Append(delivered, h.id) \o Ids(t) = A
    BY <1>9, <2>1, <2>3 DEF Taken, s
  <2>5. Ids(v.dispatched)' = Ids(t)
    BY <1>8 DEF Ids
  <2> QED BY <1>4, <2>4, <2>5 DEF Taken
<1>11. Placed(r) /\ ReliablesRight(r) /\ HeadWaits(r) /\ UnreliablesWait(r) /\ AllWhole(q)
  BY <1>2 DEF Good
<1>12. AllWhole(t)
  <2>1. t \in Seq(Entries) /\ Len(t) = Len(q) - 1 /\ \A i \in 1 .. Len(t) : t[i] = q[i + 1]
    BY <1>3, HeadTailProperties
  <2> DEFINE n == Len(q)
             m == Len(t)
  <2>2. n \in Nat
    BY <1>3, LenProperties
  <2>3. m = n - 1 /\ (\A i \in 1 .. m : t[i] = q[i + 1]) /\ \A i \in 1 .. n : Complete(q[i])
    BY <1>11, <2>1 DEF AllWhole
  <2> HIDE DEF n, m, t, q
  <2>4. \A i \in 1 .. m : Complete(t[i])
    BY <2>2, <2>3
  <2> QED BY <2>4 DEF AllWhole, m
<1> HIDE DEF t, q, h, w
<1>13. Placed(v) /\ ReliablesRight(v) /\ HeadWaits(v) /\ AllWhole(v.dispatched)
  BY <1>7, <1>8, <1>11, <1>12 DEF Placed, ReliablesRight, HeadWaits
<1>14. UnreliablesWait(v)
  BY <1>8, <1>11 DEF UnreliablesWait, Future, Ready
<1>15. \A e : Known(e) => Known(e)'
  BY <1>1 DEF Known
<1>16. Good(v)'
  <2>1. Placed(v)'
    BY <1>1, <1>13 DEF Placed, Off, Ahead
  <2>2. ReliablesRight(v)'
    BY <1>13, <1>15 DEF ReliablesRight
  <2>3. UnreliablesWait(v)'
    BY <1>14, <1>15 DEF UnreliablesWait
  <2>4. HeadWaits(v)' /\ AllWhole(v.dispatched)'
    BY <1>13 DEF HeadWaits, AllWhole
  <2> QED BY <2>1, <2>2, <2>3, <2>4 DEF Good
<1>17. PICK G : G = v.groups
  OBVIOUS
<1>18. History(A, v, G)
  BY <1>2, <1>8, <1>9, <1>17 DEF History, Past
<1>19. History(Taken(v), v, G)'
  BY <1>1, <1>10, <1>18 DEF History, Sequenced, Kind
<1>20. (\E x : x = receiver /\ Good(x) /\ History(Taken(x), x, x.groups))'
  BY <1>5, <1>16, <1>17, <1>19
<1> QED BY <1>6, <1>20 DEF ChannelInv, Sent

LEMMA StartsRight ==
    ASSUME Init
    PROVE  ChannelInv
<1>1. HeldInv
  BY HeldInit
<1>2. net = {} /\ sender.packets = << >> /\ sender.reliable = Start
  BY DEF Init
<1>3. Start \in Nat /\ Off(Start) = 0
  BY Sizes DEF Off, Ahead
<1>4. Len(sender.packets) = 0
  BY <1>2
<1>5. SenderInv
  <2>1. Off(sender.reliable) <= 2 * Len(sender.packets)
    BY <1>2, <1>3, <1>4
  <2>2. \A id \in 1 .. Len(sender.packets) : FALSE
    BY <1>4
  <2> QED BY <1>2, <2>1, <2>2 DEF SenderInv
<1>6. Sent
  BY <1>1, <1>5 DEF Sent
<1>7. PICK r : r = receiver
  OBVIOUS
<1>8. /\ r \in Receivers /\ r.reliable = Start /\ r.dispatched = << >> /\ r.reliables = << >> /\ r.unreliables = << >>
  BY <1>6, <1>7, SentTypes DEF Init
<1>9. Len(r.dispatched) = 0 /\ Len(r.reliables) = 0 /\ Len(r.unreliables) = 0
  BY <1>8
<1>10. \A x \in 1 .. 0 : FALSE
  OBVIOUS
<1>11. Good(r)
  <2>1. Placed(r)
    BY <1>2, <1>3, <1>8 DEF Placed
  <2>2. ReliablesRight(r) /\ HeadWaits(r) /\ UnreliablesWait(r) /\ AllWhole(r.dispatched)
    BY <1>9, <1>10 DEF ReliablesRight, HeadWaits, UnreliablesWait, AllWhole, Ascending
  <2> QED BY <2>1, <2>2 DEF Good
<1> DEFINE A == Taken(r)
<1>12. Len(A) = 0
  <2>1. Len(A) = Len(delivered) + Len(r.dispatched)
    BY <1>6, <1>8, TakenIs
  <2>2. Len(delivered) = 0
    BY DEF Init
  <2> QED BY <1>9, <2>1, <2>2
<1> HIDE DEF A
<1>13. History(A, r, r.groups)
  BY <1>2, <1>10, <1>12 DEF History
<1> QED BY <1>6, <1>7, <1>11, <1>13 DEF ChannelInv, A

LEMMA StaysRight ==
    ASSUME ChannelInv, Distinct, [Next]_vars
    PROVE  ChannelInv'
<1>1. ASSUME NEW kind \in Kinds, SendPacket(kind) PROVE ChannelInv'
  BY <1>1, SendKeepsRight
<1>2. ASSUME NEW c \in net, Receive(c) PROVE ChannelInv'
  BY <1>2, ReceiveKeepsRight
<1>3. CASE ApplicationReceive
  BY <1>3, ApplicationKeepsRight
<1>4. CASE DisconnectLater \/ UNCHANGED vars
  <2>1. UNCHANGED <<sender, net, delivered>> /\ Sent
    BY <1>4 DEF DisconnectLater, vars, ChannelInv
  <2>2. HeldInv' /\ SenderInv'
    BY <1>4, <2>1, HeldNext, SenderAfterwards DEF Sent, Next
  <2>3. PICK r : r = receiver /\ Good(r) /\ History(Taken(r), r, r.groups)
    BY DEF ChannelInv
  <2>4. PICK v : v = receiver'
    OBVIOUS
  <2>5. receiver' = receiver \/ receiver' = [receiver EXCEPT !.leaving = TRUE]
    BY <1>4 DEF DisconnectLater, vars
  <2>6. r \in Receivers
    BY <2>1, <2>3, SentTypes
  <2>7. /\ v \in Receivers /\ v.groups = r.groups /\ v.reliable = r.reliable /\ v.unreliable = r.unreliable
        /\ v.reliables = r.reliables /\ v.unreliables = r.unreliables /\ v.dispatched = r.dispatched
    BY <2>3, <2>4, <2>5, <2>6 DEF Receivers
  <2>8. Good(v)
    BY <2>3, <2>7, GoodAlike
  <2>9. PICK G : G = r.groups
    OBVIOUS
  <2>10. PICK H : H = v.groups
    OBVIOUS
  <2>11. G \subseteq H /\ History(Taken(r), r, G)
    BY <2>3, <2>7, <2>9, <2>10
  <2>12. History(Taken(v), v, H)
    BY <2>7, <2>11, HistoryAlike
  <2>13. Good(v)' /\ History(Taken(v), v, H)'
    BY <2>1, <2>8, <2>12, RightAfterwards
  <2>14. (\E w : w = receiver /\ Good(w) /\ History(Taken(w), w, w.groups))'
    BY <2>4, <2>10, <2>13
  <2> QED BY <2>2, <2>14 DEF ChannelInv, Sent
<1> QED BY <1>1, <1>2, <1>3, <1>4 DEF Next

LEMMA ChannelRight == ASSUME Distinct PROVE Spec => []ChannelInv
<1>1. Init => ChannelInv
  BY StartsRight
<1>2. ChannelInv /\ [Next]_vars => ChannelInv'
  BY StaysRight
<1> QED BY <1>1, <1>2, PTL DEF Spec

LEMMA TakenDomain ==
    ASSUME Sent, NEW r \in Receivers
    PROVE  DOMAIN Taken(r) = 1 .. Len(Taken(r))
<1> DEFINE q == r.dispatched
           n == Len(q)
           d == Ids(q)
           S == 1 .. MaxPackets
<1>1. q \in Seq(Entries)
  BY DEF Receivers
<1>2. delivered \in Seq(S)
  BY DEF Sent, HeldInv, TypeOK
<1>3. n \in Nat /\ DOMAIN q = 1 .. n /\ \A i \in 1 .. n : q[i] \in Entries
  BY <1>1, LenProperties, ElementOfSeq
<1> HIDE DEF q, n
<1>4. d = [i \in 1 .. n |-> q[i].id] /\ \A i \in 1 .. n : q[i].id \in S
  BY <1>3 DEF Ids, Entries
<1> HIDE DEF S
<1>5. d \in Seq(S)
  BY <1>3, <1>4
<1> HIDE DEF d
<1> DEFINE s == delivered \o d
<1>6. s \in Seq(S)
  <2>1. delivered \in Seq(S) /\ d \in Seq(S)
    BY <1>2, <1>5
  <2> QED BY <2>1, ConcatProperties
<1>7. s = Taken(r)
  BY DEF d, q, Taken
<1> HIDE DEF s
<1>8. DOMAIN s = 1 .. Len(s)
  BY <1>6, LenProperties
<1> QED BY <1>7, <1>8

(* While numbers are not used twice, nothing stays in the lists that could be handed over:
   each of the dispatch loops goes on until the next packet is not in line, not whole or not
   of the current number (peer.c:723-800, 812-826).  *)
THEOREM NothingReady == ASSUME Distinct PROVE Spec => []NothingReadyWaits
<1>1. ChannelInv => NothingReadyWaits
  <2> SUFFICES ASSUME ChannelInv PROVE NothingReadyWaits
    OBVIOUS
  <2>1. PICK r : r = receiver /\ Good(r)
    BY DEF ChannelInv
  <2> DEFINE q == r.reliables
             u == r.unreliables
  <2>2. HeadWaits(r) /\ UnreliablesWait(r) /\ q \in Seq(Entries) /\ u \in Seq(Entries)
    BY <2>1 DEF Good, Placed, Receivers
  <2>3. q # << >> => Len(q) > 0
    BY <2>2
  <2>4. q # << >> => ~ (Complete(q[1]) /\ q[1].reliable = (r.reliable + 1) % Modulus)
    BY <2>2, <2>3 DEF HeadWaits, NextInLine
  <2>5. \A i \in DOMAIN u : u[i].kind # "unsequenced" /\ ~ (Complete(u[i]) /\ u[i].reliable = r.reliable)
    <3>1. DOMAIN u = 1 .. Len(u)
      BY <2>2, LenProperties
    <3> QED BY <2>2, <3>1 DEF UnreliablesWait, Ready, Ordered
  <2> QED BY <2>1, <2>4, <2>5 DEF NothingReadyWaits
<1> QED BY <1>1, ChannelRight, PTL

(* While numbers are not used twice, the application gets what was sent: whole packets, once,
   in order and with nothing reliable missing before them, however commands are reordered,
   repeated or lost (peer.c:718-842, 862-985, protocol.c:630-646).  *)
THEOREM DeliveredFaithfully == ASSUME Distinct PROVE Spec => []FaithfulDelivery
<1>1. ChannelInv => FaithfulDelivery
  <2> SUFFICES ASSUME ChannelInv PROVE FaithfulDelivery
    OBVIOUS
  <2>1. Sent /\ TypeOK
    BY DEF ChannelInv, Sent, HeldInv
  <2>2. PICK r : r = receiver /\ Good(r) /\ History(Taken(r), r, r.groups)
    BY DEF ChannelInv
  <2>3. PICK A : A = Taken(r)
    OBVIOUS
  <2> DEFINE n == Len(A)
             m == Len(sender.packets)
  <2>4. Arrivals = A /\ r \in Receivers
    BY <2>2, <2>3 DEF Arrivals, Taken, Ids, Good, Placed
  <2>5. n \in Nat /\ DOMAIN A = 1 .. n /\ m \in Nat
    <3>1. n \in Nat
      BY <2>1, <2>3, <2>4, TakenIs
    <3>2. DOMAIN A = 1 .. n
      BY <2>1, <2>3, <2>4, TakenDomain
    <3> QED BY <2>1, <3>1, <3>2, SentTypes
  <2>6. /\ \A i \in 1 .. n : A[i] \in 1 .. m
        /\ \A i \in 1 .. n : \A c \in net : c.id = A[i] /\ Ordered(c) => Past(c, r)
        /\ \A i, j \in 1 .. n : A[i] = A[j] => i = j
        /\ \A i, j \in 1 .. n : i < j /\ Sequenced(A[i]) /\ Sequenced(A[j]) => A[i] < A[j]
        /\ \A c \in net : Reliable(c.kind) /\ End(c) <= Off(r.reliable) => \E i \in 1 .. n : A[i] = c.id
    BY <2>2, <2>3 DEF History
  <2> HIDE DEF n, m
  <2>7. InOrderOnce
    BY <2>4, <2>5, <2>6 DEF InOrderOnce, IsInjective
  <2>8. ASSUME NEW i \in 1 .. n, NEW id \in 1 .. A[i] - 1, Sequenced(A[i]), Reliable(Kind(id))
        PROVE  \E j \in 1 .. i : A[j] = id
    <3>1. A[i] \in 1 .. m /\ id \in 1 .. m /\ id < A[i]
      BY <2>5, <2>6
    <3>2. PICK c \in net : c.id = id
      BY <2>1, <3>1 DEF Sent, SenderInv, m
    <3>3. PICK d \in net : d.id = A[i]
      BY <2>1, <3>1 DEF Sent, SenderInv, m
    <3>4. Known(c) /\ Known(d) /\ SentRight(c) /\ SentRight(d)
      BY <2>1, NetKnown DEF Sent, SenderInv
    <3>5. c.kind = Kind(id) /\ d.kind = Kind(A[i])
      BY <3>2, <3>3, <3>4 DEF SentRight, Kind
    <3>6. Reliable(c.kind) /\ Ordered(c) /\ Ordered(d) /\ Sequenced(id)
      BY <2>8, <3>5 DEF Ordered, Sequenced, Reliable
    <3>7. Below(c, d) /\ Past(d, r)
      BY <2>1, <2>6, <3>1, <3>2, <3>3, <3>4, <3>6, KnownPairs
    <3>8. End(c) \in Nat /\ Off(d.reliable) \in Nat /\ End(d) \in Nat /\ End(d) >= Off(d.reliable)
      BY <2>1, <3>4, KnownIs
    <3>9. Off(r.reliable) \in Nat
      BY <2>4, RecordTypes
    <3>10. End(c) <= Off(d.reliable)
      BY <3>7, <3>8 DEF Below
    <3>11. End(d) <= Off(r.reliable)
      BY <3>7, <3>8, <3>9 DEF Past
    <3>12. End(c) <= Off(r.reliable)
      BY <3>8, <3>9, <3>10, <3>11
    <3>13. PICK j \in 1 .. n : A[j] = id
      BY <2>6, <3>2, <3>6, <3>12
    <3>14. ~ i < j
      <4>1. i < j => A[i] < A[j]
        BY <2>6, <2>8, <3>6, <3>13
      <4> QED BY <3>1, <3>13, <4>1
    <3>15. j \in 1 .. i
      BY <2>5, <3>14
    <3> QED BY <3>13, <3>15
  <2>9. NothingSkipped
    BY <2>4, <2>5, <2>8 DEF NothingSkipped
  <2>10. Whole
    <3> DEFINE q == r.dispatched
    <3>1. q \in Seq(Entries) /\ AllWhole(q)
      BY <2>2, <2>4 DEF Receivers, Good
    <3>2. DOMAIN q = 1 .. Len(q)
      BY <3>1, LenProperties
    <3> QED BY <2>2, <3>1, <3>2 DEF Whole, AllWhole, Complete
  <2> QED BY <2>1, <2>7, <2>9, <2>10 DEF FaithfulDelivery
<1> QED BY <1>1, ChannelRight, PTL
=============================================================================
