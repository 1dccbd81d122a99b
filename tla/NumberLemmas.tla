------------------------------ MODULE NumberLemmas ------------------------------
(***************************************************************************)
(* What the proofs need of numbers and sequences: division, for numbers    *)
(* that are counted modulo a size and the windows they fall into;          *)
(* induction, for what is folded over a sequence or repeated; sums over    *)
(* the members of a finite set or of a sequence; and what sequences        *)
(* contain.  The sets and functions here are values: each proof names the  *)
(* set that is its hypothesis.                                             *)
(***************************************************************************)
EXTENDS Integers, FiniteSetsExt, WellFoundedInduction, FiniteSetTheorems, SequenceTheorems, TLAPS

LEMMA DivMod ==
    ASSUME NEW d \in Nat \ {0}, NEW n \in Nat
    PROVE  n \div d \in Nat /\ n % d \in 0 .. d - 1 /\ n = d * (n \div d) + (n % d)
<1>1. n % d \in 0 .. d - 1
  OBVIOUS
<1>2. n = d * (n \div d) + (n % d)
  OBVIOUS
<1>3. n \div d \in Int
  OBVIOUS
<1>4. n \div d >= 0
  BY <1>1, <1>2, <1>3
<1> QED BY <1>1, <1>2, <1>3, <1>4

\* There is one quotient and one remainder.
LEMMA Quotient ==
    ASSUME NEW d \in Nat \ {0}, NEW q \in Int, NEW p \in Int,
           NEW r \in 0 .. d - 1, NEW s \in 0 .. d - 1,
           d * q + r = d * p + s
    PROVE  q = p /\ r = s
<1>1. \A x \in Nat : x >= 1 => d * x >= d
  OBVIOUS
<1>2. d * (q - p) = s - r /\ d * (p - q) = r - s
  OBVIOUS
<1>3. ~ (q > p)
  <2> SUFFICES ASSUME q > p PROVE FALSE
    OBVIOUS
  <2>1. q - p \in Nat /\ q - p >= 1
    OBVIOUS
  <2> QED BY <2>1, <1>1, <1>2
<1>4. ~ (p > q)
  <2> SUFFICES ASSUME p > q PROVE FALSE
    OBVIOUS
  <2>1. p - q \in Nat /\ p - q >= 1
    OBVIOUS
  <2> QED BY <2>1, <1>1, <1>2
<1> QED BY <1>2, <1>3, <1>4

LEMMA Divided ==
    ASSUME NEW d \in Nat \ {0}, NEW n \in Nat, NEW q \in Int, NEW r \in 0 .. d - 1,
           n = d * q + r
    PROVE  n \div d = q /\ n % d = r
  BY DivMod, Quotient

LEMMA DivMonotone ==
    ASSUME NEW d \in Nat \ {0}, NEW m \in Nat, NEW n \in Nat, m <= n
    PROVE  m \div d <= n \div d
<1> DEFINE p == m \div d
           q == n \div d
<1>1. /\ p \in Nat /\ m % d \in 0 .. d - 1 /\ m = d * p + (m % d)
      /\ q \in Nat /\ n % d \in 0 .. d - 1 /\ n = d * q + (n % d)
  BY DivMod
<1> SUFFICES ASSUME p > q PROVE FALSE
  BY <1>1
<1> HIDE DEF p, q
<1>2. p - q \in Nat /\ p - q >= 1
  BY <1>1
<1>3. d * (p - q) >= d
  BY <1>2
<1>4. d * (p - q) = m - n - (m % d) + (n % d)
  BY <1>1
<1> QED BY <1>1, <1>3, <1>4

\* Numbers less than x windows apart are in windows at most x apart.
LEMMA DivApart ==
    ASSUME NEW d \in Nat \ {0}, NEW m \in Nat, NEW n \in Nat, NEW x \in Nat, n - m < x * d
    PROVE  n \div d <= (m \div d) + x
<1>1. m + x * d \in Nat /\ n <= m + x * d
  OBVIOUS
<1>2. n \div d <= (m + x * d) \div d
  BY <1>1, DivMonotone
<1> DEFINE p == m \div d
           r == m % d
<1>3. p \in Nat /\ r \in 0 .. d - 1 /\ m = d * p + r
  BY DivMod
<1> HIDE DEF p, r
<1>4. p + x \in Int /\ m + x * d = d * (p + x) + r
  BY <1>3
<1>5. (m + x * d) \div d = p + x
  BY <1>1, <1>3, <1>4, Divided
<1> QED BY <1>2, <1>5 DEF p

\* Numbers in windows at most x apart are less than x + 1 windows apart.
LEMMA DivWithin ==
    ASSUME NEW d \in Nat \ {0}, NEW m \in Nat, NEW n \in Nat, NEW x \in Nat,
           n \div d <= (m \div d) + x
    PROVE  n - m < d * (x + 1)
<1> DEFINE p == m \div d
           q == n \div d
<1>1. /\ p \in Nat /\ m % d \in 0 .. d - 1 /\ m = d * p + (m % d)
      /\ q \in Nat /\ n % d \in 0 .. d - 1 /\ n = d * q + (n % d)
  BY DivMod
<1>2. p + x - q \in Nat
  BY <1>1
<1> HIDE DEF p, q
<1>3. d * (p + x - q) >= 0
  BY <1>2
<1>4. d * (p + x - q) = d * p + d * x - d * q /\ d * (x + 1) = d * x + d
  BY <1>1
<1>5. d * p \in Int /\ d * q \in Int /\ d * x \in Int
  BY <1>1
<1> QED BY <1>1, <1>3, <1>4, <1>5

\* The number after the last of a window is the first of the next.
LEMMA DivNext ==
    ASSUME NEW d \in Nat \ {0}, NEW n \in Nat
    PROVE  (n + 1) \div d = IF (n + 1) % d = 0 THEN (n \div d) + 1 ELSE n \div d
<1> DEFINE q == n \div d
           r == n % d
<1>1. q \in Nat /\ r \in 0 .. d - 1 /\ n = d * q + r
  BY DivMod
<1> HIDE DEF q, r
<1>2. CASE r = d - 1
  <2>1. n + 1 = d * (q + 1) + 0
    BY <1>1, <1>2
  <2>2. (n + 1) \div d = q + 1 /\ (n + 1) % d = 0
    BY <1>1, <2>1, 0 \in 0 .. d - 1, q + 1 \in Int, Divided
  <2> QED BY <2>2
<1>3. CASE r # d - 1
  <2>1. r + 1 \in 0 .. d - 1 /\ n + 1 = d * q + (r + 1)
    BY <1>1, <1>3
  <2>2. (n + 1) \div d = q /\ (n + 1) % d = r + 1
    BY <1>1, <2>1, Divided
  <2> QED BY <1>1, <2>2
<1> QED BY <1>2, <1>3 DEF q

\* Numbers less than d apart are told apart modulo d.
LEMMA ModApart ==
    ASSUME NEW d \in Nat \ {0}, NEW m \in Nat, NEW n \in Nat,
           m % d = n % d, n - m < d, m - n < d
    PROVE  m = n
<1> DEFINE p == m \div d
           q == n \div d
<1>1. /\ p \in Nat /\ m % d \in 0 .. d - 1 /\ m = d * p + (m % d)
      /\ q \in Nat /\ n % d \in 0 .. d - 1 /\ n = d * q + (n % d)
  BY DivMod
<1> HIDE DEF p, q
<1>2. m - n = d * (p - q) /\ n - m = d * (q - p)
  BY <1>1
<1>3. \A x \in Nat : x >= 1 => d * x >= d
  OBVIOUS
<1>4. ~ (p > q)
  <2> SUFFICES ASSUME p > q PROVE FALSE
    OBVIOUS
  <2>1. p - q \in Nat /\ p - q >= 1
    BY <1>1
  <2> QED BY <2>1, <1>2, <1>3
<1>5. ~ (q > p)
  <2> SUFFICES ASSUME q > p PROVE FALSE
    OBVIOUS
  <2>1. q - p \in Nat /\ q - p >= 1
    BY <1>1
  <2> QED BY <2>1, <1>2, <1>3
<1>6. p = q
  BY <1>1, <1>4, <1>5
<1> QED BY <1>1, <1>6

\* Whether the numbers modulo d have wrapped between two that are less than d apart.
LEMMA Wrapped ==
    ASSUME NEW d \in Nat \ {0}, NEW m \in Nat, NEW n \in Nat, m <= n, n - m < d
    PROVE  n \div d = IF n % d < m % d THEN (m \div d) + 1 ELSE m \div d
<1> DEFINE p == m \div d
           q == n \div d
<1>1. /\ p \in Nat /\ m % d \in 0 .. d - 1 /\ m = d * p + (m % d)
      /\ q \in Nat /\ n % d \in 0 .. d - 1 /\ n = d * q + (n % d)
  BY DivMod
<1> HIDE DEF p, q
<1>2. n - m = d * (q - p) + (n % d) - (m % d)
  BY <1>1
<1>3. q >= p
  <2> SUFFICES ASSUME q < p PROVE FALSE
    BY <1>1
  <2>1. p - q \in Nat /\ p - q >= 1
    BY <1>1
  <2>2. d * (p - q) >= d
    BY <2>1
  <2>3. d * (q - p) = 0 - d * (p - q)
    BY <1>1
  <2> QED BY <1>1, <1>2, <2>2, <2>3
<1>4. q <= p + 1
  <2> SUFFICES ASSUME q > p + 1 PROVE FALSE
    BY <1>1
  <2>1. q - p - 2 \in Nat
    BY <1>1
  <2>2. d * (q - p - 2) >= 0
    BY <2>1
  <2>3. d * (q - p) = d * (q - p - 2) + d + d
    BY <1>1
  <2> QED BY <1>1, <1>2, <2>2, <2>3
<1>5. CASE q = p
  <2>1. n - m = (n % d) - (m % d)
    BY <1>1, <1>2, <1>5
  <2>2. ~ (n % d < m % d)
    BY <1>1, <2>1
  <2> QED BY <1>5, <2>2
<1>6. CASE q = p + 1
  <2>1. n - m = d + (n % d) - (m % d)
    BY <1>1, <1>2, <1>6
  <2>2. n % d < m % d
    BY <1>1, <2>1
  <2> QED BY <1>6, <2>2
<1>7. q = p \/ q = p + 1
  BY <1>1, <1>3, <1>4
<1> QED BY <1>5, <1>6, <1>7 DEF p, q

\* j further on in a cycle of d, which may be once around.
LEMMA Around ==
    ASSUME NEW d \in Nat \ {0}, NEW a \in Nat, NEW j \in Nat, NEW b \in Nat, b + d = a + j
    PROVE  b % d = ((a % d) + j) % d
<1> DEFINE p == a \div d
           r == a % d
           q == (r + j) \div d
           c == (r + j) % d
<1>1. p \in Nat /\ r \in 0 .. d - 1 /\ a = d * p + r
  BY DivMod
<1> HIDE DEF p, r
<1>2. r + j \in Nat
  BY <1>1
<1>3. q \in Nat /\ c \in 0 .. d - 1 /\ r + j = d * q + c
  BY <1>2, DivMod
<1> HIDE DEF q, c
<1>4. d * (p + q - 1) = d * p + d * q - d /\ p + q - 1 \in Int
  BY <1>1, <1>3
<1>5. b = d * (p + q - 1) + c
  <2>1. d * p \in Int /\ d * q \in Int
    BY <1>1, <1>3
  <2> QED BY <2>1, <1>1, <1>3, <1>4
<1>6. b % d = c
  BY <1>3, <1>4, <1>5, Divided
<1> QED BY <1>6 DEF c, r

LEMMA ModPlus ==
    ASSUME NEW d \in Nat \ {0}, NEW a \in Nat, NEW i \in Nat
    PROVE  ((a % d) + i) % d = (a + i) % d
<1> DEFINE p == a \div d
           r == a % d
           u == r + i
           q == u \div d
           c == u % d
<1>1. p \in Nat /\ r \in 0 .. d - 1 /\ a = d * p + r
  BY DivMod
<1> HIDE DEF p, r
<1>2. u \in Nat
  BY <1>1
<1>3. u = r + i
  OBVIOUS
<1> HIDE DEF u
<1>4. q \in Nat /\ c \in 0 .. d - 1 /\ u = d * q + c
  BY <1>2, DivMod
<1> HIDE DEF q, c
<1>5. d * (p + q) = d * p + d * q /\ p + q \in Int /\ a + i \in Nat
  BY <1>1, <1>4
<1>6. a + i = d * (p + q) + c
  <2>1. d * p \in Int /\ d * q \in Int
    BY <1>1, <1>4
  <2> QED BY <2>1, <1>1, <1>3, <1>4, <1>5
<1>7. (a + i) % d = c
  BY <1>4, <1>5, <1>6, Divided
<1> QED BY <1>7 DEF c, u, r

LEMMA OneBack ==
    ASSUME NEW d \in Nat \ {0}, NEW a \in Nat
    PROVE  a % d = (((a + 1) % d) + d - 1) % d
<1> DEFINE p == (a + 1) \div d
           r == (a + 1) % d
<1>1. p \in Nat /\ r \in 0 .. d - 1 /\ a + 1 = d * p + r
  <2> a + 1 \in Nat
    OBVIOUS
  <2> QED BY DivMod
<1> HIDE DEF p, r
<1>2. d - 1 \in 0 .. d - 1 /\ r + d - 1 \in Nat
  BY <1>1
<1>3. ASSUME r = 0 PROVE a % d = (r + d - 1) % d
  <2>1. d * (p - 1) = d * p - d /\ p - 1 \in Int
    BY <1>1
  <2>2. a = d * (p - 1) + (d - 1)
    BY <1>1, <1>3, <2>1
  <2>3. a % d = d - 1
    BY <2>1, <2>2, <1>2, Divided
  <2>4. r + d - 1 = d * 0 + (d - 1)
    BY <1>3
  <2>5. (r + d - 1) % d = d - 1
    BY <2>4, <1>2, Divided
  <2> QED BY <2>3, <2>5
<1>4. ASSUME r # 0 PROVE a % d = (r + d - 1) % d
  <2> DEFINE u == r - 1
             v == r + d - 1
  <2>1. u \in 0 .. d - 1
    BY <1>1, <1>4
  <2>2. a = d * p + u /\ p \in Int
    BY <1>1
  <2>3. v = d * 1 + u /\ v \in Nat /\ 1 \in Int
    BY <1>1
  <2> HIDE DEF u, v
  <2>4. a % d = u
    BY <2>1, <2>2, Divided
  <2>5. v % d = u
    BY <2>1, <2>3, Divided
  <2> QED BY <2>4, <2>5 DEF v
<1> QED BY <1>3, <1>4 DEF r

\* Windows of size d, k of which make a cycle: the place of n in its window and the place
\* of the window in its cycle say where n is in the cycle.
LEMMA Cycle ==
    ASSUME NEW d \in Nat \ {0}, NEW k \in Nat \ {0},
           NEW a \in Nat, NEW b \in 0 .. k - 1, NEW r \in 0 .. d - 1,
           NEW n \in Nat, n = d * (k * a + b) + r,
           NEW m \in Nat \ {0}, m = d * k
    PROVE  n \div m = a /\ n % m = d * b + r /\ (n % m) \div d = b /\ (n % m) % d = r
<1>1. d * b + r \in 0 .. m - 1
  <2>1. k - 1 - b \in Nat
    OBVIOUS
  <2>2. d * (k - 1 - b) >= 0 /\ d * b >= 0
    BY <2>1
  <2>3. d * (k - 1 - b) = m - d - d * b
    OBVIOUS
  <2> QED BY <2>2, <2>3
<1>2. n = m * a + (d * b + r)
  OBVIOUS
<1>3. n \div m = a /\ n % m = d * b + r
  BY <1>1, <1>2, Divided
<1>4. (d * b + r) \div d = b /\ (d * b + r) % d = r
  BY <1>1, Divided
<1> QED BY <1>3, <1>4

-----------------------------------------------------------------------------
(* Induction.                                                              *)

\* A set of numbers has a least one.
LEMMA Least ==
    ASSUME NEW S \in SUBSET Nat, S # {}
    PROVE  \E m \in S : \A k \in S : m <= k
<1> DEFINE R == {ss \in Nat \X Nat : ss[1] < ss[2]}
<1>1. IsWellFoundedOn(R, Nat)
  BY NatLessThanWellFounded DEF OpToRel
<1>2. \A k, m \in Nat : k < m => <<k, m>> \in R
  OBVIOUS
<1> HIDE DEF R
<1>3. \E m \in S : \A k \in S : ~ (<<k, m>> \in R)
  BY <1>1, WFMin
<1>4. PICK m \in S : \A k \in S : ~ (<<k, m>> \in R)
  BY <1>3
<1>5. \A k \in S : ~ (k < m)
  BY <1>2, <1>4
<1>6. m \in Nat /\ \A k \in S : k \in Nat
  BY <1>4
<1> QED BY <1>4, <1>5, <1>6

\* A set with 0 that has the successor of each of its numbers has all numbers.
LEMMA Induction ==
    ASSUME NEW S, 0 \in S, \A n \in Nat : n \in S => n + 1 \in S
    PROVE  Nat \subseteq S
<1> SUFFICES ASSUME Nat \ S # {} PROVE FALSE
  OBVIOUS
<1>1. PICK m \in Nat \ S : \A k \in Nat \ S : m <= k
  BY Least
<1>2. m # 0 /\ m - 1 \in Nat /\ m - 1 \in S
  BY <1>1
<1> QED BY <1>1, <1>2


\* FoldLeft takes the last position off until none is left.
Tops(top, n) == \A s \in (SUBSET (1 .. n)) \ {{}} : top[s] \in s /\ \A k \in s : k <= top[s]
Folded(g, b, F, top, n) ==
    \A s \in SUBSET (1 .. n) : g[s] = IF s = {} THEN b ELSE F[<<g[s \ {top[s]}], top[s]>>]

\* It is defined on every set of positions.
LEMMA FoldsExist ==
    ASSUME NEW n \in Nat, NEW T, NEW b \in T, NEW F \in [T \X (1 .. n) -> T],
           NEW top, Tops(top, n)
    PROVE  \E g \in [SUBSET (1 .. n) -> T] : Folded(g, b, F, top, n)
<1> DEFINE Folds(g, m) == \A s \in SUBSET (1 .. m) :
                            g[s] = IF s = {} THEN b ELSE F[<<g[s \ {top[s]}], top[s]>>]
           Defined(m) == \E g \in [SUBSET (1 .. m) -> T] : Folds(g, m)
<1>1. Defined(0)
  <2> DEFINE g == [s \in SUBSET (1 .. 0) |-> b]
  <2>1. g \in [SUBSET (1 .. 0) -> T]
    OBVIOUS
  <2>2. \A s \in SUBSET (1 .. 0) : s = {}
    OBVIOUS
  <2>3. Folds(g, 0)
    BY <2>2
  <2> QED BY <2>1, <2>3
<1>2. ASSUME NEW m \in Nat, m + 1 <= n, Defined(m) PROVE Defined(m + 1)
  <2>1. PICK f \in [SUBSET (1 .. m) -> T] : Folds(f, m)
    BY <1>2
  <2> DEFINE g == [s \in SUBSET (1 .. m + 1) |->
                     IF m + 1 \in s THEN F[<<f[s \ {m + 1}], m + 1>>] ELSE f[s]]
  <2>2. m + 1 \in 1 .. n
    BY <1>2
  <2>3. \A s \in SUBSET (1 .. m + 1) : s \ {m + 1} \in SUBSET (1 .. m)
    OBVIOUS
  <2>4. \A s \in SUBSET (1 .. m + 1) : m + 1 \notin s => s \in SUBSET (1 .. m)
    OBVIOUS
  <2>5. \A s \in SUBSET (1 .. m + 1) : s \in SUBSET (1 .. n)
    BY <1>2
  <2>6. \A t \in T : F[<<t, m + 1>>] \in T
    BY <2>2
  <2>7. ASSUME NEW s \in SUBSET (1 .. m + 1) PROVE g[s] \in T
    BY <2>3, <2>4, <2>6, <2>7
  <2>8. g \in [SUBSET (1 .. m + 1) -> T]
    BY <2>7
  <2>9. ASSUME NEW s \in SUBSET (1 .. m + 1)
        PROVE  g[s] = IF s = {} THEN b ELSE F[<<g[s \ {top[s]}], top[s]>>]
    <3>1. ASSUME m + 1 \in s PROVE top[s] = m + 1
      <4>1. top[s] \in s /\ \A k \in s : k <= top[s]
        BY <2>5, <3>1 DEF Tops
      <4>2. top[s] \in 1 .. m + 1 /\ m + 1 <= top[s]
        BY <4>1, <3>1
      <4> QED BY <4>2
    <3>2. \A u \in SUBSET (1 .. m) : g[u] = f[u]
      <4> SUFFICES ASSUME NEW u \in SUBSET (1 .. m) PROVE g[u] = f[u]
        OBVIOUS
      <4>1. u \in SUBSET (1 .. m + 1) /\ m + 1 \notin u
        OBVIOUS
      <4> QED BY <4>1
    <3>3. CASE m + 1 \in s
      <4>1. g[s] = F[<<f[s \ {m + 1}], m + 1>>]
        BY <3>3
      <4>2. g[s \ {m + 1}] = f[s \ {m + 1}]
        BY <3>2, <2>3
      <4> QED BY <4>1, <4>2, <3>1, <3>3
    <3>4. CASE m + 1 \notin s
      <4>1. s \in SUBSET (1 .. m) /\ s \ {top[s]} \in SUBSET (1 .. m)
        BY <2>4, <3>4
      <4>2. g[s] = f[s] /\ g[s \ {top[s]}] = f[s \ {top[s]}]
        BY <4>1, <3>2
      <4>3. f[s] = IF s = {} THEN b ELSE F[<<f[s \ {top[s]}], top[s]>>]
        BY <4>1, <2>1
      <4> QED BY <4>2, <4>3
    <3> QED BY <3>3, <3>4
  <2>10. Folds(g, m + 1)
    BY <2>9
  <2> QED BY <2>8, <2>10
<1>3. Defined(n)
  <2> HIDE DEF Defined
  <2> DEFINE Good == {m \in Nat : m <= n => Defined(m)}
  <2>1. 0 \in Good
    BY <1>1
  <2>2. ASSUME NEW m \in Nat, m \in Good PROVE m + 1 \in Good
    BY <1>2, <2>2
  <2>3. n \in Good
    <3> HIDE DEF Good
    <3> QED BY <2>1, <2>2, Induction
  <2> QED BY <2>3
<1> QED BY <1>3 DEF Folded

-----------------------------------------------------------------------------
(* Sums.  A fold over a set takes one of its members at a time, whichever   *)
(* CHOOSE gives.                                                           *)

LEMMA EmptyIsNone == Cardinality({}) = 0
  BY FS_EmptySet

LEMMA OneLess ==
    ASSUME NEW T, IsFiniteSet(T), NEW n \in Nat, Cardinality(T) = n + 1, NEW x \in T
    PROVE  Cardinality(T \ {x}) = n
<1>1. Cardinality(T \ {x}) = Cardinality(T) - 1
  BY FS_RemoveElement
<1> QED BY <1>1

\* What holds of no member, and of one more, holds of all.
LEMMA SubsetInduction ==
    ASSUME NEW C, IsFiniteSet(C), NEW D, {} \in D,
           \A T \in SUBSET C : \A x \in C \ T : T \in D => T \cup {x} \in D
    PROVE  SUBSET C \subseteq D
<1> DEFINE N == {n \in Nat : \A T \in SUBSET C : Cardinality(T) = n => T \in D}
<1>1. \A T \in SUBSET C : IsFiniteSet(T) /\ Cardinality(T) \in Nat
  BY FS_Subset, FS_CardinalityType
<1>2. 0 \in N
  BY <1>1, FS_EmptySet
<1>3. ASSUME NEW n \in Nat, n \in N PROVE n + 1 \in N
  <2> SUFFICES ASSUME NEW T \in SUBSET C, Cardinality(T) = n + 1 PROVE T \in D
    OBVIOUS
  <2>1. T # {} /\ IsFiniteSet(T)
    <3>1. Cardinality(T) # 0
      OBVIOUS
    <3> QED BY <1>1, <3>1, EmptyIsNone
  <2>2. PICK x \in T : TRUE
    BY <2>1
  <2>3. Cardinality(T \ {x}) = n
    BY <2>1, <2>2, OneLess
  <2>4. T \ {x} \in D
    BY <1>3, <2>3
  <2>5. T = (T \ {x}) \cup {x} /\ x \in C \ (T \ {x})
    BY <2>2
  <2> QED BY <2>4, <2>5
<1>4. Nat \subseteq N
  <2> HIDE DEF N
  <2> QED BY <1>2, <1>3, Induction
<1> QED BY <1>1, <1>4

OneOf(s) == CHOOSE x \in s : TRUE
Sums(g, f, S) ==
    \A s \in SUBSET S : g[s] = IF s = {} THEN 0 ELSE f[OneOf(s)] + g[s \ {OneOf(s)}]

\* The sum of f over the finite set S.
SumOver(f, S) == (CHOOSE g \in [SUBSET S -> Int] : Sums(g, f, S))[S]

LEMMA OneOfMany ==
    ASSUME NEW s, s # {}
    PROVE  OneOf(s) \in s
BY DEF OneOf

\* Partial sums are defined, set by set of growing size.
LEMMA SumsExist ==
    ASSUME NEW S, IsFiniteSet(S), NEW f \in [S -> Int]
    PROVE  \E g \in [SUBSET S -> Int] : Sums(g, f, S)
<1> DEFINE Few(n) == {s \in SUBSET S : Cardinality(s) <= n}
           Part(g, n) == \A s \in Few(n) :
                            g[s] = IF s = {} THEN 0 ELSE f[OneOf(s)] + g[s \ {OneOf(s)}]
           Defined(n) == \E g \in [SUBSET S -> Int] : Part(g, n)
<1>1. \A s \in SUBSET S : IsFiniteSet(s) /\ Cardinality(s) \in Nat
  BY FS_Subset, FS_CardinalityType
<1>2. \A s \in SUBSET S : s # {} =>
        OneOf(s) \in s /\ Cardinality(s \ {OneOf(s)}) = Cardinality(s) - 1
  BY <1>1, OneOfMany, FS_RemoveElement
<1>3. Defined(0)
  <2> DEFINE g == [s \in SUBSET S |-> 0]
  <2>1. g \in [SUBSET S -> Int]
    OBVIOUS
  <2>2. \A s \in Few(0) : s = {}
    BY <1>1, FS_EmptySet
  <2>3. Part(g, 0)
    BY <2>2
  <2> QED BY <2>1, <2>3
<1>4. ASSUME NEW n \in Nat, Defined(n) PROVE Defined(n + 1)
  <2>1. PICK g \in [SUBSET S -> Int] : Part(g, n)
    BY <1>4
  <2> DEFINE h == [s \in SUBSET S |-> IF s \in Few(n) THEN g[s]
                                      ELSE f[OneOf(s)] + g[s \ {OneOf(s)}]]
  <2>2. {} \in Few(n)
    BY FS_EmptySet
  <2>3. ASSUME NEW s \in SUBSET S PROVE h[s] \in Int
    <3>1. CASE s \in Few(n)
      BY <3>1
    <3>2. CASE s \notin Few(n)
      <4>1. s # {}
        BY <3>2, <2>2
      <4>2. OneOf(s) \in S /\ s \ {OneOf(s)} \in SUBSET S
        BY <4>1, <1>2
      <4>3. f[OneOf(s)] \in Int /\ g[s \ {OneOf(s)}] \in Int
        BY <4>2
      <4>4. h[s] = f[OneOf(s)] + g[s \ {OneOf(s)}]
        BY <3>2
      <4> HIDE DEF h
      <4> QED BY <4>3, <4>4
    <3> QED BY <3>1, <3>2
  <2>4. h \in [SUBSET S -> Int]
    BY <2>3
  <2>5. ASSUME NEW s \in Few(n + 1)
        PROVE  h[s] = IF s = {} THEN 0 ELSE f[OneOf(s)] + h[s \ {OneOf(s)}]
    <3>1. s \in SUBSET S /\ Cardinality(s) \in Nat /\ Cardinality(s) <= n + 1
      BY <1>1
    <3>2. CASE s = {}
      <4>1. h[s] = g[s] /\ g[s] = 0
        BY <2>1, <2>2, <3>2
      <4> QED BY <3>2, <4>1
    <3>3. CASE s # {}
      <4>1. s \ {OneOf(s)} \in SUBSET S /\ Cardinality(s \ {OneOf(s)}) = Cardinality(s) - 1
        BY <1>2, <3>1, <3>3
      <4>2. s \ {OneOf(s)} \in Few(n)
        BY <3>1, <4>1
      <4>3. h[s \ {OneOf(s)}] = g[s \ {OneOf(s)}]
        BY <4>2
      <4>4. h[s] = f[OneOf(s)] + g[s \ {OneOf(s)}]
        <5>1. CASE s \in Few(n)
          <6>1. g[s] = f[OneOf(s)] + g[s \ {OneOf(s)}]
            BY <2>1, <3>3, <5>1
          <6>2. h[s] = g[s]
            BY <5>1
          <6> QED BY <6>1, <6>2
        <5>2. CASE s \notin Few(n)
          BY <5>2
        <5> QED BY <5>1, <5>2
      <4> QED BY <3>3, <4>3, <4>4
    <3> QED BY <3>2, <3>3
  <2>6. Part(h, n + 1)
    BY <2>5
  <2> QED BY <2>4, <2>6
<1>5. Defined(Cardinality(S))
  <2> HIDE DEF Defined
  <2> DEFINE N == {n \in Nat : Defined(n)}
  <2>1. 0 \in N /\ \A n \in Nat : n \in N => n + 1 \in N
    BY <1>3, <1>4
  <2>2. Cardinality(S) \in N
    <3> HIDE DEF N
    <3> QED BY <1>1, <2>1, Induction
  <2> QED BY <2>2
<1>6. \A s \in SUBSET S : s \in Few(Cardinality(S))
  BY FS_Subset
<1> QED BY <1>5, <1>6 DEF Sums

\* There are no others.
LEMMA SumsUnique ==
    ASSUME NEW S, IsFiniteSet(S), NEW f, NEW T \in SUBSET S,
           NEW g, Sums(g, f, S), NEW h, Sums(h, f, T)
    PROVE  h[T] = g[T]
<1> DEFINE N == {n \in Nat : \A s \in SUBSET T : Cardinality(s) = n => h[s] = g[s]}
<1>1. \A s \in SUBSET T : IsFiniteSet(s) /\ Cardinality(s) \in Nat /\ s \in SUBSET S
  BY FS_Subset, FS_CardinalityType
<1>2. 0 \in N
  <2> SUFFICES ASSUME NEW s \in SUBSET T, Cardinality(s) = 0 PROVE h[s] = g[s]
    OBVIOUS
  <2>1. s = {} /\ s \in SUBSET S
    BY <1>1, FS_EmptySet
  <2> QED BY <2>1 DEF Sums
<1>3. ASSUME NEW n \in Nat, n \in N PROVE n + 1 \in N
  <2> SUFFICES ASSUME NEW s \in SUBSET T, Cardinality(s) = n + 1 PROVE h[s] = g[s]
    OBVIOUS
  <2>1. s # {} /\ s \in SUBSET S
    BY <1>1, EmptyIsNone
  <2>2. OneOf(s) \in s
    BY <2>1, OneOfMany
  <2>3. Cardinality(s \ {OneOf(s)}) = n /\ s \ {OneOf(s)} \in SUBSET T
    BY <1>1, <2>2, OneLess
  <2>4. h[s \ {OneOf(s)}] = g[s \ {OneOf(s)}]
    BY <1>3, <2>3
  <2>5. h[s] = f[OneOf(s)] + h[s \ {OneOf(s)}] /\ g[s] = f[OneOf(s)] + g[s \ {OneOf(s)}]
    BY <2>1 DEF Sums
  <2> QED BY <2>4, <2>5
<1>4. Cardinality(T) \in N
  <2> HIDE DEF N
  <2> QED BY <1>1, <1>2, <1>3, Induction
<1> QED BY <1>4

LEMMA SumIsSum ==
    ASSUME NEW S, IsFiniteSet(S), NEW f \in [S -> Int], NEW g, Sums(g, f, S)
    PROVE  SumOver(f, S) = g[S]
<1>1. PICK h \in [SUBSET S -> Int] : Sums(h, f, S)
  BY SumsExist
<1> DEFINE k == CHOOSE l \in [SUBSET S -> Int] : Sums(l, f, S)
<1>2. k \in [SUBSET S -> Int] /\ Sums(k, f, S)
  BY <1>1
<1>3. SumOver(f, S) = k[S]
  BY DEF SumOver
<1> HIDE DEF k
<1>4. S \in SUBSET S
  OBVIOUS
<1>5. k[S] = g[S]
  BY <1>2, <1>4, SumsUnique
<1> QED BY <1>3, <1>5

\* One function has the sums over all subsets of C.
AreSums(g, f, C) ==
    /\ g \in [SUBSET C -> Int] /\ Sums(g, f, C)
    /\ \A T \in SUBSET C : SumOver(f, T) = g[T]

LEMMA AllSums ==
    ASSUME NEW C, IsFiniteSet(C), NEW f \in [C -> Int]
    PROVE  \E g : AreSums(g, f, C)
<1>1. PICK g \in [SUBSET C -> Int] : Sums(g, f, C)
  BY SumsExist
<1>2. ASSUME NEW T \in SUBSET C PROVE SumOver(f, T) = g[T]
  <2> DEFINE r == [s \in SUBSET T |-> g[s]]
             k == CHOOSE h \in [SUBSET T -> Int] : Sums(h, f, T)
  <2>1. r \in [SUBSET T -> Int]
    OBVIOUS
  <2>2. Sums(r, f, T)
    <3> SUFFICES ASSUME NEW s \in SUBSET T
                 PROVE  r[s] = IF s = {} THEN 0 ELSE f[OneOf(s)] + r[s \ {OneOf(s)}]
      BY DEF Sums
    <3>1. s \in SUBSET C /\ s \ {OneOf(s)} \in SUBSET T
      OBVIOUS
    <3>2. r[s] = g[s] /\ r[s \ {OneOf(s)}] = g[s \ {OneOf(s)}]
      BY <3>1
    <3> HIDE DEF r
    <3> QED BY <1>1, <3>1, <3>2 DEF Sums
  <2>3. k \in [SUBSET T -> Int] /\ Sums(k, f, T)
    <3> HIDE DEF r
    <3> QED BY <2>1, <2>2
  <2>4. SumOver(f, T) = k[T]
    BY DEF SumOver
  <2> HIDE DEF k
  <2>5. k[T] = g[T]
    BY <1>1, <2>3, SumsUnique
  <2> QED BY <2>4, <2>5
<1>3. AreSums(g, f, C)
  BY <1>1, <1>2 DEF AreSums
<1> QED BY <1>3

LEMMA SumType ==
    ASSUME NEW C, IsFiniteSet(C), NEW f \in [C -> Int], NEW T \in SUBSET C
    PROVE  SumOver(f, T) \in Int
<1>1. PICK g : AreSums(g, f, C)
  BY AllSums
<1> QED BY <1>1 DEF AreSums

LEMMA SumOfNone ==
    ASSUME NEW C, IsFiniteSet(C), NEW f \in [C -> Int]
    PROVE  SumOver(f, {}) = 0
<1>1. PICK g : AreSums(g, f, C)
  BY AllSums
<1>2. {} \in SUBSET C
  OBVIOUS
<1>3. g[{}] = 0
  BY <1>1, <1>2 DEF AreSums, Sums
<1> QED BY <1>1, <1>2, <1>3 DEF AreSums

\* Any member may be the last.
LEMMA SumWith ==
    ASSUME NEW C, IsFiniteSet(C), NEW f \in [C -> Int], NEW T \in SUBSET C, NEW x \in C \ T
    PROVE  SumOver(f, T \cup {x}) = SumOver(f, T) + f[x]
<1>1. PICK g : AreSums(g, f, C)
  BY AllSums
<1> DEFINE Moves(U) == \A y \in C \ U : g[U \cup {y}] = g[U] + f[y]
           N == {n \in Nat : \A U \in SUBSET C : Cardinality(U) = n => Moves(U)}
<1>2. \A U \in SUBSET C : IsFiniteSet(U) /\ Cardinality(U) \in Nat
  BY FS_Subset, FS_CardinalityType
<1>3. \A U \in SUBSET C : U # {} => OneOf(U) \in U /\ g[U] = f[OneOf(U)] + g[U \ {OneOf(U)}]
  <2> SUFFICES ASSUME NEW U \in SUBSET C, U # {}
               PROVE  OneOf(U) \in U /\ g[U] = f[OneOf(U)] + g[U \ {OneOf(U)}]
    OBVIOUS
  <2>1. OneOf(U) \in U
    BY OneOfMany
  <2> QED BY <2>1, <1>1 DEF AreSums, Sums
<1>4. \A U \in SUBSET C : g[U] \in Int
  BY <1>1 DEF AreSums
<1>5. 0 \in N
  <2> SUFFICES ASSUME NEW U \in SUBSET C, Cardinality(U) = 0, NEW y \in C \ U
               PROVE  g[U \cup {y}] = g[U] + f[y]
    OBVIOUS
  <2>1. U = {}
    BY <1>2, FS_EmptySet
  <2>2. g[U] = 0
    BY <1>1, <2>1 DEF AreSums, Sums
  <2>3. U \cup {y} = {y} /\ {y} \in SUBSET C /\ {y} # {}
    BY <2>1
  <2>4. OneOf({y}) = y /\ {y} \ {y} = U
    BY <1>3, <2>1, <2>3
  <2>5. g[{y}] = f[y] + g[U]
    BY <1>3, <2>3, <2>4
  <2>6. f[y] \in Int
    OBVIOUS
  <2>7. g[{y}] = g[U] + f[y]
    BY <2>2, <2>5, <2>6
  <2> QED BY <2>3, <2>7
<1>6. ASSUME NEW n \in Nat, n \in N PROVE n + 1 \in N
  <2> SUFFICES ASSUME NEW U \in SUBSET C, Cardinality(U) = n + 1, NEW y \in C \ U
               PROVE  g[U \cup {y}] = g[U] + f[y]
    OBVIOUS
  <2> DEFINE V == U \cup {y}
             z == OneOf(V)
  <2>1. V \in SUBSET C /\ V # {}
    OBVIOUS
  <2>2. z \in V /\ g[V] = f[z] + g[V \ {z}]
    BY <1>3, <2>1
  <2>3. CASE z = y
    <3>1. V \ {z} = U
      BY <2>3
    <3>2. f[y] \in Int /\ g[U] \in Int
      BY <1>4
    <3> HIDE DEF V, z
    <3>3. g[V] = f[y] + g[U]
      BY <2>2, <2>3, <3>1
    <3>4. g[V] = g[U] + f[y]
      BY <3>2, <3>3
    <3> QED BY <3>4 DEF V
  <2>4. CASE z # y
    <3>1. z \in U
      BY <2>2, <2>4
    <3> DEFINE W == U \ {z}
    <3> HIDE DEF z
    <3>2. Cardinality(W) = n /\ W \in SUBSET C
      BY <1>2, <3>1, OneLess
    <3>3. Moves(W)
      BY <1>6, <3>2
    <3>4. U = W \cup {z} /\ z \in C \ W /\ V \ {z} = W \cup {y} /\ y \in C \ W
      BY <3>1, <2>4
    <3>5. g[U] = g[W] + f[z] /\ g[V \ {z}] = g[W] + f[y]
      BY <3>3, <3>4
    <3>6. g[W] \in Int /\ f[z] \in Int /\ f[y] \in Int
      BY <1>4, <3>2, <3>4
    <3>7. g[V] = f[z] + g[V \ {z}]
      BY <2>2
    <3> HIDE DEF V, W
    <3>8. g[V] = g[U] + f[y]
      BY <3>5, <3>6, <3>7
    <3> QED BY <3>8 DEF V
  <2> QED BY <2>3, <2>4
<1>7. Cardinality(T) \in N
  <2> HIDE DEF N
  <2> QED BY <1>2, <1>5, <1>6, Induction
<1>8. Moves(T)
  BY <1>7
<1>9. T \cup {x} \in SUBSET C
  OBVIOUS
<1> QED BY <1>1, <1>8, <1>9 DEF AreSums

LEMMA SumUnion ==
    ASSUME NEW C, IsFiniteSet(C), NEW f \in [C -> Int],
           NEW S \in SUBSET C, NEW T \in SUBSET C, S \cap T = {}
    PROVE  SumOver(f, S \cup T) = SumOver(f, S) + SumOver(f, T)
<1> DEFINE D == {U \in SUBSET C :
                    S \cap U = {} => SumOver(f, S \cup U) = SumOver(f, S) + SumOver(f, U)}
<1>1. \A U \in SUBSET C : SumOver(f, U) \in Int
  BY SumType
<1>2. {} \in D
  <2>1. SumOver(f, {}) = 0 /\ S \cup {} = S
    BY SumOfNone
  <2>2. SumOver(f, S) = SumOver(f, S) + 0
    BY <1>1
  <2> QED BY <2>1, <2>2
<1>3. ASSUME NEW U \in SUBSET C, NEW x \in C \ U, U \in D PROVE U \cup {x} \in D
  <2> SUFFICES ASSUME S \cap (U \cup {x}) = {}
               PROVE  SumOver(f, S \cup (U \cup {x})) = SumOver(f, S) + SumOver(f, U \cup {x})
    OBVIOUS
  <2>1. SumOver(f, S \cup U) = SumOver(f, S) + SumOver(f, U)
    BY <1>3
  <2>2. SumOver(f, (S \cup U) \cup {x}) = SumOver(f, S \cup U) + f[x]
    <3>1. S \cup U \in SUBSET C /\ x \in C \ (S \cup U)
      OBVIOUS
    <3> QED BY <3>1, SumWith
  <2>3. SumOver(f, U \cup {x}) = SumOver(f, U) + f[x]
    BY SumWith
  <2>4. S \cup (U \cup {x}) = (S \cup U) \cup {x}
    OBVIOUS
  <2>5. SumOver(f, S) \in Int /\ SumOver(f, U) \in Int /\ f[x] \in Int
    BY <1>1
  <2>6. SumOver(f, (S \cup U) \cup {x}) = SumOver(f, S) + SumOver(f, U \cup {x})
    BY <2>1, <2>2, <2>3, <2>5
  <2> QED BY <2>4, <2>6
<1>4. SUBSET C \subseteq D
  <2> HIDE DEF D
  <2> QED BY <1>2, <1>3, SubsetInduction
<1> QED BY <1>4

\* Bounds of the terms are bounds of the sums.
Bounded(k, f, m, g, T) == \A x \in T : k * f[x] <= m * g[x]

LEMMA SumBound ==
    ASSUME NEW C, IsFiniteSet(C), NEW f \in [C -> Int], NEW g \in [C -> Int],
           NEW k \in Int, NEW m \in Int, NEW T \in SUBSET C, Bounded(k, f, m, g, T)
    PROVE  k * SumOver(f, T) <= m * SumOver(g, T)
<1> DEFINE D == {U \in SUBSET C : U \subseteq T => k * SumOver(f, U) <= m * SumOver(g, U)}
<1>1. \A U \in SUBSET C : SumOver(f, U) \in Int /\ SumOver(g, U) \in Int
  BY SumType
<1>2. {} \in D
  <2>1. SumOver(f, {}) = 0 /\ SumOver(g, {}) = 0
    BY SumOfNone
  <2>2. k * 0 <= m * 0
    OBVIOUS
  <2> QED BY <2>1, <2>2
<1>3. ASSUME NEW U \in SUBSET C, NEW x \in C \ U, U \in D PROVE U \cup {x} \in D
  <2> SUFFICES ASSUME U \cup {x} \subseteq T
               PROVE  k * SumOver(f, U \cup {x}) <= m * SumOver(g, U \cup {x})
    OBVIOUS
  <2>1. k * SumOver(f, U) <= m * SumOver(g, U)
    BY <1>3
  <2>2. k * f[x] <= m * g[x]
    BY DEF Bounded
  <2>3. /\ SumOver(f, U \cup {x}) = SumOver(f, U) + f[x]
        /\ SumOver(g, U \cup {x}) = SumOver(g, U) + g[x]
    BY SumWith
  <2>4. /\ SumOver(f, U) \in Int /\ SumOver(g, U) \in Int
        /\ f[x] \in Int /\ g[x] \in Int
    BY <1>1
  <2>5. \A a, b, c, d \in Int : k * a <= m * b /\ k * c <= m * d => k * (a + c) <= m * (b + d)
    OBVIOUS
  <2> QED BY <2>1, <2>2, <2>3, <2>4, <2>5
<1>4. SUBSET C \subseteq D
  <2> HIDE DEF D
  <2> QED BY <1>2, <1>3, SubsetInduction
<1> QED BY <1>4

LEMMA SumAtMost ==
    ASSUME NEW C, IsFiniteSet(C), NEW f \in [C -> Int], NEW g \in [C -> Int],
           NEW T \in SUBSET C, \A x \in T : f[x] <= g[x]
    PROVE  SumOver(f, T) <= SumOver(g, T)
<1>1. Bounded(1, f, 1, g, T)
  BY DEF Bounded
<1>2. 1 * SumOver(f, T) <= 1 * SumOver(g, T)
  BY <1>1, SumBound
<1>3. SumOver(f, T) \in Int /\ SumOver(g, T) \in Int
  BY SumType
<1> QED BY <1>2, <1>3

LEMMA SumSame ==
    ASSUME NEW C, IsFiniteSet(C), NEW f \in [C -> Int], NEW g \in [C -> Int],
           NEW T \in SUBSET C, \A x \in T : f[x] = g[x]
    PROVE  SumOver(f, T) = SumOver(g, T)
<1>1. \A x \in T : f[x] <= g[x] /\ g[x] <= f[x]
  OBVIOUS
<1>2. SumOver(f, T) <= SumOver(g, T) /\ SumOver(g, T) <= SumOver(f, T)
  BY <1>1, SumAtMost
<1>3. SumOver(f, T) \in Int /\ SumOver(g, T) \in Int
  BY SumType
<1> QED BY <1>2, <1>3

LEMMA SumPositive ==
    ASSUME NEW C, IsFiniteSet(C), NEW f \in [C -> Int], NEW T \in SUBSET C,
           \A x \in T : f[x] >= 0
    PROVE  SumOver(f, T) >= 0
<1> DEFINE D == {U \in SUBSET C : U \subseteq T => SumOver(f, U) >= 0}
<1>1. {} \in D
  <2>1. SumOver(f, {}) = 0 /\ 0 >= 0
    BY SumOfNone
  <2> QED BY <2>1
<1>2. ASSUME NEW U \in SUBSET C, NEW x \in C \ U, U \in D PROVE U \cup {x} \in D
  <2> SUFFICES ASSUME U \cup {x} \subseteq T PROVE SumOver(f, U \cup {x}) >= 0
    OBVIOUS
  <2>1. SumOver(f, U) \in Int /\ SumOver(f, U \cup {x}) = SumOver(f, U) + f[x]
    BY SumType, SumWith
  <2>2. f[x] \in Int /\ f[x] >= 0 /\ SumOver(f, U) >= 0
    BY <1>2
  <2> QED BY <2>1, <2>2
<1>3. SUBSET C \subseteq D
  <2> HIDE DEF D
  <2> QED BY <1>1, <1>2, SubsetInduction
<1> QED BY <1>3

\* A part of the terms adds up to no more than all, if none is negative.
LEMMA SumOfPart ==
    ASSUME NEW C, IsFiniteSet(C), NEW f \in [C -> Int], NEW T \in SUBSET C, NEW S \in SUBSET T,
           \A x \in T : f[x] >= 0
    PROVE  SumOver(f, S) <= SumOver(f, T)
<1>1. S \cup (T \ S) = T /\ S \cap (T \ S) = {} /\ S \in SUBSET C /\ T \ S \in SUBSET C
  OBVIOUS
<1>2. SumOver(f, S \cup (T \ S)) = SumOver(f, S) + SumOver(f, T \ S)
  BY <1>1, SumUnion
<1>3. \A x \in T \ S : f[x] >= 0
  OBVIOUS
<1>4. SumOver(f, T \ S) >= 0
  BY <1>1, <1>3, SumPositive
<1>5. SumOver(f, S) \in Int /\ SumOver(f, T \ S) \in Int
  BY <1>1, SumType
<1>6. SumOver(f, S) <= SumOver(f, S) + SumOver(f, T \ S)
  BY <1>4, <1>5
<1> QED BY <1>1, <1>2, <1>6

\* Terms of at most c.
LEMMA SumOfSmall ==
    ASSUME NEW C, IsFiniteSet(C), NEW f \in [C -> Int], NEW T \in SUBSET C, NEW c \in Int,
           \A x \in T : f[x] <= c
    PROVE  SumOver(f, T) <= c * Cardinality(T)
<1> DEFINE D == {U \in SUBSET C : U \subseteq T => SumOver(f, U) <= c * Cardinality(U)}
<1>1. {} \in D
  <2>1. SumOver(f, {}) = 0 /\ Cardinality({}) = 0
    BY SumOfNone, EmptyIsNone
  <2>2. 0 <= c * 0
    OBVIOUS
  <2> QED BY <2>1, <2>2
<1>2. ASSUME NEW U \in SUBSET C, NEW x \in C \ U, U \in D PROVE U \cup {x} \in D
  <2> SUFFICES ASSUME U \cup {x} \subseteq T
               PROVE  SumOver(f, U \cup {x}) <= c * Cardinality(U \cup {x})
    OBVIOUS
  <2>1. SumOver(f, U) \in Int /\ SumOver(f, U \cup {x}) = SumOver(f, U) + f[x]
    BY SumType, SumWith
  <2>2. IsFiniteSet(U)
    BY FS_Subset
  <2>3. Cardinality(U) \in Nat /\ Cardinality(U \cup {x}) = Cardinality(U) + 1
    BY <2>2, FS_CardinalityType, FS_AddElement
  <2>4. f[x] \in Int /\ f[x] <= c /\ SumOver(f, U) <= c * Cardinality(U)
    BY <1>2
  <2>5. c * (Cardinality(U) + 1) = c * Cardinality(U) + c
    BY <2>3
  <2>6. \A n \in Nat : c * n \in Int
    OBVIOUS
  <2>7. c * Cardinality(U) \in Int
    BY <2>3, <2>6
  <2>8. SumOver(f, U) + f[x] <= c * Cardinality(U) + c
    BY <2>1, <2>4, <2>7
  <2> QED BY <2>1, <2>3, <2>5, <2>8
<1>3. SUBSET C \subseteq D
  <2> HIDE DEF D
  <2> QED BY <1>1, <1>2, SubsetInduction
<1> QED BY <1>3

-----------------------------------------------------------------------------
(* Sequences: their members, and what is folded over them step by step.    *)

\* A set of positions has a last one, which is what FoldLeft takes off.
LEMMA LastPosition ==
    ASSUME NEW n \in Nat, NEW u \in SUBSET (1 .. n), u # {}
    PROVE  Max(u) \in u /\ \A k \in u : k <= Max(u)
<1>1. \E x \in u : \A y \in u : x >= y
  <2>1. {n - x : x \in u} \in SUBSET Nat /\ {n - x : x \in u} # {}
    <3>1. \A x \in u : n - x \in Nat
      OBVIOUS
    <3>2. PICK y \in u : TRUE
      OBVIOUS
    <3>3. n - y \in {n - x : x \in u}
      BY <3>2
    <3> QED BY <3>1, <3>3
  <2>2. PICK l \in {n - x : x \in u} : \A k \in {n - x : x \in u} : l <= k
    BY <2>1, Least
  <2>3. PICK x \in u : l = n - x
    BY <2>2
  <2>4. ASSUME NEW y \in u PROVE x >= y
    <3>1. n - x <= n - y
      BY <2>2, <2>3
    <3> QED BY <3>1
  <2> QED BY <2>4
<1>2. Max(u) \in u /\ \A y \in u : Max(u) >= y
  BY <1>1, Zenon DEF Max
<1>3. \A x, y \in 1 .. n : x >= y => y <= x
  OBVIOUS
<1> QED BY <1>2, <1>3

LastPositions(n) == [u \in (SUBSET (1 .. n)) \ {{}} |-> Max(u)]

LEMMA LastPositionsAreTops ==
    ASSUME NEW n \in Nat PROVE Tops(LastPositions(n), n)
<1> SUFFICES ASSUME NEW u \in (SUBSET (1 .. n)) \ {{}}
             PROVE  LastPositions(n)[u] \in u /\ \A k \in u : k <= LastPositions(n)[u]
  BY DEF Tops
<1>1. LastPositions(n)[u] = Max(u)
  BY DEF LastPositions
<1> QED BY <1>1, LastPosition

\* What a turn makes of a T, in each of n turns.
Turns(T, n) == [T \X (1 .. n) -> T]

\* r[i] is what has been made of b after the i-th of n turns, each a turn of F.
IsRun(r, b, F, n) == r[0] = b /\ \A i \in 1 .. n : r[i] = F[<<r[i - 1], i>>]

\* h is some function that obeys the equation of the fold as long as its values have
\* the type T.
Obeys(h, b, F, T, n) ==
    \A u \in SUBSET (1 .. n) :
        /\ u = {} => h[u] = b
        /\ u # {} /\ h[u \ {Max(u)}] \in T => h[u] = F[<<h[u \ {Max(u)}], Max(u)>>]

IsFoldOf(g, b, F, n) ==
    \A u \in SUBSET (1 .. n) : g[u] = IF u = {} THEN b ELSE F[<<g[u \ {Max(u)}], Max(u)>>]

LEMMA FoldRuns ==
    ASSUME NEW n \in Nat, NEW T, NEW b \in T, NEW F \in Turns(T, n),
           NEW h, Obeys(h, b, F, T, n)
    PROVE  \E r \in [0 .. n -> T] : IsRun(r, b, F, n) /\ h[1 .. n] = r[n]
<1>1. ASSUME NEW i \in 1 .. n
      PROVE  Max(1 .. i) = i /\ (1 .. i) \ {i} = 1 .. i - 1 /\ 1 .. i # {} /\ 1 .. i \in SUBSET (1 .. n)
  <2>1. 1 .. i \in SUBSET (1 .. n) /\ 1 .. i # {} /\ (1 .. i) \ {i} = 1 .. i - 1 /\ i \in 1 .. i
    OBVIOUS
  <2>2. Max(1 .. i) \in 1 .. i /\ i <= Max(1 .. i)
    BY <2>1, LastPosition
  <2> QED BY <2>1, <2>2
<1>2. 1 .. 0 = {} /\ {} \in SUBSET (1 .. n)
  OBVIOUS
<1>3. h[1 .. 0] = b
  BY <1>2 DEF Obeys
<1>4. ASSUME NEW i \in 1 .. n, h[1 .. i - 1] \in T
      PROVE  h[1 .. i] = F[<<h[1 .. i - 1], i>>] /\ h[1 .. i] \in T
  <2>1. h[1 .. i] = F[<<h[1 .. i - 1], i>>]
    <3> DEFINE u == 1 .. i
    <3>1. u \in SUBSET (1 .. n) /\ u # {} /\ Max(u) = i /\ u \ {Max(u)} = 1 .. i - 1
      BY <1>1
    <3> HIDE DEF u
    <3>2. h[u] = F[<<h[1 .. i - 1], i>>]
      BY <1>4, <3>1 DEF Obeys
    <3> QED BY <3>2 DEF u
  <2>2. <<h[1 .. i - 1], i>> \in T \X (1 .. n)
    BY <1>4
  <2> QED BY <2>1, <2>2 DEF Turns
<1> DEFINE Known == {i \in Nat : i <= n => h[1 .. i] \in T}
<1>5. 0 \in Known
  BY <1>3
<1>6. ASSUME NEW i \in Nat, i \in Known PROVE i + 1 \in Known
  <2> SUFFICES ASSUME i + 1 <= n PROVE h[1 .. i + 1] \in T
    OBVIOUS
  <2> DEFINE j == i + 1
  <2>1. j \in 1 .. n /\ j - 1 = i /\ h[1 .. i] \in T
    BY <1>6
  <2> HIDE DEF Known, j
  <2>2. h[1 .. j] \in T
    BY <2>1, <1>4
  <2> QED BY <2>2 DEF j
<1>7. \A i \in 0 .. n : h[1 .. i] \in T
  <2>1. Nat \subseteq Known
    <3> HIDE DEF Known
    <3> QED BY <1>5, <1>6, Induction
  <2> QED BY <2>1
<1> HIDE DEF Known
<1> DEFINE r == [i \in 0 .. n |-> h[1 .. i]]
<1>8. r \in [0 .. n -> T] /\ r[0] = b /\ r[n] = h[1 .. n]
  BY <1>3, <1>7
<1>9. \A i \in 1 .. n : r[i] = F[<<r[i - 1], i>>]
  <2> SUFFICES ASSUME NEW i \in 1 .. n PROVE r[i] = F[<<r[i - 1], i>>]
    OBVIOUS
  <2>1. i - 1 \in 0 .. n /\ i \in 0 .. n
    OBVIOUS
  <2>2. r[i] = h[1 .. i] /\ r[i - 1] = h[1 .. i - 1]
    BY <2>1
  <2> QED BY <1>4, <1>7, <2>1, <2>2
<1> HIDE DEF r
<1> QED BY <1>8, <1>9 DEF IsRun

\* There is such a function: the fold is one.
LEMMA FoldsObey ==
    ASSUME NEW n \in Nat, NEW T, NEW b \in T, NEW F \in Turns(T, n)
    PROVE  \E g \in [SUBSET (1 .. n) -> T] : IsFoldOf(g, b, F, n)
<1>1. PICK g \in [SUBSET (1 .. n) -> T] : Folded(g, b, F, LastPositions(n), n)
  BY LastPositionsAreTops, FoldsExist DEF Turns
<1>2. ASSUME NEW u \in SUBSET (1 .. n)
      PROVE  g[u] = IF u = {} THEN b ELSE F[<<g[u \ {Max(u)}], Max(u)>>]
  <2>1. u # {} => LastPositions(n)[u] = Max(u)
    BY DEF LastPositions
  <2> QED BY <1>1, <2>1 DEF Folded
<1> QED BY <1>2 DEF IsFoldOf

Members(s) == {s[i] : i \in DOMAIN s}

LEMMA MembersIn ==
    ASSUME NEW S, NEW s \in Seq(S)
    PROVE  /\ Members(s) \subseteq S /\ IsFiniteSet(Members(s))
           /\ Cardinality(Members(s)) \in Nat /\ Cardinality(Members(s)) <= Len(s)
           /\ Members(s) = {s[i] : i \in 1 .. Len(s)}
<1>1. Len(s) \in Nat /\ s \in [1 .. Len(s) -> S] /\ DOMAIN s = 1 .. Len(s)
  BY LenProperties
<1>2. s \in Surjection(1 .. Len(s), Members(s))
  <2>1. s \in [1 .. Len(s) -> Members(s)]
    BY <1>1 DEF Members
  <2>2. \A m \in Members(s) : \E i \in 1 .. Len(s) : s[i] = m
    BY <1>1 DEF Members
  <2> QED BY <2>1, <2>2 DEF Surjection
<1>3. IsFiniteSet(1 .. Len(s)) /\ Cardinality(1 .. Len(s)) = Len(s)
  BY <1>1, FS_Interval
<1>4. IsFiniteSet(Members(s)) /\ Cardinality(Members(s)) <= Len(s)
  BY <1>2, <1>3, FS_Surjection
<1>5. Members(s) \subseteq S
  BY <1>1 DEF Members
<1>6. Cardinality(Members(s)) \in Nat
  BY <1>4, FS_CardinalityType
<1> QED BY <1>1, <1>4, <1>5, <1>6 DEF Members

LEMMA MembersOfNone == Members(<< >>) = {} /\ Len(<< >>) = 0
  BY DEF Members

LEMMA MembersConcat ==
    ASSUME NEW S, NEW s \in Seq(S), NEW t \in Seq(S)
    PROVE  Members(s \o t) = Members(s) \cup Members(t)
<1>1. /\ Len(s) \in Nat /\ Len(t) \in Nat /\ s \o t \in Seq(S) /\ Len(s \o t) = Len(s) + Len(t)
      /\ \A i \in 1 .. Len(s) + Len(t) : (s \o t)[i] = IF i <= Len(s) THEN s[i] ELSE t[i - Len(s)]
  BY ConcatProperties, LenProperties
<1>2. /\ Members(s) = {s[i] : i \in 1 .. Len(s)} /\ Members(t) = {t[i] : i \in 1 .. Len(t)}
      /\ Members(s \o t) = {(s \o t)[i] : i \in 1 .. Len(s) + Len(t)}
  <2> DEFINE u == s \o t
  <2>1. u \in Seq(S) /\ Len(u) = Len(s) + Len(t)
    BY <1>1
  <2> HIDE DEF u
  <2>2. Members(u) = {u[i] : i \in 1 .. Len(u)}
    BY <2>1, MembersIn
  <2>3. Members(s) = {s[i] : i \in 1 .. Len(s)} /\ Members(t) = {t[i] : i \in 1 .. Len(t)}
    BY MembersIn
  <2> QED BY <2>1, <2>2, <2>3 DEF u
<1>3. ASSUME NEW i \in 1 .. Len(s) + Len(t) PROVE (s \o t)[i] \in Members(s) \cup Members(t)
  <2>1. CASE i <= Len(s)
    BY <1>1, <1>2, <2>1
  <2>2. CASE ~ (i <= Len(s))
    <3>1. i - Len(s) \in 1 .. Len(t) /\ (s \o t)[i] = t[i - Len(s)]
      BY <1>1, <2>2
    <3> QED BY <1>2, <3>1
  <2> QED BY <2>1, <2>2
<1>4. ASSUME NEW i \in 1 .. Len(s) PROVE s[i] \in Members(s \o t)
  <2>1. i \in 1 .. Len(s) + Len(t) /\ (s \o t)[i] = s[i]
    BY <1>1
  <2> QED BY <1>2, <2>1
<1>5. ASSUME NEW i \in 1 .. Len(t) PROVE t[i] \in Members(s \o t)
  <2> DEFINE k == Len(s) + i
  <2>1. k \in 1 .. Len(s) + Len(t) /\ ~ (k <= Len(s)) /\ k - Len(s) = i
    BY <1>1
  <2> HIDE DEF k
  <2>2. (s \o t)[k] = t[i]
    BY <1>1, <2>1
  <2> QED BY <1>2, <2>1, <2>2
<1> QED BY <1>2, <1>3, <1>4, <1>5

LEMMA MembersOfOne ==
    ASSUME NEW S, NEW e \in S
    PROVE  <<e>> \in Seq(S) /\ Len(<<e>>) = 1 /\ <<e>>[1] = e /\ Members(<<e>>) = {e}
<1>1. <<e>> \in Seq(S) /\ Len(<<e>>) = 1 /\ <<e>>[1] = e
  OBVIOUS
<1>2. Members(<<e>>) = {<<e>>[i] : i \in 1 .. 1}
  BY <1>1, MembersIn
<1> QED BY <1>1, <1>2

LEMMA MembersAppend ==
    ASSUME NEW S, NEW s \in Seq(S), NEW e \in S
    PROVE  Append(s, e) \in Seq(S) /\ Len(Append(s, e)) = Len(s) + 1
           /\ Members(Append(s, e)) = Members(s) \cup {e}
<1> DEFINE t == <<e>>
<1>1. t \in Seq(S) /\ Members(t) = {e}
  BY MembersOfOne
<1>2. Append(s, e) = s \o t
  BY AppendIsConcat
<1>3. Append(s, e) \in Seq(S) /\ Len(Append(s, e)) = Len(s) + 1
  BY AppendProperties
<1> HIDE DEF t
<1> QED BY <1>1, <1>2, <1>3, MembersConcat

\* A sequence around one of its members.
LEMMA Split ==
    ASSUME NEW S, NEW s \in Seq(S), NEW i \in 1 .. Len(s)
    PROVE  /\ s[i] \in S
           /\ SubSeq(s, 1, i - 1) \in Seq(S) /\ Len(SubSeq(s, 1, i - 1)) = i - 1
           /\ SubSeq(s, i + 1, Len(s)) \in Seq(S) /\ Len(SubSeq(s, i + 1, Len(s))) = Len(s) - i
           /\ s = SubSeq(s, 1, i - 1) \o (<<s[i]>> \o SubSeq(s, i + 1, Len(s)))
<1>1. Len(s) \in Nat /\ \A j \in 1 .. Len(s) : s[j] \in S
  BY LenProperties, ElementOfSeq
<1>2. \A j \in 1 .. i - 1 : s[j] \in S
  BY <1>1
<1>3. \A j \in i + 1 .. Len(s) : s[j] \in S
  BY <1>1
<1>4. SubSeq(s, 1, i - 1) \in Seq(S) /\ Len(SubSeq(s, 1, i - 1)) = i - 1
  <2>1. i - 1 \in Int /\ (IF 1 <= i - 1 THEN i - 1 - 1 + 1 ELSE 0) = i - 1
    BY <1>1
  <2> QED BY <2>1, <1>2, SubSeqProperties
<1>5. SubSeq(s, i + 1, Len(s)) \in Seq(S) /\ Len(SubSeq(s, i + 1, Len(s))) = Len(s) - i
  <2>1. i + 1 \in Int /\ Len(s) \in Int
        /\ (IF i + 1 <= Len(s) THEN Len(s) - (i + 1) + 1 ELSE 0) = Len(s) - i
    BY <1>1
  <2> QED BY <2>1, <1>3, SubSeqProperties
<1>6. <<s[i]>> \o SubSeq(s, i + 1, Len(s)) = SubSeq(s, i, Len(s))
  <2>1. Len(s) \in i .. Len(s)
    BY <1>1
  <2> QED BY <2>1, SubSeqRecursiveFirst
<1>7. SubSeq(s, 1, i - 1) \o SubSeq(s, i, Len(s)) = s
  <2> DEFINE k == i - 1
  <2>1. k \in 1 - 1 .. Len(s) /\ 1 \in 1 .. Len(s) + 1 /\ Len(s) \in k .. Len(s) /\ k + 1 = i
    BY <1>1
  <2> HIDE DEF k
  <2>2. SubSeq(s, 1, k) \o SubSeq(s, k + 1, Len(s)) = SubSeq(s, 1, Len(s))
    BY <2>1, ConcatAdjacentSubSeq
  <2>3. SubSeq(s, 1, Len(s)) = s
    BY SubSeqFull
  <2> QED BY <2>1, <2>2, <2>3 DEF k
<1> QED BY <1>1, <1>4, <1>5, <1>6, <1>7

LEMMA MembersSplit ==
    ASSUME NEW S, NEW s \in Seq(S), NEW i \in 1 .. Len(s)
    PROVE  LET r == SubSeq(s, 1, i - 1) \o SubSeq(s, i + 1, Len(s))
           IN  r \in Seq(S) /\ Len(r) = Len(s) - 1 /\ Members(s) = Members(r) \cup {s[i]}
<1> DEFINE a == SubSeq(s, 1, i - 1)
           b == SubSeq(s, i + 1, Len(s))
<1>1. s[i] \in S /\ a \in Seq(S) /\ Len(a) = i - 1 /\ b \in Seq(S) /\ Len(b) = Len(s) - i
      /\ s = a \o (<<s[i]>> \o b)
  BY Split
<1>2. Len(s) \in Nat
  BY LenProperties
<1> DEFINE e == <<s[i]>>
<1>3. e \in Seq(S) /\ Members(e) = {s[i]} /\ s = a \o (e \o b)
  BY <1>1, MembersOfOne
<1> HIDE DEF a, b, e
<1>4. e \o b \in Seq(S)
  BY <1>1, <1>3, ConcatProperties
<1>5. a \o b \in Seq(S) /\ Len(a \o b) = Len(s) - 1
  <2>1. a \o b \in Seq(S) /\ Len(a \o b) = Len(a) + Len(b)
    BY <1>1, ConcatProperties
  <2> QED BY <1>1, <1>2, <2>1
<1>6. Members(s) = Members(a) \cup (Members(e) \cup Members(b))
  <2>1. Members(e \o b) = Members(e) \cup Members(b)
    BY <1>1, <1>3, MembersConcat
  <2> DEFINE d == e \o b
  <2>2. Members(a \o d) = Members(a) \cup Members(d)
    <3>1. a \in Seq(S) /\ d \in Seq(S)
      BY <1>1, <1>4
    <3> HIDE DEF d
    <3> QED BY <3>1, MembersConcat
  <2> QED BY <1>3, <2>1, <2>2
<1>7. Members(a \o b) = Members(a) \cup Members(b)
  BY <1>1, MembersConcat
<1> QED BY <1>3, <1>5, <1>6, <1>7 DEF a, b

LEMMA MembersTail ==
    ASSUME NEW S, NEW s \in Seq(S), s # << >>
    PROVE  /\ Head(s) \in S /\ Tail(s) \in Seq(S) /\ Len(Tail(s)) = Len(s) - 1 /\ Len(s) \in Nat \ {0}
           /\ Members(s) = Members(Tail(s)) \cup {Head(s)}
           /\ s = <<Head(s)>> \o Tail(s)
<1>1. Head(s) \in S /\ Tail(s) \in Seq(S) /\ Len(Tail(s)) = Len(s) - 1
  BY HeadTailProperties
<1>2. Len(s) \in Nat \ {0}
  BY EmptySeq
<1>3. s = <<Head(s)>> \o Tail(s)
  <2>1. 1 \in 1 .. Len(s) /\ Len(s) \in 1 .. Len(s)
    BY <1>2
  <2>2. Tail(s) = SubSeq(s, 1 + 1, Len(s))
    BY TailIsSubSeq
  <2>3. SubSeq(s, 1, Len(s)) = <<s[1]>> \o SubSeq(s, 1 + 1, Len(s))
    BY <2>1, SubSeqRecursiveFirst
  <2>4. SubSeq(s, 1, Len(s)) = s /\ s[1] = Head(s)
    BY SubSeqFull DEF Head
  <2> QED BY <2>2, <2>3, <2>4
<1>4. Members(s) = Members(<<Head(s)>>) \cup Members(Tail(s)) /\ Members(<<Head(s)>>) = {Head(s)}
  <2> DEFINE e == <<Head(s)>>
             t == Tail(s)
  <2>1. e \in Seq(S) /\ Members(e) = {Head(s)} /\ t \in Seq(S) /\ s = e \o t
    BY <1>1, <1>3, MembersOfOne
  <2> HIDE DEF e, t
  <2>2. Members(e \o t) = Members(e) \cup Members(t)
    BY <2>1, MembersConcat
  <2> QED BY <2>1, <2>2 DEF e, t
<1> QED BY <1>1, <1>2, <1>3, <1>4

\* The sum of what L gives the members of a sequence, place by place.
SeqSums(r, L, s) == r[0] = 0 /\ \A i \in 1 .. Len(s) : r[i] = r[i - 1] + L[s[i]]

SeqSum(L, s) == (CHOOSE r \in [0 .. Len(s) -> Int] : SeqSums(r, L, s))[Len(s)]

LEMMA SeqSumsExist ==
    ASSUME NEW S, NEW L \in [S -> Int], NEW s \in Seq(S)
    PROVE  \E r \in [0 .. Len(s) -> Int] : SeqSums(r, L, s)
<1> DEFINE Summed(m) == \E r \in [0 .. m -> Int] :
                           r[0] = 0 /\ \A i \in 1 .. m : r[i] = r[i - 1] + L[s[i]]
           N == {m \in Nat : m <= Len(s) => Summed(m)}
<1>1. Len(s) \in Nat /\ \A i \in 1 .. Len(s) : L[s[i]] \in Int
  BY LenProperties, ElementOfSeq
<1>2. 0 \in N
  <2> DEFINE z == [i \in 0 .. 0 |-> 0]
  <2>1. z \in [0 .. 0 -> Int] /\ z[0] = 0 /\ \A i \in 1 .. 0 : z[i] = z[i - 1] + L[s[i]]
    OBVIOUS
  <2> HIDE DEF z
  <2> QED BY <2>1
<1> HIDE DEF Summed
<1>3. ASSUME NEW m \in Nat, m \in N PROVE m + 1 \in N
  <2> SUFFICES ASSUME m + 1 <= Len(s) PROVE Summed(m + 1)
    OBVIOUS
  <2>1. PICK r \in [0 .. m -> Int] : r[0] = 0 /\ \A i \in 1 .. m : r[i] = r[i - 1] + L[s[i]]
    <3>1. Summed(m)
      BY <1>1, <1>3
    <3> QED BY <3>1 DEF Summed
  <2> DEFINE q == [i \in 0 .. m + 1 |-> IF i = m + 1 THEN r[m] + L[s[m + 1]] ELSE r[i]]
  <2>2. m + 1 \in 1 .. Len(s) /\ r[m] \in Int
    BY <1>1
  <2>3. L[s[m + 1]] \in Int
    BY <1>1, <2>2
  <2>4. q \in [0 .. m + 1 -> Int]
    BY <2>2, <2>3
  <2>5. q[0] = 0
    BY <2>1
  <2>6. ASSUME NEW i \in 1 .. m + 1 PROVE q[i] = q[i - 1] + L[s[i]]
    <3>1. CASE i = m + 1
      BY <3>1
    <3>2. CASE i # m + 1
      <4>1. i \in 1 .. m /\ q[i] = r[i] /\ q[i - 1] = r[i - 1]
        BY <3>2
      <4> QED BY <2>1, <4>1
    <3> QED BY <3>1, <3>2
  <2> HIDE DEF q
  <2> QED BY <2>4, <2>5, <2>6 DEF Summed
<1>4. Len(s) \in N
  <2> HIDE DEF N
  <2>1. Nat \subseteq N
    BY <1>2, <1>3, Induction
  <2> QED BY <1>1, <2>1
<1>5. Summed(Len(s))
  BY <1>1, <1>4
<1> QED BY <1>5 DEF Summed, SeqSums

LEMMA SeqSumIs ==
    ASSUME NEW S, NEW L \in [S -> Int], NEW s \in Seq(S),
           NEW r \in [0 .. Len(s) -> Int], SeqSums(r, L, s)
    PROVE  SeqSum(L, s) = r[Len(s)] /\ SeqSum(L, s) \in Int
<1> DEFINE k == CHOOSE q \in [0 .. Len(s) -> Int] : SeqSums(q, L, s)
           N == {m \in Nat : m <= Len(s) => k[m] = r[m]}
<1>1. k \in [0 .. Len(s) -> Int] /\ SeqSums(k, L, s)
  OBVIOUS
<1>2. SeqSum(L, s) = k[Len(s)]
  BY DEF SeqSum
<1>3. Len(s) \in Nat
  BY LenProperties
<1> HIDE DEF k
<1>4. 0 \in N
  BY <1>1 DEF SeqSums
<1>5. ASSUME NEW m \in Nat, m \in N PROVE m + 1 \in N
  <2> SUFFICES ASSUME m + 1 <= Len(s) PROVE k[m + 1] = r[m + 1]
    OBVIOUS
  <2> DEFINE j == m + 1
  <2>1. j \in 1 .. Len(s) /\ j - 1 = m /\ k[m] = r[m]
    BY <1>3, <1>5
  <2> HIDE DEF j
  <2>2. k[j] = k[j - 1] + L[s[j]] /\ r[j] = r[j - 1] + L[s[j]]
    BY <1>1, <2>1 DEF SeqSums
  <2> QED BY <2>1, <2>2 DEF j
<1>6. Len(s) \in N
  <2> HIDE DEF N
  <2>1. Nat \subseteq N
    BY <1>4, <1>5, Induction
  <2> QED BY <1>3, <2>1
<1> QED BY <1>1, <1>2, <1>3, <1>6

LEMMA SeqSumType ==
    ASSUME NEW S, NEW L \in [S -> Int], NEW s \in Seq(S)
    PROVE  SeqSum(L, s) \in Int
  BY SeqSumsExist, SeqSumIs

LEMMA SeqSumOfNone ==
    ASSUME NEW S, NEW L \in [S -> Int]
    PROVE  SeqSum(L, << >>) = 0
<1> DEFINE s == << >>
           r == [i \in 0 .. 0 |-> 0]
<1>1. s \in Seq(S) /\ Len(s) = 0
  BY EmptySeq
<1>2. r \in [0 .. 0 -> Int] /\ r[0] = 0
  OBVIOUS
<1> HIDE DEF s, r
<1>3. SeqSums(r, L, s)
  BY <1>1, <1>2 DEF SeqSums
<1>4. SeqSum(L, s) = r[Len(s)]
  BY <1>1, <1>2, <1>3, SeqSumIs
<1> QED BY <1>1, <1>2, <1>4 DEF s

LEMMA SeqSumOfOne ==
    ASSUME NEW S, NEW L \in [S -> Int], NEW e \in S
    PROVE  SeqSum(L, <<e>>) = L[e]
<1> DEFINE s == <<e>>
           r == [i \in 0 .. 1 |-> IF i = 0 THEN 0 ELSE L[e]]
<1>1. s \in Seq(S) /\ Len(s) = 1 /\ s[1] = e
  OBVIOUS
<1>2. r \in [0 .. 1 -> Int] /\ r[0] = 0 /\ r[1] = L[e]
  OBVIOUS
<1> HIDE DEF s, r
<1>3. SeqSums(r, L, s)
  BY <1>1, <1>2 DEF SeqSums
<1>4. SeqSum(L, s) = r[Len(s)]
  BY <1>1, <1>2, <1>3, SeqSumIs
<1> QED BY <1>1, <1>2, <1>4 DEF s

LEMMA SeqSumConcat ==
    ASSUME NEW S, NEW L \in [S -> Int], NEW s \in Seq(S), NEW t \in Seq(S)
    PROVE  SeqSum(L, s \o t) = SeqSum(L, s) + SeqSum(L, t)
<1>1. PICK p \in [0 .. Len(s) -> Int] : SeqSums(p, L, s)
  BY SeqSumsExist
<1>2. PICK q \in [0 .. Len(t) -> Int] : SeqSums(q, L, t)
  BY SeqSumsExist
<1>3. SeqSum(L, s) = p[Len(s)] /\ SeqSum(L, t) = q[Len(t)]
  BY <1>1, <1>2, SeqSumIs
<1> DEFINE u == s \o t
           m == Len(s)
           n == Len(t)
<1>4. /\ m \in Nat /\ n \in Nat /\ u \in Seq(S) /\ Len(u) = m + n
      /\ \A i \in 1 .. m + n : u[i] = IF i <= m THEN s[i] ELSE t[i - m]
  BY ConcatProperties, LenProperties
<1>5. p \in [0 .. m -> Int] /\ q \in [0 .. n -> Int]
  OBVIOUS
<1>6. p[0] = 0 /\ q[0] = 0
  BY <1>1, <1>2 DEF SeqSums
<1>7. \A i \in 1 .. m : p[i] = p[i - 1] + L[s[i]]
  BY <1>1 DEF SeqSums
<1>8. \A i \in 1 .. n : q[i] = q[i - 1] + L[t[i]]
  BY <1>2 DEF SeqSums
<1>9. (\A i \in 1 .. m : L[s[i]] \in Int) /\ \A i \in 1 .. n : L[t[i]] \in Int
  BY ElementOfSeq
<1> HIDE DEF u, m, n
<1> DEFINE r == [i \in 0 .. m + n |-> IF i <= m THEN p[i] ELSE p[m] + q[i - m]]
<1>10. r \in [0 .. m + n -> Int]
  <2> SUFFICES ASSUME NEW i \in 0 .. m + n PROVE r[i] \in Int
    OBVIOUS
  <2>1. CASE i <= m
    BY <1>4, <1>5, <2>1
  <2>2. CASE ~ (i <= m)
    <3>1. i - m \in 0 .. n /\ m \in 0 .. m
      BY <1>4, <2>2
    <3>2. p[m] \in Int /\ q[i - m] \in Int
      BY <1>5, <3>1
    <3>3. r[i] = p[m] + q[i - m]
      BY <2>2
    <3> HIDE DEF r
    <3> QED BY <3>2, <3>3
  <2> QED BY <2>1, <2>2
<1>11. r[0] = 0
  BY <1>4, <1>6
<1>12. r[m + n] = p[m] + q[n]
  <2>1. CASE n = 0
    <3>1. m + n = m /\ m \in 0 .. m + n /\ p[m] \in Int /\ q[n] = 0
      BY <1>4, <1>5, <1>6, <2>1
    <3> QED BY <3>1
  <2>2. CASE n # 0
    <3> DEFINE i == m + n
    <3>2. i \in 0 .. m + n /\ ~ (i <= m) /\ i - m = n
      BY <1>4, <2>2
    <3> HIDE DEF i
    <3>3. r[i] = p[m] + q[n]
      <4>1. r[i] = p[m] + q[i - m]
        BY <3>2
      <4> HIDE DEF r
      <4> QED BY <3>2, <4>1
    <3> QED BY <3>3 DEF i
  <2> QED BY <2>1, <2>2
<1>13. ASSUME NEW i \in 1 .. m + n PROVE r[i] = r[i - 1] + L[u[i]]
  <2>1. CASE i <= m
    <3>1. i \in 1 .. m /\ i - 1 <= m /\ i - 1 \in 0 .. m + n /\ i \in 0 .. m + n
      BY <1>4, <2>1
    <3>2. r[i] = p[i] /\ r[i - 1] = p[i - 1] /\ u[i] = s[i]
      BY <1>4, <2>1, <3>1
    <3> QED BY <1>7, <3>1, <3>2
  <2>2. CASE ~ (i <= m)
    <3> DEFINE j == i - m
    <3>1. j \in 1 .. n /\ j - 1 = i - 1 - m /\ i - 1 \in 0 .. m + n /\ i \in 0 .. m + n /\ m \in 0 .. m
      BY <1>4, <2>2
    <3>2. r[i] = p[m] + q[j] /\ u[i] = t[j]
      BY <1>4, <2>2, <3>1
    <3>3. r[i - 1] = p[m] + q[j - 1]
      <4>1. CASE j = 1
        <5>1. i - 1 = m /\ j - 1 = 0 /\ i - 1 <= m
          BY <1>4, <4>1
        <5>2. r[i - 1] = p[m] /\ q[j - 1] = 0 /\ p[m] \in Int
          BY <1>5, <1>6, <3>1, <5>1
        <5> QED BY <5>2
      <4>2. CASE j # 1
        <5>1. ~ (i - 1 <= m)
          BY <1>4, <2>2, <4>2
        <5> QED BY <3>1, <5>1
      <4> QED BY <4>1, <4>2
    <3>4. q[j] = q[j - 1] + L[t[j]] /\ L[t[j]] \in Int /\ q[j - 1] \in Int /\ p[m] \in Int
      <4>1. j - 1 \in 0 .. n
        BY <1>4, <3>1
      <4>2. L[t[j]] \in Int
        BY <1>9, <3>1 DEF n
      <4> QED BY <1>5, <1>8, <3>1, <4>1, <4>2
    <3> HIDE DEF r, j
    <3> QED BY <3>2, <3>3, <3>4
  <2> QED BY <2>1, <2>2
<1> HIDE DEF r
<1>14. SeqSums(r, L, u)
  BY <1>4, <1>11, <1>13 DEF SeqSums
<1>15. SeqSum(L, u) = r[m + n]
  BY <1>4, <1>10, <1>14, SeqSumIs
<1> QED BY <1>3, <1>12, <1>15 DEF u, m, n

LEMMA SeqSumAppend ==
    ASSUME NEW S, NEW L \in [S -> Int], NEW s \in Seq(S), NEW e \in S
    PROVE  SeqSum(L, Append(s, e)) = SeqSum(L, s) + L[e]
<1> DEFINE t == <<e>>
<1>1. t \in Seq(S) /\ Append(s, e) = s \o t /\ SeqSum(L, t) = L[e]
  BY AppendIsConcat, MembersOfOne, SeqSumOfOne
<1> HIDE DEF t
<1>2. SeqSum(L, s \o t) = SeqSum(L, s) + SeqSum(L, t)
  BY <1>1, SeqSumConcat
<1> QED BY <1>1, <1>2

\* One member less.
LEMMA SeqSumWithout ==
    ASSUME NEW S, NEW L \in [S -> Int], NEW s \in Seq(S), NEW i \in 1 .. Len(s)
    PROVE  SeqSum(L, SubSeq(s, 1, i - 1) \o SubSeq(s, i + 1, Len(s))) = SeqSum(L, s) - L[s[i]]
<1> DEFINE a == SubSeq(s, 1, i - 1)
           b == SubSeq(s, i + 1, Len(s))
           e == <<s[i]>>
           d == e \o b
<1>1. s[i] \in S /\ a \in Seq(S) /\ b \in Seq(S) /\ s = a \o d
  BY Split
<1> DEFINE x == s[i]
<1>2. e \in Seq(S) /\ SeqSum(L, e) = L[s[i]]
  <2>1. x \in S /\ e = <<x>>
    BY <1>1
  <2> HIDE DEF x
  <2>2. <<x>> \in Seq(S) /\ SeqSum(L, <<x>>) = L[x]
    BY <2>1, MembersOfOne, SeqSumOfOne
  <2> QED BY <2>1, <2>2 DEF x
<1> HIDE DEF a, b, e
<1>3. d \in Seq(S)
  BY <1>1, <1>2, ConcatProperties
<1>4. SeqSum(L, d) = SeqSum(L, e) + SeqSum(L, b)
  BY <1>1, <1>2, SeqSumConcat
<1>5. SeqSum(L, a \o b) = SeqSum(L, a) + SeqSum(L, b)
  BY <1>1, SeqSumConcat
<1> HIDE DEF d
<1>6. SeqSum(L, a \o d) = SeqSum(L, a) + SeqSum(L, d)
  <2>1. a \in Seq(S) /\ d \in Seq(S)
    BY <1>1, <1>3
  <2> QED BY <2>1, SeqSumConcat
<1>7. SeqSum(L, s) = SeqSum(L, a) + SeqSum(L, d)
  BY <1>1, <1>6
<1>8. SeqSum(L, a) \in Int /\ SeqSum(L, b) \in Int /\ SeqSum(L, e) \in Int
  BY <1>1, <1>2, SeqSumType
<1>9. SeqSum(L, a \o b) = SeqSum(L, s) - L[s[i]]
  BY <1>2, <1>4, <1>5, <1>7, <1>8
<1> QED BY <1>9 DEF a, b

LEMMA SeqSumNat ==
    ASSUME NEW S, NEW L \in [S -> Nat], NEW s \in Seq(S)
    PROVE  SeqSum(L, s) \in Nat
<1>1. L \in [S -> Int]
  OBVIOUS
<1>2. PICK r \in [0 .. Len(s) -> Int] : SeqSums(r, L, s)
  BY <1>1, SeqSumsExist
<1>3. SeqSum(L, s) = r[Len(s)]
  BY <1>1, <1>2, SeqSumIs
<1>4. Len(s) \in Nat /\ \A i \in 1 .. Len(s) : L[s[i]] \in Nat
  BY LenProperties, ElementOfSeq
<1> DEFINE N == {m \in Nat : m <= Len(s) => r[m] \in Nat}
<1>5. 0 \in N
  BY <1>2 DEF SeqSums
<1>6. ASSUME NEW m \in Nat, m \in N PROVE m + 1 \in N
  <2> SUFFICES ASSUME m + 1 <= Len(s) PROVE r[m + 1] \in Nat
    OBVIOUS
  <2> DEFINE j == m + 1
  <2>1. j \in 1 .. Len(s) /\ j - 1 = m /\ r[m] \in Nat
    BY <1>4, <1>6
  <2> HIDE DEF j
  <2>2. r[j] = r[j - 1] + L[s[j]] /\ L[s[j]] \in Nat
    BY <1>2, <1>4, <2>1 DEF SeqSums
  <2>3. r[j] \in Nat
    BY <2>1, <2>2
  <2> QED BY <2>3 DEF j
<1>7. Len(s) \in N
  <2> HIDE DEF N
  <2>1. Nat \subseteq N
    BY <1>5, <1>6, Induction
  <2> QED BY <1>4, <2>1
<1> QED BY <1>3, <1>4, <1>7
=============================================================================
