------------------------------ MODULE Basics_proofs ------------------------------
(***************************************************************************)
(* Proofs about the small mechanisms.                                      *)
(*                                                                         *)
(* The pointers of the intrusive lists agree, for all lists and nodes;     *)
(* timeouts are seen in time and not before it, and a round trip that is   *)
(* measured is the true one, whatever the widths of the counters and       *)
(* wherever they wrap; no unsequenced packet is queued twice; and neither  *)
(* the host nor a peer is overwhelmed by its share of the bandwidth.       *)
(***************************************************************************)
EXTENDS EnetList, EnetTime, Unsequenced, Bandwidth, NumberLemmas

-----------------------------------------------------------------------------
(* The lists.                                                              *)

ListInv == ListTypeOK /\ Threaded

\* A cell that may stand in a list.
Live == Lists \cup linked

LEMMA ListInitInv == ListInit => ListInv
  BY CellsAssumption DEF ListInit, ListInv, ListTypeOK, Threaded, Cells

\* enet_list_insert: the node stands between the position and what was before it.
LEMMA InsertInv ==
    ASSUME ListInv, NEW position \in Cells, NEW n \in Nodes, Insert(position, n)
    PROVE  ListInv'
<1> DEFINE before == previous[position]
<1>1. /\ position \in Live /\ before \in Live /\ next[before] = position
      /\ n \in Cells /\ n \notin Live /\ Live \subseteq Cells
  BY CellsAssumption DEF ListInv, ListTypeOK, Threaded, Insert, Live, Cells
<1>2. \A c \in Cells :
        /\ next'[c] = IF c = before THEN n ELSE IF c = n THEN position ELSE next[c]
        /\ previous'[c] = IF c = position THEN n ELSE IF c = n THEN before ELSE previous[c]
  BY <1>1 DEF ListInv, ListTypeOK, Insert
<1>3. Live' = Live \cup {n}
  BY DEF Insert, Live
<1>4. ListTypeOK'
  BY <1>1 DEF ListInv, ListTypeOK, Insert, Live
<1>5. \A c \in Live : /\ next[c] \in Live /\ previous[next[c]] = c
                      /\ previous[c] \in Live /\ next[previous[c]] = c
  BY DEF ListInv, Threaded, Live
<1> HIDE DEF before
<1>6. \A c \in Live' : /\ next'[c] \in Live' /\ previous'[next'[c]] = c
                       /\ previous'[c] \in Live' /\ next'[previous'[c]] = c
  BY <1>1, <1>2, <1>3, <1>5 DEF before
<1> QED BY <1>4, <1>6 DEF ListInv, Threaded, Live

\* enet_list_remove: its two neighbours point to each other.
LEMMA RemoveInv ==
    ASSUME ListInv, NEW n \in Nodes, Remove(n)
    PROVE  ListInv'
<1> DEFINE before == previous[n]
           behind == next[n]
<1>1. /\ n \in Live /\ before \in Live /\ behind \in Live
      /\ next[before] = n /\ previous[behind] = n
      /\ n \notin Lists /\ Live \subseteq Cells
  BY CellsAssumption DEF ListInv, ListTypeOK, Threaded, Remove, Live, Cells
<1>2. \A c \in Cells :
        /\ next'[c] = IF c = before THEN behind ELSE next[c]
        /\ previous'[c] = IF c = behind THEN before ELSE previous[c]
  BY <1>1 DEF ListInv, ListTypeOK, Remove
<1>3. Live' = Live \ {n}
  BY <1>1 DEF Remove, Live
<1>4. ListTypeOK'
  BY <1>1 DEF ListInv, ListTypeOK, Remove, Live
<1>5. \A c \in Live : /\ next[c] \in Live /\ previous[next[c]] = c
                      /\ previous[c] \in Live /\ next[previous[c]] = c
  BY DEF ListInv, Threaded, Live
<1> HIDE DEF before, behind
<1>6. \A c \in Live' : /\ next'[c] \in Live' /\ previous'[next'[c]] = c
                       /\ previous'[c] \in Live' /\ next'[previous'[c]] = c
  BY <1>1, <1>2, <1>3, <1>5 DEF before, behind
<1> QED BY <1>4, <1>6 DEF ListInv, Threaded, Live

\* enet_list_move: "before" is read after the run was taken out.  Where the position stood
\* behind the run already that is the node in front of the run, and nothing changes.
LEMMA MoveInv ==
    ASSUME ListInv, NEW position \in Cells, NEW S \in SUBSET linked,
           NEW first \in S, NEW last \in S, Move(position, first, last, S)
    PROVE  ListInv'
<1> DEFINE a == previous[first]
           b == next[last]
           before == IF position = b THEN a ELSE previous[position]
<1>1. /\ S \subseteq Live /\ Live \subseteq Cells /\ position \in Live \ S
      /\ a \in Live \ S /\ b \in Live \ S /\ next[a] = first /\ previous[b] = last
  BY CellsAssumption DEF ListInv, ListTypeOK, Threaded, Move, Run, Live, Cells
<1>2. \A c \in Live : /\ next[c] \in Live /\ previous[next[c]] = c
                      /\ previous[c] \in Live /\ next[previous[c]] = c
  BY DEF ListInv, Threaded, Live
<1>3. /\ \A n \in S \ {last} : next[n] \in S
      /\ \A n \in S \ {first} : previous[n] \in S
  BY DEF Move, Run
<1>4. before \in Live \ S /\ (position # b => before # a /\ next[before] = position)
  BY <1>1, <1>2, <1>3
<1>5. [previous EXCEPT ![next[last]] = previous[first]][position] = before
  BY <1>1 DEF ListInv, ListTypeOK
<1>6. /\ next' = [next EXCEPT ![a] = b, ![last] = position, ![before] = first]
      /\ previous' = [previous EXCEPT ![b] = a, ![first] = before, ![position] = last]
      /\ linked' = linked
  BY <1>5 DEF Move
<1>7. ListTypeOK'
  BY <1>1, <1>4, <1>6 DEF ListInv, ListTypeOK, Live
<1>8. \A c \in Cells :
        /\ next'[c] = IF c = before THEN first ELSE IF c = last THEN position
                      ELSE IF c = a THEN b ELSE next[c]
        /\ previous'[c] = IF c = position THEN last ELSE IF c = first THEN before
                          ELSE IF c = b THEN a ELSE previous[c]
  BY <1>1, <1>4, <1>6 DEF ListInv, ListTypeOK
<1>9. Live' = Live
  BY <1>6 DEF Live
<1>10. ASSUME NEW c \in Live
       PROVE  /\ next'[c] \in Live /\ previous'[next'[c]] = c
              /\ previous'[c] \in Live /\ next'[previous'[c]] = c
  <2> HIDE DEF a, b, before
  <2>1. next'[c] \in Live /\ previous'[next'[c]] = c
    BY <1>1, <1>2, <1>3, <1>4, <1>8 DEF a, b, before
  <2>2. previous'[c] \in Live /\ next'[previous'[c]] = c
    BY <1>1, <1>2, <1>3, <1>4, <1>8 DEF a, b, before
  <2> QED BY <2>1, <2>2
<1> QED BY <1>7, <1>9, <1>10 DEF ListInv, Threaded, Live

\* enet_list_clear: what is left points nowhere into the list that was cleared.
LEMMA ClearInv ==
    ASSUME ListInv, NEW l \in Lists, NEW S \in SUBSET linked, Clear(l, S)
    PROVE  ListInv'
<1>1. ListTypeOK'
  BY DEF ListInv, ListTypeOK, Clear, Cells
<1>2. \A c \in Cells :
        /\ next'[c] = IF c = l THEN l ELSE next[c]
        /\ previous'[c] = IF c = l THEN l ELSE previous[c]
  BY DEF ListInv, ListTypeOK, Clear, Cells
<1>3. Live' = Live \ S /\ Live \subseteq Cells /\ l \in Live
  BY CellsAssumption DEF ListInv, ListTypeOK, Clear, Live, Cells
<1>4. \A c \in Live : /\ next[c] \in Live /\ previous[next[c]] = c
                      /\ previous[c] \in Live /\ next[previous[c]] = c
  BY DEF ListInv, Threaded, Live
<1>5. \A c \in S \cup {l} : next[c] \in S \cup {l} /\ previous[c] \in S \cup {l}
  BY DEF Clear
<1>6. \A c \in Live' : /\ next'[c] \in Live' /\ previous'[next'[c]] = c
                       /\ previous'[c] \in Live' /\ next'[previous'[c]] = c
  BY <1>2, <1>3, <1>4, <1>5, CellsAssumption DEF ListInv, ListTypeOK
<1> QED BY <1>1, <1>6 DEF ListInv, Threaded, Live

\* Whatever the library does with its lists, the pointers of the nodes in them stay in them
\* and agree in both directions (list.c:13-59).
THEOREM ListsThreaded == ListSpec => []Threaded
<1>1. ListInv /\ [ListNext]_listVars => ListInv'
  <2> SUFFICES ASSUME ListInv, [ListNext]_listVars PROVE ListInv'
    OBVIOUS
  <2>1. CASE \E position \in Cells, n \in Nodes : Insert(position, n)
    BY <2>1, InsertInv
  <2>2. CASE \E n \in Nodes : Remove(n)
    BY <2>2, RemoveInv
  <2>3. CASE \E position \in Cells, S \in SUBSET linked : \E first, last \in S :
                Move(position, first, last, S)
    BY <2>3, MoveInv
  <2>4. CASE \E l \in Lists, S \in SUBSET linked : Clear(l, S)
    BY <2>4, ClearInv
  <2>5. CASE UNCHANGED listVars
    BY <2>5 DEF listVars, ListInv, ListTypeOK, Threaded
  <2> QED BY <2>1, <2>2, <2>3, <2>4, <2>5 DEF ListNext
<1>2. ListInv => Threaded
  BY DEF ListInv
<1> QED BY ListInitInv, <1>1, <1>2, PTL DEF ListSpec

-----------------------------------------------------------------------------
(* The clock.                                                              *)

\* The times in the command are those at which it was sent, and a command that was not due
\* when the host was serviced last is overdue by the pause since then at most.
TimeInv ==
    /\ now \in Word /\ sentTime \in Word /\ nextTimeout \in Word
    /\ timeout \in 1 .. MaxTimeout
    /\ outstanding \in BOOLEAN
    /\ age \in Nat /\ idle \in 0 .. MaxPause
    /\ outstanding =>
        /\ sentTime = Minus(now, age) /\ nextTimeout = Plus(sentTime, timeout)
        /\ age < timeout + idle

LEMMA Constants ==
    /\ Modulus \in Nat \ {0} /\ Overflow \in Nat \ {0} /\ 2 * Overflow <= Modulus
    /\ MaxTimeout \in Nat \ {0} /\ MaxPause \in Nat
    /\ MaxTimeout <= Overflow /\ MaxPause <= Overflow
    /\ 2 * MaxTimeout + MaxPause <= Modulus
  BY ModulusAssumption, TimesAssumption

\* Due is what it would be if times did not wrap.
LEMMA DueExact ==
    ASSUME TimeInv, outstanding
    PROVE  Due <=> age >= timeout
<1>1. age < Modulus /\ timeout <= Overflow /\ age - timeout < Overflow
  BY Constants DEF TimeInv
<1>2. Minus(now, sentTime) = age
  BY <1>1, Constants DEF TimeInv, Minus, Word
<1>3. Minus(now, nextTimeout) = IF age >= timeout THEN age - timeout ELSE age - timeout + Modulus
  BY <1>1, Constants DEF TimeInv, Minus, Plus, Word
<1>4. Difference(now, sentTime) = IF age >= Overflow THEN Modulus - age ELSE age
  BY <1>1, <1>2, Constants DEF TimeInv, Minus, Difference, Word
<1>5. age >= timeout => Due
  <2>1. age >= timeout => GreaterEqual(now, nextTimeout)
    BY <1>1, <1>3, Constants DEF TimeInv, GreaterEqual, Less
  <2>2. age >= timeout => Difference(now, sentTime) >= timeout
    BY <1>4, Constants DEF TimeInv
  <2> QED BY <2>1, <2>2 DEF Due
<1>6. age < timeout => ~ Due
  BY <1>1, <1>4, Constants DEF TimeInv, Due
<1> QED BY <1>5, <1>6 DEF TimeInv

LEMMA TimeInitInv == TimeInit => TimeInv
<1> SUFFICES ASSUME TimeInit PROVE TimeInv
  OBVIOUS
<1>1. /\ now \in Word /\ sentTime \in Word /\ nextTimeout \in Word
      /\ timeout \in 1 .. MaxTimeout /\ age \in Nat /\ idle \in 0 .. MaxPause
  BY Constants DEF TimeInit, Word
<1>2. outstanding = FALSE
  BY DEF TimeInit
<1> QED BY <1>1, <1>2, Zenon DEF TimeInv

LEMMA AdvanceInv ==
    ASSUME TimeInv, NEW d \in 1 .. MaxPause, Advance(d)
    PROVE  TimeInv'
<1>1. /\ now' = Plus(now, d) /\ idle' = idle + d /\ idle + d <= MaxPause
      /\ age' = IF outstanding THEN age + d ELSE 0
      /\ UNCHANGED <<outstanding, sentTime, timeout, nextTimeout>>
  BY DEF Advance
<1>2. now' \in Word
  BY <1>1, Constants DEF TimeInv, Plus, Word
<1>3. outstanding => sentTime = Minus(now', age')
  BY <1>1, Constants DEF TimeInv, Plus, Minus, Word
<1> QED BY <1>1, <1>2, <1>3, Constants DEF TimeInv

LEMMA ServiceInv ==
    ASSUME TimeInv, NEW t \in 1 .. MaxTimeout, ServiceHost(t)
    PROVE  TimeInv' /\ (outstanding' => age' < timeout')
<1>1. CASE outstanding /\ ~ Due
  <2>1. age < timeout
    BY <1>1, DueExact DEF TimeInv
  <2> QED BY <1>1, <2>1, Constants DEF TimeInv, ServiceHost
<1>2. CASE ~ (outstanding /\ ~ Due)
  <2>1. /\ outstanding' = TRUE /\ sentTime' = now /\ timeout' = t
        /\ nextTimeout' = Plus(now, t) /\ age' = 0 /\ idle' = 0 /\ now' = now
    BY <1>2 DEF ServiceHost, SendCommand
  <2> QED BY <2>1, Constants DEF TimeInv, Plus, Minus, Word
<1> QED BY <1>1, <1>2

LEMMA AcknowledgeInv ==
    ASSUME TimeInv, NEW e \in 0 .. MaxEcho, Acknowledge(e)
    PROVE  TimeInv'
<1>1. /\ outstanding' \in BOOLEAN /\ (outstanding' => outstanding /\ age' = age)
      /\ age' \in {0, age}
      /\ UNCHANGED <<now, sentTime, timeout, nextTimeout, idle>>
  BY DEF Acknowledge, TimeInv
<1> QED BY <1>1, Constants DEF TimeInv

\* Once the host was serviced no command is over its timeout, and none is taken for lost
\* before it, for a host that is not left alone for more than ENET_TIME_OVERFLOW
\* (time.h:8-15, protocol.c:1367, 1632).
THEOREM TimeoutsExact == TimeSpec => []TimeoutsOnTime
<1>1. TimeInv /\ [TimeNext]_timeVars => TimeInv'
  <2> SUFFICES ASSUME TimeInv, [TimeNext]_timeVars PROVE TimeInv'
    OBVIOUS
  <2>1. CASE \E d \in 1 .. MaxPause : Advance(d)
    BY <2>1, AdvanceInv
  <2>2. CASE \E t \in 1 .. MaxTimeout : ServiceHost(t)
    BY <2>2, ServiceInv
  <2>3. CASE \E e \in 0 .. MaxEcho : Acknowledge(e)
    BY <2>3, AcknowledgeInv
  <2>4. CASE UNCHANGED timeVars
    BY <2>4 DEF timeVars, TimeInv
  <2> QED BY <2>1, <2>2, <2>3, <2>4 DEF TimeNext
<1>2. TimeInv => TimeoutsOnTime
  BY DueExact, Constants DEF TimeInv, TimeoutsOnTime, TimeoutSeen, NotEarly
<1> QED BY TimeInitInv, <1>1, <1>2, PTL DEF TimeSpec
-----------------------------------------------------------------------------
LEMMA StampFacts ==
    /\ Stamp \in Nat \ {0} /\ Stamp < Overflow
    /\ Stamp \div 2 \in Nat /\ Stamp = 2 * (Stamp \div 2)
    /\ Modulus \div Stamp \in Nat /\ Modulus = Stamp * (Modulus \div Stamp)
    /\ MaxEcho \in 0 .. Stamp - 1
<1>1. /\ Stamp \in Nat \ {0} /\ Stamp < Overflow /\ Modulus \in Nat \ {0}
      /\ Modulus % Stamp = 0 /\ Stamp % 2 = 0 /\ MaxEcho \in 0 .. Stamp - 1
  BY ModulusAssumption, TimesAssumption
<1>2. Stamp \div 2 \in Nat /\ Stamp = 2 * (Stamp \div 2) + (Stamp % 2)
  BY <1>1, DivMod
<1>3. Modulus \div Stamp \in Nat /\ Modulus = Stamp * (Modulus \div Stamp) + (Modulus % Stamp)
  BY <1>1, DivMod
<1>4. Stamp = 2 * (Stamp \div 2)
  BY <1>1, <1>2
<1>5. Modulus = Stamp * (Modulus \div Stamp)
  <2> DEFINE k == Modulus \div Stamp
             r == Modulus % Stamp
  <2>1. k \in Nat /\ Modulus = Stamp * k + r /\ r = 0
    BY <1>1, <1>3
  <2> HIDE DEF k, r
  <2>2. Stamp * k \in Nat
    BY <1>1, <2>1
  <2>3. Modulus = Stamp * k
    BY <2>1, <2>2
  <2> QED BY <2>3 DEF k
<1> QED BY <1>1, <1>2, <1>3, <1>4, <1>5

\* The lower half of the time at which the command was sent, from that of the present one.
LEMMA StampOf ==
    ASSUME now \in Word, NEW e \in 0 .. Stamp - 1
    PROVE  /\ now % Stamp \in 0 .. Stamp - 1 /\ now % Stamp <= now
           /\ now - (now % Stamp) + Stamp <= Modulus
           /\ Minus(now, e) % Stamp = IF e <= now % Stamp THEN (now % Stamp) - e
                                      ELSE (now % Stamp) - e + Stamp
<1> DEFINE r == now % Stamp
           p == now \div Stamp
           k == Modulus \div Stamp
           w == Minus(now, e)
<1>1. /\ Stamp \in Nat \ {0} /\ k \in Nat /\ Modulus = Stamp * k /\ Modulus \in Nat \ {0}
      /\ now \in Nat /\ now < Modulus /\ Stamp < Overflow /\ 2 * Overflow <= Modulus
      /\ Overflow \in Nat
  BY StampFacts, Constants DEF Word
<1>2. p \in Nat /\ r \in 0 .. Stamp - 1 /\ now = Stamp * p + r
  BY <1>1, DivMod
<1>3. e \in Nat /\ e < Stamp /\ e < Modulus
  BY <1>1
<1>4. w \in Nat /\ w = IF e <= now THEN now - e ELSE now - e + Modulus
  BY <1>1, <1>3 DEF Minus
<1> HIDE DEF r, p, k, w
<1>5. Stamp * p \in Nat /\ Stamp * k \in Nat
  BY <1>1, <1>2
<1>6. r <= now
  BY <1>2, <1>5
<1>7. p + 1 <= k
  <2> SUFFICES ASSUME p >= k PROVE FALSE
    BY <1>1, <1>2
  <2>1. p - k \in Nat
    BY <1>1, <1>2
  <2>2. Stamp * (p - k) >= 0 /\ Stamp * (p - k) = Stamp * p - Stamp * k
    BY <1>1, <1>2, <2>1
  <2> QED BY <1>1, <1>2, <1>5, <2>2
<1>8. now - r + Stamp <= Modulus
  <2>1. k - p - 1 \in Nat
    BY <1>1, <1>2, <1>7
  <2>2. Stamp * (k - p - 1) >= 0 /\ Stamp * (k - p - 1) = Stamp * k - Stamp * p - Stamp
    BY <1>1, <1>2, <2>1
  <2> QED BY <1>1, <1>2, <1>5, <2>2
<1>9. \A q \in Int : Stamp * (q - 1) = Stamp * q - Stamp
  BY <1>1
<1>10. ASSUME e <= r PROVE w % Stamp = r - e
  <2> DEFINE u == r - e
  <2>1. u \in 0 .. Stamp - 1
    BY <1>1, <1>2, <1>3, <1>10
  <2>2. w = Stamp * p + u
    BY <1>2, <1>3, <1>4, <1>5, <1>6, <1>10
  <2> HIDE DEF u
  <2>3. Stamp \in Nat \ {0} /\ w \in Nat /\ p \in Int
    BY <1>1, <1>2, <1>4
  <2>4. w % Stamp = u
    BY <2>1, <2>2, <2>3, Divided
  <2> QED BY <2>4 DEF u
<1>11. ASSUME e > r PROVE w % Stamp = r - e + Stamp
  <2> DEFINE u == r - e + Stamp
  <2>1. u \in 0 .. Stamp - 1
    BY <1>1, <1>2, <1>3, <1>11
  <2>2. \E q \in Int : w = Stamp * q + u
    <3>1. CASE p >= 1
      <4>1. p - 1 \in Nat /\ Stamp * (p - 1) = Stamp * p - Stamp
        BY <1>2, <1>9, <3>1
      <4>2. Stamp * (p - 1) >= 0
        BY <1>1, <4>1
      <4>3. e <= now
        BY <1>1, <1>2, <1>3, <1>5, <4>1, <4>2
      <4>4. w = Stamp * (p - 1) + u
        BY <1>1, <1>2, <1>3, <1>4, <1>5, <4>1, <4>3
      <4> QED BY <4>1, <4>4
    <3>2. CASE p = 0
      <4>1. now = r
        BY <1>1, <1>2, <3>2
      <4>2. w = now - e + Modulus
        BY <1>1, <1>2, <1>3, <1>4, <1>11, <4>1
      <4>3. Stamp * (k - 1) = Stamp * k - Stamp /\ k - 1 \in Int
        BY <1>1, <1>9
      <4>4. w = Stamp * (k - 1) + u
        BY <1>1, <1>2, <1>3, <1>5, <4>1, <4>2, <4>3
      <4> QED BY <4>3, <4>4
    <3> QED BY <1>2, <3>1, <3>2
  <2>3. PICK q \in Int : w = Stamp * q + u
    BY <2>2
  <2> HIDE DEF u
  <2>4. Stamp \in Nat \ {0} /\ w \in Nat
    BY <1>1, <1>4
  <2>5. w % Stamp = u
    BY <2>1, <2>3, <2>4, Divided
  <2> QED BY <2>5 DEF u
<1>12. w % Stamp = IF e <= r THEN r - e ELSE r - e + Stamp
  BY <1>2, <1>3, <1>10, <1>11
<1> QED BY <1>2, <1>6, <1>8, <1>12 DEF r, w

\* What is restored is the true time, or one that seems to be in the future.
LEMMA RestoredTime ==
    ASSUME now \in Word, NEW e \in 0 .. MaxEcho
    PROVE  LET received == Restored(Minus(now, e) % Stamp)
           IN  \/ Minus(now, received) = e
               \/ Minus(now, received) >= Overflow /\ e >= Stamp \div 2
<1> DEFINE r == now % Stamp
           h == Stamp \div 2
           stamp == Minus(now, e) % Stamp
           time == now - r + stamp
           received == Restored(stamp)
<1>1. /\ Stamp \in Nat \ {0} /\ h \in Nat /\ Stamp = 2 * h /\ Stamp < Overflow
      /\ Modulus \in Nat \ {0} /\ Overflow \in Nat /\ 2 * Overflow <= Modulus
      /\ now \in Nat /\ now < Modulus /\ e \in Nat /\ e < Stamp
  BY StampFacts, Constants DEF Word
<1>2. e \in 0 .. Stamp - 1
  BY <1>1
<1>3. /\ r \in 0 .. Stamp - 1 /\ r <= now /\ now - r + Stamp <= Modulus
      /\ stamp = IF e <= r THEN r - e ELSE r - e + Stamp
  BY <1>2, StampOf
<1>4. received = IF stamp >= h /\ r < h THEN Minus(time, Stamp) ELSE time
  BY DEF Restored
<1>5. time = now - r + stamp
  OBVIOUS
<1> HIDE DEF r, h, stamp, time, received
<1>6. ASSUME e <= r PROVE Minus(now, received) = e
  <2>1. stamp = r - e /\ time = now - e
    BY <1>1, <1>3, <1>5, <1>6
  <2>2. received = now - e
    BY <1>1, <1>3, <1>4, <2>1
  <2> QED BY <1>1, <1>3, <1>6, <2>2 DEF Minus
<1>7. ASSUME e > r, stamp >= h, r < h PROVE Minus(now, received) = e
  <2>1. time = now - e + Stamp
    BY <1>1, <1>3, <1>5, <1>7
  <2>2. received = Minus(time, Stamp)
    BY <1>4, <1>7
  <2>3. received = IF e <= now THEN now - e ELSE now - e + Modulus
    BY <1>1, <2>1, <2>2 DEF Minus
  <2> QED BY <1>1, <2>3 DEF Minus
<1>8. ASSUME e > r, ~ (stamp >= h /\ r < h)
      PROVE  Minus(now, received) >= Overflow /\ e >= h
  <2>1. received = now - e + Stamp
    BY <1>1, <1>3, <1>4, <1>5, <1>8
  <2>2. Minus(now, received) = e - Stamp + Modulus
    BY <1>1, <2>1 DEF Minus
  <2>3. e >= h
    BY <1>1, <1>3, <1>8
  <2> QED BY <1>1, <2>2, <2>3
<1>9. Minus(now, received) = e \/ (Minus(now, received) >= Overflow /\ e >= h)
  BY <1>1, <1>3, <1>6, <1>7, <1>8
<1> QED BY <1>9 DEF received, h, stamp

MeasuredInv ==
    /\ now \in Word
    /\ measured.true \in Nat
    /\ RoundTripExact

LEMMA AcknowledgeMeasures ==
    ASSUME MeasuredInv, NEW e \in 0 .. MaxEcho, Acknowledge(e)
    PROVE  MeasuredInv'
<1> DEFINE received == Restored(Minus(now, e) % Stamp)
<1>1. now \in Word /\ now' = now
  BY DEF MeasuredInv, Acknowledge
<1>2. measured' = [true |-> e, ignored |-> Less(now, received),
                   rtt |-> IF Less(now, received) THEN 1
                           ELSE IF Difference(now, received) > 1
                                THEN Difference(now, received) ELSE 1]
  BY DEF Acknowledge
<1>3. /\ Stamp \in Nat \ {0} /\ Stamp < Overflow /\ Overflow \in Nat /\ e \in Nat /\ e < Stamp
      /\ Stamp \div 2 \in Nat
  BY StampFacts, Constants
<1>4. \/ Minus(now, received) = e
      \/ Minus(now, received) >= Overflow /\ e >= Stamp \div 2
  BY <1>1, RestoredTime
<1> HIDE DEF received
<1>5. CASE Minus(now, received) = e
  <2>1. ~ Less(now, received) /\ Difference(now, received) = e
    BY <1>3, <1>5 DEF Less, Difference
  <2>2. measured'.true = e /\ measured'.rtt = IF e > 1 THEN e ELSE 1
    BY <1>2, <2>1
  <2>3. ~ measured'.ignored
    BY <1>2, <2>1
  <2> QED BY <1>1, <1>3, <2>2, <2>3 DEF MeasuredInv, RoundTripExact
<1>6. CASE Minus(now, received) >= Overflow /\ e >= Stamp \div 2
  <2>1. Less(now, received)
    BY <1>6 DEF Less
  <2>2. measured'.true = e /\ measured'.ignored
    BY <1>2, <2>1
  <2>3. ~ (e < Stamp \div 2)
    <3> DEFINE h == Stamp \div 2
    <3>1. h \in Nat /\ e >= h
      BY <1>3, <1>6
    <3> HIDE DEF h
    <3>2. ~ (e < h)
      BY <1>3, <3>1
    <3> QED BY <3>2 DEF h
  <2> QED BY <1>1, <1>3, <2>2, <2>3 DEF MeasuredInv, RoundTripExact
<1> QED BY <1>4, <1>5, <1>6

\* From the lower half of a time the true round trip is measured, or the acknowledgement is
\* taken for one from the future and ignored, which happens to none that comes within half
\* the range of a stamp (protocol.c:861-870).
THEOREM RoundTripsExact == TimeSpec => []RoundTripExact
<1>1. TimeInit => MeasuredInv
  BY DEF TimeInit, MeasuredInv, RoundTripExact
<1>2. MeasuredInv /\ [TimeNext]_timeVars => MeasuredInv'
  <2> SUFFICES ASSUME MeasuredInv, [TimeNext]_timeVars PROVE MeasuredInv'
    OBVIOUS
  <2>1. ASSUME NEW d \in 1 .. MaxPause, Advance(d) PROVE MeasuredInv'
    <3>1. now' = Plus(now, d) /\ measured' = measured
      BY <2>1 DEF Advance
    <3>2. now' \in Word
      BY <3>1, Constants DEF MeasuredInv, Plus, Word
    <3> QED BY <3>1, <3>2 DEF MeasuredInv, RoundTripExact
  <2>2. ASSUME NEW t \in 1 .. MaxTimeout, ServiceHost(t) PROVE MeasuredInv'
    BY <2>2 DEF ServiceHost, MeasuredInv, RoundTripExact
  <2>3. ASSUME NEW e \in 0 .. MaxEcho, Acknowledge(e) PROVE MeasuredInv'
    BY <2>3, AcknowledgeMeasures
  <2>4. CASE UNCHANGED timeVars
    BY <2>4 DEF timeVars, MeasuredInv, RoundTripExact
  <2> QED BY <2>1, <2>2, <2>3, <2>4 DEF TimeNext
<1>3. MeasuredInv => RoundTripExact
  BY DEF MeasuredInv
<1> QED BY <1>1, <1>2, <1>3, PTL DEF TimeSpec

-----------------------------------------------------------------------------
(* Proofs about the filter in front of unsequenced packets, for windows of *)
(* every number and size.                                                  *)
(*                                                                         *)
(* The filter compares group numbers, which wrap; the argument is about    *)
(* the packets' places in the order of sending, which do not.  Base(n) is  *)
(* the first packet of n's window.  The window is that of the newest       *)
(* packet, so what the filter sees is the distance of a packet from        *)
(* Base(newest), modulo all windows; and what the network may do keeps     *)
(* that distance inside one turn of them.                                  *)

Base(n) == n - (n % WindowSize)

LEMMA FilterSizes ==
    /\ Windows \in Nat \ {0} /\ WindowSize \in Nat \ {0} /\ FreeWindows \in 1 .. Windows
    /\ Lifetime \in Nat \ {0} /\ Burst \in Nat /\ MaxSent \in Nat
  BY FilterAssumption

LEMMA GroupsNat == Groups \in Nat \ {0} /\ Groups = WindowSize * Windows
<1>1. \A x, y \in Nat \ {0} : x * y \in Nat \ {0} /\ x * y = y * x
  OBVIOUS
<1> QED BY <1>1, FilterSizes DEF Groups

\* What the network may do, counted in packets of the free windows.
LEMMA Reach ==
    /\ FreeWindows * WindowSize \in Nat
    /\ FreeWindows * WindowSize >= WindowSize
    /\ FreeWindows * WindowSize <= Groups
    /\ Lifetime - 1 + FreeWindows * WindowSize <= Groups
    /\ Burst + WindowSize <= FreeWindows * WindowSize
<1>1. \A w, s, f \in Nat : (w - f) * s = w * s - f * s /\ (f - 1) * s = f * s - s
  OBVIOUS
<1>2. \A w, s, f \in Nat : w * s \in Nat /\ (f <= w => f * s <= w * s) /\ (f >= 1 => f * s >= s)
  <2> SUFFICES ASSUME NEW w \in Nat, NEW s \in Nat, NEW f \in Nat
               PROVE  w * s \in Nat /\ (f <= w => f * s <= w * s) /\ (f >= 1 => f * s >= s)
    OBVIOUS
  <2>1. f <= w => f * s <= w * s
    <3> SUFFICES ASSUME f <= w PROVE f * s <= w * s
      OBVIOUS
    <3>1. w - f \in Nat
      OBVIOUS
    <3>2. (w - f) * s >= 0
      BY <3>1
    <3> QED BY <3>2, <1>1
  <2>2. f >= 1 => f * s >= s
    <3> SUFFICES ASSUME f >= 1 PROVE f * s >= s
      OBVIOUS
    <3>1. f - 1 \in Nat
      OBVIOUS
    <3>2. (f - 1) * s >= 0
      BY <3>1
    <3> QED BY <3>2, <1>1
  <2> QED BY <2>1, <2>2
<1> DEFINE F == FreeWindows * WindowSize
           W == Windows * WindowSize
<1>3. F \in Nat /\ W \in Nat /\ F <= W /\ F >= WindowSize
  BY <1>2, FilterSizes
<1>4. (Windows - FreeWindows) * WindowSize = W - F /\ (FreeWindows - 1) * WindowSize = F - WindowSize
  BY <1>1, FilterSizes
<1>5. Lifetime <= W - F + 1 /\ Burst <= F - WindowSize
  BY <1>4, NetworkAssumption
<1>6. W = Groups
  BY DEF Groups
<1> HIDE DEF F, W
<1>7. Lifetime - 1 + F <= W /\ Burst + WindowSize <= F
  BY <1>3, <1>5, FilterSizes
<1> QED BY <1>3, <1>6, <1>7 DEF F

LEMMA BaseNat ==
    ASSUME NEW n \in Nat
    PROVE  /\ Base(n) \in Nat /\ Base(n) <= n /\ n - Base(n) = n % WindowSize
           /\ n % WindowSize \in 0 .. WindowSize - 1 /\ n % WindowSize \in Nat
           /\ Base(n) % WindowSize = 0
<1>1. n \div WindowSize \in Nat /\ n % WindowSize \in 0 .. WindowSize - 1
      /\ n = WindowSize * (n \div WindowSize) + (n % WindowSize)
  BY DivMod, FilterSizes
<1> DEFINE q == n \div WindowSize
           r == n % WindowSize
           b == Base(n)
<1>2. b = n - r
  BY DEF Base
<1> HIDE DEF q, r, b
<1>3. q \in Nat /\ r \in 0 .. WindowSize - 1 /\ n = WindowSize * q + r
  BY <1>1 DEF q, r
<1>4. WindowSize * q \in Nat
  BY <1>3, FilterSizes
<1>5. b = WindowSize * q + 0 /\ b \in Nat /\ b <= n /\ n - b = r
  BY <1>2, <1>3, <1>4, FilterSizes
<1>6. 0 \in 0 .. WindowSize - 1
  BY FilterSizes
<1>7. b % WindowSize = 0
  BY <1>3, <1>5, <1>6, FilterSizes, Divided
<1>8. r \in Nat
  BY <1>3, FilterSizes
<1> QED BY <1>3, <1>5, <1>7, <1>8 DEF b, r

\* A group number says where in its window the packet is and where the window starts.
LEMMA GroupDigits ==
    ASSUME NEW a \in Nat, NEW b \in 0 .. Windows - 1, NEW r \in 0 .. WindowSize - 1,
           NEW n \in Nat, n = WindowSize * (Windows * a + b) + r
    PROVE  Group(n) = b * WindowSize + r /\ Index(Group(n)) = r
<1>1. Groups = WindowSize * Windows /\ Groups \in Nat \ {0}
  BY GroupsNat
<1>2. /\ n \div Groups = a
      /\ n % Groups = WindowSize * b + r
      /\ (n % Groups) \div WindowSize = b
      /\ (n % Groups) % WindowSize = r
  <2>1. WindowSize \in Nat \ {0} /\ Windows \in Nat \ {0} /\ Groups \in Nat \ {0}
    BY <1>1, FilterSizes
  <2>2. Groups = WindowSize * Windows
    BY <1>1
  <2>3. n = WindowSize * (Windows * a + b) + r
    OBVIOUS
  <2> QED BY ONLY <2>1, <2>2, <2>3, Cycle, a \in Nat, b \in 0 .. Windows - 1,
                 r \in 0 .. WindowSize - 1, n \in Nat
<1>3. WindowSize * b = b * WindowSize
  <2>1. b \in Int
    BY FilterSizes
  <2>2. \A x, y \in Int : x * y = y * x
    OBVIOUS
  <2> QED BY <2>1, <2>2, FilterSizes
<1> QED BY <1>2, <1>3 DEF Group, Index

LEMMA GroupPlace ==
    ASSUME NEW n \in Nat
    PROVE  /\ Group(n) \in 0 .. Groups - 1
           /\ Index(Group(n)) = n % WindowSize
           /\ Group(n) - Index(Group(n)) = Group(Base(n))
           /\ \E w \in 0 .. Windows - 1 : Group(Base(n)) = w * WindowSize
<1> DEFINE q == n \div WindowSize
           r == n % WindowSize
           a == q \div Windows
           b == q % Windows
<1>1. q \in Nat /\ r \in 0 .. WindowSize - 1 /\ n = WindowSize * q + r
  BY DivMod, FilterSizes
<1>2. Base(n) = n - r
  BY DEF Base
<1>3. Base(n) \in Nat
  BY BaseNat
<1> HIDE DEF q, r
<1>4. a \in Nat /\ b \in 0 .. Windows - 1 /\ q = Windows * a + b
  BY <1>1, DivMod, FilterSizes
<1> HIDE DEF a, b
<1>5. n = WindowSize * (Windows * a + b) + r
  BY <1>1, <1>4
<1>6. Group(n) = b * WindowSize + r /\ Index(Group(n)) = r
  BY <1>1, <1>4, <1>5, GroupDigits
<1>7. Base(n) = WindowSize * (Windows * a + b) + 0
  <2>1. WindowSize * q \in Int
    BY <1>1, FilterSizes
  <2>2. Base(n) = WindowSize * q + 0
    BY <2>1, <1>1, <1>2
  <2> QED BY <2>2, <1>4
<1>8. 0 \in 0 .. WindowSize - 1
  BY FilterSizes
<1>9. Group(Base(n)) = b * WindowSize + 0
  BY <1>3, <1>4, <1>7, <1>8, GroupDigits
<1>10. b * WindowSize \in Int
  <2>1. b \in Int
    BY <1>4, FilterSizes
  <2>2. \A x, y \in Int : x * y \in Int
    OBVIOUS
  <2> QED BY <2>1, <2>2, FilterSizes
<1>11. Group(n) \in 0 .. Groups - 1
  BY DivMod, GroupsNat DEF Group
<1> QED BY <1>1, <1>4, <1>6, <1>9, <1>10, <1>11 DEF r

\* How far ahead of b a packet looks.
LEMMA LooksAhead ==
    ASSUME NEW b \in Nat, NEW n \in Nat, b <= n, n - b < Groups
    PROVE  Group(n) + (IF Group(n) < Group(b) THEN Groups ELSE 0) = Group(b) + (n - b)
<1> DEFINE p == b \div Groups
           q == n \div Groups
           r == Group(b)
           s == Group(n)
<1>1. /\ p \in Nat /\ r \in 0 .. Groups - 1 /\ b = Groups * p + r
      /\ q \in Nat /\ s \in 0 .. Groups - 1 /\ n = Groups * q + s
  BY DivMod, GroupsNat DEF Group
<1>2. q = IF s < r THEN p + 1 ELSE p
  BY Wrapped, GroupsNat DEF Group
<1> HIDE DEF p, q, r, s
<1>3. Groups * (p + 1) = Groups * p + Groups /\ Groups * p \in Int
  BY <1>1, GroupsNat
<1>4. ASSUME s < r PROVE s + Groups = r + (n - b)
  BY <1>1, <1>2, <1>3, <1>4, GroupsNat
<1>5. ASSUME ~ (s < r) PROVE s + 0 = r + (n - b)
  BY <1>1, <1>2, <1>3, <1>5, GroupsNat
<1>6. s + (IF s < r THEN Groups ELSE 0) = r + (n - b)
  BY <1>4, <1>5
<1> QED BY <1>6 DEF r, s

LEMMA LooksBehind ==
    ASSUME NEW b \in Nat, NEW n \in Nat, n < b, b - n < Groups
    PROVE  Group(n) + (IF Group(n) < Group(b) THEN Groups ELSE 0) = Group(b) + (n - b) + Groups
<1> DEFINE m == n + Groups
<1>1. m \in Nat /\ b <= m /\ m - b < Groups
  BY GroupsNat
<1>2. Group(m) = Group(n)
  <2> DEFINE q == n \div Groups
             s == Group(n)
  <2>1. q \in Nat /\ s \in 0 .. Groups - 1 /\ n = Groups * q + s
    BY DivMod, GroupsNat DEF Group
  <2> HIDE DEF q, s
  <2>2. m = Groups * (q + 1) + s /\ q + 1 \in Int
    <3>1. Groups * (q + 1) = Groups * q + Groups /\ Groups * q \in Int
      BY <2>1, GroupsNat
    <3> QED BY <3>1, <2>1, GroupsNat
  <2> HIDE DEF m
  <2>3. m % Groups = s
    BY <1>1, <2>1, <2>2, GroupsNat, Divided
  <2> QED BY <2>3 DEF s, Group
<1>3. Group(m) + (IF Group(m) < Group(b) THEN Groups ELSE 0) = Group(b) + (m - b)
  BY <1>1, LooksAhead
<1>4. Group(b) \in 0 .. Groups - 1
  BY GroupPlace
<1> QED BY <1>2, <1>3, <1>4, GroupsNat

LEMMA BaseMonotone ==
    ASSUME NEW m \in Nat, NEW n \in Nat, m <= n
    PROVE  Base(m) <= Base(n)
<1> DEFINE p == m \div WindowSize
           q == n \div WindowSize
           r == m % WindowSize
           s == n % WindowSize
<1>1. /\ p \in Nat /\ m = WindowSize * p + r /\ r \in 0 .. WindowSize - 1
      /\ q \in Nat /\ n = WindowSize * q + s /\ s \in 0 .. WindowSize - 1
  BY DivMod, FilterSizes
<1>2. p <= q
  BY DivMonotone, FilterSizes
<1>3. Base(m) = m - r /\ Base(n) = n - s
  BY DEF Base
<1> HIDE DEF p, q, r, s
<1>4. q - p \in Nat
  BY <1>1, <1>2
<1>5. WindowSize * (q - p) >= 0 /\ WindowSize * (q - p) = WindowSize * q - WindowSize * p
  BY <1>1, <1>4, FilterSizes
<1>6. WindowSize * p \in Int /\ WindowSize * q \in Int
  BY <1>1, FilterSizes
<1>7. Base(m) = WindowSize * p /\ Base(n) = WindowSize * q
  BY <1>1, <1>3, <1>6
<1> QED BY <1>5, <1>6, <1>7

\* What lies between a packet and the start of its window is in that window.
LEMMA SameBase ==
    ASSUME NEW m \in Nat, NEW n \in Nat, Base(n) <= m, m <= n
    PROVE  Base(m) = Base(n)
<1>1. Base(m) <= Base(n)
  BY BaseMonotone
<1>2. Base(n) \in Nat /\ Base(n) % WindowSize = 0 /\ Base(m) \in Nat /\ m \in Nat
  BY BaseNat
<1>3. Base(Base(n)) <= Base(m)
  BY <1>2, BaseMonotone
<1>4. Base(Base(n)) = Base(n)
  BY <1>2 DEF Base
<1> QED BY <1>1, <1>2, <1>3, <1>4

-----------------------------------------------------------------------------
\* The window is that of the newest packet, with no bits beyond its own; it has the bit of
\* every packet in it that was queued, and none newer was.
FilterInv ==
    /\ sentCount \in 0 .. MaxSent
    /\ newest \in 0 .. sentCount
    /\ sentCount - newest <= Burst
    /\ incoming = Group(Base(newest))
    /\ window \subseteq 0 .. (newest % WindowSize)
    /\ copies \in [AliveAt(sentCount) -> {0, 1}]
    /\ \A n \in AliveAt(sentCount) :
        copies[n] = 1 => n <= newest /\ (n >= Base(newest) => n % WindowSize \in window)

LEMMA AliveFacts ==
    ASSUME FilterInv, NEW n \in AliveAt(sentCount)
    PROVE  /\ n \in Nat /\ n <= sentCount /\ sentCount - n < Lifetime
           /\ newest \in Nat /\ Base(newest) \in Nat /\ Base(newest) <= newest
           /\ sentCount \in Nat
           /\ n - Base(newest) < FreeWindows * WindowSize
           /\ Base(newest) - n <= Groups - FreeWindows * WindowSize
<1>1. sentCount \in Nat /\ newest \in Nat /\ newest <= sentCount /\ sentCount - newest <= Burst
  BY FilterSizes DEF FilterInv
<1>2. n \in Nat /\ n <= sentCount /\ sentCount - n < Lifetime
  BY <1>1 DEF AliveAt
<1> DEFINE B == Base(newest)
           F == FreeWindows * WindowSize
<1>3. B \in Nat /\ B <= newest /\ newest - B <= WindowSize - 1
  <2> DEFINE r == newest % WindowSize
  <2>1. B \in Nat /\ B <= newest /\ newest - B = r /\ r \in 0 .. WindowSize - 1
    BY <1>1, BaseNat
  <2> HIDE DEF B, r
  <2> QED BY <1>1, <2>1, FilterSizes
<1>4. F \in Nat /\ Lifetime - 1 + F <= Groups /\ Burst + WindowSize <= F
  BY Reach
<1> HIDE DEF B, F
<1>5. n - B < F /\ B - n <= Groups - F
  BY <1>1, <1>2, <1>3, <1>4, FilterSizes, GroupsNat
<1> QED BY <1>1, <1>2, <1>3, <1>5 DEF B, F

\* The filter lets through what is not older than its window.
LEMMA InRangeMeans ==
    ASSUME FilterInv, NEW n \in AliveAt(sentCount)
    PROVE  InRange(Group(n)) <=> n >= Base(newest)
<1> DEFINE B == Base(newest)
           F == FreeWindows * WindowSize
           look == Group(n) + (IF Group(n) < Group(B) THEN Groups ELSE 0)
           G == Group(B)
<1>1. n \in Nat /\ B \in Nat /\ n - B < F /\ B - n <= Groups - F
  BY AliveFacts
<1>2. F \in Nat /\ F <= Groups /\ F >= WindowSize
  BY Reach
<1>3. G \in Nat
  BY <1>1, GroupPlace, GroupsNat
<1>4. InRange(Group(n)) <=> look < G + F
  BY DEF InRange, FilterInv
<1>5. n >= B => look = G + (n - B)
  BY <1>1, <1>2, GroupsNat, LooksAhead
<1>6. n < B => look = G + (n - B) + Groups
  <2> SUFFICES ASSUME n < B PROVE look = G + (n - B) + Groups
    OBVIOUS
  <2>1. B - n < Groups
    <3> HIDE DEF B, F
    <3> QED BY <1>1, <1>2, FilterSizes, GroupsNat
  <2> QED BY <1>1, <2>1, LooksBehind
<1> HIDE DEF B, F, look, G
<1>7. (look < G + F) <=> n >= B
  <2>1. CASE n >= B
    BY <1>1, <1>2, <1>3, <1>5, <2>1
  <2>2. CASE n < B
    BY <1>1, <1>2, <1>3, <1>6, <2>2, GroupsNat
  <2> QED BY <1>1, <2>1, <2>2
<1> QED BY <1>4, <1>7 DEF B

\* It clears its bits exactly when the packet is of a later window.
LEMMA ClearedMeans ==
    ASSUME FilterInv, NEW n \in AliveAt(sentCount), n >= Base(newest)
    PROVE  Cleared(Group(n) - Index(Group(n)))
             = IF Base(n) # Base(newest) THEN {} ELSE window
<1>1. /\ n \in Nat /\ newest \in Nat /\ Base(newest) \in Nat
      /\ n - Base(newest) < FreeWindows * WindowSize
  BY AliveFacts
<1>2. Base(n) \in Nat /\ Base(n) <= n
  BY <1>1, BaseNat
<1>3. Base(n) >= Base(newest)
  <2>1. Base(Base(newest)) <= Base(n)
    BY <1>1, BaseMonotone
  <2>2. Base(newest) % WindowSize = 0
    BY <1>1, BaseNat
  <2>3. Base(Base(newest)) = Base(newest)
    BY <1>1, <2>2 DEF Base
  <2> QED BY <2>1, <2>3
<1>4. Group(Base(n)) = Group(Base(newest)) => Base(n) = Base(newest)
  <2> SUFFICES ASSUME Group(Base(n)) = Group(Base(newest)) PROVE Base(n) = Base(newest)
    OBVIOUS
  <2> DEFINE b == Base(n)
             B == Base(newest)
             F == FreeWindows * WindowSize
  <2>1. b \in Nat /\ B \in Nat /\ b % Groups = B % Groups
    BY <1>1, <1>2 DEF Group
  <2>2. F \in Nat /\ F <= Groups
    BY Reach
  <2>3. b <= n /\ b >= B /\ n - B < F
    BY <1>1, <1>2, <1>3
  <2> HIDE DEF b, B, F
  <2>4. b - B < Groups /\ B - b < Groups
    BY <1>1, <2>1, <2>2, <2>3, GroupsNat
  <2>5. b = B
    BY <2>1, <2>4, GroupsNat, ModApart
  <2> QED BY <2>5 DEF b, B
<1>5. Group(n) - Index(Group(n)) = Group(Base(n))
  BY <1>1, GroupPlace
<1>6. incoming = Group(Base(newest))
  BY DEF FilterInv
<1> QED BY <1>4, <1>5, <1>6 DEF Cleared

\* A packet newer than all before it finds its bit clear.
LEMMA NewerIsTaken ==
    ASSUME FilterInv, NEW n \in AliveAt(sentCount), n > newest
    PROVE  /\ Accepts(Group(n)) /\ InRange(Group(n)) /\ n >= Base(newest)
           /\ Cleared(Group(n) - Index(Group(n))) \subseteq 0 .. (n % WindowSize)
<1>1. /\ n \in Nat /\ newest \in Nat /\ Base(newest) \in Nat /\ Base(newest) <= newest
  BY AliveFacts
<1>2. n >= Base(newest)
  BY <1>1
<1>3. InRange(Group(n))
  BY <1>2, InRangeMeans
<1>4. Index(Group(n)) = n % WindowSize
  BY <1>1, GroupPlace
<1> DEFINE C == Cleared(Group(n) - Index(Group(n)))
<1>5. C = IF Base(n) # Base(newest) THEN {} ELSE window
  BY <1>2, ClearedMeans
<1>6. CASE Base(n) # Base(newest)
  <2>1. C = {}
    BY <1>5, <1>6
  <2> QED BY <1>2, <1>3, <2>1 DEF Accepts
<1>7. CASE Base(n) = Base(newest)
  <2>1. C = window /\ window \subseteq 0 .. (newest % WindowSize)
    BY <1>5, <1>7 DEF FilterInv
  <2>2. /\ n - Base(n) = n % WindowSize /\ newest - Base(newest) = newest % WindowSize
        /\ n % WindowSize \in Nat /\ newest % WindowSize \in Nat
    BY <1>1, BaseNat
  <2>3. newest % WindowSize < n % WindowSize
    <3> DEFINE r == n % WindowSize
               s == newest % WindowSize
               b == Base(n)
    <3>1. n - b = r /\ newest - b = s /\ r \in Nat /\ s \in Nat /\ b \in Nat
      BY <1>1, <1>7, <2>2
    <3> HIDE DEF r, s, b
    <3>2. s < r
      BY <1>1, <3>1
    <3> QED BY <3>2 DEF r, s
  <2>4. n % WindowSize \notin window /\ window \subseteq 0 .. (n % WindowSize)
    BY <2>1, <2>2, <2>3
  <2> HIDE DEF C
  <2>5. Index(Group(n)) \notin C /\ C \subseteq 0 .. (n % WindowSize)
    BY <1>4, <2>1, <2>4
  <2> QED BY <1>2, <1>3, <2>5 DEF Accepts, C
<1> QED BY <1>6, <1>7

-----------------------------------------------------------------------------
LEMMA FilterStarts ==
    ASSUME FilterInit
    PROVE  FilterInv
<1>1. sentCount = 0 /\ incoming = 0 /\ window = {} /\ copies = [n \in {} |-> 0] /\ newest = 0
  BY DEF FilterInit
<1>2. AliveAt(sentCount) = {}
  BY <1>1 DEF AliveAt
<1>3. Group(Base(newest)) = 0
  <2>1. 0 % WindowSize = 0 /\ 0 % Groups = 0
    <3>1. 0 = WindowSize * 0 + 0 /\ 0 \in 0 .. WindowSize - 1 /\ 0 \in Int
      BY FilterSizes
    <3>2. 0 = Groups * 0 + 0 /\ 0 \in 0 .. Groups - 1
      BY GroupsNat
    <3> QED BY <3>1, <3>2, FilterSizes, GroupsNat, Divided
  <2> QED BY <1>1, <2>1 DEF Base, Group
<1> QED BY <1>1, <1>2, <1>3, FilterSizes DEF FilterInv

LEMMA SendKeeps ==
    ASSUME FilterInv, SendGroup
    PROVE  FilterInv'
<1>1. /\ sentCount < MaxSent /\ sentCount - newest < Burst /\ sentCount' = sentCount + 1
      /\ copies' = [n \in AliveAt(sentCount + 1) |->
                      IF n \in DOMAIN copies THEN copies[n] ELSE 0]
      /\ incoming' = incoming /\ window' = window /\ newest' = newest
  BY DEF SendGroup
<1>2. sentCount \in 0 .. MaxSent /\ newest \in 0 .. sentCount
  BY DEF FilterInv
<1>3. sentCount' \in 0 .. MaxSent /\ newest' \in 0 .. sentCount' /\ sentCount' - newest' <= Burst
  BY <1>1, <1>2, FilterSizes
<1>4. copies \in [AliveAt(sentCount) -> {0, 1}]
  BY DEF FilterInv
<1>5. copies' \in [AliveAt(sentCount') -> {0, 1}]
  BY <1>1, <1>4
<1>6. ASSUME NEW n \in AliveAt(sentCount'), copies'[n] = 1
      PROVE  n <= newest' /\ (n >= Base(newest') => n % WindowSize \in window')
  <2>1. n \in AliveAt(sentCount) /\ copies[n] = 1
    BY <1>1, <1>4, <1>6
  <2> QED BY <1>1, <2>1 DEF FilterInv
<1>7. incoming' = Group(Base(newest')) /\ window' \subseteq 0 .. (newest' % WindowSize)
  BY <1>1 DEF FilterInv
<1> QED BY <1>3, <1>5, <1>6, <1>7 DEF FilterInv

\* What arrives from before the window changes nothing.
LEMMA LateKeeps ==
    ASSUME FilterInv, NEW n \in DOMAIN copies, NEW room \in BOOLEAN, ReceiveGroup(n, room),
           ~ InRange(Group(n))
    PROVE  FilterInv'
<1>1. UNCHANGED filterVars
  BY DEF ReceiveGroup, Accepts, filterVars
<1> QED BY <1>1 DEF FilterInv, AliveAt, filterVars

\* What arrives for the window leaves it where it is and is queued if its bit is clear.
LEMMA PresentKeeps ==
    ASSUME FilterInv, NEW n \in DOMAIN copies, NEW room \in BOOLEAN, ReceiveGroup(n, room),
           n >= Base(newest), n <= newest
    PROVE  FilterInv'
<1> DEFINE new == Accepts(Group(n)) /\ room
<1>1. copies \in [AliveAt(sentCount) -> {0, 1}] /\ n \in AliveAt(sentCount)
  BY DEF FilterInv
<1>2. n \in Nat /\ newest \in Nat /\ Base(newest) \in Nat /\ Base(newest) <= newest
  BY <1>1, AliveFacts
<1>3. InRange(Group(n))
  BY <1>1, InRangeMeans
<1>4. Base(n) = Base(newest)
  BY <1>2, SameBase
<1>5. Cleared(Group(n) - Index(Group(n))) = window
  BY <1>1, <1>4, ClearedMeans
<1>6. Index(Group(n)) = n % WindowSize /\ Group(n) - Index(Group(n)) = Group(Base(n))
  BY <1>2, GroupPlace
<1>7. new <=> (n % WindowSize \notin window /\ room)
  BY <1>3, <1>5, <1>6 DEF Accepts
<1>8. sentCount' = sentCount /\ newest' = newest /\ incoming' = Group(Base(newest))
  BY <1>2, <1>3, <1>4, <1>6 DEF ReceiveGroup
<1>9. window' = IF new THEN window \cup {n % WindowSize} ELSE window
  BY <1>3, <1>5, <1>6 DEF ReceiveGroup
<1>10. copies' = IF new THEN [copies EXCEPT ![n] = @ + 1] ELSE copies
  BY DEF ReceiveGroup
<1>11. new => copies[n] = 0
  BY <1>1, <1>7 DEF FilterInv
<1>12. n % WindowSize \in 0 .. (newest % WindowSize)
  <2> DEFINE r == n % WindowSize
             s == newest % WindowSize
             b == Base(n)
  <2>1. n - b = r /\ newest - b = s /\ r \in Nat /\ s \in Nat /\ b \in Nat
    BY <1>2, <1>4, BaseNat
  <2> HIDE DEF r, s, b
  <2>2. r \in 0 .. s
    BY <1>2, <2>1
  <2> QED BY <2>2 DEF r, s
<1> HIDE DEF new
<1>13. window' \subseteq 0 .. (newest % WindowSize)
  BY <1>9, <1>12 DEF FilterInv
<1>14. copies' \in [AliveAt(sentCount) -> {0, 1}]
  BY <1>1, <1>10, <1>11
<1>15. ASSUME NEW m \in AliveAt(sentCount), copies'[m] = 1
       PROVE  m <= newest /\ (m >= Base(newest) => m % WindowSize \in window')
  <2>1. CASE new /\ m = n
    BY <1>9, <2>1
  <2>2. CASE ~ (new /\ m = n)
    <3>1. copies[m] = 1
      BY <1>1, <1>10, <1>15, <2>2
    <3>2. window \subseteq window'
      BY <1>9
    <3> QED BY <3>1, <3>2 DEF FilterInv
  <2> QED BY <2>1, <2>2
<1>16. sentCount \in 0 .. MaxSent /\ newest \in 0 .. sentCount /\ sentCount - newest <= Burst
  BY DEF FilterInv
<1> QED BY <1>8, <1>13, <1>14, <1>15, <1>16 DEF FilterInv

\* A packet newer than all before it takes the window with it.
LEMMA NewerKeeps ==
    ASSUME FilterInv, NEW n \in DOMAIN copies, NEW room \in BOOLEAN, ReceiveGroup(n, room),
           n > newest
    PROVE  FilterInv'
<1> DEFINE new == Accepts(Group(n)) /\ room
           C == Cleared(Group(n) - Index(Group(n)))
<1>1. copies \in [AliveAt(sentCount) -> {0, 1}] /\ n \in AliveAt(sentCount)
  BY DEF FilterInv
<1>2. /\ n \in Nat /\ newest \in Nat /\ Base(newest) \in Nat /\ Base(newest) <= newest
      /\ n <= sentCount /\ sentCount \in Nat
  BY <1>1, AliveFacts
<1>3. InRange(Group(n)) /\ n >= Base(newest) /\ C \subseteq 0 .. (n % WindowSize)
  BY <1>1, NewerIsTaken
<1>4. C = IF Base(n) # Base(newest) THEN {} ELSE window
  BY <1>1, <1>3, ClearedMeans
<1>5. Index(Group(n)) = n % WindowSize /\ Group(n) - Index(Group(n)) = Group(Base(n))
  BY <1>2, GroupPlace
<1>6. sentCount' = sentCount /\ newest' = n /\ incoming' = Group(Base(n))
  BY <1>3, <1>5 DEF ReceiveGroup
<1>7. window' = IF new THEN C \cup {n % WindowSize} ELSE C
  BY <1>3, <1>5 DEF ReceiveGroup
<1>8. copies' = IF new THEN [copies EXCEPT ![n] = @ + 1] ELSE copies
  BY DEF ReceiveGroup
<1>9. copies[n] = 0
  <2>1. copies[n] # 1
    BY <1>1, <1>2 DEF FilterInv
  <2> QED BY <1>1, <2>1
<1>10. n % WindowSize \in 0 .. (n % WindowSize)
  <2>1. n % WindowSize \in Nat
    BY <1>2, BaseNat
  <2> QED BY <2>1
<1> HIDE DEF new, C
<1>11. window' \subseteq 0 .. (n % WindowSize)
  BY <1>3, <1>7, <1>10
<1>12. copies' \in [AliveAt(sentCount) -> {0, 1}]
  BY <1>1, <1>8, <1>9
<1>13. ASSUME NEW m \in AliveAt(sentCount), copies'[m] = 1
       PROVE  m <= n /\ (m >= Base(n) => m % WindowSize \in window')
  <2>1. CASE new /\ m = n
    BY <1>2, <1>7, <2>1
  <2>2. CASE ~ (new /\ m = n)
    <3>1. copies[m] = 1
      BY <1>1, <1>8, <1>13, <2>2
    <3>2. m <= newest /\ (m >= Base(newest) => m % WindowSize \in window) /\ m \in Nat
      BY <1>2, <3>1 DEF FilterInv, AliveAt
    <3>3. m <= n
      BY <1>2, <3>2
    <3>4. ASSUME m >= Base(n) PROVE m % WindowSize \in window'
      <4>1. Base(m) = Base(n)
        BY <1>2, <3>2, <3>3, <3>4, SameBase
      <4>2. Base(m) <= Base(newest) /\ Base(newest) <= Base(n)
        BY <1>2, <3>2, BaseMonotone
      <4>3. Base(m) \in Nat /\ Base(n) \in Nat
        BY <1>2, <3>2, BaseNat
      <4>4. Base(n) = Base(newest)
        BY <1>2, <4>1, <4>2, <4>3
      <4>5. m % WindowSize \in window
        BY <3>2, <3>4, <4>4
      <4> QED BY <1>4, <1>7, <4>4, <4>5
    <3> QED BY <3>3, <3>4
  <2> QED BY <2>1, <2>2
<1>14. sentCount \in 0 .. MaxSent /\ n \in 0 .. sentCount /\ sentCount - n <= Burst
  BY <1>2, FilterSizes DEF FilterInv
<1> QED BY <1>6, <1>11, <1>12, <1>13, <1>14 DEF FilterInv

LEMMA FilterStep ==
    ASSUME FilterInv, [FilterNext]_filterVars
    PROVE  FilterInv'
<1>1. CASE SendGroup
  BY <1>1, SendKeeps
<1>2. ASSUME NEW n \in DOMAIN copies, NEW room \in BOOLEAN, ReceiveGroup(n, room)
      PROVE  FilterInv'
  <2>1. n \in AliveAt(sentCount)
    BY DEF FilterInv
  <2>2. n \in Nat /\ newest \in Nat /\ Base(newest) \in Nat
    BY <2>1, AliveFacts
  <2>3. CASE ~ InRange(Group(n))
    BY <1>2, <2>3, LateKeeps
  <2>4. CASE n >= Base(newest) /\ n <= newest
    BY <1>2, <2>4, PresentKeeps
  <2>5. CASE n > newest
    BY <1>2, <2>5, NewerKeeps
  <2>6. InRange(Group(n)) => n >= Base(newest)
    BY <2>1, InRangeMeans
  <2> QED BY <2>2, <2>3, <2>4, <2>5, <2>6
<1>3. CASE UNCHANGED filterVars
  BY <1>3 DEF FilterInv, AliveAt, filterVars
<1> QED BY <1>1, <1>2, <1>3 DEF FilterNext

LEMMA FilterInvariant == FilterSpec => []FilterInv
<1>1. FilterInit => FilterInv
  BY FilterStarts
<1>2. FilterInv /\ [FilterNext]_filterVars => FilterInv'
  BY FilterStep
<1> QED BY <1>1, <1>2, PTL DEF FilterSpec

-----------------------------------------------------------------------------
\* Every variable of the filter keeps its type; the window starts at a multiple of its size.
THEOREM FilterTyped == FilterSpec => []FilterTypeOK
<1>1. FilterInv => FilterTypeOK
  <2> SUFFICES ASSUME FilterInv PROVE FilterTypeOK
    OBVIOUS
  <2>1. sentCount \in 0 .. MaxSent /\ newest \in 0 .. sentCount /\ newest \in Nat
    BY FilterSizes DEF FilterInv
  <2>2. incoming \in {w * WindowSize : w \in 0 .. Windows - 1}
    <3>1. \E w \in 0 .. Windows - 1 : incoming = w * WindowSize
      BY <2>1, GroupPlace DEF FilterInv
    <3> QED BY <3>1
  <2>3. window \subseteq 0 .. WindowSize - 1
    <3>1. newest % WindowSize \in 0 .. WindowSize - 1
      BY <2>1, BaseNat
    <3> DEFINE r == newest % WindowSize
    <3>2. r \in 0 .. WindowSize - 1 /\ window \subseteq 0 .. r
      BY <3>1 DEF FilterInv
    <3> HIDE DEF r
    <3> QED BY <3>2, FilterSizes
  <2>4. copies \in [AliveAt(sentCount) -> Nat]
    BY DEF FilterInv
  <2> QED BY <2>1, <2>2, <2>3, <2>4 DEF FilterTypeOK
<1> QED BY <1>1, FilterInvariant, PTL

\* However the network repeats, reorders and loses packets within NetworkAssumption, none is
\* queued twice while copies of it are about: a copy from before the window is refused by
\* its number and one for the window by its bit (protocol.c:488-505).
THEOREM NeverQueuedTwice == FilterSpec => []NeverTwice
<1>1. FilterInv => NeverTwice
  BY DEF FilterInv, NeverTwice
<1> QED BY <1>1, FilterInvariant, PTL

\* And the window is always that of the newest packet, so the next newer one is taken
\* however many between them were lost (protocol.c:488-503).
THEOREM KeepsItsPlace == FilterSpec => []PlaceKept
<1>1. FilterInv => PlaceKept
  <2> SUFFICES ASSUME FilterInv PROVE AtNewest /\ NewestTaken
    BY DEF PlaceKept
  <2>1. AtNewest
    BY DEF AtNewest, FilterInv, Base
  <2>2. NewestTaken
    <3> SUFFICES ASSUME NEW n \in DOMAIN copies, n > newest PROVE Accepts(Group(n))
      BY DEF NewestTaken
    <3>1. n \in AliveAt(sentCount)
      BY DEF FilterInv
    <3> QED BY <3>1, NewerIsTaken
  <2> QED BY <2>1, <2>2
<1> QED BY <1>1, FilterInvariant, PTL

-----------------------------------------------------------------------------
(* Proofs about Bandwidth: neither the host nor a peer is overwhelmed, for *)
(* any number of peers and any bandwidths.                                 *)

Capped == {i \in Up : clients[i].capped}
Uncapped == {i \in Up : ~ clients[i].capped}
Settled == {i \in Up : clients[i].settled}
Unsettled == {i \in Up : ~ clients[i].settled}
Weighty == {i \in Up : clients[i].limit > 1}

ClientType ==
    [up : BOOLEAN, incoming : Rates, outgoing : Rates, load : Loads, throttle : 0 .. ShareScale,
     limit : 0 .. ShareScale, capped : BOOLEAN, settled : BOOLEAN, told : Nat \cup {Untold}]

ShareType ==
    [phase : {"idle", "cap", "divide"}, bandwidth : Int, total : Int, remaining : Int,
     needs : BOOLEAN, limit : Nat, loads : [Clients -> Loads]]

LimitsType ==
    [incoming : Rates, outgoing : Rates, recalculate : BOOLEAN, connected : Int, limited : Int]

BandwidthTyped ==
    /\ clients \in [Clients -> ClientType]
    /\ limits \in LimitsType
    /\ share \in ShareType

\* The marks of a call are gone when it is over.
MarksInv ==
    \A i \in Clients :
        /\ clients[i].capped => i \in Up /\ ~ Idling
        /\ clients[i].settled => i \in Up /\ Shared

\* The limit of a peer lets through no more than it can take, or is the smallest.
Fits(i) == clients[i].limit = 1 \/ Sent[i] <= clients[i].incoming * ShareScale

\* While peers are capped: what is left of the bandwidth and of the data is for the others.
CapInv ==
    /\ \A i \in Uncapped : clients[i].load = share.loads[i]
    /\ \A i \in Capped : Fits(i) /\ clients[i].incoming <= share.loads[i]
    /\ share.remaining = Cardinality(Uncapped)
    /\ limits.outgoing = 0 => share.total = share.bandwidth
    /\ limits.outgoing # 0 =>
        /\ share.bandwidth = limits.outgoing - SumOver(Incoming, Capped)
        /\ share.bandwidth >= 0
        /\ share.total = SumOver(share.loads, Up) - SumOver(Incoming, Capped)
    /\ ~ share.needs => Exceeded = {}

LimitsHold ==
    /\ PeerNotOverwhelmed
    /\ limits.outgoing # 0 => SumOver(Sent, Weighty) <= limits.outgoing * ShareScale

\* While portions are settled: what is left is for the others, in equal parts.
DivideInv ==
    /\ share.remaining = Cardinality(Unsettled)
    /\ limits.recalculate /\ limits.incoming # 0 =>
        /\ share.bandwidth = limits.incoming - SumOver(Outgoing, Settled)
        /\ share.bandwidth >= 0
        /\ ~ share.needs => share.limit * share.remaining <= share.bandwidth

ToldInv ==
    ~ limits.recalculate /\ limits.incoming # 0 => SumOver(Told, Up) <= limits.incoming

BandwidthInv ==
    /\ BandwidthTyped /\ LimitsCounted /\ ThrottleLimited /\ MarksInv
    /\ share.phase = "cap" => CapInv
    /\ share.phase = "divide" => LimitsHold /\ DivideInv
    /\ ToldInv

-----------------------------------------------------------------------------
(* The folds of the model are sums.                                        *)

\* A fold takes one member off after the other.
FoldsTo(g, f, S) ==
    g = [s \in SUBSET S |-> IF s = {} THEN 0 ELSE f[OneOf(s)] + g[s \ {OneOf(s)}]]

LEMMA FoldExists ==
    ASSUME NEW f \in [Clients -> Int], NEW S \in SUBSET Clients
    PROVE  \E g : FoldsTo(g, f, S)
<1>1. PICK h : AreSums(h, f, Clients)
  BY AllSums, ClientsAssumption
<1> DEFINE g == [s \in SUBSET S |-> h[s]]
<1>2. ASSUME NEW s \in SUBSET S
      PROVE  g[s] = IF s = {} THEN 0 ELSE f[OneOf(s)] + g[s \ {OneOf(s)}]
  <2>1. s \in SUBSET Clients /\ s \ {OneOf(s)} \in SUBSET S
    OBVIOUS
  <2>2. g[s] = h[s] /\ g[s \ {OneOf(s)}] = h[s \ {OneOf(s)}]
    BY <2>1
  <2> HIDE DEF g
  <2> QED BY <1>1, <2>1, <2>2 DEF AreSums, Sums
<1>3. g = [s \in SUBSET S |-> g[s]]
  OBVIOUS
<1>4. FoldsTo(g, f, S)
  <2> HIDE DEF g
  <2> QED BY <1>2, <1>3 DEF FoldsTo
<1> QED BY <1>4

LEMMA FoldIsSum ==
    ASSUME NEW f \in [Clients -> Int], NEW S \in SUBSET Clients, NEW g, FoldsTo(g, f, S)
    PROVE  g[S] = SumOver(f, S)
<1>1. PICK h : AreSums(h, f, Clients)
  BY AllSums, ClientsAssumption
<1>2. Sums(g, f, S)
  <2> SUFFICES ASSUME NEW s \in SUBSET S
               PROVE  g[s] = IF s = {} THEN 0 ELSE f[OneOf(s)] + g[s \ {OneOf(s)}]
    BY DEF Sums
  <2> QED BY DEF FoldsTo
<1>3. g[S] = h[S]
  <2>1. Sums(h, f, Clients)
    BY <1>1 DEF AreSums
  <2> QED BY <1>2, <2>1, SumsUnique, ClientsAssumption
<1> QED BY <1>1, <1>3 DEF AreSums

LEMMA TotalIsSum ==
    ASSUME NEW f \in [Clients -> Int], NEW S \in SUBSET Clients
    PROVE  Total(f, S) = SumOver(f, S)
<1> DEFINE IsFold(g) == g = [s \in SUBSET S |->
                              IF s = {} THEN 0 ELSE f[CHOOSE x \in s : TRUE]
                                                      + g[s \ {CHOOSE x \in s : TRUE}]]
           k == CHOOSE l : IsFold(l)
<1>1. \A g : IsFold(g) <=> FoldsTo(g, f, S)
  BY DEF FoldsTo, OneOf
<1>2. PICK h : FoldsTo(h, f, S)
  BY FoldExists
<1>3. Total(f, S) = (CHOOSE l : IsFold(l))[S]
  BY Zenon DEF Total, MapThenSumSet, MapThenFoldSet
<1>4. IsFold(k)
  <2>1. IsFold(h)
    BY <1>1, <1>2
  <2> HIDE DEF IsFold
  <2> QED BY <2>1
<1>5. Total(f, S) = k[S]
  BY <1>3
<1> HIDE DEF k, IsFold
<1>6. FoldsTo(k, f, S)
  BY <1>1, <1>4
<1> QED BY <1>5, <1>6, FoldIsSum

-----------------------------------------------------------------------------
(* Types and arithmetic.                                                   *)

LEMMA Field ==
    ASSUME BandwidthTyped, NEW i \in Clients
    PROVE  /\ clients[i] \in ClientType
           /\ clients[i].incoming \in Nat /\ clients[i].outgoing \in Nat /\ clients[i].load \in Nat
           /\ clients[i].limit \in 0 .. ShareScale /\ clients[i].throttle \in 0 .. ShareScale
           /\ clients[i].incoming \in Rates /\ clients[i].outgoing \in Rates
           /\ clients[i].load \in Loads /\ share.loads[i] \in Nat
           /\ clients[i].told \in Nat \cup {Untold}
  BY RatesAssumption DEF BandwidthTyped, LimitsType, ShareType, ClientType

LEMMA Scale == ShareScale \in Nat /\ ShareScale > 0 /\ Deceleration \in Nat
  BY ScaleAssumption

LEMMA Summands ==
    ASSUME BandwidthTyped
    PROVE  /\ Incoming \in [Clients -> Int] /\ Outgoing \in [Clients -> Int]
           /\ Loaded \in [Clients -> Int] /\ share.loads \in [Clients -> Int]
           /\ Sent \in [Clients -> Int] /\ Told \in [Clients -> Int]
<1>1. \A i \in Clients : clients[i].incoming \in Int /\ clients[i].outgoing \in Int
                         /\ clients[i].load \in Int /\ share.loads[i] \in Int
                         /\ clients[i].limit \in Int
  BY Field, Scale
<1>2. \A i \in Clients : (IF clients[i].told = Untold THEN 0 ELSE clients[i].told) \in Int
  BY Field
<1>3. \A i \in Clients : clients[i].limit * share.loads[i] \in Int
  BY <1>1
<1>4. share.loads \in [Clients -> Int]
  BY RatesAssumption DEF BandwidthTyped, LimitsType, ShareType
<1> QED BY <1>1, <1>2, <1>3, <1>4 DEF Incoming, Outgoing, Loaded, Sent, Told

LEMMA Fractions ==
    ASSUME NEW a \in Nat, NEW d \in Nat, d > 0
    PROVE  /\ a \div d \in Nat
           /\ (a \div d) * d <= a
           /\ \A c \in Nat : a \div d > c => c * d <= a
           /\ \A c \in Nat : a <= c * d => a \div d <= c
<1>1. a \div d \in Nat /\ a % d \in 0 .. d - 1 /\ a = d * (a \div d) + (a % d)
  BY DivMod
<1> DEFINE q == a \div d
<1>2. q * d = d * q /\ d * q <= a
  BY <1>1
<1>3. ASSUME NEW c \in Nat, q > c PROVE c * d <= a
  <2>1. c * d <= q * d
    BY <1>1, <1>3
  <2> QED BY <1>1, <1>2, <2>1
<1>4. ASSUME NEW c \in Nat, a <= c * d PROVE q <= c
  <2> SUFFICES ASSUME q > c PROVE FALSE
    BY <1>1
  <2>1. q >= c + 1 /\ q \in Nat
    BY <1>1
  <2>2. d * q >= d * (c + 1)
    BY <2>1
  <2>3. d * (c + 1) = c * d + d
    OBVIOUS
  <2> QED BY <1>1, <1>4, <2>2, <2>3
<1> QED BY <1>1, <1>2, <1>3, <1>4

LEMMA Least2 ==
    ASSUME NEW a \in Int, NEW b \in Int
    PROVE  Min({a, b}) \in {a, b} /\ Min({a, b}) <= a /\ Min({a, b}) <= b
<1>1. \E x \in {a, b} : \A y \in {a, b} : x <= y
  OBVIOUS
<1> DEFINE m == CHOOSE x \in {a, b} : \A y \in {a, b} : x <= y
<1>2. m \in {a, b} /\ \A y \in {a, b} : m <= y
  BY <1>1
<1>3. Min({a, b}) = m
  BY DEF Min
<1> HIDE DEF m
<1> QED BY <1>2, <1>3

LEMMA Greatest2 ==
    ASSUME NEW a \in Int, NEW b \in Int
    PROVE  Max({a, b}) \in {a, b} /\ a <= Max({a, b}) /\ b <= Max({a, b})
<1>1. \E x \in {a, b} : \A y \in {a, b} : x >= y
  OBVIOUS
<1> DEFINE m == CHOOSE x \in {a, b} : \A y \in {a, b} : x >= y
<1>2. m \in {a, b} /\ \A y \in {a, b} : m >= y
  BY <1>1
<1>3. Max({a, b}) = m
  BY DEF Max
<1> HIDE DEF m
<1> QED BY <1>2, <1>3

\* The part of the data that goes through is no more than the bandwidth there is.
LEMMA ThrottleFacts ==
    ASSUME BandwidthTyped, CapInv
    PROVE  /\ Throttle \in 0 .. ShareScale
           /\ limits.outgoing # 0 =>
                Throttle * SumOver(share.loads, Uncapped) <= share.bandwidth * ShareScale
<1>1. share.bandwidth \in Int /\ share.total \in Int /\ ShareScale \in Nat /\ ShareScale > 0
  BY Scale DEF BandwidthTyped, LimitsType, ShareType
<1>2. CASE limits.outgoing = 0
  BY <1>1, <1>2 DEF CapInv, Throttle
<1>3. CASE limits.outgoing # 0
  <2> DEFINE b == share.bandwidth
             t == share.total
             u == SumOver(share.loads, Uncapped)
  <2>1. Capped \in SUBSET Clients /\ Uncapped \in SUBSET Clients /\ Capped \cap Uncapped = {}
        /\ Capped \cup Uncapped = Up
    BY DEF Capped, Uncapped, Up
  <2>2. SumOver(share.loads, Up) = SumOver(share.loads, Capped) + u
    BY <2>1, Summands, SumUnion, ClientsAssumption
  <2>3. SumOver(Incoming, Capped) <= SumOver(share.loads, Capped)
    <3>1. \A i \in Capped : Incoming[i] <= share.loads[i]
      BY <2>1 DEF CapInv, Incoming
    <3> QED BY <2>1, <3>1, Summands, SumAtMost, ClientsAssumption
  <2>4. u >= 0
    <3>1. \A i \in Uncapped : share.loads[i] >= 0
      BY <2>1, Field
    <3> QED BY <2>1, <3>1, Summands, SumPositive, ClientsAssumption
  <2>5. u \in Int /\ SumOver(share.loads, Capped) \in Int /\ SumOver(Incoming, Capped) \in Int
    BY <2>1, Summands, SumType, ClientsAssumption
  <2>6. b \in Nat /\ t = SumOver(share.loads, Up) - SumOver(Incoming, Capped)
    BY <1>1, <1>3 DEF CapInv
  <2>7. u <= t /\ u \in Nat /\ t \in Nat
    BY <2>2, <2>3, <2>4, <2>5, <2>6, <1>1
  <2>8. CASE t <= b
    <3>1. Throttle = ShareScale
      BY <2>8 DEF Throttle
    <3>2. ShareScale * u <= b * ShareScale
      <4>1. u <= b
        BY <2>6, <2>7, <2>8
      <4> HIDE DEF u, b
      <4> QED BY <4>1, <2>6, <2>7, <1>1
    <3> QED BY <1>1, <3>1, <3>2
  <2>9. CASE ~ (t <= b)
    <3> DEFINE q == (b * ShareScale) \div t
    <3>1. Throttle = q
      BY <2>9 DEF Throttle
    <3>2. t > 0 /\ b * ShareScale \in Nat
      BY <2>6, <2>7, <2>9, <1>1
    <3> HIDE DEF b, t, u
    <3>3. /\ q \in Nat /\ q * t <= b * ShareScale
          /\ \A c \in Nat : b * ShareScale <= c * t => q <= c
      BY <3>2, <2>7, Fractions
    <3> HIDE DEF q
    <3>4. b * ShareScale <= ShareScale * t
      BY <2>6, <2>7, <2>9, <1>1
    <3>5. q <= ShareScale
      BY <3>3, <3>4, <1>1
    <3>6. q * u <= q * t
      BY <3>3, <2>7
    <3>7. q * u <= b * ShareScale
      BY <3>2, <3>3, <3>6, <2>7
    <3> QED BY <3>1, <3>3, <3>5, <3>7, <1>1 DEF b, u
  <2> QED BY <2>8, <2>9
<1> QED BY <1>2, <1>3

-----------------------------------------------------------------------------
(* The walks over the peers that cap their limits.                         *)

\* What a step leaves as it is.
LEMMA Kept ==
    ASSUME BandwidthInv, BandwidthTyped',
           \A i \in Clients : /\ clients'[i].up = clients[i].up
                              /\ clients'[i].incoming = clients[i].incoming,
           limits'.connected = limits.connected, limits'.limited = limits.limited
    PROVE  LimitsCounted' /\ Up' = Up /\ Incoming' = Incoming
<1>1. Up' = Up
  BY DEF Up
<1>2. {i \in Up : clients[i].incoming # 0}' = {i \in Up : clients[i].incoming # 0}
  BY <1>1 DEF Up
<1>3. Incoming' = Incoming
  BY DEF Incoming
<1>4. LimitsCounted
  BY DEF BandwidthInv
<1> QED BY <1>1, <1>2, <1>3, <1>4 DEF LimitsCounted

LEMMA ToldKept ==
    ASSUME BandwidthInv, Up' = Up, \A i \in Clients : clients'[i].told = clients[i].told,
           limits' = limits
    PROVE  ToldInv'
<1>1. Told' = Told
  BY DEF Told
<1> QED BY <1>1 DEF BandwidthInv, ToldInv

LEMMA Partition ==
    /\ Capped \in SUBSET Clients /\ Uncapped \in SUBSET Clients /\ Capped \cap Uncapped = {}
    /\ Capped \cup Uncapped = Up
    /\ Settled \in SUBSET Clients /\ Unsettled \in SUBSET Clients /\ Settled \cap Unsettled = {}
    /\ Settled \cup Unsettled = Up
    /\ Up \in SUBSET Clients /\ Exceeded \in SUBSET Uncapped /\ Modest \in SUBSET Unsettled
    /\ Weighty \in SUBSET Up
  BY DEF Capped, Uncapped, Settled, Unsettled, Up, Exceeded, Modest, Weighty

LEMMA Counts ==
    ASSUME NEW S \in SUBSET Clients
    PROVE  IsFiniteSet(S) /\ Cardinality(S) \in Nat /\ (Cardinality(S) = 0 <=> S = {})
  BY ClientsAssumption, FS_Subset, FS_CardinalityType, FS_EmptySet

LEMMA CountRest ==
    ASSUME NEW S \in SUBSET Clients, NEW T \in SUBSET S
    PROVE  Cardinality(S \ T) = Cardinality(S) - Cardinality(T)
<1>1. IsFiniteSet(S) /\ S \cap T = T
  BY Counts
<1> QED BY <1>1, FS_Difference

LEMMA ExceededFacts ==
    ASSUME BandwidthTyped, CapInv, NEW i \in Exceeded
    PROVE  /\ clients[i].incoming # 0
           /\ clients[i].incoming * ShareScale <= Throttle * share.loads[i]
           /\ clients[i].incoming <= share.loads[i]
           /\ CapLimit(clients[i]) \in 0 .. ShareScale
           /\ \/ CapLimit(clients[i]) = 1
              \/ CapLimit(clients[i]) * share.loads[i] <= clients[i].incoming * ShareScale
<1> DEFINE in == clients[i].incoming
           l == clients[i].load
           t == Throttle
           c == CapLimit(clients[i])
<1>1. i \in Uncapped /\ in # 0 /\ (t * l) \div ShareScale > in /\ i \in Clients
  BY Partition DEF Exceeded
<1>2. l = share.loads[i] /\ in \in Nat /\ l \in Nat
  BY <1>1, Field DEF CapInv
<1>3. t \in Nat /\ t <= ShareScale /\ ShareScale \in Nat /\ ShareScale > 0
  BY Scale, ThrottleFacts
<1>4. c = Max({(in * ShareScale) \div l, 1})
  BY DEF CapLimit
<1> HIDE DEF in, l, t, c
<1>5. t * l \in Nat
  BY <1>2, <1>3
<1>6. in * ShareScale <= t * l
  BY <1>1, <1>2, <1>3, <1>5, Fractions
<1>7. in <= l
  <2>1. t * l <= ShareScale * l
    BY <1>2, <1>3
  <2>2. in * ShareScale <= ShareScale * l
    <3>1. in * ShareScale \in Nat /\ ShareScale * l \in Nat
      BY <1>2, <1>3
    <3> QED BY <1>5, <1>6, <2>1, <3>1
  <2>3. ~ (in >= l + 1)
    <3> SUFFICES ASSUME in >= l + 1 PROVE FALSE
      OBVIOUS
    <3>1. ShareScale * (l + 1) <= in * ShareScale
      BY <1>2, <1>3
    <3>2. ShareScale * (l + 1) = ShareScale * l + ShareScale
      BY <1>2, <1>3
    <3> QED BY <1>2, <1>3, <2>2, <3>1, <3>2
  <2> QED BY <1>2, <2>3
<1>8. l > 0 /\ in * ShareScale \in Nat
  BY <1>1, <1>2, <1>3, <1>7
<1> DEFINE q == (in * ShareScale) \div l
<1>9. /\ q \in Nat /\ q * l <= in * ShareScale
      /\ (in * ShareScale <= ShareScale * l => q <= ShareScale)
  BY <1>2, <1>3, <1>8, Fractions
<1>10. in * ShareScale <= ShareScale * l
  BY <1>2, <1>3, <1>7
<1> HIDE DEF q
<1>11. c \in {q, 1} /\ q <= c /\ 1 <= c
  BY <1>4, <1>9, Greatest2 DEF q
<1>12. c \in 0 .. ShareScale /\ (c = 1 \/ c * l <= in * ShareScale)
  BY <1>3, <1>9, <1>10, <1>11
<1> QED BY <1>1, <1>2, <1>6, <1>7, <1>12 DEF in, l, t, c

LEMMA CapPassInv ==
    ASSUME BandwidthInv, CapPass
    PROVE  BandwidthInv'
<1> DEFINE used == SumOver(Incoming, Exceeded)
<1>1. /\ BandwidthTyped /\ LimitsCounted /\ ThrottleLimited /\ MarksInv /\ CapInv
      /\ share.phase = "cap"
  BY DEF BandwidthInv, CapPass
<1>2. Total(Incoming, Exceeded) = used /\ used \in Int
  BY <1>1, Summands, Partition, TotalIsSum, SumType, ClientsAssumption
<1>3. limits' = limits
  BY DEF CapPass
<1>14. clients' = [i \in Clients |->
                IF i \in Exceeded
                THEN [Lowered(clients[i], CapLimit(clients[i])) EXCEPT !.capped = TRUE]
                ELSE clients[i]]
  BY DEF CapPass
<1>15. share' = [share EXCEPT !.needs = Exceeded # {},
                              !.remaining = @ - Cardinality(Exceeded),
                              !.bandwidth = @ - used, !.total = @ - used]
  BY <1>2 DEF CapPass
<1>16. clients' = [i \in Clients |-> clients'[i]]
  BY <1>14
<1>4. ASSUME NEW i \in Clients \ Exceeded PROVE clients'[i] = clients[i]
  BY <1>14
<1>5. ASSUME NEW i \in Exceeded
      PROVE  /\ i \in Clients
             /\ clients'[i] = [Lowered(clients[i], CapLimit(clients[i])) EXCEPT !.capped = TRUE]
             /\ clients'[i] \in ClientType
             /\ clients'[i].up = clients[i].up /\ clients'[i].incoming = clients[i].incoming
             /\ clients'[i].settled = clients[i].settled /\ clients'[i].told = clients[i].told
             /\ clients'[i].limit = CapLimit(clients[i]) /\ clients'[i].capped
             /\ clients'[i].throttle <= clients'[i].limit
  <2>1. i \in Clients
    BY Partition
  <2>2. clients'[i] = [Lowered(clients[i], CapLimit(clients[i])) EXCEPT !.capped = TRUE]
    BY <1>14, <2>1
  <2> DEFINE c == clients[i]
             l == CapLimit(c)
             m == Min({c.throttle, l})
  <2>3. c \in ClientType /\ l \in 0 .. ShareScale /\ c.throttle \in 0 .. ShareScale
    BY <1>1, <2>1, Field, ExceededFacts
  <2>4. clients'[i] = [c EXCEPT !.limit = l, !.throttle = m, !.load = 0, !.capped = TRUE]
    BY <2>2, <2>3 DEF Lowered, ClientType
  <2> HIDE DEF c, l, m
  <2>8. c.throttle \in Int /\ l \in Int
    BY <2>3, Scale
  <2>5. m \in {c.throttle, l} /\ m <= l
    BY <2>8, Least2 DEF m
  <2>6. m \in 0 .. ShareScale /\ 0 \in Loads
    BY <2>3, <2>5, RatesAssumption
  <2>7. /\ clients'[i] \in ClientType
        /\ clients'[i].up = c.up /\ clients'[i].incoming = c.incoming
        /\ clients'[i].settled = c.settled /\ clients'[i].told = c.told
        /\ clients'[i].limit = l /\ clients'[i].capped /\ clients'[i].throttle = m
    BY <2>3, <2>4, <2>6 DEF ClientType
  <2> QED BY <2>1, <2>2, <2>5, <2>7 DEF c, l
<1>6. /\ share' \in ShareType
      /\ share'.phase = "cap" /\ share'.loads = share.loads
      /\ share'.needs = (Exceeded # {})
      /\ share'.remaining = share.remaining - Cardinality(Exceeded)
      /\ share'.bandwidth = share.bandwidth - used /\ share'.total = share.total - used
  <2> DEFINE any == Exceeded # {}
             r == share.remaining - Cardinality(Exceeded)
             b == share.bandwidth - used
             t == share.total - used
  <2>1. Cardinality(Exceeded) \in Nat
    BY Partition, Counts
  <2>2. share \in ShareType /\ share.phase = "cap"
    BY <1>1 DEF BandwidthTyped, LimitsType, ShareType
  <2>3. share' = [share EXCEPT !.needs = any, !.remaining = r, !.bandwidth = b, !.total = t]
    BY <1>15
  <2>4. any \in BOOLEAN
    OBVIOUS
  <2>5. r \in Int /\ b \in Int /\ t \in Int
    <3> HIDE DEF used
    <3> QED BY <1>2, <2>1, <2>2 DEF ShareType
  <2> HIDE DEF any, r, b, t
  <2>6. share' \in ShareType
    BY <2>2, <2>3, <2>4, <2>5 DEF ShareType
  <2>7. /\ share'.phase = "cap" /\ share'.loads = share.loads
        /\ share'.remaining = r /\ share'.bandwidth = b /\ share'.total = t
    BY <2>2, <2>3 DEF ShareType
  <2>8. share'.needs = any
    BY <2>2, <2>3 DEF ShareType
  <2> QED BY <2>6, <2>7, <2>8 DEF any, r, b, t
<1>7. BandwidthTyped'
  <2>1. \A i \in Clients : clients'[i] \in ClientType
    BY <1>1, <1>4, <1>5, Field
  <2>2. clients' \in [Clients -> ClientType]
    BY <1>16, <2>1
  <2> QED BY <1>1, <1>3, <1>6, <2>2 DEF BandwidthTyped, LimitsType, ShareType
<1>8. \A i \in Clients : /\ clients'[i].up = clients[i].up
                         /\ clients'[i].incoming = clients[i].incoming
                         /\ clients'[i].settled = clients[i].settled
                         /\ clients'[i].told = clients[i].told
  BY <1>4, <1>5
<1>9. LimitsCounted' /\ Up' = Up /\ Incoming' = Incoming /\ ToldInv'
  BY <1>3, <1>7, <1>8, Kept, ToldKept
<1>10. ThrottleLimited'
  <2> SUFFICES ASSUME NEW i \in Up PROVE clients'[i].throttle <= clients'[i].limit
    BY <1>9 DEF ThrottleLimited
  <2>1. i \in Clients
    BY Partition
  <2> QED BY <1>1, <1>4, <1>5, <2>1 DEF ThrottleLimited
<1>11. MarksInv'
  <2>1. ~ Idling' /\ ~ Idling /\ Shared' = Shared
    BY <1>1, <1>6 DEF Idling, Shared
  <2>2. ASSUME NEW i \in Clients PROVE /\ clients'[i].capped => i \in Up
                                       /\ clients'[i].settled => i \in Up /\ Shared
    <3>1. i \in Exceeded => i \in Up
      BY Partition
    <3> QED BY <1>1, <1>4, <1>8, <3>1 DEF MarksInv
  <2> QED BY <1>9, <2>1, <2>2 DEF MarksInv
<1>12. Capped' = Capped \cup Exceeded /\ Uncapped' = Uncapped \ Exceeded
  <2>1. \A i \in Clients : clients'[i].capped <=> clients[i].capped \/ i \in Exceeded
    <3>1. \A i \in Clients : clients[i].capped \in BOOLEAN
      BY <1>1 DEF BandwidthTyped, LimitsType, ClientType
    <3> QED BY <1>4, <1>5, <3>1
  <2> QED BY <1>9, <2>1, Partition DEF Capped, Uncapped
<1>13. CapInv'
  <2>1. ASSUME NEW i \in Uncapped' PROVE clients'[i].load = share'.loads[i]
    <3>1. i \in Uncapped /\ i \in Clients \ Exceeded
      BY <1>12, Partition
    <3> QED BY <1>1, <1>4, <1>6, <3>1 DEF CapInv
  <2>2. ASSUME NEW i \in Capped' PROVE Fits(i)' /\ clients'[i].incoming <= share'.loads[i]
    <3>1. i \in Clients
      BY <1>12, Partition
    <3>2. /\ Sent'[i] = clients'[i].limit * share.loads[i]
          /\ Sent[i] = clients[i].limit * share.loads[i]
      BY <1>6, <3>1 DEF Sent
    <3>3. CASE i \in Exceeded
      <4>1. clients'[i].limit = CapLimit(clients[i]) /\ clients'[i].incoming = clients[i].incoming
        BY <1>5, <3>3
      <4>2. \/ CapLimit(clients[i]) = 1
            \/ CapLimit(clients[i]) * share.loads[i] <= clients[i].incoming * ShareScale
        BY <1>1, <3>3, ExceededFacts
      <4>3. clients[i].incoming <= share.loads[i]
        BY <1>1, <3>3, ExceededFacts
      <4> QED BY <1>6, <3>2, <4>1, <4>2, <4>3 DEF Fits
    <3>4. CASE i \notin Exceeded
      <4>1. i \in Capped /\ clients'[i] = clients[i]
        BY <1>4, <1>12, <3>1, <3>4
      <4> QED BY <1>1, <1>6, <3>2, <4>1 DEF CapInv, Fits
    <3> QED BY <3>3, <3>4
  <2>3. share'.remaining = Cardinality(Uncapped')
    BY <1>1, <1>6, <1>12, Partition, CountRest DEF CapInv
  <2>4. limits'.outgoing = 0 => share'.total = share'.bandwidth
    BY <1>1, <1>3, <1>6 DEF CapInv
  <2>5. ASSUME limits'.outgoing # 0
        PROVE  /\ share'.bandwidth = limits'.outgoing - SumOver(Incoming', Capped')
               /\ share'.bandwidth >= 0
               /\ share'.total = SumOver(share'.loads, Up') - SumOver(Incoming', Capped')
    <3>1. SumOver(Incoming', Capped') = SumOver(Incoming, Capped) + used
      <4>1. Capped \cap Exceeded = {} /\ Exceeded \in SUBSET Clients /\ Capped \in SUBSET Clients
        BY Partition
      <4> QED BY <1>1, <1>9, <1>12, <4>1, Summands, SumUnion, ClientsAssumption
    <3>2. used * ShareScale <= Throttle * SumOver(share.loads, Exceeded)
      <4>1. Exceeded \in SUBSET Clients
        BY Partition
      <4>2. \A i \in Exceeded : ShareScale * Incoming[i] <= Throttle * share.loads[i]
        <5> SUFFICES ASSUME NEW i \in Exceeded
                     PROVE  ShareScale * Incoming[i] <= Throttle * share.loads[i]
          OBVIOUS
        <5>1. i \in Clients /\ clients[i].incoming \in Nat
          BY <1>1, <4>1, Field
        <5>2. Incoming[i] = clients[i].incoming
          BY <5>1 DEF Incoming
        <5>3. clients[i].incoming * ShareScale = ShareScale * clients[i].incoming
          BY <5>1, Scale
        <5> QED BY <1>1, <5>2, <5>3, ExceededFacts
      <4>3. Bounded(ShareScale, Incoming, Throttle, share.loads, Exceeded)
        BY <4>2 DEF Bounded
      <4>4. Throttle \in Int /\ ShareScale \in Int
        BY <1>1, Scale, ThrottleFacts
      <4>5. ShareScale * used <= Throttle * SumOver(share.loads, Exceeded)
        BY <1>1, <4>1, <4>3, <4>4, Summands, SumBound, ClientsAssumption
      <4>6. ShareScale * used = used * ShareScale
        BY <1>2, <4>4
      <4> QED BY <4>5, <4>6
    <3>3. SumOver(share.loads, Exceeded) <= SumOver(share.loads, Uncapped)
      <4>1. \A i \in Uncapped : share.loads[i] >= 0
        BY <1>1, Field, Partition
      <4> QED BY <1>1, <4>1, Partition, Summands, SumOfPart, ClientsAssumption
    <3>4. Throttle * SumOver(share.loads, Uncapped) <= share.bandwidth * ShareScale
      BY <1>1, <1>3, <2>5, ThrottleFacts
    <3>5. used <= share.bandwidth
      <4> DEFINE e == SumOver(share.loads, Exceeded)
                 u == SumOver(share.loads, Uncapped)
                 b == share.bandwidth
                 t == Throttle
      <4>1. e \in Int /\ u \in Int /\ b \in Int
        BY <1>1, Partition, Summands, SumType, ClientsAssumption
            DEF BandwidthTyped, LimitsType, ShareType
      <4>2. t \in Nat /\ ShareScale \in Nat /\ ShareScale > 0
        BY <1>1, Scale, ThrottleFacts
      <4>3. used * ShareScale <= t * e /\ e <= u /\ t * u <= b * ShareScale
        BY <3>2, <3>3, <3>4
      <4> HIDE DEF used, e, u, b, t
      <4>4. t * e <= t * u
        BY <4>1, <4>2, <4>3
      <4>5. used * ShareScale <= b * ShareScale
        <5>1. t * e \in Int /\ t * u \in Int /\ used * ShareScale \in Int /\ b * ShareScale \in Int
          BY <1>2, <4>1, <4>2
        <5> QED BY <4>3, <4>4, <5>1
      <4>6. used <= b
        BY <1>2, <4>1, <4>2, <4>5
      <4> QED BY <4>6 DEF b
    <3>6. /\ share.bandwidth = limits.outgoing - SumOver(Incoming, Capped)
          /\ share.total = SumOver(share.loads, Up) - SumOver(Incoming, Capped)
          /\ limits.outgoing \in Int /\ SumOver(Incoming, Capped) \in Int
          /\ SumOver(share.loads, Up) \in Int /\ share.bandwidth \in Int
      <4>1. SumOver(Incoming, Capped) \in Int /\ SumOver(share.loads, Up) \in Int
        BY <1>1, Partition, Summands, SumType, ClientsAssumption
      <4>2. limits.outgoing \in Int /\ share.bandwidth \in Int
        BY <1>1, RatesAssumption DEF BandwidthTyped, LimitsType, ShareType
      <4> QED BY <1>1, <1>3, <2>5, <4>1, <4>2 DEF CapInv
    <3> HIDE DEF used
    <3> QED BY <1>2, <1>3, <1>6, <1>9, <3>1, <3>5, <3>6
  <2>6. ASSUME ~ share'.needs PROVE Exceeded' = {}
    <3>1. Exceeded = {}
      BY <1>6, <2>6
    <3>2. used = 0
      BY <1>1, <3>1, Summands, SumOfNone, ClientsAssumption
    <3>3. clients' = clients
      <4>1. \A i \in Clients : clients'[i] = clients[i]
        BY <1>4, <3>1
      <4>2. clients = [i \in Clients |-> clients[i]] /\ clients' = [i \in Clients |-> clients'[i]]
        BY <1>1, <1>7 DEF BandwidthTyped, LimitsType, ShareType
      <4> QED BY <4>1, <4>2
    <3>4. share'.bandwidth = share.bandwidth /\ share'.total = share.total
      BY <1>1, <1>6, <3>2 DEF BandwidthTyped, LimitsType, ShareType
    <3>5. Throttle' = Throttle
      BY <3>4 DEF Throttle
    <3> QED BY <1>9, <3>1, <3>3, <3>5 DEF Exceeded
  <2> QED BY <2>1, <2>2, <2>3, <2>4, <2>5, <2>6 DEF CapInv
<1> QED BY <1>6, <1>7, <1>9, <1>10, <1>11, <1>13 DEF BandwidthInv

-----------------------------------------------------------------------------
(* The rest of the peers have one limit.                                   *)

LEMMA RestInv ==
    ASSUME BandwidthInv, Rest
    PROVE  BandwidthInv'
<1>1. /\ BandwidthTyped /\ LimitsCounted /\ ThrottleLimited /\ MarksInv /\ CapInv
      /\ share.phase = "cap" /\ ~ Looping
  BY DEF BandwidthInv, Rest
<1>2. limits' = limits
  BY DEF Rest
<1>3. clients' = [i \in Clients |->
            IF i \in Up /\ ~ clients[i].capped THEN Lowered(clients[i], Throttle)
            ELSE clients[i]]
  BY DEF Rest
<1>4. clients' = [i \in Clients |-> clients'[i]]
  BY <1>3
<1>5. share' = [share EXCEPT !.phase = "divide", !.remaining = limits.connected, !.needs = TRUE,
                             !.bandwidth = limits.incoming]
  BY DEF Rest
<1>6. Throttle \in 0 .. ShareScale
  BY <1>1, ThrottleFacts
<1>7. ASSUME NEW i \in Clients \ Uncapped PROVE clients'[i] = clients[i]
  BY <1>3 DEF Uncapped
<1>8. ASSUME NEW i \in Uncapped
      PROVE  /\ i \in Clients /\ clients'[i] \in ClientType
             /\ clients'[i].up = clients[i].up /\ clients'[i].incoming = clients[i].incoming
             /\ clients'[i].settled = clients[i].settled /\ clients'[i].told = clients[i].told
             /\ clients'[i].capped = clients[i].capped
             /\ clients'[i].limit = Throttle /\ clients'[i].throttle <= Throttle
  <2>1. i \in Clients /\ i \in Up /\ ~ clients[i].capped
    BY DEF Uncapped, Up
  <2>2. clients'[i] = Lowered(clients[i], Throttle)
    BY <1>3, <2>1
  <2> DEFINE c == clients[i]
             m == Min({c.throttle, Throttle})
  <2>3. c \in ClientType /\ c.throttle \in 0 .. ShareScale
    BY <1>1, <2>1, Field
  <2>4. clients'[i] = [c EXCEPT !.limit = Throttle, !.throttle = m, !.load = 0]
    BY <2>2, <2>3 DEF Lowered, ClientType
  <2> HIDE DEF c, m
  <2>5. c.throttle \in Int /\ Throttle \in Int
    BY <1>6, <2>3, Scale
  <2>6. m \in {c.throttle, Throttle} /\ m <= Throttle
    BY <2>5, Least2 DEF m
  <2>7. m \in 0 .. ShareScale /\ 0 \in Loads
    BY <1>6, <2>3, <2>6, RatesAssumption
  <2>8. /\ clients'[i] \in ClientType
        /\ clients'[i].up = c.up /\ clients'[i].incoming = c.incoming
        /\ clients'[i].settled = c.settled /\ clients'[i].told = c.told
        /\ clients'[i].capped = c.capped
        /\ clients'[i].limit = Throttle /\ clients'[i].throttle = m
    BY <1>6, <2>3, <2>4, <2>7 DEF ClientType
  <2> QED BY <2>1, <2>6, <2>8 DEF c
<1>9. /\ share' \in ShareType
      /\ share'.phase = "divide" /\ share'.loads = share.loads
      /\ share'.needs /\ share'.remaining = limits.connected
      /\ share'.bandwidth = limits.incoming /\ share'.limit = share.limit
  <2>1. limits.connected \in Int /\ limits.incoming \in Int /\ share \in ShareType
    BY <1>1, RatesAssumption DEF BandwidthTyped, LimitsType
  <2> QED BY <1>5, <2>1 DEF ShareType
<1>10. BandwidthTyped'
  <2>1. \A i \in Clients : clients'[i] \in ClientType
    BY <1>1, <1>7, <1>8, Field
  <2>2. clients' \in [Clients -> ClientType]
    BY <1>4, <2>1
  <2> QED BY <1>1, <1>2, <1>9, <2>2 DEF BandwidthTyped, LimitsType
<1>11. \A i \in Clients : /\ clients'[i].up = clients[i].up
                          /\ clients'[i].incoming = clients[i].incoming
                          /\ clients'[i].settled = clients[i].settled
                          /\ clients'[i].told = clients[i].told
                          /\ clients'[i].capped = clients[i].capped
  BY <1>7, <1>8
<1>12. LimitsCounted' /\ Up' = Up /\ Incoming' = Incoming /\ ToldInv'
  BY <1>2, <1>10, <1>11, Kept, ToldKept
<1>13. ThrottleLimited'
  <2> SUFFICES ASSUME NEW i \in Up PROVE clients'[i].throttle <= clients'[i].limit
    BY <1>12 DEF ThrottleLimited
  <2>1. i \in Clients
    BY Partition
  <2> QED BY <1>1, <1>7, <1>8, <2>1 DEF ThrottleLimited
<1>14. MarksInv'
  <2>1. ~ Idling' /\ ~ Idling /\ ~ Shared
    BY <1>1, <1>9 DEF Idling, Shared
  <2> QED BY <1>1, <1>11, <1>12, <2>1 DEF MarksInv
<1>15. LimitsHold'
  <2>1. PeerNotOverwhelmed'
    <3> SUFFICES ASSUME NEW i \in Up
                 PROVE  \/ clients'[i].incoming = 0
                        \/ clients'[i].limit = 1
                        \/ Sent'[i] \div ShareScale <= clients'[i].incoming
      BY <1>12 DEF PeerNotOverwhelmed
    <3>1. i \in Clients /\ Sent'[i] = clients'[i].limit * share.loads[i]
      BY <1>9, Partition DEF Sent
    <3>2. ShareScale \in Nat /\ ShareScale > 0 /\ clients[i].incoming \in Nat
          /\ share.loads[i] \in Nat /\ clients[i].limit \in Nat /\ Throttle \in Nat
      BY <1>1, <1>6, <3>1, Field, Scale
    <3>3. CASE i \in Capped
      <4>1. i \notin Uncapped
        BY <3>3, Partition
      <4>2. clients'[i] = clients[i] /\ Fits(i)
        BY <1>1, <1>7, <3>1, <3>3, <4>1 DEF CapInv
      <4>3. Sent[i] = Sent'[i] /\ Sent[i] = clients[i].limit * share.loads[i]
        BY <3>1, <4>2 DEF Sent
      <4>4. CASE Sent[i] <= clients[i].incoming * ShareScale
        <5>1. Sent[i] \in Nat
          BY <3>2, <4>3
        <5>2. Sent[i] \div ShareScale <= clients[i].incoming
          BY <3>2, <4>4, <5>1, Fractions
        <5> QED BY <4>2, <4>3, <5>2
      <4> QED BY <4>2, <4>4 DEF Fits
    <3>4. CASE i \in Uncapped
      <4>1. share.needs = FALSE
        <5>1. Cardinality(Uncapped) # 0 /\ Cardinality(Uncapped) \in Nat
          BY <3>4, Partition, Counts
        <5>2. share.remaining > 0
          BY <1>1, <5>1 DEF CapInv
        <5>3. share.needs \in BOOLEAN
          BY <1>1 DEF BandwidthTyped, LimitsType, ShareType
        <5> QED BY <1>1, <5>2, <5>3 DEF Looping
      <4>2. i \notin Exceeded
        BY <1>1, <4>1 DEF CapInv
      <4>3. clients[i].incoming # 0 =>
                ~ ((Throttle * clients[i].load) \div ShareScale > clients[i].incoming)
        BY <3>4, <4>2 DEF Exceeded, Uncapped
      <4>4. Sent'[i] = Throttle * clients[i].load
        BY <1>1, <1>8, <3>1, <3>4 DEF CapInv
      <4>5. Throttle * clients[i].load \in Nat
        BY <1>1, <3>1, <3>2, <3>4 DEF CapInv
      <4>6. (Throttle * clients[i].load) \div ShareScale \in Nat
        BY <3>2, <4>5, Fractions
      <4>7. clients[i].incoming # 0 =>
                (Throttle * clients[i].load) \div ShareScale <= clients[i].incoming
        BY <3>2, <4>3, <4>6
      <4> QED BY <1>8, <3>4, <4>4, <4>7
    <3> QED BY <3>3, <3>4, Partition
  <2>2. ASSUME limits'.outgoing # 0
        PROVE  SumOver(Sent', Weighty') <= limits'.outgoing * ShareScale
    <3> DEFINE C == Weighty' \cap Capped
               U == Weighty' \cap Uncapped
    <3>1. /\ Weighty' = C \cup U /\ C \cap U = {} /\ C \in SUBSET Capped /\ U \in SUBSET Uncapped
          /\ C \in SUBSET Clients /\ U \in SUBSET Clients
      <4>1. Weighty' \subseteq Up
        BY <1>12 DEF Weighty
      <4> QED BY <4>1, Partition
    <3>2. Sent' \in [Clients -> Int]
      <4>1. \A i \in Clients : clients'[i].limit \in Int /\ share'.loads[i] \in Int
        BY <1>10, RatesAssumption, Scale DEF BandwidthTyped, LimitsType, ClientType, ShareType
      <4>2. \A i \in Clients : clients'[i].limit * share'.loads[i] \in Int
        BY <4>1
      <4> QED BY <4>2 DEF Sent
    <3>3. SumOver(Sent', Weighty') = SumOver(Sent', C) + SumOver(Sent', U)
      BY <3>1, <3>2, SumUnion, ClientsAssumption
    <3>4. 1 * SumOver(Sent', C) <= ShareScale * SumOver(Incoming, C)
      <4>1. ASSUME NEW i \in C PROVE 1 * Sent'[i] <= ShareScale * Incoming[i]
        <5>1. i \in Clients /\ i \in Capped /\ i \notin Uncapped /\ i \in Weighty'
          BY <3>1, Partition
        <5>2. clients'[i] = clients[i] /\ Fits(i)
          BY <1>1, <1>7, <5>1 DEF CapInv
        <5>3. clients[i].limit > 1
          BY <5>1, <5>2 DEF Weighty
        <5>4. Sent[i] <= clients[i].incoming * ShareScale
          BY <5>2, <5>3 DEF Fits
        <5>5. Sent'[i] = Sent[i] /\ Incoming[i] = clients[i].incoming
          BY <1>9, <5>1, <5>2 DEF Sent, Incoming
        <5>6. clients[i].incoming \in Nat /\ Sent[i] \in Int
          BY <1>1, <5>1, Field, Summands
        <5>7. clients[i].incoming * ShareScale = ShareScale * clients[i].incoming
          BY <5>6, Scale
        <5> QED BY <5>4, <5>5, <5>6, <5>7
      <4>2. Bounded(1, Sent', ShareScale, Incoming, C)
        BY <4>1 DEF Bounded
      <4>3. ShareScale \in Int /\ 1 \in Int
        BY Scale
      <4> QED BY <1>1, <3>1, <3>2, <4>2, <4>3, Summands, SumBound, ClientsAssumption
    <3>5. 1 * SumOver(Sent', U) <= Throttle * SumOver(share.loads, U)
      <4>1. ASSUME NEW i \in U PROVE 1 * Sent'[i] <= Throttle * share.loads[i]
        <5>1. i \in Clients /\ i \in Uncapped
          BY <3>1, Partition
        <5>2. Sent'[i] = Throttle * share.loads[i]
          BY <1>8, <1>9, <5>1 DEF Sent
        <5>3. Sent'[i] \in Int
          BY <3>2, <5>1
        <5> QED BY <5>2, <5>3
      <4>2. Bounded(1, Sent', Throttle, share.loads, U)
        BY <4>1 DEF Bounded
      <4>3. Throttle \in Int /\ 1 \in Int
        BY <1>6
      <4> QED BY <1>1, <3>1, <3>2, <4>2, <4>3, Summands, SumBound, ClientsAssumption
    <3>6. SumOver(Incoming, C) <= SumOver(Incoming, Capped)
      <4>1. \A i \in Capped : Incoming[i] >= 0
        BY <1>1, Field, Partition DEF Incoming
      <4> QED BY <1>1, <3>1, <4>1, Partition, Summands, SumOfPart, ClientsAssumption
    <3>7. SumOver(share.loads, U) <= SumOver(share.loads, Uncapped)
      <4>1. \A i \in Uncapped : share.loads[i] >= 0
        BY <1>1, Field, Partition
      <4> QED BY <1>1, <3>1, <4>1, Partition, Summands, SumOfPart, ClientsAssumption
    <3>8. Throttle * SumOver(share.loads, Uncapped) <= share.bandwidth * ShareScale
      BY <1>1, <1>2, <2>2, ThrottleFacts
    <3>9. share.bandwidth = limits.outgoing - SumOver(Incoming, Capped)
      BY <1>1, <1>2, <2>2 DEF CapInv
    <3> DEFINE sc == SumOver(Sent', C)
               su == SumOver(Sent', U)
               ic == SumOver(Incoming, C)
               ia == SumOver(Incoming, Capped)
               lu == SumOver(share.loads, U)
               la == SumOver(share.loads, Uncapped)
               b == share.bandwidth
               o == limits.outgoing
               t == Throttle
    <3>10. sc \in Int /\ su \in Int
      BY <3>1, <3>2, SumType, ClientsAssumption
    <3>11. ic \in Int /\ ia \in Int /\ lu \in Int /\ la \in Int
      BY <1>1, <3>1, Partition, Summands, SumType, ClientsAssumption
    <3>12. b \in Int /\ o \in Int /\ t \in Nat /\ ShareScale \in Nat
      BY <1>1, <1>6, Scale, RatesAssumption DEF BandwidthTyped, LimitsType, ShareType
    <3>13. /\ 1 * sc <= ShareScale * ic /\ 1 * su <= t * lu /\ ic <= ia /\ lu <= la
           /\ t * la <= b * ShareScale /\ b = o - ia
      BY <3>4, <3>5, <3>6, <3>7, <3>8, <3>9
    <3> HIDE DEF sc, su, ic, ia, lu, la, b, o, t
    <3>14. ShareScale * ic <= ShareScale * ia /\ t * lu <= t * la
      BY <3>11, <3>12, <3>13
    <3>15. b * ShareScale = o * ShareScale - ShareScale * ia
      BY <3>11, <3>12, <3>13
    <3>16. /\ ShareScale * ic \in Int /\ ShareScale * ia \in Int /\ t * lu \in Int /\ t * la \in Int
           /\ o * ShareScale \in Int /\ b * ShareScale \in Int
      BY <3>11, <3>12
    <3>17. sc + su <= o * ShareScale
      BY <3>10, <3>13, <3>14, <3>15, <3>16
    <3> QED BY <1>2, <3>3, <3>17 DEF sc, su, o
  <2> QED BY <2>1, <2>2 DEF LimitsHold
<1>16. DivideInv'
  <2>1. Settled' = {} /\ Unsettled' = Up
    <3>1. \A i \in Clients : ~ clients'[i].settled
      BY <1>1, <1>11 DEF MarksInv, Shared
    <3> QED BY <1>12, <3>1, Partition DEF Settled, Unsettled
  <2>2. limits.connected = Cardinality(Up)
    BY <1>1 DEF LimitsCounted
  <2>3. limits.incoming \in Nat
    BY <1>1, RatesAssumption DEF BandwidthTyped, LimitsType
  <2>4. Outgoing' \in [Clients -> Int]
    <3>1. \A i \in Clients : clients'[i].outgoing \in Int
      BY <1>10, RatesAssumption DEF BandwidthTyped, LimitsType, ClientType
    <3> QED BY <3>1 DEF Outgoing
  <2>5. SumOver(Outgoing', Settled') = 0
    BY <2>1, <2>4, SumOfNone, ClientsAssumption
  <2> QED BY <1>2, <1>9, <2>1, <2>2, <2>3, <2>5 DEF DivideInv
<1> QED BY <1>9, <1>10, <1>12, <1>13, <1>14, <1>15, <1>16 DEF BandwidthInv

-----------------------------------------------------------------------------
(* The walks that settle what the peers are told.                          *)

LEMMA PortionFacts ==
    ASSUME BandwidthTyped, DivideInv, Dividing
    PROVE  /\ limits.recalculate /\ limits.incoming # 0
           /\ share.bandwidth = limits.incoming - SumOver(Outgoing, Settled)
           /\ share.bandwidth \in Nat /\ share.remaining \in Nat
           /\ Portion \in Nat /\ Portion * share.remaining <= share.bandwidth
<1>1. /\ limits.recalculate /\ limits.incoming # 0 /\ share.remaining > 0
      /\ share.bandwidth \in Int /\ share.remaining \in Int
  BY DEF Dividing, Looping, BandwidthTyped, LimitsType, ShareType
<1>2. share.bandwidth = limits.incoming - SumOver(Outgoing, Settled) /\ share.bandwidth >= 0
  BY <1>1 DEF DivideInv
<1>3. share.bandwidth \in Nat /\ share.remaining \in Nat
  BY <1>1, <1>2
<1>4. Portion \in Nat /\ Portion * share.remaining <= share.bandwidth
  BY <1>1, <1>3, Fractions DEF Portion
<1> QED BY <1>1, <1>2, <1>3, <1>4

LEMMA DividePassInv ==
    ASSUME BandwidthInv, DividePass
    PROVE  BandwidthInv'
<1> DEFINE used == SumOver(Outgoing, Modest)
<1>1. /\ BandwidthTyped /\ LimitsCounted /\ ThrottleLimited /\ MarksInv /\ LimitsHold /\ DivideInv
      /\ share.phase = "divide" /\ Dividing
  BY DEF BandwidthInv, DividePass
<1>2. Left(Modest) = share.bandwidth - used /\ used \in Int
  <2>1. Modest \in SUBSET Clients
    BY Partition
  <2> QED BY <1>1, <2>1, Summands, TotalIsSum, SumType, ClientsAssumption DEF Left
<1>3. limits' = limits
  BY DEF DividePass
<1>4. clients' = [i \in Clients |-> [clients[i] EXCEPT !.settled = @ \/ i \in Modest]]
  BY DEF DividePass
<1>5. clients' = [i \in Clients |-> clients'[i]]
  BY <1>4
<1>6. ASSUME NEW i \in Clients
      PROVE  /\ clients'[i] \in ClientType
             /\ clients'[i].up = clients[i].up /\ clients'[i].incoming = clients[i].incoming
             /\ clients'[i].outgoing = clients[i].outgoing /\ clients'[i].told = clients[i].told
             /\ clients'[i].limit = clients[i].limit /\ clients'[i].throttle = clients[i].throttle
             /\ clients'[i].capped = clients[i].capped
             /\ clients'[i].settled <=> clients[i].settled \/ i \in Modest
  <2> DEFINE c == clients[i]
             new == c.settled \/ i \in Modest
  <2>1. c \in ClientType
    BY <1>1, Field
  <2>2. new \in BOOLEAN
    BY <2>1 DEF ClientType
  <2>3. clients'[i] = [c EXCEPT !.settled = new]
    BY <1>4
  <2>4. clients'[i].settled = new
    <3> HIDE DEF new
    <3> QED BY <2>1, <2>3 DEF ClientType
  <2>5. /\ clients'[i] \in ClientType
        /\ clients'[i].up = c.up /\ clients'[i].incoming = c.incoming
        /\ clients'[i].outgoing = c.outgoing /\ clients'[i].told = c.told
        /\ clients'[i].limit = c.limit /\ clients'[i].throttle = c.throttle
        /\ clients'[i].capped = c.capped
    <3> HIDE DEF new, c
    <3> QED BY <2>1, <2>2, <2>3 DEF ClientType
  <2> QED BY <2>4, <2>5
<1>7. /\ share' \in ShareType
      /\ share'.phase = "divide" /\ share'.loads = share.loads
      /\ share'.needs = (Modest # {})
      /\ share'.remaining = share.remaining - Cardinality(Modest)
      /\ share'.bandwidth = share.bandwidth - used /\ share'.limit = Portion
  <2> DEFINE any == Modest # {}
             r == share.remaining - Cardinality(Modest)
             b == share.bandwidth - used
  <2>1. Cardinality(Modest) \in Nat
    <3>1. Modest \in SUBSET Clients
      BY Partition
    <3> QED BY <3>1, Counts
  <2>2. share \in ShareType /\ share.phase = "divide"
    BY <1>1 DEF BandwidthTyped, LimitsType
  <2>3. share' = [share EXCEPT !.needs = any, !.limit = Portion, !.remaining = r, !.bandwidth = b]
    BY <1>2 DEF DividePass
  <2>4. any \in BOOLEAN
    OBVIOUS
  <2>5. r \in Int /\ b \in Int /\ Portion \in Nat
    <3> HIDE DEF used
    <3> QED BY <1>1, <1>2, <2>1, <2>2, PortionFacts DEF ShareType
  <2> HIDE DEF any, r, b
  <2>6. share' \in ShareType
    BY <2>2, <2>3, <2>4, <2>5 DEF ShareType
  <2>7. /\ share'.phase = "divide" /\ share'.loads = share.loads
        /\ share'.remaining = r /\ share'.bandwidth = b /\ share'.limit = Portion
    BY <2>2, <2>3 DEF ShareType
  <2>8. share'.needs = any
    BY <2>2, <2>3 DEF ShareType
  <2> QED BY <2>6, <2>7, <2>8 DEF any, r, b
<1>8. BandwidthTyped'
  <2>1. clients' \in [Clients -> ClientType]
    BY <1>5, <1>6
  <2> QED BY <1>1, <1>3, <1>7, <2>1 DEF BandwidthTyped, LimitsType
<1>9. LimitsCounted' /\ Up' = Up /\ Incoming' = Incoming /\ ToldInv'
  BY <1>3, <1>6, <1>8, Kept, ToldKept
<1>10. ThrottleLimited'
  <2>1. \A i \in Up : i \in Clients
    BY Partition
  <2> QED BY <1>1, <1>6, <1>9, <2>1 DEF ThrottleLimited
<1>11. MarksInv'
  <2>1. ~ Idling' /\ ~ Idling /\ Shared' /\ Shared
    BY <1>1, <1>7 DEF Idling, Shared
  <2>2. \A i \in Modest : i \in Up
    BY Partition
  <2> QED BY <1>1, <1>6, <1>9, <2>1, <2>2 DEF MarksInv
<1>12. LimitsHold'
  <2>1. Sent' = Sent
    BY <1>6, <1>7 DEF Sent
  <2>2. Weighty' = Weighty
    <3>1. \A i \in Up : i \in Clients
      BY Partition
    <3> QED BY <1>6, <1>9, <3>1 DEF Weighty
  <2>3. PeerNotOverwhelmed'
    <3>1. \A i \in Up : i \in Clients
      BY Partition
    <3>2. Shared /\ PeerNotOverwhelmed
      BY <1>1 DEF Shared, LimitsHold
    <3> QED BY <1>6, <1>9, <2>1, <3>1, <3>2 DEF PeerNotOverwhelmed
  <2> QED BY <1>1, <1>3, <2>1, <2>2, <2>3 DEF LimitsHold
<1>13. Settled' = Settled \cup Modest /\ Unsettled' = Unsettled \ Modest /\ Outgoing' = Outgoing
  <2>1. Outgoing' = Outgoing
    BY <1>6 DEF Outgoing
  <2> QED BY <1>6, <1>9, <2>1, Partition DEF Settled, Unsettled
<1>14. DivideInv'
  <2>1. share'.remaining = Cardinality(Unsettled')
    BY <1>1, <1>7, <1>13, Partition, CountRest DEF DivideInv
  <2>2. share'.bandwidth = limits'.incoming - SumOver(Outgoing', Settled')
    <3>1. Modest \in SUBSET Clients /\ Settled \in SUBSET Clients /\ Settled \cap Modest = {}
      BY Partition
    <3>2. SumOver(Outgoing, Settled \cup Modest) = SumOver(Outgoing, Settled) + used
      BY <1>1, <3>1, Summands, SumUnion, ClientsAssumption
    <3>3. SumOver(Outgoing, Settled) \in Int
      BY <1>1, <3>1, Summands, SumType, ClientsAssumption
    <3>4. limits.incoming \in Int
      BY <1>1, RatesAssumption DEF BandwidthTyped, LimitsType
    <3>5. share.bandwidth = limits.incoming - SumOver(Outgoing, Settled)
      BY <1>1, PortionFacts
    <3> HIDE DEF used
    <3> QED BY <1>2, <1>3, <1>7, <1>13, <3>2, <3>3, <3>4, <3>5
  <2>3. share'.bandwidth >= 0
    <3>1. Modest \in SUBSET Clients /\ Modest \in SUBSET Unsettled /\ Unsettled \in SUBSET Clients
      BY Partition
    <3>2. Portion \in Nat /\ Portion * share.remaining <= share.bandwidth
          /\ share.bandwidth \in Nat
      BY <1>1, PortionFacts
    <3>3. \A i \in Modest : Outgoing[i] <= Portion
      <4> SUFFICES ASSUME NEW i \in Modest PROVE Outgoing[i] <= Portion
        OBVIOUS
      <4>1. i \in Clients /\ (clients[i].outgoing = 0 \/ clients[i].outgoing < Portion)
        BY <3>1 DEF Modest
      <4>2. clients[i].outgoing \in Nat /\ Outgoing[i] = clients[i].outgoing
        BY <1>1, <4>1, Field DEF Outgoing
      <4> QED BY <3>2, <4>1, <4>2
    <3>4. used <= Portion * Cardinality(Modest)
      BY <1>1, <3>1, <3>2, <3>3, Summands, SumOfSmall, ClientsAssumption
    <3>5. Cardinality(Modest) <= Cardinality(Unsettled)
      <4>1. IsFiniteSet(Unsettled)
        BY <3>1, Counts
      <4> QED BY <3>1, <4>1, FS_Subset
    <3>6. Cardinality(Modest) \in Nat /\ Cardinality(Unsettled) \in Nat
      BY <3>1, Counts
    <3>7. share.remaining = Cardinality(Unsettled)
      BY <1>1 DEF DivideInv
    <3> DEFINE p == Portion
               m == Cardinality(Modest)
               u == Cardinality(Unsettled)
    <3>8. p * m <= p * u
      <4>1. p \in Nat /\ m \in Nat /\ u \in Nat /\ m <= u
        BY <3>2, <3>5, <3>6
      <4> HIDE DEF p, m, u
      <4> QED BY <4>1
    <3>9. used <= share.bandwidth
      <4>1. p * m \in Int /\ p * u \in Int
        BY <3>2, <3>6
      <4>2. used <= p * m /\ p * u <= share.bandwidth
        BY <3>2, <3>4, <3>7
      <4> HIDE DEF p, m, u, used
      <4> QED BY <1>2, <3>2, <3>8, <4>1, <4>2
    <3> HIDE DEF used
    <3> QED BY <1>2, <1>7, <3>2, <3>9
  <2>4. ~ share'.needs => share'.limit * share'.remaining <= share'.bandwidth
    <3> SUFFICES ASSUME ~ share'.needs PROVE share'.limit * share'.remaining <= share'.bandwidth
      OBVIOUS
    <3>1. Modest = {}
      BY <1>7
    <3>2. used = 0 /\ Cardinality(Modest) = 0
      BY <1>1, <3>1, Summands, SumOfNone, EmptyIsNone, ClientsAssumption
    <3>3. share.bandwidth \in Nat /\ share.remaining \in Nat
          /\ Portion * share.remaining <= share.bandwidth
      BY <1>1, PortionFacts
    <3>4. share'.remaining = share.remaining /\ share'.bandwidth = share.bandwidth
      BY <1>7, <3>2, <3>3
    <3> QED BY <1>7, <3>3, <3>4
  <2> QED BY <2>1, <2>2, <2>3, <2>4 DEF DivideInv
<1> QED BY <1>7, <1>8, <1>9, <1>10, <1>11, <1>12, <1>14 DEF BandwidthInv

LEMMA TellInv ==
    ASSUME BandwidthInv, Tell
    PROVE  BandwidthInv'
<1>1. /\ BandwidthTyped /\ LimitsCounted /\ ThrottleLimited /\ DivideInv /\ ToldInv
      /\ share.phase = "divide" /\ ~ Dividing
  BY DEF BandwidthInv, Tell
<1>2. limits' = [limits EXCEPT !.recalculate = FALSE]
  BY DEF Tell
<1>3. /\ ~ limits'.recalculate /\ limits'.incoming = limits.incoming
      /\ limits'.outgoing = limits.outgoing
      /\ limits'.connected = limits.connected /\ limits'.limited = limits.limited
      /\ limits' \in [incoming : Rates, outgoing : Rates, recalculate : BOOLEAN,
                      connected : Int, limited : Int]
  BY <1>1, <1>2 DEF BandwidthTyped, LimitsType
<1> DEFINE word == [i \in Clients |->
                        IF ~ limits.recalculate \/ i \notin Up THEN clients[i].told
                        ELSE IF clients[i].settled THEN clients[i].outgoing ELSE share.limit]
<1>4. clients' = [i \in Clients |->
            [clients[i] EXCEPT !.capped = FALSE, !.settled = FALSE, !.told = word[i]]]
  BY DEF Tell
<1>5. clients' = [i \in Clients |-> clients'[i]]
  BY <1>4
<1>6. ASSUME NEW i \in Clients
      PROVE  /\ clients'[i] \in ClientType
             /\ clients'[i].up = clients[i].up /\ clients'[i].incoming = clients[i].incoming
             /\ clients'[i].limit = clients[i].limit /\ clients'[i].throttle = clients[i].throttle
             /\ ~ clients'[i].capped /\ ~ clients'[i].settled /\ clients'[i].told = word[i]
  <2> DEFINE c == clients[i]
             w == word[i]
  <2>1. c \in ClientType
    BY <1>1, Field
  <2>2. w \in Nat \cup {Untold}
    <3>1. /\ clients[i].told \in Nat \cup {Untold}
          /\ clients[i].outgoing \in Nat /\ share.limit \in Nat
      BY <1>1, Field DEF BandwidthTyped, LimitsType, ShareType
    <3> QED BY <3>1
  <2>3. clients'[i] = [c EXCEPT !.capped = FALSE, !.settled = FALSE, !.told = w]
    BY <1>4
  <2> HIDE DEF c, w
  <2>4. /\ clients'[i] \in ClientType
        /\ clients'[i].up = c.up /\ clients'[i].incoming = c.incoming
        /\ clients'[i].limit = c.limit /\ clients'[i].throttle = c.throttle
        /\ ~ clients'[i].capped /\ ~ clients'[i].settled /\ clients'[i].told = w
    BY <2>1, <2>2, <2>3 DEF ClientType
  <2> QED BY <2>4 DEF c, w
<1>7. share' \in ShareType /\ share'.phase = "idle"
  <2>1. Quiet \in ShareType
    BY RatesAssumption DEF Quiet, ShareType
  <2> QED BY <2>1 DEF Tell, Quiet
<1>8. BandwidthTyped'
  <2>1. clients' \in [Clients -> ClientType]
    BY <1>5, <1>6
  <2> QED BY <1>3, <1>7, <2>1 DEF BandwidthTyped, LimitsType
<1>9. LimitsCounted' /\ Up' = Up
  <2>1. \A i \in Clients : /\ clients'[i].up = clients[i].up
                           /\ clients'[i].incoming = clients[i].incoming
    BY <1>6
  <2> QED BY <1>3, <1>8, <2>1, Kept
<1>10. ThrottleLimited'
  <2>1. \A i \in Up : i \in Clients
    BY Partition
  <2> QED BY <1>1, <1>6, <1>9, <2>1 DEF ThrottleLimited
<1>11. MarksInv'
  BY <1>6 DEF MarksInv
<1>12. ToldInv'
  <2> SUFFICES ASSUME limits.incoming # 0 PROVE SumOver(Told', Up) <= limits.incoming
    BY <1>3, <1>9 DEF ToldInv
  <2>1. Told' \in [Clients -> Int]
    <3>1. \A i \in Clients : clients'[i].told \in Nat \cup {Untold}
      BY <1>6 DEF ClientType
    <3>2. \A i \in Clients : (IF clients'[i].told = Untold THEN 0 ELSE clients'[i].told) \in Int
      BY <3>1
    <3> QED BY <3>2 DEF Told
  <2>2. CASE ~ limits.recalculate
    <3>1. \A i \in Clients : clients'[i].told = clients[i].told
      BY <1>6, <2>2
    <3>2. Told' = Told
      BY <3>1 DEF Told
    <3> QED BY <1>1, <2>2, <3>2 DEF ToldInv
  <2>3. CASE limits.recalculate
    <3>1. \A i \in Settled : Told'[i] = Outgoing[i]
      <4> SUFFICES ASSUME NEW i \in Settled PROVE Told'[i] = Outgoing[i]
        OBVIOUS
      <4>1. i \in Clients /\ i \in Up /\ clients[i].settled
        BY Partition DEF Settled
      <4>2. clients'[i].told = clients[i].outgoing /\ clients[i].outgoing \in Nat
        BY <1>1, <1>6, <2>3, <4>1, Field
      <4>3. clients[i].outgoing # Untold
        BY <4>2 DEF Untold
      <4> QED BY <4>1, <4>2, <4>3 DEF Told, Outgoing
    <3>2. \A i \in Unsettled : Told'[i] <= share.limit
      <4> SUFFICES ASSUME NEW i \in Unsettled PROVE Told'[i] <= share.limit
        OBVIOUS
      <4>1. i \in Clients /\ i \in Up /\ ~ clients[i].settled
        BY Partition DEF Unsettled
      <4>2. clients'[i].told = share.limit /\ share.limit \in Nat
        BY <1>1, <1>6, <2>3, <4>1 DEF BandwidthTyped, LimitsType, ShareType
      <4>3. share.limit # Untold
        BY <4>2 DEF Untold
      <4>4. Told'[i] = share.limit
        BY <4>1, <4>2, <4>3 DEF Told
      <4> QED BY <4>2, <4>4
    <3>3. SumOver(Told', Settled) = SumOver(Outgoing, Settled)
      BY <1>1, <2>1, <3>1, Partition, Summands, SumSame, ClientsAssumption
    <3>4. share.limit \in Int /\ share.limit \in Nat /\ share.bandwidth \in Int
          /\ share.needs \in BOOLEAN
      BY <1>1 DEF BandwidthTyped, LimitsType, ShareType
    <3>5. SumOver(Told', Unsettled) <= share.limit * Cardinality(Unsettled)
      BY <2>1, <3>2, <3>4, Partition, SumOfSmall, ClientsAssumption
    <3>6. SumOver(Told', Up) = SumOver(Told', Settled) + SumOver(Told', Unsettled)
      <4>1. Settled \in SUBSET Clients /\ Unsettled \in SUBSET Clients
            /\ Settled \cap Unsettled = {} /\ Up = Settled \cup Unsettled
        BY Partition
      <4> QED BY <2>1, <4>1, SumUnion, ClientsAssumption
    <3>7. /\ share.remaining = Cardinality(Unsettled)
          /\ share.bandwidth = limits.incoming - SumOver(Outgoing, Settled)
          /\ share.bandwidth >= 0
          /\ ~ share.needs => share.limit * share.remaining <= share.bandwidth
      BY <1>1, <2>3 DEF DivideInv
    <3>8. share.limit * share.remaining <= share.bandwidth
      <4>1. CASE ~ share.needs
        BY <3>7, <4>1
      <4>2. CASE share.needs
        <5>1. Cardinality(Unsettled) \in Nat
          BY Partition, Counts
        <5>2. ~ (share.remaining > 0)
          BY <1>1, <2>3, <4>2 DEF Dividing, Looping
        <5>3. share.remaining = 0
          BY <3>7, <5>1, <5>2
        <5>4. share.limit * 0 = 0
          BY <3>4
        <5> QED BY <3>7, <5>3, <5>4
      <4> QED BY <4>1, <4>2
    <3> DEFINE ts == SumOver(Told', Settled)
               tu == SumOver(Told', Unsettled)
               os == SumOver(Outgoing, Settled)
               lr == share.limit * share.remaining
    <3>9. ts \in Int /\ tu \in Int
      BY <2>1, Partition, SumType, ClientsAssumption
    <3>10. os \in Int /\ lr \in Int /\ limits.incoming \in Int
      <4>1. share.remaining \in Int
        BY <1>1 DEF BandwidthTyped, LimitsType, ShareType
      <4>2. os \in Int
        BY <1>1, Partition, Summands, SumType, ClientsAssumption
      <4>3. limits.incoming \in Int
        BY <1>1, RatesAssumption DEF BandwidthTyped, LimitsType
      <4> QED BY <3>4, <4>1, <4>2, <4>3
    <3>11. ts = os /\ tu <= lr /\ lr <= share.bandwidth /\ share.bandwidth = limits.incoming - os
      BY <3>3, <3>5, <3>7, <3>8
    <3>12. SumOver(Told', Up) = ts + tu
      BY <3>6
    <3> HIDE DEF ts, tu, os, lr
    <3>13. ts + tu <= limits.incoming
      BY <3>4, <3>9, <3>10, <3>11
    <3> QED BY <3>12, <3>13
  <2> QED BY <2>2, <2>3
<1> QED BY <1>7, <1>8, <1>9, <1>10, <1>11, <1>12 DEF BandwidthInv

-----------------------------------------------------------------------------
(* A call begins.                                                          *)

LEMMA StartInv ==
    ASSUME BandwidthInv, Start
    PROVE  BandwidthInv'
<1> DEFINE b == IF limits.outgoing = 0 THEN NoLimit ELSE limits.outgoing
           t == IF limits.outgoing = 0 THEN NoLimit ELSE DataTotal
           n == limits.limited > 0
           l == [i \in Clients |-> clients[i].load]
<1>1. /\ BandwidthTyped /\ LimitsCounted /\ ThrottleLimited /\ MarksInv /\ ToldInv
      /\ Idling
  BY DEF BandwidthInv, Start
<1>2. clients' = clients /\ limits' = limits
  BY DEF Start
<1>3. DataTotal = SumOver(Loaded, Up) /\ DataTotal \in Int
  BY <1>1, Partition, Summands, TotalIsSum, SumType, ClientsAssumption DEF DataTotal
<1>4. share' = [Quiet EXCEPT !.phase = "cap", !.remaining = limits.connected, !.needs = n,
                             !.bandwidth = b, !.total = t, !.loads = l]
  BY DEF Start, NeedsAdjustment
<1>5. b \in Int /\ t \in Int /\ n \in BOOLEAN /\ l \in [Clients -> Loads]
  <2>1. limits.outgoing \in Int /\ NoLimit \in Int
    BY <1>1, RatesAssumption DEF BandwidthTyped, LimitsType, NoLimit
  <2>2. l \in [Clients -> Loads]
    BY <1>1, Field
  <2>3. n \in BOOLEAN
    OBVIOUS
  <2> QED BY <1>3, <2>1, <2>2, <2>3
<1>6. limits.connected \in Int /\ Quiet \in ShareType
  BY <1>1, RatesAssumption DEF BandwidthTyped, LimitsType, Quiet, ShareType
<1>7. /\ share' \in ShareType
      /\ share'.phase = "cap" /\ share'.remaining = limits.connected /\ share'.needs = n
      /\ share'.bandwidth = b /\ share'.total = t /\ share'.loads = l
  <2> HIDE DEF b, t, n, l
  <2>1. share' \in ShareType
    BY <1>4, <1>5, <1>6 DEF ShareType
  <2>2. /\ share'.phase = "cap" /\ share'.remaining = limits.connected
        /\ share'.bandwidth = b /\ share'.total = t /\ share'.loads = l
    BY <1>4, <1>6 DEF ShareType
  <2>3. share'.needs = n
    BY <1>4, <1>6 DEF ShareType
  <2> QED BY <2>1, <2>2, <2>3
<1>8. BandwidthTyped' /\ LimitsCounted' /\ ThrottleLimited' /\ ToldInv'
  <2>1. Up' = Up /\ Told' = Told
    BY <1>2 DEF Up, Told
  <2>2. BandwidthTyped'
    BY <1>1, <1>2, <1>7 DEF BandwidthTyped, LimitsType
  <2>3. LimitsCounted'
    BY <1>1, <1>2, <2>1 DEF LimitsCounted
  <2> QED BY <1>1, <1>2, <2>1, <2>2, <2>3 DEF ThrottleLimited, ToldInv
<1>9. MarksInv' /\ Capped' = {} /\ Uncapped' = Up' /\ Up' = Up
  <2>1. Up' = Up /\ ~ Shared
    BY <1>1, <1>2 DEF Up, Idling, Shared
  <2>2. \A i \in Clients : ~ clients[i].capped /\ ~ clients[i].settled
    BY <1>1, <2>1 DEF MarksInv
  <2> QED BY <1>2, <2>1, <2>2, Partition DEF MarksInv, Capped, Uncapped
<1>10. CapInv'
  <2>1. \A i \in Uncapped' : clients'[i].load = share'.loads[i]
    BY <1>2, <1>7, <1>9, Partition
  <2>2. share'.remaining = Cardinality(Uncapped')
    BY <1>1, <1>7, <1>9 DEF LimitsCounted
  <2>3. limits'.outgoing = 0 => share'.total = share'.bandwidth
    BY <1>2, <1>7
  <2>4. ASSUME limits'.outgoing # 0
        PROVE  /\ share'.bandwidth = limits'.outgoing - SumOver(Incoming', Capped')
               /\ share'.bandwidth >= 0
               /\ share'.total = SumOver(share'.loads, Up') - SumOver(Incoming', Capped')
    <3>1. Incoming' = Incoming
      BY <1>2 DEF Incoming
    <3>2. SumOver(Incoming', Capped') = 0
      BY <1>1, <1>9, <3>1, Summands, SumOfNone, ClientsAssumption
    <3>3. l = Loaded
      BY DEF Loaded
    <3>4. limits.outgoing \in Nat
      BY <1>1, RatesAssumption DEF BandwidthTyped, LimitsType
    <3> QED BY <1>2, <1>3, <1>7, <1>9, <2>4, <3>2, <3>3, <3>4
  <2>5. ASSUME ~ share'.needs PROVE Exceeded' = {}
    <3> DEFINE S == {i \in Up : clients[i].incoming # 0}
    <3>1. limits.limited = Cardinality(S) /\ S \in SUBSET Clients
      BY <1>1, Partition DEF LimitsCounted
    <3>2. ~ (limits.limited > 0)
      BY <1>7, <2>5
    <3>3. Cardinality(S) \in Nat /\ (Cardinality(S) = 0 <=> S = {})
      BY <3>1, Counts
    <3>4. S = {}
      BY <3>1, <3>2, <3>3
    <3>5. \A i \in Up : clients'[i].incoming = 0
      BY <1>2, <3>4
    <3> QED BY <1>9, <3>5 DEF Exceeded
  <2> QED BY <1>9, <2>1, <2>2, <2>3, <2>4, <2>5 DEF CapInv
<1> QED BY <1>7, <1>8, <1>9, <1>10 DEF BandwidthInv

-----------------------------------------------------------------------------
(* Between two calls the peers come and go, and their limits change.       *)

One(yes) == IF yes THEN 1 ELSE 0

LEMMA CountChange ==
    ASSUME NEW S \in SUBSET Clients, NEW T \in SUBSET Clients, NEW i \in Clients,
           S \ {i} = T \ {i}
    PROVE  Cardinality(T) = Cardinality(S) - One(i \in S) + One(i \in T)
<1>1. ASSUME NEW R \in SUBSET Clients
      PROVE  Cardinality(R) = Cardinality(R \ {i}) + One(i \in R)
  <2>1. IsFiniteSet(R) /\ Cardinality(R) \in Nat
    BY Counts
  <2>2. CASE i \in R
    <3>1. Cardinality(R \ {i}) = Cardinality(R) - 1
      BY <2>1, <2>2, FS_RemoveElement
    <3>2. One(i \in R) = 1
      BY <2>2 DEF One
    <3> QED BY <2>1, <3>1, <3>2
  <2>3. CASE i \notin R
    <3>1. R \ {i} = R
      BY <2>3
    <3> QED BY <2>1, <2>3, <3>1 DEF One
  <2> QED BY <2>2, <2>3
<1>2. Cardinality(S) = Cardinality(S \ {i}) + One(i \in S)
  BY <1>1
<1>3. Cardinality(T) = Cardinality(S \ {i}) + One(i \in T)
  BY <1>1
<1>4. Cardinality(S \ {i}) \in Nat /\ One(i \in S) \in Int /\ One(i \in T) \in Int
  <2>1. S \ {i} \in SUBSET Clients
    OBVIOUS
  <2> QED BY <2>1, Counts DEF One
<1> QED BY <1>2, <1>3, <1>4

\* Peers that go take what they were told with them.
LEMMA ToldStays ==
    ASSUME BandwidthInv, BandwidthTyped', limits'.incoming = limits.incoming,
           limits.recalculate => limits'.recalculate,
           \A j \in Up' : j \in Up /\ clients'[j].told = clients[j].told
    PROVE  ToldInv'
<1> SUFFICES ASSUME ~ limits'.recalculate, limits'.incoming # 0
             PROVE  SumOver(Told', Up') <= limits'.incoming
  BY DEF ToldInv
<1>1. BandwidthTyped /\ SumOver(Told, Up) <= limits.incoming
  BY DEF BandwidthInv, ToldInv
<1>2. Up' \in SUBSET Clients /\ Up' \in SUBSET Up /\ Up \in SUBSET Clients
  BY DEF Up
<1>3. \A j \in Up' : Told'[j] = Told[j]
  BY <1>2 DEF Told
<1>4. Told \in [Clients -> Int] /\ Told' \in [Clients -> Int]
  <2>1. \A j \in Clients : (IF clients'[j].told = Untold THEN 0 ELSE clients'[j].told) \in Int
    <3>1. \A j \in Clients : clients'[j].told \in Nat \cup {Untold}
      BY DEF BandwidthTyped, LimitsType, ClientType
    <3> QED BY <3>1
  <2>2. Told' \in [Clients -> Int]
    BY <2>1 DEF Told
  <2> QED BY <1>1, <2>2, Summands
<1>5. \A j \in Up : Told[j] >= 0
  <2> SUFFICES ASSUME NEW j \in Up PROVE Told[j] >= 0
    OBVIOUS
  <2>1. j \in Clients /\ clients[j].told \in Nat \cup {Untold}
    BY <1>1, <1>2, Field
  <2> QED BY <2>1 DEF Told
<1>6. SumOver(Told', Up') = SumOver(Told, Up')
  BY <1>2, <1>3, <1>4, SumSame, ClientsAssumption
<1>7. SumOver(Told, Up') <= SumOver(Told, Up)
  BY <1>2, <1>4, <1>5, SumOfPart, ClientsAssumption
<1>8. SumOver(Told, Up') \in Int /\ SumOver(Told, Up) \in Int /\ limits.incoming \in Int
  BY <1>1, <1>2, <1>4, SumType, ClientsAssumption, RatesAssumption DEF BandwidthTyped, LimitsType
<1> QED BY <1>1, <1>6, <1>7, <1>8

HasLimit(c) == c.up /\ c.incoming # 0

\* One peer becomes c, and the host counts what that changes.
Becomes(i, c) ==
    /\ clients' = [clients EXCEPT ![i] = c]
    /\ c \in ClientType /\ ~ c.capped /\ ~ c.settled
    /\ c.up => c.throttle <= c.limit
    /\ limits' \in LimitsType
    /\ limits'.connected = limits.connected - One(clients[i].up) + One(c.up)
    /\ limits'.limited = limits.limited - One(HasLimit(clients[i])) + One(HasLimit(c))
    /\ limits'.incoming = limits.incoming
    /\ limits.recalculate => limits'.recalculate
    /\ limits'.recalculate \/ (c.up => clients[i].up /\ c.told = clients[i].told)

LEMMA ChangeInv ==
    ASSUME BandwidthInv, Idling, share' = share, NEW i \in Clients, NEW c, Becomes(i, c)
    PROVE  BandwidthInv'
<1>1. BandwidthTyped /\ LimitsCounted /\ ThrottleLimited /\ MarksInv
  BY DEF BandwidthInv
<1>2. clients'[i] = c /\ \A j \in Clients : j # i => clients'[j] = clients[j]
  BY <1>1 DEF Becomes, BandwidthTyped, LimitsType
<1>3. BandwidthTyped'
  <2>1. clients' \in [Clients -> ClientType]
    BY <1>1 DEF Becomes, BandwidthTyped, LimitsType
  <2> QED BY <1>1, <2>1 DEF Becomes, BandwidthTyped, LimitsType
<1>4. LimitsCounted'
  <2> DEFINE L == {j \in Up : clients[j].incoming # 0}
  <2>1. /\ Up \in SUBSET Clients /\ Up' \in SUBSET Clients /\ Up \ {i} = Up' \ {i}
        /\ L \in SUBSET Clients /\ L' \in SUBSET Clients /\ L \ {i} = L' \ {i}
    BY <1>2 DEF Up
  <2>2. /\ i \in Up <=> clients[i].up
        /\ i \in Up' <=> c.up
        /\ i \in L <=> HasLimit(clients[i])
        /\ i \in L' <=> HasLimit(c)
    BY <1>2 DEF Up, HasLimit
  <2>3. Cardinality(Up') = Cardinality(Up) - One(i \in Up) + One(i \in Up')
    BY <2>1, CountChange
  <2>4. Cardinality(L') = Cardinality(L) - One(i \in L) + One(i \in L')
    BY <2>1, CountChange
  <2>5. /\ One(i \in Up) = One(clients[i].up) /\ One(i \in Up') = One(c.up)
        /\ One(i \in L) = One(HasLimit(clients[i])) /\ One(i \in L') = One(HasLimit(c))
    BY <2>2 DEF One
  <2>6. limits.connected = Cardinality(Up) /\ limits.limited = Cardinality(L)
    BY <1>1 DEF LimitsCounted
  <2>7. limits'.connected = Cardinality(Up')
    BY <2>3, <2>5, <2>6 DEF Becomes
  <2>8. limits'.limited = Cardinality(L')
    BY <2>4, <2>5, <2>6 DEF Becomes
  <2> QED BY <2>7, <2>8 DEF LimitsCounted
<1>5. ThrottleLimited'
  <2> SUFFICES ASSUME NEW j \in Up' PROVE clients'[j].throttle <= clients'[j].limit
    BY DEF ThrottleLimited
  <2>1. j \in Clients /\ clients'[j].up
    BY DEF Up
  <2>2. CASE j = i
    BY <1>2, <2>1, <2>2 DEF Becomes
  <2>3. CASE j # i
    <3>1. clients'[j] = clients[j] /\ j \in Up
      BY <1>2, <2>1, <2>3 DEF Up
    <3> QED BY <1>1, <3>1 DEF ThrottleLimited
  <2> QED BY <2>2, <2>3
<1>6. MarksInv'
  <2>1. ~ Shared
    BY DEF Idling, Shared
  <2>2. \A j \in Clients : ~ clients'[j].capped /\ ~ clients'[j].settled
    BY <1>1, <1>2, <2>1 DEF MarksInv, Becomes
  <2> QED BY <2>2 DEF MarksInv
<1>7. ToldInv'
  <2>1. CASE limits'.recalculate
    BY <2>1 DEF ToldInv
  <2>2. CASE ~ limits'.recalculate
    <3>1. c.up => clients[i].up /\ c.told = clients[i].told
      BY <2>2 DEF Becomes
    <3>2. \A j \in Up' : j \in Up /\ clients'[j].told = clients[j].told
      BY <1>2, <3>1 DEF Up
    <3>3. limits'.incoming = limits.incoming /\ (limits.recalculate => limits'.recalculate)
      BY DEF Becomes
    <3> QED BY <1>3, <3>2, <3>3, ToldStays
  <2> QED BY <2>1, <2>2
<1>8. Idling'
  BY DEF Idling
<1> QED BY <1>3, <1>4, <1>5, <1>6, <1>7, <1>8 DEF BandwidthInv, Idling

LEMMA BetweenCalls ==
    ASSUME BandwidthInv, Idling, NEW i \in Clients
    PROVE  /\ clients[i] \in ClientType /\ limits \in LimitsType
           /\ ~ clients[i].capped /\ ~ clients[i].settled
           /\ i \in Up <=> clients[i].up
           /\ clients[i].up => clients[i].throttle <= clients[i].limit
           /\ Down \in ClientType
           /\ 0 \in Rates
<1>1. BandwidthTyped /\ ThrottleLimited /\ MarksInv /\ ~ Shared
  BY DEF BandwidthInv, Idling, Shared
<1>2. Down \in ClientType /\ 0 \in Rates
  BY Scale, RatesAssumption DEF Down, ClientType
<1> QED BY <1>1, <1>2, Field DEF BandwidthTyped, LimitsType, MarksInv, ThrottleLimited, Up

LEMMA OneCounted ==
    ASSUME NEW c, c.up
    PROVE  One(c.up) = 1 /\ One(HasLimit(c)) = Limited(c.incoming)
<1>1. One(c.up) = 1
  BY DEF One
<1>2. CASE c.incoming = 0
  <2>1. ~ HasLimit(c)
    BY <1>2 DEF HasLimit
  <2>2. One(HasLimit(c)) = 0
    BY <2>1 DEF One
  <2> QED BY <1>1, <1>2, <2>2 DEF Limited
<1>3. CASE c.incoming # 0
  <2>1. HasLimit(c)
    BY <1>3 DEF HasLimit
  <2>2. One(HasLimit(c)) = 1
    BY <2>1 DEF One
  <2> QED BY <1>1, <1>3, <2>2 DEF Limited
<1> QED BY <1>2, <1>3

LEMMA NoneCounted ==
    ASSUME NEW c, ~ c.up
    PROVE  One(c.up) = 0 /\ One(HasLimit(c)) = 0
<1>1. ~ HasLimit(c)
  BY DEF HasLimit
<1> QED BY <1>1 DEF One

LEMMA OnConnectInv ==
    ASSUME BandwidthInv, NEW i \in Clients, NEW in \in Rates, NEW out \in Rates,
           OnConnect(i, in, out)
    PROVE  BandwidthInv'
<1> DEFINE c == [Down EXCEPT !.up = TRUE, !.incoming = in, !.outgoing = out]
<1>1. Idling /\ share' = share /\ ~ clients[i].up /\ limits \in LimitsType /\ Down \in ClientType
  BY BetweenCalls DEF OnConnect, Change
<1>2. clients' = [clients EXCEPT ![i] = c]
  BY DEF OnConnect
<1>3. /\ c \in ClientType /\ c.up /\ ~ c.capped /\ ~ c.settled /\ c.incoming = in
      /\ c.throttle = ShareScale /\ c.limit = ShareScale
  BY <1>1 DEF Down, ClientType
<1> HIDE DEF c
<1> DEFINE more == Limited(in)
           n == limits.connected + 1
           m == limits.limited + more
<1>4. One(clients[i].up) = 0 /\ One(c.up) = 1 /\ One(HasLimit(clients[i])) = 0
      /\ One(HasLimit(c)) = more
  BY <1>1, <1>3, OneCounted, NoneCounted
<1>5. limits' = [limits EXCEPT !.recalculate = TRUE, !.connected = n, !.limited = m]
  BY DEF OnConnect
<1>8. more \in Int
  BY DEF Limited
<1> HIDE DEF more
<1>9. n \in Int /\ m \in Int /\ limits.connected \in Int /\ limits.limited \in Int
  BY <1>1, <1>8 DEF LimitsType
<1> HIDE DEF n, m
<1>10. /\ limits' \in LimitsType /\ limits'.incoming = limits.incoming
       /\ limits'.connected = n /\ limits'.limited = m
  BY <1>1, <1>5, <1>9 DEF LimitsType
<1>6. limits'.recalculate
  BY <1>1, <1>5 DEF LimitsType
<1>7. Becomes(i, c)
  <2>1. limits'.connected = limits.connected - One(clients[i].up) + One(c.up)
    BY <1>4, <1>9, <1>10 DEF n
  <2>2. limits'.limited = limits.limited - One(HasLimit(clients[i])) + One(HasLimit(c))
    BY <1>4, <1>8, <1>9, <1>10 DEF m
  <2>3. c.throttle <= c.limit
    BY <1>3, Scale
  <2> QED BY <1>2, <1>3, <1>6, <1>10, <2>1, <2>2, <2>3 DEF Becomes
<1> QED BY <1>1, <1>7, ChangeInv

LEMMA OnDisconnectInv ==
    ASSUME BandwidthInv, NEW i \in Clients, NEW noticed \in BOOLEAN, OnDisconnect(i, noticed)
    PROVE  BandwidthInv'
<1>1. /\ Idling /\ share' = share /\ clients[i].up /\ limits \in LimitsType
      /\ Down \in ClientType /\ clients[i] \in ClientType
  BY BetweenCalls DEF OnDisconnect, Change
<1>2. clients' = [clients EXCEPT ![i] = Down]
  BY DEF OnDisconnect
<1>3. ~ Down.up /\ ~ Down.capped /\ ~ Down.settled
  BY DEF Down
<1> DEFINE again == limits.recalculate \/ noticed
           less == Limited(clients[i].incoming)
           n == limits.connected - 1
           m == limits.limited - less
<1>4. One(clients[i].up) = 1 /\ One(Down.up) = 0 /\ One(HasLimit(clients[i])) = less
      /\ One(HasLimit(Down)) = 0
  BY <1>1, <1>3, OneCounted, NoneCounted
<1>5. limits' = [limits EXCEPT !.recalculate = again, !.connected = n, !.limited = m]
  BY DEF OnDisconnect
<1>6. again \in BOOLEAN /\ less \in Int /\ (limits.recalculate => again)
  BY <1>1 DEF LimitsType, Limited
<1> HIDE DEF again, less
<1>10. n \in Int /\ m \in Int /\ limits.connected \in Int /\ limits.limited \in Int
  BY <1>1, <1>6 DEF LimitsType
<1> HIDE DEF n, m
<1>7. /\ limits' \in LimitsType /\ limits'.incoming = limits.incoming
      /\ limits'.connected = n /\ limits'.limited = m
  BY <1>1, <1>5, <1>6, <1>10 DEF LimitsType
<1>8. limits.recalculate => limits'.recalculate
  BY <1>1, <1>5, <1>6 DEF LimitsType
<1>9. Becomes(i, Down)
  <2>1. limits'.connected = limits.connected - One(clients[i].up) + One(Down.up)
    BY <1>4, <1>7, <1>10 DEF n
  <2>2. limits'.limited = limits.limited - One(HasLimit(clients[i])) + One(HasLimit(Down))
    BY <1>4, <1>6, <1>7, <1>10 DEF m
  <2> QED BY <1>1, <1>2, <1>3, <1>7, <1>8, <2>1, <2>2 DEF Becomes
<1> QED BY <1>1, <1>9, ChangeInv

LEMMA HandleBandwidthLimitInv ==
    ASSUME BandwidthInv, NEW i \in Clients, NEW in \in Rates, NEW out \in Rates,
           HandleBandwidthLimit(i, in, out)
    PROVE  BandwidthInv'
<1> DEFINE old == clients[i]
           c == [old EXCEPT !.incoming = in, !.outgoing = out]
           less == Limited(old.incoming)
<1>1. /\ Idling /\ share' = share /\ old.up /\ limits \in LimitsType /\ old \in ClientType
      /\ ~ old.capped /\ ~ old.settled /\ old.throttle <= old.limit
  BY BetweenCalls DEF HandleBandwidthLimit, Change
<1>2. clients' = [clients EXCEPT ![i] = c]
  <2>1. clients' = [clients EXCEPT ![i].incoming = in, ![i].outgoing = out]
    BY DEF HandleBandwidthLimit
  <2>2. clients \in [Clients -> ClientType]
    BY DEF BandwidthInv, BandwidthTyped, LimitsType
  <2> QED BY <2>1, <2>2 DEF ClientType
<1> HIDE DEF old
<1>3. /\ c \in ClientType /\ c.up /\ ~ c.capped /\ ~ c.settled /\ c.incoming = in
      /\ c.throttle = old.throttle /\ c.limit = old.limit /\ c.told = old.told
  BY <1>1 DEF ClientType
<1> HIDE DEF c
<1>4. One(old.up) = 1 /\ One(c.up) = 1 /\ One(HasLimit(old)) = less
      /\ One(HasLimit(c)) = Limited(in)
  BY <1>1, <1>3, OneCounted, NoneCounted
<1>5. limits' = [limits EXCEPT !.limited = limits.limited - less + Limited(in)]
  BY DEF HandleBandwidthLimit, old
<1>6. less \in Int /\ Limited(in) \in Int
  BY DEF Limited
<1> HIDE DEF less
<1>7. /\ limits' \in LimitsType /\ limits'.incoming = limits.incoming
      /\ limits'.connected = limits.connected /\ limits'.recalculate = limits.recalculate
      /\ limits'.limited = limits.limited - less + Limited(in)
      /\ limits.connected \in Int /\ limits.limited \in Int
  BY <1>1, <1>5, <1>6 DEF LimitsType
<1>8. Becomes(i, c)
  <2>1. limits'.connected = limits.connected - One(old.up) + One(c.up)
    BY <1>4, <1>7
  <2>2. limits'.limited = limits.limited - One(HasLimit(old)) + One(HasLimit(c))
    BY <1>4, <1>7
  <2>3. c.throttle <= c.limit
    BY <1>1, <1>3
  <2> QED BY <1>1, <1>2, <1>3, <1>7, <2>1, <2>2, <2>3 DEF Becomes, old
<1> QED BY <1>1, <1>8, ChangeInv

\* A peer that changes in nothing that the host counts.
LEMMA SameCounts ==
    ASSUME BandwidthInv, Idling, share' = share, limits' = limits, NEW i \in Clients, NEW c,
           clients' = [clients EXCEPT ![i] = c], c \in ClientType,
           c.up = clients[i].up, c.incoming = clients[i].incoming, c.told = clients[i].told,
           ~ c.capped, ~ c.settled, c.throttle <= c.limit
    PROVE  BandwidthInv'
<1>1. One(HasLimit(c)) = One(HasLimit(clients[i])) /\ One(c.up) = One(clients[i].up)
  BY DEF HasLimit
<1>2. limits \in LimitsType /\ limits.connected \in Int /\ limits.limited \in Int
  BY BetweenCalls DEF LimitsType
<1>3. One(HasLimit(c)) \in Int /\ One(c.up) \in Int
  BY DEF One
<1>4. limits'.connected = limits.connected - One(clients[i].up) + One(c.up)
  BY <1>1, <1>2, <1>3
<1>5. limits'.limited = limits.limited - One(HasLimit(clients[i])) + One(HasLimit(c))
  BY <1>1, <1>2, <1>3
<1>6. Becomes(i, c)
  BY <1>2, <1>4, <1>5 DEF Becomes
<1> QED BY <1>6, ChangeInv

LEMMA QueueDataInv ==
    ASSUME BandwidthInv, NEW i \in Clients, NEW load \in Loads, QueueData(i, load)
    PROVE  BandwidthInv'
<1> DEFINE old == clients[i]
           c == [old EXCEPT !.load = load]
<1>1. /\ Idling /\ share' = share /\ limits' = limits /\ old.up /\ old \in ClientType
      /\ ~ old.capped /\ ~ old.settled /\ old.throttle <= old.limit
  BY BetweenCalls DEF QueueData, Change
<1>2. clients' = [clients EXCEPT ![i] = c]
  BY DEF QueueData
<1> HIDE DEF old
<1>3. /\ c \in ClientType /\ c.up = old.up /\ ~ c.capped /\ ~ c.settled
      /\ c.incoming = old.incoming
      /\ c.throttle = old.throttle /\ c.limit = old.limit /\ c.told = old.told
  BY <1>1 DEF ClientType
<1>4. c.throttle <= c.limit
  BY <1>1, <1>3
<1> HIDE DEF c
<1> QED BY <1>1, <1>2, <1>3, <1>4, SameCounts DEF old

LEMMA PeerThrottleInv ==
    ASSUME BandwidthInv, NEW i \in Clients, NEW trip \in {"steady", "good", "bad"},
           PeerThrottle(i, trip)
    PROVE  BandwidthInv'
<1> DEFINE old == clients[i]
           up == Min({old.throttle + Deceleration, old.limit})
           down == Max({old.throttle - Deceleration, 0})
           m == CASE trip = "steady" -> old.limit
                  [] trip = "good" -> up
                  [] trip = "bad" -> down
           c == [old EXCEPT !.throttle = m]
<1>1. /\ Idling /\ share' = share /\ limits' = limits /\ old.up /\ old \in ClientType
      /\ ~ old.capped /\ ~ old.settled /\ old.throttle <= old.limit
  BY BetweenCalls DEF PeerThrottle, Change
<1>2. clients' = [clients EXCEPT ![i] = c]
  BY Zenon DEF PeerThrottle
<1>3. old.throttle \in 0 .. ShareScale /\ old.limit \in 0 .. ShareScale
  BY Field DEF BandwidthInv
<1> HIDE DEF old
<1>4. up \in 0 .. ShareScale /\ up <= old.limit
  <2> DEFINE a == old.throttle + Deceleration
             b == old.limit
  <2>1. a \in Nat /\ b \in Nat /\ b <= ShareScale
    BY <1>3, Scale
  <2>2. up = Min({a, b})
    OBVIOUS
  <2> HIDE DEF up, a
  <2>3. a \in Int /\ b \in Int
    BY <2>1
  <2>4. up \in {a, b} /\ up <= b
    BY <2>2, <2>3, Least2
  <2> QED BY <1>3, <2>1, <2>4, Scale
<1>5. down \in 0 .. ShareScale /\ down <= old.limit
  <2> DEFINE a == old.throttle - Deceleration
  <2>1. a \in Int /\ a <= old.throttle /\ 0 \in Int
    BY <1>3, Scale
  <2>2. down = Max({a, 0})
    OBVIOUS
  <2> HIDE DEF down, a
  <2>3. down \in {a, 0} /\ 0 <= down
    BY <2>1, <2>2, Greatest2
  <2> QED BY <1>1, <1>3, <2>1, <2>3, Scale
<1> HIDE DEF up, down
<1>6. m \in 0 .. ShareScale /\ m <= old.limit
  <2>1. CASE trip = "steady"
    <3>1. m = old.limit
      BY <2>1
    <3> HIDE DEF m
    <3> QED BY <1>3, <3>1, Scale
  <2>2. CASE trip = "good"
    <3>1. m = up
      BY <2>2
    <3> QED BY <1>4, <3>1
  <2>3. CASE trip = "bad"
    <3>1. m = down
      BY <2>3
    <3> QED BY <1>5, <3>1
  <2> QED BY <2>1, <2>2, <2>3
<1> HIDE DEF m
<1>7. /\ c \in ClientType /\ c.up = old.up /\ ~ c.capped /\ ~ c.settled
      /\ c.incoming = old.incoming
      /\ c.throttle = m /\ c.limit = old.limit /\ c.told = old.told
  BY <1>1, <1>6 DEF ClientType
<1>8. c.throttle <= c.limit
  BY <1>6, <1>7
<1> HIDE DEF c
<1> QED BY <1>1, <1>2, <1>7, <1>8, SameCounts DEF old

LEMMA BandwidthLimitInv ==
    ASSUME BandwidthInv, NEW in \in Rates, NEW out \in Rates, BandwidthLimit(in, out)
    PROVE  BandwidthInv'
<1>1. /\ Idling /\ share' = share /\ clients' = clients
      /\ limits' = [limits EXCEPT !.incoming = in, !.outgoing = out, !.recalculate = TRUE]
      /\ BandwidthTyped /\ LimitsCounted /\ ThrottleLimited /\ MarksInv
  BY DEF BandwidthInv, BandwidthLimit, Change
<1>2. BandwidthTyped' /\ limits'.recalculate
  BY <1>1 DEF BandwidthTyped, LimitsType
<1>3. limits'.connected = limits.connected /\ limits'.limited = limits.limited
  BY <1>1 DEF BandwidthTyped, LimitsType
<1>4. LimitsCounted' /\ Up' = Up
  BY <1>1, <1>2, <1>3, Kept
<1>5. ThrottleLimited' /\ MarksInv' /\ Idling'
  BY <1>1, <1>4 DEF ThrottleLimited, MarksInv, Idling, Shared
<1> QED BY <1>2, <1>4, <1>5 DEF BandwidthInv, ToldInv, Idling

-----------------------------------------------------------------------------
(* The invariant, and what it says of the limits.                          *)

LEMMA BandwidthInitInv ==
    ASSUME BandwidthInit
    PROVE  BandwidthInv
<1>1. share = Quiet /\ Quiet \in ShareType /\ Idling
  BY RatesAssumption DEF BandwidthInit, Quiet, ShareType, Idling
<1>2. Down \in ClientType
  BY Scale, RatesAssumption DEF Down, ClientType
<1>3. Cardinality({}) = 0
  BY EmptyIsNone
<1>4. PICK in \in Rates, out \in Rates : BeforeConnections(in, out) \/ AfterConnections(in, out)
  BY DEF BandwidthInit
<1>7. NewHost(in, out) = [incoming |-> in, outgoing |-> out, recalculate |-> FALSE,
                          connected |-> 0, limited |-> 0]
  BY DEF NewHost
<1>8. NewHost(in, out) \in LimitsType
  BY <1>7 DEF LimitsType
<1>5. CASE BeforeConnections(in, out)
  <2>6. clients = [i \in Clients |-> Down] /\ limits = NewHost(in, out)
    BY <1>5 DEF BeforeConnections
  <2>1. Up = {}
    BY <2>6 DEF Up, Down
  <2>2. BandwidthTyped
    BY <1>1, <1>2, <1>7, <2>6 DEF BandwidthTyped, LimitsType
  <2>3. LimitsCounted
    <3>1. {i \in Up : clients[i].incoming # 0} = {}
      BY <2>1
    <3> QED BY <1>3, <1>7, <2>1, <2>6, <3>1 DEF LimitsCounted
  <2>4. ThrottleLimited /\ MarksInv
    BY <2>1, <2>6 DEF ThrottleLimited, MarksInv, Down
  <2>5. ToldInv
    <3>1. SumOver(Told, Up) = 0
      BY <2>1, <2>2, Summands, SumOfNone, ClientsAssumption
    <3>2. limits.incoming \in Nat
      BY <1>7, <2>6, RatesAssumption
    <3> QED BY <3>1, <3>2 DEF ToldInv
  <2> QED BY <1>1, <2>2, <2>3, <2>4, <2>5 DEF BandwidthInv, Idling
<1>6. CASE AfterConnections(in, out)
  <2>8. PICK taken \in [Clients -> Rates], outgoing \in [Clients -> Rates],
             load \in [Clients -> Loads] :
        /\ \/ \A i \in Clients : outgoing[i] = 0
           \/ out = 0 /\ \A i \in Clients : taken[i] = 0 /\ load[i] = 0
        /\ clients = [i \in Clients |->
                [Down EXCEPT !.up = TRUE, !.incoming = taken[i],
                             !.outgoing = outgoing[i], !.load = load[i]]]
        /\ limits = [NewHost(in, out) EXCEPT
                !.recalculate = TRUE, !.connected = Cardinality(Clients),
                !.limited = Cardinality({i \in Clients : taken[i] # 0})]
    BY <1>6, Zenon DEF AfterConnections
  <2>9. clients = [i \in Clients |->
                [Down EXCEPT !.up = TRUE, !.incoming = taken[i],
                             !.outgoing = outgoing[i], !.load = load[i]]]
    BY <2>8
  <2> DEFINE L == {i \in Clients : taken[i] # 0}
             n == Cardinality(Clients)
             m == Cardinality(L)
  <2>1. n \in Int /\ m \in Int
    BY Counts
  <2>2. ASSUME NEW i \in Clients
        PROVE  /\ clients[i] \in ClientType /\ clients[i].up /\ clients[i].incoming = taken[i]
               /\ ~ clients[i].capped /\ ~ clients[i].settled
               /\ clients[i].throttle = ShareScale /\ clients[i].limit = ShareScale
    <3>1. taken[i] \in Rates /\ outgoing[i] \in Rates /\ load[i] \in Loads
      OBVIOUS
    <3>2. clients[i] = [Down EXCEPT !.up = TRUE, !.incoming = taken[i],
                                    !.outgoing = outgoing[i], !.load = load[i]]
      BY <2>9
    <3> QED BY <1>2, <3>1, <3>2 DEF Down, ClientType
  <2>10. limits = [NewHost(in, out) EXCEPT !.recalculate = TRUE, !.connected = n, !.limited = m]
    BY <2>8, Zenon
  <2> HIDE DEF n, m
  <2>3. /\ limits \in LimitsType /\ limits.recalculate
        /\ limits.connected = n /\ limits.limited = m
    BY <1>8, <2>1, <2>10 DEF LimitsType
  <2>4. BandwidthTyped
    <3>1. clients = [i \in Clients |-> clients[i]]
      BY <2>9
    <3>2. clients \in [Clients -> ClientType]
      BY <2>2, <3>1
    <3>3. limits \in [incoming : Rates, outgoing : Rates, recalculate : BOOLEAN,
                      connected : Int, limited : Int]
      BY <2>3 DEF LimitsType
    <3> QED BY <1>1, <3>2, <3>3 DEF BandwidthTyped, LimitsType
  <2>5. LimitsCounted
    <3>1. Up = Clients
      BY <2>2 DEF Up
    <3>2. {i \in Up : clients[i].incoming # 0} = L
      BY <2>2, <3>1
    <3> QED BY <2>3, <3>1, <3>2 DEF LimitsCounted, n, m
  <2>6. ThrottleLimited /\ MarksInv
    BY <2>2, Scale DEF ThrottleLimited, MarksInv, Up
  <2>7. ToldInv
    BY <2>3 DEF ToldInv
  <2> QED BY <1>1, <2>4, <2>5, <2>6, <2>7 DEF BandwidthInv, Idling
<1> QED BY <1>4, <1>5, <1>6

LEMMA BandwidthStepInv ==
    ASSUME BandwidthInv, [BandwidthNext]_bandwidthVars
    PROVE  BandwidthInv'
<1>1. ASSUME NEW in \in Rates, NEW out \in Rates, BandwidthLimit(in, out) PROVE BandwidthInv'
  BY <1>1, BandwidthLimitInv
<1>2. ASSUME NEW in \in Rates, NEW out \in Rates, NEW i \in Clients, OnConnect(i, in, out)
      PROVE  BandwidthInv'
  BY <1>2, OnConnectInv
<1>3. ASSUME NEW in \in Rates, NEW out \in Rates, NEW i \in Clients,
             HandleBandwidthLimit(i, in, out)
      PROVE  BandwidthInv'
  BY <1>3, HandleBandwidthLimitInv
<1>4. ASSUME NEW i \in Clients, NEW noticed \in BOOLEAN, OnDisconnect(i, noticed)
      PROVE  BandwidthInv'
  BY <1>4, OnDisconnectInv
<1>5. ASSUME NEW i \in Clients, NEW load \in Loads, QueueData(i, load) PROVE BandwidthInv'
  BY <1>5, QueueDataInv
<1>6. ASSUME NEW i \in Clients, NEW trip \in {"steady", "good", "bad"}, PeerThrottle(i, trip)
      PROVE  BandwidthInv'
  BY <1>6, PeerThrottleInv
<1>7. CASE Start
  BY <1>7, StartInv
<1>8. CASE CapPass
  BY <1>8, CapPassInv
<1>9. CASE Rest
  BY <1>9, RestInv
<1>10. CASE DividePass
  BY <1>10, DividePassInv
<1>11. CASE Tell
  BY <1>11, TellInv
<1>12. CASE UNCHANGED bandwidthVars
  <2>1. clients' = clients /\ limits' = limits /\ share' = share
    BY <1>12 DEF bandwidthVars
  <2> QED BY <2>1 DEF BandwidthInv, BandwidthTyped, LimitsType, LimitsCounted, ThrottleLimited,
        MarksInv, CapInv, LimitsHold, DivideInv, ToldInv, PeerNotOverwhelmed, Fits, Exceeded,
        Throttle, Capped, Uncapped, Settled, Unsettled, Weighty, Up, Idling, Shared, Sent, Told,
        Incoming, Outgoing
<1> QED BY <1>1, <1>2, <1>3, <1>4, <1>5, <1>6, <1>7, <1>8, <1>9, <1>10, <1>11, <1>12
    DEF BandwidthNext

LEMMA BandwidthInvImplies ==
    ASSUME BandwidthInv
    PROVE  NotOverwhelmed
<1>1. /\ BandwidthTyped /\ LimitsCounted /\ ThrottleLimited /\ ToldInv
      /\ Shared => LimitsHold
  BY DEF BandwidthInv, Shared
<1>2. HostNotOverwhelmed
  <2> SUFFICES ASSUME Shared, limits.outgoing # 0
               PROVE  Total(Sent, Weighty) <= limits.outgoing * ShareScale
    BY DEF HostNotOverwhelmed, Weighty
  <2>1. Weighty \in SUBSET Clients
    BY Partition
  <2>2. Total(Sent, Weighty) = SumOver(Sent, Weighty)
    BY <1>1, <2>1, Summands, TotalIsSum
  <2> QED BY <1>1, <2>2 DEF LimitsHold
<1>3. PeerNotOverwhelmed
  <2>1. CASE Shared
    BY <1>1, <2>1 DEF LimitsHold
  <2>2. CASE ~ Shared
    BY <2>2 DEF PeerNotOverwhelmed
  <2> QED BY <2>1, <2>2
<1>4. PortionsFit
  <2> DEFINE S == {i \in Up : clients[i].outgoing # 0}
  <2> SUFFICES ASSUME ~ limits.recalculate, limits.incoming # 0
               PROVE  Total(Told, S) <= limits.incoming
    BY DEF PortionsFit
  <2>1. S \in SUBSET Up /\ Up \in SUBSET Clients /\ S \in SUBSET Clients
    BY Partition
  <2> HIDE DEF S
  <2>2. Total(Told, S) = SumOver(Told, S)
    BY <1>1, <2>1, Summands, TotalIsSum
  <2>3. \A i \in Up : Told[i] >= 0
    <3> SUFFICES ASSUME NEW i \in Up PROVE Told[i] >= 0
      OBVIOUS
    <3>1. i \in Clients /\ clients[i].told \in Nat \cup {Untold}
      BY <1>1, <2>1, Field
    <3> QED BY <3>1 DEF Told
  <2>4. SumOver(Told, S) <= SumOver(Told, Up)
    BY <1>1, <2>1, <2>3, Summands, SumOfPart, ClientsAssumption
  <2>5. SumOver(Told, Up) <= limits.incoming
    BY <1>1 DEF ToldInv
  <2>6. SumOver(Told, S) \in Int /\ SumOver(Told, Up) \in Int
    BY <1>1, <2>1, Summands, SumType, ClientsAssumption
  <2>7. limits.incoming \in Int
    BY <1>1, RatesAssumption DEF BandwidthTyped, LimitsType
  <2> QED BY <2>2, <2>4, <2>5, <2>6, <2>7
<1> QED BY <1>1, <1>2, <1>3, <1>4 DEF NotOverwhelmed

\* What enet_host_bandwidth_throttle leaves behind, after any connections, disconnections and
\* changes of limits and loads: a host and its peers are sent no more than their bandwidths
\* let through, and what peers are told adds up to what the host can receive; the counters of
\* connected and limited peers are right and no throttle is above its limit.
THEOREM NeverOverwhelmed == BandwidthSpec => []NotOverwhelmed
<1>1. BandwidthInit => BandwidthInv
  BY BandwidthInitInv
<1>2. BandwidthInv /\ [BandwidthNext]_bandwidthVars => BandwidthInv'
  BY BandwidthStepInv
<1>3. BandwidthInv => NotOverwhelmed
  BY BandwidthInvImplies
<1> QED BY <1>1, <1>2, <1>3, PTL DEF BandwidthSpec
=============================================================================
