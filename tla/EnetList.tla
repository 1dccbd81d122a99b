-------------------------------- MODULE EnetList --------------------------------
(***************************************************************************)
(* The intrusive lists of list.c: each list is a sentinel in a ring of     *)
(* nodes that point forward and back.  The functions write four pointers   *)
(* one after the other, and read some that they have just written; nothing *)
(* in a node says whether it is in a list.  Nodes that are taken out keep  *)
(* their old pointers.                                                     *)
(***************************************************************************)
EXTENDS Naturals, FiniteSets

CONSTANTS
    Lists,      \* the lists, by their sentinels
    Nodes,      \* commands, acknowledgements and peers, by the node inside them
    Garbage     \* what a node points to that was never in a list

ASSUME CellsAssumption == Lists \cap Nodes = {} /\ Garbage \notin Lists \cup Nodes

VARIABLES
    next,
    previous,
    linked      \* nodes that the callers hold to be in a list

listVars == <<next, previous, linked>>

Cells == Lists \cup Nodes

ListInit ==
    /\ next = [c \in Cells |-> IF c \in Lists THEN c ELSE Garbage]
    /\ previous = [c \in Cells |-> IF c \in Lists THEN c ELSE Garbage]
    /\ linked = {}

\* Faulty: the neighbour is read after it was written.
InsertLate(position, n) ==
    /\ position \in Lists \cup linked
    /\ n \in Nodes \ linked
    /\ previous' = [previous EXCEPT ![n] = previous[position], ![position] = n]
    /\ next' = [next EXCEPT ![n] = position, ![previous'[position]] = n]
    /\ linked' = linked \cup {n}

\* enet_list_insert.
Insert(position, n) ==
    /\ position \in Lists \cup linked
    /\ n \in Nodes \ linked
    /\ previous' = [previous EXCEPT ![n] = previous[position], ![position] = n]
    /\ next' = [next EXCEPT ![n] = position, ![previous[position]] = n]
    /\ linked' = linked \cup {n}

\* enet_list_remove.
Remove(n) ==
    /\ n \in linked
    /\ next' = [next EXCEPT ![previous[n]] = next[n]]
    /\ previous' = [previous EXCEPT ![next[n]] = previous[n]]
    /\ linked' = linked \ {n}

\* The nodes S stand in one list, from first to last.
Run(S, first, last) ==
    /\ first \in S /\ last \in S
    /\ next[last] \notin S /\ previous[first] \notin S
    /\ \A n \in S \ {last} : next[n] \in S
    /\ \A n \in S \ {first} : previous[n] \in S

\* Faulty: the place is looked up before the run is taken out.
MoveEarly(position, first, last, S) ==
    /\ position \in (Lists \cup linked) \ S
    /\ Run(S, first, last)
    /\ next' = [next EXCEPT ![previous[first]] = next[last], ![last] = position,
                            ![previous[position]] = first]
    /\ previous' = [previous EXCEPT ![next[last]] = previous[first],
                                    ![first] = previous[position], ![position] = last]
    /\ UNCHANGED linked

\* enet_list_move.
Move(position, first, last, S) ==
    LET out == [previous EXCEPT ![next[last]] = previous[first]]
        before == out[position]
    IN  /\ position \in (Lists \cup linked) \ S
        /\ Run(S, first, last)
        /\ next' = [next EXCEPT ![previous[first]] = next[last], ![last] = position,
                                ![before] = first]
        /\ previous' = [out EXCEPT ![first] = before, ![position] = last]
        /\ UNCHANGED linked

\* enet_list_clear: the nodes of a list that is cleared are forgotten.
Clear(l, S) ==
    /\ \A n \in S : next[n] \in S \cup {l} /\ previous[n] \in S \cup {l}
    /\ next[l] \in S \cup {l} /\ previous[l] \in S \cup {l}
    /\ next' = [next EXCEPT ![l] = l]
    /\ previous' = [previous EXCEPT ![l] = l]
    /\ linked' = linked \ S

ListNext ==
    \/ \E position \in Cells, n \in Nodes : Insert(position, n)
    \/ \E n \in Nodes : Remove(n)
    \/ \E position \in Cells, S \in SUBSET linked : \E first, last \in S :
           Move(position, first, last, S)
    \/ \E l \in Lists, S \in SUBSET linked : Clear(l, S)

ListSpec == ListInit /\ [][ListNext]_listVars

-----------------------------------------------------------------------------
\* Every variable keeps its type; only nodes outside the lists may point to garbage.
ListTypeOK ==
    /\ next \in [Cells -> Cells \cup {Garbage}]
    /\ previous \in [Cells -> Cells \cup {Garbage}]
    /\ linked \subseteq Nodes

\* No pointer of a list leads to a node that is not in one (it may be freed), and the two
\* directions agree: whatever is walked forward in one place is walked back in another
\* (list.c:21-60).
Threaded ==
    \A c \in Lists \cup linked :
        /\ next[c] \in Lists \cup linked /\ previous[next[c]] = c
        /\ previous[c] \in Lists \cup linked /\ next[previous[c]] = c

\* The nodes of list l, forward from its sentinel.
Forward(l) ==
    LET at[i \in 1 .. Cardinality(Nodes) + 1] == IF i = 1 THEN next[l] ELSE next[at[i - 1]]
        InFront(i) == \A j \in 1 .. i : at[j] # l
    IN  IF next[l] = l THEN << >>
        ELSE [i \in {i \in DOMAIN at : InFront(i)} |-> at[i]]

\* The lists are sequences, whatever order the pointers are written in (list.c:21-60).
Order == INSTANCE ListOrder WITH lists <- [l \in Lists |-> Forward(l)]
Ordered == Order!Spec
=============================================================================
