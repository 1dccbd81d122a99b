-------------------------------- MODULE ListOrder --------------------------------
(***************************************************************************)
(* What the intrusive lists promise: every list is a sequence of nodes, no *)
(* node is in two places, a node goes in front of a position, one is taken *)
(* out, and a run of them moves to a position of this or another list.     *)
(***************************************************************************)
EXTENDS Naturals, Sequences

CONSTANTS Lists, Nodes

VARIABLE lists

Members(q) == {q[i] : i \in DOMAIN q}

\* Puts the sequence q in front of position: one of the nodes, or the list for its end.
Place(ls, position, q) ==
    [l \in Lists |->
        IF position = l THEN ls[l] \o q
        ELSE IF position \in Members(ls[l])
        THEN LET i == CHOOSE i \in DOMAIN ls[l] : ls[l][i] = position
             IN  SubSeq(ls[l], 1, i - 1) \o q \o SubSeq(ls[l], i, Len(ls[l]))
        ELSE ls[l]]

Without(ls, S) == [l \in Lists |-> SelectSeq(ls[l], LAMBDA n : n \notin S)]
Linked == UNION {Members(lists[l]) : l \in Lists}

Init == lists = [l \in Lists |-> << >>]

Insert(position, n) ==
    /\ n \notin Linked
    /\ lists' = Place(lists, position, <<n>>)

Remove(n) ==
    /\ n \in Linked
    /\ lists' = Without(lists, {n})

Move(position, l, i, j) ==
    LET q == SubSeq(lists[l], i, j)
    IN  /\ position \notin Members(q)
        /\ lists' = Place(Without(lists, Members(q)), position, q)

Clear(l) == lists' = [lists EXCEPT ![l] = << >>]

\* A step changes some list; all others stutter.
Next ==
    /\ lists' # lists
    /\ \/ \E position \in Lists \cup Linked, n \in Nodes : Insert(position, n)
       \/ \E n \in Nodes : Remove(n)
       \/ \E position \in Lists \cup Linked, l \in Lists :
              \E i \in DOMAIN lists[l] : \E j \in i .. Len(lists[l]) : Move(position, l, i, j)
       \/ \E l \in Lists : Clear(l)

Spec == Init /\ [][Next]_lists
=============================================================================
