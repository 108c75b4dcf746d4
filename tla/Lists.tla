-------------------------------- MODULE Lists --------------------------------
(* Numbers in ascending order, and the elements a sequence has at some of its positions: what the *)
(* loops and sorted lists of indices of the code leave when they keep some elements of a list.    *)
EXTENDS Naturals, FiniteSets

\* The numbers of a finite set, from the least on.
Ascending(S) == CHOOSE q \in [1..Cardinality(S) -> S] : \A i, j \in DOMAIN q : i < j => q[i] < q[j]

\* The elements of s at the positions in S, in their order.
Picked(s, S) == [k \in 1..Cardinality(S) |-> s[Ascending(S)[k]]]
=============================================================================
