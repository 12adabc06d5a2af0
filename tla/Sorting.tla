------------------------------- MODULE Sorting -------------------------------
(***************************************************************************)
(* std::sort and std::stable_sort: what is left of them once the order is  *)
(* total.  An order is given as a relation, the set of the pairs of which  *)
(* the first comes before the second.                                      *)
(***************************************************************************)
EXTENDS Naturals, FiniteSets

\* The elements of a finite set, one after the other in a total order.
Sorted(S, Order) ==
    CHOOSE s \in [1..Cardinality(S) -> S] :
        \A i, j \in 1..Cardinality(S) : i < j => <<s[i], s[j]>> \in Order

\* Numbers in increasing order.
Increasing(S) == {p \in S \X S : p[1] < p[2]}
=============================================================================
