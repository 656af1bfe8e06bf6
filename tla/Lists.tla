------------------------------- MODULE Lists -------------------------------
(* Lists with some of their elements left out.  SelectSeq says the same, but *)
(* nothing is known of it to the provers.                                    *)
EXTENDS Naturals, Sequences, FiniteSets

\* The element of a set of numbers that has j elements up to it
Nth(S, j) == CHOOSE i \in S : Cardinality({k \in S : k <= i}) = j

\* What is left of a list when only some places are kept
Kept(list, places) ==
    [j \in 1..Cardinality(places) |-> list[Nth(places, j)]]
============================================================================
