------------------------------ MODULE Positions ------------------------------
(* Positions of a sequence, in order: what a loop that passes some of the  *)
(* parts over leaves.                                                      *)
EXTENDS Integers, FiniteSets

(* The members of a finite set of numbers, the least first.                *)
InOrder(S) ==
    [j \in 1 .. Cardinality(S) |->
        CHOOSE k \in S : Cardinality({i \in S : i <= k}) = j]
=============================================================================
