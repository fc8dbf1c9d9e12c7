------------------------------ MODULE Ordering ------------------------------
(***************************************************************************)
(* The elements of a finite set in an order, which is a set of pairs.      *)
(***************************************************************************)
EXTENDS Integers, FiniteSets

Place(S, before, x) == Cardinality({y \in S : << y, x >> \in before}) + 1

(* The k-th element is the one that k - 1 others are before.               *)
InOrder(S, before) ==
    [k \in 1 .. Cardinality(S) |-> CHOOSE x \in {y \in S : Place(S, before, y) = k} : TRUE]

Ascending(S) == InOrder(S, {pair \in S \X S : pair[1] < pair[2]})
=============================================================================
