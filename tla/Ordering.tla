------------------------------ MODULE Ordering ------------------------------
(***************************************************************************)
(* Python's sorted, of a finite set under a strict order: a set of pairs.  *)
(* The n-th member is the one that n - 1 others come before.               *)
(***************************************************************************)
EXTENDS Integers, FiniteSets

InOrder(S, before) ==
    [n \in 1 .. Cardinality(S) |->
        CHOOSE x \in S : Cardinality({y \in S : <<y, x>> \in before}) = n - 1]

\* A set of numbers from the smallest on.
Ascending(S) == InOrder(S, {p \in S \X S : p[1] < p[2]})
=============================================================================
