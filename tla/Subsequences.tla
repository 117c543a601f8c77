---------------------------- MODULE Subsequences ----------------------------
(***************************************************************************)
(* What a list comprehension with a condition returns: the elements of a   *)
(* list at the positions that meet the condition, in their order.          *)
(***************************************************************************)
EXTENDS Naturals, FiniteSets

\* The n-th smallest of a finite set of positions.
Nth(I, n) == CHOOSE i \in I : Cardinality({j \in I : j <= i}) = n

Picked(t, I) == [n \in 1..Cardinality(I) |-> t[Nth(I, n)]]
=============================================================================
