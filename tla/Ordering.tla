------------------------------ MODULE Ordering ------------------------------
(***************************************************************************)
(* Sets of numbers in their order.                                          *)
(***************************************************************************)
EXTENDS Integers, FiniteSets

\* The members of a set from the least on: as many are at or below the k-th as k says.
InOrder(S) ==
  [k \in 1..Cardinality(S) |-> CHOOSE i \in S : Cardinality({j \in S : j <= i}) = k]
=============================================================================
