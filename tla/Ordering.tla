------------------------------- MODULE Ordering -------------------------------
(***************************************************************************)
(* A finite set as a sequence, as a sort with a key leaves it.             *)
(***************************************************************************)
EXTENDS Integers, FiniteSets

\* In the order that the pairs before are: each element has those before it.
InOrder(S, before) ==
  [r \in 1 .. Cardinality(S) |->
     CHOOSE x \in S : Cardinality({y \in S : <<y, x>> \in before}) = r - 1]
=============================================================================
