-------------------------------- MODULE Ordering --------------------------------
(***************************************************************************)
(* ORDER BY: the rows of a set, each in the place that the number of rows  *)
(* before it gives it.  Before is a strict total order of the rows.        *)
(***************************************************************************)
EXTENDS Integers, FiniteSets

InOrder(S, Before(_, _)) ==
  [k \in 1..Cardinality(S) |->
     CHOOSE x \in S : Cardinality({y \in S : Before(y, x)}) = k - 1]

================================================================================
