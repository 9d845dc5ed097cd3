-------------------------------- MODULE Sums --------------------------------
(***************************************************************************)
(* The sum of a family of numbers as the size of a set: i contributes the  *)
(* pairs <<i, 1>> to <<i, f[i]>>.  A fold would say the same, but a proof  *)
(* can reason about sizes.                                                 *)
(***************************************************************************)
EXTENDS Integers, FiniteSets

Pairs(S, f) == UNION {{i} \X (1..f[i]) : i \in S}
SumOf(S, f) == Cardinality(Pairs(S, f))
=============================================================================
