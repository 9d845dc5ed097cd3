-------------------------- MODULE MCPopularityList --------------------------
(* Values are times; a value more than a tick behind the new one expires. *)
EXTENDS PopularityList, TLC

Times == 0..2
TooOld(last, new) == new - last > 1

Symmetry == Permutations(Keys) \cup Permutations(Nodes)
=============================================================================
