-------------------------- MODULE MCProjectedSender --------------------------
(* The planning sender with every batch sent for the next block, shifting  *)
(* no target or one.                                                       *)
EXTENDS ProjectedSender

NextOnly == {WhenNext}
OneTarget == {{}} \cup {{t} : t \in Targets}
Symmetry == Permutations(Targets)
=============================================================================
