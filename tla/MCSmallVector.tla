--------------------------- MODULE MCSmallVector ---------------------------
(***************************************************************************)
(* TLC instance of SmallVector.  Which block the heap provides makes no    *)
(* difference, nor do the names of the vectors or the values.              *)
(***************************************************************************)
EXTENDS SmallVector, TLC

Symmetry ==
  Permutations(Vectors) \cup Permutations(Buffers) \cup Permutations(Values)
=============================================================================
