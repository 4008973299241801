------------------------- MODULE MCSharedMemoryPipe -------------------------
(* Two distinguishable messages and the empty one; the two that are not     *)
(* empty are interchangeable, so their permutations are a symmetry.         *)
EXTENDS SharedMemoryPipe, TLC

Symmetry == Permutations(Messages \ {Empty})
=============================================================================
