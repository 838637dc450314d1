-------------------------- MODULE MCThrowAllocator --------------------------
(* A small instance of ThrowAllocator for TLC.                             *)
EXTENDS ThrowAllocator, TLC
Symmetry == Permutations(Nodes)
=============================================================================
