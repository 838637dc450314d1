-------------------------- MODULE MCTestAllocator --------------------------
(***************************************************************************)
(* Instances of TestAllocator for TLC.                                     *)
(***************************************************************************)
EXTENDS TestAllocator, TLC

\* The allocator objects, their statistics and the blocks are interchangeable.
Symmetry == Permutations(Allocators) \cup Permutations(Stats) \cup Permutations(Ptrs)

=============================================================================
