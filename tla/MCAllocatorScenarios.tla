------------------------ MODULE MCAllocatorScenarios ------------------------
(* A small instance of AllocatorScenarios for TLC.                         *)
EXTENDS AllocatorScenarios, TLC
CONSTANTS b1, b2, b3, b4

MCBlocks == {b1, b2, b3, b4}
Addresses == Permutations(MCBlocks)
=============================================================================
