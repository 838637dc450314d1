-------------------------- MODULE MCParallelSweep --------------------------
(***************************************************************************)
(* Instances of ParallelSweep for TLC.                                     *)
(***************************************************************************)
EXTENDS ParallelSweep

AllSweeps == DOMAIN Table

\* The mismatches a case may show, alone and together, and an exception.
AllFaultKinds ==
  (SUBSET {"format", "short", "value"} \ {{}}) \cup {{"throw"}}

\* Enough to tell the first failure from a later one, and from an exception.
FewFaultKinds == {{"format"}, {"value"}, {"throw"}}

=============================================================================
