----------------------------- MODULE MCLockstep -----------------------------
(* A small instance of Lockstep for TLC.                                   *)
EXTENDS Lockstep
=============================================================================
