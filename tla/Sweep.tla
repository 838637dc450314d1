-------------------------------- MODULE Sweep --------------------------------
(***************************************************************************)
(* What a bruteforce_* test of src/string/cvt.cpp promises, whatever the   *)
(* number of threads it is given: the iterations are judged one by one, in *)
(* order, at least iter_count of them and fewer than Overrun more; the     *)
(* first iteration on which the library disagrees with its reference ends  *)
(* the sweep and is the one reported.  ParallelSweep is the code that has  *)
(* to keep this promise.                                                   *)
(***************************************************************************)
EXTENDS Integers

CONSTANTS
  iter_count,   \* iterations the test asks for
  Overrun       \* how far a sweep may run past iter_count (its last batch)

VARIABLES
  detects,      \* the iterations the library gets wrong: chosen once, unknown
  next,         \* iterations 0 .. next - 1 have been judged and passed
  verdict,      \* "running", "passed", "failed" or "aborted"
  witness       \* the iteration a failed sweep stands for, -1 before

vars == <<detects, next, verdict, witness>>

Init ==
  /\ detects \subseteq 0 .. iter_count + Overrun - 1
  /\ next = 0
  /\ verdict = "running"
  /\ witness = -1

\* The library agrees with the reference on iteration next.
Accept ==
  /\ verdict = "running"
  /\ next < iter_count + Overrun
  /\ next \notin detects
  /\ next' = next + 1
  /\ UNCHANGED <<detects, verdict, witness>>

\* The library disagrees with the reference on iteration next: VERIFY throws.
Reject ==
  /\ verdict = "running"
  /\ next \in detects
  /\ verdict' = "failed"
  /\ witness' = next
  /\ UNCHANGED <<detects, next>>

\* Enough iterations have passed: the test function returns.
Pass ==
  /\ verdict = "running"
  /\ next >= iter_count
  /\ verdict' = "passed"
  /\ UNCHANGED <<detects, next, witness>>

\* An exception ends the sweep: nothing is said of the values.
Abort ==
  /\ verdict = "running"
  /\ verdict' = "aborted"
  /\ UNCHANGED <<detects, next, witness>>

Next == Accept \/ Reject \/ Pass \/ Abort

Spec == Init /\ [][Next]_vars

=============================================================================
