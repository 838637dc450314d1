SPECIFICATION Spec
CONSTANTS
  g_proc_num = 2
  iter_count = 8
  bits = 3
  exhaustive = TRUE
  NCases = 2
  Sweeps <- AllSweeps
  FaultKinds <- AllFaultKinds
  MaxFaulty = 2
INVARIANT CoversMantissas
INVARIANT ReportNamesFirstFailure
