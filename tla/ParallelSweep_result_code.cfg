SPECIFICATION Spec
CONSTANTS
  g_proc_num = 2
  iter_count = 2
  bits = 1
  exhaustive = FALSE
  NCases = 1
  Sweeps = {"integer"}
  FaultKinds <- AllFaultKinds
  MaxFaulty = 1
INVARIANT Result1MeansWrongString
