SPECIFICATION FairSpec
CONSTANTS
  g_proc_num = 3
  iter_count = 4
  bits = 1
  exhaustive = FALSE
  NCases = 2
  Sweeps = {"fixed", "big_prec"}
  FaultKinds <- FewFaultKinds
  MaxFaulty = 2
INVARIANT TypeOK
INVARIANT ResultsAreFresh
INVARIANT NoOrphanThreads
INVARIANT BoundedParallelism
INVARIANT ReportNamesFirstFailure
PROPERTY ImplementsSequentialSweep
PROPERTY EventuallyStops
