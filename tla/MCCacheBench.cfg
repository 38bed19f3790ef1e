\* RunBench with three query threads, --run_seconds=1.
CONSTANTS
  NumThreads = 3
  RunSeconds = 1
  MaxLookups = 2

SPECIFICATION Spec

INVARIANT ReportedTotalsAreThreadSums
