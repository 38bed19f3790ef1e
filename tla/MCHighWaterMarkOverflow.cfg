\* One TryIncrementBy(2, INT64_MAX) on a counter two below INT64_MAX
\* (int64_t scaled to four bits: INT64_MAX = 7).
CONSTANTS
  Threads = {t1}
  OpKinds = {"try"}
  Deltas = {2}
  SetValues = {0}
  Limit = 7
  InitialValue = 6
  OpsPerThread = 1
  Width = 4

SPECIFICATION Spec
CHECK_DEADLOCK FALSE

PROPERTY IncrementsOnlyWithinMax
