\* Three callers mixing TryIncrementBy against one limit, IncrementBy and
\* set_value.
CONSTANTS
  Threads = {t1, t2, t3}
  OpKinds = {"try", "inc", "set"}
  Deltas = {1, 2}
  SetValues = {0, 3}
  Limit = 3
  InitialValue = 0
  OpsPerThread = 2
  Width = 6

SPECIFICATION Spec
SYMMETRY Symmetry
\* The threads stop after OpsPerThread calls each.
CHECK_DEADLOCK FALSE

INVARIANT NoLostUpdate
INVARIANT MaxBoundsHighWaterMark
