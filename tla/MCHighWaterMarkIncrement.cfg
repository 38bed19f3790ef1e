\* A single IncrementBy caller: is max_value() the highest value seen?
CONSTANTS
  Threads = {t1}
  OpKinds = {"inc"}
  Deltas = {1}
  SetValues = {0}
  Limit = 3
  InitialValue = 0
  OpsPerThread = 2
  Width = 6

SPECIFICATION Spec
CHECK_DEADLOCK FALSE

INVARIANT MaxIsHighWaterMark
