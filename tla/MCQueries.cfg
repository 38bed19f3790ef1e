\* Every type-layer query over bounded domains without NaN, and every
\* tool-input query of the harness over a table of seven columns.
CONSTANTS
  Bits <- MCBits
  IntBits = 4
  FloatMax = 3
  NaN = NaN
  Bytes = {0, 1, 255}
  MaxLen = 3
  TimestampSamples <- MCTimestampSamples
  FloatHasNaN = FALSE
  Columns <- MCColumns

SPECIFICATION Spec

INVARIANT CompareIsTotalOrder
INVARIANT IntegerAdjacencyIsSuccessor
INVARIANT BinaryAdjacencyIsImmediateSuccessor
INVARIANT TimestampSplitIsFloor
INVARIANT ParsesExactlyTheDocumentedForm
INVARIANT FailureLeavesPrefixInBuilder
INVARIANT ReplicaSelectionHonoured
INVARIANT DocumentedWriteTypesHonoured
