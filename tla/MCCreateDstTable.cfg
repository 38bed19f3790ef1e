\* Any source schema, destination state and flag; every call may fail and
\* the tool may die and be run again.
CONSTANTS
  SrcSchemas <- MCSrcSchemas
  SrcHashes <- MCSrcHashes
  HashFlags <- MCHashFlags
  NumRanges = 2
  FailSites = {"open", "partitions", "create", "create_timeout", "alter", "crash"}
  MaxRuns = 2

SPECIFICATION Spec

INVARIANT DummiesFillHolesExactly
INVARIANT CreatedTableMirrorsSourcePartitioning
