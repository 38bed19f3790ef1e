\* A failed drop of the dummy columns, or a death between Create and the
\* drop, leaves a created table that no later run accepts.
CONSTANTS
  SrcSchemas <- MCSrcSchemas
  SrcHashes <- MCSrcHashes
  HashFlags <- MCHashFlags
  NumRanges = 2
  FailSites = {"open", "partitions", "create", "create_timeout", "alter", "crash"}
  MaxRuns = 2

SPECIFICATION Spec

INVARIANT NoHalfCreatedTable
