\* StartScan and StartCopy, every client call but Submit fallible.
CONSTANTS
  NumThreads = 2
  TokenBatches <- MCTokenBatches
  TabletFilter = {1, 3}
  WorkTypes = {"scan", "copy"}
  WriteTypeEmpty = FALSE
  CopySchemas <- MCCopySchemas
  FailSites = {"setup", "into_scanner", "open", "next_batch", "copy_setup", "add_row", "flush"}

SPECIFICATION Spec

INVARIANT TypeOK
INVARIANT CountOnSuccess
INVARIANT TokensDealtEvenly
INVARIANT CopiedRowMatchesSource
