\* StartScan and StartCopy where thread_pool_->Submit may fail.
CONSTANTS
  NumThreads = 2
  TokenBatches <- MCTokenBatches
  TabletFilter = {1, 3}
  WorkTypes = {"scan", "copy"}
  WriteTypeEmpty = FALSE
  CopySchemas <- MCCopySchemas
  FailSites = {"submit", "setup", "into_scanner", "open", "next_batch", "copy_setup", "add_row", "flush"}

SPECIFICATION Spec

INVARIANT NoTaskOutlivesStartWork
