\* Two workers and Cancel() save at once; writes fail; one crash.
CONSTANTS
  w1 = w1
  w2 = w2
  main = main
  Workers = {w1, w2}
  Caller = main
  Batch <- TwoDomains
  CheckpointInterval = 1
  Checkpointing = TRUE
  Cancels = {"Cancel", "context"}
  DiskFails = TRUE
  MaxRuns = 2
SPECIFICATION Spec
SYMMETRY Symmetry
INVARIANTS
  TypeOK
  SentBeforeDurable
  EndedCoversBatch
  NoSendOnClosed
  NeverQueriedTwice
  CheckpointAgrees
PROPERTIES
  KeepsPromise
