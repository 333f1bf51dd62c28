\* Two savers share one temporary file.
CONSTANTS
  w1 = w1
  w2 = w2
  main = main
  Workers = {w1, w2}
  Caller = main
  Batch <- TwoDomains
  CheckpointInterval = 1
  Checkpointing = TRUE
  Cancels = {}
  DiskFails = FALSE
  MaxRuns = 1
SPECIFICATION Spec
INVARIANTS
  CheckpointFileWhole
