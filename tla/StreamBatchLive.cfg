\* One worker, a full result channel, no concurrent save; one crash.
CONSTANTS
  w1 = w1
  main = main
  Workers = {w1}
  Caller = main
  Batch <- FourDomains
  CheckpointInterval = 2
  Checkpointing = TRUE
  Cancels = {"context"}
  DiskFails = TRUE
  MaxRuns = 2
SPECIFICATION FairSpec
PROPERTIES
  CheckpointFileGrows
  BatchEnds
  CancelEndsBatch
