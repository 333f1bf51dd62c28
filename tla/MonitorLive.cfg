\* CheckNow, removal, partial answers, Stop and Start, alerts that nobody need read.
CONSTANTS
  MaxCalls = 2
  SaveOutcomes = {"lost"}
  d1 = d1
  c1 = c1
  c2 = c2
  Domains = {d1}
  Checks = {c1, c2}
  Fields = {"ns"}
  Classes = {"active"}
  MaxConcurrentChecks = 1
  AlertCap = 1
  AnswerParts <- AnswersWhole
  CanRemove = TRUE
  MaxNow = 1
  MaxStarts = 2
  MaxChanges = 1
SPECIFICATION FairSpec
PROPERTIES
  CatchesUp
  StopReturns
