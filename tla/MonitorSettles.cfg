\* A changed domain stays changed.
CONSTANTS
  MaxCalls = 2
  SaveOutcomes = {"saved", "lost"}
  d1 = d1
  c1 = c1
  Domains = {d1}
  Checks = {c1}
  Fields = {"ns"}
  Classes = {"active"}
  MaxConcurrentChecks = 1
  AlertCap = 2
  AnswerParts <- AnswersWhole
  CanRemove = FALSE
  MaxNow = 0
  MaxStarts = 1
  MaxChanges = 1
SPECIFICATION Spec
SYMMETRY Symmetry
PROPERTIES
  QuietCheckSettles
