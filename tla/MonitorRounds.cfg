\* Periodic rounds over two domains, one slot, a failing query, a Stop.
CONSTANTS
  MaxCalls = 2
  SaveOutcomes = {"saved", "lost"}
  d1 = d1
  d2 = d2
  c1 = c1
  c2 = c2
  Domains = {d1, d2}
  Checks = {c1, c2}
  Fields = {"registrant"}
  Classes = {"active"}
  MaxConcurrentChecks = 1
  AlertCap = 0
  AnswerParts <- AnswersRegistrant
  CanRemove = FALSE
  MaxNow = 0
  MaxStarts = 1
  MaxChanges = 1
SPECIFICATION Spec
SYMMETRY Symmetry
INVARIANTS
  TypeOK
  ChangesTold
  AlertedIsStored
  StartBounded
PROPERTIES
  RecordedInOrder
