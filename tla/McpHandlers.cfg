SPECIFICATION Spec
CONSTANTS
  r1 = r1
  t1 = t1
  t2 = t2
  t3 = t3
  c1 = c1
  c2 = c2
  Requests = {r1}
  Tasks = {t1, t2, t3}
  Callers = {c1, c2}
  MaxPlan = 2
SYMMETRY Symmetry
INVARIANTS TypeOK DoneUnlessRaced TablesAgree
PROPERTY FinishedKept
CHECK_DEADLOCK FALSE
