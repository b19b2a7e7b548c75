SPECIFICATION Spec
CONSTANTS
  t1 = t1
  t2 = t2
  v1 = v1
  v2 = v2
  v3 = v3
  None = None
  Task = {t1}
  Value = {v1, v2, v3}
  First = v1
  MaxChanges = 3
INVARIANTS RetainedFresh
CHECK_DEADLOCK FALSE
