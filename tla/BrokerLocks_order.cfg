SPECIFICATION Spec
CONSTANTS
  t1 = t1
  t2 = t2
  t3 = t3
  Task = {t1, t2}
  Operation <- AllOperations
SYMMETRY Symmetry
INVARIANTS LockOrder
