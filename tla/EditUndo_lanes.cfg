SPECIFICATION Spec
CONSTANTS
  a = a
  b = b
  Lanes = {a, b}
  LogMax = 5
  Plans <- Mixed
SYMMETRY Interchangeable
INVARIANTS TypeOK UndoIsExact LinearUndo
CHECK_DEADLOCK FALSE
