SPECIFICATION Spec
CONSTANTS
  a = a
  b = b
  Lanes = {a, b}
  LogMax = 5
  Plans <- BothUndone
INVARIANT OrderKept
CHECK_DEADLOCK FALSE
