SPECIFICATION Spec
CONSTANTS
  Op = {1, 2}
  RetryMax = 1
  Plans <- Copies
INVARIANTS NothingLost
CHECK_DEADLOCK FALSE
