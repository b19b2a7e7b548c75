SPECIFICATION FairSpec
CONSTANTS
  Op = {1, 2}
  RetryMax = 1
  Plans <- Recoveries
INVARIANTS ViewExact TwiceOnlyIfEvicted
PROPERTIES FateKept ComesToRest
CHECK_DEADLOCK FALSE
