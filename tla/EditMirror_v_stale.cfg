SPECIFICATION FairSpec
CONSTANTS
  Op = {1, 2}
  RetryMax = 1
  Plans <- Stale
PROPERTIES ComesToRest
CHECK_DEADLOCK FALSE
