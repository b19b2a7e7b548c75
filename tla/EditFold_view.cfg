SPECIFICATION Spec
CONSTANTS
  Widths = {0, 1}
  Plans <- Crossing
INVARIANTS ViewIsServerPlusPending FoldAgreesWithRebase PendingDisjoint NothingTypedIsLost
CHECK_DEADLOCK FALSE
