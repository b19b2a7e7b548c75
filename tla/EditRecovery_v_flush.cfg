SPECIFICATION Spec
CONSTANTS
  Plans <- SavedOver
  QueueCap = 1
  CompactAt = 1
INVARIANTS FlushHonest
CHECK_DEADLOCK FALSE
