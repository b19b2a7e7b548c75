SPECIFICATION FairSpec
CONSTANTS
  Plans <- Protected
  QueueCap = 1
  CompactAt = 1
INVARIANTS NeverMalformed RestoresAPast DurableSurvives FlushHonest QuietProtected NoStaleAppend
PROPERTIES FlushAnswered
CHECK_DEADLOCK FALSE
