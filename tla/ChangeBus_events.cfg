SPECIFICATION FairSpec
CONSTANTS
  t1 = t1
  t2 = t2
  v1 = v1
  v2 = v2
  v3 = v3
  None = None
  Task = {t1, t2}
  Value = {v1, v2, v3}
  First = v1
  MaxChanges = 4
INVARIANTS BurstCovered
PROPERTIES ChainUnbroken CapRespected WatchersCatchUp
CHECK_DEADLOCK FALSE
