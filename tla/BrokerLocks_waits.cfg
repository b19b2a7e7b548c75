SPECIFICATION FairSpec
CONSTANTS
  t1 = t1
  t2 = t2
  t3 = t3
  Task = {t1, t2, t3}
  Operation = {"remove_peer", "list", "publish", "session", "trailer"}
INVARIANTS NoCircularWait LockOrder
PROPERTIES EveryOperationEnds
