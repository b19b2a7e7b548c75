SPECIFICATION Spec
CONSTANTS
  c1 = c1
  c2 = c2
  c3 = c3
  s1 = s1
  s2 = s2
  None = None
  Conn = {c1, c2, c3}
  Service = {s1, s2}
  RequestId = {1, 2}
  Cast <- LocalCasts
  MaxTaps = 2
INVARIANTS ReplyOnce AnswerCorrelated NoOrphanName
PROPERTIES NameKept NoDeliveryAfterDeregister
CHECK_DEADLOCK FALSE
