SPECIFICATION FairSpec
CONSTANTS
  c1 = c1
  c2 = c2
  c3 = c3
  s1 = s1
  s2 = s2
  t1 = t1
  n1 = n1
  n2 = n2
  u1 = u1
  Janitor = Janitor
  None = None
  Conn = {c1, c2}
  Service = {s1}
  Topic = {t1}
  Namespace = {}
  UiSource = {}
  Owner <- OpenTopic
  GrantOnly = {}
  Native = {c1}
  Budget <- JanitorBudgets
  Ticks = TRUE
PROPERTIES DeadSubscriptionsReaped OrphansReclaimed
CHECK_DEADLOCK FALSE
