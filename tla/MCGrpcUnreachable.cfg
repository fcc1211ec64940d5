CONSTANTS
  t1 = t1
  t2 = t2
  m1 = m1
  trace = trace
  log = log
  management = management
  None = None
  AsyncItems = {}
  QueueBound = 0
  Capacity = 1
  Items <- MCItems
  Kinds <- OneKind
  KindOf <- MCKindOf
SPECIFICATION FairSpec
PROPERTIES
  QuitOnShutdown
CHECK_DEADLOCK FALSE
