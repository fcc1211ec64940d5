CONSTANTS
  i1 = i1
  i2 = i2
  i3 = i3
  i4 = i4
  i5 = i5
  None = None
  AsyncItems <- MCAsyncItems
  QueueBound = 1
  Items <- MCItems
  KindOf <- MCKindOf
SPECIFICATION Spec
INVARIANTS
  ReportNeverWaits
CHECK_DEADLOCK FALSE
