CONSTANTS
  MaxSpans = 2
  MaxTags = 1
  p1 = p1
  s1 = s1
  s2 = s2
  OwnTrace = OwnTrace
  None = None
  Props <- MCProps
  Snapshots <- MCSnapshots
SPECIFICATION Spec
INVARIANTS
  ReportedAsGiven
CHECK_DEADLOCK FALSE
