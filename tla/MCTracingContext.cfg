CONSTANTS
  MaxSpans = 3
  MaxTags = 0
  p1 = p1
  s1 = s1
  s2 = s2
  OwnTrace = OwnTrace
  None = None
  Props <- NoProps
  Snapshots <- NoSnapshots
SPECIFICATION FairSpec
INVARIANTS
  TypeOK
  WaitedContextIsComplete
  YoungestIsActive
PROPERTIES
  UnwindingIsSafe
  ReportIsExact
  ReportedMeansFinished
  ParentsEnclose
  PositionsKept
  WaitReturnsUnlessPanicked
CHECK_DEADLOCK FALSE
