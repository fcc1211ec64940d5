CONSTANTS
  a1 = a1
  a2 = a2
  a3 = a3
  a4 = a4
  NoThread = NoThread
  Members <- MCMembers
SPECIFICATION FairSpec
INVARIANTS
  TypeOK
  CountIsOutstanding
  NoLostWakeup
PROPERTIES
  ImplementsPromise
  WaitReturns
CHECK_DEADLOCK FALSE
