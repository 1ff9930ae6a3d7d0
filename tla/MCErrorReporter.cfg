CONSTANTS
  e1 = e1
  e2 = e2
  Errors <- MCErrors
  ErrorReporterStackSize = 2
  First = 2
  Interval = 2
  MaxTime = 3
  MaxPushes = 4
  ChanCap = 1
SPECIFICATION FairSpec
INVARIANT TypeOK
INVARIANT StackKeepsMostRecent
INVARIANT NotificationsRateLimited
PROPERTY PushReturns
