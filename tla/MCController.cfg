CONSTANTS
  ConfigMap = ConfigMap
  Deployment = Deployment
  c1 = c1
  c2 = c2
  Kinds <- MCKinds
  Keys <- MCKeys
  JoinCond <- MCJoinCond
  ExprFails <- MCExprFails
  MaxVersion = 2
  WatcherBufferSize = 1
  MaxChanges = 4
  MaxWriteFailures = 1
SPECIFICATION Spec
INVARIANT TypeOK
INVARIANT TargetConverges
PROPERTY EngineRefinement
CHECK_DEADLOCK FALSE
