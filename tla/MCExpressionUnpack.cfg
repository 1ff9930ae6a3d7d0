CONSTANTS
  Docs <- MCDocs
  Objects <- MCObjects
SPECIFICATION ExprSpec
INVARIANT UnpackOnlySingletons
CHECK_DEADLOCK FALSE
