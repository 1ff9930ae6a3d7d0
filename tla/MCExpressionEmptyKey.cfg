CONSTANTS
  Docs <- MCDocs
  Objects <- MCObjects
SPECIFICATION ExprSpec
INVARIANT UnmarshalNeverPanics
CHECK_DEADLOCK FALSE
