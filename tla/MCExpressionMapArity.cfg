CONSTANTS
  Docs <- MCDocs
  Objects <- MCObjects
SPECIFICATION ExprSpec
INVARIANT EvalNeverPanics
CHECK_DEADLOCK FALSE
