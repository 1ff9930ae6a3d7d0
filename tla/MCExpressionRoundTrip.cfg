CONSTANTS
  Docs <- MCDocs
  Objects <- MCObjects
SPECIFICATION ExprSpec
INVARIANT RoundTrip
CHECK_DEADLOCK FALSE
