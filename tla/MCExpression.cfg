CONSTANTS
  Docs <- MCDocs
  Objects <- MCObjects
SPECIFICATION ExprSpec
INVARIANTS TypeOK FilterMatchesReference QuantifiersMatchReference NumericOpsMatchReference
CHECK_DEADLOCK FALSE
