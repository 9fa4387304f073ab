SPECIFICATION Spec
CONSTANTS
  Queries <- MCQueries
  MaxRows = 3
INVARIANTS AnswerIsAligned FailsForLackOfArrays
CHECK_DEADLOCK FALSE
