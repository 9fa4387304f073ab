SPECIFICATION Spec
CONSTANTS
  Queries <- MCQueries
  MaxRows = 3
INVARIANT TablesFit
CHECK_DEADLOCK FALSE
