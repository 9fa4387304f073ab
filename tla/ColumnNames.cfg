SPECIFICATION Spec
CONSTANTS
  Width <- MCWidth
  Catalogue <- MCCatalogue
  Queries <- MCQueries
INVARIANTS
  AnswerIsMeant
  UniqueIsFound
  StarIsTable
  JoinIsOnNames
CHECK_DEADLOCK FALSE
