SPECIFICATION MCSpec
CONSTANTS
  Texts <- MCTexts
  InitialAlloc = 2
  MaxOperator = 5
  MaxComment = 8
  MaxLiteral = 6
  MaxName = 5
  MaxNumber = 6
  MaxDollar = 8
  MaxMixed = 4
  Tables <- MCTables
  PostGisNames <- MCPostGis
  Identifiers <- MCIdentifiers
INVARIANTS
  MeaningIsRight
  LiteralIsRight
  MissedOnlyIfMisplaced
  KeywordIsRight
PROPERTIES
  ReachesEnd
  LookupEnds
CHECK_DEADLOCK FALSE
