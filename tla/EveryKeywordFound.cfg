SPECIFICATION LookupSpec
CONSTANTS
  Tables <- MCTables
  PostGisNames <- MCPostGis
  Identifiers <- MCIdentifiers
INVARIANT EveryKeywordFound
CHECK_DEADLOCK FALSE
