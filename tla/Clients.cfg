SPECIFICATION Spec
CONSTANTS
  Clients = {c1, c2}
  Nobody = nobody
  Menus <- MCMenus
  MaxId = 8
  MaxFaults = 1
INVARIANTS RelationalIsPrivate TurnsArePrivate
PROPERTIES OnlyMakerRemoves EveryQueryEnds
CHECK_DEADLOCK FALSE
