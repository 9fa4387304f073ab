SPECIFICATION Spec
CONSTANTS
  Plans <- MCPlans
  MaxId = 12
  MaxRuns = 2
  MaxFaults = 2
INVARIANTS RegisteredExists FailureHasCause OneOrphanPerFault OkIsReal CleanExit
PROPERTIES QueriesAndExitsEnd
CHECK_DEADLOCK FALSE
