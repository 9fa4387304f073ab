CONSTANTS
  NTables = 3
  Faults = {"link", "reject"}
SPECIFICATION Spec
INVARIANTS
  RestClosed
  SuccessIsReal
  FaultOnlyAfterRefusedDrop
PROPERTIES
  RemovalAtomic
  ForgottenOnlyAfterCaught
  CallsReturn
  ImplementsStore
CHECK_DEADLOCK FALSE
