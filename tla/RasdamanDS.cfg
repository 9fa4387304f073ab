CONSTANTS
  NColls = 3
  MaxLosses = 2
  Rejects = TRUE
SPECIFICATION Spec
INVARIANTS
  OnlyRefusedPending
  SuccessIsReal
  LossCostsTwo
PROPERTIES
  RemovalIndependent
  CallsReturn
