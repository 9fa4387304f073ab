SPECIFICATION Spec
CONSTANT Exprs <- MCSamples
INVARIANTS ScalarsWork
CHECK_DEADLOCK FALSE
