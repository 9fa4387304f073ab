SPECIFICATION Spec
CONSTANT Exprs <- MCExprs
INVARIANTS NoWrongSystem PlainWorks
CHECK_DEADLOCK FALSE
