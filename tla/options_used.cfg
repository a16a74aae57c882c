\* Every package, one option besides the usual ones.
SPECIFICATION Spec
CONSTANT MaxOptions = 1
INVARIANT DocumentedIsUsed
CHECK_DEADLOCK FALSE
