\* Does every chain of a checked sequence get its inputs?
SPECIFICATION Spec
CONSTANTS
    Keys = {k1, k2}
    Kinds = {"sequential"}
    MaxChains = 2
INVARIANTS CheckedChainsHaveInputs
CHECK_DEADLOCK FALSE
