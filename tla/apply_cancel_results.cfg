\* Does a successful Apply have all its results when the context is cancelled?
SPECIFICATION Spec
CONSTANTS
    N = 2
    maxWorkers = 1
    CanCancel = TRUE
    CanFail = FALSE
INVARIANTS ResultsComplete
CHECK_DEADLOCK FALSE
