\* One caller, every memory, everything may fail.
SPECIFICATION FairSpec
CONSTANTS
    Callers = {c1}
    MaxCalls = 5
    Kinds = {"simple", "buffer", "window", "token"}
    windowSize = 1
    MaxTokenLimit = 4
    Tokens <- MCTokens
    Stores = {"memory", "script", "batch", "stepwise"}
    Overwrite = TRUE
    FaultyStore = TRUE
    BadValues = TRUE
INVARIANTS TypeOK HistoryIsRecent ForgottenByFailure OrphanMeansFailedSave Bounded
           ChainSeesLastExchange EventsMatchOutcome
PROPERTIES CallsReturn
CHECK_DEADLOCK FALSE
