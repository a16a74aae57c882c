\* A history that ignores SetMessages under a token buffer.
SPECIFICATION FairSpec
CONSTANTS
    Callers = {c1}
    MaxCalls = 3
    Kinds = {"token"}
    windowSize = 1
    MaxTokenLimit = 4
    Tokens <- MCTokens
    Stores = {"script"}
    Overwrite = FALSE
    FaultyStore = FALSE
    BadValues = FALSE
PROPERTIES PruningShortens
CHECK_DEADLOCK FALSE
