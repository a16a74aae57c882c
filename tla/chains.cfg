\* Three inputs for two workers; sequences of up to three chains over two keys;
\* three calls of two callers that share a memory.
CONSTANTS
    N = 3  maxWorkers = 2  CanCancel = TRUE  CanFail = TRUE
    Keys = {k1, k2}  SequenceKinds = {"sequential", "simple"}  MaxChains = 3
    Callers = {c1, c2}  MaxCalls = 3
    Kinds = {"window", "token"}  windowSize = 1  MaxTokenLimit = 2
    Tokens <- MCTokens
    Stores = {"script"}  Overwrite = TRUE  FaultyStore = FALSE  BadValues = FALSE
SPECIFICATION Spec
INVARIANTS TypeOK ResultsComplete EachInputOnce QuietAfterSuccess SendNeverBlocks
           KeysHaveOneSource MissingWasSuppliedEarlier PipelineRuns HistoryInOrder
PROPERTIES ApplyReturns NoWorkerLeft
CHECK_DEADLOCK FALSE
