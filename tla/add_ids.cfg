\* Every store, one call with at most one document.
SPECIFICATION Spec
CONSTANTS
    MaxDocs = 1
    MaxCalls = 1
INVARIANT AddedIdsReturned
CHECK_DEADLOCK FALSE
