\* Every store, two documents; the SQL stores ask for one.
SPECIFICATION Spec
CONSTANTS
    MaxDocs = 2
    MaxScore = 1
    DefaultK = 1
INVARIANT SearchIsExact
CHECK_DEADLOCK FALSE
