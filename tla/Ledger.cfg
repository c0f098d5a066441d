SPECIFICATION LedgerSpec

CONSTANTS
    MAX_HISTORY = 3
    PILL_MAX = 2
    ViewRows = 1
    MaxBatch = 2
    MaxResults = 5

INVARIANTS
    PillNeverShort

CHECK_DEADLOCK FALSE
