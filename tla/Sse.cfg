SPECIFICATION FairSpec

CONSTANTS
    Values = {v1}
    EventTypes = {e1}
    Empty = Empty
    Torn = Torn
    Message = Message
    BackoffInitial = 1
    BackoffMax = 30
    MaxFruitless = 6
    MaxLines = 4

INVARIANTS
    FramesAreBlocks
    BackoffFollowsFailures

PROPERTIES
    CancelledReturns
    RetriesUntilStopped

CHECK_DEADLOCK FALSE
