SPECIFICATION Spec

CONSTANTS
    i1 = i1
    i2 = i2
    f1 = f1
    f2 = f2
    f2Spaced = f2Spaced
    pathA = pathA
    pathB = pathB
    NoId = NoId
    NoItem = NoItem
    NoTick = NoTick
    IdAt <- MCIdAt
    Trimmed <- MCTrimmed
    EventTypes = {"message"}
    Ids = {i1, i2}
    Frames = {f1, f2}
    Paths = {pathA, pathB}
    TTL = 1
    TickInterval = 2
    ResultCapacity = 1
    MaxEvents = 3
    Horizon = 2

INVARIANTS
    TypeOK
    BufferCounted
    OneSideWaits
    ResultsAccounted
    NoSendOnClosed
    NoMissedPair

PROPERTIES
    ImplementsPairing
