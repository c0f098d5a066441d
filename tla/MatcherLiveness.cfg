SPECIFICATION FairSpec

CONSTANTS
    i1 = i1
    i2 = i2
    f1 = f1
    f2 = f2
    f2Spaced = f2Spaced
    pathA = pathA
    pathB = pathB
    NoId = NoId
    NoItem = NoItem
    NoTick = NoTick
    IdAt <- MCIdAt
    Trimmed <- MCTrimmed
    EventTypes = {"message"}
    Ids = {i1}
    Frames = {f1, f2}
    Paths = {pathA}
    TTL = 1
    TickInterval = 1
    ResultCapacity = 1
    MaxEvents = 2
    Horizon = 3

PROPERTIES
    AgedOut
    CloseCompletes
