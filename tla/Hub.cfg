SPECIFICATION FairSpec

CONSTANTS
    Clients = {c1, c2}
    SendBuffer = 1
    MaxResults = 3

INVARIANTS
    NoHubPanic
    GapFree
    ActiveClientsCounted

PROPERTIES
    StopReleasesAll
    DroppedUnwinds

CHECK_DEADLOCK FALSE
