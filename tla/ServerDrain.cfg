SPECIFICATION ServerSpec

CONSTANTS
    Requests = {r1, main}
    Main = main
    NoRequest = NoRequest
    MaxSessions = 1
    MaxEvents = 2

SYMMETRY Symmetry

INVARIANTS
    BroadcastsDrained

CHECK_DEADLOCK FALSE
