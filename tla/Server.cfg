SPECIFICATION ServerFairSpec

CONSTANTS
    Requests = {r1, r2, main}
    Main = main
    NoRequest = NoRequest
    MaxSessions = 2
    MaxEvents = 4

INVARIANTS
    PairsWithinSession
    NoStrayWorker
    ReplacedWorkersGone
    ResultsInSessionOrder
    QuietClose

PROPERTIES
    RequestsFinish
    ShutdownCompletes

CHECK_DEADLOCK FALSE
