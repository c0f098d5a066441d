SPECIFICATION FeedbackFairSpec

CONSTANTS
    BACKOFF_INITIAL = 1
    BACKOFF_MAX = 4
    MAX_HISTORY = 3
    MaxSlots = 3
    MaxMessages = 5
    MaxCloses = 3
    TICKS = 2
    MaxLate = 1
    MaxLag = 5
    MAX_ANNOUNCEMENTS_PER_SEC = 2
    KindOf <- MCKindOf

INVARIANTS
    SingleConnection
    StatusHonest
    BackoffFollowsCloses
    HistoryIsNewest
    CountdownHonest
    PulseEnds

PROPERTIES
    AnomaliesAnnounced
    Reconnects

CHECK_DEADLOCK FALSE
