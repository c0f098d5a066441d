SPECIFICATION Spec

CONSTANTS
    Values = {v1}
    EventTypes = {e1}
    Empty = Empty
    Torn = Torn
    Message = Message
    BackoffInitial = 1
    BackoffMax = 30
    MaxFruitless = 6
    MaxLines = 1

INVARIANT
    StopsOnlyWhenTold

CHECK_DEADLOCK FALSE
