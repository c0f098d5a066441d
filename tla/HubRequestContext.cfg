SPECIFICATION Spec

CONSTANTS
    Clients = {c1, c2}
    SendBuffer = 1
    MaxResults = 1

SYMMETRY Symmetry

INVARIANTS
    CancelledForAReason

CHECK_DEADLOCK FALSE
