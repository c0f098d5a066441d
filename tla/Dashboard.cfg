SPECIFICATION Spec

CONSTANTS
    MaxRequests = 4
    AllowPrivateTargets = FALSE
    Forms <- MCForms

INVARIANTS
    BadgeTruthful
    FormReachable

PROPERTIES
    StartFailureShown

CHECK_DEADLOCK FALSE
