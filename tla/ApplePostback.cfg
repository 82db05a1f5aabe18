SPECIFICATION Spec
CONSTANTS
    Postbacks <- MCPostbacks
    Body <- MCBodies
    Scopes = {s1}
    Requests = {1, 2, 3}
    AcceptDevelopment = FALSE
    Limit = 1
    Burst = 2
    Rate = 1
    HourLength = 1
    DayLength = 1
    MaxInFlight = 2
    MaxTime = 1
    MaxFaults = 1
INVARIANTS
    AcknowledgedIsDurable
    SignedIsNeverDropped
    UnverifiedWithinQuota
PROPERTIES
    CountedForGood
CHECK_DEADLOCK FALSE
