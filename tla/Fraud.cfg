SPECIFICATION Spec
CONSTANTS
    Bodies <- MCBodies
    Bundles = {"fraud-default", "fraud-other"}
    Policies <- MCPosted
    Registered <- MCRegistered
    Switch = {TRUE, FALSE}
    ActionsEnabled = TRUE
    DayLength = 2
    MaxClock = 3
    MaxBatches = 2
    MaxActivations = 1
    MaxFaults = 1
INVARIANTS
    QuarantineResolvesOnce
    ExclusionHasItsDecision
    NoStaleRevision
PROPERTIES
    AuditFollows
CHECK_DEADLOCK FALSE
