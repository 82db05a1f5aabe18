SPECIFICATION FairSpec
CONSTANTS
    Lookups <- MCTwoLookups
    Anchored <- MCTwoLookups
    Expiry = 4
    RateDelay = 1
    NotFoundDelay = 1
    BackoffBase = 1
    BackoffCap = 2
    Limit = 1
    MaxQueueTime = 0
    MaxTime = 4
    MaxFaults = 1
    None = None
INVARIANTS
    LookupInv
    RowUntilOutcome
    NeverAskedEarly
PROPERTIES
    EveryLookupSettles
CHECK_DEADLOCK FALSE
