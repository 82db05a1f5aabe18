SPECIFICATION FairSpec
CONSTANTS
    Bodies <- MCFailureBodies
    NoInstallation = NoInstallation
    NoClick = NoClick
    None = None
    MaxBatches = 2
    MaxOverlap = 2
    MaxFaults = 2
    MaxReadFaults = 1
INVARIANTS
    InboxInv
    ProcessedIsDurable
    AcceptedIsLogical
PROPERTIES
    FailedIsFinal
    SoleWithdrawalRespected
    EveryBatchSettles
CHECK_DEADLOCK FALSE
