SPECIFICATION Spec
CONSTANTS
    Calls <- MCResetCalls
    Plays <- MCDeferred
    BatchLimit = 2
    RowIds = {0, 1, 2}
    MaxCalls = 2
    MaxJobs = 1
    MaxFaults = 1
    MaxKills = 1
INVARIANTS
    NothingLost
    AndroidInv
    CredentialOfIdentity
    AbandonedIsDeleted
CHECK_DEADLOCK FALSE
