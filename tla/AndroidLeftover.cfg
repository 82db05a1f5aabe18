SPECIFICATION FairSpec
CONSTANTS
    Calls <- MCMeasureCalls
    Plays <- MCDeferred
    BatchLimit = 1
    RowIds = {0, 1, 2}
    MaxCalls = 1
    MaxJobs = 1
    MaxFaults = 0
    MaxKills = 0
PROPERTIES
    LeftoversDrain
CHECK_DEADLOCK FALSE
