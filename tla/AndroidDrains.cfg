SPECIFICATION FairSpec
CONSTANTS
    Calls <- MCSwitchCalls
    Plays <- MCReferrerAgain
    BatchLimit = 1
    RowIds = {0, 1, 2}
    MaxCalls = 1
    MaxJobs = 1
    MaxFaults = 1
    MaxKills = 1
PROPERTIES
    BackstopDelivers
CHECK_DEADLOCK FALSE
