SPECIFICATION Spec
CONSTANTS
    Bodies <- MCAttributionBodies
    NoInstallation = NoInstallation
    NoClick = NoClick
    None = None
    MaxBatches = 3
    MaxOverlap = 1
    MaxFaults = 2
    MaxReadFaults = 0
INVARIANTS
    ReplayIsDeterministic
    OneAttributionPerInstallation
    LateClickRecovered
    LookupsAreResolvable
PROPERTIES
    LedgerIsAppendOnly
CHECK_DEADLOCK FALSE
