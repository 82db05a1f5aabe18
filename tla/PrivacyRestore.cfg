SPECIFICATION Spec
CONSTANTS
    d1 = d1  b1 = b1  r1 = r1  r2 = r2
    Devices = {d1}
    Batches = {b1}
    Records = {r1, r2}
    DeviceOf <- OneDevice
    BatchOf <- OneBatch
    EventOf <- Events
    Installs = {r1}
    Measured = {r1, r2}
    Copies = {1, 2}
    MaxRequests = 2
    MaxAdmin = 1
    SnapshotAgain = FALSE
    MaxRuns = 1
    MaxFaults = 1
    None = None
INVARIANTS
    OnlySharedBodiesSurvive
    OneReplacementPerRequest
PROPERTY ServesOnlyRedacted
CHECK_DEADLOCK FALSE
