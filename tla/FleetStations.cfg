SPECIFICATION Spec
CONSTANTS
    a1 = a1
    a2 = a2
    j1 = j1
    j2 = j2
    r1 = r1
    r2 = r2
    Agents = {a1, a2}
    Jobs = {j1, j2}
    Types = {"KITCHEN", "CUSTOMER"}
    TypeOf <- TwoTypes
    EnvPriority <- EnvelopePriority
    PriorityMap <- LocalPriority
    MayEnable <- Stations
    MayMap <- AllTypes
    Polling = {}
    Readers = {r1}
    MaxRetries = 1
    HistoryMax = 2
    StrictLifecycle = FALSE
    NoAgent = NoAgent
    NoJob = NoJob
    NoReader = NoReader
    MaxFaults = 0
    MaxDrops = 0
    MaxStops = 0
    MaxSaves = 1
INVARIANTS
    UnlistedUntouched
    OnlyOwnerHandles
CHECK_DEADLOCK FALSE
