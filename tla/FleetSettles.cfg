SPECIFICATION FairSpec
CONSTANTS
    a1 = a1
    a2 = a2
    j1 = j1
    j2 = j2
    r1 = r1
    r2 = r2
    Agents = {a1}
    Jobs = {j1, j2}
    Types = {"KITCHEN", "CUSTOMER"}
    TypeOf <- TwoTypes
    EnvPriority <- EnvelopePriority
    PriorityMap <- LocalPriority
    MayEnable <- AllTypes
    MayMap <- AllTypes
    Polling = {}
    Readers = {r1, r2}
    MaxRetries = 2
    HistoryMax = 1
    StrictLifecycle = TRUE
    NoAgent = NoAgent
    NoJob = NoJob
    NoReader = NoReader
    MaxFaults = 0
    MaxDrops = 1
    MaxStops = 0
    MaxSaves = 0
INVARIANTS
    NothingRejected
    HandledOnce
    HistoryTruthful
PROPERTIES
    NoJobIsLost
CHECK_DEADLOCK FALSE
