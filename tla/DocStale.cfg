SPECIFICATION FairSpec
CONSTANTS
    a1 = a1
    a2 = a2
    j1 = j1
    j2 = j2
    r1 = r1
    r2 = r2
    Agents = {a1}
    Jobs = {j1}
    Types = {"KITCHEN"}
    TypeOf <- OneType
    EnvPriority <- EnvelopePriority
    PriorityMap <- LocalPriority
    MayEnable <- AllTypes
    MayMap <- AllTypes
    Polling = {a1}
    Readers = {r1, r2}
    MaxRetries = 2
    HistoryMax = 2
    StrictLifecycle = TRUE
    NoAgent = NoAgent
    NoJob = NoJob
    NoReader = NoReader
    MaxFaults = 1
    MaxDrops = 0
    MaxStops = 0
    MaxSaves = 0
PROPERTIES
    StaleStatusRecovers
CHECK_DEADLOCK FALSE
