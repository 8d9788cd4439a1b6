SPECIFICATION Spec
CONSTANTS
    a1 = a1
    a2 = a2
    j1 = j1
    j2 = j2
    r1 = r1
    r2 = r2
    Agents = {a1, a2}
    Jobs = {j1}
    Types = {"KITCHEN"}
    TypeOf <- OneType
    EnvPriority <- EnvelopePriority
    PriorityMap <- LocalPriority
    MayEnable <- AllTypes
    MayMap <- AllTypes
    Polling = {a2}
    Readers = {r1, r2}
    MaxRetries = 2
    HistoryMax = 2
    StrictLifecycle = FALSE
    NoAgent = NoAgent
    NoJob = NoJob
    NoReader = NoReader
    MaxFaults = 1
    MaxDrops = 1
    MaxStops = 1
    MaxSaves = 0
INVARIANTS
    TypeOK
    OnlyOwnerHandles
    HandledOnce
    ReportsInOrder
    BackendNotAhead
    CopiesBounded
PROPERTIES
    ImplementsPrintOnce
SYMMETRY ReaderSymmetry
CHECK_DEADLOCK FALSE
