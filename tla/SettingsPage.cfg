SPECIFICATION Spec
CONSTANTS
    Types = {"KITCHEN", "INVOICE"}
    Printers = {Epson}
    Plain = {"given", "blank", "typed"}
    GivenPlain = "given"
    BlankPlain = "blank"
    DefaultPriority <- Priorities
    Unset = Unset
    Missing = Missing
    Torn = Torn
    Down = Down
    NoConfig = NoConfig
    TemplateSets <- Sets
    Empty = Empty
    Offered = {0, Empty}
    LoadsMayFail = TRUE
    Closed = Closed
    NoRow = NoRow
    Pages = {p1, p2}
    p1 = p1
    p2 = p2
    MaxStarts = 2
    MaxHarm = 1
    MaxActs = 3
INVARIANTS
    TypeOK
    AgentIdKept
    AcknowledgedKept
PROPERTIES
    OnlyEditsSaved
SYMMETRY PageSymmetry
CHECK_DEADLOCK FALSE
