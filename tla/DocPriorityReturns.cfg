SPECIFICATION Spec
CONSTANTS
    Types = {"KITCHEN", "INVOICE"}
    Printers = {Epson}
    Plain = {"given", "blank"}
    GivenPlain = "given"
    BlankPlain = "blank"
    DefaultPriority <- Priorities
    Unset = Unset
    Missing = Missing
    Torn = Torn
    Down = Down
    NoConfig = NoConfig
    TemplateSets <- Sets
    Empty = Empty
    Offered = {0}
    LoadsMayFail = FALSE
    Closed = Closed
    NoRow = NoRow
    Pages = {p1}
    p1 = p1
    p2 = p2
    MaxStarts = 2
    MaxHarm = 0
    MaxActs = 2
INVARIANTS
    UnlistedFallsBack
CHECK_DEADLOCK FALSE
