SPECIFICATION Spec
CONSTANTS
    Types = {"KITCHEN", "BAR", "INVOICE"}
    Defaults = {"KITCHEN", "BAR"}
    Patient = TRUE
    Heedful = FALSE
    MayFail = {}
    Unreadable = {}
    NoType = NoType
    NoText = NoText
    MaxActs = 3
    MaxPreviews = 1
    MaxRestarts = 0
INVARIANTS
    FilesOfTheirType
CHECK_DEADLOCK FALSE
