SPECIFICATION Spec
CONSTANTS
    Types = {"KITCHEN", "BAR", "INVOICE"}
    Defaults = {"KITCHEN", "BAR"}
    Patient = TRUE
    Heedful = TRUE
    MayFail = {"list", "get", "put", "create", "delete", "preview", "seed"}
    Unreadable = {"BAR", "INVOICE"}
    NoType = NoType
    NoText = NoText
    MaxActs = 3
    MaxPreviews = 3
    MaxRestarts = 1
INVARIANTS
    TypeOK
    FilesOfTheirType
    UnsavedMarked
    AcknowledgedStays
    PreviewCurrent
CHECK_DEADLOCK FALSE
