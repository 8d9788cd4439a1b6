SPECIFICATION FairSpec
CONSTANTS
    Unit = 30
    MaxBackoff = 30
    PingInterval = 1
    PongTimeout = 2
    DialTimeout = 2
    SendCap = 1
    InboxMax = 2
    MaxPolls = 2
    None = None
INVARIANTS
    TypeOK
    SilenceNoticed
    HealthyKept
    ReconnectsInTime
PROPERTIES
    DashboardCatchesUp
CHECK_DEADLOCK FALSE
