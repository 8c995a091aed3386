CONSTANTS
    Rdram <- RdramLists
    Dmem <- DmemLists
    DpcBufferUnits = 6
    ListAddress = {2, 4, 6, 7, 9}
    InlineAccess = {10, 11}
    WaitsForSync = FALSE
    MaxWrites = 5
    Memory = {2, 7, 12, 18}
    InlineStores = {1, 18}
    ViValues <- Settings
    ResetVi <- SettingsAtReset
    BlankOrigin = 6
    MarkedLines = 2
    OncePerField = TRUE
    SettledMode = TRUE
    FramesFail = FALSE
    HostRates = {3, 5}
    GuestRates = {2, 7}
    DefaultGuest = 4
    LeastGuest = 2
    RingFrames = 5
    FieldRate = 2
    LatencyFields = 2
    LeastQueued = 2
    PushSizes = {1, 3}
    PullSizes = {1, 2, 4}
    Scale = 2
    Rounding = 1
    MaxMade = 8
SPECIFICATION HostSpec
INVARIANT SyncedBeforeSeen
CHECK_DEADLOCK FALSE
