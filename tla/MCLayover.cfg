SPECIFICATION LayoverSpec
CONSTANTS
    Callers = {"layover", "workflow"}
    Self = "layover"
    Objects = {"annotated", "commit"}
    Peel <- MCPeel
    NoTag = "no tag"
    MaxMoves = 1
    MaxForeign = 1
    Heads = {"h1", "h2"}
    Checks = {"ci"}
    NoHead = "no head"
    Settings <- MCSettings
    MaxChanges = 3
    MaxFaults = 1
    Scenarios <- MCScenarios
    Channels = {"chat"}
    TTL = 0
    SeenLimit = 1
    SeenKept = 0
    MaxArrivals = 3
    MaxQueueSize = 2
    MaxRetries = 2
    MaxStarts = 1
    MaxRejections = 4
INVARIANTS
    LayoverTypeOK
    LaterCallsNeverGoBack
    MergesRestOnAGreenHead
    OnlyMergedBranchesGo
    OncePerDelivery
PROPERTIES
    OnlyCanonicalObjects
    ReadyGetsMerged
CHECK_DEADLOCK FALSE
