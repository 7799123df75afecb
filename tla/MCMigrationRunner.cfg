SPECIFICATION FairSpec
CONSTANTS
    Runners = {r1, r2}
    MayCrash = {r1}
    Files <- MCFiles
    Contents = {1, 2}
    Statements <- MCStatements
    Indexes = 1
    MaxRetries = 1
    MaxEdits = 1
INVARIANTS
    TypeOK
    DriftIsSeen
    ReportsAreTrue
PROPERTIES
    ForwardOnly
    CallsEnd
