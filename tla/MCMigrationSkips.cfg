SPECIFICATION Spec
CONSTANTS
    Runners = {r1}
    MayCrash = {}
    Files <- MCFiles
    Contents = {1}
    Statements <- MCStatements
    Indexes = 1
    MaxRetries = 1
    MaxEdits = 0
INVARIANT
    SkipsOnlyComplete
