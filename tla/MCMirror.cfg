SPECIFICATION FairSpec
CONSTANTS
    Commits <- MCCommits
    History <- MCHistory
    Candidates = {3}
    Absent = absent
    Heads = {main}
    Tags = {tag}
    Kept = {main}
    Destinations <- MCDestinations
    Public = {1}
    Unusable = {3}
    OverwritesAhead = {2}
    Receivers = {w1}
    Reconcilers = {w2}
    Sweepers = {w1}
    Measures <- MCMeasures
    Origins <- MCOrigins
    MaxEdits = 1
    MaxStrangers = 1
    MaxFaults = 1
INVARIANTS
    TypeOK
    GateHolds
PROPERTIES
    OnlySweepsDelete
    ProbedAheadIsKept
    GreenIsInSync
    MirrorCatchesUp
