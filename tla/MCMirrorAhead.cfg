SPECIFICATION Spec
CONSTANTS
    Commits <- MCCommits
    History <- MCHistory
    Candidates = {3}
    Absent = absent
    Heads = {main}
    Tags = {tag}
    Kept = {main}
    Destinations <- MCDestinations
    Public = {1}
    Unusable = {}
    OverwritesAhead = {}
    Receivers = {w1}
    Reconcilers = {}
    Sweepers = {}
    Measures <- MCMeasures
    Origins <- MCOrigins
    MaxEdits = 2
    MaxStrangers = 1
    MaxFaults = 1
PROPERTY AheadKeepsItsCommits
CHECK_DEADLOCK FALSE
