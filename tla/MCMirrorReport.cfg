SPECIFICATION Spec
CONSTANTS
    Commits <- MCCommits
    History <- MCHistory
    Candidates = {3}
    Absent = absent
    Heads = {main}
    Tags = {tag}
    Kept = {main}
    Destinations <- MCDestinations
    Public = {}
    Unusable = {}
    OverwritesAhead = {}
    Receivers = {}
    Reconcilers = {w2}
    Sweepers = {}
    Measures <- MCMeasures
    Origins <- MCOrigins
    MaxEdits = 1
    MaxStrangers = 1
    MaxFaults = 0
PROPERTY BehindIsReported
