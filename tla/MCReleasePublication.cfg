SPECIFICATION FairSpec
CONSTANTS
    Full = full
    Part = part
    Publishers = {full, part}
    Webhooks = {full}
    Reconcilers = {part}
    Destinations <- MCDestinations
    Assets <- MCAssets
    ArtifactDir <- MCArtifactDir
    Notes = {old, new}
    NoNotes = none
    RefusesCopies = {1}
    MaxRetags = 1
    MaxStrangers = 1
    MaxFaults = 1
INVARIANTS
    TypeOK
    ReportedIsAsBuilt
    EachAnsweredOnce
    NoReleaseBeforeTag
PROPERTIES
    TouchesOnlyItsOwn
    ReleasedEverywhere
