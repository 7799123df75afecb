SPECIFICATION Spec
CONSTANTS
    Full = full
    Part = part
    Publishers = {full, part}
    Webhooks = {}
    Reconcilers = {part}
    Destinations <- MCDestinations
    Assets <- MCAssets
    ArtifactDir <- MCArtifactDir
    Notes = {notes}
    NoNotes = none
    RefusesCopies = {1}
    MaxRetags = 0
    MaxStrangers = 1
    MaxFaults = 1
INVARIANT
    PublishedSomewhere
