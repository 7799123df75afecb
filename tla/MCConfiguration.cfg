SPECIFICATION Spec
CONSTANTS
  Acme = Acme
  ACME = ACME
  acme = acme
  beta = beta
  Keys = {Acme, ACME, acme, beta}
  None = None
  Unset = Unset
  Malformed = Malformed
  Lower <- MCLower
  Position <- MCPosition
  Repos <- MCRepos
  Mirrors <- MCMirrors
  RepoConfigs <- MCRepoConfigs
  Overlays <- MCOverlays
  Files <- MCFiles
  MaxEdits = 2
INVARIANTS
  TypeOK
  GuardedDestinations
  RecordedIsInForce
  ReportsCoverTheEngine
PROPERTY
  MigrationKeepsLookups
