SPECIFICATION HealthSpec
CONSTANTS
    Runs = {"scheduled", "manual"}
    Configs <- MCConfigs
    PageSize = 1
    MaxUpsets = 3
INVARIANTS
    SingleIssue
    RunsEndInOrder
PROPERTIES
    LastingOutageIsReported
CHECK_DEADLOCK FALSE
