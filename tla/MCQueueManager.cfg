SPECIFICATION FairSpec
CONSTANTS
    Events = {e1, e2, e3}
    MaxQueueSize = 2
    MaxRetries = 2
    MaxStarts = 2
    MaxRejections = 1
INVARIANTS
    TypeOK
    CountsBalance
    FirstAttemptsInOrder
    AttemptsBounded
PROPERTIES
    DrainLosesNothing
    ImplementsLedger
    AcceptedSettles
    StopComesBack
CHECK_DEADLOCK FALSE
