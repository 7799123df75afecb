SPECIFICATION FairSpec
CONSTANTS
    Events = {e1, e2}
    MaxQueueSize = 2
    MaxRetries = 2
    MaxStarts = 2
    MaxRejections = 1
PROPERTY GracefulStop
CHECK_DEADLOCK FALSE
