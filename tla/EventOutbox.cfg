CONSTANTS
    Rows = {e1, e2}
    Unreadable = {e2}
    Workers = {w1, w2}
    MaxPublishAttempts = 2
    BatchSize = 2
    MaxFaults = 2
SPECIFICATION FairSpec
PROPERTIES
    RelayIsSafe
    NoRowStuck
CHECK_DEADLOCK FALSE
