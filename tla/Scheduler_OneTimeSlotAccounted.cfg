CONSTANTS
    Workers = {w1}
    OneTime = TRUE
    Offers <- Once
    Gaps = {}
    Batch = 3
    Horizon = 3
    MaxRevision = 4
    MaxFaults = 1
SPECIFICATION Spec
INVARIANTS
    OneTimeSlotAccounted
CHECK_DEADLOCK FALSE
