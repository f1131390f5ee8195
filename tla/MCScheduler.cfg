CONSTANTS
    Workers = {w1}
    OneTime = FALSE
    Offers <- EveryPolicy
    Gaps = {}
    Batch = 3
    Horizon = 3
    MaxRevision = 4
    MaxFaults = 0
SPECIFICATION Spec
INVARIANTS
    SlotsAreKept
PROPERTIES
    CatchUpBounded
CHECK_DEADLOCK FALSE
