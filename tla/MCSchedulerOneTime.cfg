CONSTANTS
    Workers = {w1, w2}
    OneTime = TRUE
    Offers <- Once
    Gaps = {2}
    Batch = 3
    Horizon = 2
    MaxRevision = 4
    MaxFaults = 2
SPECIFICATION Spec
SYMMETRY Symmetry
PROPERTIES
    DispatchIsFenced
CHECK_DEADLOCK FALSE
