CONSTANTS
    Events = {e1, e2, e3}
    Unparseable = {e2}
    Rejected = {e3}
    Tasks = {t1, t2}
    MaxDeliver = 3
    MaxEvents = 1
    MaxFaults = 3
SPECIFICATION FairSpec
INVARIANTS
    ConsumerIsSafe
PROPERTIES
    EventuallyDecided
CHECK_DEADLOCK FALSE
