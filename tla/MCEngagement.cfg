CONSTANTS
    w1 = w1  w2 = w2  v1 = v1  q1 = q1  a1 = a1  a2 = a2  c1 = c1  c2 = c2
    r3 = r3  key = key  none = none
    Works = {w1, w2}
    Conversations = {v1}
    ConvOf <- OneTalk
    Queues = {q1}
    QueueLimit <- LimitOfTwo
    Agents = {a1, a2}
    Capacities = {2}
    Callers = {c1, c2}
    Returns = {"return"}
    Sends = {"send"}
    MaxAssignments = 2
    MaxGeneration = 6
    Requests = {w1, w2, r3}
    Keys = {key}
    NoKey = none
    KeyOf <- Repeated
    PrintOf <- SamePrint
    Cooldown = 1
    Ttl = 1
    Window = 1
    Retention = 1
    MaxIssues = 2
    OtpAttempts = 2
    OtpHorizon = 2
SPECIFICATION Spec
SYMMETRY Symmetry
INVARIANTS
    OwnershipHolds
    WorkRowsAgree
PROPERTIES
    CodesAreSound
    AuthorizationIsFinal
CHECK_DEADLOCK FALSE
