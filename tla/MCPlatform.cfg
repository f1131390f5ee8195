CONSTANTS
    x1 = x1  x2 = x2  y1 = y1  y2 = y2  u1 = u1
    Users = {u1, u2}
    Manager = u1
    AuthCalls = {x1, x2}
    MaxSessions = 1
    MaxRotations = 3
    MaxAuthChanges = 1
    LimitKeys = {y1, y2}
    Logins = {x1, x2}
    MaxFailures = 2
    MaxKeys = 1
    MaxWindows = 2
    MaxCacheFlips = 2
    ProvCalls = {x1, x2}
    ProvKeys = {y1, y2}
    Slugs = {g}
    OrgAdmins = {x1, x2}
    MaxOrgs = 1
    MaxOrgVersion = 4
    MaxProvFaults = 2
    Cells = {y1, y2}
    Orgs = {o}
    CellWorkers = {x1, x2}
    ControlKeys = {k1, k2}
    MaxGeneration = 3
    MaxWork = 3
    Targets = {t1, t2}
    Routes = {r}
    EdgeBoots = {x1, x2}
    RouteDialogs = {y1, y2}
    MaxControl = 6
    SignedAt <- FourNonces
    NonceWindow = 1
    NonceCapacity = 2
    PurgeLimit = 1
    MaxHalfSeconds = 14
    EdgeWorkers = {x1, x2}
    DialogKeys = {y1, y2}
    Grants = {g1, g2, g3}
    DialogLimit = 2
    PendingLimit = 1
    MaxCSeq = 2
    MaxEdgeLosses = 1
    Observations = {y1, y2, o}
    Conditions = {"HEALTHY", "UNAVAILABLE"}
    Books = {1}
    Risk <- OneReversible
    Approvers = {a}
    SentinelRunners = {x1, x2}
    MaxIncidents = 1
    MaxProposals = 1
    MaxActive = 1
    MaxFindings = 1
    MaxPolicy = 3
    MaxMoves = 4
    MaxRunnerFaults = 1
    MaxClaims = 2
    Subjects = {s}
    Policies = {1}
    Governing = {1}
    Anonymizing = {1}
    Holds = {h}
    Requests = {r}
    Retentions = {k}
    Executors = {x1, x2}
    MaxTakeovers = 2
    MaxOutages = 2
    Tenants = {y1, y2}
    Units = {x1, x2, u3}
    Pool = {c1, c2}
    MaxRows = 2
SPECIFICATION Spec
SYMMETRY Interchangeable
INVARIANTS
    RefusalIsEarned
    AcceptedOnce
    SlotsAccounted
    WorkHasItsClients
    
PROPERTIES
    SessionsAreFenced
    PlacementHolds
    RoutingIsCurrent
    
    ActsOnStandingProposals
    RecoveryIsReported
    DisposalIsLawful
CHECK_DEADLOCK FALSE
