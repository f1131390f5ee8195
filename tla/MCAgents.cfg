CONSTANTS
    p1 = p1  p2 = p2  d1 = d1  d2 = d2
    AgentWorkers = {p1, p2}
    TurnKeys = {k}
    Contents = {c}
    Calls = {a, b}
    AllowedCalls = {a}
    MaxToolIterations = 1
    MaxCallsPerTurn = 2
    MaxCallsPerResponse = 2
    MaxTurns = 2
    MaxStops = 1
    MaxLost = 1
    HubCalls = {p1, p2}
    HubKeys = {k}
    Prints = {f}
    RetryClass = "NON_IDEMPOTENT"
    MaxAttempts = 2
    Threshold = 2
    HalfOpenMax = 1
    RateLimit = 1
    MaxResets = 1
    MaxFaults = 1
    MaxVersion = 2
    MaxInvocations = 3
    MaxCancels = 1
    MaxMessages = 2
    MaxBytes = 5
    TurnSizes = {0, 1, 3}
    MaxPrior = 4
    Widths = {1, 6}
    MaxOutput = 4
    Skeleton = 9
    Preview = 5
    Envelope = 4
    Flag = 3
    Limits = {2, 3, 4, 9, 13, 14, 15, 20, 26, 30}
    Voices = {p1, p2}
    VoiceStops = {h}
    VoiceKeys = {k, "none"}
    VoicePrints = {f}
    MediaIds = {m}
    MaxVoiceAdmin = 1
    MaxVoiceFaults = 1
    Definitions = {a}
    Drafts = {d1, d2}
    DraftDeps <- TwoDrafts
    Editors = {p1, p2}
    Publishers = {p1, p2}
    Starters = {p1, p2}
    RunKeys = {k}
    Inputs = {b, c}
    MaxRevision = 3
    MaxVersions = 2
    MaxRuns = 2
    RegistryCalls = {p1, p2}
    OperationKeys = {k}
    BaseUrls = {a, b}
    Refs = {c}
    Deliveries = {d1, d2}
    ExternalId <- OneRepeated
    MaxConfigs = 3
    MaxSecrets = 2
    MaxRegistry = 4
SPECIFICATION Spec
SYMMETRY Interchangeable
INVARIANTS
    
    WhatTheModelSeesFits
    VoiceIsSingle
    
PROPERTIES
    TurnsRunOnce
    CatalogHolds
CHECK_DEADLOCK FALSE
