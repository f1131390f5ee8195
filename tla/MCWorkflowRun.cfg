CONSTANTS
    Steps <- BranchSteps
    Deps <- BranchDeps
    Mode <- BranchMode
    Kind <- BranchKind
    Then <- BranchThen
    Else <- BranchElse
    MaxAttempts <- BranchAttempts
    Workers = {w1, w2}
    NoWorker = NoWorker
SPECIFICATION Spec
INVARIANTS
    NoStall
PROPERTIES
    RunFollowsDefinition
    StepsAreFencedClaims
CHECK_DEADLOCK FALSE
