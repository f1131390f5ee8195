CONSTANT Keys = {1, 2, 3, 4}
SPECIFICATION LoopSpec
INVARIANTS
    LoopsAreRight
PROPERTIES
    LoopsEnd
CHECK_DEADLOCK FALSE
