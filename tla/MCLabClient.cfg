CONSTANTS
    Attempts = {1, 2}
    MaxGeneration = 5
    MaxLost = 1
    MaxEvents = 2
SPECIFICATION Spec
INVARIANTS
    CleanEndIsFinal
    SilentUnlessServing
CHECK_DEADLOCK FALSE
