CONSTANTS
    Delegations = {d1}
    CallIds = {c1, c2}
    Commands <- MCCommands
    Modes <- AllModes
    Right = 2
    StepInterval = 2
    MaxNow = 3
    CommandsUntil = 1
    MaxRejections = 1
SPECIFICATION FairSpec
INVARIANTS
    PacedSteps
    MetricsMatchEngine
PROPERTIES
    EveryOperationEnds
    ImplementsQueue
