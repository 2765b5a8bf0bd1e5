CONSTANTS
    Delegations = {d1, d2}
    CallIds = {c1, c2}
    Commands <- MCCommands
    Modes = {"cancel-actions"}
    Right = 1
    StepInterval = 0
    MaxNow = 0
    CommandsUntil = 0
    MaxRejections = 6
    CallLimit = 2
    ResponseLimit = 2
    Repeatable = {"call"}
    MaxResponses = 2
    MaxCalls = 1
    MaxExtras = 1
    WireLimit = 2
SPECIFICATION WorkSpec
SYMMETRY Interchangeable
INVARIANTS
    QuietWhenDone
