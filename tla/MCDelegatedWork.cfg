CONSTANTS
    Delegations = {d1, d2}
    CallIds = {c1, c2}
    Commands <- MCCommands
    Modes = {"cancel-actions"}
    Right = 1
    StepInterval = 0
    MaxNow = 1
    CommandsUntil = 1
    MaxRejections = 8
    CallLimit = 2
    ResponseLimit = 2
    Repeatable = {"created", "call", "completed", "progress"}
    MaxResponses = 3
    MaxCalls = 2
    MaxExtras = 1
    WireLimit = 2
SPECIFICATION WorkSpec
VIEW WithoutLog
SYMMETRY Interchangeable
INVARIANTS
    NoStaleWork
    AnsweredOnce
    ContinuedOnce
    BusyWhileWorking
