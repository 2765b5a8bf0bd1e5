CONSTANTS
    Delegations = {d1, d2}
    CallIds = {c1, c2, c3}
    Commands <- MCCommands
    Modes = {"cancel-actions"}
    Right = 2
    StepInterval = 0
    MaxNow = 1
    CommandsUntil = 1
    MaxRejections = 0
SPECIFICATION Spec
SYMMETRY Interchangeable
INVARIANTS
    TypeOK
    PendingIsCurrent
    FifoService
    CurrentDelegationsAreFresh
    ReceiptsMatchWork
    NoStaleAdmission
    LogExplainsState
