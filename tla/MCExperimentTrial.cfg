CONSTANTS
    Deadline = 10
    Reserve = 4
    Margin = 3
    Disposal = 1
    Observation = 2
    RemoteWait = 2
    Lag = 1
    PcmRequired = TRUE
    None = None
SPECIFICATION Spec
INVARIANTS
    Recordable
    ReleasedIsFree
    SnapshotIsTheLast
CHECK_DEADLOCK FALSE
