CONSTANTS
    MaxRuns = 2
    MaxWatchers = 2
    BufferLimit = 2
    NegotiationLimit = 1
    IdleLimit = 1
    SessionLimit = 2
SPECIFICATION Spec
INVARIANTS
    TypeOK
    StatusTellsTheRun
    NoOrphanSocket
    FinalUsageIsTheReport
    DrainHolds
PROPERTIES
    ClosingIsFinal
