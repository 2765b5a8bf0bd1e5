CONSTANTS
    Runner = {r1, r2, r3}
    Limit = 2
    None = None
    PcmRequired = TRUE
SPECIFICATION Spec
SYMMETRY Interchangeable
INVARIANTS
    RunOnce
    AlwaysReadable
    CountedWasRun
PROPERTIES
    KeepsLedger
CHECK_DEADLOCK FALSE
