CONSTANTS
    Rate = 44125
    Directions = {"output"}
    ActiveWindows = 2
    SilentWindows = 3
    None = None
    MaxWindows = 6
    MaxSwitches = 3
    MaxGaps = 1
    MaxParts = 1
SPECIFICATION Spec
INVARIANTS
    EvidenceIsAccepted
    WindowsKeepTime
CHECK_DEADLOCK FALSE
