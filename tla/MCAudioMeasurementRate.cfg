CONSTANTS
    Rate = 11025
    Directions = {"output"}
    ActiveWindows = 3
    SilentWindows = 6
    None = None
    MaxWindows = 9
    MaxSwitches = 1
    MaxGaps = 0
    MaxParts = 0
SPECIFICATION Spec
INVARIANT EvidenceIsAccepted
CHECK_DEADLOCK FALSE
