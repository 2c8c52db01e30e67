SPECIFICATION Spec
CONSTANTS
    Projects = {p1, p2}
    None = None
    MaxTicks = 2
    MaxStreak = 2
    Patience = 1
    MaxActive = 2
    MaxActs = 1
    MaxPanics = 1
    MaxCrashes = 0
SYMMETRY Symmetry
CHECK_DEADLOCK FALSE
INVARIANTS  OthersWritesStick
