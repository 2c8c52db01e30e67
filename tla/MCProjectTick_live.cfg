SPECIFICATION FairSpec
CONSTANTS
    Projects = {p1, p2}
    None = None
    MaxTicks = 2
    MaxStreak = 2
    Patience = 1
    MaxActive = 2
    MaxActs = 0
    MaxPanics = 1
    MaxCrashes = 1
CHECK_DEADLOCK FALSE
PROPERTIES DueIsServed RunawayStops
