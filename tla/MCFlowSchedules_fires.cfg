SPECIFICATION FairSpec
CONSTANTS
    Slugs = {}
    Generated = {"sf1", "sf2"}
    Keys = {"morning"}
    Triggers <- TwoTriggers
    Face <- AutumnFace
    MaxOps = 2
    MaxCrashes = 1
CHECK_DEADLOCK FALSE
INVARIANTS NoBackfill AtMostOneLateFiring
PROPERTIES NeverTwice CatchesUp
