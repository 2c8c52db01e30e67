SPECIFICATION Spec
CONSTANTS
    Ids = {m1, m2, m3}
    Facts = {f1, f2}
    None = None
    Turns = {t1}
    CompactAfter = 2
    MaxLoads = 2
    MaxEvents = 4
    MaxDreams = 1
    MaxCrashes = 1
    MaxTorn = 1
    EvictBusy = FALSE
    CompactAlone = TRUE
    TornIsLast = TRUE
SYMMETRY Symmetry
CHECK_DEADLOCK FALSE
INVARIANTS OneStory 
 
