SPECIFICATION FairSpec
CONSTANTS
    RunIds = {"r1", "r2"}
    Legacy = {"r2"}
    Owned = {"r1", "r2"}
    Hands = {"hand"}
    Flow <- DraftFlow
    StepBudget = 3
    MaxConvs = 0
    MaxResumes = 1
    MaxCrashes = 1
CHECK_DEADLOCK FALSE
INVARIANTS TraceIsAWalk ThreadTells
PROPERTIES EndedStaysEnded  DeadlinesHonoured
