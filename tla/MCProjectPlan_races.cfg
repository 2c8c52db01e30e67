SPECIFICATION FairSpec
CONSTANTS
    MaxId = 3
    MaxTasks = 2
    MaxParallel = 2
    Patience = 1
    Kinds <- WriterAndReader
    MaxCalls = 3
    MaxPuts = 1
    MaxCrashes = 1
    PutWhilePolling = FALSE
CHECK_DEADLOCK FALSE
INVARIANTS PlanWellFormed 
 
