SPECIFICATION FairSpec
CONSTANTS
    Workers = {w1, w2}
    Typed = {t1, t2}
    Inbound = {g1}
    Followups = {f1}
    Records = {}
    Divider = Divider
    None = None
    MaxCompactions = 0
    MaxResets = 1
    MaxCrashes = 0
    SetupMayFail = FALSE
    ErrorsHappen = FALSE
    PermitsRunOut = FALSE
    WriteIsAtomic = TRUE
\* No request need ever come, and every bounded one may be spent.
CHECK_DEADLOCK FALSE
INVARIANTS
    QueueInOrder
    
PROPERTIES
    QueuedRuns
