SPECIFICATION Spec
CONSTANTS
    Workers = {w1, w2, w3}
    Typed = {t1}
    Inbound = {g1}
    Followups = {}
    Records = {r1}
    Divider = Divider
    None = None
    MaxCompactions = 1
    MaxResets = 1
    MaxCrashes = 1
    SetupMayFail = TRUE
    ErrorsHappen = TRUE
    PermitsRunOut = TRUE
    WriteIsAtomic = FALSE
SYMMETRY Symmetry
\* No request need ever come, and every bounded one may be spent.
CHECK_DEADLOCK FALSE
INVARIANTS
    HeldByOne
    
    RunOnce
    StopHitsItsTurn
