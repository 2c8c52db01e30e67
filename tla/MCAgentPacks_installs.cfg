SPECIFICATION Spec
CONSTANTS
    Packs <- MCPacks
    Bundles <- MCBundles
    Agents = {i1}
    Workers = {w1, w2}
    None = None
    Torn = Torn
    MaxRequests = 4
    MaxCuts = 1
    SnapshotsMayBeTorn = FALSE
SYMMETRY Symmetry
\* Nobody need ask for anything more.
CHECK_DEADLOCK FALSE
INVARIANTS
    ToolsStay
    StoreIsSwept
    
