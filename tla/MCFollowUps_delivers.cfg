SPECIFICATION FairSpec
CONSTANTS
    Chats = {"c1"}
    Unbound = "unbound"
    Texts = {"check"}
    MaxPending = 1
    MaxDepth = 1
    MaxTasks = 3
    MaxTurns = 2
    MaxFaults = 1
    MaxCrashes = 1
CHECK_DEADLOCK FALSE
INVARIANTS RunsOnce CancelHolds NothingHeldForNobody
PROPERTY Settles
