SPECIFICATION DelegatesFairSpec
CONSTANTS
    Turns = {"t1", "t2"}
    Personas = {"lead"}
    Writers = {}
    Splitters = {"lead"}
    MaxNesting = 2
    MaxParallel = 2
    MaxAttempts = 2
    MaxTracked = 2
    MaxRefusals = 1
    MaxOpened = 2
    MaxRuns = 3
CHECK_DEADLOCK FALSE
INVARIANTS RunsAreTracked HistoryIsVerbatim GateHolds
PROPERTY TurnsEnd
