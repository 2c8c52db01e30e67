SPECIFICATION JournalSpec
CONSTANTS
    KeepRecent = 2
    MaxBatch = 2
    MaxMessages = 9
    Reasons = {FALSE, TRUE}
CHECK_DEADLOCK FALSE
INVARIANTS JournalIsWhole CaptureIsTheTurn WindowIsSound
