SPECIFICATION HandoffSpec
CONSTANTS
    Key = {a, b}
    QueueSize = 4
    ReadSize = 3
    MaxMessages = 1
    MaxMoves = 3
    MaxFaults = 1
    Prompt = FALSE
CHECK_DEADLOCK FALSE
INVARIANTS
    CleanHandoff
