SPECIFICATION HandoffSpec
CONSTANTS
    Key = {a, b}
    QueueSize = 4
    ReadSize = 3
    MaxMessages = 1
    MaxMoves = 7
    MaxFaults = 1
    Prompt = TRUE
CHECK_DEADLOCK FALSE
SYMMETRY KeySymmetry
INVARIANTS
    BelievedAgrees
    CleanHandoff
