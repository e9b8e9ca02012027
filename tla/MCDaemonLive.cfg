SPECIFICATION FairDaemonSpec
CONSTANTS
    Path = {"event4"}
    MaxPlugs = 2
    OrderedByNode = TRUE
    DevPathOf <- MCDevPathOf
    Fd = {1, 2}
    Keyboards = {1, 2}
    MaxTries = 2
    MaxMessages = 1
    MaxFaults = 1
    MaxFeedback = 0
CHECK_DEADLOCK FALSE
PROPERTIES
    KeyboardsSettle
    DaemonEnds
