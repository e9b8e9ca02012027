SPECIFICATION DaemonSpec
CONSTANTS
    Path = {"event4"}
    MaxPlugs = 2
    OrderedByNode = FALSE
    DevPathOf <- MCDevPathOf
    Fd = {1, 2}
    Keyboards = {2}
    MaxTries = 2
    MaxMessages = 1
    MaxFaults = 1
    MaxFeedback = 1
CHECK_DEADLOCK FALSE
INVARIANTS
    DaemonTypeOK
    DescriptorsOwned
    AnnouncedAgrees
    CleanupOrder
    LedsFollow
