SPECIFICATION FairServerSpec
CONSTANTS
    Conn <- MCConn
    PeerUid <- MCPeerUid
    Uid = {1000}
    Allowed = {1000}
    Action = {"a", "b"}
    NoConn = "none"
    QueueSize = 1
    MaxPublished = 2
CHECK_DEADLOCK FALSE
INVARIANTS
    ServerTypeOK
    NoChannelPanic
    OneConnectionPerUid
    InOrderNoGaps
PROPERTIES
    SlotFreed
    ShutdownEndsClients
