SPECIFICATION FairClientSpec
CONSTANTS
    Worker <- MCWorker
    Action <- MCAction
    Configured <- MCConfigured
    QueueSize = 1
    InitialDelay = 1
    MaximumDelay = 3
    MaxReceived = 4
CHECK_DEADLOCK FALSE
INVARIANTS
    ClientTypeOK
    StartedInOrder
    NothingOutlivesMain
PROPERTIES
    FreeWorkerIsUsed
    ClientShutdown
