SPECIFICATION EngineSpec
CONSTANTS
    Device <- OneKeyboard
    Code <- ChordCode
    Logical <- ChordLogical
    Modifier <- MCModifier
    Canonical <- ChordCanonical
    Sources <- ChordSources
    ReservedModifiers = {}
    Action <- MCAction
    TapDevice = "remap"
    HoldDevice <- MCHold
    NoDevice = ""
    InputEvent <- ChordInput
    MaxLives = 2
    MaxFrameEvents = 2
    MaxJournal = 5
INVARIANTS
    EngineTypeOK
    NoResolvePanic
    JournalWaitsForCandidate
    CandidateTracksPhysical
    DeadlineCoversWait
PROPERTIES
    DispositionStable
