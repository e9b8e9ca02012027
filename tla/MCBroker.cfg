SPECIFICATION BrokerSpec
CONSTANTS
    Device <- TwoKeyboards
    Code <- RemapCode
    Logical <- RemapLogical
    Modifier <- MCModifier
    Canonical <- RemapCanonical
    Sources <- RemapSources
    ReservedModifiers <- MCModifier
    Action <- MCAction
    TapDevice = "remap"
    HoldDevice <- MCHold
    NoDevice = ""
    InputEvent <- RemapInput
    MaxLives = 2
    MaxFrameEvents = 1
    MaxJournal = 3
INVARIANTS
    OwnershipAgrees
    RemapOwnersAgree
    AllUpAllReleased
    CloseReleasesAll
