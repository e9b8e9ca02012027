SPECIFICATION EngineSpec
CONSTANTS
    Device <- OneKeyboard
    Code <- OverlapCode
    Logical <- OverlapLogical
    Modifier <- MCModifier
    Canonical <- OverlapCanonical
    Sources <- OverlapSources
    ReservedModifiers = {}
    Action <- MCAction
    TapDevice = "remap"
    HoldDevice <- OneHold
    NoDevice = ""
    InputEvent <- OverlapInput
    MaxLives = 2
    MaxFrameEvents = 1
    MaxJournal = 8
PROPERTIES
    PublishedChordExact
