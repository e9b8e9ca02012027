SPECIFICATION FairBrokerSpec
CONSTANTS
    Device <- OneKeyboard
    Code <- SoloCode
    Logical <- SoloLogical
    Modifier <- MCModifier
    Canonical <- SoloCanonical
    Sources <- SoloSources
    ReservedModifiers = {}
    Action <- MCAction
    TapDevice = "remap"
    HoldDevice <- OneHold
    NoDevice = ""
    InputEvent <- SoloInput
    MaxLives = 2
    MaxFrameEvents = 1
    MaxJournal = 6
PROPERTIES
    EveryPressDecided
