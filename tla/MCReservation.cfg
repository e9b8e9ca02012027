SPECIFICATION EngineSpec
CONSTANTS
    Device <- OneKeyboard
    Code <- ReserveCode
    Logical <- ReserveLogical
    Modifier <- MCModifier
    Canonical <- ReserveCanonical
    Sources <- ReserveSources
    ReservedModifiers <- MCModifier
    Action <- MCAction
    TapDevice = "remap"
    HoldDevice <- MCHold
    NoDevice = ""
    InputEvent <- ReserveInput
    MaxLives = 2
    MaxFrameEvents = 2
    MaxJournal = 8
INVARIANTS
    BorrowedModifiersHeld
    ActivationHeld
    ReservationHidesNothingElse
    ReservationJournalBounded
