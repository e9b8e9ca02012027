SPECIFICATION ForwarderSpec
CONSTANTS
    k1 = k1
    k2 = k2
    tap = tap
    h1 = h1
    none = none
    shift = shift
    x = x
    y = y
    SHIFT = SHIFT
    act = act
    Device = {k1, k2}
    Code = {shift, x, y}
    Logical = {SHIFT, x, y}
    Modifier = {SHIFT}
    Canonical <- MCCanonical
    Sources <- MCSources
    ReservedModifiers = {}
    Action = {act}
    TapDevice = tap
    HoldDevice = {h1}
    NoDevice = none
INVARIANTS
    ForwarderTypeOK
    CountsExact
    VirtualIsUnion
    WritesMatchDevice
PROPERTIES
    RefinesKeyboard
