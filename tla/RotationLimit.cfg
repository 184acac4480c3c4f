\* Expected to fail: a key seals more packets than the rotation limit.
CONSTANTS
    Devices = {d1}
    NoKey = NoKey
    NativeKEM = TRUE
    MaxKeygens = 1
    MaxOpened = 1
    MaxErrors = 3
    RotateAfter = 2
    UintMod = 7
    MaxSessions = 1
SPECIFICATION Spec
INVARIANT RotatedAfterLimit
