\* Two devices, three sessions in a table for two.
CONSTANTS
    Devices = {d1, d2}
    NoKey = NoKey
    NativeKEM = TRUE
    MaxKeygens = 1
    MaxOpened = 3
    MaxErrors = 2
    RotateAfter = 1
    UintMod = 4
    MaxSessions = 1
SYMMETRY Symmetry
SPECIFICATION Spec
INVARIANTS
    KeyAgreement
    LoggedInOrder
    OwnAckIsStale
    DeviceIsAhead
    TablesHoldNewest
