\* Expected to fail: a packet returned to its device passes for its own
\* acknowledgement.
CONSTANTS
    Devices = {d1}
    NoKey = NoKey
    NativeKEM = TRUE
    MaxKeygens = 1
    MaxOpened = 1
    MaxErrors = 2
    RotateAfter = 1
    UintMod = 4
    MaxSessions = 1
SPECIFICATION Spec
INVARIANT ConfirmedIsLogged
