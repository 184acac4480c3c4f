\* One device, two handshakes and two sessions, the code's error limit;
\* telemetry_seq wraps; nothing is fair but the device's own steps.
CONSTANTS
    Devices = {d1}
    NoKey = NoKey
    NativeKEM = TRUE
    MaxKeygens = 2
    MaxOpened = 2
    MaxErrors = 3
    RotateAfter = 1
    UintMod = 4
    MaxSessions = 2
SPECIFICATION FairSpec
INVARIANTS
    TypeOK
    CounterOncePerSide
    AckAnswersLogged
    KeyAgreement
PROPERTIES
    ChannelSpec
    KeyIsRetired
