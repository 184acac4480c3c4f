\* The server runs without the ML-KEM library: a packet that comes back is
\* the only answer a device takes, up to twice in a session.
CONSTANTS
    Devices = {d1, d2}
    NoKey = NoKey
    NativeKEM = FALSE
    MaxKeygens = 1
    MaxOpened = 2
    MaxErrors = 2
    RotateAfter = 2
    UintMod = 5
    MaxSessions = 2
SYMMETRY Symmetry
SPECIFICATION Spec
INVARIANTS
    SimulationLogsNothing
    CounterBounded
