\* SERVER_HOST left at 0.0.0.0, two gateways, the code's ten retries.
CONSTANTS
    MaxRetries = 10
    Gateways = {g1, g2}
    AnyHost = AnyHost
    ServerHost = AnyHost
SPECIFICATION FairSpec
INVARIANTS
    TypeOK
    NeverSilentlyOffline
    AddressKnown
PROPERTIES
    FailOnlyWhenExhausted
    AddressSettled
    LaunchedUnlessNoLease
\* A station that gave up stays offline: nothing happens any more.
CHECK_DEADLOCK FALSE
