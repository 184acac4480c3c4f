\* The summary counts runs that were no successful handshakes.
CONSTANTS
    Iterations = 2
    Times = {1, 4}
    Unit = 2
    RequestLen = 12
    ResponseLen = 11
    BufferLen = 13
    Never = 99
SPECIFICATION Spec
INVARIANT CountedRunsSucceeded
CHECK_DEADLOCK FALSE
