\* Three runs, each with every outcome, times that round up and down in the
\* array, sizes in the order of the code's.
CONSTANTS
    Iterations = 3
    Times = {1, 4}
    Unit = 2
    RequestLen = 12
    ResponseLen = 11
    BufferLen = 13
    Never = 99
SPECIFICATION FairSpec
INVARIANTS
    TypeOK
    FiguresMatchLog
    PayloadTellsAnswer
    OneSessionPerRow
PROPERTY TelemetryStarts
\* After the campaign this task's part is EdgeDevice.
CHECK_DEADLOCK FALSE
