\* Every polynomial has 8 coefficients in place of 256: InvF follows from N.
CONSTANTS
    N = 8
    InvF = 2835
    Coins = {1, 2}
    Messages = {{1, 3, 4, 6}, {0, 1, 2, 3, 4, 5, 6, 7}}
    Changes <- SomeChanges
    MaxIssued = 2
    MaxGiven = 2
SPECIFICATION Spec
INVARIANTS
    TypeOK
    ErrorIsNoise
    DecryptsIssued
PROPERTY IdealSpec
\* The bounds end it.
CHECK_DEADLOCK FALSE
