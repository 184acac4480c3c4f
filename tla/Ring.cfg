\* The code's own N and constants; the fourteen cases hold every residue.
CONSTANTS
    N = 256
    InvF = 1441
    Cases = {0, 1, 2, 3, 4, 5, 6, 7, 8, 9, 10, 11, 12, 13}
SPECIFICATION Spec
INVARIANTS
    LayersAreRemainders
    BoundsOfPasses
    ReadBack
    MessageSurvives
\* A computation that is over.
CHECK_DEADLOCK FALSE
