\* Blocks of six bytes, two groups of candidates each: inputs and outputs of
\* up to two blocks and a byte, cut anywhere; polynomials of five
\* coefficients from one block and up to three more.
CONSTANTS
    Rate = 6
    FirstBlocks = 1
    Length = 5
    SeedLen = 7
    MaxIn = 13
    MaxOut = 13
    MaxBlocks = 4
SPECIFICATION Spec
INVARIANTS
    TypeOK
    OutputIsStream
    SampledInOrder
\* A computation that is over.
CHECK_DEADLOCK FALSE
