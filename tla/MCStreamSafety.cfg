CONSTANTS
    MaxAllocated = 2
    ClientLimit = 2
    ServerLimit = 2
    Window = 2
    MaxWindow = 3
    OutputLimit = 2
    MaxChunk = 2
    Buffer = 1
    Talkers = {2}
    Typists = {2}
SPECIFICATION StreamsSpec
INVARIANTS
    TypeOK
    CreditConserved
    ClosedOnce
CHECK_DEADLOCK FALSE
