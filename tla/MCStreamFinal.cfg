CONSTANTS
    MaxAllocated = 1
    ClientLimit = 1
    ServerLimit = 1
    Window = 1
    MaxWindow = 1
    OutputLimit = 1
    MaxChunk = 1
    Buffer = 1
    Talkers = {2}
    Typists = {}
SPECIFICATION Spec
INVARIANTS
    FinalOutputReadable
CHECK_DEADLOCK FALSE
