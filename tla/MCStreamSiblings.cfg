CONSTANTS
    MaxAllocated = 2
    ClientLimit = 2
    ServerLimit = 2
    Window = 1
    MaxWindow = 1
    OutputLimit = 1
    MaxChunk = 1
    Buffer = 1
    Talkers = {}
    Typists = {2}
SPECIFICATION Spec
INVARIANTS
    SiblingsSurvive
CHECK_DEADLOCK FALSE
