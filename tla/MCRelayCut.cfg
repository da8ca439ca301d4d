CONSTANTS
    a1 = a1
    a2 = a2
    c1 = c1
    c2 = c2
    Agents = {a1}
    Clients = {c1}
    Devices = {"d"}
    NoSlot = NoSlot
    MaxHangUps = 2
    MaxSlots = 1
    SlotTTL = 0
    HandlerTTL = 1
SPECIFICATION RelaySpec
SYMMETRY Symmetry
INVARIANT SessionsNotCut
CHECK_DEADLOCK FALSE
