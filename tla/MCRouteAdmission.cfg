CONSTANTS
    o1 = o1
    o2 = o2
    Blank <- MCBlank
    LAN <- MCLAN
    MaxRouteHops = 3
    MaxCost = 3
    JTIs <- MCJTIs
    Expiry <- MCExpiry
    MaxStored = 1
    MaxClock = 3
    Ops = {o1}
    Requests <- AllRequests
    Router = "b"
    Sources = {"a", "x"}
    Transports <- TwoTransports
    Policies <- AllPolicies
    ConfigPolicy <- LanPolicy
    MaxLifetime = 2
    MaxCount = 1
SPECIFICATION FairSpec
INVARIANTS
    NoStrandedLinks
    AcceptedMatchesCapability
PROPERTIES
    EverySessionEnds
    RevokedSourceRefused
CHECK_DEADLOCK FALSE
