CONSTANTS
    o1 = o1
    o2 = o2
    Blank <- MCBlank
    LAN <- MCLAN
    MaxRouteHops = 3
    MaxCost = 3
    JTIs <- MCJTIs
    Expiry <- MCExpiry
    MaxStored = 1
    MaxClock = 2
    Ops = {o1, o2}
    Requests <- GoodRequests
    Router = "b"
    Sources = {"a"}
    Transports <- OneTransport
    Policies <- TwoPolicies
    ConfigPolicy <- DefaultPolicy
    MaxLifetime = 2
    MaxCount = 1
    Routes <- MCCandidateRoutes
    Devices <- MCDevices
    MaxCandidates = 3
    Times = {0, 1}
SPECIFICATION RoutesSpec
SYMMETRY Symmetry
INVARIANTS
    TypeOK
    SlotAccounting
    LimitRespected
    ConsumptionDurable
    SingleUse
    StoreReopens
    PlanIsLowestCost
CHECK_DEADLOCK FALSE
