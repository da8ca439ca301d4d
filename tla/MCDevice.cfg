CONSTANTS
    p1 = p1
    x1 = x1
    x2 = x2
    Pairings = {e1, e2}
    Revocations = {r1}
    Peers = {p1, p2}
    Secrets = {s1, s2}
    NoSecret = NoSecret
    Updaters = {w1, w2}
    MaxRelease = 2
    MaxDeaths = 1
    NoUpdater = NoUpdater
    Routers = {x1, x2}
    Candidates <- MCCandidates
    MaxEdits = 2
    NoRouter = NoRouter
    Endpoints = {"NoEndpoint", "DirectEndpoint", "RelayEndpoint", "WebRelayEndpoint"}
    Configurations <- MCConfigurations
    AgentLimit = 1
    RelaySlots = {l1}
    BackoffCap = 2
SPECIFICATION DeviceSpec
INVARIANTS
    DeviceTypeOK
    ConsumedBeforeTrust
    AdmittedOnly
    RouteIsSound
    DialIsHonest
    WholeOrGone
PROPERTIES
    NoLostEdit
    CommittedWasInstalled
    DeviceProgress
CHECK_DEADLOCK FALSE
