CONSTANTS
    user1 = user1
    request2 = request2
    call1 = call1
    call2 = call2
    operation1 = operation1
    up1 = up1
    up2 = up2
    down1 = down1
    down2 = down2
    MaxClientFrames = 1
    Users = {user1, user2}
    Requests = {request1, request2}
    Commands = {}
    MaxLogins = 2
    MaxGenerations = 2
    MaxRestarts = 1
    NoSession = NoSession
    NoUser = NoUser
    NoProcess = NoProcess
    Agents = {agent1, agent2}
    Clients = {client1}
    Devices = {"d"}
    NoSlot = NoSlot
    MaxHangUps = 2
    MaxSlots = 1
    SlotTTL = 0
    HandlerTTL = 1
    MaxOutput = 1
    MaxInput = 1
    MaxProbes = 1
    WireRoom = 1
    QueueRoom = 1
    Uploads = {up1}
    Downloads = {down1}
    Cancellable = {up1, down1}
    NoTransfer = NoTransfer
    LocalFile = LocalFile
    FileChunks = 2
    FileWindow = 1
    FileStreamLimit = 1
    MaxTransfers = 2
    Callers = {call1, call2}
    Operations = {operation1}
    Impatient = {call1}
    FailingHandles = {}
    Terminals = {terminal1}
    ParentOf <- MCParentOf
    MaxConnections = 1
    MaxOperations = 1
    MaxRetained = 2
    NoCaller = NoCaller
    NoOperation = NoOperation
    MaxKeys = 2
    MaxCalls = 2
    MaxRequests = 2
    MaxCrashes = 1
    MaxReads = 1
SPECIFICATION FairRemoteSpec
PROPERTIES
    CallsReturn
    EndedIsReleased
CHECK_DEADLOCK FALSE
