SPECIFICATION MCSpec
CONSTANTS
    Ids = {a, b, c}
    Nodes = {n1, n2}
    Allocs = {1, 2}
    Conns = {c1, c2}
    SingleConn = TRUE
    MaxInFlight = 2
    BucketWriters = {"b1"}
    DirWriters = {"d1"}
    Getters = {"g"}
    PartUnits = 2
    MaxUnits = 3
    MaxDeletes = 1
    MaxStoreFaults = 2
    Pushes = {"p1", "p2"}
    Configs <- Cfgs
    MiB = 2
    TotalDisk = 5
    FreeDisk = {1, 2}
    UsedMem = {50, 90}
    MaxAdmissionFaults = 2
    ProxiedBoxes = {"s1"}
    PxNodes = {"n1"}
    Addrs = {"a1", "a2"}
    Requests = {"r1", "r2"}
    Window = 1
    LookupTicks = 1
    MaxRelabels = 1
    FwdBoxes = {"s1", "s2"}
    FwdSlots = {"k1", "k2"}
    Forwards = {"r1", "r2"}
    GuestCalls = {"g1", "g2"}
    CacheTicks = 2
    ReadTicks = 1
    HealthTicks = 6
    MaxMetadataFaults = 1
    Layers = 3
    LayerUnits = 2
    Uploads = {u1, u2}
    Downloads = {d1}
    FileFrames = 2
    MaxRemovals = 1
    MaxFileFaults = 1
    NoTarget = none
    LogSize = 3
    MaxStarts = 3
    MaxOutput = 4
    ExecTimeout = 3
    WaitDelay = 2
    MaxKept = 1
    MaxWrites = 2
    PlNodes = {1, 2, 3}
    NodeSpec <- MCNodeSpec
    Reqs = {"q1", "q2", "q3"}
    ReqSpec <- MCReqSpec
    PlAttempts = 2
    Scale = 200
    MaxTicks = 1
    MaxTurns = 1
    MaxPlFaults = 1
INVARIANTS
    RequestsPlaced
    UploadsWhole
    AckedThresholdGoverns
    RoutedRecently
    AnsweredByItsSandbox
    AgentSettles
    LayersDealt
    FilesWhole
    LogsKept
    
PROPERTIES
    ImplementsReservations
CHECK_DEADLOCK FALSE
