SPECIFICATION MCSpec
CONSTANTS
    Boxes = {s1, s2}
    KillOnDeath = FALSE
    MaxHostFaults = 2
    MaxDeaths = 1
    Guests = {g1, g2}
    NPages = 2
    MaxDiffChain = 1
    AnyBase = FALSE
    MaxSnaps = 3
    MaxWrites = 2
    MaxLost = 1
    Luns = {b1, b2}
    MaxTcmuFaults = 2
    SectorUnits = 2
    OffsetBits = 5
    LengthBits = 2
    DiskUnits = 12
    BlockUnits = 4
    Workers = {w1, w2}
    BaseChain <- MCBase
    Writes <- MCWrites
    Reads <- MCReads
    MaxDiskOps = 3
    MaxSeals = 2
    MaxDiskFaults = 1
    Fetchers <- MCFetchers
    Nameless = {"c"}
    BlobUnits <- MCBlobUnits
    ChunkUnits = 2
    CacheUnits = 3
    BlobReads <- MCBlobReads
    MaxBlobReads = 3
    MaxBlobFaults = 1
  n1 = n1 n2 = n2 app = app pin = pin built = built d1 = d1 d2 = d2 d3 = d3
  bot = bot t1 = t1 t2 = t2 t3 = t3 c1 = c1 c2 = c2 c3 = c3 none = none
  Nodes = {n1, n2} UblkNodes = {n1} LazyNodes = {n1, n2}
  Refs = {app, pin, built} Pinned = {pin} BuildRefs = {built}
  Pushed = {d2} Digests = {d1, d2, d3} ChainOf <- MCChainOf VsizeOf <- MCVsizeOf
  RegistrySealed = {t3} FirstOf <- MCFirstOf NoDigest = none
  ImgCalls = {c1, c2, c3} DiskGB = 1 MaxImgFaults = 1 MaxMoves = 1
    Ids = {a, b, c}
    Slots = {0, 1}
    Procs = {p1, p2}
    HostFaults = TRUE
    Unknown = Unknown
    NoSlot = NoSlot
    OciBoxes = {o1}
    LocalBoxes = {l1}
    Vmms = {v1}
    MaxEnds = 2
    MaxCtrFaults = 1
    MaxUndoFaults = 2
INVARIANTS
    ContainersHeld
    HostSound
    
    
    LunsSound
    LayersSound
    DisksSound
    PoolSound
CHECK_DEADLOCK FALSE
