\* Every operation on one sandbox, by three requests and the idle loop.
CONSTANTS
    Ids = {a}
    Slots = {0}
    Procs = {p1, p2, p3, sw}
    Sweeper = sw
    Ops <- AllOps
    Networked = FALSE
    UnfreezeFails = FALSE
    HostFaults = FALSE
    MaxInFlight = 2
    Unknown = Unknown
    NoSlot = NoSlot
SPECIFICATION Spec
INVARIANTS
    RecordsSound
PROPERTIES
    TransitionEnds
CHECK_DEADLOCK FALSE
