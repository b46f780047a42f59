\* Two networked sandboxes; clients wait for a create before they delete.
CONSTANTS
    Ids = {a, b}
    Slots = {0, 1}
    Procs = {p1, p2, sw}
    Sweeper = sw
    Ops <- AllOps
    Networked = TRUE
    UnfreezeFails = FALSE
    HostFaults = TRUE
    MaxInFlight = 2
    Unknown = Unknown
    NoSlot = NoSlot
SPECIFICATION WaitingSpec
SYMMETRY Symmetric
INVARIANTS
    NetworkedSound
    NoSlotLeak
CHECK_DEADLOCK FALSE
