\* Two sandboxes, each with a request to its agent.
SPECIFICATION PfSpec
CONSTANTS
    FwdBoxes = {"s1", "s2"}
    FwdSlots = {"k1", "k2"}
    Forwards = {"r1", "r2"}
INVARIANT SentToItsSandbox
CHECK_DEADLOCK FALSE
