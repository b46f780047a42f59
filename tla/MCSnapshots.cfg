SPECIFICATION Spec
CONSTANTS
  x = x a = a p = p q = q r = r n1 = n1 g1 = g1 g2 = g2 NoBase = NoBase
  Ids = {x, a}
  Nodes = {n1}
  Allocs = {2}
  Conns = {}
  SingleConn = TRUE
  MaxInFlight = 4
  Snaps = {p, q, r}
  Sources = {x}
  Kept <- Chain
  Gateways = {g1, g2}
  Requests = {"snapshot", "fork", "restore", "delete"}
  Patient = TRUE
  MaxDiffChain = 1
  MaxChildren = 2
  Faults = {"store", "node", "crash"}
  MaxFaults = 1
INVARIANTS ReadersCounted  FailedHoldsNothing
SYMMETRY Interchangeable
CHECK_DEADLOCK FALSE
