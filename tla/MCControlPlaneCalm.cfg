SPECIFICATION CalmSpec
CONSTANTS
  a = a b = b n1 = n1 n2 = n2 g1 = g1 g2 = g2 s1 = s1 s2 = s2
  Ids = {a, b}
  Nodes = {n1}
  Allocs = {1}
  Conns = {}
  SingleConn = TRUE
  MaxInFlight = 3
  Gateways = {g1, g2}
  Sweepers = {s1}
  Requests = {"create", "delete", "get", "pause", "resume", "idle"}
  Faults = {"store", "restart", "session"}
  MaxFaults = 1
INVARIANT ReservationsHeld
 
SYMMETRY Interchangeable
CHECK_DEADLOCK FALSE
