SPECIFICATION MCSpec
CONSTANTS
    Tpls = {p1, p2}
    Tags = {t1}
    Refs = {r1}
    Replicas = {a, b}
    Builders = {n1}
    Careful = TRUE
    BuildFaults = {"store", "no_builder", "unreachable", "lost_answer", "slow", "publish", "log", "node_restart", "crash"}
    MaxBuildFaults = 1
    Nobody = nobody
    FlushBytes = 2
    MaxOutput = 4
    MaxPutFails = 1
    LateFails = FALSE
CHECK_DEADLOCK FALSE
 
 
 
PROPERTY BuildsEnd
