\* Two restores of one snapshot on a node that does not have it yet.
SPECIFICATION CacheSpec
CONSTANTS
    Restores = {r1, r2}
    SnapIds = {i1}
    HighMark = 2
    LowMark = 1
    MaxBadStreams = 1
    MaxRestores = 2
    MaxCrashes = 0
    NoUnpack = nobody
PROPERTY RestWaitForIt
CHECK_DEADLOCK FALSE
