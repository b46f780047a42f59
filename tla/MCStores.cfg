SPECIFICATION MCSpec
CONSTANTS
    Restores = {r1, r2}
    SnapIds = {i1, i2}
    HighMark = 2
    LowMark = 1
    MaxBadStreams = 1
    MaxRestores = 3
    MaxCrashes = 1
    NoUnpack = nobody
    Warmers = {w1, w2}
    Starters = {c1}
    WarmKeys = {k1, k2}
    WarmHigh = 2
    WarmLow = 1
    MaxWarmFaults = 1
    ImagePages = {1}
    BeyondPages = {2}
    MaxDiscards = 1
CHECK_DEADLOCK FALSE
INVARIANT CacheSound
 
INVARIANT UffdSound
PROPERTY RestoresProgress
