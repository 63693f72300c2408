SPECIFICATION FairSpec
CONSTANTS
    c1 = c1
    c2 = c2
    r1 = r1
    f1 = f1
    f2 = f2
    Conns = {c1}
    Restorers = {}
    Flushers = {f1, f2}
    MaxBuffer = 2
    ChunkMax = 2
    CompactMin = 9
    TinyBelow = 2
    MaxUpdates = 3
    MaxCrashes = 0
    MaxFaults = 0
PROPERTIES CapturedStored WaitersServed
