SPECIFICATION FairSpec
CONSTANTS
    c1 = c1
    c2 = c2
    s1 = s1
    f1 = f1
    t1 = t1
    t2 = t2
    NoTimer = NoTimer
    Conns = {c1, c2}
    Servers = {}
    Flushers = {}
    Timers = {t1}
    SnapshotEvery = 1
    MaxEdits = 1
    MaxRows = 1
    MaxCrashes = 0
    MaxFaults = 0
PROPERTIES IdleEvicted AcquireEnds
