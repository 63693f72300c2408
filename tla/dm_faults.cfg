SPECIFICATION Spec
CONSTANTS
    c1 = c1
    c2 = c2
    s1 = s1
    f1 = f1
    t1 = t1
    t2 = t2
    NoTimer = NoTimer
    Conns = {c1, c2}
    Servers = {s1}
    Flushers = {f1}
    Timers = {t1}
    SnapshotEvery = 1
    MaxEdits = 1
    MaxRows = 2
    MaxCrashes = 1
    MaxFaults = 1
SYMMETRY Symmetry
CONSTRAINT InStory
INVARIANTS TypeOK MemoryCoversStore AckedDurable RefcountExact LoadsOnce LogBounded
PROPERTIES ImplementsUpdateStore
