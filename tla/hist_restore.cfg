SPECIFICATION Spec
CONSTANTS
    c1 = c1
    c2 = c2
    r1 = r1
    f1 = f1
    f2 = f2
    Conns = {c1, c2}
    Restorers = {r1}
    Flushers = {f1}
    MaxBuffer = 2
    ChunkMax = 2
    CompactMin = 2
    TinyBelow = 2
    MaxUpdates = 4
    MaxCrashes = 1
    MaxFaults = 1
SYMMETRY Symmetry
CONSTRAINT InStory
INVARIANTS TypeOK CatchesUp CapturedKept ChunksTile ReplaysRows
PROPERTIES ImplementsVersionHistory RestoreAnswered
