SPECIFICATION PoolSpec
CONSTANTS
    a1 = a1
    a2 = a2
    t1 = t1
    t2 = t2
    None = None
    Tries = {a1, a2}
    Tabs = {t1, t2}
    ChunkRefs = 3
    CheckpointEvery = 2
    MaxTracks = 1
    MaxCalls = 0
    MaxFinals = 0
    MaxAttempts = 1
    MaxFaults = 1
PROPERTIES
    CompletedReleasesKept
CHECK_DEADLOCK FALSE
