SPECIFICATION Spec
CONSTANTS
    r1 = r1
    r2 = r2
    upc = upc
    w1 = w1
    w2 = w2
    s1 = s1
    Releases <- MCOne
    TrackIds <- MCTrackIds
    Titles <- MCTitles
    Fields <- MCFields
    Catalogues <- MCOneIndex
    Readings <- MCTwoReadings
    Position <- MCPosition
    ChunkSize = 2
    MaxPass = 1
    JobAttempts = 1
    Workers = {w1}
    Sweepers = {s1}
    FaultKinds = {"throw", "crash", "evict", "shutdown", "redis", "lockLoss", "revoke"}
    MaxFaults = 1
    MaxDefers = 0
    MaxConfirms = 1
PROPERTIES
    LifecycleSpec
CHECK_DEADLOCK FALSE
