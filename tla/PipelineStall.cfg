SPECIFICATION Spec
CONSTANTS
    r1 = r1
    r2 = r2
    upc = upc
    w1 = w1
    w2 = w2
    s1 = s1
    Releases <- MCOne
    TrackIds <- MCTrackIds
    Titles <- MCTitles
    Fields <- MCFields
    Catalogues <- MCOneIndex
    Readings <- MCReadings
    Position <- MCPosition
    ChunkSize = 2
    MaxPass = 2
    JobAttempts = 2
    Workers = {w1, w2}
    Sweepers = {}
    FaultKinds = {"stall", "contend", "cancel"}
    MaxFaults = 1
    MaxDefers = 1
    MaxConfirms = 1
SYMMETRY WorkerSymmetry
INVARIANTS
    NoConcurrentReads
PROPERTIES
    CompletedNeverErased
    LifecycleSpec
CHECK_DEADLOCK FALSE
