SPECIFICATION Spec
CONSTANTS
    r1 = r1
    r2 = r2
    upc = upc
    w1 = w1
    w2 = w2
    s1 = s1
    Releases <- MCReleases
    TrackIds <- MCTrackIds
    Titles <- MCTitles
    Fields <- MCFields
    Catalogues <- MCCatalogue
    Readings <- MCTwoReadings
    Position <- MCPosition
    ChunkSize = 1
    MaxPass = 2
    JobAttempts = 2
    Workers = {w1}
    Sweepers = {s1}
    FaultKinds = {}
    MaxFaults = 0
    MaxDefers = 0
    MaxConfirms = 2
INVARIANTS
    TypeOK
    MarkedChunksAccounted
    CompleteVerdictSound
PROPERTIES
    LifecycleSpec
CHECK_DEADLOCK FALSE
