SPECIFICATION Spec
CONSTANTS
    r1 = r1
    r2 = r2
    upc = upc
    w1 = w1
    w2 = w2
    s1 = s1
    Releases <- MCReleases
    TrackIds <- MCTrackIds
    Titles <- MCTitles
    Fields <- MCFields
    Catalogues <- MCCatalogues
    Readings <- MCOneReading
    Position <- MCPosition
    ChunkSize = 1
    MaxPass = 2
    JobAttempts = 1
    Workers = {w1, w2}
    Sweepers = {}
    FaultKinds = {"crash"}
    MaxFaults = 1
    MaxDefers = 0
    MaxConfirms = 1
INVARIANTS
    CompleteVerdictSound
CHECK_DEADLOCK FALSE
