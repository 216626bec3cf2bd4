SPECIFICATION Spec
CONSTANTS
    r1 = r1
    r2 = r2
    k1 = k1
    k2 = k2
    t1 = t1
    t2 = t2
    upc = upc
    Releases <- MCReleases
    TrackIds <- MCTrackIds
    Titles <- MCTitles
    Fields <- MCFields
    Catalogues <- MCCatalogues
    Readings <- MCReadings
INVARIANTS
    TypeOK
    ReplayIsNoop
    CompleteIffFullyRead
    RetryableVerdictHasWork
PROPERTIES
    EvidenceNeverWeakens
CHECK_DEADLOCK FALSE
