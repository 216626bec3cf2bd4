SPECIFICATION FairSpec
CONSTANTS
    k1 = k1
    r1 = r1
    r2 = r2
    None = None
    Connects = {k1}
    Replicas = {r1, r2}
    BatchLimit = 1
    MaxConfirms = 1
    FaultKinds = {"call", "crash"}
    MaxFaults = 1
    ReuseWarmSessions = FALSE
CHECK_DEADLOCK FALSE
PROPERTIES
    HandoffsEnd
