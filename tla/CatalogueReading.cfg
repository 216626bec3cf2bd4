SPECIFICATION ReadingSpec
CONSTANTS
  Procs = {p1, p2}
  Slots = {w1}
  RowKeys = {1, 2}
  IndexReleases = {1, 2}
  CountedReleases = {1}
  MaxReleases = 3
  MaxScrollRounds = 3
  StableRounds = 2
  UnknownStableRounds = 3
  ReadTabs = {t1, t2}
  NRefs = 2
  PoolSize = 2
  MaxDefinitions = 2
  Truths <- MCTruth
  Endpoints = {e1, e2}
  KnownEndpoints = {e1}
  PromoteAfter = 2
  DegradeAfter = 2
  MaxBodies = 2
  Tries = {a1, a2}
  Tabs = {t1, t2}
  ChunkRefs = 2
  CheckpointEvery = 2
  StoreTracks = {x1, x2, x3}
  Scanned = x1
  StoreLimit = 3
  AlbumCap = 2
  Songs = {s1, s2}
  MinInterval = 1
  FailThreshold = 2
  BreakerReset = 1
  MaxTicks = 2
  RawRows <- MCRows
  RawUploads <- MCUploads
  NRows = 2
  NUploads = 2
  NearBases <- MCNear
  CommonBases <- MCCommon
  MaxTracks = 1
  MaxCalls = 3
  MaxFinals = 0
  MaxAttempts = 3
  MaxFaults = 2
  None = None
  x1 = x1
  x2 = x2
  x3 = x3
  p1 = p1
  p2 = p2
  w1 = w1
  t1 = t1
  t2 = t2
  e1 = e1
  e2 = e2
  a1 = a1
  a2 = a2
  s1 = s1
  s2 = s2
INVARIANTS
  TypesOK
  MarksReadDurable
  IndexSound
  ExtractionSound
  MarkedChunkRead
  VerdictsTrue
  ProviderSound
  AuditSound
CHECK_DEADLOCK FALSE
