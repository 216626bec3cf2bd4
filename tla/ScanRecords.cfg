SPECIFICATION ScansSpec
CONSTANTS
  Clients = {c1, c2}
  CasAttempts = 3
  MaxStoreCalls = 5
  Users = {u1, u2}
  Times = {1, 2}
  Ids = {1, 2, 3}
  Limits = {0, 1, 2, 3}
  MaxPage = 2
  SearchIds = {id1, id2}
  ConnectId = id1
  Requests = {q1}
  NStores = 2
  Sizes = {0, 2, 3}
  TrackBudget = 2
  ChunkSize = 1
  AutoPresence = {TRUE, FALSE}
  Snapshots = {1, 2}
  Releases = {r1}
  AlbumTracks = 2
  MaxPersists = 2
  NoCursor = NoCursor
  MaxTracks = 3
  MaxCalls = 2
  MaxFinals = 2
  MaxAttempts = 2
  MaxFaults = 1
  None = None
  c1 = c1
  c2 = c2
  u1 = u1
  u2 = u2
  id1 = id1
  id2 = id2
  q1 = q1
  r1 = r1
INVARIANTS
  TypesOK
  RecordsSound
  WalkComplete
  VerdictsBacked
  OutcomesSound
PROPERTIES
  VerdictsNeverBlank
CHECK_DEADLOCK FALSE
