SPECIFICATION AccessSpec
CONSTANTS
  Connects = {k1}
  Replicas = {r1, r2}
  BatchLimit = 1
  MaxConfirms = 2
  FaultKinds = {"call", "crash", "slow"}
  ReuseWarmSessions = FALSE
  Members = {m1, m2}
  Creator = m1
  MemberSlots = {q1, q2}
  MaxInvites = 2
  BffSlots = {q1, q2}
  MaxLogins = 2
  MaxKeys = 2
  MaxTime = 2
  Subjects = {"subject"}
  RequestSlots = {q1, q2}
  RateLimit = 1
  RateWindow = 2
  TicksPerSecond = 2
  MaxGateTicks = 3
  MaxTracks = 0
  MaxCalls = 4
  MaxFinals = 0
  MaxAttempts = 1
  MaxFaults = 1
  None = None
  k1 = k1
  r1 = r1
  r2 = r2
  m1 = m1
  m2 = m2
  q1 = q1
  q2 = q2
INVARIANTS
  TypesOK
  OneScanPerHandoff
  SessionsAccounted
  RevocationIsFinal
  RegistriesAgree
  AccountsSound
  BrowserSound
  GateSound
  AdmissionSound
CHECK_DEADLOCK FALSE
