SPECIFICATION Spec
CONSTANTS
  c1 = c1
  c2 = c2
  away = away
  Client = {c1, c2, away}
  Elsewhere = {away}
  A = A
  B = B
  Role = {A, B}
  None = None
  Name <- MCName
  Url <- MCUrl
  Requests <- MCRequests
  Granted <- MCGranted
  Seed <- MCSeed
  Lives = {1}
  Skews <- MCSkews
  Buffer = 1
  Default = 2
  MaxId = 6
  MaxTime = 1
  MaxCalls = 3
  MaxFaults = 1
SYMMETRY Symmetry
CHECK_DEADLOCK FALSE
INVARIANTS
  TypeOK
  ServedAsAsked
  FreshWhileClockAgrees
  StsAskedOnce
  RoleWasConfigured
