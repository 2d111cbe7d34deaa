CONSTANTS
  t1 = t1
  t2 = t2
  t3 = t3
  r1 = r1
  r2 = r2
  n1 = n1
  n2 = n2
  NoName = NoName
  NoId = NoId
  NoRow = NoRow
  NoAction = NoAction
  NoRequest = NoRequest
  NoBody = NoBody
  Id <- MCId3
  Name <- MCName
  Task <- MCTask3
  Patch <- MCTask3
  NewId <- MCNewId3
  Replica <- MCReplica2
  Home <- MCHome3
  Workload <- MCCalls
  MaxCommitAttempts = 3
  CheckpointInterval = 100
  RefreshTimer = FALSE
  SdkRetry = TRUE
  MaxFaults = 1

SPECIFICATION Spec

CHECK_DEADLOCK FALSE

INVARIANTS
  RefusedBySomeoneElse
