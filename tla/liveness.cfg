CONSTANTS
  t1 = t1
  t2 = t2
  t3 = t3
  r1 = r1
  r2 = r2
  n1 = n1
  n2 = n2
  NoName = NoName
  NoId = NoId
  NoRow = NoRow
  NoAction = NoAction
  NoRequest = NoRequest
  NoBody = NoBody
  Id <- MCId2
  Name <- MCName
  Task <- MCTask2
  Patch <- MCTask2
  NewId <- MCNewId2
  Replica <- MCReplica2
  Home <- MCHome2
  Workload <- MCLive
  MaxCommitAttempts = 3
  CheckpointInterval = 2
  RefreshTimer = TRUE
  SdkRetry = TRUE
  MaxFaults = 1

SPECIFICATION FairSpec

CHECK_DEADLOCK FALSE

PROPERTIES
  EveryCallReturns
  ReplicasConverge
