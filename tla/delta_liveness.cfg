CONSTANTS
  t1 = t1
  t2 = t2
  t3 = t3
  t4 = t4
  r1 = r1
  r2 = r2
  b1 = b1
  b2 = b2
  NoVersion = NoVersion
  NoTable = NoTable
  NoBody = NoBody
  NoRequest = NoRequest
  Task <- MCTask3
  Home <- MCHome3
  Table <- MCTable1
  Replica <- MCReplica2
  Workload <- MCLive
  Version <- MCVersions
  PageSize = 1
  FollowAnswers = FALSE
  SdkRetry = FALSE
  MaxFaults = 0

SPECIFICATION FairSpec

CHECK_DEADLOCK FALSE

PROPERTIES
  EveryRequestEnds
