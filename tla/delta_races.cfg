CONSTANTS
  t1 = t1
  t2 = t2
  t3 = t3
  t4 = t4
  r1 = r1
  r2 = r2
  b1 = b1
  b2 = b2
  NoVersion = NoVersion
  NoTable = NoTable
  NoBody = NoBody
  NoRequest = NoRequest
  Task <- MCTask3
  Home <- MCHome3
  Table <- MCTable2
  Replica <- MCReplica2
  Workload <- MCRaces
  Version <- MCVersions
  PageSize = 1
  FollowAnswers = FALSE
  SdkRetry = TRUE
  MaxFaults = 1

SPECIFICATION Spec

SYMMETRY MCSymmetry3

CHECK_DEADLOCK FALSE

INVARIANTS
  FreshAnswers
  RangesComplete
  MarksStick
PROPERTIES
  ImplementsCommitTable
