SPECIFICATION Spec
CONSTANTS
  c1 = c1
  c2 = c2
  Client = {c1, c2}
  Name <- MCName
  Requests <- MCRequests
  Seed <- MCSeed
  MaxId = 9
  MaxCalls = 3
  MaxFaults = 1
  MaxVersion = 3
  PageSize = 1
SYMMETRY Symmetry
CHECK_DEADLOCK FALSE
INVARIANTS
  TypeOK
  NoOrphans
  PartsFollowRows
  OwnedAndLinked
  StagingFollowsTables
  NamesUnique
  VersionsInOrder
  RootOfOwnChain
  HitWhatWasChecked
  
PROPERTIES
  StagingTakenOnce
