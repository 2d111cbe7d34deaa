SPECIFICATION Spec
CONSTANTS
  r1 = r1
  r2 = r2
  c1 = c1
  c2 = c2
  Replica = {r1, r2}
  Client = {c1, c2}
  NoName = NoName
  admin = admin
  op = op
  x = x
  metastore = metastore
  catalog = catalog
  OWNER = OWNER
  ALL = ALL
  CREATE = CREATE
  Name <- MCName
  Admin = admin
  Operators <- MCOperators
  Metastore = metastore
  Catalog <- MCCatalog
  Owner = OWNER
  All = ALL
  Specific <- MCSpecific
  Create = CREATE
  Requests <- MCRequests
  Profiles <- MCProfiles
  MaxUsers = 3
  MaxCalls = 1
  MaxFaults = 2
SYMMETRY Symmetry
CHECK_DEADLOCK FALSE
INVARIANTS
  MemoryAgrees
  AdminOwnsUnlessCut
  OperatorsServed
