CONSTANTS
  p1 = p1
  p2 = p2
  j1 = j1
  j2 = j2
  d1 = d1
  d2 = d2
  s1 = s1
  s2 = s2
  h1 = h1
  Procs <- TwoProcs
  Projects <- TwoProjects
  Paths <- OnePath
  Serials <- TwoSerials
  Ports <- OnePort
  Operations <- Commands
  DeviceLimit = 2
  MaxFaults = 1
  MaxReplugs = 1
  Nobody = Nobody
  None = None
SYMMETRY Symmetry
SPECIFICATION Spec
INVARIANTS
  TypeOK
  ExclusiveOwnership
  OpenIsReserved
  ForwardsAreSaved
  GrantsAreKept
  ProjectIsRecoverable
CHECK_DEADLOCK FALSE
