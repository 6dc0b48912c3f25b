CONSTANTS
  p1 = p1
  p2 = p2
  d1 = d1
  d2 = d2
  Procs <- TwoProcs
  Domains <- TwoDomains
  Operations <- Commands
  Serial <- Syncs
  MaxFaults = 1
  MaxChanges = 3
  None = None
SYMMETRY EitherSymmetry
SPECIFICATION Spec
INVARIANTS
  TypeOK
  EntriesAreOnRecord
PROPERTIES
  SyncIsExact
CHECK_DEADLOCK FALSE
