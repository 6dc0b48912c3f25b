CONSTANTS
  p1 = p1
  p2 = p2
  a1 = a1
  Procs <- TwoProcs
  Addresses <- OneAddress
  Operations <- MostCommands
  Serial <- AnyNumber
  MaxBoots = 2
  MaxFaults = 1
  MaxChanges = 1
  Nobody = Nobody
  None = None
SYMMETRY TwoProcsSymmetry
SPECIFICATION Spec
INVARIANTS
  TypeOK
  
  
  RootWorkIsMarked
  
CHECK_DEADLOCK FALSE
