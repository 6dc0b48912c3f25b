CONSTANTS
  p1 = p1
  p2 = p2
  a1 = a1
  Procs <- TwoProcs
  Addresses <- OneAddress
  Operations = {"shell"}
  Serial <- AnyNumber
  MaxBoots = 2
  MaxFaults = 0
  MaxChanges = 0
  Nobody = Nobody
  None = None
SYMMETRY TwoProcsSymmetry
SPECIFICATION Spec
INVARIANTS
  RunningVMIsDetected
CHECK_DEADLOCK FALSE
