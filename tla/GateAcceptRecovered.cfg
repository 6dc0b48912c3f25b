CONSTANTS
  p1 = p1
  p2 = p2
  p3 = p3
  Procs <- TwoProcs
  Operations <- AcceptAndHostAccess
  Serial <- CaptureEnds
  MaxImages = 1
  MaxCrashes = 0
  Nobody = Nobody
  None = None
  NoJournal = NoJournal
SYMMETRY TwoProcsSymmetry
SPECIFICATION Spec
INVARIANTS
  SuccessMeansPublished
