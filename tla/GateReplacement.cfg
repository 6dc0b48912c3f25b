CONSTANTS
  p1 = p1
  p2 = p2
  p3 = p3
  Procs <- ThreeProcs
  Operations <- WithoutCaptureAccept
  Serial <- AnyNumber
  MaxImages = 2
  MaxCrashes = 2
  Nobody = Nobody
  None = None
  NoJournal = NoJournal
SYMMETRY ThreeProcsSymmetry
SPECIFICATION Spec
INVARIANTS
  SuccessMeansPublished
  RecoveryExcludesTransactions
  ReplacementExcludesCapture
