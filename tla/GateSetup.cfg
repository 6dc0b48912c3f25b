CONSTANTS
  p1 = p1
  p2 = p2
  p3 = p3
  Procs <- ThreeProcs
  Operations <- WithoutHostAccess
  Serial <- CaptureEnds
  MaxImages = 2
  MaxCrashes = 1
  Nobody = Nobody
  None = None
  NoJournal = NoJournal
SYMMETRY ThreeProcsSymmetry
SPECIFICATION Spec
INVARIANTS
  TypeOK
  WorkExcludesCapture
