CONSTANTS
  p1 = p1
  p2 = p2
  j1 = j1
  j2 = j2
  a = a
  b = b
  Procs <- TwoProcs
  Projects <- TwoProjects
  Setups <- TwoSetups
  MaxCommands = 2
  MaxEvents = 3
  MaxRevisions = 2
  MaxRuntimes = 2
  MaxFaults = 1
  MaxChanges = 2
  Nobody = Nobody
  None = None
SYMMETRY Symmetry
SPECIFICATION Spec
INVARIANTS
  TypeOK
  SelectionIsWhole
  ProjectsMatchBacking
  RebuildsAtRest
  SummaryIsTrue
PROPERTIES
  BaseKeepsSetups
  ChangesAreKept
  RebuildKeepsSetups
CHECK_DEADLOCK FALSE
