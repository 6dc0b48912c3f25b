CONSTANTS
  n1 = n1
  n2 = n2
  v1 = v1
  v2 = v2
  Names <- MCNames
  Versions <- MCVersions
  Setups <- MCSetups
  Commands <- RecoveringCommands
  MaxFaults = 2
  CommitFailsLate = FALSE
  None = None
  NoJournal = NoJournal
SPECIFICATION Spec
INVARIANTS
  TypeOK
  NoSilentSetup
  AppliedIsComplete
  NoteNeedsExecution
  NothingPending
PROPERTIES
  RecordFollowsRun
