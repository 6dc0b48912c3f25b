CONSTANTS
  f1 = f1
  f2 = f2
  Files <- MCFiles
  TruncatedFiles <- MCTruncatedFiles
  MaxReplacements = 1
  MaxFaults = 2
  None = None
  Torn = Torn
  NoJournal = NoJournal
SPECIFICATION Spec
INVARIANTS
  RecoveryNotRefused
