CONSTANTS
  f1 = f1
  f2 = f2
  Files <- MCFiles
  TruncatedFiles <- MCTruncatedFiles
  MaxReplacements = 3
  MaxFaults = 4
  None = None
  Torn = Torn
  NoJournal = NoJournal
SPECIFICATION FairSpec
INVARIANTS
  TypeOK
  ProjectIsWhole
  RecoveredClean
  OneFaultIsRecoverable
  InductiveInvariant
PROPERTIES
  ReplacementIsAtomic
  RecoveryCompletes
