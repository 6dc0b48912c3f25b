----------------------- MODULE ImageReplacementProofs -----------------------
(***************************************************************************)
(* Proofs about ImageReplacement for every set of metadata files and every *)
(* bound on replacements and faults.                                       *)
(***************************************************************************)
EXTENDS ImageReplacement, TLAPS

-----------------------------------------------------------------------------
(* Type correctness                                                        *)

\* Every variable keeps its type in every step of the protocol.
LEMMA TypeStep == TypeOK /\ [Next]_vars => TypeOK'
<1> SUFFICES ASSUME TypeOK, [Next]_vars PROVE TypeOK'
  OBVIOUS
<1>0. /\ {g \in doubt : ~Settled(g)'} \in {{}, doubt}
      /\ doubt = {} \/ \E g \in Generations : doubt = {g}
  BY DEF TypeOK
<1> USE ReplacementAssumption DEF ReplacementAssumption, TypeOK, Generations, Contents, Steps, Goto,
        Step, NoFault, Fault, disk, memory
<1>1. CASE StartCommand
  BY <1>1 DEF StartCommand
<1>2. CASE Recover
  <2>1. CASE RecoverOrphan \/ RecoverNothing \/ ReadJournal \/ RecoverFails
    BY <2>1 DEF RecoverOrphan, RecoverNothing, ReadJournal, RecoverFails, FailAt
  <2>2. CASE RecoverCommitted \/ RecoverBackup
    BY <2>2 DEF RecoverCommitted, RecoverBackup, RemoveBackup
  <2>3. CASE RecoverImage \/ RefuseRecovery
    BY <2>3 DEF RecoverImage, RefuseRecovery, RenameBackupToImage
  <2>4. CASE RecoverFile
    <3>1. journal \in Journals
      BY <2>4 DEF RecoverFile
    <3>2. journal.snapshots \in [Files -> Contents]
      BY <3>1 DEF Journals
    <3>3. QED
      BY <2>4, <3>2 DEF RecoverFile, RestoreFile
  <2>5. CASE FilesRecovered
    BY <2>5 DEF FilesRecovered
  <2>6. CASE RecoverClear
    BY <2>6, <1>0 DEF RecoverClear, ClearJournal
  <2>7. QED
    BY <1>2, <2>1, <2>2, <2>3, <2>4, <2>5, <2>6 DEF Recover
<1>3. CASE Publish
  <2>1. CASE NoReplacement \/ FilesUpdated
    BY <2>1 DEF NoReplacement, FilesUpdated
  <2>0. CASE Begin
    <3>1. hadImage' \in BOOLEAN
      BY <2>0, Zenon DEF Begin
    <3>2. /\ snapshots' \in [Files -> Contents]
          /\ todo' \subseteq Files
          /\ pc' \in Steps
          /\ UNCHANGED <<image, backup, metadata, journal, failure, faults, doubt>>
      BY <2>0 DEF Begin
    <3>3. built' \in 0..MaxReplacements
      BY <2>0 DEF Begin
    <3>4. QED
      BY <3>1, <3>2, <3>3
  <2>2. CASE JournalPrepared \/ JournalBackup \/ JournalImage \/ JournalMetadata
    BY <2>2 DEF JournalPrepared, JournalBackup, JournalImage, JournalMetadata,
                WriteJournal, Written, Journals, Phases
  <2>3. CASE LinkBackup \/ MoveCandidate
    BY <2>3 DEF LinkBackup, MoveCandidate
  <2>4. CASE UpdateFile \/ TruncateFile
    BY <2>4 DEF UpdateFile, TruncateFile
  <2>5. CASE DropBackup \/ ClearCommitted
    BY <2>5, <1>0 DEF DropBackup, ClearCommitted, RemoveBackup, ClearJournal
  <2>6. QED
    BY <1>3, <2>0, <2>1, <2>2, <2>3, <2>4, <2>5 DEF Publish
<1>4. CASE Undo
  <2>1. CASE RollbackImage \/ FilesRolledBack
    BY <2>1 DEF RollbackImage, FilesRolledBack, RenameBackupToImage
  <2>2. CASE RollbackFile
    BY <2>2 DEF RollbackFile, RestoreFile
  <2>3. CASE RollbackClear \/ AbandonBackup \/ AbandonClear
    BY <2>3, <1>0 DEF RollbackClear, AbandonBackup, AbandonClear, RemoveBackup, ClearJournal
  <2>4. QED
    BY <1>4, <2>1, <2>2, <2>3 DEF Undo
<1>5. CASE Crash
  BY <1>5 DEF Crash
<1>6. CASE UNCHANGED vars
  BY <1>6 DEF vars
<1>7. QED
  BY <1>1, <1>2, <1>3, <1>4, <1>5, <1>6 DEF Next, Run

\* Every initial state is well typed.
LEMMA TypeInit == Init => TypeOK
<1> SUFFICES ASSUME Init PROVE TypeOK
  OBVIOUS
<1>1. hadImage \in BOOLEAN
  BY DEF Init
<1>2. /\ image \in Generations
      /\ backup \in Generations
      /\ metadata \in [Files -> Contents]
      /\ snapshots \in [Files -> Contents]
      /\ built \in 0..MaxReplacements
      /\ faults \in 0..MaxFaults
      /\ doubt = {}
  BY ReplacementAssumption
  DEF ReplacementAssumption, Init, Generations, Contents
<1>3. QED
  BY <1>1, <1>2 DEF Init, TypeOK, Steps

\* Every variable of the replacement protocol always has its type.
THEOREM TypeCorrect == Spec => []TypeOK
BY TypeInit, TypeStep, PTL DEF Spec

-----------------------------------------------------------------------------
(* The inductive invariant                                                 *)

\* A step that replaces generation g by a newer one.
Replaced(g) ==
  \E h \in 1..MaxReplacements : (g # None => g < h) /\ StandsFor(h)'

\* Every step of the protocol puts the candidate in place in the same order.
LEMMA CandidateStep == TypeOK /\ Candidate /\ [Next]_vars => Candidate'
<1> SUFFICES ASSUME TypeOK, Candidate, [Next]_vars PROVE Candidate'
  OBVIOUS
<1> USE DEF Candidate, Goto, Step, disk, memory
<1>1. CASE StartCommand \/ Crash
  BY <1>1 DEF StartCommand, Crash
<1>2. CASE Recover
  BY <1>2 DEF Recover, RecoverOrphan, RecoverNothing, ReadJournal, RecoverFails, FailAt,
              RecoverCommitted, RecoverBackup, RemoveBackup, RecoverImage, RefuseRecovery,
              RecoverFile, RestoreFile, FilesRecovered, RecoverClear, ClearJournal
<1>3. CASE Publish
  <2>1. CASE NoReplacement \/ Begin
    BY <2>1 DEF NoReplacement, Begin
  <2>2. CASE JournalPrepared \/ JournalBackup \/ JournalImage \/ JournalMetadata
    BY <2>2 DEF JournalPrepared, JournalBackup, JournalImage, JournalMetadata, WriteJournal
  <2>3. CASE LinkBackup \/ MoveCandidate
    BY <2>3 DEF LinkBackup, MoveCandidate
  <2>4. CASE UpdateFile \/ TruncateFile \/ FilesUpdated
    BY <2>4 DEF UpdateFile, TruncateFile, FilesUpdated, TypeOK
  <2>5. CASE DropBackup \/ ClearCommitted
    BY <2>5 DEF DropBackup, ClearCommitted, RemoveBackup, ClearJournal
  <2>6. QED
    BY <1>3, <2>1, <2>2, <2>3, <2>4, <2>5 DEF Publish
<1>4. CASE Undo
  BY <1>4 DEF Undo, RollbackImage, RollbackFile, RestoreFile, FilesRolledBack, RollbackClear,
              AbandonBackup, AbandonClear, RemoveBackup, ClearJournal
<1>5. CASE UNCHANGED vars
  BY <1>5 DEF vars
<1>6. QED
  BY <1>1, <1>2, <1>3, <1>4, <1>5 DEF Next, Run

\* The generation in force survives every step of recovery.
LEMMA RecoverStep ==
  ASSUME TypeOK, NEW g \in Generations, StandsFor(g), Recover
  PROVE  StandsFor(g)'
<1> USE DEF StandsFor, AtStep, Goto, Step, NoFault, Fault, disk, memory
<1>1. CASE RecoverOrphan \/ RecoverNothing \/ ReadJournal \/ RecoverFails
  BY <1>1 DEF RecoverOrphan, RecoverNothing, ReadJournal, RecoverFails, FailAt,
              Settled, Journaled, Committed, InPlace
<1>2. CASE RecoverCommitted
  BY <1>2 DEF RecoverCommitted, RemoveBackup, Settled, Journaled, Committed, InPlace
<1>3. CASE RecoverBackup
  BY <1>3 DEF RecoverBackup, RemoveBackup, Settled, Journaled, Committed, InPlace
<1>4. CASE RecoverImage
  <2>1. Journaled(g)
    BY <1>4 DEF RecoverImage
  <2>2. image' = g /\ backup' \in {None, g} /\ UNCHANGED <<metadata, journal, built, doubt>>
    BY <1>4, <2>1 DEF RecoverImage, RenameBackupToImage, Journaled
  <2>3. pc' = "recover-files" /\ todo' = Files
    BY <1>4 DEF RecoverImage
  <2>4. Journaled(g)'
    BY <2>1, <2>2 DEF Journaled
  <2>5. Undone(g)'
    BY <2>2, <2>3 DEF Undone
  <2>6. QED
    BY <2>2, <2>3, <2>4, <2>5
<1>5. CASE RefuseRecovery
  BY <1>5 DEF RefuseRecovery, Settled, Journaled, Committed, InPlace
<1>6. CASE RecoverFile
  <2>1. /\ pc = "recover-files" /\ pc' = "recover-files"
        /\ UNCHANGED <<image, backup, journal, built, doubt>>
    BY <1>6 DEF RecoverFile, RestoreFile
  <2>2. Journaled(g) /\ Journaled(g)'
    BY <2>1 DEF Journaled
  <2>3. failure' = "none" => Undone(g)'
    <3>1. SUFFICES ASSUME failure' = "none" PROVE Undone(g)'
      OBVIOUS
    <3>2. PICK f \in todo : /\ todo' = todo \ {f}
                            /\ metadata' = [metadata EXCEPT ![f] = journal.snapshots[f]]
                            /\ UNCHANGED failure
      BY <1>6, <3>1 DEF RecoverFile, RestoreFile
    <3>3. failure = "none" /\ Undone(g)
      BY <2>1, <3>1, <3>2
    <3>4. QED
      BY <2>1, <2>2, <3>2, <3>3 DEF Undone, Journaled, TypeOK
  <2>4. QED
    BY <2>1, <2>2, <2>3
<1>7. CASE FilesRecovered
  BY <1>7 DEF FilesRecovered, Journaled, InPlace, Undone, TypeOK
<1>8. CASE RecoverClear
  BY <1>8 DEF RecoverClear, ClearJournal, Settled, Journaled, Committed, InPlace
<1>9. QED
  BY <1>1, <1>2, <1>3, <1>4, <1>5, <1>6, <1>7, <1>8 DEF Recover

\* A journal that was written is there, and reads back as it was written.
LEMMA WrittenJournal ==
  ASSUME TypeOK, NEW phase \in Phases
  PROVE  /\ Written(phase) # NoJournal
         /\ Written(phase).phase = phase
         /\ Written(phase).hadImage = hadImage
         /\ Written(phase).snapshots = snapshots
BY ReplacementAssumption DEF ReplacementAssumption, Written, Journals, TypeOK

\* Every step of publishProjectReplacement keeps the generation in force or, when
\* it records "metadata-published", replaces it by the candidate's, or fails late.
LEMMA PublishStep ==
  ASSUME TypeOK, Candidate, NEW g \in Generations, StandsFor(g), Publish
  PROVE  StandsFor(g)' \/ Replaced(g) \/ InDoubt(g)'
<1> USE DEF StandsFor, AtStep, Goto, Step, NoFault, Fault, disk, memory
<1>1. CASE NoReplacement
  BY <1>1 DEF NoReplacement, Settled, InPlace
<1>2. CASE Begin
  <2>1. Settled(g) /\ backup = None
    BY <1>2 DEF Begin
  <2>2. /\ pc' = "journal-prepared" /\ built' = built + 1
        /\ todo' = Files /\ snapshots' = metadata /\ (hadImage' <=> image # None)
        /\ UNCHANGED <<image, backup, metadata, journal, doubt>>
    BY <1>2 DEF Begin
  <2>3. Settled(g)' /\ Local(g)'
    BY <2>1, <2>2 DEF Settled, InPlace, Local
  <2>4. built \in Nat /\ built < MaxReplacements /\ MaxReplacements \in Nat
    BY <1>2, ReplacementAssumption DEF Begin, TypeOK, ReplacementAssumption
  <2>5. built' \in 1..MaxReplacements
    BY <2>2, <2>4
  <2>6. g # None => g \in 0..built' /\ g < built'
    BY <2>2, <2>4
  <2>7. QED
    BY <2>1, <2>2, <2>3, <2>5, <2>6 DEF Older
<1>3. CASE JournalPrepared
  <2>1. Settled(g) /\ backup = None /\ Local(g) /\ Older(g)
    BY <1>3 DEF JournalPrepared
  <2>2. WriteJournal("prepared", IF hadImage THEN "link-backup" ELSE "move-candidate", "idle")
    BY <1>3 DEF JournalPrepared
  <2>3. UNCHANGED <<image, backup, metadata, hadImage, snapshots, built, doubt>>
    BY <1>3 DEF JournalPrepared, WriteJournal
  <2>4. InPlace(g)' /\ Local(g)' /\ Older(g)'
    BY <2>1, <2>3 DEF Settled, InPlace, Local, Older
  <2>5. CASE UNCHANGED journal /\ pc' = "idle"
    BY <2>1, <2>3, <2>4, <2>5 DEF Settled
  <2>6. CASE journal' = Written("prepared")
    <3>1. Journaled(g)'
      BY <2>1, <2>3, <2>6, WrittenJournal DEF Journaled, Settled, InPlace, Local, Phases
    <3>2. pc' \in {"idle", IF hadImage THEN "link-backup" ELSE "move-candidate"}
      BY <2>2 DEF WriteJournal
    <3>3. QED
      BY <2>1, <2>3, <2>4, <3>1, <3>2 DEF Local
  <2>7. QED
    BY <2>2, <2>5, <2>6 DEF WriteJournal
<1>4. CASE LinkBackup
  BY <1>4 DEF LinkBackup, Journaled, InPlace, Local, Older
<1>5. CASE JournalBackup
  <2>1. Journaled(g) /\ InPlace(g) /\ Local(g) /\ Older(g) /\ backup = g
    BY <1>5 DEF JournalBackup
  <2>3. /\ UNCHANGED <<image, backup, metadata, hadImage, snapshots, built, doubt>>
        /\ pc' \in {"move-candidate", "abandon-backup"}
        /\ journal' \in {journal, Written("backup-ready")}
    BY <1>5 DEF JournalBackup, WriteJournal
  <2>4. Journaled(g)'
    BY <2>1, <2>3, WrittenJournal DEF Journaled, Local, Phases
  <2>5. InPlace(g)' /\ Local(g)' /\ Older(g)' /\ backup' = g
    BY <2>1, <2>3 DEF InPlace, Local, Older
  <2>6. QED
    BY <2>1, <2>3, <2>4, <2>5
<1>6. CASE MoveCandidate
  BY <1>6 DEF MoveCandidate, Journaled, InPlace, Local, Older, TypeOK
<1>7. CASE JournalImage
  <2>1. Journaled(g) /\ Local(g) /\ Older(g) /\ backup = g
    BY <1>7 DEF JournalImage
  <2>3. /\ UNCHANGED <<image, backup, metadata, hadImage, snapshots, built, doubt>>
        /\ pc' \in {"update", "rollback-image"}
        /\ journal' \in {journal, Written("image-published")}
    BY <1>7 DEF JournalImage, WriteJournal
  <2>4. Journaled(g)'
    BY <2>1, <2>3, WrittenJournal DEF Journaled, Local, Phases
  <2>5. Local(g)' /\ Older(g)' /\ backup' = g
    BY <2>1, <2>3 DEF Local, Older
  <2>6. QED
    BY <2>3, <2>4, <2>5
<1>8. CASE UpdateFile
  BY <1>8 DEF UpdateFile, Journaled, Local, Older, TypeOK
<1>9. CASE TruncateFile
  BY <1>9 DEF TruncateFile, Journaled, Local, Older, TypeOK
<1>10. CASE FilesUpdated
  BY <1>10 DEF FilesUpdated, Journaled, Local, Older
<1>11. CASE JournalMetadata
  <2>1. /\ Journaled(g) /\ Local(g) /\ Older(g) /\ backup = g
        /\ image = built /\ \A f \in Files : metadata[f] = built
    BY <1>11 DEF JournalMetadata, Candidate
  <2>2. UNCHANGED <<image, backup, metadata, hadImage, snapshots, todo, built>>
    BY <1>11 DEF JournalMetadata, WriteJournal
  <2>3. CASE journal' = journal
    <3>1. pc' = "rollback-image" /\ doubt' = {}
      BY <1>11, <2>3, <2>1, WrittenJournal DEF JournalMetadata, WriteJournal, Journaled, Phases
    <3>2. QED
      BY <2>1, <2>2, <2>3, <3>1 DEF Journaled, Local, Older
  <2>4. CASE journal' # journal /\ pc' # "rollback-image"
    <3>1. /\ journal' = Written("metadata-published") /\ doubt' = {}
          /\ pc' = IF hadImage THEN "drop-backup" ELSE "clear-committed"
      BY <1>11, <2>4 DEF JournalMetadata, WriteJournal
    <3>2. built \in 1..MaxReplacements /\ built \in Generations /\ built \in 0..built
      BY <2>1 DEF Older, Generations, TypeOK
    <3>3. Committed(built)'
      BY <2>1, <2>2, <3>1, WrittenJournal DEF Committed, InPlace, Phases
    <3>4. pc' = "clear-committed" => backup' = None
      BY <2>1, <2>2, <3>1 DEF Local
    <3>5. StandsFor(built)'
      BY <2>2, <3>1, <3>2, <3>3, <3>4
    <3>6. QED
      BY <2>1, <2>2, <3>2, <3>5 DEF Replaced, Older
  <2>5. CASE journal' # journal /\ pc' = "rollback-image"
    <3>1. doubt' = {g} /\ faults' = faults + 1
      BY <1>11, <2>1, <2>5 DEF JournalMetadata, WriteJournal
    <3>2. faults' > 0
      BY <3>1, ReplacementAssumption DEF TypeOK, ReplacementAssumption
    <3>3. RollingBack(g)'
      BY <2>1, <2>2, <2>5 DEF RollingBack, Local
    <3>4. QED
      BY <2>2, <3>1, <3>2, <3>3 DEF InDoubt
  <2>6. QED
    BY <2>3, <2>4, <2>5
<1>12. CASE DropBackup
  BY <1>12 DEF DropBackup, RemoveBackup, Committed, InPlace
<1>13. CASE ClearCommitted
  BY <1>13 DEF ClearCommitted, ClearJournal, Committed, Settled, InPlace
<1>14. QED
  BY <1>1, <1>2, <1>3, <1>4, <1>5, <1>6, <1>7, <1>8, <1>9, <1>10, <1>11, <1>12, <1>13
  DEF Publish

\* Rolling back, or abandoning early, keeps the generation in force.
LEMMA UndoStep ==
  ASSUME TypeOK, NEW g \in Generations, StandsFor(g), Undo
  PROVE  StandsFor(g)'
<1> USE DEF StandsFor, AtStep, Goto, Step, NoFault, Fault, disk, memory
<1>1. CASE RollbackImage
  BY <1>1 DEF RollbackImage, RenameBackupToImage, Journaled, Local, Undone
<1>2. CASE RollbackFile
  BY <1>2 DEF RollbackFile, RestoreFile, Journaled, Local, Undone, TypeOK
<1>3. CASE FilesRolledBack
  BY <1>3 DEF FilesRolledBack, Journaled, InPlace, Undone, TypeOK
<1>4. CASE RollbackClear
  BY <1>4 DEF RollbackClear, ClearJournal, Journaled, Settled, InPlace
<1>5. CASE AbandonBackup
  BY <1>5 DEF AbandonBackup, RemoveBackup, Journaled, InPlace
<1>6. CASE AbandonClear
  BY <1>6 DEF AbandonClear, ClearJournal, Journaled, Settled, InPlace
<1>7. QED
  BY <1>1, <1>2, <1>3, <1>4, <1>5, <1>6 DEF Undo

\* With a commit in doubt, the end of a command that removes the journal, or fails to,
\* leaves the doubt or g in place.
LEMMA DoubtClears ==
  ASSUME TypeOK, NEW g \in Generations, InDoubt(g),
         NEW ok, NEW error, ClearJournal(ok, error),
         (InPlace(g) /\ backup \in {None, g}) \/ Interrupted(g),
         pc' \in {"idle", "begin"},
         pc' = "begin" => backup = None /\ journal' = NoJournal
  PROVE  StandsFor(g)' \/ InDoubt(g)'
<1>1. UNCHANGED <<image, backup, metadata, built>>
  BY DEF ClearJournal, Step
<1>2. faults \in Nat /\ faults > 0
  BY ReplacementAssumption DEF InDoubt, TypeOK, ReplacementAssumption
<1>3. CASE Settled(g)'
  <2>1. doubt' = {}
    BY <1>3 DEF ClearJournal, InDoubt
  <2>2. QED
    BY <1>1, <1>3, <2>1 DEF StandsFor, AtStep, InDoubt, Settled
<1>4. CASE ~Settled(g)'
  <2>1. doubt' = {g}
    BY <1>4 DEF ClearJournal, InDoubt
  <2>2. faults' > 1
    <3>1. CASE Interrupted(g)
      BY <1>2, <3>1 DEF Interrupted, ClearJournal, NoFault, Fault
    <3>2. CASE InPlace(g) /\ backup \in {None, g}
      <4>1. journal' # NoJournal
        BY <1>1, <1>4, <3>2 DEF Settled, InPlace
      <4>2. QED
        BY <1>2, <4>1 DEF ClearJournal, Fault
    <3>3. QED
      BY <3>1, <3>2
  <2>3. Interrupted(g)'
    BY <1>1, <2>2 DEF Interrupted
  <2>4. faults' \in Nat /\ faults' > 0
    BY <1>2 DEF ClearJournal, NoFault, Fault
  <2>5. QED
    BY <1>1, <2>1, <2>3, <2>4 DEF InDoubt
<1>5. QED
  BY <1>3, <1>4

\* A recovery with a commit in doubt leaves it in doubt or g in place.
LEMMA DoubtRecover ==
  ASSUME TypeOK, NEW g \in Generations, InDoubt(g), Recover
  PROVE  StandsFor(g)' \/ InDoubt(g)'
<1>0. faults \in Nat
  BY ReplacementAssumption DEF TypeOK, ReplacementAssumption
<1>1. CASE RecoverClear
  <2>1. pc = "recover-clear" /\ ClearJournal("begin", "idle")
    BY <1>1 DEF RecoverClear
  <2>2. Interrupted(g)
    BY <2>1 DEF InDoubt, RollingBack
  <2>3. pc' \in {"idle", "begin"} /\ (pc' = "begin" => backup = None /\ journal' = NoJournal)
    BY <2>1, <2>2 DEF ClearJournal, Step, Interrupted
  <2>4. QED
    BY <2>1, <2>2, <2>3, DoubtClears
<1>2. CASE Recover /\ ~RecoverClear
  <2> USE <1>0 DEF Goto, Step, NoFault, Fault, disk, memory
  <2>1. pc \notin {"rollback-image", "rollback-files", "rollback-clear"}
    BY <1>2 DEF Recover, RecoverOrphan, RecoverNothing, ReadJournal, RecoverFails, FailAt,
                RecoverCommitted, RecoverBackup, RecoverImage, RefuseRecovery,
                RecoverFile, RestoreFile, FilesRecovered
  <2>2. Interrupted(g)
    BY <2>1 DEF InDoubt, RollingBack
  <2>3. UNCHANGED <<built, doubt>> /\ faults' > 1 /\ faults' > 0
    BY <1>2, <2>2 DEF Recover, RecoverOrphan, RecoverNothing, ReadJournal, RecoverFails, FailAt,
                RecoverCommitted, RecoverBackup, RemoveBackup, RecoverImage, RefuseRecovery,
                RecoverFile, RestoreFile, FilesRecovered, Interrupted
  <2>4. /\ pc' \in {"idle", "recover", "recover-committed", "recover-image", "recover-files",
                     "recover-backup", "recover-clear", "begin"}
        /\ pc' \in {"recover-clear", "begin"} => backup' = None
        /\ pc' = "begin" => journal' = NoJournal
    BY <1>2 DEF Recover, RecoverOrphan, RecoverNothing, ReadJournal, RecoverFails, FailAt,
                RecoverCommitted, RecoverBackup, RemoveBackup, RecoverImage, RefuseRecovery,
                RecoverFile, RestoreFile, FilesRecovered
  <2>5. Interrupted(g)'
    BY <2>3, <2>4 DEF Interrupted
  <2>6. QED
    BY <2>3, <2>5 DEF InDoubt
<1>3. QED
  BY <1>1, <1>2

\* With a commit in doubt, a publication ends the doubt when it commits.
LEMMA DoubtPublish ==
  ASSUME TypeOK, Candidate, NEW g \in Generations, InDoubt(g), Publish
  PROVE  StandsFor(g)' \/ Replaced(g) \/ InDoubt(g)'
<1>0. faults \in Nat
  BY ReplacementAssumption DEF TypeOK, ReplacementAssumption
<1>1. pc \notin {"rollback-image", "rollback-files", "rollback-clear"}
  BY DEF Publish, NoReplacement, Begin, JournalPrepared, LinkBackup, JournalBackup,
         MoveCandidate, JournalImage, UpdateFile, TruncateFile, FilesUpdated,
         JournalMetadata, DropBackup, ClearCommitted
<1>2. Interrupted(g)
  BY <1>1 DEF InDoubt, RollingBack
<1>3. CASE ClearCommitted
  <2>1. ClearJournal("idle", "idle") /\ pc' = "idle"
    BY <1>3 DEF ClearCommitted, ClearJournal, Step
  <2>2. QED
    BY <1>2, <2>1, DoubtClears
<1>4. CASE Begin
  <2>1. built \in Nat /\ built < MaxReplacements /\ MaxReplacements \in Nat /\ built' = built + 1
    BY <1>4, ReplacementAssumption DEF Begin, TypeOK, ReplacementAssumption
  <2>2. built' \in 1..MaxReplacements
    BY <2>1
  <2>3. g # None => g \in 0..built' /\ g < built'
    BY <2>1 DEF InDoubt
  <2>4. pc' = "journal-prepared" /\ backup' = None /\ UNCHANGED <<faults, doubt>>
    BY <1>4 DEF Begin, disk, NoFault
  <2>5. Interrupted(g)'
    BY <1>2, <2>2, <2>3, <2>4 DEF Interrupted, Older
  <2>6. QED
    BY <2>3, <2>4, <2>5 DEF InDoubt
<1>5. CASE JournalMetadata
  <2>1. /\ Older(g) /\ (hadImage \/ backup = None)
        /\ image = built /\ \A f \in Files : metadata[f] = built
    BY <1>2, <1>5 DEF JournalMetadata, Candidate, Interrupted
  <2>2. UNCHANGED <<image, backup, metadata, hadImage, snapshots, todo, built>>
    BY <1>5 DEF JournalMetadata, WriteJournal, Step, memory
  <2>3. faults' > 1 /\ faults' > 0
    BY <1>0, <1>2, <1>5 DEF JournalMetadata, WriteJournal, Interrupted, NoFault, Fault
  <2>4. CASE doubt' = {g} /\ pc' = "rollback-image"
    BY <2>2, <2>3, <2>4 DEF InDoubt, Interrupted
  <2>5. CASE doubt' = {g} /\ pc' \in {"drop-backup", "clear-committed"}
    BY <2>2, <2>3, <2>5 DEF InDoubt, Interrupted
  <2>6. CASE doubt' # {g}
    <3>1. /\ journal' = Written("metadata-published") /\ doubt' = {}
          /\ pc' = IF hadImage THEN "drop-backup" ELSE "clear-committed"
      BY <1>5, <2>6 DEF JournalMetadata, WriteJournal, Step, InDoubt
    <3>2. built \in 1..MaxReplacements /\ built \in Generations /\ built \in 0..built
      BY <2>1 DEF Older, Generations, TypeOK
    <3>3. Committed(built)'
      BY <2>1, <2>2, <3>1, WrittenJournal DEF Committed, InPlace, Phases
    <3>4. pc' = "clear-committed" => backup' = None
      BY <2>1, <2>2, <3>1
    <3>5. StandsFor(built)'
      BY <2>2, <3>1, <3>2, <3>3, <3>4 DEF StandsFor, AtStep
    <3>6. QED
      BY <2>1, <2>2, <3>2, <3>5 DEF Replaced, Older
  <2>7. pc' \in {"rollback-image", "drop-backup", "clear-committed"}
    BY <1>5 DEF JournalMetadata, WriteJournal, Step
  <2>8. QED
    BY <2>4, <2>5, <2>6, <2>7
<1>6. CASE Publish /\ ~ClearCommitted /\ ~Begin /\ ~JournalMetadata
  <2> USE <1>0 DEF Goto, Step, NoFault, Fault, disk, memory
  <2>1. UNCHANGED <<built, doubt>> /\ faults' > 1 /\ faults' > 0
    BY <1>2, <1>6 DEF Publish, NoReplacement, JournalPrepared, LinkBackup, JournalBackup,
                MoveCandidate, JournalImage, UpdateFile, TruncateFile, FilesUpdated,
                DropBackup, WriteJournal, RemoveBackup, Interrupted
  <2>2. Interrupted(g)'
    <3>1. CASE NoReplacement \/ DropBackup
      BY <2>1, <3>1 DEF NoReplacement, DropBackup, RemoveBackup, Interrupted
    <3>2. CASE JournalPrepared
      BY <1>2, <2>1, <3>2 DEF JournalPrepared, WriteJournal, Interrupted, Older
    <3>3. CASE LinkBackup \/ MoveCandidate
      BY <1>2, <2>1, <3>3 DEF LinkBackup, MoveCandidate, Interrupted, Older
    <3>4. CASE JournalBackup \/ JournalImage
      BY <1>2, <2>1, <3>4 DEF JournalBackup, JournalImage, WriteJournal, Interrupted, Older
    <3>5. CASE UpdateFile \/ TruncateFile \/ FilesUpdated
      BY <1>2, <2>1, <3>5 DEF UpdateFile, TruncateFile, FilesUpdated, Interrupted, Older
    <3>6. QED
      BY <1>6, <3>1, <3>2, <3>3, <3>4, <3>5 DEF Publish
  <2>3. QED
    BY <2>1, <2>2 DEF InDoubt
<1>7. QED
  BY <1>3, <1>4, <1>5, <1>6

\* A rollback that nothing disturbs puts g in place again, which ends the doubt.
LEMMA DoubtUndo ==
  ASSUME TypeOK, NEW g \in Generations, InDoubt(g), Undo
  PROVE  StandsFor(g)' \/ InDoubt(g)'
<1>0. faults \in Nat /\ faults > 0
  BY ReplacementAssumption DEF TypeOK, ReplacementAssumption, InDoubt
<1>1. CASE RollbackClear \/ AbandonClear
  <2>1. ClearJournal("idle", "idle") /\ pc' = "idle"
    BY <1>1 DEF RollbackClear, AbandonClear, ClearJournal, Step
  <2>2. (InPlace(g) /\ backup \in {None, g}) \/ Interrupted(g)
    BY <1>1 DEF RollbackClear, AbandonClear, InDoubt, RollingBack
  <2>3. QED
    BY <2>1, <2>2, DoubtClears
<1>2. CASE RollbackImage \/ RollbackFile \/ FilesRolledBack \/ AbandonBackup
  <2> USE <1>0 DEF Goto, Step, NoFault, Fault, disk, memory
  <2>1. /\ UNCHANGED <<built, doubt>>
        /\ faults' \in {faults, faults + 1}
        /\ pc' \in {"rollback-files", "rollback-clear", "abandon-clear", "idle"}
    BY <1>2 DEF RollbackImage, RollbackFile, RestoreFile, FilesRolledBack, AbandonBackup,
                RemoveBackup
  <2>2. CASE faults' > 1
    BY <1>0, <2>1, <2>2 DEF InDoubt, Interrupted
  <2>3. CASE ~(faults' > 1)
    <3>1. UNCHANGED faults /\ RollingBack(g)
      BY <2>1, <2>3 DEF InDoubt, Interrupted
    <3>2. RollingBack(g)'
      <4>1. CASE RollbackImage
        BY <3>1, <4>1 DEF RollbackImage, RenameBackupToImage, RollingBack, Local, Undone
      <4>2. CASE RollbackFile
        BY <3>1, <4>2 DEF RollbackFile, RestoreFile, RollingBack, Local, Undone, TypeOK
      <4>3. CASE FilesRolledBack
        BY <3>1, <4>3 DEF FilesRolledBack, RollingBack, Local, Undone, InPlace
      <4>4. CASE AbandonBackup
        BY <3>1, <4>4 DEF AbandonBackup, RollingBack
      <4>5. QED
        BY <1>2, <4>1, <4>2, <4>3, <4>4
    <3>3. QED
      BY <2>1, <3>1, <3>2 DEF InDoubt
  <2>4. QED
    BY <2>2, <2>3
<1>3. QED
  BY <1>1, <1>2 DEF Undo

\* Every step of the protocol keeps the generation in force or commits a newer one,
\* and a commit in doubt stays in doubt until g is in place or another one commits.
LEMMA GenerationStep ==
  ASSUME TypeOK, Candidate, NEW g \in Generations, StandsFor(g) \/ InDoubt(g), [Next]_vars
  PROVE  StandsFor(g)' \/ Replaced(g) \/ InDoubt(g)'
<1>1. CASE StandsFor(g) /\ (StartCommand \/ Crash \/ UNCHANGED vars)
  <2>1. CASE StartCommand
    BY <1>1, <2>1 DEF StartCommand, Goto, Step, NoFault, disk, memory, StandsFor, AtStep,
                Settled, Journaled, Committed, InPlace
  <2>2. CASE Crash
    BY <1>1, <2>2 DEF Crash, disk, StandsFor, AtStep, Settled, Journaled, Committed, InPlace
  <2>3. CASE UNCHANGED vars
    BY <1>1, <2>3 DEF vars, disk, memory, StandsFor, AtStep, Settled, Journaled, Committed,
                InPlace, Local, Older, Undone
  <2>4. QED
    BY <1>1, <2>1, <2>2, <2>3
<1>2. CASE InDoubt(g) /\ (StartCommand \/ Crash \/ UNCHANGED vars)
  <2>0. faults \in Nat /\ faults > 0
    BY <1>2, ReplacementAssumption DEF TypeOK, ReplacementAssumption, InDoubt
  <2>1. CASE StartCommand
    BY <1>2, <2>1 DEF StartCommand, Goto, Step, NoFault, InDoubt, RollingBack, Interrupted
  <2>2. CASE Crash
    BY <1>2, <2>0, <2>2 DEF Crash, Fault, InDoubt, Interrupted
  <2>3. CASE UNCHANGED vars
    BY <1>2, <2>3 DEF vars, disk, memory, InDoubt, RollingBack, Interrupted, Local, Older,
                Undone, InPlace
  <2>4. QED
    BY <1>2, <2>1, <2>2, <2>3
<1>3. CASE Run
  BY <1>3, RecoverStep, PublishStep, UndoStep, DoubtRecover, DoubtPublish, DoubtUndo DEF Run
<1>4. QED
  BY <1>1, <1>2, <1>3 DEF Next

\* The invariant holds initially, with the generation that is in place.
LEMMA StandsForInit == Init => \E g \in Generations : g \in {0, None} /\ StandsFor(g)
<1> SUFFICES ASSUME Init PROVE \E g \in Generations : g \in {0, None} /\ StandsFor(g)
  OBVIOUS
<1>1. PICK g \in {0, None} : image = g /\ metadata = [f \in Files |-> g]
  BY DEF Init
<1>2. g \in Generations
  BY ReplacementAssumption DEF ReplacementAssumption, Generations
<1>3. Settled(g)
  BY <1>1 DEF Init, Settled, InPlace
<1>4. AtStep(g)
  BY DEF Init, AtStep
<1>5. (g # None) => (g \in 0..built)
  BY <1>1 DEF Init
<1>6. QED
  BY <1>1, <1>2, <1>3, <1>4, <1>5 DEF StandsFor, Init

\* The inductive invariant of the replacement protocol always holds.
THEOREM InvariantHolds == Spec => []InductiveInvariant
<1>1. Init => InductiveInvariant
  <2>1. Init => Candidate
    BY DEF Init, Candidate
  <2>2. QED
    BY <2>1, TypeInit, StandsForInit DEF InductiveInvariant
<1>2. InductiveInvariant /\ [Next]_vars => InductiveInvariant'
  <2> SUFFICES ASSUME InductiveInvariant, [Next]_vars PROVE InductiveInvariant'
    OBVIOUS
  <2>1. TypeOK' /\ Candidate'
    BY TypeStep, CandidateStep DEF InductiveInvariant
  <2>2. PICK g \in Generations : StandsFor(g) \/ InDoubt(g)
    BY DEF InductiveInvariant
  <2>3. StandsFor(g)' \/ Replaced(g) \/ InDoubt(g)'
    BY <2>2, GenerationStep DEF InductiveInvariant
  <2>4. \E h \in Generations : StandsFor(h)' \/ InDoubt(h)'
    BY <2>2, <2>3 DEF Replaced, Generations
  <2>5. QED
    BY <2>1, <2>4 DEF InductiveInvariant
<1>3. QED
  BY <1>1, <1>2, PTL DEF Spec

-----------------------------------------------------------------------------
(* What the invariant gives                                                *)

\* A disk that stands for generation g is, to recovery, the whole project of g.
LEMMA StoredWhole ==
  \A g \in Generations : TypeOK /\ StandsFor(g) => StoredProject = Atomic!Whole(g)
<1> SUFFICES ASSUME TypeOK, NEW g \in Generations, StandsFor(g)
             PROVE  StoredProject = Atomic!Whole(g)
  OBVIOUS
<1>1. CASE Settled(g)
  <2>1. metadata = [f \in Files |-> g]
    BY <1>1 DEF Settled, InPlace, TypeOK
  <2>2. QED
    BY <1>1, <2>1 DEF Settled, InPlace, StoredProject, Atomic!Whole
<1>2. CASE Journaled(g)
  <2>1. journal \in Journals
    BY <1>2 DEF Journaled, TypeOK
  <2>2. journal.snapshots = [f \in Files |-> g]
    BY <1>2, <2>1 DEF Journaled, Journals
  <2>3. (IF ~journal.hadImage THEN None ELSE IF backup = None THEN image ELSE backup) = g
    BY <1>2 DEF Journaled
  <2>4. QED
    BY <1>2, <2>2, <2>3 DEF Journaled, StoredProject, Atomic!Whole
<1>3. CASE Committed(g)
  <2>1. metadata = [f \in Files |-> g]
    BY <1>3 DEF Committed, InPlace, TypeOK
  <2>2. QED
    BY <1>3, <2>1 DEF Committed, InPlace, StoredProject, Atomic!Whole
<1>4. QED
  BY <1>1, <1>2, <1>3 DEF StandsFor

\* In doubt or not, what is kept is the whole project of one generation.
LEMMA KeptWhole ==
  \A g \in Generations :
    TypeOK /\ (StandsFor(g) \/ InDoubt(g)) => KeptProject = Atomic!Whole(g)
<1> SUFFICES ASSUME TypeOK, NEW g \in Generations, StandsFor(g) \/ InDoubt(g)
             PROVE  KeptProject = Atomic!Whole(g)
  OBVIOUS
<1>1. CASE StandsFor(g)
  BY <1>1, StoredWhole DEF KeptProject, StandsFor
<1>2. CASE InDoubt(g)
  <2>1. doubt = {g} /\ (CHOOSE h \in doubt : TRUE) = g
    BY <1>2 DEF InDoubt
  <2>2. QED
    BY <2>1 DEF KeptProject, Atomic!Whole
<1>3. QED
  BY <1>1, <1>2

\* The same, of the state after a step.
LEMMA KeptWholeNext ==
  (\A g \in Generations :
    TypeOK /\ (StandsFor(g) \/ InDoubt(g)) => KeptProject = Atomic!Whole(g))'
BY KeptWhole, PTL

\* Between commands, whatever faults happened, recovery leads to one complete
\* generation, or a commit that failed late was not rolled back to its end.
THEOREM ProjectAlwaysWhole == Spec => []ProjectIsWhole
<1>1. InductiveInvariant => ProjectIsWhole
  <2> SUFFICES ASSUME InductiveInvariant, pc = "idle"
               PROVE  \/ \E g \in Generations : StoredProject = Atomic!Whole(g)
                      \/ doubt # {} /\ faults > 1
    BY DEF ProjectIsWhole
  <2>1. PICK g \in Generations : StandsFor(g) \/ InDoubt(g)
    BY DEF InductiveInvariant
  <2>2. QED
    BY <2>1, StoredWhole DEF InductiveInvariant, InDoubt, RollingBack, Interrupted
<1>2. QED
  BY <1>1, InvariantHolds, PTL

\* A command begins its own work with no journal and no backup, and on one whole
\* generation unless the rollback of a commit that failed late was interrupted.
THEOREM RecoveryAlwaysClean == Spec => []RecoveredClean
<1>1. InductiveInvariant => RecoveredClean
  <2> SUFFICES ASSUME InductiveInvariant, pc = "begin"
               PROVE  /\ journal = NoJournal
                      /\ backup = None
                      /\ \/ \E g \in Generations :
                              image = g /\ metadata = [f \in Files |-> g]
                         \/ doubt # {} /\ faults > 1
    BY DEF RecoveredClean
  <2>1. PICK g \in Generations : StandsFor(g) \/ InDoubt(g)
    BY DEF InductiveInvariant
  <2>2. CASE StandsFor(g)
    <3>1. Settled(g) /\ backup = None
      BY <2>2 DEF StandsFor, AtStep
    <3>2. metadata = [f \in Files |-> g]
      BY <3>1 DEF Settled, InPlace, InductiveInvariant, TypeOK
    <3>3. QED
      BY <3>1, <3>2 DEF Settled, InPlace
  <2>3. CASE InDoubt(g)
    BY <2>3 DEF InDoubt, RollingBack, Interrupted
  <2>4. QED
    BY <2>1, <2>2, <2>3
<1>2. QED
  BY <1>1, InvariantHolds, PTL

\* The protocol implements AtomicReplacement: with every crash and every failed
\* operation, the project changes whole or not at all, where the kept generation
\* stands for the project while the rollback of a commit that failed late is open.
THEOREM ImplementsAtomicReplacement == Spec => ReplacementIsAtomic
<1>1. Init => Atomic!Init
  <2> SUFFICES ASSUME Init PROVE Atomic!Init
    OBVIOUS
  <2>1. PICK g \in Generations : g \in {0, None} /\ StandsFor(g)
    BY StandsForInit
  <2>2. KeptProject = Atomic!Whole(g)
    BY <2>1, KeptWhole, TypeInit
  <2>3. QED
    BY <2>1, <2>2 DEF Atomic!Init
<1>2. InductiveInvariant /\ [Next]_vars /\ InductiveInvariant'
        => [Atomic!Replace]_KeptProject
  <2> SUFFICES ASSUME InductiveInvariant, [Next]_vars, InductiveInvariant'
               PROVE  [Atomic!Replace]_KeptProject
    OBVIOUS
  <2>1. PICK g \in Generations : StandsFor(g) \/ InDoubt(g)
    BY DEF InductiveInvariant
  <2>2. KeptProject = Atomic!Whole(g)
    BY <2>1, KeptWhole DEF InductiveInvariant
  <2>3. CASE StandsFor(g)' \/ InDoubt(g)'
    <3>1. KeptProject' = Atomic!Whole(g)
      BY <2>3, KeptWholeNext DEF InductiveInvariant
    <3>2. QED
      BY <2>2, <3>1
  <2>4. CASE Replaced(g)
    <3>1. PICK h \in 1..MaxReplacements : (g # None => g < h) /\ StandsFor(h)'
      BY <2>4 DEF Replaced
    <3>2. h \in Generations
      BY <3>1 DEF Generations
    <3>3. KeptProject' = Atomic!Whole(h)
      BY <3>1, <3>2, KeptWholeNext DEF InductiveInvariant
    <3>4. KeptProject.image = g
      BY <2>2 DEF Atomic!Whole
    <3>5. QED
      BY <3>1, <3>3, <3>4 DEF Atomic!Replace
  <2>5. QED
    BY <2>1, <2>3, <2>4, GenerationStep DEF InductiveInvariant
<1>3. QED
  BY <1>1, <1>2, InvariantHolds, PTL DEF Spec, Atomic!Spec, ReplacementIsAtomic

-----------------------------------------------------------------------------
(* One fault                                                               *)
(*                                                                         *)
(* RecoveryNotRefused is not inductive, not even up to the first fault: it *)
(* says nothing of a command that works.  Before any fault a command never *)
(* recovers or rolls back, and the journal asks for a backup only once the *)
(* backup is there.  After the first fault the undoing that it led to runs *)
(* to its end, for only a second fault could stop it between the use of    *)
(* the backup and the removal of the journal.                              *)

\* Recovery finds the backup, or does not ask for it.
Recoverable ==
  \/ journal = NoJournal
  \/ ~journal.hadImage
  \/ journal.phase \in {"prepared", "metadata-published"}
  \/ backup # None

\* The steps that undo what was done, in a recovery or in a failing command.
UndoingSteps ==
  {"recover-committed", "recover-image", "recover-files", "recover-backup",
   "recover-clear", "rollback-image", "rollback-files", "rollback-clear",
   "abandon-backup", "abandon-clear"}

\* Without a fault nothing is undone, and no command leaves or finds a journal.
Undisturbed ==
  /\ pc \notin UndoingSteps
  /\ pc \in {"idle", "recover", "begin", "journal-prepared"} => journal = NoJournal

\* What the running command has made sure of before its journal relies on it.
Prepared ==
  /\ pc = "journal-prepared" => (hadImage <=> image # None)
  /\ pc = "link-backup" => image # None
  /\ pc = "journal-backup" => backup # None
  /\ pc \in {"move-candidate", "journal-image", "update", "journal-metadata"} =>
       (hadImage => backup # None)
  /\ pc \in {"drop-backup", "clear-committed"} =>
       journal = NoJournal \/ journal.phase = "metadata-published"

\* Up to the first fault a command that may still end with its journal in place can
\* be recovered from, and no undoing has failed.
OneFaultInv ==
  /\ faults = 0 => Undisturbed
  /\ faults <= 1 =>
       /\ Prepared
       /\ pc \notin UndoingSteps \ {"recover-image"} => Recoverable
       /\ pc \in {"recover-files", "rollback-files"} => failure = "none"

\* No fault has happened in an initial state, and no journal exists.
LEMMA OneFaultInit == Init => OneFaultInv
BY DEF Init, OneFaultInv, Undisturbed, Prepared, Recoverable, UndoingSteps

\* Recovery up to a single fault ends with the journal removed.
LEMMA OneFaultRecover == TypeOK /\ OneFaultInv /\ Recover => OneFaultInv'
<1> SUFFICES ASSUME TypeOK, OneFaultInv, Recover PROVE OneFaultInv'
  OBVIOUS
<1>0. faults \in Nat
  BY ReplacementAssumption DEF TypeOK, ReplacementAssumption
<1> USE <1>0 DEF OneFaultInv, Undisturbed, Prepared, Recoverable, UndoingSteps, Goto,
        Step, NoFault, Fault, disk, memory
<1>1. CASE RecoverOrphan \/ RecoverNothing
  BY <1>1 DEF RecoverOrphan, RecoverNothing
<1>2. CASE ReadJournal \/ RecoverFails
  BY <1>2 DEF ReadJournal, RecoverFails, FailAt
<1>3. CASE RecoverCommitted \/ RecoverBackup
  BY <1>3 DEF RecoverCommitted, RecoverBackup, RemoveBackup
<1>4. CASE RecoverImage \/ RefuseRecovery
  BY <1>4 DEF RecoverImage, RefuseRecovery
<1>5. CASE RecoverFile \/ FilesRecovered
  BY <1>5 DEF RecoverFile, RestoreFile, FilesRecovered
<1>6. CASE RecoverClear
  BY <1>6 DEF RecoverClear, ClearJournal
<1>7. QED
  BY <1>1, <1>2, <1>3, <1>4, <1>5, <1>6 DEF Recover

\* A publication asks for the backup only once the backup is there.
LEMMA OneFaultPublish == TypeOK /\ OneFaultInv /\ Publish => OneFaultInv'
<1> SUFFICES ASSUME TypeOK, OneFaultInv, Publish PROVE OneFaultInv'
  OBVIOUS
<1>0. faults \in Nat
  BY ReplacementAssumption DEF TypeOK, ReplacementAssumption
<1>w. \A phase \in Phases : /\ Written(phase) # NoJournal
                            /\ Written(phase).phase = phase
                            /\ Written(phase).hadImage = hadImage
  BY WrittenJournal
<1> USE <1>0 DEF OneFaultInv, Undisturbed, Prepared, Recoverable, UndoingSteps, Goto,
        Step, NoFault, Fault, disk, memory
<1>1. CASE NoReplacement \/ Begin
  BY <1>1 DEF NoReplacement, Begin
<1>2. CASE JournalPrepared
  BY <1>2, <1>w DEF JournalPrepared, WriteJournal, Phases
<1>3. CASE LinkBackup
  BY <1>3 DEF LinkBackup
<1>4. CASE JournalBackup
  BY <1>4, <1>w DEF JournalBackup, WriteJournal, Phases
<1>5. CASE MoveCandidate
  BY <1>5 DEF MoveCandidate
<1>6. CASE JournalImage
  BY <1>6, <1>w DEF JournalImage, WriteJournal, Phases
<1>7. CASE UpdateFile \/ TruncateFile \/ FilesUpdated
  BY <1>7 DEF UpdateFile, TruncateFile, FilesUpdated
<1>8. CASE JournalMetadata
  BY <1>8, <1>w DEF JournalMetadata, WriteJournal, Phases
<1>9. CASE DropBackup \/ ClearCommitted
  BY <1>9 DEF DropBackup, ClearCommitted, RemoveBackup, ClearJournal
<1>10. QED
  BY <1>1, <1>2, <1>3, <1>4, <1>5, <1>6, <1>7, <1>8, <1>9 DEF Publish

\* What is undone after the first fault is undone to its end, or a second one strikes.
LEMMA OneFaultUndo == TypeOK /\ OneFaultInv /\ Undo => OneFaultInv'
<1> SUFFICES ASSUME TypeOK, OneFaultInv, Undo PROVE OneFaultInv'
  OBVIOUS
<1>0. faults \in Nat
  BY ReplacementAssumption DEF TypeOK, ReplacementAssumption
<1> USE <1>0 DEF OneFaultInv, Undisturbed, Prepared, Recoverable, UndoingSteps, Goto,
        Step, NoFault, Fault, disk, memory
<1>1. CASE RollbackImage
  BY <1>1 DEF RollbackImage
<1>2. CASE RollbackFile \/ FilesRolledBack
  BY <1>2 DEF RollbackFile, RestoreFile, FilesRolledBack
<1>3. CASE RollbackClear \/ AbandonClear
  BY <1>3 DEF RollbackClear, AbandonClear, ClearJournal
<1>4. CASE AbandonBackup
  BY <1>4 DEF AbandonBackup, RemoveBackup
<1>5. QED
  BY <1>1, <1>2, <1>3, <1>4 DEF Undo

\* A single crash or failed operation, wherever it strikes, leaves a project that
\* recovery does not refuse, whatever write of the journal fails late.
THEOREM OneFaultAlwaysRecoverable == Spec => []OneFaultIsRecoverable
<1>1. TypeOK /\ OneFaultInv /\ [Next]_vars => OneFaultInv'
  <2> SUFFICES ASSUME TypeOK, OneFaultInv, [Next]_vars PROVE OneFaultInv'
    OBVIOUS
  <2>0. faults \in Nat
    BY ReplacementAssumption DEF TypeOK, ReplacementAssumption
  <2> USE <2>0 DEF OneFaultInv, Undisturbed, Prepared, Recoverable, UndoingSteps, disk, memory
  <2>1. CASE StartCommand
    BY <2>1 DEF StartCommand, Goto, Step, NoFault
  <2>2. CASE Crash
    BY <2>2 DEF Crash, Fault
  <2>3. CASE UNCHANGED vars
    BY <2>3 DEF vars
  <2>4. QED
    BY <2>1, <2>2, <2>3, OneFaultRecover, OneFaultPublish, OneFaultUndo DEF Next, Run
<1>2. OneFaultInv => OneFaultIsRecoverable
  BY DEF OneFaultInv, Recoverable, UndoingSteps, OneFaultIsRecoverable, RecoveryNotRefused
<1>3. QED
  BY <1>1, <1>2, OneFaultInit, TypeCorrect, PTL DEF Spec
=============================================================================
