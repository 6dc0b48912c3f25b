-------------------------- MODULE ImageReplacement --------------------------
(***************************************************************************)
(* The journaled replacement of a project image and its metadata           *)
(* (publishProjectReplacement, its rollback, and                           *)
(* recoverProjectReplacementTransaction in vm_project_rebuild.go), as the  *)
(* commands that hold the exclusive project gate run it: recover first,    *)
(* then build a candidate and publish it.                                  *)
(*                                                                         *)
(* Every step is one file operation.  A fault is a crash of the process    *)
(* between two operations, or an operation that reports an error; one      *)
(* budget, MaxFaults, bounds both.  A journal is written by rename and     *)
(* then a directory sync, so its write can report an error although the    *)
(* new journal is in place.  Operations of a crashed process that were     *)
(* done stay done (loss of power with unsynced directories is not          *)
(* modelled).                                                              *)
(*                                                                         *)
(* When the write that commits fails in that way, the command rolls back a *)
(* transaction whose journal says that it is committed.  doubt is a        *)
(* history of that case: no action reads it.                               *)
(***************************************************************************)
EXTENDS Naturals

CONSTANTS Files,            \* the metadata files a replacement rewrites
          TruncatedFiles,   \* those rewritten in place, not by rename
          MaxReplacements,  \* bound on candidates built
          MaxFaults,        \* bound on crashes and failed operations
          None, Torn, NoJournal

Phases == {"prepared", "backup-ready", "image-published", "metadata-published"}

Generations == 0..MaxReplacements \cup {None}
Contents == Generations \cup {Torn}
Journals == [phase : Phases, hadImage : BOOLEAN, snapshots : [Files -> Contents]]

ASSUME ReplacementAssumption ==
  /\ TruncatedFiles \subseteq Files
  /\ MaxReplacements \in Nat
  /\ MaxFaults \in Nat
  /\ None \notin Nat
  /\ Torn \notin Nat
  /\ Torn # None
  /\ NoJournal \notin Journals

VARIABLES
  image,      \* the generation of the authoritative image, or None
  backup,     \* the hard link .project.qcow2.transaction-old
  metadata,   \* the content of every metadata file
  journal,    \* .project-replacement-transaction.json
  pc,         \* where the running command is; "idle" between commands
  hadImage,   \* publishProjectReplacement's local hadImage
  snapshots,  \* and its local snapshots
  todo,       \* the files the current loop has yet to visit
  failure,    \* an operation of the current rollback or restore failed
  built,      \* candidates built so far
  faults,     \* crashes and failed operations so far
  doubt       \* history: {g} from the late failure of a commit, with g the
              \* generation it goes back to, until g is in place again and no
              \* journal is, or until a later replacement commits; {} otherwise

disk == <<image, backup, metadata, journal>>
memory == <<hadImage, snapshots, todo, failure>>
vars == <<disk, pc, memory, built, faults, doubt>>

Steps == {"idle", "recover", "recover-committed", "recover-image",
          "recover-files", "recover-backup", "recover-clear", "begin",
          "journal-prepared", "link-backup", "journal-backup", "move-candidate",
          "journal-image", "update", "journal-metadata", "drop-backup",
          "clear-committed", "rollback-image", "rollback-files",
          "rollback-clear", "abandon-backup", "abandon-clear"}

TypeOK ==
  /\ image \in Generations
  /\ backup \in Generations
  /\ metadata \in [Files -> Contents]
  /\ journal \in Journals \cup {NoJournal}
  /\ pc \in Steps
  /\ hadImage \in BOOLEAN
  /\ snapshots \in [Files -> Contents]
  /\ todo \subseteq Files
  /\ failure \in {"none", "some"}
  /\ built \in 0..MaxReplacements
  /\ faults \in 0..MaxFaults
  /\ doubt = {} \/ \E g \in Generations : doubt = {g}

-----------------------------------------------------------------------------

\* A project whose image exists, or one whose image is missing.
Init == \E g \in {0, None} :
  /\ image = g
  /\ backup = None
  /\ metadata = [f \in Files |-> g]
  /\ journal = NoJournal
  /\ pc = "idle"
  /\ hadImage = FALSE
  /\ snapshots = [f \in Files |-> g]
  /\ todo = {}
  /\ failure = "none"
  /\ built = 0
  /\ faults = 0
  /\ doubt = {}

Step(step) == pc' = step /\ UNCHANGED <<memory, built>>
Goto(step) == Step(step) /\ UNCHANGED doubt
Fault == faults < MaxFaults /\ faults' = faults + 1
NoFault == UNCHANGED faults

\* writeProjectReplacementJournal: the write succeeds, fails before the rename,
\* or fails after it.
Written(phase) == [phase |-> phase, hadImage |-> hadImage, snapshots |-> snapshots]
WriteJournal(phase, ok, error) ==
  /\ \/ journal' = Written(phase) /\ Step(ok) /\ NoFault
     \/ journal' \in {journal, Written(phase)} /\ Step(error) /\ Fault
  /\ UNCHANGED <<image, backup, metadata>>

\* Generation g is in place, and no journal is.
InPlace(g) == image = g /\ \A f \in Files : metadata[f] = g
Settled(g) == journal = NoJournal /\ InPlace(g) /\ backup \in {None, g}

\* clearProjectReplacementJournal, with the same three outcomes.
ClearJournal(ok, error) ==
  /\ \/ journal' = NoJournal /\ Step(ok) /\ NoFault
     \/ journal' \in {journal, NoJournal} /\ Step(error) /\ Fault
  /\ UNCHANGED <<image, backup, metadata>>
  /\ doubt' = {g \in doubt : ~Settled(g)'}

\* removeFileIfExists on the backup.
RemoveBackup(ok, error) ==
  /\ \/ backup' = None /\ Goto(ok) /\ NoFault
     \/ UNCHANGED backup /\ Goto(error) /\ Fault
  /\ UNCHANGED <<image, metadata, journal>>

\* rename(backup, image).  Two hard links to one file: rename does nothing.
RenameBackupToImage ==
  /\ image' = backup
  /\ backup' = IF image = backup THEN backup ELSE None

\* An operation reports an error that ends the command.
FailAt(step) == pc = step /\ Fault /\ Goto("idle") /\ UNCHANGED disk

-----------------------------------------------------------------------------
(* recoverProjectReplacementTransaction                                    *)

StartCommand == /\ pc = "idle" /\ Goto("recover") /\ NoFault /\ UNCHANGED disk

\* recoverOrphanedProjectReplacementBackup: a backup that no journal mentions is
\* redundant when the image exists and is the image otherwise.
RecoverOrphan ==
  /\ pc = "recover" /\ journal = NoJournal /\ backup # None
  /\ image' = IF image = None THEN backup ELSE image
  /\ backup' = None
  /\ \/ Goto("begin") /\ NoFault
     \/ Goto("idle") /\ Fault
  /\ UNCHANGED <<metadata, journal>>

RecoverNothing ==
  /\ pc = "recover" /\ journal = NoJournal /\ backup = None
  /\ Goto("begin") /\ NoFault /\ UNCHANGED disk

\* A mutant: an image that was published counts as committed.
ReadJournalCommitsEarly ==
  /\ pc = "recover" /\ journal # NoJournal
  /\ Goto(IF journal.phase \in {"image-published", "metadata-published"}
          THEN "recover-committed" ELSE "recover-image")
  /\ NoFault /\ UNCHANGED disk

ReadJournal ==
  /\ pc = "recover" /\ journal # NoJournal
  /\ Goto(IF journal.phase = "metadata-published" THEN "recover-committed"
          ELSE "recover-image")
  /\ NoFault /\ UNCHANGED disk

RecoverCommitted ==
  /\ pc = "recover-committed"
  /\ RemoveBackup("recover-clear", "idle")

\* The image before the transaction: the backup when there is one, the untouched
\* image when the journal is only prepared, no image when there was none.
RecoverImage ==
  /\ pc = "recover-image"
  /\ \/ journal.hadImage /\ backup # None /\ RenameBackupToImage
     \/ /\ journal.hadImage /\ backup = None /\ journal.phase = "prepared"
        /\ UNCHANGED <<image, backup>>
     \/ ~journal.hadImage /\ image' = None /\ UNCHANGED backup
  /\ pc' = "recover-files" /\ todo' = Files /\ failure' = "none"
  /\ NoFault /\ UNCHANGED <<metadata, journal, hadImage, snapshots, built, doubt>>

\* A mutant: a prepared transaction is refused as well.
RefusePreparedToo ==
  /\ pc = "recover-image"
  /\ journal.hadImage /\ backup = None
  /\ Goto("idle") /\ NoFault /\ UNCHANGED disk

\* "cannot recover project transaction: previous image backup is missing"
RefuseRecovery ==
  /\ pc = "recover-image"
  /\ journal.hadImage /\ backup = None /\ journal.phase # "prepared"
  /\ Goto("idle") /\ NoFault /\ UNCHANGED disk

\* restoreProjectFiles goes on after an error and reports it at the end.  A write
\* may report an error after its rename.
RestoreFile(step, from) ==
  /\ pc = step
  /\ \E f \in todo :
       /\ todo' = todo \ {f}
       /\ \/ /\ metadata' = [metadata EXCEPT ![f] = from[f]]
             /\ NoFault /\ UNCHANGED failure
          \/ /\ metadata' \in {metadata, [metadata EXCEPT ![f] = from[f]]}
             /\ Fault /\ failure' = "some"
  /\ UNCHANGED <<image, backup, journal, pc, hadImage, snapshots, built, doubt>>

RecoverFile == journal # NoJournal /\ RestoreFile("recover-files", journal.snapshots)

\* A mutant: the errors of the restore are lost.
FilesRecoveredWithErrors ==
  /\ pc = "recover-files" /\ todo = {}
  /\ pc' = "recover-backup" /\ failure' = "none"
  /\ NoFault /\ UNCHANGED <<disk, hadImage, snapshots, todo, built, doubt>>

FilesRecovered ==
  /\ pc = "recover-files" /\ todo = {}
  /\ pc' = IF failure = "some" THEN "idle" ELSE "recover-backup"
  /\ failure' = "none"
  /\ NoFault /\ UNCHANGED <<disk, hadImage, snapshots, todo, built, doubt>>

RecoverBackup == pc = "recover-backup" /\ RemoveBackup("recover-clear", "idle")
RecoverClear == pc = "recover-clear" /\ ClearJournal("begin", "idle")

\* Reading the journal or renaming or removing a file fails.
RecoverFails == \E step \in {"recover", "recover-image"} : FailAt(step)

-----------------------------------------------------------------------------
(* publishProjectReplacement                                               *)

\* The command needs no replacement, or its candidate could not be built.
NoReplacement == pc = "begin" /\ Goto("idle") /\ NoFault /\ UNCHANGED disk

\* Recovery has removed any backup: finding one here ends the command.
Begin ==
  /\ pc = "begin" /\ backup = None /\ built < MaxReplacements
  /\ built' = built + 1
  /\ snapshots' = metadata
  /\ hadImage' = (image # None)
  /\ todo' = Files
  /\ pc' = "journal-prepared"
  /\ NoFault /\ UNCHANGED <<disk, failure, doubt>>

\* A mutant: the journal names the backup before it is made.
JournalBackupEarly ==
  /\ pc = "journal-prepared"
  /\ WriteJournal("backup-ready", IF hadImage THEN "link-backup" ELSE "move-candidate",
                  "idle")
  /\ UNCHANGED doubt

JournalPrepared ==
  /\ pc = "journal-prepared"
  /\ WriteJournal("prepared", IF hadImage THEN "link-backup" ELSE "move-candidate",
                  "idle")
  /\ UNCHANGED doubt

LinkBackup ==
  /\ pc = "link-backup"
  /\ \/ backup' = image /\ Goto("journal-backup") /\ NoFault
     \/ UNCHANGED backup /\ Goto("abandon-clear") /\ Fault
  /\ UNCHANGED <<image, metadata, journal>>

JournalBackup ==
  /\ pc = "journal-backup"
  /\ WriteJournal("backup-ready", "move-candidate", "abandon-backup")
  /\ UNCHANGED doubt

\* A mutant: the candidate published is not the one that was built.
MoveOtherCandidate ==
  /\ pc = "move-candidate"
  /\ \/ image' = built + 1 /\ Goto("journal-image") /\ NoFault
     \/ UNCHANGED image /\ Fault /\ Goto("abandon-backup")
  /\ UNCHANGED <<backup, metadata, journal>>

\* rename(candidate, image)
MoveCandidate ==
  /\ pc = "move-candidate"
  /\ \/ image' = built /\ Goto("journal-image") /\ NoFault
     \/ /\ UNCHANGED image /\ Fault
        /\ Goto(IF hadImage THEN "abandon-backup" ELSE "abandon-clear")
  /\ UNCHANGED <<backup, metadata, journal>>

JournalImage ==
  /\ pc = "journal-image"
  /\ WriteJournal("image-published", "update", "rollback-image")
  /\ UNCHANGED doubt

\* writeBaseImageVersion opens its file with O_TRUNC and then writes it.
TruncateFile ==
  /\ pc = "update"
  /\ \E f \in todo \cap TruncatedFiles :
       metadata[f] # Torn /\ metadata' = [metadata EXCEPT ![f] = Torn]
  /\ Goto("update") /\ NoFault /\ UNCHANGED <<image, backup, journal>>

\* updateMetadata writes one file after the other and returns its first error; a
\* write may report an error after its rename.
UpdateFile ==
  /\ pc = "update"
  /\ \E f \in todo :
       \/ /\ f \in TruncatedFiles => metadata[f] = Torn
          /\ metadata' = [metadata EXCEPT ![f] = built]
          /\ todo' = todo \ {f} /\ UNCHANGED pc /\ NoFault
       \/ /\ metadata' \in {metadata, [metadata EXCEPT ![f] = built]}
          /\ pc' = "rollback-image" /\ UNCHANGED todo /\ Fault
  /\ UNCHANGED <<image, backup, journal, hadImage, snapshots, failure, built, doubt>>

\* A mutant: the transaction commits while metadata files are still to be written.
CommitBeforeFiles ==
  /\ pc = "update"
  /\ Goto("journal-metadata") /\ NoFault /\ UNCHANGED disk

FilesUpdated ==
  /\ pc = "update" /\ todo = {}
  /\ Goto("journal-metadata") /\ NoFault /\ UNCHANGED disk

JournalMetadata ==
  /\ pc = "journal-metadata"
  /\ WriteJournal("metadata-published",
                  IF hadImage THEN "drop-backup" ELSE "clear-committed",
                  "rollback-image")
  /\ doubt' = CASE journal' = journal -> doubt
                [] pc' # "rollback-image" -> {}
                [] OTHER -> IF doubt = {} THEN {backup} ELSE doubt

DropBackup == pc = "drop-backup" /\ RemoveBackup("clear-committed", "idle")
ClearCommitted == pc = "clear-committed" /\ ClearJournal("idle", "idle")

-----------------------------------------------------------------------------
(* The rollback closure and the early error paths                          *)

\* A mutant: the rollback leaves the new image in place.
RollbackKeepsImage ==
  /\ pc = "rollback-image"
  /\ failure' = "none" /\ NoFault
  /\ pc' = "rollback-files" /\ todo' = Files
  /\ UNCHANGED <<disk, hadImage, snapshots, built, doubt>>

RollbackImage ==
  /\ pc = "rollback-image"
  /\ \/ /\ IF hadImage THEN RenameBackupToImage
           ELSE image' = None /\ UNCHANGED backup
        /\ failure' = "none" /\ NoFault
     \/ UNCHANGED <<image, backup>> /\ failure' = "some" /\ Fault
  /\ pc' = "rollback-files" /\ todo' = Files
  /\ UNCHANGED <<metadata, journal, hadImage, snapshots, built, doubt>>

RollbackFile == RestoreFile("rollback-files", snapshots)

FilesRolledBack ==
  /\ pc = "rollback-files" /\ todo = {}
  /\ pc' = IF failure = "some" THEN "idle" ELSE "rollback-clear"
  /\ failure' = "none"
  /\ NoFault /\ UNCHANGED <<disk, hadImage, snapshots, todo, built, doubt>>

RollbackClear == pc = "rollback-clear" /\ ClearJournal("idle", "idle")

\* Errors of the early exits are ignored: the next step is taken all the same.
AbandonBackup == pc = "abandon-backup" /\ RemoveBackup("abandon-clear", "abandon-clear")
AbandonClear == pc = "abandon-clear" /\ ClearJournal("idle", "idle")

-----------------------------------------------------------------------------

\* The process is killed.  The disk stays as it is.
Crash ==
  /\ pc # "idle" /\ Fault
  /\ pc' = "idle" /\ todo' = {} /\ failure' = "none"
  /\ UNCHANGED <<disk, hadImage, snapshots, built, doubt>>

Recover == \/ RecoverOrphan \/ RecoverNothing \/ ReadJournal \/ RecoverCommitted
           \/ RecoverImage \/ RefuseRecovery \/ RecoverFile \/ FilesRecovered
           \/ RecoverBackup \/ RecoverClear \/ RecoverFails

Publish == \/ NoReplacement \/ Begin \/ JournalPrepared \/ LinkBackup
           \/ JournalBackup \/ MoveCandidate \/ JournalImage \/ UpdateFile
           \/ TruncateFile \/ FilesUpdated \/ JournalMetadata \/ DropBackup
           \/ ClearCommitted

Undo == \/ RollbackImage \/ RollbackFile \/ FilesRolledBack \/ RollbackClear
        \/ AbandonBackup \/ AbandonClear

Run == Recover \/ Publish \/ Undo
Next == StartCommand \/ Run \/ Crash

Spec == Init /\ [][Next]_vars

\* A command that was started and is not killed keeps running.
FairSpec == Spec /\ WF_vars(Run)

-----------------------------------------------------------------------------
(* Properties                                                              *)

\* What recovery would make of the disk: the backup (or the untouched image) and
\* the snapshots until the journal says "metadata-published", the image and the
\* metadata in place from then on.
StoredProject ==
  IF journal = NoJournal
  THEN [image |-> IF image = None THEN backup ELSE image, metadata |-> metadata]
  ELSE IF journal.phase = "metadata-published"
  THEN [image |-> image, metadata |-> metadata]
  ELSE [image |-> IF ~journal.hadImage THEN None
                  ELSE IF backup = None THEN image ELSE backup,
        metadata |-> journal.snapshots]

\* The same, but while a commit is in doubt the generation it goes back to.
KeptProject ==
  IF doubt = {} THEN StoredProject
  ELSE LET g == CHOOSE h \in doubt : TRUE
       IN  [image |-> g, metadata |-> [f \in Files |-> g]]

Atomic == INSTANCE AtomicReplacement WITH project <- KeptProject

\* Whatever was interrupted or failed, between commands the project that recovery
\* leads to is one complete generation: never the image of one replacement with
\* metadata of another, never a half-written file, never a lost image.  One case is
\* excepted, in which the code does mix them: a commit that failed after the rename
\* of its journal, and at least one more fault in the rollback of it.
ProjectIsWhole ==
  pc = "idle" => \/ \E g \in Generations : StoredProject = Atomic!Whole(g)
                 \/ doubt # {} /\ faults > 1

\* Replacement is atomic: seen through recovery, the only step is the one that
\* swaps the whole project for a newer generation (the write of the
\* "metadata-published" journal), and it is never undone.  A commit that fails late
\* and is rolled back does not show at all.  When that rollback is interrupted the
\* statement is about the generation kept before, until a replacement commits.
ReplacementIsAtomic == Atomic!Spec

\* The contract of recovery with publishProjectReplacement (which reports "backup
\* still exists after recovery" otherwise): a command starts its own work with no
\* journal, no backup and, unless an interrupted rollback left a commit in doubt, an
\* image and metadata of one generation in place.
RecoveredClean ==
  pc = "begin" =>
    /\ journal = NoJournal
    /\ backup = None
    /\ \/ \E g \in Generations : image = g /\ metadata = [f \in Files |-> g]
       \/ doubt # {} /\ faults > 1

\* A project left by interrupted or failed commands can be recovered: recovery
\* never meets a journal that needs a backup which is gone.
RecoveryNotRefused ==
  pc \in {"idle", "recover-image"} /\ journal # NoJournal =>
    \/ ~journal.hadImage
    \/ journal.phase \in {"prepared", "metadata-published"}
    \/ backup # None

\* A single crash or failed operation, wherever it strikes, leaves a project that
\* can be recovered.
OneFaultIsRecoverable == faults <= 1 => RecoveryNotRefused

\* After at most one fault a command gets past recovery unless another fault
\* strikes, so that the project is usable again.
RecoveryCompletes ==
  \A n \in {0, 1} : (pc = "recover" /\ faults = n) ~> (pc = "begin" \/ faults > n)

-----------------------------------------------------------------------------
(***************************************************************************)
(* The inductive invariant.  Unless a commit is in doubt there is, at any  *)
(* time, one generation g that the disk stands for, in one of three ways:  *)
(* g is in place and no journal exists; a journal that is not yet          *)
(* "metadata-published" has g's metadata in its snapshots and g's image in *)
(* the backup, or untouched; or the journal is "metadata-published" and g  *)
(* is in place.  What the running command has already done with that disk  *)
(* depends on where it is.  While a commit is in doubt either its rollback *)
(* runs without another fault, on the way back to g, or a second fault has *)
(* struck and only what the next commit relies on is known.                *)
(***************************************************************************)

Journaled(g) ==
  /\ journal # NoJournal
  /\ journal.phase # "metadata-published"
  /\ \A f \in Files : journal.snapshots[f] = g
  /\ journal.hadImage <=> g # None
  /\ backup \in {None, g}
  /\ (g # None /\ backup = None) => image = g

Committed(g) ==
  /\ journal # NoJournal
  /\ journal.phase = "metadata-published"
  /\ InPlace(g)

\* The command's own memory of the transaction agrees with g.
Local(g) ==
  /\ \A f \in Files : snapshots[f] = g
  /\ hadImage <=> g # None

\* g is an earlier generation than the candidate of the running command.
Older(g) == built \in 1..MaxReplacements /\ (g # None => g < built)

Undone(g) == image = g /\ \A f \in Files \ todo : metadata[f] = g

\* The candidate goes in place piece by piece, and all of it before the commit.
Candidate ==
  /\ pc \in {"journal-prepared", "link-backup", "journal-backup", "move-candidate",
             "journal-image"} => todo = Files
  /\ pc \in {"journal-image", "update", "journal-metadata"} => image = built
  /\ pc \in {"update", "journal-metadata"} =>
       \A f \in Files \ todo : metadata[f] = built
  /\ pc = "journal-metadata" => todo = {}

AtStep(g) ==
  /\ pc = "recover-committed" => Committed(g)
  /\ pc = "recover-image" => Journaled(g)
  /\ pc = "recover-files" => Journaled(g) /\ (failure = "none" => Undone(g))
  /\ pc = "recover-backup" => Journaled(g) /\ InPlace(g)
  /\ pc = "recover-clear" =>
       (Journaled(g) \/ Committed(g)) /\ InPlace(g) /\ backup = None
  /\ pc = "begin" => Settled(g) /\ backup = None
  /\ pc = "journal-prepared" => Settled(g) /\ backup = None /\ Local(g) /\ Older(g)
  /\ pc = "link-backup" =>
       Journaled(g) /\ InPlace(g) /\ Local(g) /\ Older(g) /\ g # None
  /\ pc \in {"journal-backup", "move-candidate"} =>
       Journaled(g) /\ InPlace(g) /\ Local(g) /\ Older(g) /\ backup = g
  /\ pc = "journal-backup" => g # None
  /\ pc \in {"journal-image", "update", "journal-metadata", "rollback-image"} =>
       Journaled(g) /\ Local(g) /\ Older(g) /\ backup = g
  /\ pc = "drop-backup" => Committed(g)
  /\ pc = "clear-committed" => Committed(g) /\ backup = None
  /\ pc = "rollback-files" =>
       Journaled(g) /\ Local(g) /\ (failure = "none" => Undone(g))
  /\ pc \in {"rollback-clear", "abandon-backup", "abandon-clear"} =>
       Journaled(g) /\ InPlace(g)

StandsFor(g) ==
  /\ doubt = {}
  /\ g # None => g \in 0..built
  /\ Settled(g) \/ Journaled(g) \/ Committed(g)
  /\ AtStep(g)

\* The rollback of a commit that failed late, with no other fault so far.
RollingBack(g) ==
  /\ pc \in {"rollback-image", "rollback-files", "rollback-clear"}
  /\ Local(g)
  /\ backup \in {None, g}
  /\ pc = "rollback-image" => backup = g
  /\ pc = "rollback-files" => failure = "none" /\ Undone(g)
  /\ pc = "rollback-clear" => InPlace(g)

\* What is left to rely on after that rollback was interrupted.
Interrupted(g) ==
  /\ faults > 1
  /\ pc \in {"recover-clear", "begin", "journal-prepared"} => backup = None
  /\ pc = "begin" => journal = NoJournal
  /\ pc \in {"link-backup", "journal-backup"} => hadImage
  /\ pc \in {"journal-prepared", "link-backup", "journal-backup", "move-candidate",
             "journal-image", "update", "journal-metadata"} =>
       Older(g) /\ (hadImage \/ backup = None)

InDoubt(g) ==
  /\ doubt = {g}
  /\ g # None => g \in 0..built
  /\ faults > 0
  /\ RollingBack(g) \/ Interrupted(g)

\* What the steps of the protocol preserve, and what the properties above follow
\* from: the disk and the command's progress agree on the generation in force.
InductiveInvariant ==
  TypeOK /\ Candidate /\ \E g \in Generations : StandsFor(g) \/ InDoubt(g)
=============================================================================
