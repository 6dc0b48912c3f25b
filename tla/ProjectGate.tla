---------------------------- MODULE ProjectGate ----------------------------
(***************************************************************************)
(* Concurrent zaigr commands on one project: the project gate (a           *)
(* non-blocking flock, shared or exclusive), the setup/capture workflow    *)
(* lock, the host-access lock, the checks for an active setup capture, and *)
(* what the commands do to the project under them: recovery, replacement   *)
(* of the image, and the start, acceptance and discard of a capture that   *)
(* works on an overlay (vm_project_lock.go, vm_project.go,                 *)
(* vm_setup_capture.go).                                                   *)
(*                                                                         *)
(* ImageReplacement has the replacement file by file for one command at a  *)
(* time; here a transaction and a recovery are cut where the steps of      *)
(* another process matter, and the capture record (setup-capture.json and  *)
(* its commands) is the metadata kept.  VMs are left out: a command may    *)
(* always find none running, as it does after the capture shell has ended. *)
(*                                                                         *)
(* An image is known by a number: 0 is the first image, every candidate a  *)
(* command builds and every capture's work gets the next one.              *)
(***************************************************************************)
EXTENDS Naturals

CONSTANTS Procs,        \* the processes that run commands
          Operations,   \* the commands they run, a subset of Commands
          Serial,       \* the commands of which the user runs one at a time
          MaxImages,    \* bound on the images built
          MaxCrashes,   \* bound on killed processes
          Nobody, None, NoJournal

\* "replace" is project clean and project rebuild.
Commands == {"replace", "vm start", "setup run", "host access",
             "capture start", "capture accept", "capture discard"}

\* A mutant: project clean takes the shared gate.
ReplaceShared == {"vm start"}

Exclusive == {"replace", "vm start"}
AllowCapture == {"capture start", "capture accept", "capture discard"}
Workflow == {"setup run", "capture start"}

ASSUME GateAssumption ==
  /\ Operations \subseteq Commands
  /\ Serial \subseteq Commands
  /\ MaxImages \in Nat \ {0}   \* Init may have the image of a capture
  /\ MaxCrashes \in Nat
  /\ Nobody \notin Procs
  /\ None \notin Nat \cup Commands

Images == 0..MaxImages
Phases == {"prepared", "backup-ready", "image-published", "metadata-published"}

\* The capture files a transaction would restore: the record and the commands,
\* for the transactions that list them.
Snapshots == [capture : BOOLEAN, commands : BOOLEAN] \cup {None}
Journals == [phase : Phases, snapshot : Snapshots]

ASSUME JournalAssumption == NoJournal \notin Journals

VARIABLES
  proc,        \* each process: the command op it runs; where it is, at; read,
               \* its copy of the journal it recovers or writes; mine, the
               \* image it means to publish
  gate,        \* the project gate: "none", "shared" or "exclusive"
  workflow,    \* the holder of the .setup-capture lock
  hostAccess,  \* the holder of the .host-access lock
  capture,     \* setup-capture.json exists
  commands,    \* commands were recorded in the capture shell
  overlay,     \* capture-overlay.qcow2, or None
  image,       \* project.qcow2
  backup,      \* .project.qcow2.transaction-old
  candidate,   \* the candidate file of a replacement
  journal,     \* .project-replacement-transaction.json
  built, crashes

locks == <<gate, workflow, hostAccess>>
captureFiles == <<capture, commands, overlay>>
imageFiles == <<image, backup, candidate, journal>>
bounds == <<built, crashes>>
vars == <<proc, locks, captureFiles, imageFiles, bounds>>

Steps == {"idle", "before-gate", "gate", "after-gate", "workflow",
          "after-workflow", "host-access", "recover", "recover-image",
          "recover-files", "recover-clear", "recover-overlay",
          "remove-stale-overlay", "recovered", "work", "build", "begin", "link",
          "backup-ready", "publish", "image-published", "update", "commit",
          "drop", "clear", "abandon", "abandon-clear", "published",
          "start-overlay", "start-metadata", "boot", "capturing", "accept",
          "rewrite", "compact", "clear-capture", "accepted", "discard",
          "discard-metadata"}

TypeOK ==
  /\ proc \in [Procs -> [op : Commands \cup {None}, at : Steps,
                       read : Journals \cup {NoJournal}, mine : Images]]
  /\ gate \in [Procs -> {"none", "shared", "exclusive"}]
  /\ {workflow, hostAccess} \subseteq Procs \cup {Nobody}
  /\ {capture, commands} \subseteq BOOLEAN
  /\ overlay \in Images \cup {None}
  /\ image \in Images
  /\ backup \in Images \cup {None}
  /\ candidate \in Images \cup {None}
  /\ journal \in Journals \cup {NoJournal}
  /\ built \in 0..MaxImages
  /\ crashes \in 0..MaxCrashes

-----------------------------------------------------------------------------

\* A process that runs no command.
Ended == [op |-> None, at |-> "idle", read |-> NoJournal, mine |-> 0]

\* A project with no capture, or with one whose shell has ended.
Init ==
  /\ proc = [p \in Procs |-> Ended]
  /\ gate = [p \in Procs |-> "none"]
  /\ workflow = Nobody /\ hostAccess = Nobody
  /\ capture \in BOOLEAN /\ commands = capture
  /\ built = IF capture THEN 1 ELSE 0
  /\ overlay = IF capture THEN 1 ELSE None
  /\ image = 0 /\ backup = None /\ candidate = None /\ journal = NoJournal
  /\ crashes = 0

At(p, step) == proc[p].at = step
Runs(p, some) == proc[p].op \in some
Goto(p, step) == proc' = [proc EXCEPT ![p].at = step]

\* release(): every lock the process holds.
Release(p) ==
  /\ gate' = [gate EXCEPT ![p] = "none"]
  /\ workflow' = IF workflow = p THEN Nobody ELSE workflow
  /\ hostAccess' = IF hostAccess = p THEN Nobody ELSE hostAccess

\* The command ends, with an error or a result.
Leave(p) == proc' = [proc EXCEPT ![p] = Ended] /\ Release(p)

Start(p) ==
  /\ At(p, "idle")
  /\ \E command \in Operations :
       /\ command \in Serial => \A q \in Procs : ~Runs(q, Serial)
       /\ proc' = [proc EXCEPT ![p].op = command,
                               ![p].at = IF command \in AllowCapture THEN "gate"
                                         ELSE "before-gate"]
  /\ UNCHANGED <<locks, captureFiles, imageFiles, bounds>>

\* requireNoActiveSetupCaptureForStore, wherever a command asks.
RequireNoCapture(p, step, next) ==
  /\ At(p, step)
  /\ IF capture THEN Leave(p) ELSE Goto(p, next) /\ UNCHANGED locks
  /\ UNCHANGED <<captureFiles, imageFiles, bounds>>

BeforeGate(p) == RequireNoCapture(p, "before-gate", "gate")

\* Where a command goes on once it holds the gate.
AfterGate(command) ==
  IF command \in Workflow THEN "workflow"
  ELSE IF command = "host access" THEN "host-access"
  ELSE IF command = "capture accept" THEN "accept"
  ELSE IF command = "capture discard" THEN "discard"
  ELSE "recover"

\* A mutant: the exclusive gate does not wait for shared holders.
GateFreeOfExclusive(p) == \A q \in Procs \ {p} : gate[q] # "exclusive"

GateFree(p) ==
  \A q \in Procs \ {p} : IF Runs(p, Exclusive) THEN gate[q] = "none"
                         ELSE gate[q] # "exclusive"

\* acquireProjectFileLock: the flock is granted or the command ends.
EnterGate(p) ==
  /\ At(p, "gate")
  /\ IF GateFree(p)
     THEN /\ gate' = [gate EXCEPT ![p] = IF Runs(p, Exclusive) THEN "exclusive"
                                         ELSE "shared"]
          /\ Goto(p, IF Runs(p, AllowCapture) THEN AfterGate(proc[p].op) ELSE "after-gate")
          /\ UNCHANGED <<workflow, hostAccess>>
     ELSE Leave(p)
  /\ UNCHANGED <<captureFiles, imageFiles, bounds>>

\* A mutant: the check inside the gate is left out.
NoCheckInsideGate(p) ==
  /\ At(p, "after-gate") /\ Goto(p, AfterGate(proc[p].op))
  /\ UNCHANGED <<locks, captureFiles, imageFiles, bounds>>

CheckInsideGate(p) == RequireNoCapture(p, "after-gate", AfterGate(proc[p].op))

EnterWorkflow(p) ==
  /\ At(p, "workflow")
  /\ IF workflow = Nobody
     THEN /\ workflow' = p /\ UNCHANGED <<gate, hostAccess>>
          /\ Goto(p, IF Runs(p, {"setup run"}) THEN "after-workflow" ELSE "recover")
     ELSE Leave(p)
  /\ UNCHANGED <<captureFiles, imageFiles, bounds>>

CheckInsideWorkflow(p) == RequireNoCapture(p, "after-workflow", "recover")

EnterHostAccess(p) ==
  /\ At(p, "host-access")
  /\ IF hostAccess = Nobody
     THEN hostAccess' = p /\ Goto(p, "recover") /\ UNCHANGED <<gate, workflow>>
     ELSE Leave(p)
  /\ UNCHANGED <<captureFiles, imageFiles, bounds>>

-----------------------------------------------------------------------------
(* lock.recover                                                            *)

\* rename(backup, image), which does nothing to two links of one file.
RenameBackup == /\ image' = backup
                /\ backup' = IF image = backup THEN backup ELSE None

Recover(p) ==
  /\ At(p, "recover")
  /\ IF journal = NoJournal
     THEN backup' = None /\ Goto(p, "recover-overlay")
     ELSE /\ UNCHANGED backup
          /\ proc' = [proc EXCEPT ![p].read = journal,
                                  ![p].at = IF journal.phase = "metadata-published"
                                            THEN "recover-clear" ELSE "recover-image"]
  /\ UNCHANGED <<locks, captureFiles, image, candidate, journal, bounds>>

\* A mutant: the backup is renamed without looking whether it exists.
RecoverImageBlindly(p) ==
  /\ At(p, "recover-image")
  /\ RenameBackup /\ Goto(p, "recover-files")
  /\ UNCHANGED <<locks, captureFiles, candidate, journal, bounds>>

\* With no backup left: a prepared transaction never moved the image, any other
\* cannot be recovered.
RecoverImage(p) ==
  /\ At(p, "recover-image")
  /\ IF backup # None
     THEN RenameBackup /\ Goto(p, "recover-files") /\ UNCHANGED locks
     ELSE /\ UNCHANGED <<image, backup>>
          /\ IF proc[p].read.phase = "prepared"
             THEN Goto(p, "recover-files") /\ UNCHANGED locks
             ELSE Leave(p)
  /\ UNCHANGED <<captureFiles, candidate, journal, bounds>>

RecoverFiles(p) ==
  /\ At(p, "recover-files")
  /\ IF proc[p].read.snapshot = None THEN UNCHANGED <<capture, commands>>
     ELSE /\ capture' = proc[p].read.snapshot.capture
          /\ commands' = proc[p].read.snapshot.commands
  /\ Goto(p, "recover-clear")
  /\ UNCHANGED <<locks, overlay, imageFiles, bounds>>

\* The end of both branches: backup and candidate removed, journal cleared.
RecoverClear(p) ==
  /\ At(p, "recover-clear")
  /\ backup' = None /\ candidate' = None /\ journal' = NoJournal
  /\ Goto(p, "recover-overlay")
  /\ UNCHANGED <<locks, captureFiles, image, bounds>>

\* recoverStaleSetupCaptureOverlay reads the capture record, ...
RecoverOverlay(p) ==
  /\ At(p, "recover-overlay")
  /\ Goto(p, IF capture THEN "recovered" ELSE "remove-stale-overlay")
  /\ UNCHANGED <<locks, captureFiles, imageFiles, bounds>>

\* ... and removes the overlay that no record mentioned.
RemoveStaleOverlay(p) ==
  /\ At(p, "remove-stale-overlay")
  /\ overlay' = None
  /\ Goto(p, "recovered")
  /\ UNCHANGED <<locks, capture, commands, imageFiles, bounds>>

\* A mutant: no command looks for a capture after recovery.
RecoveredUnchecked(p) ==
  /\ At(p, "recovered")
  /\ Goto(p, CASE Runs(p, {"replace"}) -> "build"
               [] Runs(p, {"capture start"}) -> "start-overlay"
               [] OTHER -> "work")
  /\ UNCHANGED <<locks, captureFiles, imageFiles, bounds>>

\* vm start and setup run look for a capture again, capture start for the first
\* time; project clean, project rebuild and host-access go on.
Recovered(p) ==
  /\ At(p, "recovered")
  /\ IF Runs(p, {"vm start", "setup run", "capture start"}) /\ capture
     THEN Leave(p)
     ELSE /\ Goto(p, CASE Runs(p, {"replace"}) -> "build"
                       [] Runs(p, {"capture start"}) -> "start-overlay"
                       [] OTHER -> "work")
          /\ UNCHANGED locks
  /\ UNCHANGED <<captureFiles, imageFiles, bounds>>

\* A VM boots, setups are applied, grants are changed.
Work(p) ==
  /\ At(p, "work") /\ Leave(p)
  /\ UNCHANGED <<captureFiles, imageFiles, bounds>>

-----------------------------------------------------------------------------
(* publishProjectReplacement                                               *)

Build(p) ==
  /\ At(p, "build") /\ built < MaxImages
  /\ built' = built + 1
  /\ candidate' = built + 1
  /\ proc' = [proc EXCEPT ![p].at = "begin", ![p].mine = built + 1]
  /\ UNCHANGED <<locks, captureFiles, image, backup, journal, crashes>>

\* A command that ends here removes its candidate (a deferred call).
LeavePublish(p) == Leave(p) /\ candidate' = None

WriteJournal(p, phase) ==
  /\ journal' = [proc[p].read EXCEPT !.phase = phase]
  /\ UNCHANGED <<captureFiles, image, backup, candidate, locks, bounds>>

\* The snapshot of the metadata files; "backup still exists after recovery".
Begin(p) ==
  /\ At(p, "begin")
  /\ IF backup # None THEN LeavePublish(p) /\ UNCHANGED journal
     ELSE /\ journal' = [phase |-> "prepared",
                         snapshot |-> IF Runs(p, {"replace"}) THEN None
                                      ELSE [capture |-> capture, commands |-> commands]]
          /\ proc' = [proc EXCEPT ![p].at = "link", ![p].read = journal']
          /\ UNCHANGED <<locks, candidate>>
  /\ UNCHANGED <<captureFiles, image, backup, bounds>>

\* link(image, backup) fails when the backup exists.
Link(p) ==
  /\ At(p, "link")
  /\ IF backup = None
     THEN backup' = image /\ Goto(p, "backup-ready")
     ELSE UNCHANGED backup /\ Goto(p, "abandon-clear")
  /\ UNCHANGED <<locks, captureFiles, image, candidate, journal, bounds>>

BackupReady(p) ==
  At(p, "backup-ready") /\ WriteJournal(p, "backup-ready") /\ Goto(p, "publish")

\* rename(candidate, image) fails when another process has removed the candidate.
PublishImage(p) ==
  /\ At(p, "publish")
  /\ IF candidate # None
     THEN image' = candidate /\ candidate' = None /\ Goto(p, "image-published")
     ELSE UNCHANGED <<image, candidate>> /\ Goto(p, "abandon")
  /\ UNCHANGED <<locks, captureFiles, backup, journal, bounds>>

ImagePublished(p) ==
  At(p, "image-published") /\ WriteJournal(p, "image-published") /\ Goto(p, "update")

\* updateMetadata: accepting clears the capture record.
Update(p) ==
  /\ At(p, "update")
  /\ capture' = (Runs(p, {"replace"}) /\ capture)
  /\ commands' = (Runs(p, {"replace"}) /\ commands)
  /\ Goto(p, "commit")
  /\ UNCHANGED <<locks, overlay, imageFiles, bounds>>

Commit(p) ==
  At(p, "commit") /\ WriteJournal(p, "metadata-published") /\ Goto(p, "drop")

\* A backup that cannot be removed leaves the cleanup to a later command.
Drop(p) ==
  /\ At(p, "drop")
  /\ backup' = None
  /\ Goto(p, IF backup = None THEN "published" ELSE "clear")
  /\ UNCHANGED <<locks, captureFiles, image, candidate, journal, bounds>>

Clear(p) ==
  /\ At(p, "clear")
  /\ journal' = NoJournal
  /\ Goto(p, "published")
  /\ UNCHANGED <<locks, captureFiles, image, backup, candidate, bounds>>

Abandon(p) ==
  /\ At(p, "abandon")
  /\ backup' = None
  /\ Goto(p, "abandon-clear")
  /\ UNCHANGED <<locks, captureFiles, image, candidate, journal, bounds>>

AbandonClear(p) ==
  /\ At(p, "abandon-clear")
  /\ journal' = NoJournal
  /\ LeavePublish(p)
  /\ UNCHANGED <<captureFiles, image, backup, bounds>>

\* project clean and rebuild report success; accepting goes on to remove the
\* overlay (and its candidate file).
Published(p) ==
  /\ At(p, "published")
  /\ candidate' = None
  /\ IF Runs(p, {"replace"}) THEN Leave(p) /\ UNCHANGED overlay
     ELSE overlay' = None /\ Goto(p, "clear-capture") /\ UNCHANGED locks
  /\ UNCHANGED <<capture, commands, image, backup, journal, bounds>>

-----------------------------------------------------------------------------
(* project setup capture start, accept, discard                            *)

StartOverlay(p) ==
  /\ At(p, "start-overlay") /\ built < MaxImages
  /\ commands' = FALSE
  /\ overlay' = built + 1
  /\ built' = built + 1
  /\ Goto(p, "start-metadata")
  /\ UNCHANGED <<locks, capture, imageFiles, crashes>>

StartMetadata(p) ==
  /\ At(p, "start-metadata")
  /\ capture' = TRUE
  /\ Goto(p, "boot")
  /\ UNCHANGED <<locks, commands, overlay, imageFiles, bounds>>

\* A VM that cannot boot (the overlay is gone) ends the capture.
BootCapture(p) ==
  /\ At(p, "boot")
  /\ \/ overlay # None /\ Goto(p, "capturing") /\ UNCHANGED <<locks, captureFiles>>
     \/ capture' = FALSE /\ overlay' = None /\ Leave(p) /\ UNCHANGED commands
  /\ UNCHANGED <<imageFiles, bounds>>

RecordCommand(p) ==
  /\ At(p, "capturing") /\ capture /\ ~commands /\ commands' = TRUE
  /\ UNCHANGED <<proc, locks, capture, overlay, imageFiles, bounds>>

\* The capture shell ends; its record stays active.
EndShell(p) ==
  /\ At(p, "capturing") /\ Leave(p)
  /\ UNCHANGED <<captureFiles, imageFiles, bounds>>

ReadCapture(p) ==
  /\ At(p, "accept")
  /\ IF capture /\ commands /\ overlay # None
     THEN Goto(p, "rewrite") /\ UNCHANGED locks
     ELSE Leave(p)
  /\ UNCHANGED <<captureFiles, imageFiles, bounds>>

\* The record is written back with the observed endpoints.
RewriteCapture(p) ==
  /\ At(p, "rewrite")
  /\ capture' = TRUE
  /\ Goto(p, "compact")
  /\ UNCHANGED <<locks, commands, overlay, imageFiles, bounds>>

\* compactToDirectProjectOverlay flattens the overlay into the candidate.
Compact(p) ==
  /\ At(p, "compact")
  /\ IF overlay # None
     THEN /\ candidate' = overlay
          /\ proc' = [proc EXCEPT ![p].at = "begin", ![p].mine = overlay]
          /\ UNCHANGED locks
     ELSE LeavePublish(p)
  /\ UNCHANGED <<captureFiles, image, backup, journal, bounds>>

ClearCapture(p) ==
  /\ At(p, "clear-capture")
  /\ capture' = FALSE /\ commands' = FALSE
  /\ Goto(p, "accepted")
  /\ UNCHANGED <<locks, overlay, imageFiles, bounds>>

\* ":: Accepted setup capture", ":: Promoted capture overlay to project image"
ReportAccepted(p) ==
  /\ At(p, "accepted") /\ Leave(p)
  /\ UNCHANGED <<captureFiles, imageFiles, bounds>>

DiscardOverlay(p) ==
  /\ At(p, "discard")
  /\ IF capture THEN overlay' = None /\ Goto(p, "discard-metadata") /\ UNCHANGED locks
     ELSE Leave(p) /\ UNCHANGED overlay
  /\ UNCHANGED <<capture, commands, imageFiles, bounds>>

DiscardMetadata(p) ==
  /\ At(p, "discard-metadata")
  /\ capture' = FALSE /\ commands' = FALSE
  /\ Leave(p)
  /\ UNCHANGED <<overlay, imageFiles, bounds>>

-----------------------------------------------------------------------------

\* A killed process loses its locks; the files stay.
Crash(p) ==
  /\ ~At(p, "idle") /\ crashes < MaxCrashes
  /\ crashes' = crashes + 1
  /\ Leave(p)
  /\ UNCHANGED <<captureFiles, imageFiles, built>>

Locking(p) == \/ Start(p) \/ BeforeGate(p) \/ EnterGate(p) \/ CheckInsideGate(p)
              \/ EnterWorkflow(p) \/ CheckInsideWorkflow(p) \/ EnterHostAccess(p)

Recovering(p) == \/ Recover(p) \/ RecoverImage(p) \/ RecoverFiles(p)
                 \/ RecoverClear(p) \/ RecoverOverlay(p) \/ RemoveStaleOverlay(p)
                 \/ Recovered(p)

Publishing(p) == \/ Build(p) \/ Begin(p) \/ Link(p) \/ BackupReady(p)
                 \/ PublishImage(p) \/ ImagePublished(p) \/ Update(p) \/ Commit(p)
                 \/ Drop(p) \/ Clear(p) \/ Abandon(p) \/ AbandonClear(p)
                 \/ Published(p)

Capturing(p) == \/ StartOverlay(p) \/ StartMetadata(p) \/ BootCapture(p)
                \/ RecordCommand(p) \/ EndShell(p) \/ ReadCapture(p)
                \/ RewriteCapture(p) \/ Compact(p) \/ ClearCapture(p)
                \/ ReportAccepted(p) \/ DiscardOverlay(p) \/ DiscardMetadata(p)

Next == \E p \in Procs : \/ Locking(p) \/ Recovering(p) \/ Work(p)
                         \/ Publishing(p) \/ Capturing(p) \/ Crash(p)

Spec == Init /\ [][Next]_vars

-----------------------------------------------------------------------------
(* Properties                                                              *)

Publishes == {"begin", "link", "backup-ready", "publish", "image-published",
              "update", "commit", "drop", "clear", "published"}

\* While vm start boots a VM or setup run applies setups, no capture is active,
\* although recovery may bring back the record of a capture that an interrupted
\* accept had cleared.
WorkExcludesCapture ==
  \A p \in Procs :
    At(p, "work") /\ Runs(p, {"vm start", "setup run"}) => ~capture

\* project clean and rebuild do not replace the image under an active capture.
ReplacementExcludesCapture ==
  \A p \in Procs : Runs(p, {"replace"}) /\ proc[p].at \in Publishes => ~capture

\* When project clean, project rebuild or capture accept reports success, the
\* project image is the one it built.
SuccessMeansPublished ==
  \A p \in Procs :
    At(p, "accepted") \/ (At(p, "published") /\ Runs(p, {"replace"})) =>
      image = proc[p].mine

\* The overlay under a running capture shell is not removed by another command.
CaptureKeepsOverlay ==
  \A p \in Procs : At(p, "capturing") => capture /\ overlay # None

\* Recovery is for transactions whose command has ended: no process recovers while
\* another one has a transaction open.
RecoveryExcludesTransactions ==
  \A p, q \in Procs :
    p # q /\ proc[p].at \in {"recover-image", "recover-files", "recover-clear"} =>
      proc[q].at \notin {"link", "backup-ready", "publish", "image-published",
                    "update", "commit", "drop", "clear"}
=============================================================================
