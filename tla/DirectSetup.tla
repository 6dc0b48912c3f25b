---------------------------- MODULE DirectSetup ----------------------------
(***************************************************************************)
(* A setup applied directly to the project image (project setup run, and   *)
(* zaigr shell with setups): a script runs in the guest, and the project's *)
(* metadata files say what it left behind.  The guest itself writes the    *)
(* execution intent before the first line of the script; the host records  *)
(* success or failure in a journaled metadata transaction, and the next    *)
(* command that recovers resolves what was interrupted                     *)
(* (applySetupDirectlyToRunningVM, applySetupDirectlyToStoppedProject and  *)
(* the records after them in vm_project_format.go, the metadata            *)
(* transaction in vm_project_rebuild.go).                                  *)
(*                                                                         *)
(* One command works at a time, but a script may outlive its command in a  *)
(* running VM.  A script whose connection failed before its first line ran *)
(* may still start until the host has looked for the intent, not later.    *)
(* Of the metadata files only those the transactions touch are kept, each  *)
(* written by one operation.                                               *)
(***************************************************************************)
EXTENDS Naturals, Sequences

CONSTANTS Names, Versions,   \* setups and their versions
          Setups,            \* the pairs of them that exist
          Commands,          \* the commands run, see AllCommands
          MaxFaults,         \* bound on crashes and failed file operations
          CommitFailsLate,   \* the committing write may report an error after its rename
          None, NoJournal

AllCommands == {"setup run", "shell", "host access"}

ASSUME DirectSetupAssumption ==
  /\ Setups \subseteq Names \X Versions
  /\ Commands \subseteq AllCommands
  /\ MaxFaults \in Nat
  /\ CommitFailsLate \in BOOLEAN
  /\ None \notin Versions
  /\ None \notin Setups

Files == [applied : [Names -> Versions \cup {None}],  \* applied-setups.json
          rules   : SUBSET Setups,                    \* the rules in the firewall file
          failed  : BOOLEAN,                          \* setup-failed-once
          intent  : Setups \cup {None}]               \* setup-execution-intent.json

\* The files of the two transactions, in the order they are written and restored.
SuccessPaths == <<"rules", "applied", "intent">>
FailurePaths == <<"applied", "failed", "intent">>

Journals == [phase : {"prepared", "committed"}, files : Files,
             paths : {SuccessPaths, FailurePaths}]

ASSUME JournalAssumption == NoJournal \notin Journals

VARIABLES
  files,     \* the metadata files
  journal,   \* .project-metadata-transaction.json
  guest,     \* what each setup's scripts have done to the image
  running,   \* the setups whose script runs in the guest
  vm,        \* TRUE: the project VM runs; FALSE: a temporary one runs the script
  pc,        \* where the command is; "idle" between commands
  command,   \* the command that runs
  setup,     \* the setup it applies
  started,   \* executionStarted
  begun,     \* the script of this attempt has begun
  caller,    \* what the open transaction records: "success", "failure" or "resolve"
  update,    \* the contents it writes
  saved,     \* its journal in memory
  todo,      \* the files it has yet to write or restore
  errors,    \* a restore failed
  faults     \* crashes and failed operations so far

attempt == <<command, setup, started, begun>>
transaction == <<caller, update, saved, todo, errors>>
image == <<guest, running, vm>>
vars == <<files, journal, image, pc, attempt, transaction, faults>>

Steps == {"idle", "recover", "recover-files", "recover-clear", "resolve", "ready",
          "ssh", "check", "sync", "record", "failed", "write", "commit",
          "clear", "undo", "undo-clear"}

TypeOK ==
  /\ files \in Files
  /\ journal \in Journals \cup {NoJournal}
  /\ guest \in [Names -> [version : Versions \cup {None}, done : BOOLEAN]]
  /\ running \subseteq Setups
  /\ vm \in BOOLEAN
  /\ pc \in Steps
  /\ command \in Commands \cup {None}
  /\ setup \in Setups \cup {None}
  /\ {started, begun, errors} \subseteq BOOLEAN
  /\ caller \in {"success", "failure", "resolve"}
  /\ {update, saved.files} \subseteq Files /\ saved \in Journals
  /\ todo \in {SubSeq(s, k, 3) : s \in {SuccessPaths, FailurePaths}, k \in 1..4}
  /\ faults \in 0..MaxFaults

-----------------------------------------------------------------------------

Blank == [applied |-> [n \in Names |-> None], rules |-> {}, failed |-> FALSE,
          intent |-> None]

Init ==
  /\ files = Blank /\ journal = NoJournal
  /\ guest = [n \in Names |-> [version |-> None, done |-> FALSE]]
  /\ running = {} /\ vm \in BOOLEAN
  /\ pc = "idle" /\ command = None /\ setup = None
  /\ started = FALSE /\ begun = FALSE
  /\ caller = "success" /\ update = Blank /\ todo = <<>> /\ errors = FALSE
  /\ saved = [phase |-> "prepared", files |-> Blank, paths |-> SuccessPaths]
  /\ faults = 0

Fault == faults < MaxFaults /\ faults' = faults + 1
NoFault == UNCHANGED faults
Goto(step) == pc' = step

\* The end of a command; its variables lose their values.
Finish ==
  /\ pc' = "idle" /\ command' = None /\ setup' = None
  /\ started' = FALSE /\ begun' = FALSE
  /\ caller' = "success" /\ update' = Blank /\ todo' = <<>> /\ errors' = FALSE
  /\ saved' = [phase |-> "prepared", files |-> Blank, paths |-> SuccessPaths]

\* The temporary VM is shut down; a project VM goes on.
StopTemporaryVM == running' = (IF vm THEN running ELSE {}) /\ UNCHANGED <<guest, vm>>

Written(f, content) == files' = [files EXCEPT ![f] = content[f]]

\* writeProjectMetadataJournal reports an error before its rename, or after it.
JournalFails(new) == journal' \in {journal, new} /\ Fault

\* zaigr shell does not recover.  The project VM may have started or stopped since
\* the last command.
StartCommand ==
  /\ pc = "idle"
  /\ \E c \in Commands : command' = c /\ Goto(IF c = "shell" THEN "ready" ELSE "recover")
  /\ vm' \in BOOLEAN /\ running' = IF vm' = vm THEN running ELSE {}
  /\ NoFault /\ UNCHANGED <<files, journal, guest, setup, started, begun, transaction>>

-----------------------------------------------------------------------------
(* recoverProjectMetadataTransaction, resolveInterruptedDirectSetup        *)

\* A mutant: the intent is not looked at.
RecoverUnresolved ==
  /\ pc = "recover" /\ journal = NoJournal /\ Goto("ready")
  /\ NoFault /\ UNCHANGED <<files, journal, image, attempt, transaction>>

RecoverNothing ==
  /\ pc = "recover" /\ journal = NoJournal /\ Goto("resolve")
  /\ NoFault /\ UNCHANGED <<files, journal, image, attempt, transaction>>

ReadJournal ==
  /\ pc = "recover" /\ journal # NoJournal
  /\ saved' = journal /\ todo' = journal.paths
  /\ Goto(IF journal.phase = "committed" THEN "recover-clear" ELSE "recover-files")
  /\ NoFault /\ UNCHANGED <<files, journal, image, attempt, caller, update, errors>>

\* restoreProjectFiles: every file in turn, and then the errors.
Restore(step) ==
  /\ pc = step /\ todo # <<>>
  /\ todo' = Tail(todo)
  /\ \/ Written(Head(todo), saved.files) /\ NoFault /\ UNCHANGED errors
     \/ /\ Written(Head(todo), saved.files) \/ UNCHANGED files
        /\ Fault /\ errors' = TRUE
  /\ UNCHANGED <<journal, image, pc, attempt, caller, update, saved>>

RecoverFile == Restore("recover-files")

FilesRecovered ==
  /\ pc = "recover-files" /\ todo = <<>>
  /\ IF errors THEN Finish ELSE Goto("recover-clear") /\ UNCHANGED <<attempt, transaction>>
  /\ NoFault /\ UNCHANGED <<files, journal, image>>

RecoverClear ==
  /\ pc = "recover-clear"
  /\ \/ /\ journal' = NoJournal /\ Goto("resolve") /\ NoFault
        /\ UNCHANGED <<attempt, transaction>>
     \/ JournalFails(NoJournal) /\ Finish
  /\ UNCHANGED <<files, image>>

ResolveNothing ==
  /\ pc = "resolve" /\ files.intent = None /\ Goto("ready")
  /\ NoFault /\ UNCHANGED <<files, journal, image, attempt, transaction>>

-----------------------------------------------------------------------------
(* The attempt                                                             *)

\* The definitions left after filterSetupDefinitionsByStoredState, or all of them
\* with --force.
ChooseSetup ==
  /\ pc = "ready" /\ command # "host access"
  /\ setup' \in Setups /\ started' = FALSE /\ begun' = FALSE /\ Goto("ssh")
  /\ NoFault /\ UNCHANGED <<files, journal, image, command, transaction>>

EndCommand ==
  /\ pc = "ready" /\ Finish
  /\ NoFault /\ UNCHANGED <<files, journal, image>>

\* A mutant: the script runs without its prelude.
ScriptBeginsUnannounced ==
  /\ pc \in {"ssh", "check"} /\ ~begun /\ begun' = TRUE
  /\ guest' = [guest EXCEPT ![setup[1]] = [version |-> setup[2], done |-> FALSE]]
  /\ running' = running \cup {setup}
  /\ NoFault
  /\ UNCHANGED <<files, journal, vm, pc, command, setup, started, transaction>>

\* setupExecutionIntentPrelude, in the guest.
ScriptBegins ==
  /\ pc \in {"ssh", "check"} /\ ~begun /\ begun' = TRUE
  /\ files' = [files EXCEPT !.intent = setup]
  /\ guest' = [guest EXCEPT ![setup[1]] = [version |-> setup[2], done |-> FALSE]]
  /\ running' = running \cup {setup}
  /\ NoFault /\ UNCHANGED <<journal, vm, pc, command, setup, started, transaction>>

\* The host sees the marker that follows the prelude.
MarkerSeen ==
  /\ pc = "ssh" /\ begun /\ ~started /\ started' = TRUE
  /\ NoFault
  /\ UNCHANGED <<files, journal, image, pc, command, setup, begun, transaction>>

\* A script without a command to wait for it ends, completely or not.
ScriptEnds ==
  /\ \E s \in running, complete \in BOOLEAN :
       /\ pc = "ssh" => s # setup
       /\ running' = running \ {s}
       /\ guest' = [guest EXCEPT ![s[1]] = [version |-> s[2], done |-> complete]]
  /\ NoFault /\ UNCHANGED <<files, journal, vm, pc, attempt, transaction>>

\* ssh returns success after the script has.
ScriptSucceeds ==
  /\ pc = "ssh" /\ started /\ setup \in running
  /\ running' = running \ {setup}
  /\ guest' = [guest EXCEPT ![setup[1]] = [version |-> setup[2], done |-> TRUE]]
  /\ Goto(IF files.intent \in {setup, None} THEN "sync" ELSE "failed")
  /\ NoFault /\ UNCHANGED <<files, journal, vm, attempt, transaction>>

\* ssh returns an error: the script failed, was killed or timed out, or the
\* connection was lost, before the script or during it.
ScriptFails ==
  /\ pc = "ssh" /\ Goto("check")
  /\ running' \in {running, running \ {setup}}
  /\ NoFault /\ UNCHANGED <<files, journal, guest, vm, attempt, transaction>>

\* A mutant: every error of the attempt counts as a failure of the setup.
CheckNothing ==
  /\ pc = "check" /\ StopTemporaryVM
  /\ Goto("failed") /\ UNCHANGED <<attempt, transaction>>
  /\ NoFault /\ UNCHANGED <<files, journal>>

\* setupExecutionIntentPersisted: an error before execution records nothing.
CheckIntent ==
  /\ pc = "check" /\ StopTemporaryVM
  /\ IF started \/ files.intent # None
     THEN Goto("failed") /\ UNCHANGED <<attempt, transaction>>
     ELSE Finish
  /\ NoFault /\ UNCHANGED <<files, journal>>

\* Removing the temporary firewall rule, and sync.  A temporary VM that was
\* interrupted after it leaves the intent and an error.
Sync ==
  /\ pc = "sync" /\ StopTemporaryVM
  /\ \/ Goto("record") /\ NoFault /\ UNCHANGED <<attempt, transaction>>
     \/ Goto("failed") /\ Fault /\ UNCHANGED <<attempt, transaction>>
     \/ ~vm /\ Fault /\ Finish
  /\ UNCHANGED <<files, journal>>

-----------------------------------------------------------------------------
(* The records: updateProjectMetadataTransaction                           *)

\* A mutant: whatever version of the setup is recorded goes.
WithoutName(s) ==
  [files EXCEPT !.applied[s[1]] = None, !.failed = TRUE, !.intent = None]

\* recordDirectSetupFailureForStore drops the record of this very version only.
WithoutSetup(s) ==
  [files EXCEPT !.applied[s[1]] = IF @ = s[2] THEN None ELSE @,
                !.failed = TRUE, !.intent = None]

\* A mutant: the record holds the identity in place of the version.
WithIdentity(s) ==
  [files EXCEPT !.rules = @ \cup {s}, !.applied[s[1]] = s, !.intent = None]

WithSetup(s) ==
  [files EXCEPT !.rules = @ \cup {s}, !.applied[s[1]] = s[2], !.intent = None]

\* What follows an error of the transaction that records success.
AfterError == IF caller = "success" THEN Goto("failed") /\ UNCHANGED <<attempt, transaction>>
              ELSE Finish

AfterSuccess == CASE caller = "failure" -> Finish
                  [] OTHER -> Goto("ready") /\ UNCHANGED <<attempt, transaction>>

\* "journal still exists after recovery", a failed write of the journal, or the
\* transaction opens.
Open(who, paths, contents) ==
  LET prepared == [phase |-> "prepared", files |-> files, paths |-> paths]
      GiveUp == IF who = "success" THEN Goto("failed") /\ UNCHANGED <<attempt, transaction>>
                ELSE Finish
  IN /\ \/ journal # NoJournal /\ GiveUp /\ NoFault /\ UNCHANGED journal
        \/ journal = NoJournal /\ JournalFails(prepared) /\ GiveUp
        \/ /\ journal = NoJournal /\ journal' = prepared
           /\ caller' = who /\ update' = contents /\ saved' = prepared /\ todo' = paths
           /\ errors' = FALSE /\ Goto("write") /\ NoFault /\ UNCHANGED attempt
     /\ UNCHANGED <<files, image>>

RecordSuccess == pc = "record" /\ Open("success", SuccessPaths, WithSetup(setup))
RecordFailure == pc = "failed" /\ Open("failure", FailurePaths, WithoutSetup(setup))

\* A mutant: the intent is dropped without a record.
ResolveForgets ==
  /\ pc = "resolve" /\ files.intent # None
  /\ files' = [files EXCEPT !.intent = None] /\ Goto("ready")
  /\ NoFault /\ UNCHANGED <<journal, image, attempt, transaction>>

Resolve ==
  /\ pc = "resolve" /\ files.intent # None
  /\ Open("resolve", FailurePaths, WithoutSetup(files.intent))

Undo == /\ Goto("undo") /\ todo' = saved.paths /\ errors' = FALSE
        /\ UNCHANGED <<caller, update, saved>>

WriteFile ==
  /\ pc = "write" /\ todo # <<>>
  /\ \/ /\ Written(Head(todo), update) /\ todo' = Tail(todo) /\ NoFault
        /\ UNCHANGED <<pc, caller, update, saved, errors>>
     \/ (Written(Head(todo), update) \/ UNCHANGED files) /\ Fault /\ Undo
  /\ UNCHANGED <<journal, image, attempt>>

Commit ==
  /\ pc = "write" /\ todo = <<>>
  /\ LET committed == [saved EXCEPT !.phase = "committed"]
     IN \/ journal' = committed /\ Goto("clear") /\ NoFault /\ UNCHANGED transaction
        \/ Fault /\ Undo /\ UNCHANGED journal
        \/ CommitFailsLate /\ journal' = committed /\ Fault /\ Undo
  /\ UNCHANGED <<files, image, attempt>>

\* "project metadata was committed, but transaction cleanup is incomplete"
Clear ==
  /\ pc = "clear" /\ AfterSuccess
  /\ \/ journal' = NoJournal /\ NoFault
     \/ JournalFails(NoJournal)
  /\ UNCHANGED <<files, image>>

UndoFile == Restore("undo")

FilesUndone ==
  /\ pc = "undo" /\ todo = <<>>
  /\ IF errors THEN AfterError ELSE Goto("undo-clear") /\ UNCHANGED <<attempt, transaction>>
  /\ NoFault /\ UNCHANGED <<files, journal, image>>

UndoClear ==
  /\ pc = "undo-clear" /\ AfterError
  /\ \/ journal' = NoJournal /\ NoFault
     \/ JournalFails(NoJournal)
  /\ UNCHANGED <<files, image>>

-----------------------------------------------------------------------------

\* zaigr is killed; a temporary VM dies with it.
Crash ==
  /\ pc # "idle" /\ Fault /\ Finish /\ StopTemporaryVM
  /\ UNCHANGED <<files, journal>>

Next == \/ StartCommand \/ RecoverNothing \/ ReadJournal \/ RecoverFile
        \/ FilesRecovered \/ RecoverClear \/ ResolveNothing \/ Resolve
        \/ ChooseSetup \/ EndCommand \/ ScriptBegins \/ MarkerSeen
        \/ ScriptEnds \/ ScriptSucceeds \/ ScriptFails \/ CheckIntent \/ Sync
        \/ RecordSuccess \/ RecordFailure \/ WriteFile \/ Commit \/ Clear
        \/ UndoFile \/ FilesUndone \/ UndoClear \/ Crash

Spec == Init /\ [][Next]_vars

-----------------------------------------------------------------------------
(* Properties                                                              *)

\* The metadata files as recovery would leave them.
Stored ==
  IF journal = NoJournal \/ journal.phase = "committed" THEN files
  ELSE [f \in DOMAIN files |->
          IF \E i \in 1..3 : journal.paths[i] = f THEN journal.files[f] ELSE files[f]]

\* No setup changes the image silently: between commands, a setup whose script has
\* begun is recorded as applied in that version, or the project has its failure
\* note, or the intent that will become the note.
NoSilentSetup ==
  pc = "idle" =>
    \A n \in Names :
      guest[n].version # None =>
        Stored.failed \/ Stored.intent # None \/ Stored.applied[n] = guest[n].version

\* Without a failure note or a pending intent the records are right: a setup
\* recorded as applied has run to its end in that version, and the firewall has its
\* rules.
AppliedIsComplete ==
  ~Stored.failed /\ Stored.intent = None =>
    \A n \in Names :
      Stored.applied[n] # None =>
        /\ guest[n] = [version |-> Stored.applied[n], done |-> TRUE]
        /\ <<n, Stored.applied[n]>> \in Stored.rules

\* An error before guest execution leaves no failure note.
NoteNeedsExecution == Stored.failed => \E n \in Names : guest[n].version # None

\* A failed new version keeps the old record: the record of a version goes only for
\* a failed or interrupted run of that version, and comes only with its success
\* (with a failure note, a script that outlived its command may interfere).
RecordFollowsRun ==
  [][\A n \in Names :
       LET old == Stored.applied[n]
           new == Stored'.applied[n]
       IN new # old => IF new = None THEN <<n, old>> \in {setup, saved.files.intent}
                       ELSE Stored.failed \/ guest[n] = [version |-> new, done |-> TRUE]]_vars

\* A command that recovers starts its own work with no transaction to roll back and
\* no intent to resolve.
NothingPending ==
  pc = "ready" /\ command # "shell" => Stored = files /\ files.intent = None
=============================================================================
