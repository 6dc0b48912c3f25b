# A formal model of zaigr

zaigr runs one QEMU virtual machine per project directory. There is no daemon: every command
is a short-lived process, and the commands on a project meet only in the files of its store
(`~/.zaigr/store/<hash>`), in advisory locks, and in the VM itself. What has to be right is
therefore what these processes leave on disk when they are killed, when a file operation
fails, and when they run side by side. This directory models those protocols in TLA+, checks
them with TLC on small instances and proves with TLAPS, for every instance, each safety
property that the passing runs check. All paths are relative to `src/cmd/zaigr/` unless they
begin with `src/`.

## Inventory

| Component (source) | State it keeps | Operations | What makes it correct |
| --- | --- | --- | --- |
| Image replacement transaction (`vm_project_rebuild.go`) | `project.qcow2`, its hard-linked backup, the metadata files, `.project-replacement-transaction.json` | publish a candidate, roll back, recover | image and metadata change together or not at all, over any interruption |
| Metadata transaction and direct setup (`vm_project_format.go`, `vm_modify.go`, `vm_setup_preset.go`) | `applied-setups.json`, `firewall`, `setup-failed-once`, the execution intent, `.project-metadata-transaction.json` | run a setup script in a running or temporary VM, record success or failure, resolve an interruption | the guest is never changed silently; a recorded setup has run to its end |
| Project gate and locks (`vm_project_lock.go`) | flocks: gate (shared or exclusive), `.setup-capture`, `.host-access`, `.firewall-ips`, device owners | acquire without waiting, check for a capture, recover, release | a recovery or replacement never meets a live transaction; work and capture exclude each other |
| Setup capture (`vm_setup_capture.go`, `_store.go`) | capture record, recorded commands and endpoints, overlay image | start, attach, review, accept, discard | accept promotes exactly the overlay; the record and the overlay go together |
| Project commands (`vm_project.go`) | VM process, config | vm start/stop, clean, rebuild, delete, set-config | nothing is replaced or deleted under a running VM or a capture |
| Legacy clean (`vm_project_rebuild.go` 604-682) | the store directory and its backup | swap, recover | one whole store survives |
| VM boot and shell (`vm_qemu.go`, `vm_shell_sessions.go`, `vm_project_image_dirty.go`) | runtime directory, monitor socket, shell markers, dirty marker | boot, detect, attach, run as root | one VM per image; a root session always leaves the dirty marker |
| Exact-IP firewall (`vm_project_firewall_ip.go`, `vm_project_store.go`) | desired, attempted and applied addresses | add, remove, sync, reconcile on start | whatever the guest may allow is on a list and can be revoked |
| Temporary and global firewall (`vm_firewall_root.go`, `vm_global_firewall.go`) | allow-all rules with tokens, global entries | install, remove, sync, drop stale ones | a rule disappears with the work it was for |
| Host access (`vm_host_access*.go`) | grants per project, QMP devices, ssh forwards | allow, deny, activate, roll back | one owner per device; saved and active grants converge |
| Global base image (`vm_global_base_image.go`, `vm_user_uid.go`) | base images, per-UID variants, selection | build, reset, publish | the selection names an image that is complete |
| Global projects (`vm_global_projects*.go`) | the list of stores | list, kill, rebuild in a batch | each project is whole, whatever happens to the others |
| Rest: apt preflight, local setups, status, mismatch, init, kernel and keys, command line, guest programs, release scripts | little or none | parsing, reports, extraction | not protocols; the preflight scan is planned as a pure algorithm |

How they meet: every command takes the gate first. The commands that hold it exclusively
(clean, rebuild, vm start, global rebuild) recover before their own work, and so do three
shared holders (setup run, capture start, host access). Recovery calls, in this order, legacy
clean, the replacement transaction, the metadata transaction, the interrupted setup, stale
staging and the stale capture overlay (`lock.recover`, `vm_project_lock.go` 223-243). Clean,
rebuild and capture accept call `publishProjectReplacement`; setup run and shell call the
direct setup; the guest writes one of the metadata files, the execution intent.

What is hard to test here: a kill or an I/O error between any two file operations, twice in a
row, or inside recovery; two commands under the shared gate; a script that goes on after its
connection is lost; a check made before the recovery that changes its answer. A guest or a VM
that ends between what was done to it and the record of it. The hazards are listed one by one,
with their lines, in `PROJECT.json`.

## Modules

| Module | Models | Shape |
| --- | --- | --- |
| `AtomicReplacement` | what clean and rebuild promise: image and metadata are swapped in one step | abstract specification |
| `ImageReplacement` | `publishProjectReplacement`, rollback, early exits, recovery, orphaned backup | one command at a time, one file operation per step, faults anywhere |
| `ImageReplacementProofs` | the theorems about it | proofs |
| `ProjectGate` | gate, workflow and host-access locks, capture checks, recovery, replacement, overlay captures | several processes, the transaction cut where another process matters |
| `ProjectGateProofs` | the theorems about it, for the commands that each is true of | proofs |
| `DirectSetup` | metadata transaction, execution intent, direct setups and their records | one command at a time beside the scripts it left in the guest |
| `DirectSetupProofs` | what the records say of the guest | proofs |
| `RunningVM` | detection, boot, sessions, stop and exact-IP firewall of one VM | several processes, the runtime directory beside what really runs; the guest's script cut in its parts |
| `RunningVMProofs` | addresses, records, root sessions | proofs |
| `HostAccess` | device and port reservations and every operation that moves or removes the store they live in | several processes over several projects |
| `HostAccessProofs` | type correctness and exclusive ownership | proofs |
| `HostAccessStoreProofs` | what VMs use is saved, what was granted is kept; extends the former | proofs |
| `BaseImages` | revisions of the base image, their selection, and the projects built on them, created or rebuilt in a batch | several processes; image replacement is one step |
| `BaseImagesProofs` | the selection, the projects on it, the batch | proofs |
| `DomainFirewall` | the account's domain list, the setups' entries, and their sync to the guest | several processes, the sync cut at each record |
| `DomainFirewallProofs` | what the guest allows, what a sync leaves | proofs |
| `MC...` | constants for TLC | |

The modules share no variables: each takes one protocol apart and has the others' effects as
single steps. What `ImageReplacement` proves to be atomic is one step in `BaseImages` and
`DomainFirewall`; the gate is modelled in every module in which several processes run; the
boot that `RunningVM` takes apart is one step in `HostAccess`, `BaseImages` and
`DomainFirewall`.

### ImageReplacement

`image`, `backup`, `metadata` and `journal` are files; `snapshots`, `hadImage`, `todo`,
`failure` are local variables of the running command, lost with it. An image or a file is
known by its *generation*, the number of the replacement that made it; an image linked twice
is two names of one generation, and `rename` between two links of one file does nothing, as
POSIX says. Metadata files restored or updated one at a time are taken in any order.
`RestoreFile` goes on after an error, `UpdateFile` stops, the early exits ignore errors: as in
the code. `base-image-version` is truncated and then written (`TruncateFile`), the other files
are renamed into place. A write by rename, also of the journal, can fail before the rename or
after it, in the directory sync.

`StoredProject` is what recovery would make of the disk. In one case the code does not keep it
whole: the write of the `metadata-published` journal fails after its rename (line 587), so that
the disk is committed while the process rolls back. When the rollback ends, the old generation
is in place and the journal gone, and nothing has happened; when a further fault interrupts it,
recovery takes the journal at its word and keeps what the rollback has left, an image of one
generation with files of another. The history `doubt` holds the generation such a commit goes
back to, from its failure until that generation is in place without a journal or another
commit; `ProjectIsWhole` and `RecoveredClean` except `doubt # {} /\ faults > 1` and nothing
else. `KeptProject`, which is `StoredProject` and, in doubt, the generation gone back to, is
the refinement mapping: `Atomic!Spec` holds of it, the step that swaps generations being the
write of the `metadata-published` journal.

### ProjectGate

Each process has a command and a place in it. Locks are non-blocking: a process that does
not get one ends. The journal a recovery has read (`proc[p].read`) is a copy, so another
process may change the files behind it. `publishProjectReplacement` is here without its
faults (those are in `ImageReplacement`) but with the errors that another process can cause:
a candidate that has been removed, a backup that exists. A killed process loses its locks.
VMs are left out; a command may always find none running. zaigr shell, which also boots the VM
and applies setups, and does not recover, is not among the commands: `WorkExcludesCapture` is
about vm start and setup run.

### DirectSetup

`guest` is the truth about the image: the version of each setup whose script began last, and
whether it ended well. `files` are the four metadata files; the transactions list three of
them each, in the order in which they are written and restored. Whether the script began is
known to the host from its output (`started`) or from the intent the guest has written. In a
running VM (`vm`) the script may go on after ssh has failed or zaigr was killed; a temporary
VM dies with its command. A script whose connection failed before its first line may still
begin until the host has looked for the intent, and not after that.

### RunningVM

A boot has a number that stands for its QEMU process, socket and port; `socket` and `sshPort`
are the files of the runtime directory, `alive` the processes that really run. Detection
(`Detect`, `DetectAgain`) sees the socket; a stale one is cleared in a later step, as in the
code. The exact-IP sync reads `saved`, writes `attempted`, runs the guest's script in the order
of `zaigr-inside firewall sync-ips` (allow, drop, close connections) and writes `applied`.
`rules` is what the guest allows now, `disk` what reached its image, `flows` its connections:
a rule removed from the list keeps its connections until the script has closed them.

A script is the child of an ssh and not of zaigr, and `zaigr-inside` takes no lock: when its
command is killed or its connection lost, the script becomes an orphan (`Abandoned`), that goes
on step by step, or stops anywhere, until its VM ends. One orphan alone does no harm, for what
it may allow is on the attempted list. If it changes the rules after a later sync was sent
(`overtaken`, `disturbed`), the records are false and the guest may allow what no list has:
`project vm exec` then enters a guest that is not reconciled, against the comment at
`vm_project_firewall_ip.go` 249. `RecordsAreTrue` and `GuestIsOnRecord` except what follows
(`~disturbed`); without that exception TLC violates both.

Each root session installs a rule of its own, and a timer in the guest removes it 31 minutes
later, whether the session has ended or not (`ExpireAllowAll`, `expired`). So a long session is
cut off; what `RootRulesAreTheirOwn` says is that nothing else cuts it off, and that a rule
outlives its session only when the command was killed.

Assumptions. Two QEMUs cannot open one image (its lock is QEMU's). Connections made under a
leftover rule between boot and the first sync are excepted (`leftover`). Recovery, captures and
presets are other modules'.

### HostAccess

`store` and `backup` are the directories of each project; a claim is a path and the device that
was behind it. Saving a device takes the owners lock, lists all directories (`Listing`), scans
them and writes; the listing may name a directory that a legacy clean renames meanwhile, and
what is then missing is an error, as in the code. Activation takes the claims one by one:
opened in QEMU (`vm.open`), attached in the guest, recorded (`record.active`). Refused commands
are not steps, so the gate, `requireProject` and the host-access lock are taken in one.

What is bounded away: one shell creates a given project at a time (two would share one
directory, and the failing one's `RemoveAll` takes the other's grants with it). The histories
`granted` and `exists` start again when the user agrees to create a project, also when what
is there is the backup of an interrupted legacy clean: the shell does not recover it, and the
next recovery deletes it. With two faults, a directory sync and then the rollback (line 635),
recovery keeps the partial new store and deletes the backup; `ProjectIsRecoverable` is
checked with one. `host-access show`, the cleaning of device aliases and the clean of a
current-format project (`ImageReplacement`) are left out.

### BaseImages

`manifest` is `current.json`; `source` and `ready` are the source image of each revision and
the backing images made of it for a runtime and an account. `project` holds, for each store,
the backing its image really stands on, the setups it really has, its pin and its records. A
setup run on the base reads the manifest under `mutation.lock`, builds a revision, seals it
and publishes it; the account preparation and a reset do the same with less. The batch
previews every project, then takes them one at a time: gate, recheck, VM stop, selection,
build, replacement, and the way back to the directory it was called in (`Return`). When that
fails (`vm_global_projects_rebuild.go` 616) the project is reported as failed although its new
image is in place. `selected`, `ignored`, `stopped` and `replaced` are not in the code: they are
what `SummaryIsTrue` compares the lists of the summary with.

What is coarse: the preview reads a project in one step; boots, root sessions, captures and
recovery are one step under the gate; replacement is one step and a killed one leaves what
recovery will make of it in `interrupted`. Disk sizes, damaged sources, staging directories
and old revisions (never removed) have no state. zaigr run as root (uid 0), for which no base
is prepared whatever the manifest says, and a project directory that is gone, which is skipped,
are left out. A publication that fails in the last
directory sync has selected its revision all the same (`PublishFailsLate`).

### DomainFirewall

`globals` is the account's list, edited without any lock and rewritten in place (so for a moment
empty); `project` the entries of the project's setups; `applied` the account entries the store
says the guest was given; `marker` the digest of the lists synced in this boot; `allowed` the
guest's list and `disk` what of it is in the image. A sync reads the three lists, writes the
project's list back, runs its script, waits for a stable connection, writes the marker, then
`applied`. One command that syncs or runs a setup is let go at a time (`Serial`), for those
read and write the same lists without a lock.

The code has no record of an attempt here, unlike the exact-IP sync. When the command ends, or
the connection does not become stable, after the script and before `applied` is written, an
entry removed from the account's list afterwards stays in the guest for good; and when it was
a removal that was cut, a marker of the earlier lists lets a later sync be skipped although
an entry, listed again, is missing. Two syncs at once have the same effect without a
failure. `torn` is the history of the entries in such doubt, until a full sync has covered
them, and `failed` that of the entries which failed setups have left in the guest; both
properties except them. `EntriesAreOnRecord` adds that `torn` is empty without a fault: edits,
boots, stops and new images alone cut no sync. `global-firewall-applied` is rewritten in place
and is one step here (`Record`): a kill in the middle of the write leaves an empty or partial
list, but each entry lost with it is one that the sync touched or that is the project's own, so
`torn` covers it. What the guest's daemon does with
the list is outside.

## Runs

| Run | Constants | Shows |
| --- | --- | --- |
| `ReplacementAtomic` | 2 files (one truncated), 3 replacements, 4 faults | `ProjectIsWhole`, `RecoveredClean`, `OneFaultIsRecoverable`, the inductive invariant, refinement of `AtomicReplacement`, and `RecoveryCompletes` under fairness |
| `ReplacementTwoFaults` | 1 replacement, 2 faults | `RecoveryNotRefused` is violated |
| `GateReplacement` | 3 processes, all commands but accept, 2 images, 2 kills | transactions and recoveries exclude each other, success means published, no replacement under a capture |
| `GateSetup` | 3 processes, all commands but host access, 2 images, 1 kill, one accept or discard at a time | no VM start and no setup run works under a capture |
| `GateAcceptRecovered` | accept and host access, 2 processes | `SuccessMeansPublished` is violated |
| `DirectSetup` | 2 setups, one of them in two versions, 2 faults, setup run and host access | `NoSilentSetup`, `AppliedIsComplete`, `NoteNeedsExecution`, `NothingPending`, `RecordFollowsRun` |
| `DirectSetupShell` | the same with setup run and shell, 1 fault | `NoSilentSetup` is violated |
| `RunningVM` | 2 processes, 1 address, 2 boots, 1 change of the list, 1 fault | `RecordsAreTrue`, `GuestIsOnRecord`, `RootWorkIsMarked`, `RootRulesAreTheirOwn` |
| `RunningVMDetected` | 2 shells, 2 boots, no fault | `RunningVMIsDetected` is violated |
| `HostAccess` | 2 processes, 2 projects, 1 path, 2 devices, 1 port, 1 fault, 1 replug | `ExclusiveOwnership`, `OpenIsReserved`, `ForwardsAreSaved`, `GrantsAreKept`, `ProjectIsRecoverable` |
| `BaseImages` | 2 processes, 2 projects, 2 setups, 2 revisions, 2 runtimes, 2 commands and 2 changes but 3 together, 1 fault | `SelectionIsWhole`, `BaseKeepsSetups`, `ProjectsMatchBacking`, `RebuildsAtRest`, `ChangesAreKept`, `RebuildKeepsSetups`, `SummaryIsTrue` |
| `DomainFirewall` | 2 processes, 2 domains, 3 edits, setups or replacements, 1 fault | `EntriesAreOnRecord`, `SyncIsExact` |

In short, the properties of the later modules: what the host has recorded of a running guest is
true, and whatever the guest allows is on some record, but for what the code itself loses track
of (`RunningVM`, `DomainFirewall`); a device has one owner, and what a VM has open is reserved
(`HostAccess`); the selected base is whole and loses setups only by a reset, each project
matches the image it stands on, and a batch neither loses changes nor reports what it did not
do (`BaseImages`).

Bounds. Two metadata files tell apart "all", "some" and "none", and the truncated one is
different from the other. Three replacements let an old backup, an old snapshot and a new image
be three generations. Four faults reach a fault in the recovery of a failed recovery; the
violations need two. Three processes allow one to hold a lock, one to wait between check and
lock, and one to change what was checked. Two versions of a setup are needed for the old record
that a failed new version keeps; two names for one setup to disturb another. The number of
commands is not bounded, only the images built and the faults (and in `BaseImages` the
commands). One address is enough for `RunningVM`, whose lists are compared address by address;
one change adds or removes it (it may be saved from the start), and two commands with one fault
let an orphan of the one go on beside the sync of the other; two boots let a command outlive
its VM. Two projects in `HostAccess` want the one path, behind which two devices change places:
their claims conflict by the path, and by the device when it is the same. Two paths that name
one device do not occur in the run; `OwnershipIsExclusive` is proved for any paths. Two
projects in `BaseImages` let a batch go on after one of them; while both are there, they share
one command and one change (`Within`), for projects meet only in the lists of the batch. Two
revisions and two runtimes give four backing images besides the accounts'; two commands race
for the base or the base and a project, and two changes let a VM be booted and entered as root
while a batch runs. Two domains in `DomainFirewall`: one to be listed twice (by the account and
by a setup) and one to differ; three changes are an addition, a removal and a setup or a new
image in between; one fault cuts a sync or ends the VM under it. Deadlock is not checked where
the bounds stop the system: a user may always start no further command.

Fairness. `FairSpec` of `ImageReplacement` says that a command that was started and is not
killed goes on: its steps are ordinary system calls, and no step waits for another process.
Nothing makes a user start a command, so `StartCommand` and `Crash` have no fairness, and
`RecoveryCompletes` speaks of a command that has begun to recover.

## What the violations say

The passing runs keep to conditions (a bound on faults, a lock that every command takes). Each
violation run drops one of them, and shows what the code then does; the findings in
`PROJECT.json` quote what the repository says instead:

1. A recovery, rollback or early exit cannot be repeated (`vm_project_rebuild.go` 352-371,
   550-577): after a second fault the backup is gone and the journal still asks for it, and
   every later command is refused, although the image is whole (`ReplacementTwoFaults`).
2. Host access (and capture start and setup run) recover under the *shared* gate, beside a
   capture accept that publishes under the shared gate: a live transaction is rolled back and
   reported as a success (`vm_host_access.go` 92; `GateAcceptRecovered`).
3. Shell applies setups without recovering; its intent replaces the intent of an interrupted
   setup (`vm_qemu.go` 368; `DirectSetupShell`).
4. Two shells that both found no VM: the second one removes the runtime directory of the VM
   the first has booted (`vm_qemu.go` 634), which no later command finds
   (`RunningVMDetected`).

The models show more, for which there is no run; the modules' sections and the hazards name
the instances:

- a commit whose journal write fails after its rename is rolled back while the disk calls it
  committed; a second fault in that rollback leaves a mixed project (`vm_project_rebuild.go`
  587; `ProjectIsWhole` without its exception);
- a sync script left behind by a killed command or a lost connection goes on beside a later one
  (`vm_project_firewall_ip.go` 222, against the comment at 249; `RecordsAreTrue` and
  `GuestIsOnRecord` without `~disturbed`);
- a root session that lasts longer than 31 minutes loses its rule (`vm_firewall_root.go` 69);
- a batch reports a project as failed whose new image is in place
  (`vm_global_projects_rebuild.go` 616; `SummaryIsTrue` with `failed` and `replaced` disjoint);
- clean and rebuild look for a capture before the recovery that may restore one
  (`vm_project.go` 344, 399; `ReplacementExcludesCapture` with accept, clean and one kill);
- the stale overlay is removed on the strength of a record read earlier (`vm_project_lock.go`
  295; `CaptureKeepsOverlay` with capture start and host access);
- a cut domain sync is forgotten (`vm_project.go` 930; `SyncIsExact` without `torn`).

Without 2 and 3, and without accept beside host access, the exclusions hold, which is what
`GateReplacement` (no accept) and `GateSetup` (no host access) show. Two more
races are bounded away and noted as hazards: two accepts, or an accept and a discard, at once.

## Proofs

Every safety property and action property that a passing run checks is a theorem here, for
every value of the constants that the module's assumptions admit. A theorem that is true of
some commands only, or up to some fault, says so in its hypothesis; each hypothesis is what
the configuration of the run chooses too, so that TLC visits states that satisfy it.

| Module | Theorems (property) | Hypothesis |
| --- | --- | --- |
| `ImageReplacementProofs` | `TypeCorrect`, `OneFaultAlwaysRecoverable` (`OneFaultIsRecoverable`), `InvariantHolds` (`InductiveInvariant`), `ProjectAlwaysWhole`, `RecoveryAlwaysClean`, `ImplementsAtomicReplacement` | none |
| `ProjectGateProofs` | `TypeCorrect` | none |
| | `ReplacementMeetsNoCapture`, `SuccessIsPublished`, `RecoveryMeetsNoTransaction` | `NoAccept` |
| | `WorkMeetsNoCapture` (`WorkExcludesCapture`) | `OneEndNoHostAccess` |
| `DirectSetupProofs` | `TypeCorrect`, `NoteAlwaysNeedsExecution` | none |
| | `NeverSilent`, `RecordsAreComplete`, `WorkStartsClean`, `RecordsFollowRuns` | `Recovering` |
| `RunningVMProofs` | `TypeCorrect`, `RecordsAlwaysTrue`, `GuestAlwaysOnRecord`, `RootWorkAlwaysMarked`, `RootRulesAlwaysTheirOwn` | none |
| `HostAccessProofs` | `TypeCorrect`, `OwnershipIsExclusive` | none |
| `HostAccessStoreProofs` | `OpenAlwaysReserved`, `ForwardsAlwaysSaved` | none |
| | `GrantsAlwaysKept`, `ProjectAlwaysRecoverable` | `OneFault` |
| `BaseImagesProofs` | `TypeCorrect`, `SelectionAlwaysWhole`, `BaseAlwaysKeepsSetups`, `ProjectsAlwaysMatchBacking`, `RebuildsAlwaysAtRest`, `ChangesAlwaysKept`, `RebuildAlwaysKeepsSetups`, `SummaryAlwaysTrue` | none |
| `DomainFirewallProofs` | `TypeCorrect` | none |
| | `AllowedIsNamed` (`EntriesAreOnRecord`), `SyncLeavesTheLists` (`SyncIsExact`) | `SyncsAreSerial` |

All modules but the first share one layout. `TypeOK` is not inductive there: a step could not
be typed without knowing that what a command has read, and the locks it holds, fit the step it
is at. `TypeInv` adds this (`ControlOK` for the commands and locks, `WorldOK` for the files and
the guest). The invariant of a property is `TypeInv` and one conjunct for each thing its steps
rely on; the lemmas show what a group of actions leaves alone, so that the proof of a step
only looks at the actor and at what it writes. None of the properties below is inductive by
itself: each says nothing of a command that has checked something and has not yet used it.

**ImageReplacement.** `ProjectIsWhole` says nothing while a command runs. `InductiveInvariant`
says that at every moment the disk stands for one generation `g`, in one of three ways: `g` is
in place without a journal (`Settled`), a journal that is not committed holds `g` in its
snapshots and in the backup or the untouched image (`Journaled`), or the journal is committed
and `g` is in place (`Committed`); and `AtStep(g)` says what the running command has already
done to it. There is a lemma for each of recovery, publication and undoing, with one step per
action; `g` stays the same in all of them but `JournalMetadata`, where it becomes the new
generation, which `Older` makes a step of `AtomicReplacement`. A commit that fails after its
rename puts `g` in doubt (`InDoubt`): its rollback is on its way back to `g` (`RollingBack`), or
a second fault has struck (`Interrupted`), and then the invariant only keeps what makes the next
commit a newer generation. `OneFaultIsRecoverable` has an invariant of
its own, `OneFaultInv`: before any fault nothing is undone
and a journal relies on a backup only when it is there (`Undisturbed`, `Prepared`); after the
first fault the undoing it led to runs to its end, for only a second fault could stop it
between the use of the backup and the removal of the journal.

**ProjectGate.** That recovery excludes transactions follows from the locks alone when no
command accepts a capture (`NoAccept`), for then all who publish are alone in the gate.
`Replacing` says what a replacement knows inside the gate: no capture, its own candidate and
later its own image, and no journal that could bring a capture back. For setups
(`OneEndNoHostAccess`: no host access, one accept or discard at a time) `Knowing` says what a
command knows of the capture since its last look at it, and that a journal which keeps
metadata keeps an active capture with its commands (`Full`), so that a recovery never makes
half a capture.

**DirectSetup.** `NoteNeedsExecution` holds of every command and also with late failures, since
until a script has executed nothing, on disk or in memory, claims that one has (`Witnessed`).
The others need commands that recover first and a commit that does not fail late
(`Recovering`; finding 3 shows what shell does otherwise). `Stored` is the metadata as recovery
would leave it; `Sound` says that without a failure note only the setup of the pending intent
may run or disagree with its record, and `Settled`, `Attempted`, `Opened` and `Progress` say
how far attempt, transaction and restore have come.

**RunningVM.** Any commands may run at any time. `BootsOK` numbers the boots: the number of a
boot in preparation is known to no one else. `AddressesOK` says that a script works on the
saved list, what it has done of it so far, and that the attempt is on record before it begins
(`ScriptFits`); an orphan that no later script has been sent beside works within the same
attempt (`OrphanFits`). That works because `.firewall-ips` is held by everyone who changes the
list or sends a script, and because an attempted list is cleared only by a script that was sent
and succeeded. From the moment an overtaken orphan changes the rules, nothing is claimed of them
(`RecordsFit` under `~disturbed`). `Sessions` is the invariant of the
properties of root.

**HostAccess.** `OwnershipInv` adds to `ExclusiveOwnership` that steps under the owners lock hold it
(`OwnersHeld`), that the claims they have still to write conflict with nobody's
(`WritesClear`), that a scan in progress has every directory with claims on its list
(`ScansAll`), that the claims of a staged store are its own project's (`StagedInDir`), and that
a directory which is not there has none (`ClaimsInDirs`). Each step of a command is `Moved`
(what it then has still to write is clear, and it touches no other command's locks) and `Kept`
(it adds no claim but the ones it had to write, and while another command holds the owners lock
it neither adds nor moves claims); `OwnershipKept` concludes from both. `UseInv` is about the
project's gate and lock (`Order`): what a command has read still holds (`Uses`) and a VM uses
only what its store has (`VMSound`); `Harmless` bounds what a step may do to others. `KeepInv`
says that a clean always has a whole directory to fall back on and a delete the grants it may
have to write back (`Saves`, `MainKept`). Its hypothesis `OneFault` (`MaxFaults <= 1`) is
needed: two faults lose the grants at line 635, see `HostAccess` above.

**BaseImages.** `BuildInv`: who builds a revision holds the mutation lock and has the base it
began with, which has every setup selected since (`BuildersLock`, `Builds`), and the image a
manifest names is whole (`Sound`), for the manifest and for every copy that a command has read.
`StoreInv`: a command that has taken a project has its gate and what it looked at still holds
(`Holds`), a store is true of its image (`StoreSound`), also the one that a killed replacement
has left to recovery; `StoreWriters` lists the only ways in which a store changes. The summary
has an invariant that needs neither, `TellInv`: each project the batch was asked for is in one
of its lists, before its turn or in its hands (`Accounts`), and only those it has taken have been
stopped or replaced (`Reached`).

**DomainFirewall.** With one syncing command at a time (`SyncsAreSerial`) the project's list and
the record are as the sync read them (`ReadIsKept`) while the account's list may have been
edited; what a sync has given is in the guest (`GivenIsThere`), what the guest allows is on
record when none has given (`RestIsOnRecord`), and the marker is true but for what the sync
under way takes off (`MarkerIsTrue`). `NothingCut` says that without a fault the VM runs on under
a sync, since what stops it has the gate alone.

What the proofs rest on: `ReplacementAssumption`, `HostAccessAssumption`, `BaseImagesAssumption`
and the like state the types of the constants and that the special values (`None`, `Nobody`,
`NoJournal`) are none of the others; TLC evaluates them in every run.

Model-checked only: `RecoveryCompletes`, since liveness under fairness is out of the prover's
reach. The violations are TLC's as well.

## Plan

Done: all modules above and the theorems for each. What is left, in the order of importance:

1. `DirectSetup` for several commands under the shared gate (shell beside setup run, recovery
   beside a live setup), and its properties proved for them.
2. Attached captures: review, the capture's allow-all rule, two accepts at once.
3. Refinement of single steps: that the replacement and the boot taken as one step in
   `BaseImages`, `HostAccess` and `DomainFirewall` are what the detailed modules prove.
4. Pure algorithms against reference definitions: `setupExecutionStartWriter`, the apt scan.

## Not modelled

Loss of power with unsynchronised directories (operations that returned stay done), file
contents and formats, the prompts, the QEMU and ssh command lines, logging, completion, the
guest programs (other than the effects of the scripts zaigr runs in them) and the release
scripts. Of modelled components: shell-session markers, parent projects, `project vm
set-config`, `global projects list`, `status` and `kill`, `host-access show`, captures
attached to a running VM. Components that only report (status, image mismatch), ask (local
setups) or extract embedded files have no protocol to check; `PROJECT.json` lists each with its
reason.
