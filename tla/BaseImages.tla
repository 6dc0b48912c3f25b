---------------------------- MODULE BaseImages -----------------------------
(***************************************************************************)
(* The global base image and the projects built on it: global base-image   *)
(* setup run and reset, the preparation of a base for the account, the     *)
(* selection of a backing image, the creation of a project and global      *)
(* projects rebuild (vm_global_base_image.go, vm_user_uid.go,              *)
(* vm_global_projects_rebuild.go, and buildRebuildCandidate in             *)
(* vm_project_rebuild.go).                                                 *)
(*                                                                         *)
(* A base is a factory image, which comes with a runtime (an edition of    *)
(* zaigr), or a customized revision.  current.json selects a revision.     *)
(* The replacement of a project's image and metadata is one step here: how *)
(* it is made one is ImageReplacement's subject, and a killed replacement  *)
(* leaves what recovery will make of it in `interrupted`.                  *)
(***************************************************************************)
EXTENDS Naturals, FiniteSets

CONSTANTS Procs, Projects, Setups,
          MaxCommands, \* bound on the commands started
          MaxRevisions, MaxRuntimes,
          MaxFaults,   \* bound on killed commands and failing calls
          MaxEvents,   \* bound on commands and changes together
          MaxChanges,  \* bound on VMs, root sessions and captures started, definitions
                       \* added or removed, and upgrades of zaigr
          Nobody, None

Commands == {"setup run", "reset", "create", "batch"}

ASSUME BaseImagesAssumption ==
  /\ {MaxRevisions, MaxRuntimes, MaxCommands, MaxEvents, MaxFaults, MaxChanges} \subseteq Nat
  /\ MaxRevisions > 0 /\ MaxRuntimes > 0
  /\ Nobody \notin Procs /\ None \notin Commands \cup Setups \cup Projects

VARIABLES
  proc,         \* each command: op, at, and what it has read and done
  mutation,     \* the holder of mutation.lock
  expanding,    \* the holder of each backing image's lock
  gate,         \* who holds each project's gate: exclusively, or while creating it
  manifest,     \* current.json
  source,       \* the source image of each revision
  ready,        \* the backing images in place
  project,      \* each project's store: image and metadata
  interrupted,  \* what recovery makes of a store with a replacement journal, or NoStore
  capture,      \* the projects with a pending setup capture
  vm,           \* the projects whose VM runs
  session,      \* the projects with a root session in their VM
  account,      \* the host account: uid 1000 ("default") or another one
  defined,      \* the setups that have a definition
  installed,    \* the runtime of the installed zaigr
  commands, faults, changes

locks == <<mutation, expanding, gate>>
base == <<manifest, source, ready>>
stores == <<project, interrupted>>
use == <<capture, vm, session>>
world == <<account, defined, installed, changes>>
vars == <<proc, locks, base, stores, use, world, commands, faults>>

Revisions == 1..MaxRevisions
Runtimes == 1..MaxRuntimes
Users == {"default", "other"}
Backings == ({"factory"} \X Runtimes) \cup ({"custom"} \X Revisions)

\* What is in an image: setups, and the account its user has been made for.
Contents == [setups : SUBSET Setups, user : Users]
Manifests == [revision : 0..MaxRevisions, runtime : 0..MaxRuntimes,
              user : Users \cup {None}, applied : SUBSET Setups]
NoManifest == [revision |-> 0, runtime |-> 0, user |-> None, applied |-> {}]
Sources == [state : {"none", "partial", "whole"}, content : Contents]
Stores == [format : {"none", "partial", "legacy", "current"}, backing : Backings,
           layer : SUBSET Setups, manual : BOOLEAN, \* the image
           pin : Backings, runtime : Runtimes,
           inherited : SUBSET Setups, own : SUBSET Setups, dirty : BOOLEAN]

Steps == {"idle", "base", "backing", "expand", "compact", "seal", "publish", "replace",
          "return", "preview", "next", "recheck", "stop", "resolve"}

TypeOK ==
  /\ proc \in [Procs -> [op : Commands \cup {None}, at : Steps, runtime : Runtimes,
       force : BOOLEAN, outdated : BOOLEAN, setup : Setups \cup {None},
       project : Projects \cup {None}, user : Users \cup {None}, base : Manifests,
       revision : 0..MaxRevisions, own : SUBSET Setups,
       selected : SUBSET Projects, todo : SUBSET Projects, plan : SUBSET Projects,
       ignored : SUBSET Projects, skipped : SUBSET Projects,
       failed : SUBSET Projects, rebuilt : SUBSET Projects,
       stopped : SUBSET Projects, replaced : SUBSET Projects]]
  /\ mutation \in Procs \cup {Nobody}
  /\ expanding \in [Backings -> Procs \cup {Nobody}]
  /\ gate \in [Projects -> Procs \cup {Nobody}]
  /\ manifest \in Manifests /\ source \in [Revisions -> Sources]
  /\ ready \subseteq Backings
  /\ project \in [Projects -> Stores] /\ interrupted \in [Projects -> Stores]
  /\ {capture, vm, session} \subseteq SUBSET Projects
  /\ account \in Users /\ defined \subseteq Setups /\ installed \in Runtimes
  /\ commands \in 0..MaxCommands /\ faults \in 0..MaxFaults /\ changes \in 0..MaxChanges

-----------------------------------------------------------------------------

Ended == [op |-> None, at |-> "idle", runtime |-> 1, force |-> FALSE, outdated |-> FALSE,
          setup |-> None, project |-> None, user |-> None, base |-> NoManifest,
          revision |-> 0, own |-> {}, selected |-> {}, todo |-> {}, plan |-> {},
          ignored |-> {}, skipped |-> {}, failed |-> {}, rebuilt |-> {},
          stopped |-> {}, replaced |-> {}]

NoSource == [state |-> "none", content |-> [setups |-> {}, user |-> "default"]]
NoStore == [format |-> "none", backing |-> <<"factory", 1>>, layer |-> {},
            manual |-> FALSE, pin |-> <<"factory", 1>>, runtime |-> 1, inherited |-> {},
            own |-> {}, dirty |-> FALSE]
Built(format, own, changed) ==
  [NoStore EXCEPT !.format = format, !.layer = own, !.own = own,
                  !.manual = changed, !.dirty = changed]

FirstStores ==
  {NoStore} \cup UNION {{Built("current", {s}, FALSE), Built("legacy", {s}, FALSE),
                         Built("legacy", {s}, TRUE)} : s \in Setups}

\* The factory base, or a revision: customized without a record of the account, or
\* prepared and customized for another one.
Init ==
  /\ proc = [p \in Procs |-> Ended]
  /\ mutation = Nobody /\ expanding = [b \in Backings |-> Nobody]
  /\ gate = [j \in Projects |-> Nobody]
  /\ account \in Users
  /\ \/ manifest = NoManifest /\ source = [v \in Revisions |-> NoSource]
     \/ \E applied \in SUBSET Setups, user \in (Users \ {account}) \cup {None} :
          /\ Cardinality(applied) < 2 /\ (user = None => applied # {})
          /\ manifest = [revision |-> 1, runtime |-> 1, user |-> user, applied |-> applied]
          /\ source = [v \in Revisions |-> IF v > 1 THEN NoSource ELSE
               [state |-> "whole", content |-> [setups |-> applied,
                  user |-> IF user = None THEN "default" ELSE user]]]
  /\ ready = {<<"factory", 1>>}
  /\ project \in [Projects -> FirstStores]
  /\ interrupted = [j \in Projects |-> NoStore]
  /\ capture = {} /\ session = {}
  /\ vm \in SUBSET {j \in Projects : project[j].format = "current"}
  /\ defined = Setups /\ installed = 1
  /\ commands = 0 /\ faults = 0 /\ changes = 0

At(p, step) == proc[p].at = step
Runs(p, op) == proc[p].op = op
Goto(p, step) == proc' = [proc EXCEPT ![p].at = step]
Mine(p) == proc[p].project

Recovered(j) == IF interrupted[j].format = "none" THEN project[j] ELSE interrupted[j]

Released(lock, p) ==
  [key \in DOMAIN lock |-> IF lock[key] = p THEN Nobody ELSE lock[key]]
ReleaseBase(p) ==
  /\ mutation' = IF mutation = p THEN Nobody ELSE mutation
  /\ expanding' = Released(expanding, p)

Leave(p) ==
  proc' = [proc EXCEPT ![p] = Ended] /\ ReleaseBase(p) /\ gate' = Released(gate, p)

\* The batch is done with its project, and goes on with the next one.
Conclude(p, verdict) ==
  /\ proc' = [proc EXCEPT ![p] =
       [verdict EXCEPT !.at = "next", !.project = None, !.user = None,
                       !.base = NoManifest, !.revision = 0, !.own = {}]]
  /\ ReleaseBase(p) /\ gate' = Released(gate, p)

Skip(p) == Conclude(p, [proc[p] EXCEPT !.skipped = @ \cup {Mine(p)}])

\* A mutant: the first failure ends the batch, and the summary is printed.
FailBatch(p) == Conclude(p, [proc[p] EXCEPT !.failed = @ \cup {Mine(p)}, !.plan = {}])

FailProject(p) == Conclude(p, [proc[p] EXCEPT !.failed = @ \cup {Mine(p)}])

\* A failing create removes the store it has made.
Fail(p) ==
  /\ IF Runs(p, "batch") THEN FailProject(p) ELSE Leave(p)
  /\ project' = IF Runs(p, "create") THEN [project EXCEPT ![Mine(p)] = NoStore] ELSE project

Fault == faults < MaxFaults /\ faults' = faults + 1

\* Building, running and copying images fails now and then, and so does cleaning up after
\* a stopped VM, or going back to the directory the batch was called in.
Fails(p) ==
  /\ proc[p].at \in {"backing", "expand", "compact", "seal", "publish", "replace",
                      "resolve", "return"}
  /\ Fault /\ Fail(p)
  /\ UNCHANGED <<base, interrupted, use, world, commands>>

Kill(p) ==
  /\ ~At(p, "idle") /\ Fault /\ Leave(p)
  /\ UNCHANGED <<base, stores, use, world, commands>>

-----------------------------------------------------------------------------
(* readGlobalBaseManifest and ensureHostUserBaseLocked                     *)

\* The prepared factory image of another runtime stands for nothing, ...
Disposable(p) ==
  /\ manifest.runtime # proc[p].runtime
  /\ manifest.user # None /\ manifest.applied = {}

Customized(p) == manifest # NoManifest /\ ~Disposable(p)

\* ... a customized base of another runtime, or without its image, is refused, ...
Unusable(p) ==
  /\ Customized(p)
  /\ manifest.runtime # proc[p].runtime \/ source[manifest.revision].state = "none"

Current(p) == IF Customized(p) THEN manifest ELSE NoManifest

\* ... and so is one with the setups of another account.
OtherAccounts(p) == Customized(p) /\ manifest.user \notin {None, account}
Refused(p) == Unusable(p) \/ (OtherAccounts(p) /\ manifest.applied # {})

NeedsPreparation(p) ==
  IF Customized(p) THEN OtherAccounts(p) ELSE account # "default"

-----------------------------------------------------------------------------
(* The commands start                                                      *)

\* The bounds are for one project: each further one takes the place of one command and
\* of one change.
Further == Cardinality({j \in Projects : Recovered(j).format # "none"}) - 1
Within(count, max) ==
  count < max /\ count + Further < max /\ commands + changes < MaxEvents

Begin(p) == At(p, "idle") /\ Within(commands, MaxCommands) /\ commands' = commands + 1

StartSetupRun(p) ==
  /\ Begin(p)
  /\ \E s \in defined :
       proc' = [proc EXCEPT ![p] = [Ended EXCEPT !.op = "setup run", !.at = "base",
                                      !.runtime = installed, !.setup = s]]
  /\ UNCHANGED <<locks, base, stores, use, world, faults>>

StartReset(p) ==
  /\ Begin(p)
  /\ proc' = [proc EXCEPT ![p] = [Ended EXCEPT !.op = "reset", !.at = "base",
                                               !.runtime = installed]]
  /\ UNCHANGED <<locks, base, stores, use, world, faults>>

\* cmdInitWithValues: the configuration makes the project an initialized one.
StartCreate(p) ==
  /\ Begin(p)
  /\ \E j \in Projects :
       /\ Recovered(j).format = "none" /\ gate[j] = Nobody
       /\ project' = [project EXCEPT ![j].format = "partial"]
       /\ gate' = [gate EXCEPT ![j] = p]
       /\ proc' = [proc EXCEPT ![p] = [Ended EXCEPT !.op = "create", !.at = "base",
                                         !.runtime = installed, !.project = j]]
  /\ UNCHANGED <<mutation, expanding, base, interrupted, use, world, faults>>

\* Selected projects, all of them, or the outdated ones.
StartBatch(p) ==
  /\ Begin(p)
  /\ \E some \in SUBSET {j \in Projects : project[j].format # "none"},
        force, outdated \in BOOLEAN :
       /\ some # {}
       /\ proc' = [proc EXCEPT ![p] = [Ended EXCEPT !.op = "batch", !.at = "preview",
                     !.runtime = installed, !.force = force, !.outdated = outdated,
                     !.selected = some, !.todo = some]]
  /\ UNCHANGED <<locks, base, stores, use, world, faults>>

-----------------------------------------------------------------------------
(* The global base                                                         *)

\* A mutant: the lock is not waited for, and nothing tells.
MutationIgnored == TRUE

MutationFree == mutation = Nobody

Reset(p) ==
  /\ At(p, "base") /\ Runs(p, "reset") /\ MutationFree
  /\ manifest' = NoManifest
  /\ Leave(p)
  /\ UNCHANGED <<source, ready, stores, use, world, commands, faults>>

RefuseBase(p) ==
  /\ At(p, "base") /\ ~Runs(p, "reset") /\ MutationFree /\ Refused(p)
  /\ Fail(p)
  /\ UNCHANGED <<base, interrupted, use, world, commands, faults>>

\* The factory image is prepared for the account, under the same lock.
Prepare(p) ==
  /\ At(p, "base") /\ ~Runs(p, "reset") /\ MutationFree
  /\ ~Refused(p) /\ NeedsPreparation(p)
  /\ mutation' = p
  /\ proc' = [proc EXCEPT ![p].at = "backing", ![p].base = NoManifest, ![p].user = account]
  /\ UNCHANGED <<expanding, gate, base, stores, use, world, commands, faults>>

\* A setup run that is not forced leaves out what is applied already.
AlreadyApplied(p) == Runs(p, "setup run") /\ proc[p].setup \in Current(p).applied

\* A setup run keeps the lock; a project has read what it needs.
Select(p) ==
  /\ At(p, "base") /\ ~Runs(p, "reset") /\ MutationFree
  /\ ~Refused(p) /\ ~NeedsPreparation(p)
  /\ \/ AlreadyApplied(p) /\ Leave(p)
     \/ /\ proc' = [proc EXCEPT ![p].at = "backing", ![p].base = Current(p)]
        /\ mutation' = IF Runs(p, "setup run") THEN p ELSE mutation
        /\ UNCHANGED <<expanding, gate>>
  /\ UNCHANGED <<base, stores, use, world, commands, faults>>

BackingOf(selection, runtime) ==
  IF selection = NoManifest THEN <<"factory", runtime>>
  ELSE <<"custom", selection.revision>>
Backing(p) == BackingOf(proc[p].base, proc[p].runtime)

BuildsBase(p) == Runs(p, "setup run") \/ proc[p].user # None

\* A base is built in the VM of a staging directory that nobody else reads, a project's
\* image in the overlay of a candidate.
WithBacking(p) == IF BuildsBase(p) THEN "compact" ELSE "replace"

\* ensureSharedBaseImage, ensureCustomBaseVariant: look, lock, and look again.
FindBacking(p) ==
  /\ At(p, "backing")
  /\ IF Backing(p) \in ready THEN Goto(p, WithBacking(p)) /\ UNCHANGED expanding
     ELSE /\ expanding[Backing(p)] = Nobody
          /\ expanding' = [expanding EXCEPT ![Backing(p)] = p]
          /\ Goto(p, "expand")
  /\ UNCHANGED <<mutation, gate, base, stores, use, world, commands, faults>>

\* The image is made beside its place, and renamed into it.
Expand(p) ==
  /\ At(p, "expand")
  /\ ready' = ready \cup {Backing(p)}
  /\ expanding' = [expanding EXCEPT ![Backing(p)] = Nobody]
  /\ Goto(p, WithBacking(p))
  /\ UNCHANGED <<mutation, gate, manifest, source, stores, use, world, commands, faults>>

ContentOf(backing) ==
  IF backing[1] = "factory" THEN [setups |-> {}, user |-> "default"]
  ELSE source[backing[2]].content

\* The factory image is prepared first, and the setup is run on the result.
Prepares(p) == proc[p].user # None
Added(p) == IF Prepares(p) THEN {} ELSE {proc[p].setup}
Content(p) ==
  [setups |-> ContentOf(Backing(p)).setups \cup Added(p),
   user |-> IF Prepares(p) THEN proc[p].user ELSE ContentOf(Backing(p)).user]

\* A mutant: there is room for one more.
FreshOffByOne == {v \in 1..MaxRevisions + 1 : v \notin Revisions \/ source[v].state = "none"}

\* A revision is named for the time, and used once.
Fresh == {v \in Revisions : source[v].state = "none"}

\* qemu-img writes into the revision's directory.
Compact(p) ==
  /\ At(p, "compact")
  /\ \E v \in Fresh :
       /\ \A u \in Fresh : v <= u
       /\ source' = [source EXCEPT ![v] = [state |-> "partial", content |-> Content(p)]]
       /\ proc' = [proc EXCEPT ![p].at = "seal", ![p].revision = v]
  /\ UNCHANGED <<locks, manifest, ready, stores, use, world, commands, faults>>

Published(p) ==
  [revision |-> proc[p].revision, runtime |-> proc[p].runtime,
   user |-> IF Prepares(p) THEN proc[p].user ELSE proc[p].base.user,
   applied |-> proc[p].base.applied \cup Added(p)]

\* A mutant: the image is selected before it is whole.
SealSelected(p) ==
  /\ At(p, "seal") /\ manifest' = Published(p)
  /\ source' = source /\ Goto(p, "publish")
  /\ UNCHANGED <<locks, ready, stores, use, world, commands, faults>>

Seal(p) ==
  /\ At(p, "seal")
  /\ source' = [source EXCEPT ![proc[p].revision].state = "whole"]
  /\ Goto(p, "publish")
  /\ UNCHANGED <<locks, manifest, ready, stores, use, world, commands, faults>>

\* After the preparation, the base is the prepared one, and the command goes on.
Publish(p) ==
  /\ At(p, "publish")
  /\ manifest' = Published(p)
  /\ IF Prepares(p)
     THEN /\ proc' = [proc EXCEPT ![p].at = "backing", ![p].user = None,
                                  ![p].revision = 0, ![p].base = Published(p)]
          /\ mutation' = IF Runs(p, "setup run") THEN mutation ELSE Nobody
          /\ UNCHANGED <<expanding, gate>>
     ELSE Leave(p)
  /\ UNCHANGED <<source, ready, stores, use, world, commands, faults>>

\* The directory sync after the rename fails.
PublishFailsLate(p) ==
  /\ At(p, "publish") /\ Fault
  /\ manifest' = Published(p) /\ Fail(p)
  /\ UNCHANGED <<source, ready, interrupted, use, world, commands>>

-----------------------------------------------------------------------------
(* The preview of a batch: preflightGlobalRebuild                          *)

\* A mutant: the marker is looked at for the preview only.
DirtyPreviewed(p, j) == At(p, "preview") /\ project[j].dirty /\ ~proc[p].force

MustKeepChanges(p, j) == project[j].dirty /\ ~proc[p].force

MissingDefinition(j) == ~(project[j].own \subseteq defined)

\* The runtime and the backing image are those of the current base.
Outdated(p, j) ==
  \/ project[j].format = "legacy"
  \/ project[j].runtime # proc[p].runtime
  \/ project[j].pin # BackingOf(Current(p), proc[p].runtime)

\* globalRebuildMetadataBlocker sees the journal of an image replacement, and not the
\* backup of a legacy store.
JournalPending(j) == interrupted[j].format # "none" /\ project[j].format = "current"
Inspectable(p, j) ==
  /\ ~JournalPending(j) /\ project[j].format \in {"legacy", "current"} /\ ~Unusable(p)

Preview(p) ==
  /\ At(p, "preview")
  /\ \E j \in proc[p].todo :
       LET ignored == Inspectable(p, j) /\ proc[p].outdated /\ ~Outdated(p, j)
           eligible == /\ Inspectable(p, j) /\ ~MissingDefinition(j)
                       /\ j \notin capture /\ ~MustKeepChanges(p, j) /\ gate[j] = Nobody
       IN proc' = [proc EXCEPT ![p].todo = @ \ {j},
                     ![p].ignored = IF ignored THEN @ \cup {j} ELSE @,
                     ![p].plan = IF ~ignored /\ eligible THEN @ \cup {j} ELSE @,
                     ![p].skipped = IF ignored \/ eligible THEN @ ELSE @ \cup {j}]
  /\ UNCHANGED <<locks, base, stores, use, world, commands, faults>>

\* With nothing to rebuild the batch ends, and the user may cancel it.
Confirm(p) ==
  /\ At(p, "preview") /\ proc[p].todo = {}
  /\ \/ Leave(p)
     \/ /\ proc[p].plan # {} /\ UNCHANGED locks
        /\ proc' = [proc EXCEPT ![p].at = "next", ![p].outdated = FALSE]
  /\ UNCHANGED <<base, stores, use, world, commands, faults>>

-----------------------------------------------------------------------------
(* One project of a batch: executeGlobalRebuild                            *)

\* The exclusive lock, the recovery of a legacy store, and then the checks again.
TakeProject(p) ==
  /\ At(p, "next")
  /\ \E j \in proc[p].plan :
       IF gate[j] # Nobody \/ JournalPending(j) \/ j \in capture
       THEN /\ proc' = [proc EXCEPT ![p].plan = @ \ {j}, ![p].skipped = @ \cup {j}]
            /\ UNCHANGED <<locks, stores>>
       ELSE /\ proc' = [proc EXCEPT ![p].plan = @ \ {j}, ![p].project = j,
                                    ![p].at = "recheck"]
            /\ gate' = [gate EXCEPT ![j] = p] /\ UNCHANGED <<mutation, expanding>>
            /\ project' = [project EXCEPT ![j] = Recovered(j)]
            /\ interrupted' = [interrupted EXCEPT ![j] = NoStore]
  /\ UNCHANGED <<base, use, world, commands, faults>>

Recheck(p) ==
  LET j == Mine(p) IN
  /\ At(p, "recheck")
  /\ IF Inspectable(p, j) /\ ~MissingDefinition(j) /\ ~MustKeepChanges(p, j)
     THEN Goto(p, "stop") /\ UNCHANGED locks
     ELSE Skip(p)
  /\ UNCHANGED <<base, stores, use, world, commands, faults>>

\* A mutant: the error is reported, and the rebuild goes on.
StopFailureIgnored(p) == Goto(p, "resolve") /\ UNCHANGED locks

StopFailed(p) == FailProject(p)

\* Stopped gracefully, or not: the monitor or the guest does not answer.
StopVM(p) ==
  LET j == Mine(p) IN
  /\ At(p, "stop")
  /\ \/ /\ vm' = vm \ {j} /\ session' = session \ {j}
        /\ proc' = [proc EXCEPT ![p].at = "resolve",
                                ![p].stopped = IF j \in vm THEN @ \cup {j} ELSE @]
        /\ UNCHANGED <<locks, faults>>
     \/ j \in vm /\ Fault /\ StopFailed(p) /\ UNCHANGED <<vm, session>>
  /\ UNCHANGED <<base, stores, capture, world, commands>>

\* A mutant: a setup that is no longer defined is left out.
OwnSetupsDefined(p) == project[Mine(p)].own \cap defined

OwnSetups(p) == project[Mine(p)].own

\* rebuildProjectFromRecordsBatch reads the records and the definitions anew, and looks
\* at the marker again.
Resolve(p) ==
  /\ At(p, "resolve")
  /\ IF OwnSetups(p) \subseteq defined /\ ~MustKeepChanges(p, Mine(p))
     THEN /\ proc' = [proc EXCEPT ![p].at = "base", ![p].own = OwnSetups(p)]
          /\ UNCHANGED locks
     ELSE FailProject(p)
  /\ UNCHANGED <<base, stores, use, world, commands, faults>>

\* A mutant: the pin is that of the base which is selected by now.
PinNow(p) == BackingOf(Current(p), proc[p].runtime)

Pin(p) == Backing(p)

\* The setups of the base are inherited, unless the project runs them itself.
Store(p) ==
  [format |-> "current", backing |-> Backing(p), layer |-> proc[p].own, manual |-> FALSE,
   pin |-> Pin(p), runtime |-> proc[p].runtime,
   inherited |-> proc[p].base.applied \ proc[p].own, own |-> proc[p].own, dirty |-> FALSE]

Replace(p) ==
  /\ At(p, "replace")
  /\ project' = [project EXCEPT ![Mine(p)] = Store(p)]
  /\ IF Runs(p, "create") THEN Leave(p)
     ELSE /\ proc' = [proc EXCEPT ![p].at = "return", ![p].replaced = @ \cup {Mine(p)}]
          /\ UNCHANGED locks
  /\ UNCHANGED <<base, interrupted, use, world, commands, faults>>

\* withGlobalProjectDirectory: the batch goes back to where it was called.
Return(p) ==
  /\ At(p, "return")
  /\ Conclude(p, [proc[p] EXCEPT !.rebuilt = @ \cup {Mine(p)}])
  /\ UNCHANGED <<base, stores, use, world, commands, faults>>

\* A killed replacement is finished or undone by the next recovery.  A legacy store is
\* replaced as a whole, and between two renames it is not there.
KillReplacement(p) ==
  LET j == Mine(p) IN
  /\ At(p, "replace") /\ Runs(p, "batch") /\ Fault
  /\ IF project[j].format = "current"
     THEN /\ \E outcome \in {project[j], Store(p)} :
               interrupted' = [interrupted EXCEPT ![j] = outcome]
          /\ UNCHANGED project
     ELSE \/ project' = [project EXCEPT ![j] = Store(p)] /\ UNCHANGED interrupted
          \/ /\ interrupted' = [interrupted EXCEPT ![j] = project[j]]
             /\ project' = [project EXCEPT ![j] = NoStore]
  /\ Leave(p)
  /\ UNCHANGED <<base, use, world, commands>>

\* The summary: of the whole batch, or of a preview with nothing to rebuild.
Summarizes(p) ==
  proc[p].at \in {"preview", "next"} /\ proc[p].todo = {} /\ proc[p].plan = {}

Report(p) ==
  /\ At(p, "next") /\ Summarizes(p) /\ Leave(p)
  /\ UNCHANGED <<base, stores, use, world, commands, faults>>

-----------------------------------------------------------------------------
(* What else happens to the projects.  The commands are short: each takes  *)
(* the gate of its project, which a rebuild holds, and is one step here.   *)

Quiet(j) == gate[j] = Nobody
Change == Within(changes, MaxChanges) /\ changes' = changes + 1

Recover(j) ==
  /\ Quiet(j) /\ interrupted[j].format # "none"
  /\ project' = [project EXCEPT ![j] = Recovered(j)]
  /\ interrupted' = [interrupted EXCEPT ![j] = NoStore]
  /\ UNCHANGED <<proc, locks, base, use, world, commands, faults>>

Usable(j) == Quiet(j) /\ project[j].format = "current" /\ interrupted[j].format = "none"

Boot(j) ==
  /\ Change /\ Usable(j) /\ j \notin vm \cup capture
  /\ vm' = vm \cup {j}
  /\ UNCHANGED <<proc, locks, base, stores, capture, session, account, defined, installed,
                 commands, faults>>

VMEnds(j) ==
  /\ j \in vm /\ vm' = vm \ {j} /\ session' = session \ {j}
  /\ UNCHANGED <<proc, locks, base, stores, capture, world, commands, faults>>

\* A root session is marked before it begins, and goes on without the gate.
OpenRootSession(j) ==
  /\ Change /\ Usable(j) /\ j \in vm
  /\ session' = session \cup {j}
  /\ project' = [project EXCEPT ![j].dirty = TRUE]
  /\ UNCHANGED <<proc, locks, base, interrupted, capture, vm, account, defined,
                 installed, commands, faults>>

ChangeImage(j) ==
  /\ j \in session
  /\ project' = [project EXCEPT ![j].manual = TRUE]
  /\ UNCHANGED <<proc, locks, base, interrupted, use, world, commands, faults>>

StartCapture(j) ==
  /\ Change /\ Usable(j) /\ j \notin vm
  /\ capture' = capture \cup {j}
  /\ UNCHANGED <<proc, locks, base, stores, vm, session, account, defined, installed,
                 commands, faults>>

DiscardCapture(j) ==
  /\ Quiet(j) /\ j \in capture
  /\ capture' = capture \ {j}
  /\ UNCHANGED <<proc, locks, base, stores, vm, session, world, commands, faults>>

\* The user removes a definition, or puts it back.
ChangeDefinition ==
  /\ Change
  /\ \E s \in Setups :
       defined' = IF s \in defined THEN defined \ {s} ELSE defined \cup {s}
  /\ UNCHANGED <<proc, locks, base, stores, use, account, installed, commands, faults>>

\* A new edition of zaigr; the commands that run are of the old one.
Upgrade ==
  /\ Change /\ installed < MaxRuntimes /\ installed' = installed + 1
  /\ UNCHANGED <<proc, locks, base, stores, use, account, defined, commands, faults>>

-----------------------------------------------------------------------------

Command(p) ==
  \/ StartSetupRun(p) \/ StartReset(p) \/ StartCreate(p) \/ StartBatch(p)
  \/ Reset(p) \/ RefuseBase(p) \/ Prepare(p) \/ Select(p) \/ FindBacking(p) \/ Expand(p)
  \/ Compact(p) \/ Seal(p) \/ Publish(p) \/ PublishFailsLate(p)
  \/ Preview(p) \/ Confirm(p) \/ TakeProject(p) \/ Recheck(p) \/ StopVM(p) \/ Resolve(p)
  \/ Replace(p) \/ KillReplacement(p) \/ Return(p) \/ Report(p)
  \/ Fails(p) \/ Kill(p)

ProjectUse(j) ==
  \/ Recover(j) \/ Boot(j) \/ VMEnds(j) \/ OpenRootSession(j) \/ ChangeImage(j)
  \/ StartCapture(j) \/ DiscardCapture(j)

Next ==
  \/ \E p \in Procs : Command(p)
  \/ \E j \in Projects : ProjectUse(j)
  \/ ChangeDefinition \/ Upgrade

Spec == Init /\ [][Next]_vars

-----------------------------------------------------------------------------
(* The safety properties                                                   *)

\* What current.json selects is a whole image with exactly the setups it lists, made
\* for the account it names: whatever command was killed, or wrote it beside another.
SelectionIsWhole ==
  manifest # NoManifest =>
    /\ source[manifest.revision].state = "whole"
    /\ source[manifest.revision].content.setups = manifest.applied
    /\ manifest.user # None => source[manifest.revision].content.user = manifest.user

\* A project's image stands on a backing image that is in place and whole, its pin names
\* that image, and its records tell the setups in it from those of its base: also when
\* the base was reset, rebuilt or replaced by a newer runtime in the meantime.
ProjectsMatchBacking ==
  \A j \in Projects :
    LET built == project[j] IN
    built.format = "current" =>
      /\ built.backing \in ready /\ built.pin = built.backing
      /\ built.backing[1] = "factory" =>
           built.runtime = built.backing[2]
      /\ built.backing[1] = "custom" => source[built.backing[2]].state = "whole"
      /\ built.own = built.layer
      /\ built.inherited = ContentOf(built.backing).setups \ built.own

\* The customized base loses a setup only by a reset: two setup runs at once, the
\* preparation for an account, and another runtime keep what the other has published.
BaseKeepsSetups ==
  [][manifest' # manifest =>
       \/ manifest.applied \subseteq manifest'.applied
       \/ manifest' = NoManifest /\ \E p \in Procs : Runs(p, "reset")]_vars

\* Changes made as root are discarded by a forced rebuild only, also when the root
\* session begins after the preview.
ChangesAreKept ==
  [][\A j \in Projects :
       Recovered(j).manual /\ ~Recovered(j)'.manual =>
         \E p \in Procs : Mine(p) = j /\ At(p, "replace") /\ proc[p].force]_vars

\* While an image is rebuilt, its VM is off and no capture depends on it.
RebuildsAtRest ==
  \A p \in Procs :
    At(p, "replace") /\ Runs(p, "batch") => Mine(p) \notin vm \cup capture

\* A batch rebuild keeps the setups the project runs itself, and never leaves one out
\* because its definition has gone.
RebuildKeepsSetups ==
  [][\A j \in Projects :
       Recovered(j).format \in {"legacy", "current"} =>
         Recovered(j)'.own = Recovered(j).own]_vars

\* The summary of a batch accounts for each project the batch was asked for, in one list
\* (ignored are those that are not outdated, when only those are asked for): one that fails
\* or is skipped does not keep the next one from its turn.  A project listed as rebuilt has
\* got its new image, and a skipped or ignored one keeps its image and its VM.  A failed one
\* may have got its image too: when the batch does not find its way back.
SummaryIsTrue ==
  \A p \in Procs : Summarizes(p) =>
    LET done == proc[p] IN
    /\ done.selected = done.ignored \cup done.skipped \cup done.failed \cup done.rebuilt
    /\ done.ignored \cap (done.skipped \cup done.failed \cup done.rebuilt) = {}
    /\ done.skipped \cap (done.failed \cup done.rebuilt) = {}
    /\ done.failed \cap done.rebuilt = {}
    /\ done.rebuilt \subseteq done.replaced
    /\ (done.ignored \cup done.skipped) \cap (done.replaced \cup done.stopped) = {}
=============================================================================
