-------------------------- MODULE BaseImagesProofs --------------------------
(***************************************************************************)
(* Proofs about BaseImages for every set of processes, projects and        *)
(* setups, and every bound.                                                *)
(***************************************************************************)
EXTENDS BaseImages, TLAPS

-----------------------------------------------------------------------------
(* Type correctness.  A command has read what its step needs: part of what *)
(* makes TypeOK inductive.                                                 *)

Steppings ==
  [op : Commands \cup {None}, at : Steps, runtime : Runtimes,
   force : BOOLEAN, outdated : BOOLEAN, setup : Setups \cup {None},
   project : Projects \cup {None}, user : Users \cup {None}, base : Manifests,
   revision : 0..MaxRevisions, own : SUBSET Setups,
   selected : SUBSET Projects, todo : SUBSET Projects, plan : SUBSET Projects,
   ignored : SUBSET Projects, skipped : SUBSET Projects,
   failed : SUBSET Projects, rebuilt : SUBSET Projects,
   stopped : SUBSET Projects, replaced : SUBSET Projects]

\* A base is being built, or a project on it; a batch has taken a project.
Building == {"backing", "expand", "compact", "seal", "publish"}
Working == Building \cup {"replace"}
Rebuilding == {"base"} \cup Working
Taken == {"recheck", "stop", "resolve", "return"} \cup Rebuilding

\* A manifest names a revision, unless it stands for the factory image.
Names(m) == m # NoManifest => m.revision \in Revisions

Fit(r) ==
  /\ r.at = "idle" => r = Ended
  /\ r.at # "idle" => r.op \in Commands
  /\ r.op = "setup run" => r.setup \in Setups
  /\ r.op = "create" => r.project \in Projects
  /\ r.op = "batch" /\ r.at \in Taken => r.project \in Projects
  /\ r.at \in {"preview", "next", "recheck", "stop", "resolve", "return"}
       => r.op = "batch"
  /\ r.op = "reset" => r.at = "base"
  /\ r.at \in {"compact", "seal", "publish"} => r.op = "setup run" \/ r.user # None
  /\ r.at \in {"seal", "publish"} => r.revision \in Revisions
  /\ r.at = "replace" => r.op \in {"create", "batch"}
  /\ r.at \notin Building => r.user = None
  /\ Names(r.base)

ControlOK ==
  /\ proc \in [Procs -> Steppings] /\ \A p \in Procs : Fit(proc[p])
  /\ mutation \in Procs \cup {Nobody}
  /\ expanding \in [Backings -> Procs \cup {Nobody}]
  /\ gate \in [Projects -> Procs \cup {Nobody}]

BaseWorldOK ==
  /\ manifest \in Manifests /\ Names(manifest) /\ source \in [Revisions -> Sources]
  /\ ready \subseteq Backings /\ account \in Users
  /\ defined \subseteq Setups /\ installed \in Runtimes

ProjectsOK ==
  /\ project \in [Projects -> Stores] /\ interrupted \in [Projects -> Stores]
  /\ capture \subseteq Projects /\ vm \subseteq Projects /\ session \subseteq Projects
  /\ commands \in 0..MaxCommands /\ faults \in 0..MaxFaults /\ changes \in 0..MaxChanges

TypeInv == ControlOK /\ BaseWorldOK /\ ProjectsOK

\* TypeInv says all that TypeOK says.
LEMMA TypesFollow == TypeInv => TypeOK
BY DEF TypeInv, ControlOK, BaseWorldOK, ProjectsOK, TypeOK, Steppings

\* The bounds are numbers, and there is a first runtime.
LEMMA Bounds ==
  /\ MaxRevisions \in Nat /\ MaxRuntimes \in Nat /\ MaxCommands \in Nat /\ MaxFaults \in Nat
  /\ MaxChanges \in Nat /\ 1 \in Runtimes
BY BaseImagesAssumption DEF BaseImagesAssumption, Runtimes

\* The manifest of the factory image, and an empty store.
LEMMA NothingTyped ==
  /\ NoManifest \in Manifests /\ Names(NoManifest) /\ <<"factory", 1>> \in Backings
  /\ NoStore \in Stores /\ NoStore.format = "none" /\ ~NoStore.manual
<1>1. NoManifest \in Manifests /\ Names(NoManifest)
  BY Bounds DEF NoManifest, Manifests, Names
<1>2. <<"factory", 1>> \in Backings
  BY Bounds DEF Backings
<1>3. QED
  BY <1>1, <1>2, Bounds DEF NoStore, Stores

\* A process without a command fits.
LEMMA EndedFits == Ended \in Steppings /\ Fit(Ended)
<1>1. Ended \in Steppings
  BY NothingTyped, Bounds DEF Ended, Steppings, Steps
<1>2. Fit(Ended)
  BY NothingTyped, BaseImagesAssumption
  DEF BaseImagesAssumption, Ended, Fit, Taken, Rebuilding, Working, Building, Commands
<1>3. QED
  BY <1>1, <1>2

\* A command that goes on with another step.
LEMMA ControlStep ==
  ASSUME ControlOK, NEW p \in Procs, NEW r \in Steppings, Fit(r),
         proc' = [proc EXCEPT ![p] = r],
         mutation' \in Procs \cup {Nobody},
         expanding' \in [Backings -> Procs \cup {Nobody}],
         gate' \in [Projects -> Procs \cup {Nobody}]
  PROVE  ControlOK'
<1>1. proc' \in [Procs -> Steppings]
  BY DEF ControlOK
<1>2. ASSUME NEW q \in Procs PROVE Fit(proc'[q])
  BY DEF ControlOK
<1>3. QED
  BY <1>1, <1>2 DEF ControlOK, Fit

\* The locks of a command that ends, or is done with a project.
LEMMA ReleaseTyped ==
  ASSUME ControlOK, NEW p \in Procs, ReleaseBase(p), gate' = Released(gate, p)
  PROVE  /\ mutation' \in Procs \cup {Nobody}
         /\ expanding' \in [Backings -> Procs \cup {Nobody}]
         /\ gate' \in [Projects -> Procs \cup {Nobody}]
<1>1. mutation' \in Procs \cup {Nobody}
  BY DEF ControlOK, ReleaseBase
<1>2. expanding' \in [Backings -> Procs \cup {Nobody}]
  BY DEF ControlOK, ReleaseBase, Released
<1>3. gate' \in [Projects -> Procs \cup {Nobody}]
  BY DEF ControlOK, Released
<1>4. QED
  BY <1>1, <1>2, <1>3

\* A command that ends.
LEMMA LeaveControl ==
  ASSUME ControlOK, NEW p \in Procs, Leave(p)
  PROVE  ControlOK'
BY EndedFits, ReleaseTyped, ControlStep DEF Leave

\* A batch that is done with a project.
NextRecord(r) ==
  [r EXCEPT !.at = "next", !.project = None, !.user = None, !.base = NoManifest,
            !.revision = 0, !.own = {}]

\* A batch is between two projects, with no step of the last one left.
LEMMA ConcludeControl ==
  ASSUME ControlOK, NEW p \in Procs, NEW verdict \in Steppings, verdict.op = "batch",
         Conclude(p, verdict)
  PROVE  ControlOK'
<1>1. proc' = [proc EXCEPT ![p] = NextRecord(verdict)]
  BY DEF Conclude, NextRecord
<1>2. NextRecord(verdict) \in Steppings
  <2>1. 0 \in 0..MaxRevisions /\ {} \subseteq Setups /\ "next" \in Steps
    BY Bounds DEF Steps
  <2>2. QED
    BY <2>1, NothingTyped DEF NextRecord, Steppings
<1>3. Fit(NextRecord(verdict))
  BY NothingTyped
  DEF NextRecord, Steppings, Fit, Commands, Taken, Rebuilding, Working, Building
<1>4. QED
  BY <1>1, <1>2, <1>3, ReleaseTyped, ControlStep DEF Conclude

\* The verdicts on a project.
LEMMA Verdicts ==
  ASSUME ControlOK, NEW p \in Procs, Mine(p) \in Projects
  PROVE  /\ [proc[p] EXCEPT !.skipped = @ \cup {Mine(p)}] \in Steppings
         /\ [proc[p] EXCEPT !.failed = @ \cup {Mine(p)}] \in Steppings
         /\ [proc[p] EXCEPT !.rebuilt = @ \cup {Mine(p)}] \in Steppings
<1> DEFINE j == Mine(p)  r == proc[p]
<1>1. /\ r \in Steppings /\ j \in Projects
      /\ r.skipped \cup {j} \subseteq Projects /\ r.failed \cup {j} \subseteq Projects
      /\ r.rebuilt \cup {j} \subseteq Projects
  BY DEF ControlOK, Steppings
<1> HIDE DEF j, r
<1>2. [r EXCEPT !.skipped = @ \cup {j}] \in Steppings
  BY <1>1 DEF Steppings
<1>3. [r EXCEPT !.failed = @ \cup {j}] \in Steppings
  BY <1>1 DEF Steppings
<1>4. [r EXCEPT !.rebuilt = @ \cup {j}] \in Steppings
  BY <1>1 DEF Steppings
<1>5. QED
  BY <1>2, <1>3, <1>4 DEF j, r

\* A command fails.
LEMMA FailControl ==
  ASSUME ControlOK, NEW p \in Procs, proc[p].at \in Taken, Fail(p)
  PROVE  ControlOK'
<1>1. CASE Leave(p)
  BY <1>1, LeaveControl
<1>2. CASE ~Leave(p)
  <2>1. Runs(p, "batch") /\ FailProject(p) /\ proc[p] \in Steppings /\ Fit(proc[p])
    BY <1>2 DEF Fail, ControlOK
  <2>2. Mine(p) \in Projects
    BY <2>1 DEF Fit, Runs, Mine
  <2> DEFINE v == [proc[p] EXCEPT !.failed = @ \cup {Mine(p)}]
  <2>3. v \in Steppings /\ v.op = "batch"
    BY <2>1, <2>2, Verdicts DEF Runs, Steppings
  <2> HIDE DEF v
  <2>4. QED
    BY <2>1, <2>3, ConcludeControl DEF FailProject, v
<1>3. QED
  BY <1>1, <1>2

\* What a step leaves alone keeps its type.
LEMMA SameControl == ControlOK /\ UNCHANGED <<proc, locks>> => ControlOK'
BY DEF ControlOK, locks, Fit

\* So does what is known of the base, ...
LEMMA SameBase ==
  BaseWorldOK /\ UNCHANGED <<base, account, defined, installed>> => BaseWorldOK'
BY DEF BaseWorldOK, base, Names

\* ... and what is known of the projects.
LEMMA SameProjects ==
  ProjectsOK /\ UNCHANGED <<stores, use, commands, faults, changes>> => ProjectsOK'
BY DEF ProjectsOK, stores, use

\* The locks of a step that leaves them alone.
LEMMA SameLocks ==
  ASSUME ControlOK, NEW p \in Procs, NEW r \in Steppings, Fit(r),
         proc' = [proc EXCEPT ![p] = r], UNCHANGED locks
  PROVE  ControlOK'
<1>1. /\ mutation' \in Procs \cup {Nobody}
      /\ expanding' \in [Backings -> Procs \cup {Nobody}]
      /\ gate' \in [Projects -> Procs \cup {Nobody}]
  BY DEF ControlOK, locks
<1>2. QED
  BY <1>1, ControlStep

\* A fault is counted, as a command and a change are.
LEMMA Counting ==
  /\ ProjectsOK /\ Fault => faults' \in 0..MaxFaults
  /\ ProjectsOK /\ Change => changes' \in 0..MaxChanges
  /\ \A p \in Procs : ProjectsOK /\ Begin(p) => commands' \in 0..MaxCommands
BY Bounds DEF ProjectsOK, Fault, Change, Begin, Within

\* What is done to the store by a command that fails.
LEMMA FailProjects ==
  ASSUME TypeInv, NEW p \in Procs, Fail(p), UNCHANGED <<interrupted, use, changes, commands>>,
         faults' \in 0..MaxFaults
  PROVE  ProjectsOK'
<1>1. project' \in [Projects -> Stores]
  BY NothingTyped DEF TypeInv, ProjectsOK, Fail
<1>2. QED
  BY <1>1 DEF TypeInv, ProjectsOK, use

\* Types after a building, running or copying that fails ...
LEMMA FailsTyped == ASSUME TypeInv, NEW p \in Procs, Fails(p) PROVE TypeInv'
<1>1. ControlOK'
  BY FailControl DEF Fails, TypeInv, Taken, Rebuilding, Working, Building
<1>2. BaseWorldOK'
  BY SameBase DEF Fails, TypeInv, world
<1>3. ProjectsOK'
  BY FailProjects, Counting DEF Fails, TypeInv, world
<1>4. QED
  BY <1>1, <1>2, <1>3 DEF TypeInv

\* ... and after a command is killed.
LEMMA KillTyped == ASSUME TypeInv, NEW p \in Procs, Kill(p) PROVE TypeInv'
<1>1. ControlOK'
  BY LeaveControl DEF Kill, TypeInv
<1>2. BaseWorldOK'
  BY SameBase DEF Kill, TypeInv, world
<1>3. ProjectsOK'
  BY Counting DEF Kill, TypeInv, world, ProjectsOK, stores, use
<1>4. QED
  BY <1>1, <1>2, <1>3 DEF TypeInv

\* The records of the commands that start.
SetupRunRecord(s) ==
  [Ended EXCEPT !.op = "setup run", !.at = "base", !.runtime = installed, !.setup = s]
ResetRecord == [Ended EXCEPT !.op = "reset", !.at = "base", !.runtime = installed]
CreateRecord(j) ==
  [Ended EXCEPT !.op = "create", !.at = "base", !.runtime = installed, !.project = j]
BatchRecord(some, force, outdated) ==
  [Ended EXCEPT !.op = "batch", !.at = "preview", !.runtime = installed, !.force = force,
                !.outdated = outdated, !.selected = some, !.todo = some]

\* They have the types, and fit.
LEMMA StartRecords ==
  ASSUME BaseWorldOK
  PROVE  /\ \A s \in Setups : SetupRunRecord(s) \in Steppings /\ Fit(SetupRunRecord(s))
         /\ ResetRecord \in Steppings /\ Fit(ResetRecord)
         /\ \A j \in Projects : CreateRecord(j) \in Steppings /\ Fit(CreateRecord(j))
         /\ \A some \in SUBSET Projects, force, outdated \in BOOLEAN :
              /\ BatchRecord(some, force, outdated) \in Steppings
              /\ Fit(BatchRecord(some, force, outdated))
<1>1. installed \in Runtimes /\ Ended \in Steppings
  BY EndedFits DEF BaseWorldOK
<1>2. {"setup run", "reset", "create", "batch"} \subseteq Commands /\ "base" \in Steps
      /\ "preview" \in Steps
  BY DEF Commands, Steps
<1>3. /\ Ended.user = None /\ Ended.base = NoManifest
  BY DEF Ended
<1>4. ASSUME NEW s \in Setups
      PROVE  SetupRunRecord(s) \in Steppings /\ Fit(SetupRunRecord(s))
  <2>1. SetupRunRecord(s) \in Steppings
    BY <1>1, <1>2 DEF SetupRunRecord, Steppings
  <2>2. Fit(SetupRunRecord(s))
    BY <1>1, <1>2, <1>3, NothingTyped
    DEF SetupRunRecord, Steppings, Fit, Taken, Rebuilding, Working, Building
  <2>3. QED
    BY <2>1, <2>2
<1>5. ResetRecord \in Steppings /\ Fit(ResetRecord)
  <2>1. ResetRecord \in Steppings
    BY <1>1, <1>2 DEF ResetRecord, Steppings
  <2>2. Fit(ResetRecord)
    BY <1>1, <1>2, <1>3, NothingTyped
    DEF ResetRecord, Steppings, Fit, Taken, Rebuilding, Working, Building
  <2>3. QED
    BY <2>1, <2>2
<1>6. ASSUME NEW j \in Projects
      PROVE  CreateRecord(j) \in Steppings /\ Fit(CreateRecord(j))
  <2>1. CreateRecord(j) \in Steppings
    BY <1>1, <1>2 DEF CreateRecord, Steppings
  <2>2. Fit(CreateRecord(j))
    BY <1>1, <1>2, <1>3, NothingTyped
    DEF CreateRecord, Steppings, Fit, Taken, Rebuilding, Working, Building
  <2>3. QED
    BY <2>1, <2>2
<1>7. ASSUME NEW some \in SUBSET Projects, NEW force \in BOOLEAN, NEW outdated \in BOOLEAN
      PROVE  /\ BatchRecord(some, force, outdated) \in Steppings
             /\ Fit(BatchRecord(some, force, outdated))
  <2>1. BatchRecord(some, force, outdated) \in Steppings
    BY <1>1, <1>2 DEF BatchRecord, Steppings
  <2>2. Fit(BatchRecord(some, force, outdated))
    BY <1>1, <1>2, <1>3, NothingTyped
    DEF BatchRecord, Steppings, Fit, Taken, Rebuilding, Working, Building
  <2>3. QED
    BY <2>1, <2>2
<1>8. QED
  BY <1>4, <1>5, <1>6, <1>7

Starts(p) == StartSetupRun(p) \/ StartReset(p) \/ StartCreate(p) \/ StartBatch(p)

\* Types after a command starts.
LEMMA StartsTyped == ASSUME TypeInv, NEW p \in Procs, Starts(p) PROVE TypeInv'
<1>1. BaseWorldOK'
  BY SameBase DEF TypeInv, Starts, StartSetupRun, StartReset, StartCreate, StartBatch, world
<1>2. ControlOK'
  <2>1. CASE StartSetupRun(p)
    <3>1. PICK s \in defined : proc' = [proc EXCEPT ![p] = SetupRunRecord(s)]
      BY <2>1 DEF StartSetupRun, SetupRunRecord
    <3>2. s \in Setups
      BY DEF TypeInv, BaseWorldOK
    <3>3. QED
      BY <2>1, <3>1, <3>2, StartRecords, SameLocks DEF TypeInv, StartSetupRun
  <2>2. CASE StartReset(p)
    <3>1. proc' = [proc EXCEPT ![p] = ResetRecord]
      BY <2>2 DEF StartReset, ResetRecord
    <3>2. QED
      BY <2>2, <3>1, StartRecords, SameLocks DEF TypeInv, StartReset
  <2>3. CASE StartCreate(p)
    <3>1. PICK j \in Projects : /\ proc' = [proc EXCEPT ![p] = CreateRecord(j)]
                                /\ gate' = [gate EXCEPT ![j] = p]
      BY <2>3 DEF StartCreate, CreateRecord
    <3>2. /\ mutation' \in Procs \cup {Nobody}
          /\ expanding' \in [Backings -> Procs \cup {Nobody}]
          /\ gate' \in [Projects -> Procs \cup {Nobody}]
      BY <2>3, <3>1 DEF StartCreate, TypeInv, ControlOK
    <3>3. QED
      BY <3>1, <3>2, StartRecords, ControlStep DEF TypeInv
  <2>4. CASE StartBatch(p)
    <3>1. PICK some \in SUBSET Projects, force \in BOOLEAN, outdated \in BOOLEAN :
            proc' = [proc EXCEPT ![p] = BatchRecord(some, force, outdated)]
      BY <2>4 DEF StartBatch, BatchRecord
    <3>2. QED
      BY <2>4, <3>1, StartRecords, SameLocks DEF TypeInv, StartBatch
  <2>5. QED
    BY <2>1, <2>2, <2>3, <2>4 DEF Starts
<1>3. ProjectsOK'
  <2>1. commands' \in 0..MaxCommands
    BY Counting DEF TypeInv, Starts, StartSetupRun, StartReset, StartCreate, StartBatch
  <2>2. project' \in [Projects -> Stores]
    <3>1. CASE StartCreate(p)
      <4>1. PICK j \in Projects : project' = [project EXCEPT ![j].format = "partial"]
        BY <3>1 DEF StartCreate
      <4>2. [project[j] EXCEPT !.format = "partial"] \in Stores
        BY DEF TypeInv, ProjectsOK, Stores
      <4>3. QED
        BY <4>1, <4>2 DEF TypeInv, ProjectsOK
    <3>2. CASE ~StartCreate(p)
      BY <3>2 DEF TypeInv, ProjectsOK, Starts, StartSetupRun, StartReset, StartBatch, stores
    <3>3. QED
      BY <3>1, <3>2
  <2>3. QED
    BY <2>1, <2>2 DEF TypeInv, ProjectsOK, Starts, StartSetupRun, StartReset, StartCreate,
                      StartBatch, stores, use, world
<1>4. QED
  BY <1>1, <1>2, <1>3 DEF TypeInv

\* What the steps on the base compute.
LEMMA SelectionTyped ==
  ASSUME TypeInv, NEW p \in Procs
  PROVE  Current(p) \in Manifests /\ Names(Current(p))
BY NothingTyped DEF TypeInv, BaseWorldOK, Current

\* A manifest with an image, or the factory image, has a backing image, ...
LEMMA BackingOfTyped ==
  ASSUME NEW m \in Manifests, Names(m), NEW runtime \in Runtimes
  PROVE  BackingOf(m, runtime) \in Backings
BY DEF BackingOf, Backings, Names

\* ... and so has each command.
LEMMA BackingTyped ==
  ASSUME TypeInv, NEW p \in Procs
  PROVE  Backing(p) \in Backings
<1>1. proc[p].base \in Manifests /\ Names(proc[p].base) /\ proc[p].runtime \in Runtimes
  BY DEF TypeInv, ControlOK, Fit, Steppings
<1>2. QED
  BY <1>1, BackingOfTyped DEF Backing

\* The setup that is added, and the account that is prepared for.
LEMMA AddedTyped ==
  ASSUME TypeInv, NEW p \in Procs, proc[p].at \in {"compact", "seal", "publish"}
  PROVE  /\ Added(p) \subseteq Setups /\ proc[p].user \in Users \cup {None}
         /\ Prepares(p) => proc[p].user \in Users
BY DEF TypeInv, ControlOK, Fit, Steppings, Added, Prepares

\* The content of the image that is built.
LEMMA ContentTyped ==
  ASSUME TypeInv, NEW p \in Procs, At(p, "compact")
  PROVE  Content(p) \in Contents
<1>1. ContentOf(Backing(p)) \in Contents
  <2>1. Backing(p) \in Backings /\ source \in [Revisions -> Sources]
    BY BackingTyped DEF TypeInv, BaseWorldOK
  <2>2. CASE Backing(p)[1] = "factory"
    BY <2>2 DEF ContentOf, Contents, Users
  <2>3. CASE Backing(p)[1] # "factory"
    <3>1. Backing(p)[2] \in Revisions
      BY <2>1, <2>3 DEF Backings
    <3>2. source[Backing(p)[2]].content \in Contents
      BY <2>1, <3>1 DEF Sources
    <3>3. QED
      BY <2>3, <3>2 DEF ContentOf
  <2>4. QED
    BY <2>2, <2>3
<1>2. Added(p) \subseteq Setups /\ (Prepares(p) => proc[p].user \in Users)
  BY AddedTyped DEF At
<1>3. QED
  BY <1>1, <1>2 DEF Content, Contents

\* The manifest that is published names the revision that was written.
LEMMA PublishedTyped ==
  ASSUME TypeInv, NEW p \in Procs, At(p, "publish")
  PROVE  Published(p) \in Manifests /\ Names(Published(p))
<1>1. /\ proc[p].revision \in Revisions /\ proc[p].runtime \in Runtimes
      /\ proc[p].base \in Manifests /\ proc[p].user \in Users \cup {None}
  BY DEF TypeInv, ControlOK, Fit, Steppings, At
<1>2. proc[p].base.applied \cup Added(p) \subseteq Setups
  BY <1>1, AddedTyped DEF Manifests, At
<1>3. proc[p].revision \in 0..MaxRevisions /\ proc[p].runtime \in 0..MaxRuntimes
  BY <1>1, Bounds DEF Revisions, Runtimes
<1>4. QED
  BY <1>1, <1>2, <1>3 DEF Published, Manifests, Names, Prepares

\* After a reset the variables have their types ...
LEMMA ResetTyped == ASSUME TypeInv, NEW p \in Procs, Reset(p) PROVE TypeInv'
<1>1. ControlOK'
  BY LeaveControl DEF Reset, TypeInv
<1>2. BaseWorldOK'
  BY NothingTyped DEF Reset, TypeInv, BaseWorldOK, world, Names
<1>3. ProjectsOK'
  BY SameProjects DEF Reset, TypeInv, world
<1>4. QED
  BY <1>1, <1>2, <1>3 DEF TypeInv

\* ... and after a base is refused, ...
LEMMA RefuseBaseTyped == ASSUME TypeInv, NEW p \in Procs, RefuseBase(p) PROVE TypeInv'
<1>1. ControlOK'
  BY FailControl DEF RefuseBase, TypeInv, Taken, Rebuilding, At
<1>2. BaseWorldOK'
  BY SameBase DEF RefuseBase, TypeInv, world
<1>3. ProjectsOK'
  BY FailProjects DEF RefuseBase, TypeInv, world, ProjectsOK
<1>4. QED
  BY <1>1, <1>2, <1>3 DEF TypeInv

\* ... its preparation for an account begins ...
LEMMA PrepareTyped == ASSUME TypeInv, NEW p \in Procs, Prepare(p) PROVE TypeInv'
<1> DEFINE r == [proc[p] EXCEPT !.at = "backing", !.base = NoManifest, !.user = account]
<1>1. r \in Steppings /\ Fit(r) /\ proc' = [proc EXCEPT ![p] = r]
  <2>1. /\ proc[p] \in Steppings /\ Fit(proc[p]) /\ account \in Users /\ proc[p].at = "base"
        /\ proc[p].op # "reset"
    BY DEF TypeInv, ControlOK, BaseWorldOK, Prepare, At, Runs
  <2>2. r \in Steppings
    BY <2>1, NothingTyped DEF Steppings, Steps
  <2>3. Fit(r)
    BY <2>1, NothingTyped DEF Steppings, Fit, Taken, Rebuilding, Working, Building
  <2>4. QED
    BY <2>2, <2>3 DEF Prepare
<1> HIDE DEF r
<1>2. ControlOK'
  <2>1. /\ mutation' \in Procs \cup {Nobody}
        /\ expanding' \in [Backings -> Procs \cup {Nobody}]
        /\ gate' \in [Projects -> Procs \cup {Nobody}]
    BY DEF TypeInv, ControlOK, Prepare
  <2>2. QED
    BY <1>1, <2>1, ControlStep DEF TypeInv
<1>3. BaseWorldOK' /\ ProjectsOK'
  BY SameBase, SameProjects DEF Prepare, TypeInv, world
<1>4. QED
  BY <1>2, <1>3 DEF TypeInv

\* ... or it is selected.
LEMMA SelectTyped == ASSUME TypeInv, NEW p \in Procs, Select(p) PROVE TypeInv'
<1>1. ControlOK'
  <2>1. CASE Leave(p)
    BY <2>1, LeaveControl DEF TypeInv
  <2>2. CASE ~Leave(p)
    <3> DEFINE r == [proc[p] EXCEPT !.at = "backing", !.base = Current(p)]
    <3>1. r \in Steppings /\ Fit(r) /\ proc' = [proc EXCEPT ![p] = r]
      <4>1. /\ proc[p] \in Steppings /\ Fit(proc[p]) /\ proc[p].at = "base"
            /\ proc[p].op # "reset" /\ Current(p) \in Manifests /\ Names(Current(p))
        BY SelectionTyped DEF TypeInv, ControlOK, Select, At, Runs
      <4>2. r \in Steppings
        BY <4>1 DEF Steppings, Steps
      <4>3. Fit(r)
        BY <4>1 DEF Steppings, Fit, Taken, Rebuilding, Working, Building
      <4>4. QED
        BY <2>2, <4>2, <4>3 DEF Select
    <3> HIDE DEF r
    <3>2. /\ mutation' \in Procs \cup {Nobody}
          /\ expanding' \in [Backings -> Procs \cup {Nobody}]
          /\ gate' \in [Projects -> Procs \cup {Nobody}]
      BY <2>2 DEF TypeInv, ControlOK, Select
    <3>3. QED
      BY <3>1, <3>2, ControlStep DEF TypeInv
  <2>3. QED
    BY <2>1, <2>2
<1>2. BaseWorldOK' /\ ProjectsOK'
  BY SameBase, SameProjects DEF Select, TypeInv, world
<1>3. QED
  BY <1>1, <1>2 DEF TypeInv

\* A command that goes on to its next step, with what it has read.
LEMMA Onward ==
  ASSUME TypeInv, NEW p \in Procs, proc[p].at \in {"backing", "expand"}
  PROVE  /\ [proc[p] EXCEPT !.at = "expand"] \in Steppings
         /\ Fit([proc[p] EXCEPT !.at = "expand"])
         /\ [proc[p] EXCEPT !.at = WithBacking(p)] \in Steppings
         /\ Fit([proc[p] EXCEPT !.at = WithBacking(p)])
<1>1. proc[p] \in Steppings /\ Fit(proc[p])
  BY DEF TypeInv, ControlOK
<1>2. /\ [proc[p] EXCEPT !.at = "expand"] \in Steppings
      /\ WithBacking(p) \in {"compact", "replace"}
      /\ [proc[p] EXCEPT !.at = WithBacking(p)] \in Steppings
  BY <1>1 DEF Steppings, Steps, WithBacking
<1>3. Fit([proc[p] EXCEPT !.at = "expand"])
  BY <1>1 DEF Steppings, Fit, Taken, Rebuilding, Working, Building
<1>4. Fit([proc[p] EXCEPT !.at = WithBacking(p)])
  <2>1. CASE BuildsBase(p)
    BY <1>1, <2>1
    DEF Steppings, Fit, Taken, Rebuilding, Working, Building, WithBacking, BuildsBase, Runs
  <2>2. CASE ~BuildsBase(p)
    BY <1>1, <2>2
    DEF Steppings, Fit, Taken, Rebuilding, Working, Building, WithBacking, BuildsBase, Runs,
        Commands
  <2>3. QED
    BY <2>1, <2>2
<1>5. QED
  BY <1>2, <1>3, <1>4

\* Types after a backing image is looked for ...
LEMMA FindBackingTyped == ASSUME TypeInv, NEW p \in Procs, FindBacking(p) PROVE TypeInv'
<1>1. PICK r \in {[proc[p] EXCEPT !.at = "expand"], [proc[p] EXCEPT !.at = WithBacking(p)]} :
        proc' = [proc EXCEPT ![p] = r]
  BY DEF FindBacking, Goto, TypeInv, ControlOK
<1>2. r \in Steppings /\ Fit(r)
  BY Onward DEF FindBacking, At
<1>3. /\ mutation' \in Procs \cup {Nobody}
      /\ expanding' \in [Backings -> Procs \cup {Nobody}]
      /\ gate' \in [Projects -> Procs \cup {Nobody}]
  BY BackingTyped DEF FindBacking, TypeInv, ControlOK
<1>4. ControlOK'
  BY <1>1, <1>2, <1>3, ControlStep DEF TypeInv
<1>5. BaseWorldOK' /\ ProjectsOK'
  BY SameBase, SameProjects DEF FindBacking, TypeInv, world
<1>6. QED
  BY <1>4, <1>5 DEF TypeInv

\* ... or made.
LEMMA ExpandTyped == ASSUME TypeInv, NEW p \in Procs, Expand(p) PROVE TypeInv'
<1> DEFINE r == [proc[p] EXCEPT !.at = WithBacking(p)]
<1>1. r \in Steppings /\ Fit(r) /\ proc' = [proc EXCEPT ![p] = r]
  BY Onward DEF Expand, At, Goto
<1> HIDE DEF r
<1>2. /\ mutation' \in Procs \cup {Nobody}
      /\ expanding' \in [Backings -> Procs \cup {Nobody}]
      /\ gate' \in [Projects -> Procs \cup {Nobody}]
  BY DEF Expand, TypeInv, ControlOK
<1>3. ControlOK'
  BY <1>1, <1>2, ControlStep DEF TypeInv
<1>4. BaseWorldOK'
  BY BackingTyped DEF Expand, TypeInv, BaseWorldOK, world, Names
<1>5. ProjectsOK'
  BY SameProjects DEF Expand, TypeInv, world
<1>6. QED
  BY <1>3, <1>4, <1>5 DEF TypeInv

\* Types after an image is written, ...
LEMMA CompactTyped == ASSUME TypeInv, NEW p \in Procs, Compact(p) PROVE TypeInv'
<1>1. PICK v \in Fresh :
        /\ source' = [source EXCEPT ![v] = [state |-> "partial", content |-> Content(p)]]
        /\ proc' = [proc EXCEPT ![p].at = "seal", ![p].revision = v]
  BY DEF Compact
<1> DEFINE r == [proc[p] EXCEPT !.at = "seal", !.revision = v]
<1>2. r \in Steppings /\ Fit(r) /\ proc' = [proc EXCEPT ![p] = r]
  <2>1. /\ proc[p] \in Steppings /\ Fit(proc[p]) /\ proc[p].at = "compact"
        /\ v \in Revisions /\ v \in 0..MaxRevisions
    BY Bounds DEF TypeInv, ControlOK, Compact, At, Fresh, Revisions
  <2>2. r \in Steppings
    BY <2>1 DEF Steppings, Steps
  <2>3. Fit(r)
    BY <2>1 DEF Steppings, Fit, Taken, Rebuilding, Working, Building
  <2>4. QED
    BY <1>1, <2>2, <2>3
<1> HIDE DEF r
<1>3. ControlOK'
  BY <1>2, SameLocks DEF TypeInv, Compact
<1>4. BaseWorldOK'
  <2>1. [state |-> "partial", content |-> Content(p)] \in Sources
    BY ContentTyped DEF Compact, Sources
  <2>2. source' \in [Revisions -> Sources]
    BY <1>1, <2>1 DEF TypeInv, BaseWorldOK
  <2>3. QED
    BY <2>2 DEF Compact, TypeInv, BaseWorldOK, world, Names
<1>5. ProjectsOK'
  BY SameProjects DEF Compact, TypeInv, world
<1>6. QED
  BY <1>3, <1>4, <1>5 DEF TypeInv

\* ... is whole, ...
LEMMA SealTyped == ASSUME TypeInv, NEW p \in Procs, Seal(p) PROVE TypeInv'
<1> DEFINE r == [proc[p] EXCEPT !.at = "publish"]
<1>1. r \in Steppings /\ Fit(r) /\ proc' = [proc EXCEPT ![p] = r]
  <2>1. proc[p] \in Steppings /\ Fit(proc[p]) /\ proc[p].at = "seal"
    BY DEF TypeInv, ControlOK, Seal, At
  <2>2. r \in Steppings
    BY <2>1 DEF Steppings, Steps
  <2>3. Fit(r)
    BY <2>1 DEF Steppings, Fit, Taken, Rebuilding, Working, Building
  <2>4. QED
    BY <2>2, <2>3 DEF Seal, Goto
<1> HIDE DEF r
<1>2. ControlOK'
  BY <1>1, SameLocks DEF TypeInv, Seal
<1>3. BaseWorldOK'
  <2>1. proc[p].revision \in Revisions /\ source \in [Revisions -> Sources]
    BY DEF TypeInv, ControlOK, BaseWorldOK, Fit, Seal, At
  <2>2. [source[proc[p].revision] EXCEPT !.state = "whole"] \in Sources
    BY <2>1 DEF Sources
  <2>3. source' \in [Revisions -> Sources]
    BY <2>1, <2>2 DEF Seal
  <2>4. QED
    BY <2>3 DEF Seal, TypeInv, BaseWorldOK, world, Names
<1>4. ProjectsOK'
  BY SameProjects DEF Seal, TypeInv, world
<1>5. QED
  BY <1>2, <1>3, <1>4 DEF TypeInv

\* ... and is selected, ...
LEMMA PublishTyped == ASSUME TypeInv, NEW p \in Procs, Publish(p) PROVE TypeInv'
<1>1. ControlOK'
  <2>1. CASE ~Prepares(p)
    BY <2>1, LeaveControl DEF TypeInv, Publish
  <2>2. CASE Prepares(p)
    <3> DEFINE r == [proc[p] EXCEPT !.at = "backing", !.user = None, !.revision = 0,
                                    !.base = Published(p)]
    <3>1. r \in Steppings /\ Fit(r) /\ proc' = [proc EXCEPT ![p] = r]
      <4>1. /\ proc[p] \in Steppings /\ Fit(proc[p]) /\ proc[p].at = "publish"
            /\ Published(p) \in Manifests /\ Names(Published(p))
        BY PublishedTyped DEF TypeInv, ControlOK, Publish, At
      <4>2. 0 \in 0..MaxRevisions
        BY Bounds
      <4>3. r \in Steppings
        BY <4>1, <4>2 DEF Steppings, Steps
      <4>4. Fit(r)
        BY <4>1 DEF Steppings, Fit, Taken, Rebuilding, Working, Building
      <4>5. QED
        BY <2>2, <4>3, <4>4 DEF Publish
    <3> HIDE DEF r
    <3>2. /\ mutation' \in Procs \cup {Nobody}
          /\ expanding' \in [Backings -> Procs \cup {Nobody}]
          /\ gate' \in [Projects -> Procs \cup {Nobody}]
      BY <2>2 DEF TypeInv, ControlOK, Publish
    <3>3. QED
      BY <3>1, <3>2, ControlStep DEF TypeInv
  <2>3. QED
    BY <2>1, <2>2
<1>2. BaseWorldOK'
  BY PublishedTyped DEF Publish, TypeInv, BaseWorldOK, world, Names
<1>3. ProjectsOK'
  BY SameProjects DEF Publish, TypeInv, world
<1>4. QED
  BY <1>1, <1>2, <1>3 DEF TypeInv

\* ... also when the command fails after that.
LEMMA PublishFailsLateTyped ==
  ASSUME TypeInv, NEW p \in Procs, PublishFailsLate(p)
  PROVE  TypeInv'
<1>1. ControlOK'
  BY FailControl
  DEF PublishFailsLate, TypeInv, Taken, Rebuilding, Working, Building, At
<1>2. BaseWorldOK'
  BY PublishedTyped DEF PublishFailsLate, TypeInv, BaseWorldOK, world, Names
<1>3. ProjectsOK'
  BY FailProjects, Counting DEF PublishFailsLate, TypeInv, world
<1>4. QED
  BY <1>1, <1>2, <1>3 DEF TypeInv

\* What a store is after a recovery, and after a rebuild.
LEMMA StoresTyped ==
  ASSUME TypeInv
  PROVE  /\ \A j \in Projects : Recovered(j) \in Stores
         /\ \A p \in Procs : Store(p) \in Stores
<1>1. \A j \in Projects : Recovered(j) \in Stores
  BY DEF TypeInv, ProjectsOK, Recovered
<1>2. ASSUME NEW p \in Procs PROVE Store(p) \in Stores
  <2>1. /\ Backing(p) \in Backings /\ proc[p].own \subseteq Setups /\ proc[p].runtime \in Runtimes
        /\ proc[p].base \in Manifests
    BY BackingTyped DEF TypeInv, ControlOK, Steppings
  <2>2. proc[p].base.applied \ proc[p].own \subseteq Setups
    BY <2>1 DEF Manifests
  <2>3. QED
    BY <2>1, <2>2 DEF Store, Pin, Stores
<1>3. QED
  BY <1>1, <1>2

\* What becomes of a project in the preview: it is dropped, planned or skipped.
Previewed(p, j) ==
  {[proc[p] EXCEPT !.todo = @ \ {j}, !.ignored = @ \cup {j}],
   [proc[p] EXCEPT !.todo = @ \ {j}, !.plan = @ \cup {j}],
   [proc[p] EXCEPT !.todo = @ \ {j}, !.skipped = @ \cup {j}]}

\* There is nothing else.
LEMMA PreviewRecords ==
  ASSUME TypeInv, NEW p \in Procs, Preview(p)
  PROVE  \E j \in proc[p].todo : \E r \in Previewed(p, j) : proc' = [proc EXCEPT ![p] = r]
<1>1. PICK j \in proc[p].todo :
        LET ignored == Inspectable(p, j) /\ proc[p].outdated /\ ~Outdated(p, j)
            eligible == /\ Inspectable(p, j) /\ ~MissingDefinition(j)
                        /\ j \notin capture /\ ~MustKeepChanges(p, j) /\ gate[j] = Nobody
        IN proc' = [proc EXCEPT ![p].todo = @ \ {j},
                      ![p].ignored = IF ignored THEN @ \cup {j} ELSE @,
                      ![p].plan = IF ~ignored /\ eligible THEN @ \cup {j} ELSE @,
                      ![p].skipped = IF ignored \/ eligible THEN @ ELSE @ \cup {j}]
  BY DEF Preview
<1> DEFINE ignored == Inspectable(p, j) /\ proc[p].outdated /\ ~Outdated(p, j)
           eligible == /\ Inspectable(p, j) /\ ~MissingDefinition(j)
                       /\ j \notin capture /\ ~MustKeepChanges(p, j) /\ gate[j] = Nobody
<1>2. proc' = [proc EXCEPT ![p].todo = @ \ {j},
                 ![p].ignored = IF ignored THEN @ \cup {j} ELSE @,
                 ![p].plan = IF ~ignored /\ eligible THEN @ \cup {j} ELSE @,
                 ![p].skipped = IF ignored \/ eligible THEN @ ELSE @ \cup {j}]
  BY <1>1
<1> HIDE DEF ignored, eligible
<1>3. proc \in [Procs -> Steppings] /\ proc[p] \in Steppings
  BY DEF TypeInv, ControlOK
<1>4. CASE ignored
  <2>1. proc' = [proc EXCEPT ![p] = [proc[p] EXCEPT !.todo = @ \ {j}, !.ignored = @ \cup {j}]]
    BY <1>2, <1>3, <1>4 DEF Steppings
  <2>2. QED
    BY <2>1 DEF Previewed
<1>5. CASE ~ignored /\ eligible
  <2>1. proc' = [proc EXCEPT ![p] = [proc[p] EXCEPT !.todo = @ \ {j}, !.plan = @ \cup {j}]]
    BY <1>2, <1>3, <1>5 DEF Steppings
  <2>2. QED
    BY <2>1 DEF Previewed
<1>6. CASE ~ignored /\ ~eligible
  <2>1. proc' = [proc EXCEPT ![p] = [proc[p] EXCEPT !.todo = @ \ {j}, !.skipped = @ \cup {j}]]
    BY <1>2, <1>3, <1>6 DEF Steppings
  <2>2. QED
    BY <2>1 DEF Previewed
<1>7. QED
  BY <1>4, <1>5, <1>6

\* Types after a batch has looked at a project, ...
LEMMA PreviewTyped == ASSUME TypeInv, NEW p \in Procs, Preview(p) PROVE TypeInv'
<1>1. PICK r \in Steppings : Fit(r) /\ proc' = [proc EXCEPT ![p] = r]
  <2>1. PICK j \in proc[p].todo : \E r \in Previewed(p, j) : proc' = [proc EXCEPT ![p] = r]
    BY PreviewRecords
  <2>2. proc[p] \in Steppings /\ Fit(proc[p]) /\ proc[p].at = "preview"
    BY DEF Preview, At, TypeInv, ControlOK
  <2>3. j \in Projects
    BY <2>2 DEF Steppings
  <2>4. PICK r \in Previewed(p, j) : proc' = [proc EXCEPT ![p] = r]
    BY <2>1
  <2>5. /\ r \in Steppings /\ r.at = "preview" /\ r.op = proc[p].op
        /\ r.setup = proc[p].setup /\ r.project = proc[p].project /\ r.user = proc[p].user
        /\ r.revision = proc[p].revision /\ r.base = proc[p].base
    <3>1. CASE r = [proc[p] EXCEPT !.todo = @ \ {j}, !.ignored = @ \cup {j}]
      BY <2>2, <2>3, <3>1 DEF Steppings
    <3>2. CASE r = [proc[p] EXCEPT !.todo = @ \ {j}, !.plan = @ \cup {j}]
      BY <2>2, <2>3, <3>2 DEF Steppings
    <3>3. CASE r = [proc[p] EXCEPT !.todo = @ \ {j}, !.skipped = @ \cup {j}]
      BY <2>2, <2>3, <3>3 DEF Steppings
    <3>4. QED
      BY <2>4, <3>1, <3>2, <3>3 DEF Previewed
  <2>6. Fit(r)
    BY <2>2, <2>5 DEF Fit, Taken, Rebuilding, Working, Building
  <2>7. QED
    BY <2>4, <2>5, <2>6
<1>2. ControlOK'
  BY <1>1, SameLocks DEF TypeInv, Preview
<1>3. BaseWorldOK' /\ ProjectsOK'
  BY SameBase, SameProjects DEF Preview, TypeInv, world
<1>4. QED
  BY <1>2, <1>3 DEF TypeInv

\* ... is confirmed or cancelled, ...
LEMMA ConfirmTyped == ASSUME TypeInv, NEW p \in Procs, Confirm(p) PROVE TypeInv'
<1>1. ControlOK'
  <2>1. CASE Leave(p)
    BY <2>1, LeaveControl DEF TypeInv
  <2>2. CASE ~Leave(p)
    <3> DEFINE r == [proc[p] EXCEPT !.at = "next", !.outdated = FALSE]
    <3>1. proc[p] \in Steppings /\ Fit(proc[p]) /\ proc[p].at = "preview"
      BY DEF Confirm, At, TypeInv, ControlOK
    <3>2. r \in Steppings /\ Fit(r)
      BY <3>1 DEF Steppings, Steps, Fit, Taken, Rebuilding, Working, Building
    <3>3. proc' = [proc EXCEPT ![p] = r]
      BY <2>2 DEF Confirm
    <3> HIDE DEF r
    <3>4. QED
      BY <2>2, <3>2, <3>3, SameLocks DEF TypeInv, Confirm
  <2>3. QED
    BY <2>1, <2>2
<1>2. BaseWorldOK' /\ ProjectsOK'
  BY SameBase, SameProjects DEF Confirm, TypeInv, world
<1>3. QED
  BY <1>1, <1>2 DEF TypeInv

\* ... and has taken a project or skipped it.
LEMMA TakeProjectTyped == ASSUME TypeInv, NEW p \in Procs, TakeProject(p) PROVE TypeInv'
<1>1. PICK j \in proc[p].plan :
       IF gate[j] # Nobody \/ JournalPending(j) \/ j \in capture
       THEN /\ proc' = [proc EXCEPT ![p].plan = @ \ {j}, ![p].skipped = @ \cup {j}]
            /\ UNCHANGED <<locks, stores>>
       ELSE /\ proc' = [proc EXCEPT ![p].plan = @ \ {j}, ![p].project = j,
                                    ![p].at = "recheck"]
            /\ gate' = [gate EXCEPT ![j] = p] /\ UNCHANGED <<mutation, expanding>>
            /\ project' = [project EXCEPT ![j] = Recovered(j)]
            /\ interrupted' = [interrupted EXCEPT ![j] = NoStore]
  BY DEF TakeProject
<1>2. /\ proc[p] \in Steppings /\ Fit(proc[p]) /\ proc[p].at = "next" /\ j \in Projects
  BY DEF TakeProject, At, TypeInv, ControlOK, Steppings
<1>3. proc[p].plan \ {j} \subseteq Projects /\ proc[p].skipped \cup {j} \subseteq Projects
  BY <1>2 DEF Steppings
<1>4. BaseWorldOK'
  BY SameBase DEF TakeProject, TypeInv, world
<1>5. CASE gate[j] # Nobody \/ JournalPending(j) \/ j \in capture
  <2> DEFINE r == [proc[p] EXCEPT !.plan = @ \ {j}, !.skipped = @ \cup {j}]
  <2>1. r \in Steppings /\ Fit(r)
    BY <1>2, <1>3 DEF Steppings, Fit, Taken, Rebuilding, Working, Building
  <2>2. proc' = [proc EXCEPT ![p] = r]
    BY <1>1, <1>5
  <2> HIDE DEF r
  <2>3. ControlOK'
    BY <1>1, <1>5, <2>1, <2>2, SameLocks DEF TypeInv
  <2>4. ProjectsOK'
    BY <1>1, <1>5, SameProjects DEF TakeProject, TypeInv, world
  <2>5. QED
    BY <1>4, <2>3, <2>4 DEF TypeInv
<1>6. CASE ~(gate[j] # Nobody \/ JournalPending(j) \/ j \in capture)
  <2> DEFINE r == [proc[p] EXCEPT !.plan = @ \ {j}, !.project = j, !.at = "recheck"]
  <2>1. r \in Steppings
    BY <1>2, <1>3 DEF Steppings, Steps
  <2>2. Fit(r)
    BY <1>2 DEF Steppings, Fit, Taken, Rebuilding, Working, Building
  <2>3. proc' = [proc EXCEPT ![p] = r]
    BY <1>1, <1>6
  <2> HIDE DEF r
  <2>4. /\ mutation' \in Procs \cup {Nobody}
        /\ expanding' \in [Backings -> Procs \cup {Nobody}]
        /\ gate' \in [Projects -> Procs \cup {Nobody}]
    BY <1>1, <1>6 DEF TypeInv, ControlOK
  <2>5. ControlOK'
    BY <2>1, <2>2, <2>3, <2>4, ControlStep DEF TypeInv
  <2>6. project' \in [Projects -> Stores] /\ interrupted' \in [Projects -> Stores]
    BY <1>1, <1>2, <1>6, StoresTyped, NothingTyped DEF TypeInv, ProjectsOK
  <2>7. ProjectsOK'
    BY <2>6 DEF TypeInv, ProjectsOK, TakeProject, use, world
  <2>8. QED
    BY <1>4, <2>5, <2>7 DEF TypeInv
<1>7. QED
  BY <1>5, <1>6

\* A batch that skips or fails the project it has taken.
LEMMA SkipControl ==
  ASSUME ControlOK, NEW p \in Procs, Runs(p, "batch"), proc[p].at \in Taken,
         Skip(p) \/ FailProject(p)
  PROVE  ControlOK'
<1>1. proc[p] \in Steppings /\ Mine(p) \in Projects /\ proc[p].op = "batch"
  BY DEF ControlOK, Fit, Runs, Mine
<1> DEFINE skipped == [proc[p] EXCEPT !.skipped = @ \cup {Mine(p)}]
           failed == [proc[p] EXCEPT !.failed = @ \cup {Mine(p)}]
<1>2. /\ skipped \in Steppings /\ skipped.op = "batch"
      /\ failed \in Steppings /\ failed.op = "batch"
      /\ Skip(p) => Conclude(p, skipped)
      /\ FailProject(p) => Conclude(p, failed)
  BY <1>1, Verdicts DEF Skip, FailProject, Steppings
<1> HIDE DEF skipped, failed
<1>3. QED
  BY <1>2, ConcludeControl

\* A batch that goes on with its project.
LEMMA GoesOn ==
  ASSUME ControlOK, NEW p \in Procs, proc[p].at \in {"recheck", "stop", "resolve"}
  PROVE  /\ Runs(p, "batch") /\ Mine(p) \in Projects /\ proc[p].at \in Taken
         /\ \A stopped \in SUBSET Projects :
              /\ [proc[p] EXCEPT !.at = "resolve", !.stopped = stopped] \in Steppings
              /\ Fit([proc[p] EXCEPT !.at = "resolve", !.stopped = stopped])
         /\ [proc[p] EXCEPT !.at = "stop"] \in Steppings
         /\ Fit([proc[p] EXCEPT !.at = "stop"])
         /\ \A own \in SUBSET Setups :
              /\ [proc[p] EXCEPT !.at = "base", !.own = own] \in Steppings
              /\ Fit([proc[p] EXCEPT !.at = "base", !.own = own])
<1>1. proc[p] \in Steppings /\ Fit(proc[p])
  BY DEF ControlOK
<1>2. Runs(p, "batch") /\ Mine(p) \in Projects /\ proc[p].at \in Taken
  BY <1>1 DEF Fit, Runs, Mine, Taken
<1>3. ASSUME NEW stopped \in SUBSET Projects
      PROVE  /\ [proc[p] EXCEPT !.at = "resolve", !.stopped = stopped] \in Steppings
             /\ Fit([proc[p] EXCEPT !.at = "resolve", !.stopped = stopped])
  BY <1>1, <1>2
  DEF Steppings, Steps, Fit, Taken, Rebuilding, Working, Building, Runs, Mine
<1>4. /\ [proc[p] EXCEPT !.at = "stop"] \in Steppings
      /\ Fit([proc[p] EXCEPT !.at = "stop"])
  BY <1>1, <1>2
  DEF Steppings, Steps, Fit, Taken, Rebuilding, Working, Building, Runs, Mine
<1>5. ASSUME NEW own \in SUBSET Setups
      PROVE  /\ [proc[p] EXCEPT !.at = "base", !.own = own] \in Steppings
             /\ Fit([proc[p] EXCEPT !.at = "base", !.own = own])
  BY <1>1, <1>2
  DEF Steppings, Steps, Fit, Taken, Rebuilding, Working, Building, Runs, Mine
<1>6. QED
  BY <1>2, <1>3, <1>4, <1>5

\* Types after the checks under the gate, ...
LEMMA RecheckTyped == ASSUME TypeInv, NEW p \in Procs, Recheck(p) PROVE TypeInv'
<1>1. ControlOK'
  <2>1. CASE Skip(p)
    BY <2>1, GoesOn, SkipControl DEF TypeInv, Recheck, At
  <2>2. CASE ~Skip(p)
    <3> DEFINE r == [proc[p] EXCEPT !.at = "stop"]
    <3>1. proc' = [proc EXCEPT ![p] = r] /\ UNCHANGED locks
      BY <2>2 DEF Recheck, Goto
    <3>2. r \in Steppings /\ Fit(r)
      BY GoesOn DEF TypeInv, Recheck, At
    <3> HIDE DEF r
    <3>3. QED
      BY <3>1, <3>2, SameLocks DEF TypeInv
  <2>3. QED
    BY <2>1, <2>2
<1>2. BaseWorldOK' /\ ProjectsOK'
  BY SameBase, SameProjects DEF Recheck, TypeInv, world
<1>3. QED
  BY <1>1, <1>2 DEF TypeInv

\* ... the stop of the VM ...
LEMMA StopVMTyped == ASSUME TypeInv, NEW p \in Procs, StopVM(p) PROVE TypeInv'
<1>1. ControlOK'
  <2>1. CASE FailProject(p)
    BY <2>1, GoesOn, SkipControl DEF TypeInv, StopVM, At
  <2>2. CASE ~FailProject(p)
    <3>1. /\ proc' = [proc EXCEPT ![p].at = "resolve",
                       ![p].stopped = IF Mine(p) \in vm THEN @ \cup {Mine(p)} ELSE @]
          /\ UNCHANGED locks
      BY <2>2 DEF StopVM, StopFailed
    <3>2. PICK stopped \in SUBSET Projects :
            stopped = IF Mine(p) \in vm THEN proc[p].stopped \cup {Mine(p)}
                      ELSE proc[p].stopped
      <4>1. Mine(p) \in Projects /\ proc[p].stopped \subseteq Projects
        BY GoesOn DEF TypeInv, ControlOK, Steppings, StopVM, At
      <4>2. (IF Mine(p) \in vm THEN proc[p].stopped \cup {Mine(p)} ELSE proc[p].stopped)
              \in SUBSET Projects
        BY <4>1
      <4>3. QED
        BY <4>2
    <3> DEFINE r == [proc[p] EXCEPT !.at = "resolve", !.stopped = stopped]
    <3>3. r \in Steppings /\ Fit(r)
      BY GoesOn DEF TypeInv, StopVM, At
    <3>4. proc' = [proc EXCEPT ![p] = r]
      BY <3>1, <3>2
    <3> HIDE DEF r
    <3>5. QED
      BY <3>1, <3>3, <3>4, SameLocks DEF TypeInv
  <2>3. QED
    BY <2>1, <2>2
<1>2. BaseWorldOK'
  BY SameBase DEF StopVM, TypeInv, world
<1>3. ProjectsOK'
  <2>1. faults' \in 0..MaxFaults
    BY Counting DEF StopVM, TypeInv, ProjectsOK
  <2>2. QED
    BY <2>1 DEF StopVM, TypeInv, ProjectsOK, stores, world
<1>4. QED
  BY <1>1, <1>2, <1>3 DEF TypeInv

\* ... and the reading of the records.
LEMMA ResolveTyped == ASSUME TypeInv, NEW p \in Procs, Resolve(p) PROVE TypeInv'
<1>1. ControlOK'
  <2>1. CASE FailProject(p)
    BY <2>1, GoesOn, SkipControl DEF TypeInv, Resolve, At
  <2>2. CASE ~FailProject(p)
    <3> DEFINE r == [proc[p] EXCEPT !.at = "base", !.own = OwnSetups(p)]
    <3>1. proc' = [proc EXCEPT ![p] = r] /\ UNCHANGED locks
      BY <2>2 DEF Resolve
    <3>2. OwnSetups(p) \in SUBSET Setups
      BY GoesOn DEF TypeInv, ProjectsOK, Stores, OwnSetups, Resolve, At
    <3>3. r \in Steppings /\ Fit(r)
      BY <3>2, GoesOn DEF TypeInv, Resolve, At
    <3> HIDE DEF r
    <3>4. QED
      BY <3>1, <3>3, SameLocks DEF TypeInv
  <2>3. QED
    BY <2>1, <2>2
<1>2. BaseWorldOK' /\ ProjectsOK'
  BY SameBase, SameProjects DEF Resolve, TypeInv, world
<1>3. QED
  BY <1>1, <1>2 DEF TypeInv

\* The project of a command that replaces an image.
LEMMA ReplacesMine ==
  ASSUME ControlOK, NEW p \in Procs, At(p, "replace")
  PROVE  Mine(p) \in Projects /\ proc[p].op \in {"create", "batch"}
BY DEF ControlOK, At, Fit, Taken, Rebuilding, Working, Mine

\* A batch that has replaced the image of its project.
Replaced(p) == [proc[p] EXCEPT !.at = "return", !.replaced = @ \cup {Mine(p)}]

\* It has still to go back to where it was called.
LEMMA ReplacedFits ==
  ASSUME ControlOK, NEW p \in Procs, Replace(p), ~Leave(p)
  PROVE  /\ Replaced(p) \in Steppings /\ Fit(Replaced(p)) /\ proc[p].op = "batch"
         /\ proc' = [proc EXCEPT ![p] = Replaced(p)] /\ UNCHANGED locks
<1>1. /\ proc[p] \in Steppings /\ Fit(proc[p]) /\ Mine(p) \in Projects
      /\ Mine(p) = proc[p].project /\ proc[p].at = "replace" /\ proc[p].op = "batch"
  BY ReplacesMine DEF ControlOK, Replace, Runs, Mine, At
<1>2. proc' = [proc EXCEPT ![p] = Replaced(p)] /\ UNCHANGED locks
  BY <1>1 DEF Replace, Replaced, Runs
<1>3. Replaced(p) \in Steppings
  BY <1>1 DEF Replaced, Steppings, Steps
<1>4. Fit(Replaced(p))
  BY <1>1 DEF Replaced, Steppings, Fit, Taken, Rebuilding, Working, Building
<1>5. QED
  BY <1>1, <1>2, <1>3, <1>4

\* The verdict on it.
LEMMA ReturnConcludes ==
  ASSUME ControlOK, NEW p \in Procs, Return(p)
  PROVE  LET verdict == [proc[p] EXCEPT !.rebuilt = @ \cup {Mine(p)}]
         IN  /\ verdict \in Steppings /\ verdict.op = "batch" /\ Conclude(p, verdict)
             /\ Runs(p, "batch") /\ proc[p].at \in Taken /\ Mine(p) \in Projects
<1>1. /\ proc[p] \in Steppings /\ proc[p].op = "batch" /\ proc[p].at \in Taken
      /\ Mine(p) \in Projects
  BY DEF ControlOK, Return, At, Fit, Taken, Mine
<1>2. QED
  BY <1>1, Verdicts DEF Return, Runs, Steppings

\* Types after a replacement ...
LEMMA ReplaceTyped == ASSUME TypeInv, NEW p \in Procs, Replace(p) PROVE TypeInv'
<1>1. ControlOK'
  <2>1. CASE Leave(p)
    BY <2>1, LeaveControl DEF TypeInv
  <2>2. CASE ~Leave(p)
    <3>1. Replaced(p) \in Steppings /\ Fit(Replaced(p)) /\ UNCHANGED locks
          /\ proc' = [proc EXCEPT ![p] = Replaced(p)]
      BY <2>2, ReplacedFits DEF TypeInv
    <3>2. QED
      BY <3>1, SameLocks DEF TypeInv
  <2>3. QED
    BY <2>1, <2>2
<1>2. BaseWorldOK'
  BY SameBase DEF Replace, TypeInv, world
<1>3. ProjectsOK'
  <2>1. project' \in [Projects -> Stores]
    BY StoresTyped DEF Replace, TypeInv, ProjectsOK
  <2>2. QED
    BY <2>1 DEF Replace, TypeInv, ProjectsOK, use, world
<1>4. QED
  BY <1>1, <1>2, <1>3 DEF TypeInv

\* ... or one that is killed ...
LEMMA KillReplacementTyped ==
  ASSUME TypeInv, NEW p \in Procs, KillReplacement(p)
  PROVE  TypeInv'
<1>1. ControlOK'
  BY LeaveControl DEF KillReplacement, TypeInv
<1>2. BaseWorldOK'
  BY SameBase DEF KillReplacement, TypeInv, world
<1>3. ProjectsOK'
  <2>1. project' \in [Projects -> Stores] /\ interrupted' \in [Projects -> Stores]
    BY StoresTyped, NothingTyped, ReplacesMine DEF KillReplacement, TypeInv, ProjectsOK
  <2>2. faults' \in 0..MaxFaults
    BY Counting DEF KillReplacement, TypeInv
  <2>3. QED
    BY <2>1, <2>2 DEF KillReplacement, TypeInv, ProjectsOK, use, world
<1>4. QED
  BY <1>1, <1>2, <1>3 DEF TypeInv

\* ... or one that is counted as rebuilt ...
LEMMA ReturnTyped == ASSUME TypeInv, NEW p \in Procs, Return(p) PROVE TypeInv'
<1>1. ControlOK'
  BY ReturnConcludes, ConcludeControl DEF TypeInv
<1>2. BaseWorldOK' /\ ProjectsOK'
  BY SameBase, SameProjects DEF Return, TypeInv, world
<1>3. QED
  BY <1>1, <1>2 DEF TypeInv

\* ... and after the summary.
LEMMA ReportTyped == ASSUME TypeInv, NEW p \in Procs, Report(p) PROVE TypeInv'
BY LeaveControl, SameBase, SameProjects DEF TypeInv, Report, world

\* What else happens.
LEMMA UseTyped == ASSUME TypeInv, NEW j \in Projects, ProjectUse(j) PROVE TypeInv'
<1>1. ControlOK'
  BY SameControl DEF TypeInv, ProjectUse, Recover, Boot, VMEnds, OpenRootSession, ChangeImage,
                     StartCapture, DiscardCapture
<1>2. BaseWorldOK'
  BY SameBase DEF TypeInv, ProjectUse, Recover, Boot, VMEnds, OpenRootSession, ChangeImage,
                  StartCapture, DiscardCapture, world
<1>3. project' \in [Projects -> Stores] /\ interrupted' \in [Projects -> Stores]
  <2>1. /\ Recovered(j) \in Stores /\ NoStore \in Stores
        /\ [project[j] EXCEPT !.dirty = TRUE] \in Stores
        /\ [project[j] EXCEPT !.manual = TRUE] \in Stores
    BY StoresTyped, NothingTyped DEF TypeInv, ProjectsOK, Stores
  <2>2. QED
    BY <2>1 DEF TypeInv, ProjectsOK, ProjectUse, Recover, Boot, VMEnds, OpenRootSession,
                ChangeImage, StartCapture, DiscardCapture, stores
<1>4. changes' \in 0..MaxChanges
  BY Counting DEF TypeInv, ProjectsOK, ProjectUse, Recover, Boot, VMEnds, OpenRootSession,
                  ChangeImage, StartCapture, DiscardCapture, world
<1>5. /\ commands' \in 0..MaxCommands /\ faults' \in 0..MaxFaults
      /\ capture' \subseteq Projects /\ vm' \subseteq Projects /\ session' \subseteq Projects
  BY DEF TypeInv, ProjectsOK, ProjectUse, Recover, Boot, VMEnds, OpenRootSession,
         ChangeImage, StartCapture, DiscardCapture, use
<1>6. QED
  BY <1>1, <1>2, <1>3, <1>4, <1>5 DEF TypeInv, ProjectsOK

\* Definitions and editions of zaigr come and go.
LEMMA WorldTyped == ASSUME TypeInv, ChangeDefinition \/ Upgrade PROVE TypeInv'
<1>1. ControlOK'
  BY SameControl DEF TypeInv, ChangeDefinition, Upgrade
<1>2. BaseWorldOK'
  BY Bounds DEF TypeInv, BaseWorldOK, ChangeDefinition, Upgrade, base, Names, Runtimes
<1>3. ProjectsOK'
  BY Counting DEF TypeInv, ProjectsOK, ChangeDefinition, Upgrade, stores, use
<1>4. QED
  BY <1>1, <1>2, <1>3 DEF TypeInv

\* The stores there are at first.
LEMMA FirstStoresTyped == FirstStores \subseteq Stores
<1> SUFFICES ASSUME NEW d \in FirstStores PROVE d \in Stores
  OBVIOUS
<1>1. ASSUME NEW s \in Setups
      PROVE  /\ Built("current", {s}, FALSE) \in Stores
             /\ Built("legacy", {s}, FALSE) \in Stores
             /\ Built("legacy", {s}, TRUE) \in Stores
  BY NothingTyped DEF Built, Stores
<1>2. CASE d = NoStore
  BY <1>2, NothingTyped
<1>3. CASE \E s \in Setups : d = Built("current", {s}, FALSE)
  BY <1>1, <1>3
<1>4. CASE \E s \in Setups : d = Built("legacy", {s}, FALSE) \/ d = Built("legacy", {s}, TRUE)
  BY <1>1, <1>4
<1>5. QED
  BY <1>2, <1>3, <1>4, Zenon DEF FirstStores

\* In the initial states, and after each step, the variables have their types.
LEMMA InitTyped == Init => TypeInv
<1> SUFFICES ASSUME Init PROVE TypeInv
  OBVIOUS
<1>1. ControlOK
  BY EndedFits DEF Init, ControlOK
<1>2. manifest \in Manifests /\ Names(manifest) /\ source \in [Revisions -> Sources]
  <2>1. CASE manifest = NoManifest /\ source = [v \in Revisions |-> NoSource]
    BY <2>1, NothingTyped DEF NoSource, Sources, Contents, Users
  <2>2. CASE ~(manifest = NoManifest /\ source = [v \in Revisions |-> NoSource])
    <3>1. PICK applied \in SUBSET Setups, user \in (Users \ {account}) \cup {None} :
            /\ manifest = [revision |-> 1, runtime |-> 1, user |-> user, applied |-> applied]
            /\ source = [v \in Revisions |-> IF v > 1 THEN NoSource ELSE
                 [state |-> "whole", content |-> [setups |-> applied,
                    user |-> IF user = None THEN "default" ELSE user]]]
      BY <2>2 DEF Init
    <3>2. 1 \in Revisions /\ 1 \in 0..MaxRevisions /\ 1 \in 0..MaxRuntimes
      BY Bounds, BaseImagesAssumption DEF BaseImagesAssumption, Revisions
    <3>3. manifest \in Manifests /\ Names(manifest)
      BY <3>1, <3>2 DEF Manifests, Names
    <3>4. /\ NoSource \in Sources
          /\ [state |-> "whole", content |-> [setups |-> applied,
                user |-> IF user = None THEN "default" ELSE user]] \in Sources
      BY <3>1 DEF NoSource, Sources, Contents, Users
    <3>5. QED
      BY <3>1, <3>3, <3>4
  <2>3. QED
    BY <2>1, <2>2
<1>3. BaseWorldOK
  BY <1>2, NothingTyped, Bounds DEF Init, BaseWorldOK
<1>4. ProjectsOK
  BY FirstStoresTyped, NothingTyped, Bounds DEF Init, ProjectsOK
<1>5. QED
  BY <1>1, <1>3, <1>4 DEF TypeInv

\* After each step the variables have their types.
LEMMA NextTyped == TypeInv /\ [Next]_vars => TypeInv'
<1> SUFFICES ASSUME TypeInv, [Next]_vars PROVE TypeInv'
  OBVIOUS
<1>1. ASSUME NEW p \in Procs, Command(p) PROVE TypeInv'
  BY <1>1, StartsTyped, ResetTyped, RefuseBaseTyped, PrepareTyped, SelectTyped,
     FindBackingTyped, ExpandTyped, CompactTyped, SealTyped, PublishTyped,
     PublishFailsLateTyped, PreviewTyped, ConfirmTyped, TakeProjectTyped, RecheckTyped,
     StopVMTyped, ResolveTyped, ReplaceTyped, KillReplacementTyped, ReturnTyped, ReportTyped,
     FailsTyped, KillTyped
  DEF Command, Starts
<1>2. CASE UNCHANGED vars
  BY <1>2, SameControl, SameBase, SameProjects DEF TypeInv, vars, world
<1>3. QED
  BY <1>1, <1>2, UseTyped, WorldTyped DEF Next

\* The variables have their types, and a command has read what its step needs.
THEOREM TypesAlwaysHold == Spec => []TypeInv
BY InitTyped, NextTyped, PTL DEF Spec

\* Every state of the specification has its type (TypeOK).
THEOREM TypeCorrect == Spec => []TypeOK
BY TypesAlwaysHold, TypesFollow, PTL

-----------------------------------------------------------------------------
(* The base.  Whoever builds one holds the mutation lock, a whole image is *)
(* never written again, and what a command has read of the selection stays *)
(* true, also when another command has replaced the selection.             *)

\* The image of this manifest is whole, and what the manifest says of it is true.
Sound(m) ==
  m # NoManifest =>
    /\ source[m.revision].state = "whole"
    /\ source[m.revision].content.setups = m.applied
    /\ m.user # None => source[m.revision].content.user = m.user

BuildersLock(p) == proc[p].at \in Building /\ BuildsBase(p) => mutation = p

Builds(p) ==
  /\ At(p, "seal") => source[proc[p].revision] = [state |-> "partial", content |-> Content(p)]
  /\ At(p, "publish") => source[proc[p].revision] = [state |-> "whole", content |-> Content(p)]
  /\ proc[p].at \in Building /\ BuildsBase(p) => manifest.applied \subseteq proc[p].base.applied
  /\ Prepares(p) => proc[p].base = NoManifest

SelectionInv == Sound(manifest) /\ \A p \in Procs : Sound(proc[p].base)

BuildInv ==
  /\ TypeInv /\ SelectionInv
  /\ \A p \in Procs : BuildersLock(p) /\ Builds(p)

\* A step of a command changes no other command.
LEMMA CommandAlone ==
  ASSUME TypeInv, NEW p \in Procs, Command(p), NEW q \in Procs \ {p}
  PROVE  proc'[q] = proc[q]
<1>1. proc \in [Procs -> Steppings]
  BY DEF TypeInv, ControlOK
<1>2. CASE Starts(p)
  BY <1>1, <1>2 DEF Starts, StartSetupRun, StartReset, StartCreate, StartBatch
<1>3. CASE Reset(p) \/ RefuseBase(p) \/ Prepare(p) \/ Select(p) \/ FindBacking(p) \/ Expand(p)
  BY <1>1, <1>3
  DEF Reset, RefuseBase, Prepare, Select, FindBacking, Expand, Fail, FailProject, Conclude,
      Leave, Goto
<1>4. CASE Compact(p) \/ Seal(p) \/ Publish(p) \/ PublishFailsLate(p) \/ Fails(p) \/ Kill(p)
  BY <1>1, <1>4
  DEF Compact, Seal, Publish, PublishFailsLate, Fails, Kill, Fail, FailProject, Conclude,
      Leave, Goto
<1>5. CASE Preview(p)
  BY <1>1, <1>5 DEF Preview
<1>6. CASE Confirm(p) \/ TakeProject(p) \/ Recheck(p) \/ StopVM(p) \/ Resolve(p)
  BY <1>1, <1>6
  DEF Confirm, TakeProject, Recheck, StopVM, StopFailed, Resolve, Skip,
      FailProject, Conclude, Leave, Goto
<1>7. CASE Replace(p) \/ KillReplacement(p) \/ Return(p) \/ Report(p)
  BY <1>1, <1>7 DEF Replace, KillReplacement, Return, Report, Conclude, Leave
<1>8. QED
  BY <1>2, <1>3, <1>4, <1>5, <1>6, <1>7 DEF Command, Starts

\* A command that leaves the base alone, or is done with it.
Quits(p) ==
  /\ proc'[p].at \notin Building
  /\ proc'[p].base \in {NoManifest, proc[p].base}

\* Who ends is done with the base, ...
LEMMA LeaveQuits ==
  ASSUME TypeInv, NEW p \in Procs, Leave(p)
  PROVE  Quits(p)
BY DEF TypeInv, ControlOK, Leave, Ended, Quits, Building

\* ... and so is a batch between two projects.
LEMMA ConcludeQuits ==
  ASSUME TypeInv, NEW p \in Procs, NEW verdict \in Steppings, Conclude(p, verdict)
  PROVE  Quits(p)
<1>1. proc' = [proc EXCEPT ![p] = NextRecord(verdict)]
  BY DEF Conclude, NextRecord
<1>2. /\ NextRecord(verdict).at = "next" /\ NextRecord(verdict).base = NoManifest
  BY DEF NextRecord, Steppings
<1>3. QED
  BY <1>1, <1>2 DEF TypeInv, ControlOK, Quits, Building

\* A command that fails, or is done with its project.
LEMMA FailQuits ==
  ASSUME TypeInv, NEW p \in Procs, proc[p].at \in Taken, Fail(p)
  PROVE  Quits(p)
<1>1. CASE Leave(p)
  BY <1>1, LeaveQuits
<1>2. CASE ~Leave(p)
  <2>1. Runs(p, "batch") /\ FailProject(p) /\ Mine(p) \in Projects
    BY <1>2 DEF Fail, TypeInv, ControlOK, Fit, Runs, Mine
  <2>2. QED
    BY <2>1, Verdicts, ConcludeQuits DEF FailProject, TypeInv
<1>3. QED
  BY <1>1, <1>2

\* The steps that do not work on the base quit it, and the others are few.
OnBase(p) ==
  \/ Prepare(p) \/ Select(p) \/ FindBacking(p) \/ Expand(p) \/ Compact(p) \/ Seal(p)
  \/ Publish(p)

\* Every other step quits the base.
LEMMA OthersQuit ==
  ASSUME TypeInv, NEW p \in Procs, Command(p), ~OnBase(p)
  PROVE  Quits(p)
<1>1. proc \in [Procs -> Steppings]
  BY DEF TypeInv, ControlOK
<1>2. CASE Starts(p)
  <2>1. proc'[p].at \in {"base", "preview"} /\ proc'[p].base = Ended.base
    <3>1. CASE StartSetupRun(p)
      BY <1>1, <3>1 DEF StartSetupRun, Ended
    <3>2. CASE StartReset(p)
      BY <1>1, <3>2 DEF StartReset, Ended
    <3>3. CASE StartCreate(p)
      BY <1>1, <3>3 DEF StartCreate, Ended
    <3>4. CASE StartBatch(p)
      BY <1>1, <3>4 DEF StartBatch, Ended
    <3>5. QED
      BY <1>2, <3>1, <3>2, <3>3, <3>4 DEF Starts
  <2>2. QED
    BY <2>1 DEF Quits, Building, Ended
<1>3. CASE Leave(p)
  BY <1>3, LeaveQuits
<1>4. CASE RefuseBase(p) \/ PublishFailsLate(p) \/ Fails(p)
  BY <1>4, FailQuits
  DEF RefuseBase, PublishFailsLate, Fails, Taken, Rebuilding, Working, Building, At
<1>5. CASE Preview(p)
  BY <1>1, <1>5 DEF Preview, At, Quits, Building, Steppings
<1>6. CASE (Confirm(p) /\ ~Leave(p)) \/ TakeProject(p)
  <2>1. CASE Confirm(p) /\ ~Leave(p)
    BY <1>1, <2>1 DEF Confirm, Quits, Building, Steppings
  <2>2. CASE TakeProject(p)
    <3>1. proc'[p].at \in {"next", "recheck"} /\ proc'[p].base = proc[p].base
      BY <1>1, <2>2 DEF TakeProject, At, Steppings
    <3>2. QED
      BY <3>1 DEF Quits, Building
  <2>3. QED
    BY <1>6, <2>1, <2>2
<1>7. CASE Recheck(p) \/ StopVM(p) \/ Resolve(p)
  <2>1. Runs(p, "batch") /\ Mine(p) \in Projects /\ proc[p].at \in Taken
    BY <1>7, GoesOn DEF TypeInv, Recheck, StopVM, Resolve, At
  <2>2. CASE Skip(p) \/ FailProject(p)
    BY <2>1, <2>2, Verdicts, ConcludeQuits DEF Skip, FailProject, TypeInv
  <2>3. CASE ~(Skip(p) \/ FailProject(p))
    BY <1>1, <1>7, <2>3
    DEF Recheck, StopVM, StopFailed, Resolve, Goto, Quits, Building, Steppings
  <2>4. QED
    BY <2>2, <2>3
<1>8. CASE Return(p)
  BY <1>8, ReturnConcludes, ConcludeQuits DEF TypeInv
<1>9. CASE Replace(p) /\ ~Leave(p)
  <2>1. proc'[p] = Replaced(p)
    BY <1>1, <1>9, ReplacedFits DEF TypeInv
  <2>2. QED
    BY <1>1, <2>1 DEF Replaced, Quits, Building, Steppings
<1>10. QED
  BY <1>2, <1>3, <1>4, <1>5, <1>6, <1>7, <1>8, <1>9
  DEF Command, Starts, OnBase, Reset, KillReplacement, Report, Kill

\* Who writes an image or the selection holds the lock.
LEMMA BuildersHold ==
  ASSUME BuildInv, NEW p \in Procs, proc[p].at \in {"compact", "seal", "publish"}
  PROVE  BuildsBase(p) /\ mutation = p
BY DEF BuildInv, TypeInv, ControlOK, Fit, BuildersLock, BuildsBase, Building, Runs

\* While one command holds the mutation lock, another changes neither it nor the base.
LEMMA LockKeepsBase ==
  ASSUME BuildInv, NEW p \in Procs, Command(p), mutation \notin {p, Nobody}
  PROVE  mutation' = mutation /\ manifest' = manifest /\ source' = source
<1>1. /\ ~(Compact(p) \/ Seal(p) \/ Publish(p) \/ PublishFailsLate(p))
      /\ ~(Reset(p) \/ RefuseBase(p) \/ Prepare(p) \/ Select(p))
  BY BuildersHold
  DEF Compact, Seal, Publish, PublishFailsLate, At, Reset, RefuseBase, Prepare, Select,
      MutationFree
<1>2. CASE Starts(p)
  BY <1>2 DEF Starts, StartSetupRun, StartReset, StartCreate, StartBatch, locks, base
<1>3. CASE FindBacking(p) \/ Expand(p) \/ Preview(p) \/ Fails(p) \/ Kill(p)
  BY <1>3
  DEF FindBacking, Expand, Preview, Fails, Kill, Fail, FailProject, Conclude, Leave,
      ReleaseBase, locks, base
<1>4. CASE Confirm(p) \/ TakeProject(p) \/ Recheck(p) \/ StopVM(p) \/ Resolve(p)
  BY <1>4
  DEF Confirm, TakeProject, Recheck, StopVM, StopFailed, Resolve, Skip,
      FailProject, Conclude, Leave, ReleaseBase, locks, base
<1>5. CASE Replace(p) \/ KillReplacement(p) \/ Return(p) \/ Report(p)
  BY <1>5
  DEF Replace, KillReplacement, Return, Report, Conclude, Leave, ReleaseBase, locks, base
<1>6. QED
  BY <1>1, <1>2, <1>3, <1>4, <1>5 DEF Command, Starts

\* The selection and the images change in few steps.
LEMMA BaseWriters ==
  ASSUME NEW p \in Procs, Command(p)
  PROVE  /\ manifest' = manifest \/ Reset(p) \/ Publish(p) \/ PublishFailsLate(p)
         /\ source' = source \/ Compact(p) \/ Seal(p)
<1>1. CASE Starts(p)
  BY <1>1 DEF Starts, StartSetupRun, StartReset, StartCreate, StartBatch, base
<1>2. CASE Reset(p) \/ RefuseBase(p) \/ Prepare(p) \/ Select(p) \/ FindBacking(p) \/ Expand(p)
  BY <1>2 DEF Reset, RefuseBase, Prepare, Select, FindBacking, Expand, base
<1>3. CASE Compact(p) \/ Seal(p) \/ Publish(p) \/ PublishFailsLate(p)
  BY <1>3 DEF Compact, Seal, Publish, PublishFailsLate
<1>4. CASE \/ Preview(p) \/ Confirm(p) \/ TakeProject(p) \/ Recheck(p) \/ StopVM(p)
           \/ Resolve(p) \/ Replace(p) \/ KillReplacement(p) \/ Return(p) \/ Report(p)
           \/ Fails(p) \/ Kill(p)
  BY <1>4
  DEF Preview, Confirm, TakeProject, Recheck, StopVM, Resolve, Replace, KillReplacement,
      Return, Report, Fails, Kill, base
<1>5. QED
  BY <1>1, <1>2, <1>3, <1>4 DEF Command, Starts

\* A whole image stays what it is.
LEMMA WholeStays ==
  ASSUME BuildInv, NEW p \in Procs, Command(p), NEW v \in Revisions,
         source[v].state = "whole"
  PROVE  source'[v] = source[v]
<1>1. source \in [Revisions -> Sources]
  BY DEF BuildInv, TypeInv, BaseWorldOK
<1>2. CASE Compact(p)
  <2>1. PICK u \in Fresh :
          source' = [source EXCEPT ![u] = [state |-> "partial", content |-> Content(p)]]
    BY <1>2 DEF Compact
  <2>2. u # v
    BY <2>1 DEF Fresh
  <2>3. QED
    BY <1>1, <2>1, <2>2
<1>3. CASE Seal(p)
  <2>1. source[proc[p].revision].state = "partial"
    <3>1. Builds(p) /\ At(p, "seal")
      BY <1>3 DEF BuildInv, Seal
    <3>2. source[proc[p].revision] = [state |-> "partial", content |-> Content(p)]
      BY <3>1 DEF Builds
    <3>3. QED
      BY <3>2
  <2>2. QED
    BY <1>1, <1>3, <2>1 DEF Seal
<1>4. QED
  BY <1>2, <1>3, BaseWriters

\* What is true of a manifest stays true.
LEMMA SoundStays ==
  ASSUME BuildInv, NEW p \in Procs, Command(p), NEW m \in Manifests, Names(m), Sound(m)
  PROVE  m # NoManifest =>
           /\ source'[m.revision] = source[m.revision]
           /\ source'[m.revision].state = "whole"
           /\ source'[m.revision].content.setups = m.applied
           /\ m.user # None => source'[m.revision].content.user = m.user
BY WholeStays DEF Sound, Names

\* The content a builder has in mind.
LEMMA ContentIs ==
  ASSUME BuildInv, NEW p \in Procs
  PROVE  /\ ContentOf(Backing(p)).setups = proc[p].base.applied
         /\ proc[p].base.user # None => ContentOf(Backing(p)).user = proc[p].base.user
<1>1. /\ proc[p].base \in Manifests /\ Names(proc[p].base) /\ Sound(proc[p].base)
  BY DEF BuildInv, SelectionInv, TypeInv, ControlOK, Fit, Steppings
<1>2. CASE proc[p].base = NoManifest
  BY <1>2 DEF Backing, BackingOf, ContentOf, NoManifest
<1>3. CASE proc[p].base # NoManifest
  BY <1>1, <1>3 DEF Sound, Backing, BackingOf, ContentOf
<1>4. QED
  BY <1>2, <1>3

\* What is published is true.
LEMMA PublishedIsSound ==
  ASSUME BuildInv, NEW p \in Procs, At(p, "publish")
  PROVE  /\ Sound(Published(p)) /\ manifest.applied \subseteq Published(p).applied
         /\ mutation = p
<1>1. /\ source[proc[p].revision] = [state |-> "whole", content |-> Content(p)]
      /\ manifest.applied \subseteq proc[p].base.applied /\ mutation = p
      /\ Prepares(p) => proc[p].base = NoManifest
  BY BuildersHold DEF BuildInv, Builds, At, Building
<1>2. QED
  BY <1>1, ContentIs DEF Published, Sound, Content

\* A selection that was true stays true, also when it changes.
LEMMA ManifestSound ==
  ASSUME BuildInv, NEW p \in Procs, Command(p)
  PROVE  Sound(manifest)'
<1>1. manifest \in Manifests /\ Names(manifest) /\ Sound(manifest)
  BY DEF BuildInv, SelectionInv, TypeInv, BaseWorldOK
<1>2. CASE manifest' = manifest
  BY <1>1, <1>2, SoundStays DEF Sound
<1>3. CASE Reset(p)
  BY <1>3 DEF Reset, Sound
<1>4. CASE Publish(p) \/ PublishFailsLate(p)
  <2>1. Sound(Published(p)) /\ manifest' = Published(p) /\ source' = source
    BY <1>4, PublishedIsSound DEF Publish, PublishFailsLate
  <2> DEFINE m == Published(p)
  <2>2. Sound(m) /\ manifest' = m /\ source' = source
    BY <2>1
  <2> HIDE DEF m
  <2>3. QED
    BY <2>2 DEF Sound
<1>5. QED
  BY <1>2, <1>3, <1>4, BaseWriters

\* A command that quits the base, and every command that waits meanwhile.
LEMMA QuitBuilds ==
  ASSUME BuildInv, TypeInv', NEW p \in Procs, Command(p), Quits(p)
  PROVE  Sound(proc[p].base)' /\ BuildersLock(p)' /\ Builds(p)'
<1>1. /\ proc[p].base \in Manifests /\ Names(proc[p].base) /\ Sound(proc[p].base)
  BY DEF BuildInv, SelectionInv, TypeInv, ControlOK, Fit, Steppings
<1>2. Sound(proc[p].base)'
  BY <1>1, SoundStays DEF Quits, Sound
<1>3. proc'[p].user = None
  BY DEF TypeInv, ControlOK, Fit, Quits
<1>4. BuildersLock(p)' /\ Builds(p)'
  BY <1>3 DEF Quits, BuildersLock, Builds, Prepares, At, Building
<1>5. QED
  BY <1>2, <1>4

\* A command that is not the one to take the step keeps its base, and its lock.
LEMMA OthersBuild ==
  ASSUME BuildInv, NEW p \in Procs, Command(p), NEW q \in Procs \ {p}
  PROVE  Sound(proc[q].base)' /\ BuildersLock(q)' /\ Builds(q)'
<1>1. proc'[q] = proc[q]
  BY CommandAlone DEF BuildInv
<1>2. /\ proc[q].base \in Manifests /\ Names(proc[q].base) /\ Sound(proc[q].base)
      /\ BuildersLock(q) /\ Builds(q) /\ Fit(proc[q])
  BY DEF BuildInv, SelectionInv, TypeInv, ControlOK, Fit, Steppings
<1>3. Sound(proc[q].base)'
  BY <1>1, <1>2, SoundStays DEF Sound
<1>4. CASE proc[q].at \in Building /\ BuildsBase(q)
  <2>1. mutation = q /\ mutation \notin {p, Nobody}
    BY <1>2, <1>4, BaseImagesAssumption DEF BuildersLock, BaseImagesAssumption
  <2>2. mutation' = mutation /\ manifest' = manifest /\ source' = source
    BY <2>1, LockKeepsBase
  <2>3. QED
    BY <1>1, <1>2, <1>3, <2>1, <2>2
    DEF BuildersLock, Builds, At, Building, BuildsBase, Runs, Prepares, Content, ContentOf,
        Backing, Added
<1>5. CASE ~(proc[q].at \in Building /\ BuildsBase(q))
  <2>1. ~At(q, "seal") /\ ~At(q, "publish")
    BY <1>2, <1>5 DEF At, Fit, Building, BuildsBase, Runs
  <2>2. QED
    BY <1>1, <1>2, <1>3, <1>5, <2>1
    DEF BuildersLock, Builds, At, Building, BuildsBase, Runs, Prepares
<1>6. QED
  BY <1>4, <1>5

\* Who works on the base.
LEMMA PrepareBuilds ==
  ASSUME BuildInv, NEW p \in Procs, Prepare(p)
  PROVE  Sound(proc[p].base)' /\ BuildersLock(p)' /\ Builds(p)'
<1>1. /\ proc'[p].base = NoManifest /\ proc'[p].at = "backing" /\ mutation' = p
      /\ manifest' = manifest
  BY DEF BuildInv, TypeInv, ControlOK, Prepare, base
<1>2. manifest.applied = {}
  BY DEF Prepare, NeedsPreparation, Refused, OtherAccounts, Customized, Disposable, NoManifest
<1>3. QED
  BY <1>1, <1>2 DEF Sound, BuildersLock, Builds, At, NoManifest

\* Who selects the base has read what is true, and a setup run keeps the lock.
LEMMA SelectBuilds ==
  ASSUME BuildInv, TypeInv', NEW p \in Procs, Command(p), Select(p)
  PROVE  Sound(proc[p].base)' /\ BuildersLock(p)' /\ Builds(p)'
<1>1. CASE Leave(p)
  BY <1>1, LeaveQuits, QuitBuilds DEF BuildInv
<1>2. CASE ~Leave(p)
  <2>1. /\ proc[p] \in Steppings /\ proc[p].user = None
        /\ proc' = [proc EXCEPT ![p].at = "backing", ![p].base = Current(p)]
        /\ mutation' = IF Runs(p, "setup run") THEN p ELSE mutation
        /\ manifest' = manifest /\ source' = source
    BY <1>2
    DEF BuildInv, TypeInv, ControlOK, Select, At, Fit, Building, base
  <2>2. /\ proc'[p].at = "backing" /\ proc'[p].base = Current(p) /\ proc'[p].user = None
        /\ proc'[p].op = proc[p].op
    BY <2>1 DEF BuildInv, TypeInv, ControlOK, Steppings
  <2>3. Sound(Current(p)) /\ manifest.applied \subseteq Current(p).applied
    BY DEF BuildInv, SelectionInv, Current, Customized, Disposable, Sound, NoManifest
  <2> DEFINE m == Current(p)
  <2>4. Sound(m) /\ manifest.applied \subseteq m.applied /\ proc'[p].base = m
    BY <2>2, <2>3
  <2> HIDE DEF m
  <2>5. Sound(proc[p].base)'
    BY <2>1, <2>4 DEF Sound
  <2>6. BuildersLock(p)' /\ Builds(p)'
    BY <2>1, <2>2, <2>4 DEF BuildersLock, Builds, At, BuildsBase, Runs, Prepares
  <2>7. QED
    BY <2>5, <2>6
<1>3. QED
  BY <1>1, <1>2

\* Who finds a backing image, or makes it, goes on with the same base.
LEMMA BackingBuilds ==
  ASSUME BuildInv, NEW p \in Procs, FindBacking(p) \/ Expand(p)
  PROVE  Sound(proc[p].base)' /\ BuildersLock(p)' /\ Builds(p)'
<1>1. PICK step \in {"expand", "compact", "replace"} : proc' = [proc EXCEPT ![p].at = step]
  BY DEF FindBacking, Expand, Goto, WithBacking
<1>2. /\ proc[p] \in Steppings /\ proc[p].at \in {"backing", "expand"}
      /\ manifest' = manifest /\ source' = source /\ mutation' = mutation
  BY DEF BuildInv, TypeInv, ControlOK, FindBacking, Expand, At, base
<1>3. /\ proc'[p].at = step /\ proc'[p].base = proc[p].base /\ proc'[p].user = proc[p].user
      /\ proc'[p].op = proc[p].op
  BY <1>1, <1>2 DEF BuildInv, TypeInv, ControlOK, Steppings
<1>4. Sound(proc[p].base) /\ BuildersLock(p) /\ Builds(p)
  BY DEF BuildInv, SelectionInv
<1>5. Sound(proc[p].base)'
  BY <1>2, <1>3, <1>4 DEF Sound
<1>6. BuildersLock(p)' /\ Builds(p)'
  BY <1>2, <1>3, <1>4 DEF BuildersLock, Builds, At, BuildsBase, Runs, Prepares, Building
<1>7. QED
  BY <1>5, <1>6

\* The command that writes an image has the same content in mind afterwards.
LEMMA ContentStays ==
  ASSUME BuildInv, NEW p \in Procs, Command(p),
         proc'[p].base = proc[p].base, proc'[p].runtime = proc[p].runtime,
         proc'[p].user = proc[p].user, proc'[p].setup = proc[p].setup
  PROVE  Content(p)' = Content(p)
<1>1. /\ proc[p].base \in Manifests /\ Names(proc[p].base) /\ Sound(proc[p].base)
  BY DEF BuildInv, SelectionInv, TypeInv, ControlOK, Fit, Steppings
<1>2. Backing(p)' = Backing(p)
  BY DEF Backing, BackingOf
<1>3. ContentOf(Backing(p))' = ContentOf(Backing(p))
  <2>1. CASE proc[p].base = NoManifest
    BY <2>1, <1>2 DEF ContentOf, Backing, BackingOf
  <2>2. CASE proc[p].base # NoManifest
    BY <1>1, <1>2, <2>2, SoundStays DEF ContentOf, Backing, BackingOf
  <2>3. QED
    BY <2>1, <2>2
<1>4. QED
  BY <1>3 DEF Content, Added, Prepares

\* Who writes an image knows which one and what is in it, ...
LEMMA CompactBuilds ==
  ASSUME BuildInv, NEW p \in Procs, Command(p), Compact(p)
  PROVE  Sound(proc[p].base)' /\ BuildersLock(p)' /\ Builds(p)'
<1>1. PICK v \in Fresh :
        /\ source' = [source EXCEPT ![v] = [state |-> "partial", content |-> Content(p)]]
        /\ proc' = [proc EXCEPT ![p].at = "seal", ![p].revision = v]
  BY DEF Compact
<1>2. /\ proc[p] \in Steppings /\ v \in Revisions /\ source \in [Revisions -> Sources]
      /\ proc[p].base \in Manifests /\ Names(proc[p].base) /\ proc[p].at = "compact"
      /\ Sound(proc[p].base) /\ BuildersLock(p) /\ Builds(p)
      /\ manifest' = manifest /\ mutation' = mutation
  BY DEF BuildInv, SelectionInv, TypeInv, ControlOK, BaseWorldOK, Fit, Steppings, Fresh,
         Compact, At, locks
<1>3. /\ proc'[p].at = "seal" /\ proc'[p].base = proc[p].base
      /\ proc'[p].user = proc[p].user /\ proc'[p].op = proc[p].op
      /\ proc'[p].runtime = proc[p].runtime /\ proc'[p].setup = proc[p].setup
      /\ proc'[p].revision = v
  BY <1>1, <1>2 DEF BuildInv, TypeInv, ControlOK, Steppings
<1>4. Sound(proc[p].base)'
  BY <1>2, <1>3, SoundStays DEF Sound
<1>5. source'[v] = [state |-> "partial", content |-> Content(p)]
  BY <1>1, <1>2
<1>6. Content(p)' = Content(p)
  BY <1>3, ContentStays
<1>7. BuildersLock(p)' /\ Builds(p)'
  BY <1>2, <1>3, <1>5, <1>6
  DEF BuildersLock, Builds, At, BuildsBase, Runs, Prepares, Building
<1>8. QED
  BY <1>4, <1>7

\* ... and still does when it is whole.
LEMMA SealBuilds ==
  ASSUME BuildInv, NEW p \in Procs, Command(p), Seal(p)
  PROVE  Sound(proc[p].base)' /\ BuildersLock(p)' /\ Builds(p)'
<1>1. /\ proc[p] \in Steppings /\ source \in [Revisions -> Sources]
      /\ proc[p].base \in Manifests /\ Names(proc[p].base) /\ At(p, "seal")
      /\ Sound(proc[p].base) /\ BuildersLock(p) /\ Builds(p)
      /\ proc[p].revision \in Revisions
      /\ manifest' = manifest /\ mutation' = mutation
  BY DEF BuildInv, SelectionInv, TypeInv, ControlOK, BaseWorldOK, Fit, Steppings,
         Seal, At, locks
<1>2. /\ proc'[p].at = "publish" /\ proc'[p].base = proc[p].base
      /\ proc'[p].user = proc[p].user /\ proc'[p].op = proc[p].op
      /\ proc'[p].runtime = proc[p].runtime /\ proc'[p].setup = proc[p].setup
      /\ proc'[p].revision = proc[p].revision
  BY <1>1 DEF BuildInv, TypeInv, ControlOK, Steppings, Seal, Goto
<1>3. Sound(proc[p].base)'
  BY <1>1, <1>2, SoundStays DEF Sound
<1>4. source[proc[p].revision] = [state |-> "partial", content |-> Content(p)]
  BY <1>1 DEF Builds
<1>5. source'[proc[p].revision] = [state |-> "whole", content |-> Content(p)]
  BY <1>1, <1>4 DEF Seal
<1>6. Content(p)' = Content(p)
  BY <1>2, ContentStays
<1>7. BuildersLock(p)' /\ Builds(p)'
  BY <1>1, <1>2, <1>5, <1>6
  DEF BuildersLock, Builds, At, BuildsBase, Runs, Prepares, Building
<1>8. QED
  BY <1>3, <1>7

\* Who prepared the base goes on with what it has published.
LEMMA PublishBuilds ==
  ASSUME BuildInv, TypeInv', NEW p \in Procs, Command(p), Publish(p)
  PROVE  Sound(proc[p].base)' /\ BuildersLock(p)' /\ Builds(p)'
<1>1. CASE Leave(p)
  BY <1>1, LeaveQuits, QuitBuilds DEF BuildInv
<1>2. CASE ~Leave(p)
  <2>1. /\ proc' = [proc EXCEPT ![p].at = "backing", ![p].user = None, ![p].revision = 0,
                               ![p].base = Published(p)]
        /\ mutation' = IF Runs(p, "setup run") THEN mutation ELSE Nobody
        /\ manifest' = Published(p) /\ source' = source
    BY <1>2 DEF Publish
  <2>2. Sound(Published(p)) /\ mutation = p
    BY PublishedIsSound DEF Publish
  <2> DEFINE m == Published(p)
  <2>3. /\ proc'[p].at = "backing" /\ proc'[p].base = m /\ proc'[p].user = None
        /\ proc'[p].op = proc[p].op /\ Sound(m) /\ manifest' = m
    BY <2>1, <2>2 DEF BuildInv, TypeInv, ControlOK, Steppings
  <2> HIDE DEF m
  <2>4. Sound(proc[p].base)'
    BY <2>1, <2>3 DEF Sound
  <2>5. BuildersLock(p)' /\ Builds(p)'
    BY <2>1, <2>2, <2>3 DEF BuildersLock, Builds, At, BuildsBase, Runs, Prepares
  <2>6. QED
    BY <2>4, <2>5
<1>3. QED
  BY <1>1, <1>2

\* What is built and what is selected, after any step.
LEMMA BuildNext == BuildInv /\ [Next]_vars => BuildInv'
<1> SUFFICES ASSUME BuildInv, [Next]_vars PROVE BuildInv'
  OBVIOUS
<1>1. TypeInv'
  BY NextTyped DEF BuildInv
<1>2. ASSUME NEW p \in Procs, Command(p) PROVE BuildInv'
  <2>1. Sound(manifest)'
    BY <1>2, ManifestSound
  <2>2. Sound(proc[p].base)' /\ BuildersLock(p)' /\ Builds(p)'
    BY <1>1, <1>2, OthersQuit, QuitBuilds, PrepareBuilds, SelectBuilds, BackingBuilds,
       CompactBuilds, SealBuilds, PublishBuilds
    DEF OnBase, BuildInv
  <2>3. ASSUME NEW q \in Procs
        PROVE  Sound(proc[q].base)' /\ BuildersLock(q)' /\ Builds(q)'
    BY <1>2, <2>2, OthersBuild
  <2>4. QED
    BY <1>1, <2>1, <2>3 DEF BuildInv, SelectionInv
<1>3. CASE UNCHANGED <<proc, locks, base>>
  <2>1. proc' = proc /\ mutation' = mutation /\ manifest' = manifest /\ source' = source
    BY <1>3 DEF locks, base
  <2>2. Sound(manifest)' /\ \A p \in Procs : Sound(proc[p].base)'
    BY <2>1 DEF BuildInv, SelectionInv, Sound
  <2>3. ASSUME NEW p \in Procs PROVE BuildersLock(p)' /\ Builds(p)'
    BY <2>1
    DEF BuildInv, BuildersLock, Builds, At, BuildsBase, Runs, Prepares, Content, ContentOf,
        Backing, Added
  <2>4. QED
    BY <1>1, <2>2, <2>3 DEF BuildInv, SelectionInv
<1>4. ASSUME NEW j \in Projects, ProjectUse(j) PROVE UNCHANGED <<proc, locks, base>>
  BY <1>4 DEF ProjectUse, Recover, Boot, VMEnds, OpenRootSession, ChangeImage, StartCapture,
              DiscardCapture
<1>5. CASE ChangeDefinition \/ Upgrade
  BY <1>3, <1>5 DEF ChangeDefinition, Upgrade
<1>6. QED
  BY <1>2, <1>3, <1>4, <1>5 DEF Next, vars

\* So it is in the initial states.
LEMMA BuildInit == Init => BuildInv
<1> SUFFICES ASSUME Init PROVE BuildInv
  OBVIOUS
<1>1. TypeInv
  BY InitTyped
<1>2. ASSUME NEW p \in Procs
      PROVE  Sound(proc[p].base) /\ BuildersLock(p) /\ Builds(p)
  <2>1. proc[p] = Ended
    BY DEF Init
  <2>2. proc[p].at = "idle" /\ proc[p].base = NoManifest /\ proc[p].user = None
    BY <2>1 DEF Ended
  <2>3. QED
    BY <2>2 DEF Sound, BuildersLock, Builds, At, Building, Prepares
<1>3. Sound(manifest)
  <2>1. CASE manifest = NoManifest
    BY <2>1 DEF Sound
  <2>2. CASE manifest # NoManifest
    <3>1. PICK applied \in SUBSET Setups, user \in (Users \ {account}) \cup {None} :
            /\ manifest = [revision |-> 1, runtime |-> 1, user |-> user, applied |-> applied]
            /\ source = [v \in Revisions |-> IF v > 1 THEN NoSource ELSE
                 [state |-> "whole", content |-> [setups |-> applied,
                    user |-> IF user = None THEN "default" ELSE user]]]
      BY <2>2 DEF Init
    <3>2. 1 \in Revisions
      BY Bounds, BaseImagesAssumption DEF BaseImagesAssumption, Revisions
    <3>3. QED
      BY <3>1, <3>2 DEF Sound
  <2>3. QED
    BY <2>1, <2>2
<1>4. QED
  BY <1>1, <1>2, <1>3 DEF BuildInv, SelectionInv

\* Builders hold the lock, and know what they build: an invariant of the specification.
THEOREM BuildsAlwaysSound == Spec => []BuildInv
BY BuildInit, BuildNext, PTL DEF Spec

\* What current.json selects is a whole image of which it says the truth, whatever
\* command was killed, or wrote it beside another (SelectionIsWhole).
THEOREM SelectionAlwaysWhole == Spec => []SelectionIsWhole
<1>1. BuildInv => SelectionIsWhole
  BY DEF BuildInv, SelectionInv, Sound, SelectionIsWhole
<1>2. QED
  BY <1>1, BuildsAlwaysSound, PTL

\* The customized base loses a setup only by a reset (BaseKeepsSetups).
THEOREM BaseAlwaysKeepsSetups == Spec => BaseKeepsSetups
<1> DEFINE Kept ==
      manifest' # manifest =>
        \/ manifest.applied \subseteq manifest'.applied
        \/ manifest' = NoManifest /\ \E p \in Procs : Runs(p, "reset")
<1>1. BuildInv /\ [Next]_vars => [Kept]_vars
  <2> SUFFICES ASSUME BuildInv, Next, manifest' # manifest
               PROVE  \/ manifest.applied \subseteq manifest'.applied
                      \/ manifest' = NoManifest /\ \E p \in Procs : Runs(p, "reset")
    OBVIOUS
  <2>1. PICK p \in Procs : Command(p)
    BY DEF Next, ProjectUse, Recover, Boot, VMEnds, OpenRootSession, ChangeImage,
           StartCapture, DiscardCapture, ChangeDefinition, Upgrade, base
  <2>2. CASE Reset(p)
    BY <2>2 DEF Reset
  <2>3. CASE Publish(p) \/ PublishFailsLate(p)
    BY <2>3, PublishedIsSound DEF Publish, PublishFailsLate
  <2>4. QED
    BY <2>1, <2>2, <2>3, BaseWriters
<1>2. QED
  BY <1>1, BuildsAlwaysSound, PTL DEF Spec, BaseKeepsSetups

-----------------------------------------------------------------------------
(* The projects.  A command that creates or rebuilds a project holds its   *)
(* gate, so that nothing it has looked at changes before the replacement.  *)

\* A root session is marked in the store of a VM that runs, and a VM in a current store.
Running(j) ==
  /\ j \in session => j \in vm /\ project[j].dirty
  /\ j \in vm => project[j].format = "current" /\ interrupted[j].format = "none"

Holds(p) ==
  LET j == Mine(p) IN
  /\ Runs(p, "create") =>
       gate[j] = p /\ project[j].format = "partial" /\ interrupted[j].format = "none"
  /\ Runs(p, "batch") /\ proc[p].at \in Taken =>
       gate[j] = p /\ interrupted[j].format = "none" /\ j \notin capture
  /\ Runs(p, "batch") /\ proc[p].at \in Rebuilding \cup {"resolve"} => j \notin vm
  /\ Runs(p, "batch") /\ proc[p].at \in Rebuilding =>
       (project[j].dirty => proc[p].force) /\ proc[p].own = project[j].own
  /\ At(p, "replace") => Backing(p) \in ready

\* A store is true of its image, and its changes are marked.
StoreSound(d) ==
  /\ d.format = "current" =>
       /\ d.backing \in ready /\ d.pin = d.backing
       /\ d.backing[1] = "factory" => d.runtime = d.backing[2]
       /\ d.backing[1] = "custom" => source[d.backing[2]].state = "whole"
       /\ d.own = d.layer
       /\ d.inherited = ContentOf(d.backing).setups \ d.own
  /\ d.manual => d.dirty /\ d.format \in {"legacy", "current"}

StoreInv ==
  /\ BuildInv
  /\ \A p \in Procs : Holds(p)
  /\ \A j \in Projects : Running(j) /\ StoreSound(project[j]) /\ StoreSound(interrupted[j])

\* How a command changes a store.
Creates(p, j) ==
  /\ StartCreate(p) /\ gate[j] = Nobody /\ Recovered(j).format = "none"
  /\ project'[j] = [project[j] EXCEPT !.format = "partial"]
  /\ interrupted'[j] = interrupted[j]

Takes(p, j) ==
  /\ TakeProject(p) /\ gate[j] = Nobody
  /\ project'[j] = Recovered(j) /\ interrupted'[j] = NoStore

Removes(p, j) ==
  /\ Runs(p, "create") /\ j = Mine(p)
  /\ project'[j] = NoStore /\ interrupted'[j] = interrupted[j]

Replaces(p, j) ==
  /\ At(p, "replace") /\ j = Mine(p)
  /\ \/ project'[j] = Store(p) /\ interrupted'[j] = interrupted[j]
     \/ /\ Runs(p, "batch") /\ project[j].format = "current"
        /\ project'[j] = project[j] /\ interrupted'[j] \in {project[j], Store(p)}
     \/ /\ Runs(p, "batch") /\ project[j].format # "current"
        /\ project'[j] = NoStore /\ interrupted'[j] = project[j]

\* There are no other ways.
LEMMA StoreWriters ==
  ASSUME TypeInv, NEW p \in Procs, Command(p), NEW j \in Projects
  PROVE  \/ project'[j] = project[j] /\ interrupted'[j] = interrupted[j]
         \/ Creates(p, j) \/ Takes(p, j) \/ Removes(p, j) \/ Replaces(p, j)
<1>1. project \in [Projects -> Stores] /\ interrupted \in [Projects -> Stores]
  BY DEF TypeInv, ProjectsOK
<1>2. CASE StartCreate(p)
  BY <1>1, <1>2 DEF StartCreate, Creates
<1>3. CASE TakeProject(p)
  BY <1>1, <1>3 DEF TakeProject, Takes, stores
<1>4. CASE RefuseBase(p) \/ PublishFailsLate(p) \/ Fails(p)
  BY <1>1, <1>4 DEF RefuseBase, PublishFailsLate, Fails, Fail, Removes
<1>5. CASE Replace(p)
  BY <1>1, <1>5 DEF Replace, Replaces
<1>6. CASE KillReplacement(p)
  BY <1>1, <1>6 DEF KillReplacement, Replaces
<1>7. CASE StartSetupRun(p) \/ StartReset(p) \/ StartBatch(p)
  BY <1>7 DEF StartSetupRun, StartReset, StartBatch, stores
<1>8. CASE Reset(p) \/ Prepare(p) \/ Select(p) \/ FindBacking(p) \/ Expand(p) \/ Compact(p)
  BY <1>8 DEF Reset, Prepare, Select, FindBacking, Expand, Compact, stores
<1>9. CASE \/ Seal(p) \/ Publish(p) \/ Preview(p) \/ Confirm(p) \/ Recheck(p) \/ StopVM(p)
           \/ Resolve(p) \/ Return(p) \/ Report(p) \/ Kill(p)
  BY <1>9
  DEF Seal, Publish, Preview, Confirm, Recheck, StopVM, Resolve, Return, Report, Kill, stores
<1>10. QED
  BY <1>2, <1>3, <1>4, <1>5, <1>6, <1>7, <1>8, <1>9 DEF Command

\* Who changes a store holds its gate, or takes it.
LEMMA WritersHold ==
  ASSUME StoreInv, NEW p \in Procs, NEW j \in Projects, Removes(p, j) \/ Replaces(p, j)
  PROVE  /\ gate[j] = p /\ interrupted[j].format = "none" /\ j \notin vm
         /\ Runs(p, "create") => project[j].format = "partial"
         /\ Runs(p, "create") \/ Runs(p, "batch")
         /\ Runs(p, "batch") => At(p, "replace")
<1>1. Holds(p) /\ Running(j)
  BY DEF StoreInv
<1>2. CASE Runs(p, "create")
  BY <1>1, <1>2 DEF Holds, Running, Removes, Replaces, Runs
<1>3. CASE ~Runs(p, "create")
  <2>1. At(p, "replace") /\ j = Mine(p) /\ Runs(p, "batch")
    BY <1>3, ReplacesMine DEF Removes, Replaces, StoreInv, BuildInv, TypeInv, Runs
  <2>2. QED
    BY <1>1, <1>3, <2>1 DEF Holds, At, Taken, Rebuilding, Working
<1>4. QED
  BY <1>2, <1>3

\* Commands do not boot VMs, open root sessions or start captures, and stop the VMs of
\* their own project.
LEMMA CommandsUse ==
  ASSUME NEW p \in Procs, Command(p)
  PROVE  /\ capture' = capture /\ vm' \subseteq vm /\ session' \subseteq session
         /\ StopVM(p) \/ (vm' = vm /\ session' = session)
<1>1. CASE Starts(p)
  BY <1>1 DEF Starts, StartSetupRun, StartReset, StartCreate, StartBatch, use
<1>2. CASE Reset(p) \/ RefuseBase(p) \/ Prepare(p) \/ Select(p) \/ FindBacking(p) \/ Expand(p)
  BY <1>2 DEF Reset, RefuseBase, Prepare, Select, FindBacking, Expand, use
<1>3. CASE Compact(p) \/ Seal(p) \/ Publish(p) \/ PublishFailsLate(p) \/ Fails(p) \/ Kill(p)
  BY <1>3 DEF Compact, Seal, Publish, PublishFailsLate, Fails, Kill, use
<1>4. CASE \/ Preview(p) \/ Confirm(p) \/ TakeProject(p) \/ Recheck(p) \/ Resolve(p)
           \/ Replace(p) \/ KillReplacement(p) \/ Return(p) \/ Report(p)
  BY <1>4
  DEF Preview, Confirm, TakeProject, Recheck, Resolve, Replace, KillReplacement, Return,
      Report, use
<1>5. CASE StopVM(p)
  BY <1>5 DEF StopVM
<1>6. QED
  BY <1>1, <1>2, <1>3, <1>4, <1>5 DEF Command, Starts

\* A command changes no gate that another one holds.
LEMMA GatesStay ==
  ASSUME TypeInv, NEW p \in Procs, Command(p), NEW j \in Projects, gate[j] \notin {p, Nobody}
  PROVE  gate'[j] = gate[j]
<1>1. gate \in [Projects -> Procs \cup {Nobody}]
  BY DEF TypeInv, ControlOK
<1>2. CASE gate' = gate \/ gate' = Released(gate, p)
  BY <1>1, <1>2 DEF Released
<1>3. CASE StartCreate(p)
  BY <1>1, <1>3 DEF StartCreate
<1>4. CASE TakeProject(p)
  BY <1>1, <1>4 DEF TakeProject, locks
<1>5. CASE StartSetupRun(p) \/ StartReset(p) \/ StartBatch(p)
  BY <1>5 DEF StartSetupRun, StartReset, StartBatch, locks
<1>6. CASE Reset(p) \/ RefuseBase(p) \/ Prepare(p) \/ Select(p) \/ FindBacking(p) \/ Expand(p)
  BY <1>2, <1>6
  DEF Reset, RefuseBase, Prepare, Select, FindBacking, Expand, Fail, FailProject, Conclude,
      Leave
<1>7. CASE Compact(p) \/ Seal(p) \/ Publish(p) \/ PublishFailsLate(p) \/ Fails(p) \/ Kill(p)
  BY <1>2, <1>7
  DEF Compact, Seal, Publish, PublishFailsLate, Fails, Kill, Fail, FailProject, Conclude,
      Leave, locks
<1>8. CASE Preview(p) \/ Confirm(p) \/ Recheck(p) \/ StopVM(p) \/ Resolve(p)
  BY <1>2, <1>8
  DEF Preview, Confirm, Recheck, StopVM, StopFailed, Resolve, Skip, FailProject,
      Conclude, Leave, locks
<1>9. CASE Replace(p) \/ KillReplacement(p) \/ Return(p) \/ Report(p)
  BY <1>2, <1>9 DEF Replace, KillReplacement, Return, Report, Conclude, Leave, locks
<1>10. QED
  BY <1>3, <1>4, <1>5, <1>6, <1>7, <1>8, <1>9 DEF Command

\* The backing images in place stay there.
LEMMA ReadyStays ==
  ASSUME NEW p \in Procs, Command(p)
  PROVE  ready \subseteq ready'
<1>1. CASE Starts(p)
  BY <1>1 DEF Starts, StartSetupRun, StartReset, StartCreate, StartBatch, base
<1>2. CASE Reset(p) \/ RefuseBase(p) \/ Prepare(p) \/ Select(p) \/ FindBacking(p) \/ Expand(p)
  BY <1>2 DEF Reset, RefuseBase, Prepare, Select, FindBacking, Expand, base
<1>3. CASE Compact(p) \/ Seal(p) \/ Publish(p) \/ PublishFailsLate(p) \/ Fails(p) \/ Kill(p)
  BY <1>3 DEF Compact, Seal, Publish, PublishFailsLate, Fails, Kill, base
<1>4. CASE \/ Preview(p) \/ Confirm(p) \/ TakeProject(p) \/ Recheck(p) \/ StopVM(p)
           \/ Resolve(p) \/ Replace(p) \/ KillReplacement(p) \/ Return(p) \/ Report(p)
  BY <1>4
  DEF Preview, Confirm, TakeProject, Recheck, StopVM, Resolve, Replace, KillReplacement,
      Return, Report, base
<1>5. QED
  BY <1>1, <1>2, <1>3, <1>4 DEF Command, Starts

\* A store that was true of its image stays true, wherever it is kept.
LEMMA TrueStays ==
  ASSUME BuildInv, NEW p \in Procs, Command(p), NEW d \in Stores, StoreSound(d),
         NEW e, e = d
  PROVE  /\ e.format = "current" =>
              /\ e.backing \in ready' /\ e.pin = e.backing
              /\ e.backing[1] = "factory" => e.runtime = e.backing[2]
              /\ e.backing[1] = "custom" => source'[e.backing[2]].state = "whole"
              /\ e.own = e.layer
              /\ e.inherited = ContentOf(e.backing).setups \ e.own
              /\ e.backing[1] # "factory" => source'[e.backing[2]] = source[e.backing[2]]
         /\ e.manual => e.dirty /\ e.format \in {"legacy", "current"}
<1>1. ready \subseteq ready'
  BY ReadyStays
<1>2. /\ d.backing[1] = "custom" => d.backing[2] \in Revisions
      /\ d.backing[1] \in {"factory", "custom"}
  BY DEF Stores, Backings
<1>3. d.format = "current" /\ d.backing[1] = "custom" =>
        source'[d.backing[2]] = source[d.backing[2]] /\ source[d.backing[2]].state = "whole"
  BY <1>2, WholeStays DEF StoreSound
<1>4. QED
  BY <1>1, <1>2, <1>3 DEF StoreSound

\* The stores that recovery and the removal of a store leave are true.
LEMMA SoundStores ==
  ASSUME StoreInv
  PROVE  /\ StoreSound(NoStore)
         /\ \A j \in Projects : StoreSound(Recovered(j))
<1>1. NoStore.format = "none" /\ ~NoStore.manual
  BY NothingTyped
<1>2. StoreSound(NoStore)
  BY <1>1 DEF StoreSound
<1>3. ASSUME NEW j \in Projects PROVE StoreSound(Recovered(j))
  BY DEF StoreInv, Recovered
<1>4. QED
  BY <1>2, <1>3

\* So is the one a replacement makes, on the backing image that the command has found.
LEMMA ReplacedStore ==
  ASSUME StoreInv, NEW p \in Procs, At(p, "replace")
  PROVE  StoreSound(Store(p))
<1>1. /\ proc[p].base \in Manifests /\ Names(proc[p].base) /\ Sound(proc[p].base)
      /\ Backing(p) \in ready
  BY DEF StoreInv, BuildInv, SelectionInv, TypeInv, ControlOK, Fit, Steppings, Holds
<1>2. /\ Backing(p)[1] = "factory" => proc[p].runtime = Backing(p)[2]
      /\ Backing(p)[1] = "custom" => source[Backing(p)[2]].state = "whole"
  BY <1>1 DEF Backing, BackingOf, Sound
<1>3. ContentOf(Backing(p)).setups = proc[p].base.applied
  BY ContentIs DEF StoreInv
<1>4. QED
  BY <1>1, <1>2, <1>3 DEF Store, Pin, StoreSound

\* What a command puts into a store was true before the step.
LEMMA StoresFrom ==
  ASSUME StoreInv, NEW p \in Procs, Command(p), NEW j \in Projects
  PROVE  /\ project'[j] \in Stores /\ StoreSound(project'[j])
         /\ interrupted'[j] \in Stores /\ StoreSound(interrupted'[j])
<1>1. /\ project[j] \in Stores /\ interrupted[j] \in Stores /\ NoStore \in Stores
      /\ Store(p) \in Stores /\ Recovered(j) \in Stores
      /\ StoreSound(project[j]) /\ StoreSound(interrupted[j])
      /\ StoreSound(NoStore) /\ StoreSound(Recovered(j))
      /\ At(p, "replace") => StoreSound(Store(p))
  BY StoresTyped, NothingTyped, SoundStores, ReplacedStore
  DEF StoreInv, BuildInv, TypeInv, ProjectsOK
<1>2. CASE Creates(p, j)
  <2>1. project[j].format = "none"
    BY <1>2 DEF Creates, Recovered
  <2> DEFINE d == [project[j] EXCEPT !.format = "partial"]
  <2>2. d \in Stores /\ d.format = "partial" /\ d.manual = project[j].manual
    BY <1>1 DEF Stores
  <2>3. ~project[j].manual
    BY <1>1, <2>1 DEF StoreSound
  <2>4. project'[j] = d
    BY <1>2 DEF Creates
  <2> HIDE DEF d
  <2>5. StoreSound(d)
    BY <2>2, <2>3 DEF StoreSound
  <2>6. QED
    BY <1>1, <1>2, <2>2, <2>4, <2>5 DEF Creates
<1>3. CASE Takes(p, j)
  BY <1>1, <1>3 DEF Takes
<1>4. CASE Removes(p, j)
  BY <1>1, <1>4 DEF Removes
<1>5. CASE Replaces(p, j)
  BY <1>1, <1>5 DEF Replaces
<1>6. CASE project'[j] = project[j] /\ interrupted'[j] = interrupted[j]
  BY <1>1, <1>6
<1>7. QED
  BY <1>2, <1>3, <1>4, <1>5, <1>6, StoreWriters DEF StoreInv, BuildInv

\* Stores after a command.
LEMMA CommandStores ==
  ASSUME StoreInv, NEW p \in Procs, Command(p), NEW j \in Projects
  PROVE  StoreSound(project[j])' /\ StoreSound(interrupted[j])'
<1>1. StoreSound(project[j])'
  <2> DEFINE e == project'[j]
  <2>1. e \in Stores /\ StoreSound(e)
    BY StoresFrom
  <2>2. /\ e.format = "current" =>
             /\ e.backing \in ready' /\ e.pin = e.backing
             /\ e.backing[1] = "factory" => e.runtime = e.backing[2]
             /\ e.backing[1] = "custom" => source'[e.backing[2]].state = "whole"
             /\ e.own = e.layer
             /\ e.inherited = ContentOf(e.backing).setups \ e.own
             /\ e.backing[1] # "factory" => source'[e.backing[2]] = source[e.backing[2]]
        /\ e.manual => e.dirty /\ e.format \in {"legacy", "current"}
    BY <2>1, TrueStays DEF StoreInv
  <2> HIDE DEF e
  <2>3. e = project'[j]
    BY DEF e
  <2>4. QED
    BY <2>2, <2>3 DEF StoreSound, ContentOf
<1>2. StoreSound(interrupted[j])'
  <2> DEFINE e == interrupted'[j]
  <2>1. e \in Stores /\ StoreSound(e)
    BY StoresFrom
  <2>2. /\ e.format = "current" =>
             /\ e.backing \in ready' /\ e.pin = e.backing
             /\ e.backing[1] = "factory" => e.runtime = e.backing[2]
             /\ e.backing[1] = "custom" => source'[e.backing[2]].state = "whole"
             /\ e.own = e.layer
             /\ e.inherited = ContentOf(e.backing).setups \ e.own
             /\ e.backing[1] # "factory" => source'[e.backing[2]] = source[e.backing[2]]
        /\ e.manual => e.dirty /\ e.format \in {"legacy", "current"}
    BY <2>1, TrueStays DEF StoreInv
  <2> HIDE DEF e
  <2>3. e = interrupted'[j]
    BY DEF e
  <2>4. QED
    BY <2>2, <2>3 DEF StoreSound, ContentOf
<1>3. QED
  BY <1>1, <1>2

\* A VM runs on, and is marked, whatever a command does to a store.
LEMMA CommandRunning ==
  ASSUME StoreInv, NEW p \in Procs, Command(p), NEW j \in Projects
  PROVE  Running(j)'
<1>1. Running(j) /\ vm' \subseteq vm /\ session' \subseteq session
  BY CommandsUse DEF StoreInv
<1>2. j \in session' => j \in vm'
  <2>1. CASE StopVM(p)
    BY <1>1, <2>1 DEF StopVM, Running
  <2>2. CASE vm' = vm /\ session' = session
    BY <1>1, <2>2 DEF Running
  <2>3. QED
    BY <2>1, <2>2, CommandsUse
<1>3. j \in vm => project'[j] = project[j] /\ interrupted'[j].format = "none"
  <2>1. CASE Creates(p, j)
    BY <1>1, <2>1 DEF Creates, Recovered, Running
  <2>2. CASE Takes(p, j)
    BY <1>1, <2>2, NothingTyped DEF Takes, Recovered, Running
  <2>3. CASE Removes(p, j) \/ Replaces(p, j)
    BY <2>3, WritersHold
  <2>4. CASE project'[j] = project[j] /\ interrupted'[j] = interrupted[j]
    BY <1>1, <2>4 DEF Running
  <2>5. QED
    BY <2>1, <2>2, <2>3, <2>4, StoreWriters DEF StoreInv, BuildInv
<1>4. QED
  BY <1>1, <1>2, <1>3 DEF Running

\* A project whose gate is held: nobody else changes what its holder relies on.
Untouched(j) ==
  /\ gate'[j] = gate[j] /\ interrupted'[j].format = interrupted[j].format
  /\ project'[j].format = project[j].format /\ project'[j].own = project[j].own
  /\ project'[j].dirty = project[j].dirty
  /\ (j \in capture' => j \in capture) /\ (j \in vm' => j \in vm)

\* A step of a command leaves the projects of another one alone.
LEMMA OthersUntouched ==
  ASSUME StoreInv, NEW p \in Procs, Command(p), NEW j \in Projects, gate[j] \notin {p, Nobody}
  PROVE  Untouched(j)
<1>1. gate'[j] = gate[j] /\ capture' = capture /\ vm' \subseteq vm
  BY GatesStay, CommandsUse DEF StoreInv, BuildInv
<1>2. project'[j] = project[j] /\ interrupted'[j] = interrupted[j]
  BY StoreWriters, WritersHold DEF Creates, Takes, StoreInv, BuildInv
<1>3. QED
  BY <1>1, <1>2 DEF Untouched

\* A holder whose projects are left alone holds what it relies on, ...
LEMMA HolderHolds ==
  ASSUME StoreInv, NEW q \in Procs, proc'[q] = proc[q], ready \subseteq ready',
         \A j \in Projects : gate[j] = q => Untouched(j)
  PROVE  Holds(q)'
<1>1. Holds(q) /\ Fit(proc[q])
  BY DEF StoreInv, BuildInv, TypeInv, ControlOK
<1>2. /\ Runs(q, "create") => Mine(q) \in Projects /\ gate[Mine(q)] = q
      /\ Runs(q, "batch") /\ proc[q].at \in Taken => Mine(q) \in Projects /\ gate[Mine(q)] = q
  BY <1>1 DEF Holds, Fit, Runs, Mine
<1>3. /\ Runs(q, "create") => Untouched(Mine(q))
      /\ Runs(q, "batch") /\ proc[q].at \in Taken => Untouched(Mine(q))
  BY <1>2
<1>4. Backing(q)' = Backing(q) /\ Mine(q)' = Mine(q)
  BY DEF Backing, Mine
<1>5. Rebuilding \cup {"resolve"} \subseteq Taken
  BY DEF Taken
<1>6. QED
  BY <1>1, <1>3, <1>4, <1>5 DEF Holds, Untouched, Runs, At

\* ... whichever command takes the step.
LEMMA OthersHold ==
  ASSUME StoreInv, NEW p \in Procs, Command(p), NEW q \in Procs \ {p}
  PROVE  Holds(q)'
<1>1. \A j \in Projects : gate[j] = q => Untouched(j)
  BY OthersUntouched, BaseImagesAssumption DEF BaseImagesAssumption
<1>2. proc'[q] = proc[q]
  BY CommandAlone DEF StoreInv, BuildInv
<1>3. ready \subseteq ready'
  BY ReadyStays
<1>4. QED
  BY <1>1, <1>2, <1>3, HolderHolds

\* A command that has no project relies on none.
Free(r) ==
  r.at # "replace" /\ r.op # "create" /\ (r.op = "batch" => r.at \notin Taken)

\* It holds what it relies on, since that is nothing.
LEMMA FreeHolds == ASSUME NEW p \in Procs, Free(proc'[p]) PROVE Holds(p)'
<1>1. Rebuilding \cup {"resolve"} \subseteq Taken
  BY DEF Taken
<1>2. QED
  BY <1>1 DEF Free, Holds, Runs, At

\* A command that ends has no project, ...
LEMMA LeaveFree ==
  ASSUME TypeInv, NEW p \in Procs, Leave(p)
  PROVE  Free(proc'[p])
BY BaseImagesAssumption
DEF BaseImagesAssumption, Commands, TypeInv, ControlOK, Leave, Ended, Free

\* ... nor has a batch between two projects, ...
LEMMA ConcludeFree ==
  ASSUME TypeInv, NEW p \in Procs, NEW verdict \in Steppings, verdict.op = "batch",
         Conclude(p, verdict)
  PROVE  Free(proc'[p])
<1>1. proc' = [proc EXCEPT ![p] = NextRecord(verdict)]
  BY DEF Conclude, NextRecord
<1>2. NextRecord(verdict).at = "next" /\ NextRecord(verdict).op = "batch"
  BY DEF NextRecord, Steppings
<1>3. QED
  BY <1>1, <1>2
  DEF TypeInv, ControlOK, Free, Taken, Rebuilding, Working, Building

\* ... nor one that fails or skips the project it had taken.
LEMMA FailFree ==
  ASSUME TypeInv, NEW p \in Procs, proc[p].at \in Taken,
         Fail(p) \/ (Runs(p, "batch") /\ (Skip(p) \/ FailProject(p)))
  PROVE  Free(proc'[p])
<1>1. CASE Leave(p)
  BY <1>1, LeaveFree
<1>2. CASE ~Leave(p)
  <2>1. Runs(p, "batch") /\ (Skip(p) \/ FailProject(p))
    BY <1>2 DEF Fail
  <2>2. Mine(p) \in Projects /\ proc[p] \in Steppings
    BY <2>1 DEF TypeInv, ControlOK, Fit, Runs, Mine
  <2> DEFINE skipped == [proc[p] EXCEPT !.skipped = @ \cup {Mine(p)}]
             failed == [proc[p] EXCEPT !.failed = @ \cup {Mine(p)}]
  <2>3. /\ skipped \in Steppings /\ skipped.op = "batch"
        /\ failed \in Steppings /\ failed.op = "batch"
        /\ Skip(p) => Conclude(p, skipped)
        /\ FailProject(p) => Conclude(p, failed)
    BY <2>1, <2>2, Verdicts DEF Skip, FailProject, Steppings, TypeInv, Runs
  <2> HIDE DEF skipped, failed
  <2>4. QED
    BY <2>1, <2>3, ConcludeFree
<1>3. QED
  BY <1>1, <1>2

\* A command that creates or rebuilds a project goes on, and the project is as it was.
LEMMA OnwardHolds ==
  ASSUME StoreInv, NEW p \in Procs, proc[p].at \in Rebuilding, proc'[p].at \in Rebuilding,
         proc'[p].op = proc[p].op, proc'[p].project = proc[p].project,
         proc'[p].own = proc[p].own, proc'[p].force = proc[p].force,
         UNCHANGED <<gate, stores, use>>,
         proc'[p].at = "replace" => Backing(p)' \in ready'
  PROVE  Holds(p)'
<1>1. Holds(p) /\ Rebuilding \subseteq Taken
  BY DEF StoreInv, Taken
<1>2. /\ Mine(p)' = Mine(p) /\ project' = project /\ interrupted' = interrupted
      /\ gate' = gate /\ vm' = vm /\ capture' = capture
  BY DEF Mine, stores, use
<1>3. QED
  BY <1>1, <1>2 DEF Holds, Runs, At

\* The steps on the base.
LEMMA BaseHolds ==
  ASSUME StoreInv, NEW p \in Procs, OnBase(p)
  PROVE  Holds(p)'
<1>1. proc \in [Procs -> Steppings] /\ proc[p] \in Steppings
  BY DEF StoreInv, BuildInv, TypeInv, ControlOK
<1>2. CASE Leave(p)
  BY <1>2, LeaveFree, FreeHolds DEF StoreInv, BuildInv
<1>3. CASE Prepare(p) \/ (Select(p) /\ ~Leave(p))
  <2>1. /\ proc[p].at = "base" /\ proc'[p].at = "backing" /\ proc'[p].op = proc[p].op
        /\ proc'[p].project = proc[p].project /\ proc'[p].own = proc[p].own
        /\ proc'[p].force = proc[p].force /\ UNCHANGED <<gate, stores, use>>
    <3>1. CASE Prepare(p)
      BY <1>1, <3>1 DEF Prepare, Steppings, At
    <3>2. CASE Select(p) /\ ~Leave(p)
      <4>1. /\ proc' = [proc EXCEPT ![p].at = "backing", ![p].base = Current(p)]
            /\ proc[p].at = "base" /\ UNCHANGED <<gate, stores, use>>
        BY <3>2 DEF Select, At
      <4>2. QED
        BY <1>1, <4>1 DEF Steppings
    <3>3. QED
      BY <1>3, <3>1, <3>2
  <2>2. QED
    BY <2>1, OnwardHolds DEF Rebuilding, Working, Building
<1>4. CASE FindBacking(p)
  <2>1. /\ proc[p].at = "backing" /\ proc'[p].at \in {"expand", "compact", "replace"}
        /\ proc'[p].op = proc[p].op /\ proc'[p].project = proc[p].project
        /\ proc'[p].own = proc[p].own /\ proc'[p].force = proc[p].force
        /\ proc'[p].base = proc[p].base /\ proc'[p].runtime = proc[p].runtime
        /\ UNCHANGED <<gate, stores, use>> /\ ready' = ready
        /\ proc'[p].at = "replace" => Backing(p) \in ready
    <3>1. CASE Backing(p) \in ready
      BY <1>1, <1>4, <3>1 DEF FindBacking, Steppings, At, Goto, WithBacking, base
    <3>2. CASE Backing(p) \notin ready
      BY <1>1, <1>4, <3>2 DEF FindBacking, Steppings, At, Goto, base
    <3>3. QED
      BY <3>1, <3>2
  <2>2. Backing(p)' = Backing(p)
    BY <2>1 DEF Backing
  <2>3. QED
    BY <2>1, <2>2, OnwardHolds DEF Rebuilding, Working, Building
<1>5. CASE Expand(p)
  <2>1. /\ proc[p].at = "expand" /\ proc'[p].at \in {"compact", "replace"}
        /\ proc'[p].op = proc[p].op /\ proc'[p].project = proc[p].project
        /\ proc'[p].own = proc[p].own /\ proc'[p].force = proc[p].force
        /\ proc'[p].base = proc[p].base /\ proc'[p].runtime = proc[p].runtime
        /\ UNCHANGED <<gate, stores, use>> /\ ready' = ready \cup {Backing(p)}
    BY <1>1, <1>5 DEF Expand, Steppings, At, Goto, WithBacking
  <2>2. Backing(p)' = Backing(p)
    BY <2>1 DEF Backing
  <2>3. QED
    BY <2>1, <2>2, OnwardHolds DEF Rebuilding, Working, Building
<1>6. CASE Compact(p) \/ Seal(p)
  <2>1. /\ proc[p].at \in {"compact", "seal"} /\ proc'[p].at \in {"seal", "publish"}
        /\ proc'[p].op = proc[p].op /\ proc'[p].project = proc[p].project
        /\ proc'[p].own = proc[p].own /\ proc'[p].force = proc[p].force
        /\ UNCHANGED <<gate, stores, use>>
    BY <1>1, <1>6 DEF Compact, Seal, Steppings, At, Goto, locks
  <2>2. QED
    BY <2>1, OnwardHolds DEF Rebuilding, Working, Building
<1>7. CASE Publish(p) /\ ~Leave(p)
  <2>1. /\ proc[p].at = "publish" /\ proc'[p].at = "backing" /\ proc'[p].op = proc[p].op
        /\ proc'[p].project = proc[p].project /\ proc'[p].own = proc[p].own
        /\ proc'[p].force = proc[p].force /\ UNCHANGED <<gate, stores, use>>
    <3>1. /\ proc' = [proc EXCEPT ![p].at = "backing", ![p].user = None,
                                  ![p].revision = 0, ![p].base = Published(p)]
          /\ proc[p].at = "publish" /\ UNCHANGED <<gate, stores, use>>
      BY <1>7 DEF Publish, At
    <3>2. QED
      BY <1>1, <3>1 DEF Steppings
  <2>2. QED
    BY <2>1, OnwardHolds DEF Rebuilding, Working, Building
<1>8. QED
  BY <1>2, <1>3, <1>4, <1>5, <1>6, <1>7 DEF OnBase

\* A batch takes up a project, and looks at it step by step.
LEMMA TakeHolds ==
  ASSUME StoreInv, NEW p \in Procs, TakeProject(p)
  PROVE  Holds(p)'
<1>1. PICK j \in proc[p].plan :
       IF gate[j] # Nobody \/ JournalPending(j) \/ j \in capture
       THEN /\ proc' = [proc EXCEPT ![p].plan = @ \ {j}, ![p].skipped = @ \cup {j}]
            /\ UNCHANGED <<locks, stores>>
       ELSE /\ proc' = [proc EXCEPT ![p].plan = @ \ {j}, ![p].project = j,
                                    ![p].at = "recheck"]
            /\ gate' = [gate EXCEPT ![j] = p] /\ UNCHANGED <<mutation, expanding>>
            /\ project' = [project EXCEPT ![j] = Recovered(j)]
            /\ interrupted' = [interrupted EXCEPT ![j] = NoStore]
  BY DEF TakeProject
<1>2. /\ proc \in [Procs -> Steppings] /\ proc[p] \in Steppings /\ proc[p].at = "next"
      /\ proc[p].op = "batch" /\ j \in Projects
      /\ gate \in [Projects -> Procs \cup {Nobody}] /\ interrupted \in [Projects -> Stores]
      /\ capture' = capture
  BY DEF StoreInv, BuildInv, TypeInv, ControlOK, ProjectsOK, Fit, TakeProject, At, Steppings,
         use
<1>3. CASE gate[j] # Nobody \/ JournalPending(j) \/ j \in capture
  <2>1. proc'[p].at = "next" /\ proc'[p].op = "batch"
    BY <1>1, <1>2, <1>3 DEF Steppings
  <2>2. QED
    BY <2>1, FreeHolds DEF Free, Taken, Rebuilding, Working, Building
<1>4. CASE ~(gate[j] # Nobody \/ JournalPending(j) \/ j \in capture)
  <2>1. /\ proc'[p].at = "recheck" /\ proc'[p].op = "batch" /\ proc'[p].project = j
        /\ gate'[j] = p /\ interrupted'[j].format = "none" /\ j \notin capture'
    BY <1>1, <1>2, <1>4, NothingTyped DEF Steppings
  <2>2. QED
    BY <2>1 DEF Holds, Runs, At, Mine, Rebuilding, Working, Building
<1>5. QED
  BY <1>3, <1>4

\* What it sees under the gate is what the rebuild relies on.
LEMMA LookHolds ==
  ASSUME StoreInv, NEW p \in Procs, Recheck(p) \/ StopVM(p) \/ Resolve(p)
  PROVE  Holds(p)'
<1>1. /\ proc \in [Procs -> Steppings] /\ proc[p] \in Steppings /\ Runs(p, "batch")
      /\ proc[p].at \in Taken /\ Mine(p) \in Projects /\ Holds(p) /\ TypeInv
  BY GoesOn DEF StoreInv, BuildInv, TypeInv, ControlOK, Recheck, StopVM, Resolve, At
<1>2. CASE Skip(p) \/ FailProject(p)
  BY <1>1, <1>2, FailFree, FreeHolds
<1>3. CASE Recheck(p) /\ ~Skip(p)
  <2>1. /\ proc'[p].at = "stop" /\ proc'[p].op = "batch" /\ proc'[p].project = Mine(p)
        /\ UNCHANGED <<gate, stores, use>>
    BY <1>1, <1>3 DEF Recheck, Goto, Steppings, Runs, Mine, locks
  <2>2. QED
    BY <1>1, <2>1
    DEF Holds, Runs, At, Mine, Rebuilding, Working, Building, stores, use
<1>4. CASE StopVM(p) /\ ~FailProject(p)
  <2>1. /\ proc'[p].at = "resolve" /\ proc'[p].op = "batch" /\ proc'[p].project = Mine(p)
        /\ UNCHANGED <<gate, stores, capture>> /\ vm' = vm \ {Mine(p)}
    BY <1>1, <1>4 DEF StopVM, StopFailed, Steppings, Runs, Mine, locks
  <2>2. QED
    BY <1>1, <2>1
    DEF Holds, Runs, At, Mine, Rebuilding, Working, Building, stores
<1>5. CASE Resolve(p) /\ ~FailProject(p)
  <2>1. /\ proc[p].at = "resolve" /\ proc'[p].at = "base" /\ proc'[p].op = "batch"
        /\ proc'[p].project = Mine(p) /\ proc'[p].own = project[Mine(p)].own
        /\ proc'[p].force = proc[p].force
        /\ project[Mine(p)].dirty => proc[p].force
        /\ UNCHANGED <<gate, stores, use>>
    BY <1>1, <1>5
    DEF Resolve, Steppings, Runs, Mine, locks, OwnSetups, MustKeepChanges, At
  <2>2. QED
    BY <1>1, <2>1
    DEF Holds, Runs, At, Mine, stores, use
<1>6. QED
  BY <1>2, <1>3, <1>4, <1>5 DEF Recheck, StopVM, StopFailed, Resolve

\* Whatever a command does, it goes on to hold what it relies on.
LEMMA OwnHolds ==
  ASSUME StoreInv, NEW p \in Procs, Command(p)
  PROVE  Holds(p)'
<1>1. proc \in [Procs -> Steppings] /\ proc[p] \in Steppings /\ TypeInv
  BY DEF StoreInv, BuildInv, TypeInv, ControlOK
<1>2. CASE Leave(p)
  BY <1>1, <1>2, LeaveFree, FreeHolds
<1>3. CASE RefuseBase(p) \/ PublishFailsLate(p) \/ Fails(p)
  BY <1>1, <1>3, FailFree, FreeHolds
  DEF RefuseBase, PublishFailsLate, Fails, Taken, Rebuilding, Working, Building, At
<1>4. CASE StartSetupRun(p) \/ StartReset(p) \/ StartBatch(p)
  <2>1. \/ proc'[p].op \in {"setup run", "reset"} /\ proc'[p].at = "base"
        \/ proc'[p].op = "batch" /\ proc'[p].at = "preview"
    <3>1. CASE StartSetupRun(p)
      BY <1>1, <3>1 DEF StartSetupRun, Ended
    <3>2. CASE StartReset(p)
      BY <1>1, <3>2 DEF StartReset, Ended
    <3>3. CASE StartBatch(p)
      BY <1>1, <3>3 DEF StartBatch, Ended
    <3>4. QED
      BY <1>4, <3>1, <3>2, <3>3
  <2>2. QED
    BY <2>1, FreeHolds DEF Free, Taken, Rebuilding, Working, Building
<1>5. CASE StartCreate(p)
  <2>1. PICK j \in Projects :
          /\ Recovered(j).format = "none"
          /\ project' = [project EXCEPT ![j].format = "partial"]
          /\ gate' = [gate EXCEPT ![j] = p]
          /\ proc' = [proc EXCEPT ![p] = CreateRecord(j)]
    BY <1>5 DEF StartCreate, CreateRecord
  <2>2. /\ proc'[p].op = "create" /\ proc'[p].at = "base" /\ proc'[p].project = j
    BY <1>1, <2>1 DEF CreateRecord, Ended
  <2>3. gate'[j] = p /\ project'[j].format = "partial" /\ interrupted'[j].format = "none"
    BY <1>5, <2>1
    DEF StartCreate, TypeInv, ControlOK, ProjectsOK, Stores, Recovered, StoreInv, BuildInv
  <2>4. QED
    BY <2>2, <2>3 DEF Holds, Runs, At, Mine
<1>6. CASE Preview(p) \/ (Confirm(p) /\ ~Leave(p))
  <2>1. proc'[p].op = "batch" /\ proc'[p].at \in {"preview", "next"}
    <3>1. proc[p].op = "batch" /\ proc[p].at = "preview"
      BY <1>6 DEF TypeInv, ControlOK, Fit, Preview, Confirm, At, StoreInv, BuildInv
    <3>2. CASE Preview(p)
      BY <1>1, <3>1, <3>2 DEF Preview, Steppings
    <3>3. CASE Confirm(p) /\ ~Leave(p)
      BY <1>1, <3>1, <3>3 DEF Confirm, Steppings
    <3>4. QED
      BY <1>6, <3>2, <3>3
  <2>2. QED
    BY <2>1, FreeHolds DEF Free, Taken, Rebuilding, Working, Building
<1>7. CASE Return(p)
  BY <1>1, <1>7, ReturnConcludes, ConcludeFree, FreeHolds DEF TypeInv
<1>8. CASE Replace(p) /\ ~Leave(p)
  <2>1. /\ proc'[p] = Replaced(p) /\ UNCHANGED locks /\ Mine(p) = proc[p].project
        /\ Runs(p, "batch") /\ proc[p].at \in Taken
        /\ interrupted' = interrupted /\ capture' = capture
    BY <1>1, <1>8, ReplacedFits
    DEF TypeInv, Mine, Runs, Replace, use, At, Taken, Rebuilding, Working
  <2>2. /\ proc'[p].at = "return" /\ proc'[p].op = "batch" /\ proc'[p].project = Mine(p)
        /\ gate' = gate
    BY <1>1, <2>1 DEF Replaced, Steppings, Runs, locks
  <2>3. QED
    BY <2>1, <2>2 DEF StoreInv, Holds, Runs, At, Mine, Rebuilding, Working, Building
<1>9. QED
  BY <1>2, <1>3, <1>4, <1>5, <1>6, <1>7, <1>8, BaseHolds, TakeHolds, LookHolds
  DEF Command, OnBase, Reset, KillReplacement, Report, Kill

\* What else happens to a project keeps its records true, and does not disturb a command
\* that holds its gate.
LEMMA UseStores ==
  ASSUME StoreInv, NEW k \in Projects, ProjectUse(k), NEW j \in Projects
  PROVE  /\ Running(j)' /\ StoreSound(project[j])' /\ StoreSound(interrupted[j])'
         /\ gate[j] # Nobody => Untouched(j)
<1>1. /\ Running(j) /\ Running(k) /\ StoreSound(project[j]) /\ StoreSound(interrupted[j])
      /\ StoreSound(Recovered(j)) /\ StoreSound(NoStore) /\ NoStore.format = "none"
      /\ project \in [Projects -> Stores] /\ interrupted \in [Projects -> Stores]
  BY SoundStores, NothingTyped DEF StoreInv, BuildInv, TypeInv, ProjectsOK
<1>2. /\ ready' = ready /\ source' = source /\ gate' = gate
  BY DEF ProjectUse, Recover, Boot, VMEnds, OpenRootSession, ChangeImage, StartCapture,
         DiscardCapture, base, locks
<1>3. CASE Recover(k)
  <2>1. /\ project' = [project EXCEPT ![k] = Recovered(k)] /\ vm' = vm /\ session' = session
        /\ interrupted' = [interrupted EXCEPT ![k] = NoStore] /\ capture' = capture
        /\ gate[k] = Nobody /\ k \notin vm
    BY <1>1, <1>3 DEF Recover, Quiet, Running, use
  <2>2. /\ project'[j] \in {project[j], Recovered(j)}
        /\ interrupted'[j] \in {interrupted[j], NoStore}
    BY <1>1, <2>1
  <2>3. StoreSound(project'[j]) /\ StoreSound(interrupted'[j])
    BY <1>1, <2>2
  <2>4. StoreSound(project[j])' /\ StoreSound(interrupted[j])'
    BY <1>2, <2>3 DEF StoreSound, ContentOf
  <2>5. Running(j)' /\ (gate[j] # Nobody => Untouched(j))
    BY <1>1, <1>2, <2>1 DEF Running, Untouched
  <2>6. QED
    BY <2>4, <2>5
<1>4. CASE Boot(k) \/ VMEnds(k) \/ StartCapture(k) \/ DiscardCapture(k)
  <2>1. project' = project /\ interrupted' = interrupted
    BY <1>4 DEF Boot, VMEnds, StartCapture, DiscardCapture, stores
  <2>2. StoreSound(project[j])' /\ StoreSound(interrupted[j])'
    BY <1>1, <1>2, <2>1 DEF StoreSound, ContentOf
  <2>3. Running(j)' /\ (gate[j] # Nobody => Untouched(j))
    <3>1. CASE Boot(k)
      BY <1>1, <1>2, <2>1, <3>1 DEF Boot, Usable, Quiet, Running, Untouched
    <3>2. CASE VMEnds(k)
      BY <1>1, <1>2, <2>1, <3>2 DEF VMEnds, Running, Untouched
    <3>3. CASE StartCapture(k)
      BY <1>1, <1>2, <2>1, <3>3 DEF StartCapture, Usable, Quiet, Running, Untouched
    <3>4. CASE DiscardCapture(k)
      BY <1>1, <1>2, <2>1, <3>4 DEF DiscardCapture, Running, Untouched
    <3>5. QED
      BY <1>4, <3>1, <3>2, <3>3, <3>4
  <2>4. QED
    BY <2>2, <2>3
<1>5. CASE OpenRootSession(k)
  <2>1. /\ project' = [project EXCEPT ![k].dirty = TRUE] /\ interrupted' = interrupted
        /\ vm' = vm /\ session' = session \cup {k} /\ capture' = capture
        /\ k \in vm /\ gate[k] = Nobody /\ project[k].format = "current"
    BY <1>5 DEF OpenRootSession, Usable, Quiet
  <2>2. /\ project'[j] = IF j = k THEN [project[j] EXCEPT !.dirty = TRUE] ELSE project[j]
        /\ interrupted'[j] = interrupted[j]
    BY <1>1, <2>1
  <2> DEFINE d == [project[k] EXCEPT !.dirty = TRUE]
  <2>3. /\ d.format = project[k].format /\ d.backing = project[k].backing
        /\ d.pin = project[k].pin /\ d.runtime = project[k].runtime
        /\ d.own = project[k].own /\ d.layer = project[k].layer
        /\ d.inherited = project[k].inherited /\ d.dirty
    BY <1>1 DEF Stores
  <2>4. project'[j] = IF j = k THEN d ELSE project[j]
    BY <2>2
  <2> HIDE DEF d
  <2>5. StoreSound(d)
    BY <1>1, <2>1, <2>3 DEF StoreInv, StoreSound
  <2>6. StoreSound(project[j])' /\ StoreSound(interrupted[j])'
    BY <1>1, <1>2, <2>2, <2>4, <2>5 DEF StoreSound, ContentOf
  <2>7. Running(j)' /\ (gate[j] # Nobody => Untouched(j))
    BY <1>1, <1>2, <2>1, <2>2, <2>3, <2>4 DEF Running, Untouched
  <2>8. QED
    BY <2>6, <2>7
<1>6. CASE ChangeImage(k)
  <2>1. /\ project' = [project EXCEPT ![k].manual = TRUE] /\ interrupted' = interrupted
        /\ vm' = vm /\ session' = session /\ capture' = capture /\ k \in session
    BY <1>6 DEF ChangeImage, use
  <2>2. project[k].dirty /\ project[k].format = "current"
    BY <1>1, <2>1 DEF Running
  <2> DEFINE d == [project[k] EXCEPT !.manual = TRUE]
  <2>3. /\ d.format = project[k].format /\ d.backing = project[k].backing
        /\ d.pin = project[k].pin /\ d.runtime = project[k].runtime
        /\ d.own = project[k].own /\ d.layer = project[k].layer
        /\ d.inherited = project[k].inherited /\ d.dirty = project[k].dirty
    BY <1>1 DEF Stores
  <2>4. project'[j] = (IF j = k THEN d ELSE project[j]) /\ interrupted'[j] = interrupted[j]
    BY <1>1, <2>1
  <2> HIDE DEF d
  <2>5. StoreSound(d)
    BY <1>1, <2>2, <2>3 DEF StoreInv, StoreSound
  <2>6. StoreSound(project[j])' /\ StoreSound(interrupted[j])'
    BY <1>1, <1>2, <2>4, <2>5 DEF StoreSound, ContentOf
  <2>7. Running(j)' /\ (gate[j] # Nobody => Untouched(j))
    BY <1>1, <1>2, <2>1, <2>3, <2>4 DEF Running, Untouched
  <2>8. QED
    BY <2>6, <2>7
<1>7. QED
  BY <1>3, <1>4, <1>5, <1>6 DEF ProjectUse

\* In the initial states, and after each step, stores and their holders are in order.
LEMMA StoreInit == Init => StoreInv
<1> SUFFICES ASSUME Init PROVE StoreInv
  OBVIOUS
<1>1. BuildInv
  BY BuildInit
<1>2. ASSUME NEW p \in Procs PROVE Holds(p)
  <2>1. proc[p].at = "idle" /\ proc[p].op = None
    BY DEF Init, Ended
  <2>2. proc[p].op # "create" /\ proc[p].op # "batch"
    BY <2>1, BaseImagesAssumption DEF BaseImagesAssumption, Commands
  <2>3. QED
    BY <2>1, <2>2 DEF Holds, Runs, At
<1>3. ASSUME NEW j \in Projects
      PROVE  Running(j) /\ StoreSound(project[j]) /\ StoreSound(interrupted[j])
  <2>1. /\ interrupted[j] = NoStore /\ session = {} /\ ready = {<<"factory", 1>>}
        /\ vm \subseteq {k \in Projects : project[k].format = "current"}
        /\ project[j] \in FirstStores
    BY DEF Init
  <2>2. NoStore.format = "none" /\ ~NoStore.manual
    BY NothingTyped
  <2>3. Running(j)
    BY <2>1, <2>2 DEF Running
  <2>4. ASSUME NEW s \in Setups, NEW format \in {"current", "legacy"}, NEW changed \in BOOLEAN,
               format = "current" => changed = FALSE
        PROVE  StoreSound(Built(format, {s}, changed))
    <3> DEFINE d == Built(format, {s}, changed)
    <3>1. /\ d.format = format /\ d.backing = <<"factory", 1>> /\ d.pin = <<"factory", 1>>
          /\ d.runtime = 1 /\ d.layer = {s} /\ d.own = {s} /\ d.inherited = {}
          /\ d.manual = changed /\ d.dirty = changed
      BY DEF Built, NoStore
    <3> HIDE DEF d
    <3>2. StoreSound(d)
      BY <2>1, <3>1 DEF StoreSound, ContentOf
    <3>3. QED
      BY <3>2 DEF d
  <2>5. ASSUME NEW s \in Setups
        PROVE  /\ StoreSound(Built("current", {s}, FALSE))
               /\ StoreSound(Built("legacy", {s}, FALSE))
               /\ StoreSound(Built("legacy", {s}, TRUE))
    BY <2>4
  <2>6. StoreSound(NoStore)
    BY <2>2 DEF StoreSound
  <2>7. project[j] = NoStore \/ \E s \in Setups :
          project[j] \in {Built("current", {s}, FALSE), Built("legacy", {s}, FALSE),
                          Built("legacy", {s}, TRUE)}
    BY <2>1 DEF FirstStores
  <2>8. QED
    BY <2>1, <2>3, <2>5, <2>6, <2>7
<1>4. QED
  BY <1>1, <1>2, <1>3 DEF StoreInv

\* After each step stores and their holders are in order.
LEMMA StoreNext == StoreInv /\ [Next]_vars => StoreInv'
<1> SUFFICES ASSUME StoreInv, [Next]_vars PROVE StoreInv'
  OBVIOUS
<1>1. BuildInv'
  BY BuildNext DEF StoreInv
<1>2. ASSUME NEW p \in Procs, Command(p) PROVE StoreInv'
  <2>1. ASSUME NEW q \in Procs PROVE Holds(q)'
    BY <1>2, OthersHold, OwnHolds
  <2>2. ASSUME NEW j \in Projects
        PROVE  Running(j)' /\ StoreSound(project[j])' /\ StoreSound(interrupted[j])'
    BY <1>2, CommandRunning, CommandStores
  <2>3. QED
    BY <1>1, <2>1, <2>2 DEF StoreInv
<1>3. ASSUME NEW k \in Projects, ProjectUse(k) PROVE StoreInv'
  <2>1. ASSUME NEW q \in Procs PROVE Holds(q)'
    <3>1. /\ proc' = proc /\ ready' = ready
      BY <1>3 DEF ProjectUse, Recover, Boot, VMEnds, OpenRootSession, ChangeImage,
                  StartCapture, DiscardCapture, base
    <3>2. \A j \in Projects : gate[j] = q => Untouched(j)
      BY <1>3, UseStores, BaseImagesAssumption DEF BaseImagesAssumption
    <3>3. QED
      BY <3>1, <3>2, HolderHolds
  <2>2. QED
    BY <1>1, <1>3, <2>1, UseStores DEF StoreInv
<1>4. CASE UNCHANGED <<proc, locks, base, stores, use>>
  <2>1. /\ proc' = proc /\ gate' = gate /\ ready' = ready /\ source' = source
        /\ project' = project /\ interrupted' = interrupted
        /\ capture' = capture /\ vm' = vm /\ session' = session
    BY <1>4 DEF locks, base, stores, use
  <2>2. ASSUME NEW q \in Procs PROVE Holds(q)'
    BY <2>1, HolderHolds DEF Untouched
  <2>3. ASSUME NEW j \in Projects
        PROVE  Running(j)' /\ StoreSound(project[j])' /\ StoreSound(interrupted[j])'
    BY <2>1 DEF StoreInv, Running, StoreSound, ContentOf
  <2>4. QED
    BY <1>1, <2>2, <2>3 DEF StoreInv
<1>5. CASE ChangeDefinition \/ Upgrade
  BY <1>4, <1>5 DEF ChangeDefinition, Upgrade
<1>6. CASE UNCHANGED vars
  BY <1>4, <1>6 DEF vars
<1>7. QED
  BY <1>2, <1>3, <1>5, <1>6 DEF Next

\* Stores are true of their images, and whoever rebuilds one holds its gate: an invariant
\* of the specification.
THEOREM StoresAlwaysSound == Spec => []StoreInv
BY StoreInit, StoreNext, PTL DEF Spec

\* A project's image stands on a backing image in place and whole, and its records tell
\* its own setups from those of its base (ProjectsMatchBacking).
THEOREM ProjectsAlwaysMatchBacking == Spec => []ProjectsMatchBacking
<1>1. StoreInv => ProjectsMatchBacking
  BY DEF StoreInv, StoreSound, ProjectsMatchBacking
<1>2. QED
  BY <1>1, StoresAlwaysSound, PTL

\* While an image is rebuilt its VM is off and no capture depends on it (RebuildsAtRest).
THEOREM RebuildsAlwaysAtRest == Spec => []RebuildsAtRest
<1>1. StoreInv => RebuildsAtRest
  BY DEF StoreInv, Holds, At, Taken, Rebuilding, Working, RebuildsAtRest
<1>2. QED
  BY <1>1, StoresAlwaysSound, PTL

\* What a step does to a store as recovery leaves it.  A creation makes one that was not
\* there, a replacement leaves either store, and every other step the same one but for
\* the marks of a root session.
LEMMA RecoveredSteps ==
  ASSUME StoreInv, Next, NEW j \in Projects
  PROVE  \/ Recovered(j).format \notin {"legacy", "current"}
         \/ /\ Recovered(j)'.own = Recovered(j).own
            /\ Recovered(j).manual => Recovered(j)'.manual
         \/ \E p \in Procs : /\ At(p, "replace") /\ Mine(p) = j /\ Runs(p, "batch")
                             /\ Recovered(j) = project[j] /\ Recovered(j)' = Store(p)
<1>1. /\ project \in [Projects -> Stores] /\ interrupted \in [Projects -> Stores]
      /\ NoStore.format = "none" /\ StoreSound(project[j]) /\ Running(j)
  BY NothingTyped DEF StoreInv, BuildInv, TypeInv, ProjectsOK
<1>2. ASSUME project'[j] = project[j], interrupted'[j] = interrupted[j]
      PROVE  Recovered(j)' = Recovered(j)
  BY <1>2 DEF Recovered
<1>3. ASSUME NEW p \in Procs, Command(p), Recovered(j).format \in {"legacy", "current"}
      PROVE  \/ Recovered(j)' = Recovered(j)
             \/ /\ At(p, "replace") /\ Mine(p) = j /\ Runs(p, "batch")
                /\ Recovered(j) = project[j] /\ Recovered(j)' = Store(p)
  <2>1. CASE Creates(p, j)
    BY <1>3, <2>1 DEF Creates
  <2>2. CASE Takes(p, j)
    BY <1>1, <2>2 DEF Takes, Recovered
  <2>3. CASE Removes(p, j)
    BY <1>3, <2>3, WritersHold DEF Removes, Recovered
  <2>4. CASE Replaces(p, j)
    <3>1. /\ interrupted[j].format = "none" /\ Runs(p, "batch") /\ Recovered(j) = project[j]
      BY <1>3, <2>4, WritersHold DEF Recovered
    <3>2. Store(p).format = "current"
      BY DEF Store
    <3>3. CASE project'[j] = Store(p) /\ interrupted'[j] = interrupted[j]
      BY <2>4, <3>1, <3>3 DEF Replaces, Recovered
    <3>4. CASE project'[j] = project[j] /\ interrupted'[j] \in {project[j], Store(p)}
      BY <1>3, <2>4, <3>1, <3>2, <3>4 DEF Replaces, Recovered
    <3>5. CASE project'[j] = NoStore /\ interrupted'[j] = project[j]
      BY <1>3, <3>1, <3>5 DEF Recovered
    <3>6. QED
      BY <2>4, <3>3, <3>4, <3>5 DEF Replaces
  <2>5. QED
    BY <1>2, <1>3, <2>1, <2>2, <2>3, <2>4, StoreWriters DEF StoreInv, BuildInv
<1>4. ASSUME NEW k \in Projects, ProjectUse(k)
      PROVE  /\ Recovered(j)'.own = Recovered(j).own
             /\ Recovered(j).manual => Recovered(j)'.manual
  <2>1. CASE Recover(k)
    BY <1>1, <1>2, <2>1 DEF Recover, Recovered
  <2>2. CASE Boot(k) \/ VMEnds(k) \/ StartCapture(k) \/ DiscardCapture(k)
    BY <1>2, <2>2 DEF Boot, VMEnds, StartCapture, DiscardCapture, stores
  <2>3. CASE OpenRootSession(k) \/ ChangeImage(k)
    <3>1. /\ interrupted' = interrupted
          /\ project'[j].own = project[j].own /\ (project[j].manual => project'[j].manual)
      BY <1>1, <2>3 DEF OpenRootSession, ChangeImage, Stores
    <3>2. QED
      BY <3>1 DEF Recovered
  <2>4. QED
    BY <1>4, <2>1, <2>2, <2>3 DEF ProjectUse
<1>5. CASE ChangeDefinition \/ Upgrade
  BY <1>2, <1>5 DEF ChangeDefinition, Upgrade, stores
<1>6. QED
  BY <1>3, <1>4, <1>5 DEF Next

\* Changes made as root are discarded by a forced rebuild only (ChangesAreKept).
THEOREM ChangesAlwaysKept == Spec => ChangesAreKept
<1> DEFINE Kept ==
      \A j \in Projects :
        Recovered(j).manual /\ ~Recovered(j)'.manual =>
          \E p \in Procs : Mine(p) = j /\ At(p, "replace") /\ proc[p].force
<1>1. StoreInv /\ [Next]_vars => [Kept]_vars
  <2> SUFFICES ASSUME StoreInv, Next, NEW j \in Projects,
                      Recovered(j).manual, ~Recovered(j)'.manual
               PROVE  \E p \in Procs : Mine(p) = j /\ At(p, "replace") /\ proc[p].force
    OBVIOUS
  <2>1. Recovered(j).dirty /\ Recovered(j).format \in {"legacy", "current"}
    BY SoundStores DEF StoreSound
  <2>2. PICK p \in Procs : /\ At(p, "replace") /\ Mine(p) = j /\ Runs(p, "batch")
                           /\ Recovered(j) = project[j]
    BY <2>1, RecoveredSteps
  <2>3. project[j].dirty => proc[p].force
    BY <2>2 DEF StoreInv, Holds, At, Rebuilding, Working
  <2>4. QED
    BY <2>1, <2>2, <2>3
<1>2. QED
  BY <1>1, StoresAlwaysSound, PTL DEF Spec, ChangesAreKept

\* A batch rebuild keeps the setups the project runs itself (RebuildKeepsSetups).
THEOREM RebuildAlwaysKeepsSetups == Spec => RebuildKeepsSetups
<1> DEFINE Kept ==
      \A j \in Projects :
        Recovered(j).format \in {"legacy", "current"} =>
          Recovered(j)'.own = Recovered(j).own
<1>1. StoreInv /\ [Next]_vars => [Kept]_vars
  <2> SUFFICES ASSUME StoreInv, Next, NEW j \in Projects,
                      Recovered(j).format \in {"legacy", "current"}
               PROVE  Recovered(j)'.own = Recovered(j).own
    OBVIOUS
  <2>1. CASE Recovered(j)'.own = Recovered(j).own
    BY <2>1
  <2>2. CASE Recovered(j)'.own # Recovered(j).own
    <3>1. PICK p \in Procs : /\ At(p, "replace") /\ Mine(p) = j /\ Runs(p, "batch")
                             /\ Recovered(j) = project[j] /\ Recovered(j)' = Store(p)
      BY <2>2, RecoveredSteps
    <3>2. proc[p].own = project[j].own
      BY <3>1 DEF StoreInv, Holds, At, Rebuilding, Working
    <3>3. QED
      BY <3>1, <3>2 DEF Store
  <2>3. QED
    BY <2>1, <2>2
<1>2. QED
  BY <1>1, StoresAlwaysSound, PTL DEF Spec, RebuildKeepsSetups

-----------------------------------------------------------------------------
(* The summary.  A batch keeps account of the projects it was asked for:   *)
(* each is in one list, or still before its turn, or in its hands.         *)

Lists(r) == r.ignored \cup r.skipped \cup r.failed \cup r.rebuilt

\* The project the batch has taken.
InHand(r) == IF r.at \in Taken THEN {r.project} ELSE {}

Accounts(r) ==
  /\ r.selected = Lists(r) \cup r.todo \cup r.plan \cup InHand(r)
  /\ Lists(r) \cap (r.todo \cup r.plan \cup InHand(r)) = {}
  /\ r.plan \cap (r.todo \cup InHand(r)) = {}
  /\ r.ignored \cap (r.skipped \cup r.failed \cup r.rebuilt) = {}
  /\ r.skipped \cap (r.failed \cup r.rebuilt) = {}
  /\ r.failed \cap r.rebuilt = {}

\* Only what it has taken has been stopped or replaced.
Reached(r) ==
  /\ r.rebuilt \subseteq r.replaced
  /\ r.replaced \cup r.stopped \subseteq r.failed \cup r.rebuilt \cup InHand(r)
  /\ r.at = "recheck" => r.project \notin r.replaced \cup r.stopped
  /\ r.at = "return" => r.project \in r.replaced
  /\ r.at # "preview" => r.todo = {}

Tells(r) == r.op = "batch" => Accounts(r) /\ Reached(r)

TellInv == TypeInv /\ \A p \in Procs : Tells(proc[p])

\* A command that goes on with its project.
LEMMA TellsOn ==
  ASSUME NEW r, NEW s, Tells(r), s.op = r.op, s.project = r.project,
         s.selected = r.selected, s.todo = r.todo, s.plan = r.plan, s.ignored = r.ignored,
         s.skipped = r.skipped, s.failed = r.failed, s.rebuilt = r.rebuilt,
         s.stopped \in {r.stopped, r.stopped \cup {r.project}},
         \/ s.replaced = r.replaced /\ s.at # "return"
         \/ s.replaced = r.replaced \cup {r.project},
         r.at \in Taken, s.at \in Taken, s.at # "recheck"
  PROVE  Tells(s)
<1>1. r.at # "preview" /\ s.at # "preview" /\ InHand(r) = {r.project} /\ InHand(s) = {r.project}
  BY DEF InHand, Taken, Rebuilding, Working, Building
<1>2. CASE r.op = "batch"
  <2>1. Accounts(s)
    BY <1>1, <1>2 DEF Tells, Accounts, Lists
  <2>2. Reached(s)
    BY <1>1, <1>2 DEF Tells, Reached
  <2>3. QED
    BY <2>1, <2>2 DEF Tells
<1>3. QED
  BY <1>2 DEF Tells

\* A command that has ended has nothing to tell.
LEMMA LeaveTells == ASSUME TypeInv, NEW p \in Procs, Leave(p) PROVE Tells(proc'[p])
BY BaseImagesAssumption
DEF BaseImagesAssumption, Commands, TypeInv, ControlOK, Leave, Ended, Tells

\* A batch is done with a project that it skips, fails or counts as rebuilt.
LEMMA NextTells ==
  ASSUME NEW r \in Steppings, Tells(r), r.op = "batch", r.at \in Taken, NEW v \in Steppings,
         v.op = "batch", v.selected = r.selected, v.todo = r.todo, v.plan = r.plan,
         v.ignored = r.ignored, v.stopped = r.stopped, v.replaced = r.replaced,
         \/ /\ v.skipped = r.skipped \cup {r.project} /\ v.failed = r.failed
            /\ v.rebuilt = r.rebuilt /\ r.at = "recheck"
         \/ /\ v.skipped = r.skipped /\ v.failed = r.failed \cup {r.project}
            /\ v.rebuilt = r.rebuilt
         \/ /\ v.skipped = r.skipped /\ v.failed = r.failed
            /\ v.rebuilt = r.rebuilt \cup {r.project} /\ r.at = "return"
  PROVE  Tells(NextRecord(v))
<1> DEFINE s == NextRecord(v)
<1>1. /\ s.op = "batch" /\ s.at = "next" /\ s.selected = v.selected /\ s.todo = v.todo
      /\ s.plan = v.plan /\ s.ignored = v.ignored /\ s.skipped = v.skipped
      /\ s.failed = v.failed /\ s.rebuilt = v.rebuilt /\ s.stopped = v.stopped
      /\ s.replaced = v.replaced
  BY DEF NextRecord, Steppings
<1> HIDE DEF s
<1>2. InHand(r) = {r.project} /\ InHand(s) = {} /\ r.at # "preview"
  BY <1>1 DEF InHand, Taken, Rebuilding, Working, Building
<1>3. Accounts(r) /\ Reached(r)
  BY DEF Tells
<1>4. Accounts(s)
  <2>1. /\ r.selected = r.ignored \cup r.skipped \cup r.failed \cup r.rebuilt
                        \cup r.todo \cup r.plan \cup {r.project}
        /\ r.project \notin r.ignored \cup r.skipped \cup r.failed \cup r.rebuilt
        /\ r.project \notin r.plan
    BY <1>2, <1>3 DEF Accounts, Lists
  <2>2. /\ (r.ignored \cup r.skipped \cup r.failed \cup r.rebuilt) \cap (r.todo \cup r.plan) = {}
        /\ r.plan \cap r.todo = {} /\ r.todo = {}
    BY <1>2, <1>3 DEF Accounts, Lists, Reached
  <2>3. /\ r.ignored \cap (r.skipped \cup r.failed \cup r.rebuilt) = {}
        /\ r.skipped \cap (r.failed \cup r.rebuilt) = {} /\ r.failed \cap r.rebuilt = {}
    BY <1>3 DEF Accounts
  <2>4. \/ s.skipped = r.skipped \cup {r.project} /\ s.failed = r.failed /\ s.rebuilt = r.rebuilt
        \/ s.skipped = r.skipped /\ s.failed = r.failed \cup {r.project} /\ s.rebuilt = r.rebuilt
        \/ s.skipped = r.skipped /\ s.failed = r.failed /\ s.rebuilt = r.rebuilt \cup {r.project}
    BY <1>1
  <2>5. /\ s.selected = r.selected /\ s.ignored = r.ignored /\ s.todo = {} /\ s.plan = r.plan
    BY <1>1, <2>2
  <2>6. s.selected = Lists(s) \cup s.todo \cup s.plan \cup InHand(s)
    BY <1>2, <2>1, <2>2, <2>4, <2>5 DEF Lists
  <2>7. Lists(s) \cap (s.todo \cup s.plan \cup InHand(s)) = {}
    BY <1>2, <2>1, <2>2, <2>4, <2>5 DEF Lists
  <2>8. s.plan \cap (s.todo \cup InHand(s)) = {}
    BY <1>2, <2>5
  <2>9. s.ignored \cap (s.skipped \cup s.failed \cup s.rebuilt) = {}
    BY <2>1, <2>3, <2>4, <2>5
  <2>10. s.skipped \cap (s.failed \cup s.rebuilt) = {} /\ s.failed \cap s.rebuilt = {}
    BY <2>1, <2>3, <2>4
  <2>11. QED
    BY <2>6, <2>7, <2>8, <2>9, <2>10 DEF Accounts
<1>5. Reached(s)
  BY <1>1, <1>2, <1>3 DEF Reached
<1>6. Tells(s)
  BY <1>4, <1>5 DEF Tells
<1>7. QED
  BY <1>6 DEF s

\* The same for a command, in the form its steps have.
LEMMA VerdictTells ==
  ASSUME TellInv, NEW p \in Procs, Runs(p, "batch"), proc[p].at \in Taken,
         \/ Skip(p) /\ At(p, "recheck")
         \/ FailProject(p)
         \/ Return(p)
  PROVE  Tells(proc'[p])
<1>1. /\ proc \in [Procs -> Steppings] /\ proc[p] \in Steppings /\ Mine(p) \in Projects
      /\ Mine(p) = proc[p].project /\ proc[p].op = "batch" /\ Tells(proc[p])
  BY DEF TellInv, TypeInv, ControlOK, Fit, Runs, Mine
<1> DEFINE skipped == [proc[p] EXCEPT !.skipped = @ \cup {Mine(p)}]
           failed == [proc[p] EXCEPT !.failed = @ \cup {Mine(p)}]
           rebuilt == [proc[p] EXCEPT !.rebuilt = @ \cup {Mine(p)}]
           Same(v) == /\ v.op = "batch" /\ v.selected = proc[p].selected
                      /\ v.todo = proc[p].todo /\ v.plan = proc[p].plan
                      /\ v.ignored = proc[p].ignored /\ v.stopped = proc[p].stopped
                      /\ v.replaced = proc[p].replaced
<1>2. skipped \in Steppings /\ failed \in Steppings /\ rebuilt \in Steppings
  BY <1>1, Verdicts DEF TellInv, TypeInv
<1>3. At(p, "recheck") => Tells(NextRecord(skipped))
  <2>1. /\ Same(skipped) /\ skipped.failed = proc[p].failed
        /\ skipped.skipped = proc[p].skipped \cup {proc[p].project}
        /\ skipped.rebuilt = proc[p].rebuilt
    BY <1>1 DEF Steppings
  <2> HIDE DEF skipped
  <2>2. QED
    BY <1>1, <1>2, <2>1, NextTells DEF At
<1>4. Tells(NextRecord(failed))
  <2>1. /\ Same(failed) /\ failed.skipped = proc[p].skipped
        /\ failed.failed = proc[p].failed \cup {proc[p].project}
        /\ failed.rebuilt = proc[p].rebuilt
    BY <1>1 DEF Steppings
  <2> HIDE DEF failed
  <2>2. QED
    BY <1>1, <1>2, <2>1, NextTells
<1>5. At(p, "return") => Tells(NextRecord(rebuilt))
  <2>1. /\ Same(rebuilt) /\ rebuilt.skipped = proc[p].skipped
        /\ rebuilt.failed = proc[p].failed
        /\ rebuilt.rebuilt = proc[p].rebuilt \cup {proc[p].project}
    BY <1>1 DEF Steppings
  <2> HIDE DEF rebuilt
  <2>2. QED
    BY <1>1, <1>2, <2>1, NextTells DEF At
<1>6. \/ Conclude(p, skipped) /\ At(p, "recheck")
      \/ Conclude(p, failed)
      \/ Conclude(p, rebuilt) /\ At(p, "return")
  BY DEF Skip, FailProject, Return
<1> HIDE DEF skipped, failed, rebuilt
<1>7. \/ proc' = [proc EXCEPT ![p] = NextRecord(skipped)] /\ At(p, "recheck")
      \/ proc' = [proc EXCEPT ![p] = NextRecord(failed)]
      \/ proc' = [proc EXCEPT ![p] = NextRecord(rebuilt)] /\ At(p, "return")
  BY <1>6 DEF Conclude, NextRecord
<1>8. QED
  BY <1>1, <1>3, <1>4, <1>5, <1>7

\* A command that fails counts the project it had taken.
LEMMA FailTells ==
  ASSUME TellInv, NEW p \in Procs, proc[p].at \in Taken, Fail(p)
  PROVE  Tells(proc'[p])
BY LeaveTells, VerdictTells DEF Fail, TellInv

\* While a base is selected and an image is built, no list changes.
LEMMA BaseTells == ASSUME TellInv, NEW p \in Procs, OnBase(p) PROVE Tells(proc'[p])
<1>1. proc \in [Procs -> Steppings] /\ proc[p] \in Steppings /\ Tells(proc[p]) /\ TypeInv
  BY DEF TellInv, TypeInv, ControlOK
<1>2. CASE Leave(p)
  BY <1>1, <1>2, LeaveTells
<1>3. CASE ~Leave(p)
  <2> DEFINE r == proc[p]  s == proc'[p]
  <2>1. PICK at, selection, user, revision :
          at \in Rebuilding /\ proc' = [proc EXCEPT ![p] =
            [r EXCEPT !.at = at, !.base = selection, !.user = user, !.revision = revision]]
    <3>1. CASE Prepare(p)
      <4>1. proc' = [proc EXCEPT ![p] =
              [r EXCEPT !.at = "backing", !.base = NoManifest, !.user = account,
                        !.revision = r.revision]]
        BY <1>1, <3>1 DEF Prepare, Steppings
      <4>2. QED
        BY <4>1, Zenon DEF Rebuilding, Working, Building
    <3>2. CASE Select(p)
      <4>1. proc' = [proc EXCEPT ![p] =
              [r EXCEPT !.at = "backing", !.base = Current(p), !.user = r.user,
                        !.revision = r.revision]]
        BY <1>1, <1>3, <3>2 DEF Select, Steppings
      <4>2. QED
        BY <4>1, Zenon DEF Rebuilding, Working, Building
    <3>3. CASE FindBacking(p) \/ Expand(p) \/ Seal(p)
      <4>1. PICK at \in Rebuilding : proc' = [proc EXCEPT ![p].at = at]
        BY <3>3 DEF FindBacking, Expand, Seal, Goto, WithBacking, Rebuilding, Working, Building
      <4>2. proc' = [proc EXCEPT ![p] =
              [r EXCEPT !.at = at, !.base = r.base, !.user = r.user, !.revision = r.revision]]
        BY <1>1, <4>1 DEF Steppings
      <4>3. QED
        BY <4>2, Zenon
    <3>4. CASE Compact(p)
      <4>1. PICK v : proc' = [proc EXCEPT ![p].at = "seal", ![p].revision = v]
        BY <3>4 DEF Compact
      <4>2. proc' = [proc EXCEPT ![p] =
              [r EXCEPT !.at = "seal", !.base = r.base, !.user = r.user, !.revision = v]]
        BY <1>1, <4>1 DEF Steppings
      <4>3. QED
        BY <4>2, Zenon DEF Rebuilding, Working, Building
    <3>5. CASE Publish(p)
      <4>1. Prepares(p) /\ proc' = [proc EXCEPT ![p].at = "backing", ![p].user = None,
                                               ![p].revision = 0, ![p].base = Published(p)]
        BY <1>3, <3>5 DEF Publish
      <4>2. proc' = [proc EXCEPT ![p] =
              [r EXCEPT !.at = "backing", !.base = Published(p), !.user = None, !.revision = 0]]
        BY <1>1, <4>1 DEF Steppings
      <4>3. QED
        BY <4>2, Zenon DEF Rebuilding, Working, Building
    <3>6. QED
      BY <3>1, <3>2, <3>3, <3>4, <3>5 DEF OnBase
  <2>2. /\ s.at = at /\ s.op = r.op /\ s.project = r.project
        /\ s.selected = r.selected /\ s.todo = r.todo /\ s.plan = r.plan
        /\ s.ignored = r.ignored /\ s.skipped = r.skipped /\ s.failed = r.failed
        /\ s.rebuilt = r.rebuilt /\ s.stopped = r.stopped /\ s.replaced = r.replaced
    BY <1>1, <2>1 DEF Steppings
  <2>3. r.at \in Taken /\ s.at \in Taken /\ s.at \notin {"recheck", "return"}
    BY <2>1, <2>2
    DEF OnBase, Prepare, Select, FindBacking, Expand, Compact, Seal, Publish, At, Taken,
        Rebuilding, Working, Building
  <2> HIDE DEF r, s
  <2>4. Tells(r)
    BY <1>1 DEF r
  <2>5. Tells(s)
    BY <2>2, <2>3, <2>4, TellsOn
  <2>6. QED
    BY <2>5 DEF s
<1>4. QED
  BY <1>2, <1>3

\* The lists of a batch are empty at first.
LEMMA StartsTell == ASSUME TellInv, NEW p \in Procs, Starts(p) PROVE Tells(proc'[p])
<1>1. proc \in [Procs -> Steppings]
  BY DEF TellInv, TypeInv, ControlOK
<1>2. CASE StartSetupRun(p) \/ StartReset(p) \/ StartCreate(p)
  <2>1. proc'[p].op # "batch"
    <3>1. CASE StartSetupRun(p)
      BY <1>1, <3>1 DEF StartSetupRun, Ended
    <3>2. CASE StartReset(p)
      BY <1>1, <3>2 DEF StartReset, Ended
    <3>3. CASE StartCreate(p)
      BY <1>1, <3>3 DEF StartCreate, Ended
    <3>4. QED
      BY <1>2, <3>1, <3>2, <3>3
  <2>2. QED
    BY <2>1 DEF Tells
<1>3. CASE StartBatch(p)
  <2>1. /\ proc'[p].at = "preview" /\ proc'[p].plan = {} /\ proc'[p].skipped = {}
        /\ proc'[p].failed = {} /\ proc'[p].rebuilt = {} /\ proc'[p].stopped = {}
        /\ proc'[p].replaced = {} /\ proc'[p].ignored = {}
        /\ proc'[p].selected = proc'[p].todo
    BY <1>1, <1>3 DEF StartBatch, Ended
  <2>2. InHand(proc'[p]) = {}
    BY <2>1 DEF InHand, Taken, Rebuilding, Working, Building
  <2>3. QED
    BY <2>1, <2>2 DEF Tells, Accounts, Reached, Lists
<1>4. QED
  BY <1>2, <1>3 DEF Starts

\* The preview plans a project, skips it or leaves it out.
LEMMA PreviewTells == ASSUME TellInv, NEW p \in Procs, Preview(p) PROVE Tells(proc'[p])
<1>1. proc \in [Procs -> Steppings] /\ proc[p] \in Steppings /\ Tells(proc[p])
      /\ Fit(proc[p]) /\ proc[p].at = "preview"
  BY DEF TellInv, TypeInv, ControlOK, Preview, At
<1>2. PICK j \in proc[p].todo : \E v \in Previewed(p, j) : proc' = [proc EXCEPT ![p] = v]
  BY PreviewRecords DEF TellInv
<1> DEFINE r == proc[p]  s == proc'[p]
<1>3. s \in Previewed(p, j)
  BY <1>1, <1>2
<1>4. /\ s.todo = r.todo \ {j}
      /\ \/ s.plan = r.plan \cup {j} /\ s.skipped = r.skipped /\ s.ignored = r.ignored
         \/ s.plan = r.plan /\ s.skipped = r.skipped /\ s.ignored = r.ignored \cup {j}
         \/ s.plan = r.plan /\ s.skipped = r.skipped \cup {j} /\ s.ignored = r.ignored
      /\ s.at = r.at /\ s.op = r.op /\ s.selected = r.selected /\ s.failed = r.failed
      /\ s.rebuilt = r.rebuilt /\ s.stopped = r.stopped /\ s.replaced = r.replaced
  BY <1>1, <1>3 DEF Previewed, Steppings
<1>5. /\ r.op = "batch" /\ r.at = "preview" /\ Tells(r)
  BY <1>1 DEF Fit
<1>6. j \in r.todo
  BY <1>2
<1> HIDE DEF r, s
<1>7. InHand(r) = {} /\ InHand(s) = {}
  BY <1>4, <1>5 DEF InHand, Taken, Rebuilding, Working, Building
<1>8. Accounts(s)
  BY <1>4, <1>5, <1>6, <1>7 DEF Tells, Accounts, Lists
<1>9. Reached(s)
  BY <1>4, <1>5, <1>7 DEF Tells, Reached
<1>10. QED
  BY <1>8, <1>9 DEF s, Tells

\* After the confirmation nothing has been done yet.
LEMMA ConfirmTells == ASSUME TellInv, NEW p \in Procs, Confirm(p) PROVE Tells(proc'[p])
<1>1. proc \in [Procs -> Steppings] /\ proc[p] \in Steppings /\ Tells(proc[p])
      /\ Fit(proc[p]) /\ proc[p].at = "preview" /\ TypeInv
  BY DEF TellInv, TypeInv, ControlOK, Confirm, At
<1>2. CASE Leave(p)
  BY <1>1, <1>2, LeaveTells
<1>3. CASE ~Leave(p)
  <2> DEFINE r == proc[p]  s == proc'[p]
  <2>1. /\ s.at = "next" /\ s.op = r.op /\ s.plan = r.plan /\ s.skipped = r.skipped
        /\ s.selected = r.selected /\ s.ignored = r.ignored /\ s.todo = r.todo
        /\ r.todo = {} /\ s.failed = r.failed /\ s.rebuilt = r.rebuilt /\ s.stopped = r.stopped
        /\ s.replaced = r.replaced
    BY <1>1, <1>3 DEF Confirm, Steppings
  <2>2. r.op = "batch" /\ r.at = "preview" /\ Tells(r)
    BY <1>1 DEF Fit
  <2> HIDE DEF r, s
  <2>3. InHand(r) = {} /\ InHand(s) = {}
    BY <2>1, <2>2 DEF InHand, Taken, Rebuilding, Working, Building
  <2>4. Accounts(s) /\ Reached(s)
    BY <2>1, <2>2, <2>3 DEF Tells, Accounts, Lists, Reached
  <2>5. QED
    BY <2>4 DEF s, Tells
<1>4. QED
  BY <1>2, <1>3

\* The batch takes a project out of its plan, into its hands or to the skipped ones.
LEMMA TakeTells == ASSUME TellInv, NEW p \in Procs, TakeProject(p) PROVE Tells(proc'[p])
<1>1. proc \in [Procs -> Steppings] /\ proc[p] \in Steppings /\ Tells(proc[p])
      /\ Fit(proc[p]) /\ proc[p].at = "next"
  BY DEF TellInv, TypeInv, ControlOK, TakeProject, At
<1>2. PICK j \in proc[p].plan :
        \/ proc' = [proc EXCEPT ![p].plan = @ \ {j}, ![p].skipped = @ \cup {j}]
        \/ proc' = [proc EXCEPT ![p].plan = @ \ {j}, ![p].project = j, ![p].at = "recheck"]
  BY DEF TakeProject
<1> DEFINE r == proc[p]  s == proc'[p]
<1>3. /\ s.plan = r.plan \ {j} /\ s.op = r.op /\ s.failed = r.failed
      /\ s.selected = r.selected /\ s.todo = r.todo /\ s.ignored = r.ignored
      /\ s.rebuilt = r.rebuilt /\ s.stopped = r.stopped /\ s.replaced = r.replaced
      /\ \/ s.skipped = r.skipped \cup {j} /\ s.at = r.at
         \/ s.skipped = r.skipped /\ s.at = "recheck" /\ s.project = j
  BY <1>1, <1>2 DEF Steppings
<1>4. r.op = "batch" /\ r.at = "next" /\ Tells(r) /\ j \in r.plan
  BY <1>1 DEF Fit
<1> HIDE DEF r, s
<1>5. InHand(r) = {}
  BY <1>4 DEF InHand, Taken, Rebuilding, Working, Building
<1>6. CASE s.skipped = r.skipped \cup {j} /\ s.at = r.at
  <2>1. InHand(s) = {}
    BY <1>4, <1>6 DEF InHand, Taken, Rebuilding, Working, Building
  <2>2. Accounts(s) /\ Reached(s)
    BY <1>3, <1>4, <1>5, <1>6, <2>1 DEF Tells, Accounts, Lists, Reached
  <2>3. QED
    BY <2>2 DEF s, Tells
<1>7. CASE s.skipped = r.skipped /\ s.at = "recheck" /\ s.project = j
  <2>1. InHand(s) = {j}
    BY <1>7 DEF InHand, Taken
  <2>2. Accounts(s) /\ Reached(s)
    BY <1>3, <1>4, <1>5, <1>7, <2>1 DEF Tells, Accounts, Lists, Reached
  <2>3. QED
    BY <2>2 DEF s, Tells
<1>8. QED
  BY <1>3, <1>6, <1>7

\* The checks skip the project before its VM is stopped, and fail it afterwards.
LEMMA LookTells ==
  ASSUME TellInv, NEW p \in Procs, Recheck(p) \/ StopVM(p) \/ Resolve(p)
  PROVE  Tells(proc'[p])
<1>1. /\ proc \in [Procs -> Steppings] /\ proc[p] \in Steppings /\ Tells(proc[p])
      /\ Runs(p, "batch") /\ proc[p].at \in Taken /\ Mine(p) = proc[p].project
  BY GoesOn DEF TellInv, TypeInv, ControlOK, Recheck, StopVM, Resolve, At, Mine
<1>2. CASE (Recheck(p) /\ Skip(p)) \/ FailProject(p)
  BY <1>1, <1>2, VerdictTells DEF Recheck
<1>3. CASE ~((Recheck(p) /\ Skip(p)) \/ FailProject(p))
  <2> DEFINE r == proc[p]  s == proc'[p]
  <2>1. /\ s.at \in {"stop", "resolve", "base"} /\ s.op = r.op /\ s.project = r.project
        /\ s.selected = r.selected /\ s.todo = r.todo /\ s.ignored = r.ignored
        /\ s.plan = r.plan /\ s.skipped = r.skipped /\ s.failed = r.failed
        /\ s.rebuilt = r.rebuilt /\ s.replaced = r.replaced
        /\ s.stopped \in {r.stopped, r.stopped \cup {r.project}}
    <3>1. CASE Recheck(p)
      BY <1>1, <1>3, <3>1 DEF Recheck, Goto, Steppings
    <3>2. CASE StopVM(p)
      BY <1>1, <1>3, <3>2 DEF StopVM, StopFailed, Steppings
    <3>3. CASE Resolve(p)
      BY <1>1, <1>3, <3>3 DEF Resolve, Steppings
    <3>4. QED
      BY <3>1, <3>2, <3>3
  <2>2. r.op = "batch" /\ r.at \in Taken /\ Tells(r)
    BY <1>1 DEF Runs
  <2>3. s.at \in Taken /\ s.at \notin {"recheck", "return"}
    BY <2>1 DEF Taken, Rebuilding
  <2> HIDE DEF r, s
  <2>4. Tells(s)
    BY <2>1, <2>2, <2>3, TellsOn
  <2>5. QED
    BY <2>4 DEF s
<1>4. QED
  BY <1>2, <1>3

\* Whatever a command does, it keeps its lists in order.
LEMMA OwnTells == ASSUME TellInv, NEW p \in Procs, Command(p) PROVE Tells(proc'[p])
<1>1. TypeInv
  BY DEF TellInv
<1>2. CASE Leave(p)
  BY <1>1, <1>2, LeaveTells
<1>3. CASE RefuseBase(p) \/ PublishFailsLate(p) \/ Fails(p)
  BY <1>3, FailTells
  DEF RefuseBase, PublishFailsLate, Fails, Taken, Rebuilding, Working, Building, At
<1>4. CASE Return(p)
  BY <1>1, <1>4, ReturnConcludes, VerdictTells DEF TypeInv
<1>5. CASE Replace(p) /\ ~Leave(p)
  <2> DEFINE r == proc[p]  s == proc'[p]
  <2>1. /\ r \in Steppings /\ s = Replaced(p) /\ r.op = "batch" /\ Mine(p) = r.project
        /\ r.at = "replace" /\ Tells(r)
    BY <1>5, ReplacedFits DEF TellInv, TypeInv, ControlOK, Replace, At, Mine
  <2>2. /\ s.at = "return" /\ s.op = r.op /\ s.project = r.project
        /\ s.selected = r.selected /\ s.todo = r.todo /\ s.plan = r.plan
        /\ s.ignored = r.ignored /\ s.skipped = r.skipped /\ s.failed = r.failed
        /\ s.rebuilt = r.rebuilt /\ s.stopped = r.stopped
        /\ s.replaced = r.replaced \cup {r.project}
    BY <2>1 DEF Replaced, Steppings
  <2>3. r.at \in Taken /\ s.at \in Taken /\ s.at # "recheck"
    BY <2>1, <2>2 DEF Taken, Rebuilding, Working
  <2> HIDE DEF r, s
  <2>4. Tells(s)
    BY <2>1, <2>2, <2>3, TellsOn
  <2>5. QED
    BY <2>4 DEF s
<1>6. QED
  BY <1>2, <1>3, <1>4, <1>5, BaseTells, StartsTell, PreviewTells, ConfirmTells, TakeTells,
     LookTells
  DEF Command, Starts, OnBase, Reset, KillReplacement, Report, Kill

\* After each step the lists are in order, ...
LEMMA TellNext == TellInv /\ [Next]_vars => TellInv'
<1> SUFFICES ASSUME TellInv, [Next]_vars PROVE TellInv'
  OBVIOUS
<1>1. TypeInv'
  BY NextTyped DEF TellInv
<1>2. ASSUME NEW p \in Procs, Command(p), NEW q \in Procs PROVE Tells(proc'[q])
  BY <1>2, OwnTells, CommandAlone DEF TellInv
<1>3. CASE proc' = proc
  BY <1>1, <1>3 DEF TellInv
<1>4. \A k \in Projects : ProjectUse(k) => proc' = proc
  BY DEF ProjectUse, Recover, Boot, VMEnds, OpenRootSession, ChangeImage, StartCapture,
         DiscardCapture
<1>5. ChangeDefinition \/ Upgrade \/ UNCHANGED vars => proc' = proc
  BY DEF ChangeDefinition, Upgrade, vars
<1>6. QED
  BY <1>1, <1>2, <1>3, <1>4, <1>5 DEF Next, TellInv

\* ... as they are in the initial states.
LEMMA TellInit == Init => TellInv
<1> SUFFICES ASSUME Init PROVE TellInv
  OBVIOUS
<1>1. TypeInv
  BY InitTyped
<1>2. ASSUME NEW p \in Procs PROVE Tells(proc[p])
  BY BaseImagesAssumption DEF BaseImagesAssumption, Commands, Init, Ended, Tells
<1>3. QED
  BY <1>1, <1>2 DEF TellInv

\* The summary of a batch accounts for each project it was asked for, in one list, counts
\* as rebuilt what has its new image, and as skipped what it has left alone (SummaryIsTrue).
THEOREM SummaryAlwaysTrue == Spec => []SummaryIsTrue
<1>1. TellInv => SummaryIsTrue
  <2> SUFFICES ASSUME TellInv, NEW p \in Procs, Summarizes(p)
               PROVE  LET done == proc[p] IN
                 /\ done.selected = Lists(done)
                 /\ done.ignored \cap (done.skipped \cup done.failed \cup done.rebuilt) = {}
                 /\ done.skipped \cap (done.failed \cup done.rebuilt) = {}
                 /\ done.failed \cap done.rebuilt = {}
                 /\ done.rebuilt \subseteq done.replaced
                 /\ (done.ignored \cup done.skipped)
                       \cap (done.replaced \cup done.stopped) = {}
    BY DEF SummaryIsTrue, Lists
  <2> DEFINE done == proc[p]
  <2>1. /\ Tells(done) /\ done.op = "batch" /\ done.at \in {"preview", "next"}
        /\ done.todo = {} /\ done.plan = {}
    BY DEF TellInv, TypeInv, ControlOK, Fit, Summarizes
  <2> HIDE DEF done
  <2>2. InHand(done) = {}
    BY <2>1 DEF InHand, Taken, Rebuilding, Working, Building
  <2>3. Accounts(done) /\ Reached(done)
    BY <2>1 DEF Tells
  <2>4. /\ done.selected = Lists(done)
        /\ done.ignored \cap (done.skipped \cup done.failed \cup done.rebuilt) = {}
        /\ done.skipped \cap (done.failed \cup done.rebuilt) = {}
        /\ done.failed \cap done.rebuilt = {}
    BY <2>1, <2>2, <2>3 DEF Accounts
  <2>5. done.rebuilt \subseteq done.replaced
    BY <2>3 DEF Reached
  <2>6. (done.ignored \cup done.skipped) \cap (done.replaced \cup done.stopped) = {}
    BY <2>2, <2>3, <2>4 DEF Reached
  <2>7. QED
    BY <2>4, <2>5, <2>6 DEF done
<1>2. Spec => []TellInv
  BY TellInit, TellNext, PTL DEF Spec
<1>3. QED
  BY <1>1, <1>2, PTL
=============================================================================
