-------------------------- MODULE ProjectGateProofs --------------------------
(***************************************************************************)
(* Proofs about ProjectGate for every number of processes, images and      *)
(* crashes.  The types and the locks need no assumption; what the commands *)
(* may rely on under their locks is proved for the commands it is true of: *)
(* each such theorem names, as its hypothesis, the commands that run.      *)
(***************************************************************************)
EXTENDS ProjectGate, TLAPS

-----------------------------------------------------------------------------
(* The commands, their steps and their locks                               *)

Commandings == [op : Commands \cup {None}, at : Steps, read : Journals \cup {NoJournal},
                mine : Images]

Ends == {"capture accept", "capture discard"}

RecoverSteps == {"recover", "recover-image", "recover-files", "recover-clear",
                 "recover-overlay", "remove-stale-overlay", "recovered"}

\* Steps of a transaction; from link on its journal is there.
Transacts == {"begin", "link", "backup-ready", "publish", "image-published", "update",
              "commit", "drop", "clear", "abandon", "abandon-clear", "published"}

\* Steps that use the journal the process has read or written.
WithJournal == {"recover-image", "recover-files", "recover-clear", "link", "backup-ready",
                "publish", "image-published", "update", "commit"}

\* A command's step is one its operation has.
FitAt(op, step, read) ==
  /\ step # "idle" => op \in Operations
  /\ step \in {"before-gate", "after-gate"} => op \notin AllowCapture
  /\ step = "workflow" => op \in Workflow
  /\ step = "after-workflow" => op = "setup run"
  /\ step = "host-access" => op = "host access"
  /\ step \in RecoverSteps => op \notin Ends
  /\ step = "work" => op \in {"vm start", "setup run", "host access"}
  /\ step = "build" => op = "replace"
  /\ step \in Transacts => op \in {"replace", "capture accept"}
  /\ step \in {"start-overlay", "start-metadata", "boot", "capturing"} => op = "capture start"
  /\ step \in {"accept", "rewrite", "compact", "clear-capture", "accepted"} =>
       op = "capture accept"
  /\ step \in {"discard", "discard-metadata"} => op = "capture discard"
  /\ step \in WithJournal => read \in Journals

Fit(r) == FitAt(r.op, r.at, r.read)

\* A command inside the gate holds it, in the mode of its operation, ...
Inside(r) == r.at \notin {"idle", "before-gate", "gate"}
Mode(command) == IF command \in Exclusive THEN "exclusive" ELSE "shared"

\* ... and a setup command that has entered the workflow its lock.
InWorkflow(r) ==
  r.op \in Workflow /\ Inside(r) /\ r.at \notin {"after-gate", "workflow"}

Held == \A p \in Procs : /\ Inside(proc[p]) => gate[p] = Mode(proc[p].op)
                         /\ InWorkflow(proc[p]) => workflow = p

GateExcludes == \A p, q \in Procs : p # q /\ gate[p] = "exclusive" => gate[q] = "none"

ControlOK ==
  /\ proc \in [Procs -> Commandings] /\ \A p \in Procs : Fit(proc[p])
  /\ gate \in [Procs -> {"none", "shared", "exclusive"}]
  /\ workflow \in Procs \cup {Nobody} /\ hostAccess \in Procs \cup {Nobody}
  /\ Held /\ GateExcludes

\* The image files and the capture files have their types.
WorldOK ==
  /\ capture \in BOOLEAN /\ commands \in BOOLEAN
  /\ overlay \in Images \cup {None} /\ image \in Images
  /\ backup \in Images \cup {None} /\ candidate \in Images \cup {None}
  /\ journal \in Journals \cup {NoJournal}
  /\ built \in 0..MaxImages /\ crashes \in 0..MaxCrashes

TypeInv == ControlOK /\ WorldOK

\* What the type invariant of the model says is part of it.
LEMMA TypesFollow == TypeInv => TypeOK
BY DEF TypeInv, TypeOK, ControlOK, WorldOK, Commandings

\* p takes a free lock, or gives back its own, or leaves the lock alone.
LockMove(before, after, p) == after = before \/ ({before, after} \subseteq {p, Nobody})

\* The gate stays as it is, or p leaves it, or is let in.
GateMove(p, r) ==
  \/ gate' = gate /\ (Inside(r) => gate[p] = Mode(r.op))
  \/ gate' = [gate EXCEPT ![p] = "none"] /\ ~Inside(r)
  \/ gate' = [gate EXCEPT ![p] = Mode(r.op)] /\ GateFree(p) /\ r.op = proc[p].op

\* A command takes another step, with the locks that the step needs.
LEMMA ControlStep ==
  ASSUME ControlOK, NEW p \in Procs, NEW r \in Commandings, Fit(r),
         proc' = [proc EXCEPT ![p] = r], GateMove(p, r),
         LockMove(workflow, workflow', p), LockMove(hostAccess, hostAccess', p),
         InWorkflow(r) => workflow' = p
  PROVE  ControlOK'
<1>1. proc' \in [Procs -> Commandings]
  BY DEF ControlOK
<1>2. \A q \in Procs : proc'[q] = IF q = p THEN r ELSE proc[q]
  BY DEF ControlOK
<1>3. \A q \in Procs : Fit(proc'[q])
  BY <1>2 DEF ControlOK
<1>4. workflow' \in Procs \cup {Nobody} /\ hostAccess' \in Procs \cup {Nobody}
  BY DEF LockMove, ControlOK
<1>5. /\ gate' \in [Procs -> {"none", "shared", "exclusive"}]
      /\ \A q \in Procs \ {p} : gate'[q] = gate[q]
      /\ Inside(r) => gate'[p] = Mode(r.op)
  BY DEF GateMove, Mode, ControlOK
<1>6. ASSUME NEW q \in Procs
      PROVE  /\ Inside(proc'[q]) => gate'[q] = Mode(proc'[q].op)
             /\ InWorkflow(proc'[q]) => workflow' = q
  <2>1. CASE q = p
    BY <1>2, <1>5, <2>1
  <2>2. CASE q # p
    BY <1>2, <1>5, <2>2, GateAssumption DEF ControlOK, Held, LockMove, GateAssumption
  <2>3. QED
    BY <2>1, <2>2
<1>7. Held'
  BY <1>6 DEF Held, Inside, InWorkflow, Mode
<1>8. GateExcludes'
  <2>1. CASE gate' = gate \/ gate' = [gate EXCEPT ![p] = "none"]
    BY <2>1 DEF ControlOK, GateExcludes
  <2>2. CASE gate' = [gate EXCEPT ![p] = Mode(r.op)] /\ GateFree(p) /\ r.op = proc[p].op
    BY <2>2 DEF ControlOK, GateExcludes, GateFree, Mode, Runs
  <2>3. QED
    BY <2>1, <2>2 DEF GateMove
<1>9. QED
  BY <1>1, <1>3, <1>4, <1>5, <1>7, <1>8 DEF ControlOK, Fit, FitAt

\* A process without a command fits, and needs no lock.
LEMMA EndedFits == Ended \in Commandings /\ Fit(Ended) /\ ~Inside(Ended)
BY GateAssumption DEF Ended, Commandings, Fit, FitAt, Inside, RecoverSteps, Transacts, WithJournal,
                      Steps, Images, GateAssumption

\* A command that ends gives its locks back.
LEMMA LeaveControl ==
  ASSUME ControlOK, NEW p \in Procs, Leave(p)
  PROVE  ControlOK'
<1>1. LockMove(workflow, workflow', p) /\ LockMove(hostAccess, hostAccess', p)
  BY DEF Leave, Release, LockMove
<1>2. gate' = [gate EXCEPT ![p] = "none"] /\ proc' = [proc EXCEPT ![p] = Ended]
  BY DEF Leave, Release
<1>3. QED
  BY <1>1, <1>2, EndedFits, ControlStep DEF GateMove, InWorkflow

\* A command goes on with its operation.
LEMMA Forms ==
  ASSUME ControlOK, NEW p \in Procs
  PROVE  /\ proc[p] \in Commandings
         /\ Leave(p) => proc'[p] = Ended /\ \A q \in Procs \ {p} : proc'[q] = proc[q]
         /\ \A step \in Steps : Goto(p, step) =>
              /\ proc' = [proc EXCEPT ![p] = proc'[p]] /\ proc'[p] \in Commandings
              /\ proc'[p].at = step /\ proc'[p].op = proc[p].op
              /\ proc'[p].read = proc[p].read /\ proc'[p].mine = proc[p].mine
              /\ \A q \in Procs \ {p} : proc'[q] = proc[q]
<1>1. proc[p] \in Commandings
  BY DEF ControlOK
<1>2. Leave(p) => proc'[p] = Ended /\ \A q \in Procs \ {p} : proc'[q] = proc[q]
  BY DEF Leave, ControlOK
<1>3. ASSUME NEW step \in Steps, Goto(p, step)
      PROVE  /\ proc' = [proc EXCEPT ![p] = proc'[p]] /\ proc'[p] \in Commandings
             /\ proc'[p].at = step /\ proc'[p].op = proc[p].op
             /\ proc'[p].read = proc[p].read /\ proc'[p].mine = proc[p].mine
             /\ \A q \in Procs \ {p} : proc'[q] = proc[q]
  <2> DEFINE r == [proc[p] EXCEPT !.at = step]
  <2>1. r \in Commandings /\ r.at = step /\ r.op = proc[p].op /\ r.read = proc[p].read
        /\ r.mine = proc[p].mine
    BY <1>1 DEF Commandings
  <2>2. proc' = [proc EXCEPT ![p] = r]
    BY <1>3 DEF Goto
  <2> HIDE DEF r
  <2>3. proc'[p] = r /\ \A q \in Procs \ {p} : proc'[q] = proc[q]
    BY <2>2 DEF ControlOK
  <2>4. QED
    BY <2>1, <2>2, <2>3
<1>4. QED
  BY <1>1, <1>2, <1>3

\* The step is one the command's operation has, and it holds the locks for it.
Follows(p, step) ==
  /\ step \in Steps /\ FitAt(proc[p].op, step, proc[p].read)
  /\ Inside(proc[p]) \/ step = "gate"
  /\ InWorkflow(proc[p]) \/ proc[p].op \notin Workflow \/ step \in {"gate", "workflow"}

\* A command that goes on needs no further lock.
LEMMA GoesOn ==
  ASSUME ControlOK, NEW p \in Procs, NEW step, Goto(p, step), UNCHANGED locks, Follows(p, step)
  PROVE  ControlOK'
<1>1. proc' = [proc EXCEPT ![p] = proc'[p]] /\ proc'[p] \in Commandings /\ Fit(proc'[p])
  BY Forms DEF Fit, Follows
<1>2. proc'[p].at = step /\ proc'[p].op = proc[p].op
  BY Forms DEF Follows
<1>3. GateMove(p, proc'[p]) /\ (InWorkflow(proc'[p]) => workflow' = p)
  BY <1>2 DEF GateMove, locks, ControlOK, Held, Inside, InWorkflow, Follows
<1>4. QED
  BY <1>1, <1>3, ControlStep DEF LockMove, locks

\* A command begins.
LEMMA StartControl == ASSUME ControlOK, NEW p \in Procs, Start(p) PROVE ControlOK'
<1>1. PICK command \in Operations, step \in {"gate", "before-gate"} :
        /\ proc' = [proc EXCEPT ![p].op = command, ![p].at = step] /\ UNCHANGED locks
        /\ step = "before-gate" => command \notin AllowCapture
  BY DEF Start
<1> DEFINE r == [proc[p] EXCEPT !.op = command, !.at = step]
<1>2. proc' = [proc EXCEPT ![p] = r]
  BY <1>1 DEF ControlOK
<1>3. r \in Commandings /\ r.at = step /\ r.op = command
  <2>1. command \in Commands /\ step \in Steps /\ proc[p] \in Commandings
    BY GateAssumption DEF GateAssumption, Steps, ControlOK
  <2>2. QED
    BY <2>1 DEF Commandings
<1> HIDE DEF r
<1>4. Fit(r) /\ ~Inside(r)
  BY <1>1, <1>3 DEF Fit, FitAt, Inside, RecoverSteps, Transacts, WithJournal
<1>5. GateMove(p, r) /\ ~InWorkflow(r)
  BY <1>1, <1>4 DEF GateMove, locks, InWorkflow
<1>6. QED
  BY <1>1, <1>2, <1>3, <1>4, <1>5, ControlStep DEF LockMove, locks

\* The locks of a command.
LEMMA LockingControl ==
  ASSUME ControlOK, NEW p \in Procs, Locking(p), ~Start(p)
  PROVE  ControlOK'
<1>0. /\ Fit(proc[p]) /\ proc[p] \in Commandings
      /\ Inside(proc[p]) => gate[p] = Mode(proc[p].op)
  BY DEF ControlOK, Held
<1> USE DEF At, Runs
<1>1. CASE Leave(p)
  BY <1>1, LeaveControl
<1>2. CASE ~Leave(p) /\ (BeforeGate(p) \/ CheckInsideGate(p) \/ CheckInsideWorkflow(p))
  <2>1. PICK step : /\ Goto(p, step) /\ UNCHANGED locks
                    /\ \/ At(p, "before-gate") /\ step = "gate"
                       \/ At(p, "after-gate") /\ step = AfterGate(proc[p].op)
                       \/ At(p, "after-workflow") /\ step = "recover"
    BY <1>2 DEF BeforeGate, CheckInsideGate, CheckInsideWorkflow, RequireNoCapture
  <2>2. CASE At(p, "before-gate") /\ step = "gate"
    <3>1. Follows(p, step)
      BY <1>0, <2>2 DEF Follows, Fit, FitAt, Steps, RecoverSteps, Transacts, WithJournal
    <3>2. QED
      BY <2>1, <3>1, GoesOn
  <2>3. CASE At(p, "after-gate") /\ step = AfterGate(proc[p].op)
    <3>1. /\ proc[p].op \notin AllowCapture /\ proc[p].op \in Operations
          /\ Inside(proc[p])
      BY <1>0, <2>3 DEF Fit, FitAt, Inside
    <3>2. \/ step = "workflow" /\ proc[p].op \in Workflow
          \/ step = "host-access" /\ proc[p].op = "host access"
          \/ step = "recover" /\ proc[p].op \notin Workflow
      BY <2>3, <3>1 DEF AfterGate, AllowCapture
    <3>3. Follows(p, step)
      BY <3>1, <3>2 DEF Follows, FitAt, Steps, RecoverSteps, Transacts, WithJournal, AllowCapture,
                        Ends, Workflow
    <3>4. QED
      BY <2>1, <3>3, GoesOn
  <2>4. CASE At(p, "after-workflow") /\ step = "recover"
    <3>1. /\ proc[p].op = "setup run" /\ proc[p].op \in Operations
          /\ Inside(proc[p]) /\ InWorkflow(proc[p])
      BY <1>0, <2>4 DEF Fit, FitAt, Inside, InWorkflow, Workflow
    <3>2. Follows(p, step)
      BY <2>4, <3>1 DEF Follows, FitAt, Steps, RecoverSteps, Transacts, WithJournal, Ends
    <3>3. QED
      BY <2>1, <3>2, GoesOn
  <2>5. QED
    BY <2>1, <2>2, <2>3, <2>4
<1>3. CASE ~Leave(p) /\ EnterGate(p)
  <2> DEFINE step == IF Runs(p, AllowCapture) THEN AfterGate(proc[p].op) ELSE "after-gate"
  <2>1. /\ gate' = [gate EXCEPT ![p] = Mode(proc[p].op)] /\ GateFree(p)
        /\ Goto(p, step) /\ UNCHANGED <<workflow, hostAccess>> /\ At(p, "gate")
    BY <1>3 DEF EnterGate, Mode
  <2>2. \/ step = "workflow" /\ proc[p].op \in Workflow
        \/ step = "after-gate" /\ proc[p].op \notin AllowCapture
        \/ step = "accept" /\ proc[p].op = "capture accept"
        \/ step = "discard" /\ proc[p].op = "capture discard"
    BY DEF AfterGate, AllowCapture, Workflow
  <2> HIDE DEF step
  <2>3. step \in Steps /\ FitAt(proc[p].op, step, proc[p].read)
    BY <1>0, <2>1, <2>2 DEF Steps, Fit, FitAt, RecoverSteps, Transacts, WithJournal
  <2>4. /\ proc' = [proc EXCEPT ![p] = proc'[p]] /\ proc'[p] \in Commandings
        /\ proc'[p].at = step /\ proc'[p].op = proc[p].op /\ proc'[p].read = proc[p].read
    BY <2>1, <2>3, Forms
  <2>5. Fit(proc'[p]) /\ GateMove(p, proc'[p])
    BY <2>1, <2>3, <2>4 DEF Fit, GateMove
  <2>6. ~InWorkflow(proc'[p])
    BY <2>2, <2>4 DEF InWorkflow, Workflow
  <2>7. QED
    BY <2>1, <2>4, <2>5, <2>6, ControlStep DEF LockMove
<1>4. CASE ~Leave(p) /\ EnterWorkflow(p)
  <2>1. PICK step \in {"after-workflow", "recover"} :
          /\ Goto(p, step) /\ workflow = Nobody /\ workflow' = p
          /\ UNCHANGED <<gate, hostAccess>> /\ At(p, "workflow")
          /\ step = "after-workflow" => proc[p].op = "setup run"
    BY <1>4 DEF EnterWorkflow
  <2>2. step \in Steps /\ FitAt(proc[p].op, step, proc[p].read)
    BY <1>0, <2>1 DEF Steps, Fit, FitAt, RecoverSteps, Transacts, WithJournal, Workflow, Ends
  <2>3. /\ proc' = [proc EXCEPT ![p] = proc'[p]] /\ proc'[p] \in Commandings
        /\ proc'[p].at = step /\ proc'[p].op = proc[p].op /\ proc'[p].read = proc[p].read
    BY <2>1, <2>2, Forms
  <2>4. Fit(proc'[p]) /\ GateMove(p, proc'[p])
    BY <1>0, <2>1, <2>2, <2>3 DEF Fit, GateMove, Inside
  <2>5. QED
    BY <2>1, <2>3, <2>4, ControlStep DEF LockMove
<1>5. CASE ~Leave(p) /\ EnterHostAccess(p)
  <2>1. /\ Goto(p, "recover") /\ hostAccess = Nobody /\ hostAccess' = p
        /\ UNCHANGED <<gate, workflow>> /\ At(p, "host-access")
    BY <1>5 DEF EnterHostAccess
  <2>2. /\ proc[p].op = "host access"
        /\ "recover" \in Steps /\ FitAt(proc[p].op, "recover", proc[p].read)
    BY <1>0, <2>1 DEF Steps, Fit, FitAt, RecoverSteps, Transacts, WithJournal, Ends
  <2>3. /\ proc' = [proc EXCEPT ![p] = proc'[p]] /\ proc'[p] \in Commandings
        /\ proc'[p].at = "recover" /\ proc'[p].op = proc[p].op /\ proc'[p].read = proc[p].read
    BY <2>1, <2>2, Forms
  <2>4. Fit(proc'[p]) /\ GateMove(p, proc'[p]) /\ ~InWorkflow(proc'[p])
    BY <1>0, <2>1, <2>2, <2>3 DEF Fit, GateMove, Inside, InWorkflow, Workflow
  <2>5. QED
    BY <2>1, <2>3, <2>4, ControlStep DEF LockMove
<1>6. QED
  BY <1>1, <1>2, <1>3, <1>4, <1>5 DEF Locking

\* A command inside goes on with another journal or image.
LEMMA GoesOnWith ==
  ASSUME ControlOK, NEW p \in Procs, NEW r \in Commandings, proc' = [proc EXCEPT ![p] = r],
         r.op = proc[p].op, Fit(r), Inside(proc[p]),
         InWorkflow(proc[p]) \/ r.op \notin Workflow, UNCHANGED locks
  PROVE  ControlOK'
<1>1. GateMove(p, r) /\ (InWorkflow(r) => workflow' = p)
  BY DEF GateMove, locks, ControlOK, Held, InWorkflow
<1>2. QED
  BY <1>1, ControlStep DEF LockMove, locks

\* Recovery keeps the locks of its command.
LEMMA RecoveringControl == ASSUME TypeInv, NEW p \in Procs, Recovering(p) PROVE ControlOK'
<1>0. ControlOK /\ Fit(proc[p]) /\ proc[p] \in Commandings
  BY DEF TypeInv, ControlOK
<1> USE DEF At, Runs
<1>1. /\ proc[p].at \in RecoverSteps /\ Inside(proc[p]) /\ proc[p].op \notin Ends
      /\ proc[p].op \in Operations /\ (InWorkflow(proc[p]) \/ proc[p].op \notin Workflow)
  <2>1. proc[p].at \in RecoverSteps
    BY DEF Recovering, Recover, RecoverImage, RecoverFiles, RecoverClear, RecoverOverlay,
           RemoveStaleOverlay, Recovered, RecoverSteps
  <2>2. QED
    BY <1>0, <2>1 DEF Fit, FitAt, RecoverSteps, Inside, InWorkflow
<1>2. CASE Leave(p)
  BY <1>0, <1>2, LeaveControl
<1>3. CASE Recover(p) /\ journal # NoJournal
  <2> DEFINE step == IF journal.phase = "metadata-published"
                     THEN "recover-clear" ELSE "recover-image"
             r == [proc[p] EXCEPT !.read = journal, !.at = step]
  <2>1. proc' = [proc EXCEPT ![p] = r] /\ UNCHANGED locks /\ journal \in Journals
    BY <1>3 DEF Recover, TypeInv, WorldOK, ControlOK
  <2>2. step \in {"recover-clear", "recover-image"} /\ step \in Steps
    BY DEF Steps
  <2> HIDE DEF step
  <2>3. r \in Commandings /\ r.at = step /\ r.op = proc[p].op /\ r.read = journal
    BY <1>0, <2>1, <2>2 DEF Commandings
  <2> HIDE DEF r
  <2>4. Fit(r)
    BY <1>1, <2>1, <2>2, <2>3 DEF Fit, FitAt, RecoverSteps, Transacts, WithJournal
  <2>5. QED
    BY <1>0, <1>1, <2>1, <2>3, <2>4, GoesOnWith
<1>4. CASE ~Leave(p) /\ ~(Recover(p) /\ journal # NoJournal)
  <2>1. PICK step \in {"recover-files", "recover-clear", "recover-overlay", "recovered",
                       "remove-stale-overlay", "build", "start-overlay", "work"} :
          /\ Goto(p, step) /\ UNCHANGED locks
          /\ step = "recover-clear" => At(p, "recover-files")
          /\ step = "recover-files" => At(p, "recover-image")
          /\ step = "build" => proc[p].op = "replace"
          /\ step = "start-overlay" => proc[p].op = "capture start"
          /\ step = "work" => proc[p].op \notin {"replace", "capture start"}
    <3>1. CASE Recover(p) \/ RecoverImage(p) \/ RecoverFiles(p)
      BY <1>4, <3>1 DEF Recover, RecoverImage, RecoverFiles
    <3>2. CASE RecoverClear(p) \/ RecoverOverlay(p) \/ RemoveStaleOverlay(p)
      BY <1>4, <3>2 DEF RecoverClear, RecoverOverlay, RemoveStaleOverlay
    <3>3. CASE Recovered(p)
      BY <1>4, <3>3 DEF Recovered
    <3>4. QED
      BY <3>1, <3>2, <3>3 DEF Recovering
  <2>2. proc[p].op \in Commands
    BY <1>1, GateAssumption DEF GateAssumption
  <2>3. step = "work" => proc[p].op \in {"vm start", "setup run", "host access"}
    BY <1>1, <2>1, <2>2 DEF Commands, Ends
  <2>4. Follows(p, step)
    BY <1>0, <1>1, <2>1, <2>3
    DEF Follows, Fit, FitAt, Steps, RecoverSteps, Transacts, WithJournal
  <2>5. QED
    BY <1>0, <2>1, <2>4, GoesOn
<1>5. QED
  BY <1>2, <1>3, <1>4

\* So does a replacement, ...
LEMMA PublishingControl == ASSUME TypeInv, NEW p \in Procs, Publishing(p) PROVE ControlOK'
<1>0. ControlOK /\ Fit(proc[p]) /\ proc[p] \in Commandings
  BY DEF TypeInv, ControlOK
<1> USE DEF At, Runs
<1>1. /\ proc[p].at \in Transacts \cup {"build"} /\ Inside(proc[p]) /\ proc[p].op \in Operations
      /\ proc[p].op \in {"replace", "capture accept"} /\ proc[p].op \notin Workflow
  <2>1. proc[p].at \in Transacts \cup {"build"}
    BY DEF Publishing, Build, Begin, Link, BackupReady, PublishImage, ImagePublished, Update,
           Commit, Drop, Clear, Abandon, AbandonClear, Published, Transacts
  <2>2. QED
    BY <1>0, <2>1 DEF Fit, FitAt, Transacts, Inside, Workflow
<1>2. CASE Leave(p)
  BY <1>0, <1>2, LeaveControl
<1>3. CASE Build(p)
  <2> DEFINE r == [proc[p] EXCEPT !.at = "begin", !.mine = built + 1]
  <2>1. built + 1 \in Images
    BY <1>3, GateAssumption DEF Build, TypeInv, WorldOK, Images, GateAssumption
  <2>2. proc' = [proc EXCEPT ![p] = r] /\ UNCHANGED locks
    BY <1>3 DEF Build, TypeInv, ControlOK
  <2>3. "begin" \in Steps
    BY DEF Steps
  <2>4. r \in Commandings /\ r.at = "begin" /\ r.op = proc[p].op
    BY <1>0, <2>1, <2>3 DEF Commandings
  <2> HIDE DEF r
  <2>5. Fit(r)
    BY <1>1, <2>4 DEF Fit, FitAt, RecoverSteps, Transacts, WithJournal
  <2>6. QED
    BY <1>0, <1>1, <2>2, <2>4, <2>5, GoesOnWith
<1>4. CASE ~Leave(p) /\ Begin(p)
  <2> DEFINE r == [proc[p] EXCEPT !.at = "link", !.read = journal']
  <2>1. journal' \in Journals
    BY <1>4 DEF Begin, LeavePublish, Journals, Snapshots, Phases, TypeInv, WorldOK
  <2>2. proc' = [proc EXCEPT ![p] = r] /\ UNCHANGED locks
    BY <1>4 DEF Begin, LeavePublish, TypeInv, ControlOK
  <2>3. "link" \in Steps
    BY DEF Steps
  <2>4. r \in Commandings /\ r.at = "link" /\ r.op = proc[p].op /\ r.read = journal'
    BY <1>0, <2>1, <2>3 DEF Commandings
  <2> HIDE DEF r
  <2>5. Fit(r)
    BY <1>1, <2>1, <2>4 DEF Fit, FitAt, RecoverSteps, Transacts, WithJournal
  <2>6. QED
    BY <1>0, <1>1, <2>2, <2>4, <2>5, GoesOnWith
<1>5. CASE ~Leave(p) /\ ~Build(p) /\ ~Begin(p)
  <2>1. PICK step \in {"backup-ready", "abandon-clear", "publish", "image-published", "abandon",
                       "update", "commit", "drop", "published", "clear", "clear-capture"} :
          /\ Goto(p, step) /\ UNCHANGED locks
          /\ step \in WithJournal => proc[p].at \in WithJournal
          /\ step = "clear-capture" => proc[p].op # "replace"
    <3>1. CASE Link(p) \/ BackupReady(p) \/ PublishImage(p)
      BY <1>5, <3>1 DEF Link, BackupReady, PublishImage, WriteJournal, locks, WithJournal
    <3>2. CASE ImagePublished(p) \/ Update(p) \/ Commit(p)
      BY <1>5, <3>2 DEF ImagePublished, Update, Commit, WriteJournal, locks, WithJournal
    <3>3. CASE Drop(p) \/ Clear(p) \/ Abandon(p)
      BY <1>5, <3>3 DEF Drop, Clear, Abandon, WithJournal
    <3>4. CASE AbandonClear(p) \/ Published(p)
      BY <1>5, <3>4 DEF AbandonClear, LeavePublish, Published, WithJournal
    <3>5. QED
      BY <1>5, <3>1, <3>2, <3>3, <3>4 DEF Publishing
  <2>2. Follows(p, step)
    BY <1>0, <1>1, <2>1 DEF Follows, Fit, FitAt, Steps, RecoverSteps, Transacts, WithJournal
  <2>3. QED
    BY <1>0, <2>1, <2>2, GoesOn
<1>6. QED
  BY <1>2, <1>3, <1>4, <1>5

\* ... and a capture.
LEMMA CapturingControl == ASSUME TypeInv, NEW p \in Procs, Capturing(p) PROVE ControlOK'
<1>0. ControlOK /\ Fit(proc[p]) /\ proc[p] \in Commandings
  BY DEF TypeInv, ControlOK
<1> USE DEF At, Runs
<1>1. CASE Leave(p)
  BY <1>0, <1>1, LeaveControl
<1>2. CASE RecordCommand(p)
  BY <1>0, <1>2 DEF RecordCommand, locks, ControlOK, Held, GateExcludes, Mode, Inside, InWorkflow,
                    Fit, FitAt
<1>3. CASE ~Leave(p) /\ Compact(p)
  <2> DEFINE r == [proc[p] EXCEPT !.at = "begin", !.mine = overlay]
  <2>1. overlay \in Images
    BY <1>3 DEF Compact, LeavePublish, TypeInv, WorldOK
  <2>2. proc' = [proc EXCEPT ![p] = r] /\ UNCHANGED locks
    BY <1>3 DEF Compact, LeavePublish, TypeInv, ControlOK
  <2>3. "begin" \in Steps
    BY DEF Steps
  <2>4. r \in Commandings /\ r.at = "begin" /\ r.op = proc[p].op
    BY <1>0, <2>1, <2>3 DEF Commandings
  <2>5. At(p, "compact") /\ proc[p].op = "capture accept" /\ proc[p].op \in Operations
    BY <1>0, <1>3 DEF Compact, Fit, FitAt
  <2> HIDE DEF r
  <2>6. Fit(r)
    BY <2>4, <2>5 DEF Fit, FitAt, RecoverSteps, Transacts, WithJournal
  <2>7. Inside(proc[p]) /\ r.op \notin Workflow
    BY <2>4, <2>5 DEF Inside, Workflow
  <2>8. QED
    BY <1>0, <2>2, <2>4, <2>6, <2>7, GoesOnWith
<1>4. CASE ~Leave(p) /\ ~Compact(p) /\ ~RecordCommand(p)
  <2>1. PICK step \in {"start-metadata", "boot", "capturing", "rewrite", "compact", "accepted",
                       "discard-metadata"} :
          /\ Goto(p, step) /\ UNCHANGED locks
          /\ step \in {"start-metadata", "boot", "capturing"} =>
               proc[p].at \in {"start-overlay", "start-metadata", "boot"}
          /\ step \in {"rewrite", "compact", "accepted"} =>
               proc[p].at \in {"accept", "rewrite", "clear-capture"}
          /\ step = "discard-metadata" => At(p, "discard")
    <3>1. CASE StartOverlay(p) \/ StartMetadata(p) \/ BootCapture(p)
      BY <1>4, <3>1 DEF StartOverlay, StartMetadata, BootCapture
    <3>2. CASE ReadCapture(p) \/ RewriteCapture(p) \/ ClearCapture(p) \/ DiscardOverlay(p)
      BY <1>4, <3>2 DEF ReadCapture, RewriteCapture, ClearCapture, DiscardOverlay
    <3>3. QED
      BY <1>4, <3>1, <3>2 DEF Capturing, EndShell, ReportAccepted, DiscardMetadata
  <2>2. Follows(p, step)
    <3>1. /\ proc[p].at \in {"start-overlay", "start-metadata", "boot"} =>
               proc[p].op = "capture start" /\ InWorkflow(proc[p])
          /\ proc[p].at \in {"accept", "rewrite", "clear-capture"} =>
               proc[p].op = "capture accept"
          /\ At(p, "discard") => proc[p].op = "capture discard"
      BY <1>0 DEF Fit, FitAt, InWorkflow, Inside, Workflow
    <3>2. QED
      BY <1>0, <2>1, <3>1 DEF Follows, Fit, FitAt, Steps, RecoverSteps, Transacts, WithJournal,
                              Inside, Workflow
  <2>3. QED
    BY <1>0, <2>1, <2>2, GoesOn
<1>5. QED
  BY <1>1, <1>2, <1>3, <1>4

\* Every step keeps the types of the files.
LEMMA WorldStep == ASSUME TypeInv, [Next]_vars PROVE WorldOK'
<1> USE DEF locks, captureFiles, imageFiles, bounds
<1>0. WorldOK /\ MaxImages \in Nat /\ MaxCrashes \in Nat
  BY GateAssumption DEF TypeInv, GateAssumption
<1>1. /\ \A p \in Procs : proc[p] \in Commandings /\ Fit(proc[p])
      /\ built < MaxImages => built + 1 \in 0..MaxImages
      /\ 0 \in Images
  BY <1>0 DEF TypeInv, ControlOK, WorldOK, Images
<1>2. CASE UNCHANGED vars
  BY <1>0, <1>2 DEF vars, WorldOK
<1>3. ASSUME NEW p \in Procs, Locking(p) \/ Work(p) PROVE WorldOK'
  BY <1>0, <1>3 DEF Locking, Start, BeforeGate, EnterGate, CheckInsideGate, EnterWorkflow,
                    CheckInsideWorkflow, EnterHostAccess, RequireNoCapture, Work, WorldOK
<1>4. ASSUME NEW p \in Procs, Recovering(p) PROVE WorldOK'
  <2>1. CASE Recover(p) \/ RecoverOverlay(p) \/ Recovered(p)
    BY <1>0, <2>1 DEF Recover, RecoverOverlay, Recovered, WorldOK
  <2>2. CASE RecoverImage(p)
    BY <1>0, <2>2 DEF RecoverImage, RenameBackup, WorldOK
  <2>3. CASE RecoverFiles(p)
    <3>1. proc[p].read \in Journals
      BY <1>1, <2>3 DEF RecoverFiles, At, Fit, FitAt, WithJournal
    <3>2. proc[p].read.snapshot = None \/ proc[p].read.snapshot \in [capture : BOOLEAN,
                                                                    commands : BOOLEAN]
      BY <3>1 DEF Journals, Snapshots
    <3>3. QED
      BY <1>0, <2>3, <3>2 DEF RecoverFiles, WorldOK
  <2>4. CASE RecoverClear(p) \/ RemoveStaleOverlay(p)
    BY <1>0, <2>4 DEF RecoverClear, RemoveStaleOverlay, WorldOK
  <2>5. QED
    BY <1>4, <2>1, <2>2, <2>3, <2>4 DEF Recovering
<1>5. ASSUME NEW p \in Procs, Publishing(p) PROVE WorldOK'
  <2>1. CASE Build(p)
    BY <1>0, <1>1, <2>1 DEF Build, WorldOK, Images
  <2>2. CASE Begin(p)
    <3>1. journal' \in Journals \cup {NoJournal}
      BY <1>0, <2>2 DEF Begin, WorldOK, Journals, Snapshots, Phases
    <3>2. QED
      BY <1>0, <2>2, <3>1 DEF Begin, LeavePublish, WorldOK
  <2>3. CASE BackupReady(p) \/ ImagePublished(p) \/ Commit(p)
    <3>1. PICK phase \in Phases : journal' = [proc[p].read EXCEPT !.phase = phase]
      BY <2>3 DEF BackupReady, ImagePublished, Commit, WriteJournal, Phases
    <3>2. proc[p].read \in Journals
      BY <1>1, <2>3 DEF BackupReady, ImagePublished, Commit, At, Fit, FitAt, WithJournal
    <3>3. journal' \in Journals
      BY <3>1, <3>2 DEF Journals
    <3>4. QED
      BY <1>0, <2>3, <3>3 DEF BackupReady, ImagePublished, Commit, WriteJournal, WorldOK
  <2>4. CASE Link(p) \/ PublishImage(p) \/ Update(p) \/ Drop(p) \/ Clear(p)
    BY <1>0, <2>4 DEF Link, PublishImage, Update, Drop, Clear, WorldOK
  <2>5. CASE Abandon(p) \/ AbandonClear(p) \/ Published(p)
    BY <1>0, <2>5 DEF Abandon, AbandonClear, LeavePublish, Published, WorldOK
  <2>6. QED
    BY <1>5, <2>1, <2>2, <2>3, <2>4, <2>5 DEF Publishing
<1>6. ASSUME NEW p \in Procs, Capturing(p) PROVE WorldOK'
  <2>1. CASE StartOverlay(p) \/ StartMetadata(p) \/ BootCapture(p) \/ RecordCommand(p)
    BY <1>0, <1>1, <2>1 DEF StartOverlay, StartMetadata, BootCapture, RecordCommand, WorldOK, Images
  <2>2. CASE EndShell(p) \/ ReadCapture(p) \/ RewriteCapture(p) \/ ReportAccepted(p)
    BY <1>0, <2>2 DEF EndShell, ReadCapture, RewriteCapture, ReportAccepted, WorldOK
  <2>3. CASE Compact(p) \/ ClearCapture(p) \/ DiscardOverlay(p) \/ DiscardMetadata(p)
    BY <1>0, <2>3 DEF Compact, LeavePublish, ClearCapture, DiscardOverlay, DiscardMetadata, WorldOK
  <2>4. QED
    BY <1>6, <2>1, <2>2, <2>3 DEF Capturing
<1>7. ASSUME NEW p \in Procs, Crash(p) PROVE WorldOK'
  <2>1. crashes' \in 0..MaxCrashes
    BY <1>0, <1>7 DEF Crash, WorldOK
  <2>2. QED
    BY <1>0, <1>7, <2>1 DEF Crash, WorldOK
<1>8. QED
  BY <1>2, <1>3, <1>4, <1>5, <1>6, <1>7 DEF Next

\* Every step keeps the types, and every command its locks.
LEMMA TypeStep == TypeInv /\ [Next]_vars => TypeInv'
<1> SUFFICES ASSUME TypeInv, [Next]_vars PROVE TypeInv'
  OBVIOUS
<1>1. WorldOK'
  BY WorldStep
<1>2. CASE UNCHANGED vars
  <2>1. UNCHANGED <<proc, gate, workflow, hostAccess>>
    BY <1>2 DEF vars, locks
  <2>2. ControlOK'
    BY <2>1 DEF TypeInv, ControlOK, Held, GateExcludes, Mode, Inside, InWorkflow, Fit, FitAt
  <2>3. QED
    BY <1>1, <2>2 DEF TypeInv
<1>3. ASSUME NEW p \in Procs, Work(p) \/ Crash(p) PROVE ControlOK'
  BY <1>3, LeaveControl DEF TypeInv, Work, Crash
<1>4. ASSUME NEW p \in Procs,
             Locking(p) \/ Recovering(p) \/ Publishing(p) \/ Capturing(p)
      PROVE  ControlOK'
  BY <1>4, StartControl, LockingControl, RecoveringControl, PublishingControl, CapturingControl
  DEF TypeInv
<1>5. QED
  BY <1>1, <1>2, <1>3, <1>4 DEF Next, TypeInv

\* A project without a command at work has the types.
LEMMA TypeInit == Init => TypeInv
<1> SUFFICES ASSUME Init PROVE TypeInv
  OBVIOUS
<1>1. ControlOK
  BY EndedFits DEF Init, ControlOK, Held, GateExcludes, InWorkflow
<1>2. 0 \in Images /\ 1 \in Images /\ 0 \in 0..MaxCrashes
  BY GateAssumption DEF GateAssumption, Images
<1>3. WorldOK
  BY <1>2 DEF Init, WorldOK, Images
<1>4. QED
  BY <1>1, <1>3 DEF TypeInv

\* TypeOK always holds: every step of every command is one its operation has, and the files
\* have what a transaction, a recovery or a capture may write.
THEOREM TypeCorrect == Spec => []TypeOK
<1>1. Spec => []TypeInv
  BY TypeInit, TypeStep, PTL DEF Spec
<1>2. QED
  BY <1>1, TypesFollow, PTL

-----------------------------------------------------------------------------
(* What the locks exclude                                                  *)

\* An exclusive command is alone inside the gate, ...
LEMMA Alone ==
  ASSUME ControlOK, NEW p \in Procs, NEW q \in Procs, p # q,
         Inside(proc[p]), proc[p].op \in Exclusive
  PROVE  ~Inside(proc[q])
BY DEF ControlOK, Held, GateExcludes, Mode

\* ... and one setup command at a time is in the workflow.
LEMMA OneWorkflow ==
  ASSUME ControlOK, NEW p \in Procs, NEW q \in Procs, InWorkflow(proc[p]), InWorkflow(proc[q])
  PROVE  p = q
BY DEF ControlOK, Held

\* A step of one command leaves the others where they are.
LEMMA OthersStay ==
  ASSUME TypeInv, NEW p \in Procs,
         \/ Locking(p) \/ Recovering(p) \/ Work(p) \/ Publishing(p) \/ Capturing(p) \/ Crash(p)
  PROVE  \A q \in Procs \ {p} : proc'[q] = proc[q]
<1>0. ControlOK
  BY DEF TypeInv
<1>1. CASE Leave(p) \/ UNCHANGED proc
  BY <1>0, <1>1, Forms
<1>2. CASE ~Leave(p) /\ (Locking(p) \/ Recovering(p))
  BY <1>0, <1>2 DEF Locking, Start, BeforeGate, EnterGate, CheckInsideGate, EnterWorkflow,
       CheckInsideWorkflow, EnterHostAccess, RequireNoCapture, Recovering, Recover, RecoverImage,
       RecoverFiles, RecoverClear, RecoverOverlay, RemoveStaleOverlay, Recovered, Goto, ControlOK
<1>3. CASE ~Leave(p) /\ Publishing(p)
  BY <1>0, <1>3 DEF Publishing, Build, Begin, Link, BackupReady, PublishImage, ImagePublished,
       Update, Commit, Drop, Clear, Abandon, AbandonClear, Published, LeavePublish, Goto, ControlOK
<1>4. CASE ~Leave(p) /\ ~UNCHANGED proc /\ Capturing(p)
  BY <1>0, <1>4 DEF Capturing, StartOverlay, StartMetadata, BootCapture, RecordCommand, EndShell,
       ReadCapture, RewriteCapture, Compact, LeavePublish, ClearCapture, ReportAccepted,
       DiscardOverlay, DiscardMetadata, Goto, ControlOK
<1>5. QED
  BY <1>1, <1>2, <1>3, <1>4 DEF Work, Crash

-----------------------------------------------------------------------------
(* Replacement.  Without project setup capture accept, a transaction is one *)
(* of project clean or project rebuild, which hold the gate exclusively; it *)
(* keeps no metadata, so no recovery brings a capture back.                 *)

NoAccept == "capture accept" \notin Operations

\* From the check inside the gate to its end, a replacement meets no capture, has its own
\* candidate, and then its own image.
Replaces(p) ==
  /\ proc[p].at \in WithJournal => proc[p].read.snapshot = None
  /\ Runs(p, {"replace"}) =>
       /\ Inside(proc[p]) /\ ~At(p, "after-gate") => ~capture
       /\ proc[p].at \in {"begin", "link", "backup-ready", "publish"} => candidate = proc[p].mine
       /\ proc[p].at \in {"image-published", "update", "commit", "drop", "clear", "published"} =>
            image = proc[p].mine

Replacing ==
  /\ journal # NoJournal => journal.snapshot = None
  /\ \A p \in Procs : Replaces(p)

\* A step inside the gate disturbs no replacement but its own, one outside disturbs none.
LEMMA ReplacingKept ==
  ASSUME TypeInv, Replacing, NEW p \in Procs, \A q \in Procs \ {p} : proc'[q] = proc[q],
         journal' # NoJournal => journal'.snapshot = None, Replaces(p)',
         Inside(proc[p]) \/ UNCHANGED <<capture, candidate, image>>
  PROVE  Replacing'
<1> SUFFICES ASSUME NEW q \in Procs PROVE Replaces(q)'
  BY DEF Replacing
<1>1. CASE q = p
  BY <1>1
<1>2. CASE q # p /\ UNCHANGED <<capture, candidate, image>>
  BY <1>2 DEF Replacing, Replaces, Runs, At
<1>3. CASE q # p /\ Inside(proc[p])
  <2>1. proc'[q] = proc[q] /\ Replaces(q)
    BY <1>3 DEF Replacing
  <2>2. ~(Inside(proc[q]) /\ Runs(q, {"replace"}))
    BY <1>3, Alone DEF TypeInv, Runs, Exclusive
  <2>3. QED
    BY <2>1, <2>2 DEF Replaces, Runs, At, Inside
<1>4. QED
  BY <1>1, <1>2, <1>3

\* A command that ends replaces nothing.
LEMMA LeaveReplaces == ASSUME TypeInv, NEW p \in Procs, Leave(p) PROVE Replaces(p)'
<1>1. proc'[p] = Ended
  BY Forms DEF TypeInv
<1>2. QED
  BY <1>1 DEF Replaces, Ended, Inside, WithJournal

\* The locks, and recovery.
LEMMA RecoveringReplaces ==
  ASSUME TypeInv, Replacing, NEW p \in Procs, Locking(p) \/ Recovering(p)
  PROVE  Replacing'
<1>0. ControlOK /\ Replaces(p) /\ proc[p] \in Commandings /\ Fit(proc[p])
  BY DEF TypeInv, ControlOK, Replacing
<1> USE DEF At, Runs
<1>1. \A q \in Procs \ {p} : proc'[q] = proc[q]
  BY OthersStay
<1>2. journal' # NoJournal => journal'.snapshot = None
  BY DEF Replacing, Locking, Start, BeforeGate, EnterGate, CheckInsideGate, EnterWorkflow,
         CheckInsideWorkflow, EnterHostAccess, RequireNoCapture, Recovering, Recover, RecoverImage,
         RecoverFiles, RecoverClear, RecoverOverlay, RemoveStaleOverlay, Recovered, imageFiles
<1>3. Inside(proc[p]) \/ UNCHANGED <<capture, candidate, image>>
  BY DEF Locking, Start, BeforeGate, EnterGate, CheckInsideGate, EnterWorkflow,
         CheckInsideWorkflow, EnterHostAccess, RequireNoCapture, Recovering, Recover, RecoverImage,
         RecoverFiles, RecoverClear, RecoverOverlay, RemoveStaleOverlay, Recovered, imageFiles,
         captureFiles, Inside
<1>4. Replaces(p)'
  <2>1. CASE Leave(p)
    BY <2>1, LeaveReplaces
  <2>2. CASE Start(p)
    <3>1. proc'[p].at \in {"gate", "before-gate"}
      BY <1>0, <2>2 DEF Start, ControlOK, Commandings
    <3>2. QED
      BY <3>1 DEF Replaces, WithJournal, Inside
  <2>3. CASE ~Leave(p) /\ Locking(p) /\ ~Start(p)
    <3>1. PICK step \in {"gate", "after-gate", "workflow", "host-access", "accept", "discard",
                         "after-workflow", "recover"} :
            /\ Goto(p, step)
            /\ step \notin {"gate", "after-gate"} =>
                 ~capture' \/ proc[p].op \in AllowCapture \cup Workflow \cup {"host access"}
      <4>1. CASE BeforeGate(p) \/ CheckInsideGate(p) \/ CheckInsideWorkflow(p)
        <5>1. /\ ~capture /\ capture' = capture
              /\ \/ Goto(p, "gate") \/ Goto(p, AfterGate(proc[p].op)) \/ Goto(p, "recover")
          BY <2>3, <4>1 DEF BeforeGate, CheckInsideGate, CheckInsideWorkflow, RequireNoCapture,
                            captureFiles
        <5>2. AfterGate(proc[p].op) \in {"workflow", "host-access", "accept", "discard", "recover"}
          BY DEF AfterGate
        <5>3. QED
          BY <5>1, <5>2
      <4>2. CASE EnterGate(p)
        BY <2>3, <4>2 DEF EnterGate, AfterGate
      <4>3. CASE EnterWorkflow(p) \/ EnterHostAccess(p)
        BY <1>0, <2>3, <4>3 DEF EnterWorkflow, EnterHostAccess, Fit, FitAt
      <4>4. QED
        BY <2>3, <4>1, <4>2, <4>3 DEF Locking
    <3>2. step \in Steps
      BY DEF Steps
    <3>3. proc'[p].at = step /\ proc'[p].op = proc[p].op
      BY <1>0, <3>1, <3>2, Forms
    <3>4. proc'[p].op = "replace" /\ Inside(proc'[p]) /\ step # "after-gate" => ~capture'
      BY <3>1, <3>3 DEF Inside, AllowCapture, Workflow
    <3>5. QED
      BY <3>3, <3>4 DEF Replaces, WithJournal
  <2>4. CASE Recover(p) /\ journal # NoJournal
    <3>1. /\ proc'[p].at \in {"recover-clear", "recover-image"} /\ proc'[p].op = proc[p].op
          /\ proc'[p].read = journal /\ UNCHANGED capture /\ At(p, "recover")
      BY <1>0, <2>4 DEF Recover, ControlOK, Commandings, captureFiles
    <3>2. QED
      BY <1>0, <2>4, <3>1 DEF Replacing, Replaces, Inside
  <2>5. CASE ~Leave(p) /\ Recovering(p) /\ ~(Recover(p) /\ journal # NoJournal)
    <3>1. PICK step \in {"recover-files", "recover-clear", "recover-overlay", "recovered",
                         "remove-stale-overlay", "build", "start-overlay", "work"} :
            /\ Goto(p, step) /\ proc[p].at \in RecoverSteps
            /\ step \in WithJournal => proc[p].at \in WithJournal
      BY <2>5 DEF Recovering, Recover, RecoverImage, RecoverFiles, RecoverClear, RecoverOverlay,
                  RemoveStaleOverlay, Recovered, WithJournal, RecoverSteps
    <3>2. step \in Steps
      BY DEF Steps
    <3>3. proc'[p].at = step /\ proc'[p].op = proc[p].op /\ proc'[p].read = proc[p].read
      BY <1>0, <3>1, <3>2, Forms
    <3>4. capture' = capture
      <4>1. RecoverFiles(p) => proc[p].read.snapshot = None
        BY <1>0 DEF RecoverFiles, Replaces, WithJournal
      <4>2. QED
        BY <2>5, <4>1 DEF Recovering, Recover, RecoverImage, RecoverFiles, RecoverClear,
                          RecoverOverlay, RemoveStaleOverlay, Recovered, captureFiles
    <3>5. QED
      BY <1>0, <3>1, <3>3, <3>4 DEF Replaces, Inside, RecoverSteps
  <2>6. QED
    BY <2>1, <2>2, <2>3, <2>4, <2>5
<1>5. QED
  BY <1>1, <1>2, <1>3, <1>4, ReplacingKept

\* The replacement itself.
LEMMA PublishingReplaces ==
  ASSUME NoAccept, TypeInv, Replacing, NEW p \in Procs, Publishing(p)
  PROVE  Replacing'
<1>0. ControlOK /\ Replaces(p) /\ proc[p] \in Commandings /\ Fit(proc[p])
  BY DEF TypeInv, ControlOK, Replacing
<1> USE DEF At, Runs
<1>1. /\ proc[p].at \in Transacts \cup {"build"} /\ proc[p].op = "replace"
      /\ Inside(proc[p]) /\ ~capture
  <2>1. proc[p].at \in Transacts \cup {"build"}
    BY DEF Publishing, Build, Begin, Link, BackupReady, PublishImage, ImagePublished, Update,
           Commit, Drop, Clear, Abandon, AbandonClear, Published, Transacts
  <2>2. QED
    BY <1>0, <2>1 DEF Fit, FitAt, Transacts, Inside, NoAccept, Replaces
<1>2. \A q \in Procs \ {p} : proc'[q] = proc[q]
  BY OthersStay
<1>3. ~capture'
  BY <1>1 DEF Publishing, Build, Begin, Link, BackupReady, PublishImage, ImagePublished, Update,
              Commit, Drop, Clear, Abandon, AbandonClear, Published, WriteJournal, captureFiles
<1>4. CASE Leave(p)
  <2>1. journal' \in {journal, NoJournal}
    BY <1>0, <1>4, Forms DEF Publishing, Build, Begin, LeavePublish, Link, BackupReady,
         PublishImage, ImagePublished, Update, Commit, Drop, Clear, Abandon, AbandonClear,
         Published, WriteJournal, Ended, Goto, ControlOK, Commandings
  <2>2. QED
    BY <1>1, <1>2, <1>4, <2>1, LeaveReplaces, ReplacingKept DEF Replacing
<1>5. CASE Build(p)
  <2>1. /\ proc'[p].at = "begin" /\ proc'[p].mine = built + 1 /\ candidate' = built + 1
        /\ UNCHANGED journal
    BY <1>0, <1>5 DEF Build, ControlOK, Commandings
  <2>2. Replaces(p)'
    BY <1>3, <2>1 DEF Replaces, WithJournal
  <2>3. QED
    BY <1>1, <1>2, <2>1, <2>2, ReplacingKept DEF Replacing
<1>6. CASE ~Leave(p) /\ Begin(p)
  <2>1. /\ journal' = [phase |-> "prepared", snapshot |-> None] /\ UNCHANGED candidate
        /\ proc' = [proc EXCEPT ![p].at = "link", ![p].read = journal'] /\ At(p, "begin")
    BY <1>1, <1>6 DEF Begin, LeavePublish
  <2>2. /\ proc'[p].at = "link" /\ proc'[p].read = journal' /\ proc'[p].op = proc[p].op
        /\ proc'[p].mine = proc[p].mine /\ journal'.snapshot = None
    BY <1>0, <2>1 DEF ControlOK, Commandings
  <2>3. Replaces(p)'
    BY <1>0, <1>1, <1>3, <2>1, <2>2 DEF Replaces
  <2>4. QED
    BY <1>1, <1>2, <2>2, <2>3, ReplacingKept
<1>7. CASE BackupReady(p) \/ ImagePublished(p) \/ Commit(p)
  <2>1. PICK step \in {"publish", "update", "drop"}, phase \in Phases :
          /\ Goto(p, step) /\ journal' = [proc[p].read EXCEPT !.phase = phase]
          /\ UNCHANGED <<candidate, image>> /\ proc[p].at \in WithJournal
          /\ step = "publish" => At(p, "backup-ready")
          /\ step = "update" => At(p, "image-published")
          /\ step = "drop" => At(p, "commit")
    BY <1>7 DEF BackupReady, ImagePublished, Commit, WriteJournal, Phases, WithJournal
  <2>2. step \in Steps
    BY DEF Steps
  <2>3. /\ proc'[p].at = step /\ proc'[p].op = proc[p].op /\ proc'[p].read = proc[p].read
        /\ proc'[p].mine = proc[p].mine
    BY <1>0, <2>1, <2>2, Forms
  <2>4. proc[p].read.snapshot = None /\ proc[p].read \in Journals
    BY <1>0, <2>1 DEF Replaces, Fit, FitAt
  <2>5. journal'.snapshot = None
    BY <2>1, <2>4 DEF Journals
  <2>6. Replaces(p)'
    BY <1>0, <1>1, <1>3, <2>1, <2>3, <2>4 DEF Replaces
  <2>7. QED
    BY <1>1, <1>2, <2>5, <2>6, ReplacingKept
<1>8. CASE ~Leave(p) /\ ~Build(p) /\ ~Begin(p) /\ ~BackupReady(p) /\ ~ImagePublished(p)
           /\ ~Commit(p)
  <2>1. /\ journal' \in {journal, NoJournal}
        /\ \E step \in {"backup-ready", "abandon-clear", "image-published", "abandon",
                        "commit", "published", "clear", "clear-capture"} :
             /\ Goto(p, step)
             /\ step \in WithJournal => proc[p].at \in WithJournal
             /\ step = "backup-ready" => At(p, "link") /\ candidate' = candidate
             /\ step = "image-published" => At(p, "publish") /\ image' = candidate
             /\ step = "commit" => At(p, "update") /\ image' = image
             /\ step \in {"clear", "published"} =>
                  proc[p].at \in {"drop", "clear"} /\ image' = image
    <3>1. CASE Link(p) \/ PublishImage(p)
      BY <1>8, <3>1 DEF Link, PublishImage, WithJournal
    <3>2. CASE Update(p) \/ Drop(p) \/ Clear(p)
      BY <1>8, <3>2 DEF Update, Drop, Clear, WithJournal, imageFiles
    <3>3. CASE Abandon(p) \/ AbandonClear(p) \/ Published(p)
      BY <1>8, <3>3 DEF Abandon, AbandonClear, LeavePublish, Published, WithJournal
    <3>4. QED
      BY <1>8, <3>1, <3>2, <3>3 DEF Publishing
  <2>2. PICK step \in {"backup-ready", "abandon-clear", "image-published", "abandon",
                       "commit", "published", "clear", "clear-capture"} :
          /\ Goto(p, step)
          /\ step \in WithJournal => proc[p].at \in WithJournal
          /\ step = "backup-ready" => At(p, "link") /\ candidate' = candidate
          /\ step = "image-published" => At(p, "publish") /\ image' = candidate
          /\ step = "commit" => At(p, "update") /\ image' = image
          /\ step \in {"clear", "published"} =>
               proc[p].at \in {"drop", "clear"} /\ image' = image
    BY <2>1
  <2>3. step \in Steps
    BY DEF Steps
  <2>4. /\ proc'[p].at = step /\ proc'[p].op = proc[p].op /\ proc'[p].read = proc[p].read
        /\ proc'[p].mine = proc[p].mine
    BY <1>0, <2>2, <2>3, Forms
  <2>5. Replaces(p)'
    BY <1>0, <1>1, <1>3, <2>2, <2>4 DEF Replaces
  <2>6. QED
    BY <1>1, <1>2, <2>1, <2>5, ReplacingKept DEF Replacing
<1>9. QED
  BY <1>4, <1>5, <1>6, <1>7, <1>8

\* A capture shares the gate, so no replacement is inside.
LEMMA OtherReplaces ==
  ASSUME NoAccept, TypeInv, Replacing, NEW p \in Procs, Work(p) \/ Capturing(p) \/ Crash(p)
  PROVE  Replacing'
<1>0. ControlOK /\ Replaces(p) /\ proc[p] \in Commandings /\ Fit(proc[p])
  BY DEF TypeInv, ControlOK, Replacing
<1> USE DEF At, Runs
<1>1. \A q \in Procs \ {p} : proc'[q] = proc[q]
  BY OthersStay
<1>2. UNCHANGED journal
  BY DEF Work, Crash, Capturing, StartOverlay, StartMetadata, BootCapture, RecordCommand, EndShell,
         ReadCapture, RewriteCapture, Compact, LeavePublish, ClearCapture, ReportAccepted,
         DiscardOverlay, DiscardMetadata, imageFiles
<1>3. CASE Work(p) \/ Crash(p)
  <2>1. Leave(p) /\ UNCHANGED <<capture, candidate, image>>
    BY <1>3 DEF Work, Crash, imageFiles, captureFiles
  <2>2. QED
    BY <1>1, <1>2, <2>1, LeaveReplaces, ReplacingKept DEF Replacing
<1>4. CASE Capturing(p)
  <2>1. proc[p].at \in {"start-overlay", "start-metadata", "boot", "capturing", "discard",
                        "discard-metadata"} /\ ~Compact(p)
    BY <1>0, <1>4 DEF Capturing, StartOverlay, StartMetadata, BootCapture, RecordCommand, EndShell,
         ReadCapture, RewriteCapture, Compact, ClearCapture, ReportAccepted, DiscardOverlay,
         DiscardMetadata, Fit, FitAt, NoAccept
  <2>2. proc[p].op # "replace" /\ Inside(proc[p])
    BY <1>0, <2>1 DEF Fit, FitAt, Inside
  <2>3. CASE Leave(p)
    BY <1>1, <1>2, <2>2, <2>3, LeaveReplaces, ReplacingKept DEF Replacing
  <2>4. CASE RecordCommand(p)
    <3>1. Replaces(p)'
      BY <1>0, <2>4 DEF RecordCommand, Replaces, imageFiles
    <3>2. QED
      BY <1>1, <1>2, <2>2, <3>1, ReplacingKept DEF Replacing
  <2>5. CASE ~Leave(p) /\ ~RecordCommand(p)
    <3>1. PICK step \in {"start-metadata", "boot", "capturing", "discard-metadata"} :
            Goto(p, step)
      BY <1>4, <2>1, <2>5 DEF Capturing, StartOverlay, StartMetadata, BootCapture, EndShell,
           ReadCapture, RewriteCapture, ClearCapture, ReportAccepted, DiscardOverlay,
           DiscardMetadata
    <3>2. step \in Steps
      BY DEF Steps
    <3>3. proc'[p].at = step /\ proc'[p].op = proc[p].op
      BY <1>0, <3>1, <3>2, Forms
    <3>4. Replaces(p)'
      BY <2>2, <3>3 DEF Replaces, WithJournal
    <3>5. QED
      BY <1>1, <1>2, <2>2, <3>4, ReplacingKept DEF Replacing
  <2>6. QED
    BY <2>3, <2>4, <2>5
<1>5. QED
  BY <1>3, <1>4

\* Every step keeps what replacements rely on.
LEMMA ReplacingAlways ==
  ASSUME NoAccept
  PROVE  Spec => [](TypeInv /\ Replacing)
<1>1. Init => Replacing
  BY DEF Init, Replacing, Replaces, Ended, Runs, WithJournal, Inside
<1>2. TypeInv /\ Replacing /\ [Next]_vars => Replacing'
  <2> SUFFICES ASSUME TypeInv, Replacing, [Next]_vars PROVE Replacing'
    OBVIOUS
  <2>1. CASE UNCHANGED vars
    BY <2>1 DEF vars, imageFiles, captureFiles, Replacing, Replaces, Runs, At, Inside
  <2>2. ASSUME NEW p \in Procs,
               \/ Locking(p) \/ Recovering(p) \/ Work(p) \/ Publishing(p) \/ Capturing(p)
               \/ Crash(p)
        PROVE  Replacing'
    BY <2>2, RecoveringReplaces, PublishingReplaces, OtherReplaces
  <2>3. QED
    BY <2>1, <2>2 DEF Next
<1>3. QED
  BY <1>1, <1>2, TypeInit, TypeStep, PTL DEF Spec

\* ReplacementExcludesCapture always holds when no capture is accepted: the check inside the
\* gate holds to the end of project clean and rebuild, recovery included.
THEOREM ReplacementMeetsNoCapture ==
  ASSUME NoAccept
  PROVE  Spec => []ReplacementExcludesCapture
<1>1. TypeInv /\ Replacing => ReplacementExcludesCapture
  BY DEF Replacing, Replaces, ReplacementExcludesCapture, Publishes, Runs, At, Inside
<1>2. QED
  BY <1>1, ReplacingAlways, PTL

\* SuccessMeansPublished always holds when no capture is accepted: a replacement that reports
\* success has published the image it built, whatever other commands do meanwhile.
THEOREM SuccessIsPublished ==
  ASSUME NoAccept
  PROVE  Spec => []SuccessMeansPublished
<1>1. TypeInv /\ Replacing => SuccessMeansPublished
  BY DEF TypeInv, ControlOK, Fit, FitAt, NoAccept, Replacing, Replaces, SuccessMeansPublished,
         Runs, At
<1>2. QED
  BY <1>1, ReplacingAlways, PTL

\* RecoveryExcludesTransactions always holds when no capture is accepted: no process recovers
\* while another has a transaction open, because that other one is alone inside the gate.
THEOREM RecoveryMeetsNoTransaction ==
  ASSUME NoAccept
  PROVE  Spec => []RecoveryExcludesTransactions
<1>1. TypeInv => RecoveryExcludesTransactions
  <2> SUFFICES ASSUME TypeInv, NEW p \in Procs, NEW q \in Procs, p # q,
                      proc[p].at \in {"recover-image", "recover-files", "recover-clear"},
                      proc[q].at \in {"link", "backup-ready", "publish", "image-published",
                                      "update", "commit", "drop", "clear"}
               PROVE  FALSE
    BY DEF RecoveryExcludesTransactions
  <2>1. Inside(proc[p]) /\ Inside(proc[q])
    BY DEF Inside
  <2>2. proc[q].op = "replace"
    BY DEF TypeInv, ControlOK, Fit, FitAt, Transacts, NoAccept
  <2>3. QED
    BY <2>1, <2>2, Alone DEF TypeInv, Exclusive
<1>2. Spec => []TypeInv
  BY TypeInit, TypeStep, PTL DEF Spec
<1>3. QED
  BY <1>1, <1>2, PTL

-----------------------------------------------------------------------------
(* Setups.  Without host-access grants, which recover under the shared gate *)
(* and no workflow lock, and with one accept or discard at a time, a        *)
(* recovery that brings a capture back is that of the command itself.       *)

OneEndNoHostAccess == "host access" \notin Operations /\ Ends \subseteq Serial

\* A transaction that keeps metadata keeps an active capture with its commands.
Full(snapshot) == snapshot = None \/ (snapshot.capture /\ snapshot.commands)

\* What a command knows of the capture from its last look at it.
Knows(p) ==
  /\ proc[p].at \in WithJournal => Full(proc[p].read.snapshot)
  /\ Runs(p, {"capture accept"}) /\ proc[p].at \in {"rewrite", "compact", "begin"} =>
       capture /\ commands
  /\ proc[p].at \in {"start-overlay", "start-metadata", "work"} => ~capture
  /\ proc[p].at \in {"start-metadata", "boot"} => ~commands

Knowing ==
  /\ \A p, q \in Procs : Runs(p, Ends) /\ Runs(q, Ends) => p = q
  /\ journal # NoJournal => Full(journal.snapshot)
  /\ \A p \in Procs : Knows(p)

\* A command ends, or goes on.
Continues(p) == proc'[p] = Ended \/ (proc'[p].op = proc[p].op /\ ~At(p, "idle"))

\* A step that leaves what the other commands know.
LEMMA KnowingKept ==
  ASSUME TypeInv, Knowing, NEW p \in Procs, \A q \in Procs \ {p} : proc'[q] = proc[q],
         Continues(p), journal' # NoJournal => Full(journal'.snapshot), Knows(p)',
         \A q \in Procs \ {p} : Knows(q)'
  PROVE  Knowing'
<1>1. None \notin Ends
  BY GateAssumption DEF GateAssumption, Commands, Ends
<1>2. ASSUME NEW q \in Procs, Runs(q, Ends)' PROVE Runs(q, Ends)
  BY <1>1, <1>2 DEF Continues, Runs, Ended
<1>3. \A q, s \in Procs : Runs(q, Ends)' /\ Runs(s, Ends)' => q = s
  BY <1>2 DEF Knowing
<1>4. QED
  BY <1>3 DEF Knowing, Runs

\* It does so when it leaves the record and the commands of the capture.
LEMMA OthersKnow ==
  ASSUME Knowing, NEW p \in Procs, \A q \in Procs \ {p} : proc'[q] = proc[q],
         UNCHANGED <<capture, commands>>
  PROVE  \A q \in Procs \ {p} : Knows(q)'
BY DEF Knowing, Knows, Runs, At

\* A command that has ended knows nothing.
LEMMA EndedKnows == ASSUME NEW p \in Procs, proc'[p] = Ended PROVE Knows(p)'
BY DEF Knows, Ended, WithJournal

\* Who holds the workflow lock is alone to start a capture or to work on the project.
LEMMA SoleSetup ==
  ASSUME OneEndNoHostAccess, TypeInv, NEW p \in Procs, InWorkflow(proc[p]),
         NEW q \in Procs \ {p}
  PROVE  proc[q].at \notin {"start-overlay", "start-metadata", "boot", "work", "capturing"}
<1>1. ~InWorkflow(proc[q])
  BY OneWorkflow DEF TypeInv
<1>2. ~(Inside(proc[q]) /\ proc[q].op \in Exclusive)
  <2>1. Inside(proc[p])
    BY DEF InWorkflow
  <2>2. QED
    BY <2>1, Alone DEF TypeInv
<1>3. Fit(proc[q])
  BY DEF TypeInv, ControlOK
<1>4. QED
  BY <1>1, <1>2, <1>3
  DEF Fit, FitAt, OneEndNoHostAccess, InWorkflow, Inside, Workflow, Exclusive

\* A command ends, or ...
LEMMA LeaveKnowing ==
  ASSUME TypeInv, Knowing, NEW p \in Procs, Leave(p), UNCHANGED <<capture, commands>>,
         journal' \in {journal, NoJournal}
  PROVE  Knowing'
<1>1. proc'[p] = Ended /\ \A q \in Procs \ {p} : proc'[q] = proc[q]
  BY Forms DEF TypeInv
<1>2. QED
  BY <1>1, EndedKnows, OthersKnow, KnowingKept DEF Continues, Knowing

\* ... goes on, with the capture as it is and after the look that the step needs.
LEMMA GotoKnowing ==
  ASSUME TypeInv, Knowing, NEW p \in Procs, NEW step \in Steps, Goto(p, step), ~At(p, "idle"),
         UNCHANGED <<capture, commands>>, journal' \in {journal, NoJournal},
         step \in WithJournal => proc[p].at \in WithJournal,
         step \in {"rewrite", "compact", "begin"} =>
           (capture /\ commands) \/ proc[p].at \in {"rewrite", "compact"},
         step \in {"start-overlay", "work"} => ~capture,
         step = "start-metadata" => FALSE, step = "boot" => FALSE,
         proc[p].at \in {"rewrite", "compact"} => Runs(p, {"capture accept"})
  PROVE  Knowing'
<1>1. /\ proc'[p].at = step /\ proc'[p].op = proc[p].op /\ proc'[p].read = proc[p].read
      /\ \A q \in Procs \ {p} : proc'[q] = proc[q]
  BY Forms DEF TypeInv
<1>2. Knows(p)'
  BY <1>1 DEF Knowing, Knows, Runs, At
<1>3. QED
  BY <1>1, <1>2, OthersKnow, KnowingKept DEF Continues, Knowing

\* The locks: a command that ends captures begins when no other does.
LEMMA LockingKnowing ==
  ASSUME OneEndNoHostAccess, TypeInv, Knowing, NEW p \in Procs, Locking(p)
  PROVE  Knowing'
<1> USE DEF At, Runs
<1>0. ControlOK /\ proc[p] \in Commandings /\ Fit(proc[p])
  BY DEF TypeInv, ControlOK
<1>1. UNCHANGED <<capture, commands, journal>>
  BY DEF Locking, Start, BeforeGate, EnterGate, CheckInsideGate, EnterWorkflow,
         CheckInsideWorkflow, EnterHostAccess, RequireNoCapture, captureFiles, imageFiles
<1>2. CASE Leave(p)
  BY <1>1, <1>2, LeaveKnowing
<1>3. CASE Start(p)
  <2>1. PICK command \in Operations, step \in {"gate", "before-gate"} :
          /\ command \in Serial => \A q \in Procs : ~Runs(q, Serial)
          /\ proc' = [proc EXCEPT ![p].op = command, ![p].at = step]
    BY <1>3 DEF Start
  <2>2. /\ proc'[p].op = command /\ proc'[p].at = step
        /\ \A q \in Procs \ {p} : proc'[q] = proc[q]
    BY <1>0, <2>1 DEF ControlOK, Commandings
  <2>3. \A q, s \in Procs : Runs(q, Ends)' /\ Runs(s, Ends)' => q = s
    BY <2>1, <2>2 DEF Knowing, OneEndNoHostAccess
  <2>4. Knows(p)'
    BY <2>2 DEF Knows, WithJournal
  <2>5. \A q \in Procs \ {p} : Knows(q)'
    BY <1>1, <2>2, OthersKnow
  <2>6. QED
    BY <1>1, <2>3, <2>4, <2>5 DEF Knowing
<1>4. CASE ~Leave(p) /\ ~Start(p)
  <2>1. PICK step \in {"gate", "after-gate", "workflow", "host-access", "accept", "discard",
                       "after-workflow", "recover"} : Goto(p, step) /\ ~At(p, "idle")
                         /\ proc[p].at \notin {"rewrite", "compact"}
    <3>1. CASE BeforeGate(p) \/ CheckInsideGate(p) \/ CheckInsideWorkflow(p)
      <4>1. AfterGate(proc[p].op) \in {"workflow", "host-access", "accept", "discard", "recover"}
        BY DEF AfterGate
      <4>2. QED
        BY <1>4, <3>1, <4>1
        DEF BeforeGate, CheckInsideGate, CheckInsideWorkflow, RequireNoCapture
    <3>2. CASE EnterGate(p)
      BY <1>4, <3>2 DEF EnterGate, AfterGate
    <3>3. CASE EnterWorkflow(p) \/ EnterHostAccess(p)
      BY <1>4, <3>3 DEF EnterWorkflow, EnterHostAccess
    <3>4. QED
      BY <1>4, <3>1, <3>2, <3>3 DEF Locking
  <2>2. step \in Steps /\ step \notin WithJournal
    BY DEF Steps, WithJournal
  <2>3. QED
    BY <1>1, <2>1, <2>2, GotoKnowing
<1>5. QED
  BY <1>2, <1>3, <1>4

\* Recovery brings a capture back only when no other setup command is inside, and each
\* command but a replacement looks again.
LEMMA RecoveringKnowing ==
  ASSUME OneEndNoHostAccess, TypeInv, Knowing, NEW p \in Procs, Recovering(p)
  PROVE  Knowing'
<1> USE DEF At, Runs
<1>0. ControlOK /\ proc[p] \in Commandings /\ Fit(proc[p]) /\ Knows(p)
  BY DEF TypeInv, ControlOK, Knowing
<1>1. proc[p].at \in RecoverSteps /\ journal' \in {journal, NoJournal}
  BY DEF Recovering, Recover, RecoverImage, RecoverFiles, RecoverClear, RecoverOverlay,
         RemoveStaleOverlay, Recovered, RecoverSteps, imageFiles
<1>2. \A q \in Procs \ {p} : proc'[q] = proc[q]
  BY OthersStay
<1>3. CASE Leave(p)
  <2>1. UNCHANGED <<capture, commands>>
    <3>1. ~RecoverFiles(p)
      <4>1. "recover-clear" \in Steps
        BY DEF Steps
      <4>2. RecoverFiles(p) => proc'[p].at = "recover-clear"
        BY <1>0, <4>1, Forms DEF RecoverFiles
      <4>3. proc'[p].at = "idle"
        BY <1>0, <1>3, Forms DEF Ended
      <4>4. QED
        BY <4>2, <4>3
    <3>2. QED
      BY <3>1 DEF Recovering, Recover, RecoverImage, RecoverClear, RecoverOverlay,
                  RemoveStaleOverlay, Recovered, captureFiles
  <2>2. QED
    BY <1>1, <1>3, <2>1, LeaveKnowing
<1>4. CASE Recover(p) /\ journal # NoJournal
  <2>1. /\ proc'[p].at \in {"recover-clear", "recover-image"} /\ proc'[p].op = proc[p].op
        /\ proc'[p].read = journal /\ UNCHANGED <<capture, commands>> /\ ~At(p, "idle")
    BY <1>0, <1>4 DEF Recover, ControlOK, Commandings, captureFiles
  <2>2. Full(journal.snapshot)
    BY <1>4 DEF Knowing
  <2>3. Knows(p)'
    BY <2>1, <2>2 DEF Knows, Full
  <2>4. QED
    BY <1>1, <1>2, <2>1, <2>3, OthersKnow, KnowingKept DEF Continues, Knowing
<1>5. CASE ~Leave(p) /\ RecoverFiles(p)
  <2>1. /\ proc'[p].at = "recover-clear" /\ proc'[p].op = proc[p].op
        /\ proc'[p].read = proc[p].read /\ ~At(p, "idle") /\ At(p, "recover-files")
    BY <1>0, <1>5, Forms DEF RecoverFiles, Steps
  <2>2. Full(proc[p].read.snapshot)
    BY <1>0, <2>1 DEF Knows, WithJournal
  <2>3. Knows(p)'
    BY <2>1, <2>2 DEF Knows
  <2>4. CASE proc[p].read.snapshot = None
    <3>1. UNCHANGED <<capture, commands>>
      BY <1>5, <2>4 DEF RecoverFiles
    <3>2. QED
      BY <1>1, <1>2, <2>1, <2>3, <3>1, OthersKnow, KnowingKept DEF Continues, Knowing
  <2>5. CASE proc[p].read.snapshot # None
    <3>1. capture' = TRUE /\ commands' = TRUE
      <4>1. proc[p].read \in Journals
        BY <1>0, <2>1 DEF Fit, FitAt, WithJournal
      <4>2. proc[p].read.snapshot.capture = TRUE /\ proc[p].read.snapshot.commands = TRUE
        BY <2>2, <2>5, <4>1 DEF Full, Journals, Snapshots
      <4>3. QED
        BY <1>5, <2>5, <4>2 DEF RecoverFiles
    <3>2. \A q \in Procs \ {p} :
            proc[q].at \notin {"start-overlay", "start-metadata", "boot", "work"}
      <4>1. /\ Inside(proc[p]) /\ proc[p].op \notin Ends \cup {"host access"}
            /\ proc[p].op \in Commands
        BY <1>0, <2>1, GateAssumption DEF Fit, FitAt, Inside, RecoverSteps, OneEndNoHostAccess,
                                          GateAssumption
      <4>2. CASE proc[p].op \in Exclusive
        BY <4>1, <4>2, Alone DEF TypeInv, Inside
      <4>3. CASE proc[p].op \notin Exclusive
        <5>1. InWorkflow(proc[p])
          BY <2>1, <4>1, <4>3 DEF InWorkflow, Inside, Workflow, Exclusive, Ends, Commands
        <5>2. QED
          BY <5>1, SoleSetup
      <4>4. QED
        BY <4>2, <4>3
    <3>3. \A q \in Procs \ {p} : Knows(q)'
      BY <1>2, <3>1, <3>2 DEF Knowing, Knows
    <3>4. QED
      BY <1>1, <1>2, <2>1, <2>3, <3>3, KnowingKept DEF Continues, Knowing
  <2>6. QED
    BY <2>4, <2>5
<1>6. CASE ~Leave(p) /\ ~(Recover(p) /\ journal # NoJournal) /\ ~RecoverFiles(p)
  <2>1. PICK step \in {"recover-files", "recover-overlay", "recovered",
                       "remove-stale-overlay", "build", "start-overlay", "work"} :
          /\ Goto(p, step)
          /\ step = "recover-files" => At(p, "recover-image")
          /\ step \in {"start-overlay", "work"} => ~capture
    <3>1. CASE Recovered(p)
      <4>1. proc[p].op # "host access" /\ proc[p].op \notin Ends /\ proc[p].op \in Commands
        BY <1>0, <3>1, GateAssumption
        DEF Recovered, Fit, FitAt, RecoverSteps, OneEndNoHostAccess, GateAssumption
      <4>2. QED
        BY <1>6, <3>1, <4>1 DEF Recovered, Commands, Ends
    <3>2. CASE ~Recovered(p)
      BY <1>6, <3>2 DEF Recovering, Recover, RecoverImage, RecoverClear, RecoverOverlay,
                        RemoveStaleOverlay
    <3>3. QED
      BY <3>1, <3>2
  <2>2. step \in Steps
    BY DEF Steps
  <2>3. UNCHANGED <<capture, commands>>
    BY <1>6 DEF Recovering, Recover, RecoverImage, RecoverClear, RecoverOverlay,
                RemoveStaleOverlay, Recovered, captureFiles
  <2>4. /\ step \in WithJournal => proc[p].at \in WithJournal
        /\ proc[p].at \notin {"idle", "rewrite", "compact"}
    BY <1>1, <2>1 DEF WithJournal, RecoverSteps
  <2>5. QED
    BY <1>1, <2>1, <2>2, <2>3, <2>4, GotoKnowing
<1>7. QED
  BY <1>3, <1>4, <1>5, <1>6

\* A transaction takes the capture it has read with it; only that of an accept ends it, and no
\* other accept is there.
LEMMA PublishingKnowing ==
  ASSUME OneEndNoHostAccess, TypeInv, Knowing, NEW p \in Procs, Publishing(p)
  PROVE  Knowing'
<1> USE DEF At, Runs
<1>0. ControlOK /\ proc[p] \in Commandings /\ Fit(proc[p]) /\ Knows(p)
  BY DEF TypeInv, ControlOK, Knowing
<1>1. /\ proc[p].at \in Transacts \cup {"build"}
      /\ proc[p].op \in {"replace", "capture accept"}
  <2>1. proc[p].at \in Transacts \cup {"build"}
    BY DEF Publishing, Build, Begin, Link, BackupReady, PublishImage, ImagePublished, Update,
           Commit, Drop, Clear, Abandon, AbandonClear, Published, Transacts
  <2>2. QED
    BY <1>0, <2>1 DEF Fit, FitAt, Transacts
<1>2. \A q \in Procs \ {p} : proc'[q] = proc[q]
  BY OthersStay
<1>3. CASE Update(p)
  <2>1. Goto(p, "commit") /\ At(p, "update") /\ UNCHANGED journal
    BY <1>3 DEF Update, imageFiles
  <2>2. /\ proc'[p].at = "commit" /\ proc'[p].op = proc[p].op /\ proc'[p].read = proc[p].read
    BY <1>0, <2>1, Forms DEF Steps
  <2>3. Knows(p)'
    BY <1>0, <2>1, <2>2 DEF Knows, WithJournal
  <2>4. ASSUME NEW q \in Procs \ {p} PROVE Knows(q)'
    <3>1. CASE proc[p].op = "replace"
      <4>1. UNCHANGED <<capture, commands>>
        BY <1>3, <3>1 DEF Update, TypeInv, WorldOK
      <4>2. QED
        BY <1>2, <4>1, OthersKnow
    <3>2. CASE proc[p].op = "capture accept"
      <4>1. capture' = FALSE /\ commands' = FALSE
        BY <1>3, <3>2 DEF Update
      <4>2. proc[q].op # "capture accept"
        BY <3>2 DEF Knowing, Ends
      <4>3. QED
        BY <1>2, <4>1, <4>2 DEF Knowing, Knows
    <3>3. QED
      BY <1>1, <3>1, <3>2
  <2>5. QED
    BY <1>2, <2>1, <2>2, <2>3, <2>4, KnowingKept DEF Continues, Knowing
<1>4. CASE Build(p)
  <2>1. /\ proc'[p].at = "begin" /\ proc'[p].op = proc[p].op /\ At(p, "build")
        /\ UNCHANGED <<capture, commands, journal>>
    BY <1>0, <1>4 DEF Build, ControlOK, Commandings, captureFiles
  <2>2. proc[p].op = "replace"
    BY <1>0, <2>1 DEF Fit, FitAt
  <2>3. Knows(p)'
    BY <2>1, <2>2 DEF Knows, WithJournal
  <2>4. QED
    BY <1>2, <2>1, <2>3, OthersKnow, KnowingKept DEF Continues, Knowing
<1>5. CASE ~Leave(p) /\ Begin(p)
  <2>1. /\ journal' = [phase |-> "prepared",
                       snapshot |-> IF Runs(p, {"replace"}) THEN None
                                    ELSE [capture |-> capture, commands |-> commands]]
        /\ proc' = [proc EXCEPT ![p].at = "link", ![p].read = journal']
        /\ UNCHANGED <<capture, commands>> /\ At(p, "begin")
    BY <1>5 DEF Begin, LeavePublish, captureFiles
  <2>2. proc'[p].at = "link" /\ proc'[p].op = proc[p].op /\ proc'[p].read = journal'
    BY <1>0, <2>1 DEF ControlOK, Commandings
  <2>3. proc[p].op = "capture accept" => capture /\ commands
    BY <1>0, <2>1 DEF Knows
  <2>4. Full(journal'.snapshot)
    BY <1>1, <2>1, <2>3 DEF Full
  <2>5. Knows(p)'
    BY <2>2, <2>4 DEF Knows, Full
  <2>6. QED
    BY <1>2, <2>1, <2>2, <2>4, <2>5, OthersKnow, KnowingKept DEF Continues
<1>6. CASE BackupReady(p) \/ ImagePublished(p) \/ Commit(p)
  <2>1. PICK step \in {"publish", "update", "drop"}, phase \in Phases :
          /\ Goto(p, step) /\ journal' = [proc[p].read EXCEPT !.phase = phase]
          /\ UNCHANGED <<capture, commands>> /\ proc[p].at \in WithJournal
    BY <1>6 DEF BackupReady, ImagePublished, Commit, WriteJournal, Phases, WithJournal, captureFiles
  <2>2. step \in Steps
    BY DEF Steps
  <2>3. proc'[p].at = step /\ proc'[p].op = proc[p].op /\ proc'[p].read = proc[p].read
    BY <1>0, <2>1, <2>2, Forms
  <2>4. Full(proc[p].read.snapshot) /\ proc[p].read \in Journals
    BY <1>0, <2>1 DEF Knows, Fit, FitAt
  <2>5. Full(journal'.snapshot)
    <3>1. journal'.snapshot = proc[p].read.snapshot
      BY <2>1, <2>4 DEF Journals
    <3>2. QED
      BY <2>4, <3>1
  <2>6. Knows(p)'
    BY <2>3, <2>4 DEF Knows, Full
  <2>7. ~At(p, "idle")
    BY <1>1 DEF Transacts
  <2>8. QED
    BY <1>2, <2>1, <2>3, <2>5, <2>6, <2>7, OthersKnow, KnowingKept DEF Continues
<1>7. CASE Link(p) \/ PublishImage(p) \/ Drop(p) \/ Clear(p) \/ Abandon(p) \/ AbandonClear(p)
           \/ Published(p) \/ (Leave(p) /\ Begin(p))
  <2>1. UNCHANGED <<capture, commands>> /\ journal' \in {journal, NoJournal}
    <3>1. CASE Leave(p) /\ Begin(p)
      <4>1. UNCHANGED journal
        <5>1. "link" \in Steps /\ proc'[p].at = "idle"
          BY <1>0, <3>1, Forms DEF Steps, Ended
        <5>2. proc' # [proc EXCEPT ![p].at = "link", ![p].read = journal']
          BY <1>0, <5>1 DEF ControlOK, Commandings
        <5>3. QED
          BY <3>1, <5>2 DEF Begin
      <4>2. QED
        BY <3>1, <4>1 DEF Begin, captureFiles
    <3>2. QED
      BY <1>7, <3>1 DEF Link, PublishImage, Drop, Clear, Abandon, AbandonClear, Published,
                        captureFiles
  <2>2. CASE Leave(p)
    BY <2>1, <2>2, LeaveKnowing
  <2>3. CASE ~Leave(p)
    <3>1. PICK step \in {"backup-ready", "abandon-clear", "image-published", "abandon",
                         "published", "clear", "clear-capture"} :
            /\ Goto(p, step)
            /\ step \in WithJournal => proc[p].at \in WithJournal
      BY <1>7, <2>3 DEF Link, PublishImage, Drop, Clear, Abandon, AbandonClear, LeavePublish,
                        Published, WithJournal
    <3>2. step \in Steps /\ proc[p].at \notin {"idle", "rewrite", "compact"}
      BY <1>1 DEF Steps, Transacts
    <3>3. QED
      BY <2>1, <3>1, <3>2, GotoKnowing
  <2>4. QED
    BY <2>2, <2>3
<1>8. QED
  BY <1>3, <1>4, <1>5, <1>6, <1>7 DEF Publishing

\* The start of a capture, ...
LEMMA StartingKnowing ==
  ASSUME OneEndNoHostAccess, TypeInv, Knowing, NEW p \in Procs,
         StartOverlay(p) \/ StartMetadata(p) \/ BootCapture(p) \/ RecordCommand(p)
  PROVE  Knowing'
<1> USE DEF At, Runs
<1>0. ControlOK /\ proc[p] \in Commandings /\ Fit(proc[p]) /\ Knows(p)
  BY DEF TypeInv, ControlOK, Knowing
<1>1. InWorkflow(proc[p]) /\ proc[p].op = "capture start" /\ ~At(p, "idle")
  BY <1>0 DEF StartOverlay, StartMetadata, BootCapture, RecordCommand, Fit, FitAt, InWorkflow,
              Inside, Workflow
<1>2. \A q \in Procs \ {p} :
        /\ proc'[q] = proc[q]
        /\ proc[q].at \notin {"start-overlay", "start-metadata", "boot", "work"}
  BY <1>1, SoleSetup, OthersStay DEF Capturing
<1>3. UNCHANGED journal
  BY DEF StartOverlay, StartMetadata, BootCapture, RecordCommand, imageFiles
<1>4. CASE StartOverlay(p)
  <2>1. /\ proc'[p].at = "start-metadata" /\ proc'[p].op = proc[p].op /\ ~capture
        /\ UNCHANGED capture /\ commands' = FALSE
    BY <1>0, <1>4, Forms DEF StartOverlay, Steps, Knows
  <2>2. Knows(p)'
    BY <2>1 DEF Knows, WithJournal
  <2>3. \A q \in Procs \ {p} : Knows(q)'
    BY <1>2, <2>1 DEF Knowing, Knows
  <2>4. QED
    BY <1>1, <1>2, <1>3, <2>1, <2>2, <2>3, KnowingKept DEF Continues, Knowing
<1>5. CASE StartMetadata(p)
  <2>1. /\ proc'[p].at = "boot" /\ proc'[p].op = proc[p].op /\ ~commands
        /\ capture' = TRUE /\ UNCHANGED commands
    BY <1>0, <1>5, Forms DEF StartMetadata, Steps, Knows
  <2>2. Knows(p)'
    BY <2>1 DEF Knows, WithJournal
  <2>3. \A q \in Procs \ {p} : Knows(q)'
    BY <1>2, <2>1 DEF Knowing, Knows
  <2>4. QED
    BY <1>1, <1>2, <1>3, <2>1, <2>2, <2>3, KnowingKept DEF Continues, Knowing
<1>6. CASE BootCapture(p)
  <2>1. /\ ~commands /\ UNCHANGED commands /\ (capture' = capture \/ capture' = FALSE)
        /\ \/ proc'[p] = Ended
           \/ proc'[p].at = "capturing" /\ proc'[p].op = proc[p].op
    BY <1>0, <1>6, Forms DEF BootCapture, Steps, Knows, captureFiles
  <2>2. Knows(p)'
    BY <2>1, EndedKnows DEF Knows, WithJournal
  <2>3. \A q \in Procs \ {p} : Knows(q)'
    BY <1>2, <2>1 DEF Knowing, Knows
  <2>4. QED
    BY <1>1, <1>2, <1>3, <2>1, <2>2, <2>3, KnowingKept DEF Continues, Knowing
<1>7. CASE RecordCommand(p)
  <2>1. UNCHANGED <<proc, capture>> /\ commands' = TRUE /\ At(p, "capturing")
    BY <1>7 DEF RecordCommand
  <2>2. Knows(p)'
    BY <2>1 DEF Knows, WithJournal
  <2>3. \A q \in Procs \ {p} : Knows(q)'
    BY <1>2, <2>1 DEF Knowing, Knows
  <2>4. QED
    BY <1>1, <1>2, <1>3, <2>1, <2>2, <2>3, KnowingKept DEF Continues, Knowing
<1>8. QED
  BY <1>4, <1>5, <1>6, <1>7

\* ... and its end.
LEMMA EndingKnowing ==
  ASSUME OneEndNoHostAccess, TypeInv, Knowing, NEW p \in Procs, Capturing(p),
         ~(StartOverlay(p) \/ StartMetadata(p) \/ BootCapture(p) \/ RecordCommand(p))
  PROVE  Knowing'
<1> USE DEF At, Runs
<1>0. ControlOK /\ proc[p] \in Commandings /\ Fit(proc[p]) /\ Knows(p)
  BY DEF TypeInv, ControlOK, Knowing
<1>1. \A q \in Procs \ {p} : proc'[q] = proc[q]
  BY OthersStay
<1>2. UNCHANGED journal
  BY DEF Capturing, EndShell, ReadCapture, RewriteCapture, Compact, ClearCapture, ReportAccepted,
         DiscardOverlay, DiscardMetadata, imageFiles
<1>3. CASE Leave(p) /\ ~DiscardMetadata(p)
  <2>1. UNCHANGED <<capture, commands>>
    <3>1. ~RewriteCapture(p) /\ ~ClearCapture(p)
      <4>1. Goto(p, "compact") => proc'[p].at = "compact"
        BY <1>0, Forms DEF Steps
      <4>2. Goto(p, "accepted") => proc'[p].at = "accepted"
        BY <1>0, Forms DEF Steps
      <4>3. proc'[p].at = "idle"
        BY <1>0, <1>3, Forms DEF Ended
      <4>4. QED
        BY <4>1, <4>2, <4>3 DEF RewriteCapture, ClearCapture
    <3>2. QED
      BY <1>3, <3>1 DEF Capturing, EndShell, ReadCapture, Compact, ReportAccepted, DiscardOverlay,
                        captureFiles
  <2>2. QED
    BY <1>2, <1>3, <2>1, LeaveKnowing
<1>4. CASE ~Leave(p) /\ (ReadCapture(p) \/ RewriteCapture(p) \/ DiscardOverlay(p))
  <2>1. PICK step \in {"rewrite", "compact", "discard-metadata"} :
          /\ Goto(p, step) /\ ~At(p, "idle")
          /\ step = "rewrite" => capture /\ commands
          /\ step = "compact" => At(p, "rewrite")
    BY <1>4 DEF ReadCapture, RewriteCapture, DiscardOverlay
  <2>2. step \in Steps /\ step \notin WithJournal
    BY DEF Steps, WithJournal
  <2>3. proc[p].at \in {"rewrite", "compact"} => Runs(p, {"capture accept"})
    BY <1>0 DEF Fit, FitAt
  <2>4. UNCHANGED <<capture, commands>>
    <3>1. RewriteCapture(p) => capture
      BY <1>0, <2>3 DEF RewriteCapture, Knows
    <3>2. capture \in BOOLEAN
      BY DEF TypeInv, WorldOK
    <3>3. QED
      BY <1>4, <3>1, <3>2 DEF ReadCapture, RewriteCapture, DiscardOverlay, captureFiles
  <2>5. QED
    BY <1>2, <2>1, <2>2, <2>3, <2>4, GotoKnowing
<1>5. CASE ~Leave(p) /\ Compact(p)
  <2>1. /\ proc'[p].at = "begin" /\ proc'[p].op = proc[p].op /\ At(p, "compact")
        /\ UNCHANGED <<capture, commands>>
    BY <1>0, <1>5 DEF Compact, LeavePublish, ControlOK, Commandings, captureFiles
  <2>2. capture /\ commands
    BY <1>0, <2>1 DEF Knows, Fit, FitAt
  <2>3. Knows(p)'
    BY <2>1, <2>2 DEF Knows, WithJournal
  <2>4. QED
    BY <1>1, <1>2, <2>1, <2>3, OthersKnow, KnowingKept DEF Continues, Knowing
<1>6. CASE ClearCapture(p) \/ DiscardMetadata(p)
  <2>1. capture' = FALSE /\ commands' = FALSE /\ proc[p].op \in Ends /\ ~At(p, "idle")
    BY <1>0, <1>6 DEF ClearCapture, DiscardMetadata, Fit, FitAt, Ends
  <2>2. proc'[p] = Ended \/ (proc'[p].at = "accepted" /\ proc'[p].op = proc[p].op)
    BY <1>0, <1>6, Forms DEF ClearCapture, DiscardMetadata, Steps
  <2>3. Knows(p)'
    BY <2>2, EndedKnows DEF Knows, WithJournal
  <2>4. \A q \in Procs \ {p} : proc[q].op # "capture accept"
    BY <2>1 DEF Knowing, Ends
  <2>5. \A q \in Procs \ {p} : Knows(q)'
    BY <1>1, <2>1, <2>4 DEF Knowing, Knows
  <2>6. QED
    BY <1>1, <1>2, <2>1, <2>2, <2>3, <2>5, KnowingKept DEF Continues, Knowing
<1>7. QED
  BY <1>3, <1>4, <1>5, <1>6 DEF Capturing, EndShell, ReportAccepted

\* Every step keeps what the commands know.
LEMMA KnowingAlways ==
  ASSUME OneEndNoHostAccess
  PROVE  Spec => [](TypeInv /\ Knowing)
<1>1. Init => Knowing
  <2>1. Init => journal = NoJournal /\ \A p \in Procs : proc[p].op = None /\ proc[p].at = "idle"
    BY DEF Init, Ended
  <2>2. None \notin Ends
    BY GateAssumption DEF GateAssumption, Commands, Ends
  <2>3. QED
    BY <2>1, <2>2 DEF Knowing, Knows, Runs, At, WithJournal
<1>2. TypeInv /\ Knowing /\ [Next]_vars => Knowing'
  <2> SUFFICES ASSUME TypeInv, Knowing, [Next]_vars PROVE Knowing'
    OBVIOUS
  <2>1. CASE UNCHANGED vars
    BY <2>1 DEF vars, imageFiles, captureFiles, Knowing, Knows, Runs, At
  <2>2. ASSUME NEW p \in Procs, Work(p) \/ Crash(p) PROVE Knowing'
    BY <2>2, LeaveKnowing DEF Work, Crash, imageFiles, captureFiles
  <2>3. ASSUME NEW p \in Procs,
               Locking(p) \/ Recovering(p) \/ Publishing(p) \/ Capturing(p)
        PROVE  Knowing'
    BY <2>3, LockingKnowing, RecoveringKnowing, PublishingKnowing, StartingKnowing, EndingKnowing
  <2>4. QED
    BY <2>1, <2>2, <2>3 DEF Next
<1>3. QED
  BY <1>1, <1>2, TypeInit, TypeStep, PTL DEF Spec

\* WorkExcludesCapture always holds without host-access grants and with one accept or discard
\* at a time: a capture that recovery brings back is seen by the look that follows, and none
\* starts or comes back while project vm start or setup run is at work.
THEOREM WorkMeetsNoCapture ==
  ASSUME OneEndNoHostAccess
  PROVE  Spec => []WorkExcludesCapture
<1>1. TypeInv /\ Knowing => WorkExcludesCapture
  BY DEF Knowing, Knows, WorkExcludesCapture, At
<1>2. QED
  BY <1>1, KnowingAlways, PTL
=============================================================================
