-------------------------- MODULE HostAccessProofs ---------------------------
(***************************************************************************)
(* Proofs about HostAccess for every set of commands, projects, paths,     *)
(* devices and ports, and every bound.                                     *)
(***************************************************************************)
EXTENDS HostAccess, TLAPS

-----------------------------------------------------------------------------
(* Type correctness.  What a command has read is fit for the step it is at: *)
(* part of what makes TypeOK inductive.                                    *)

Commandings ==
  [op : Commands \cup {None}, project : Projects \cup {None},
   resource : Paths \cup Ports \cup {None}, at : Steps,
   running : BOOLEAN, listed : SUBSET Places, grants : Dirs]

Fit(r) ==
  r.at # "idle" =>
    /\ r.project \in Projects
    /\ r.op \in DeviceChange => r.resource \in Paths
    /\ r.op \in PortChange => r.resource \in Ports
    /\ r.at \in {"allow", "remove", "scan", "save"} => r.op \in DeviceChange
    /\ r.at \in {"save-port", "apply", "unsave-port"} => r.op \in PortChange

\* The commands and their locks.
ControlOK ==
  /\ proc \in [Procs -> Commandings] /\ \A p \in Procs : Fit(proc[p])
  /\ gate \in [Procs -> {"none", "shared", "exclusive"}]
  /\ hostLock \in [Projects -> Procs \cup {Nobody}] /\ owners \in Procs \cup {Nobody}

VMs == [alive : BOOLEAN, boot : SUBSET Claims, open : SUBSET Claims, forwards : SUBSET Ports]
Records == [known : BOOLEAN, devices : SUBSET Claims, active : SUBSET Claims]

\* The stores, the VMs and the host.
WorldOK ==
  /\ store \in [Projects -> Dirs] /\ backup \in [Projects -> Dirs]
  /\ vm \in [Projects -> VMs] /\ record \in [Projects -> Records]
  /\ node \in [Paths -> Serials \cup {None}]
  /\ granted \in [Projects -> SUBSET Claims] /\ exists \in [Projects -> BOOLEAN]
  /\ faults \in 0..MaxFaults /\ replugs \in 0..MaxReplugs

TypeInv == ControlOK /\ WorldOK

\* A command that goes on with another step, and the locks it then holds.
LEMMA ControlStep ==
  ASSUME ControlOK, NEW p \in Procs, NEW r \in Commandings, Fit(r),
         proc' = [proc EXCEPT ![p] = r],
         gate' \in [Procs -> {"none", "shared", "exclusive"}],
         hostLock' \in [Projects -> Procs \cup {Nobody}],
         owners' \in Procs \cup {Nobody}
  PROVE  ControlOK'
<1>1. proc' \in [Procs -> Commandings]
  BY DEF ControlOK
<1>2. ASSUME NEW q \in Procs PROVE Fit(proc'[q])
  <2>1. proc'[q] = IF q = p THEN r ELSE proc[q]
    BY DEF ControlOK
  <2>2. QED
    BY <2>1 DEF ControlOK
<1>3. QED
  BY <1>1, <1>2 DEF ControlOK, Fit

\* A process without a command fits.
LEMMA EndedFits == Ended \in Commandings /\ Fit(Ended)
BY DEF Ended, Commandings, Fit, Steps, NoDir, Dirs, Contents

\* A command that ends gives its locks back (lockFile.Close).
LEMMA LeaveControl ==
  ASSUME ControlOK, NEW p \in Procs, Leave(p)
  PROVE  ControlOK'
<1>1. gate' \in [Procs -> {"none", "shared", "exclusive"}]
  BY DEF Leave, ControlOK
<1>2. hostLock' \in [Projects -> Procs \cup {Nobody}]
  BY DEF Leave, ControlOK
<1>3. owners' \in Procs \cup {Nobody}
  BY DEF Leave, ControlOK
<1>4. proc' = [proc EXCEPT ![p] = Ended]
  BY DEF Leave
<1>5. QED
  BY <1>1, <1>2, <1>3, <1>4, EndedFits, ControlStep

\* A command goes on, to a step its operation has.
Leads(p, step) ==
  /\ ~At(p, "idle") /\ step \in Steps
  /\ step \in {"allow", "remove", "scan", "save"} => proc[p].op \in DeviceChange
  /\ step \in {"save-port", "apply", "unsave-port"} => proc[p].op \in PortChange

LEMMA GotoControl ==
  ASSUME ControlOK, NEW p \in Procs, NEW step, Leads(p, step), Goto(p, step),
         gate' \in [Procs -> {"none", "shared", "exclusive"}],
         hostLock' \in [Projects -> Procs \cup {Nobody}],
         owners' \in Procs \cup {Nobody}
  PROVE  ControlOK'
<1> DEFINE r == [proc[p] EXCEPT !.at = step]
<1>1. r \in Commandings
  BY DEF ControlOK, Commandings, Leads
<1>2. Fit(r)
  BY DEF ControlOK, Commandings, Leads, Fit, At
<1>3. proc' = [proc EXCEPT ![p] = r]
  BY DEF Goto, ControlOK
<1> HIDE DEF r
<1>4. QED
  BY <1>1, <1>2, <1>3, ControlStep

\* A command that goes on and keeps its locks.
LEMMA ProceedControl ==
  ASSUME ControlOK, NEW p \in Procs, NEW step, Leads(p, step), Proceed(p, step)
  PROVE  ControlOK'
BY GotoControl DEF Proceed, locks, ControlOK

\* No command runs and no lock is held at first.
LEMMA InitControl == Init => ControlOK
<1> SUFFICES ASSUME Init PROVE ControlOK
  OBVIOUS
<1>1. proc \in [Procs -> Commandings] /\ \A p \in Procs : Fit(proc[p])
  BY EndedFits DEF Init
<1>2. QED
  BY <1>1 DEF Init, ControlOK

\* The command a process starts, and the locks it takes before its first step.
LEMMA StartForm ==
  ASSUME TypeInv, NEW p \in Procs, Start(p)
  PROVE  \E r \in Commandings :
           /\ proc' = [proc EXCEPT ![p] = r] /\ Fit(r)
           /\ r.at \in {"stop", "enter", "create", "recover"}
           /\ gate' \in [Procs -> {"none", "shared", "exclusive"}]
           /\ hostLock' \in [Projects -> Procs \cup {Nobody}]
<1>1. PICK j \in Projects, command \in Operations :
        /\ gate' = [gate EXCEPT ![p] = IF command \in Exclusive THEN "exclusive" ELSE "shared"]
        /\ hostLock' = IF TakesHostLock(command) THEN [hostLock EXCEPT ![j] = p] ELSE hostLock
        /\ \E resource \in CASE command \in DeviceChange -> Paths
                             [] command \in PortChange -> Ports
                             [] OTHER -> {None} :
             proc' = [proc EXCEPT ![p].op = command, ![p].project = j,
               ![p].resource = resource,
               ![p].at = CASE command = "vm stop" -> "stop"
                           [] command = "shell" -> IF Initialized(j) THEN "enter" ELSE "create"
                           [] OTHER -> "recover"]
  BY DEF Start
<1>2. command \in Commands
  BY HostAccessAssumption DEF HostAccessAssumption
<1>3. PICK resource \in CASE command \in DeviceChange -> Paths
                          [] command \in PortChange -> Ports
                          [] OTHER -> {None},
           step \in {"stop", "enter", "create", "recover"} :
        proc' = [proc EXCEPT ![p].op = command, ![p].project = j,
                             ![p].resource = resource, ![p].at = step]
  BY <1>1
<1>4. /\ command \in DeviceChange => resource \in Paths
      /\ command \in PortChange => resource \in Ports
      /\ resource \in Paths \cup Ports \cup {None}
  BY <1>2, <1>3 DEF DeviceChange, PortChange
<1> DEFINE r == [proc[p] EXCEPT !.op = command, !.project = j,
                                !.resource = resource, !.at = step]
<1>5. proc' = [proc EXCEPT ![p] = r]
  BY <1>3 DEF TypeInv, ControlOK
<1>6. r \in Commandings
  <2>1. proc[p] \in Commandings
    BY DEF TypeInv, ControlOK
  <2>2. step \in Steps
    BY DEF Steps
  <2>3. QED
    BY <1>2, <1>4, <2>1, <2>2 DEF Commandings
<1>7. Fit(r)
  BY <1>4 DEF TypeInv, ControlOK, Commandings, Fit
<1>8. r.at \in {"stop", "enter", "create", "recover"}
  BY DEF TypeInv, ControlOK, Commandings
<1>9. gate' \in [Procs -> {"none", "shared", "exclusive"}]
  BY <1>1 DEF TypeInv, ControlOK
<1>10. hostLock' \in [Projects -> Procs \cup {Nobody}]
  BY <1>1 DEF TypeInv, ControlOK
<1> HIDE DEF r
<1>11. WITNESS r \in Commandings
<1>12. QED
  BY <1>5, <1>7, <1>8, <1>9, <1>10

\* The start of a command keeps the types of commands and locks.
LEMMA StartControl ==
  ASSUME TypeInv, NEW p \in Procs, Start(p)
  PROVE  ControlOK'
<1>1. owners' \in Procs \cup {Nobody}
  BY DEF Start, TypeInv, ControlOK
<1>2. QED
  BY <1>1, StartForm, ControlStep DEF TypeInv

\* The changes of grants keep to the steps of their operation.
LEMMA ChangingControl ==
  ASSUME TypeInv, NEW p \in Procs, Changing(p)
  PROVE  ControlOK'
<1>0. ControlOK /\ Fit(proc[p]) /\ proc[p] \in Commandings
  BY DEF TypeInv, ControlOK
<1>1. CASE AllowDevice(p)
  <2>1. CASE Leave(p)
    BY <1>0, <2>1, LeaveControl
  <2>2. CASE ~Leave(p)
    <3> DEFINE r == [proc[p] EXCEPT !.at = "scan", !.listed = Listing(Mine(p)),
                                    !.grants = [proc[p].grants EXCEPT
                                                  !.claims = {Candidate(p)}]]
    <3>0. /\ proc' = [proc EXCEPT ![p].at = "scan", ![p].listed = Listing(Mine(p)),
                                 ![p].grants.claims = {Candidate(p)}]
          /\ owners' = p /\ UNCHANGED <<gate, hostLock>> /\ Plugged(p) /\ At(p, "allow")
      BY <1>1, <2>2 DEF AllowDevice
    <3>1. proc' = [proc EXCEPT ![p] = r]
      BY <3>0, <1>0 DEF ControlOK
    <3>2. proc[p].resource \in Paths /\ proc[p].op \in DeviceChange
      BY <1>0, <3>0 DEF Fit, At
    <3>3. Candidate(p) \in Claims
      BY <3>0, <3>2 DEF Plugged, Candidate, Claims, TypeInv, WorldOK
    <3>4. Listing(Mine(p)) \subseteq Places
      BY DEF Listing
    <3>5. r \in Commandings
      BY <1>0, <3>3, <3>4 DEF Commandings, Steps, Dirs
    <3>6. Fit(r)
      BY <1>0, <3>0, <3>2 DEF Fit, At, Commandings, DeviceChange, PortChange
    <3> HIDE DEF r
    <3>7. QED
      BY <3>0, <3>1, <3>5, <3>6, <1>0, ControlStep DEF ControlOK
  <2>3. QED
    BY <2>1, <2>2
<1>2. CASE Scan(p)
  <2>1. Leads(p, "save")
    BY <1>0, <1>2 DEF Scan, Leads, At, Fit, Steps
  <2>2. QED
    BY <1>0, <1>2, <2>1, LeaveControl, ProceedControl DEF Scan
<1>3. CASE SaveDevice(p) \/ RemoveDevice(p) \/ UnsavePort(p)
  BY <1>0, <1>3, LeaveControl DEF SaveDevice, RemoveDevice, UnsavePort
<1>4. CASE SavePort(p)
  <2>1. Leads(p, "apply")
    BY <1>0, <1>4 DEF SavePort, Leads, At, Fit, Steps
  <2>2. QED
    BY <1>0, <1>4, <2>1, LeaveControl, ProceedControl DEF SavePort
<1>5. CASE ApplyPort(p)
  <2>1. Leads(p, "unsave-port")
    BY <1>0, <1>5 DEF ApplyPort, Leads, At, Fit, Steps
  <2>2. Leave(p) \/ Proceed(p, "unsave-port")
    BY <1>5 DEF ApplyPort, PortFails
  <2>3. QED
    BY <1>0, <2>1, <2>2, LeaveControl, ProceedControl
<1>6. QED
  BY <1>1, <1>2, <1>3, <1>4, <1>5 DEF Changing

\* What a command does after the recovery of its project.
LEMMA ContinueControl ==
  ASSUME TypeInv, NEW p \in Procs, At(p, "recover"), Continue(p)
  PROVE  ControlOK'
<1>0. ControlOK /\ Fit(proc[p]) /\ proc[p] \in Commandings
  BY DEF TypeInv, ControlOK
<1>1. CASE Leave(p)
  BY <1>0, <1>1, LeaveControl
<1>2. CASE ~Leave(p)
  <2> DEFINE running == Runs(p, Change) /\ vm[Mine(p)].alive
             r == [proc[p] EXCEPT !.at = AfterRecovery(p), !.running = running]
  <2>1. /\ proc' = [proc EXCEPT ![p].at = AfterRecovery(p), ![p].running = running]
        /\ UNCHANGED locks
        /\ ~Runs(p, {"setup run"})
    BY <1>2 DEF Continue
  <2>2. proc' = [proc EXCEPT ![p] = r]
    BY <1>0, <2>1 DEF ControlOK
  <2>3. running \in BOOLEAN
    BY <1>0 DEF Fit, At, TypeInv, WorldOK, VMs
  <2>4. /\ AfterRecovery(p) \in {"allow", "remove", "save-port", "apply", "enter", "publish",
                                  "delete", "idle"}
        /\ AfterRecovery(p) \in {"allow", "remove"} => proc[p].op \in DeviceChange
        /\ AfterRecovery(p) \in {"save-port", "apply"} => proc[p].op \in PortChange
    BY DEF AfterRecovery, Runs, DeviceChange, PortChange
  <2> HIDE DEF running
  <2>5. r \in Commandings
    BY <1>0, <2>3, <2>4 DEF Commandings, Steps
  <2>6. Fit(r)
    BY <1>0, <2>4 DEF Fit, At, Commandings
  <2> HIDE DEF r
  <2>7. QED
    BY <1>0, <2>1, <2>2, <2>5, <2>6, ControlStep DEF ControlOK, locks
<1>3. QED
  BY <1>1, <1>2

\* So does the recovery that a command begins with.
LEMMA RecoverControl ==
  ASSUME TypeInv, NEW p \in Procs, Recover(p) \/ OwnersTimeout(p) \/ Crash(p)
  PROVE  ControlOK'
<1>1. ControlOK
  BY DEF TypeInv
<1>2. Leave(p) \/ (At(p, "recover") /\ Continue(p))
  BY DEF Recover, OwnersTimeout, Crash
<1>3. QED
  BY <1>1, <1>2, LeaveControl, ContinueControl

\* The start and the stop of a VM.
LEMMA BootingControl ==
  ASSUME TypeInv, NEW p \in Procs, Booting(p)
  PROVE  ControlOK'
<1>0. ControlOK /\ Fit(proc[p]) /\ proc[p] \in Commandings
  BY DEF TypeInv, ControlOK
<1>1. CASE EnterVM(p)
  <2>1. Leads(p, "boot")
    BY <1>1 DEF EnterVM, Leads, At, Steps
  <2>2. CASE Leave(p)
    BY <1>0, <2>2, LeaveControl
  <2>3. CASE ~Leave(p)
    <3>1. /\ hostLock' = [hostLock EXCEPT ![Mine(p)] = p] /\ Goto(p, "boot")
          /\ UNCHANGED <<gate, owners>>
      BY <1>1, <2>3 DEF EnterVM
    <3>2. hostLock' \in [Projects -> Procs \cup {Nobody}]
      BY <1>0, <3>1 DEF ControlOK
    <3>3. QED
      BY <1>0, <2>1, <3>1, <3>2, GotoControl DEF ControlOK
  <2>4. QED
    BY <2>2, <2>3
<1>2. CASE Boot(p)
  <2> DEFINE r == [proc[p] EXCEPT !.at = "forward", !.grants = store[Mine(p)]]
  <2>1. proc' = [proc EXCEPT ![p] = r] /\ UNCHANGED locks /\ At(p, "boot")
    BY <1>0, <1>2 DEF Boot, ControlOK
  <2>2. store[Mine(p)] \in Dirs
    BY <1>0, <2>1 DEF Fit, At, Mine, TypeInv, WorldOK
  <2>3. r \in Commandings
    BY <1>0, <2>2 DEF Commandings, Steps
  <2>4. Fit(r)
    BY <1>0, <2>1 DEF Fit, At, Commandings
  <2> HIDE DEF r
  <2>5. QED
    BY <1>0, <2>1, <2>3, <2>4, ControlStep DEF ControlOK, locks
<1>3. CASE ForwardPorts(p) \/ WriteRecord(p) \/ Stop(p)
  <2>1. /\ At(p, "forward") => Leads(p, "record")
        /\ At(p, "record") => Leads(p, "claim")
        /\ At(p, "stop") => Leads(p, "stop-clear")
    BY DEF Leads, At, Steps
  <2>2. QED
    BY <1>0, <1>3, <2>1, LeaveControl, ProceedControl DEF ForwardPorts, WriteRecord, Stop
<1>4. CASE TakeOwners(p)
  <2> DEFINE r == [proc[p] EXCEPT !.at = "activate", !.listed = Listing(Mine(p))]
  <2>1. /\ proc' = [proc EXCEPT ![p] = r] /\ At(p, "claim")
        /\ owners' = p /\ UNCHANGED <<gate, hostLock>>
    BY <1>0, <1>4 DEF TakeOwners, ControlOK
  <2>2. r \in Commandings
    BY <1>0 DEF Commandings, Steps, Listing
  <2>3. Fit(r)
    BY <1>0, <2>1 DEF Fit, At, Commandings
  <2> HIDE DEF r
  <2>4. QED
    BY <1>0, <2>1, <2>2, <2>3, ControlStep DEF ControlOK
<1>5. ASSUME NEW c, Done(p, c), proc[p].at \in {"activate", "attach"}
      PROVE  ControlOK'
  <2> DEFINE r == [proc[p] EXCEPT !.at = "activate",
                                  !.grants = [proc[p].grants EXCEPT
                                                !.claims = proc[p].grants.claims \ {c}]]
  <2>1. CASE Leave(p)
    BY <1>0, <2>1, LeaveControl
  <2>2. CASE ~Leave(p)
    <3>1. proc' = [proc EXCEPT ![p].at = "activate", ![p].grants.claims = @ \ {c}]
          /\ UNCHANGED locks
      BY <1>5, <2>2 DEF Done
    <3>2. proc' = [proc EXCEPT ![p] = r]
      BY <1>0, <3>1 DEF ControlOK
    <3>3. r \in Commandings
      BY <1>0 DEF Commandings, Steps, Dirs
    <3>4. Fit(r)
      BY <1>0, <1>5 DEF Fit, At, Commandings
    <3> HIDE DEF r
    <3>5. QED
      BY <1>0, <3>1, <3>2, <3>3, <3>4, ControlStep DEF ControlOK, locks
  <2>3. QED
    BY <2>1, <2>2
<1>6. CASE Activate(p)
  <2>1. Leads(p, "attach")
    BY <1>6 DEF Activate, Leads, At, Steps
  <2>2. PICK c \in proc[p].grants.claims : Proceed(p, "attach") \/ Done(p, c)
    BY <1>6 DEF Activate
  <2>3. proc[p].at \in {"activate", "attach"}
    BY <1>6 DEF Activate, At
  <2>4. QED
    BY <1>0, <1>5, <2>1, <2>2, <2>3, ProceedControl
<1>7. CASE Attach(p)
  <2>1. Leave(p) \/ \E c \in proc[p].grants.claims : Done(p, c)
    BY <1>7 DEF Attach
  <2>2. proc[p].at \in {"activate", "attach"}
    BY <1>7 DEF Attach, At
  <2>3. QED
    BY <1>0, <1>5, <2>1, <2>2, LeaveControl
<1>8. CASE StopClear(p)
  BY <1>0, <1>8, LeaveControl DEF StopClear
<1>9. QED
  BY <1>1, <1>2, <1>3, <1>4, <1>6, <1>7, <1>8 DEF Booting

\* The replacement, the deletion and the creation of a store.
LEMMA ReplacingControl ==
  ASSUME TypeInv, NEW p \in Procs, Replacing(p)
  PROVE  ControlOK'
<1>0. ControlOK /\ Fit(proc[p]) /\ proc[p] \in Commandings
  BY DEF TypeInv, ControlOK
<1>1. ASSUME NEW step \in {"publish-new", "delete-content"}, NEW grants \in Dirs,
             ~At(p, "idle"),
             proc' = [proc EXCEPT ![p].at = step, ![p].grants = grants],
             owners' = p, UNCHANGED <<gate, hostLock>>
      PROVE  ControlOK'
  <2> DEFINE r == [proc[p] EXCEPT !.at = step, !.grants = grants]
  <2>1. proc' = [proc EXCEPT ![p] = r]
    BY <1>0, <1>1 DEF ControlOK
  <2>2. r \in Commandings
    BY <1>0 DEF Commandings, Steps
  <2>3. Fit(r)
    BY <1>0, <1>1 DEF Fit, At, Commandings
  <2> HIDE DEF r
  <2>4. QED
    BY <1>0, <1>1, <2>1, <2>2, <2>3, ControlStep DEF ControlOK
<1>2. CASE Publish(p) \/ Delete(p)
  <2>1. ~At(p, "idle") /\ Mine(p) \in Projects
    BY <1>0, <1>2 DEF Publish, Delete, At, Fit, Mine
  <2>2. store[Mine(p)] \in Dirs /\ Staged(Mine(p)) \in Dirs
    BY <2>1 DEF TypeInv, WorldOK, Staged, Dirs, Contents
  <2>3. QED
    BY <1>1, <1>2, <2>1, <2>2 DEF Publish, Delete
<1>3. /\ At(p, "publish-new") => Leads(p, "publish-sync")
      /\ At(p, "publish-sync") => Leads(p, "drop-backup") /\ Leads(p, "undo-new")
      /\ At(p, "undo-new") => Leads(p, "undo-old")
      /\ At(p, "delete-content") => Leads(p, "delete-claims")
      /\ At(p, "delete-claims") => Leads(p, "delete-dir")
      /\ At(p, "create") => Leads(p, "created")
  BY DEF Leads, At, Steps
<1>4. CASE PublishNew(p) \/ PublishSync(p) \/ UndoNew(p)
  BY <1>0, <1>3, <1>4, LeaveControl, ProceedControl DEF PublishNew, PublishSync, UndoNew
<1>5. CASE DeleteContent(p) \/ DeleteClaims(p) \/ Create(p)
  BY <1>0, <1>3, <1>5, LeaveControl, ProceedControl DEF DeleteContent, DeleteClaims, Create
<1>6. CASE DropBackup(p) \/ UndoOld(p) \/ DeleteDir(p) \/ Created(p)
  BY <1>0, <1>6, LeaveControl DEF DropBackup, UndoOld, DeleteDir, Created
<1>7. QED
  BY <1>2, <1>4, <1>5, <1>6 DEF Replacing

-----------------------------------------------------------------------------
(* The stores, the VMs and the host keep their types                       *)

\* What a command works on.
LEMMA Mines ==
  ASSUME TypeInv, NEW p \in Procs, ~At(p, "idle")
  PROVE  /\ Mine(p) \in Projects
         /\ store[Mine(p)] \in Dirs /\ backup[Mine(p)] \in Dirs
         /\ vm[Mine(p)] \in VMs /\ record[Mine(p)] \in Records
         /\ proc[p] \in Commandings /\ proc[p].grants \in Dirs
         /\ proc[p].op \in DeviceChange => proc[p].resource \in Paths
         /\ proc[p].op \in PortChange => proc[p].resource \in Ports
BY DEF TypeInv, ControlOK, WorldOK, Fit, At, Mine, Commandings

\* A fault is counted up to its bound.
LEMMA FaultTyped == WorldOK /\ Fault => faults' \in 0..MaxFaults
BY HostAccessAssumption DEF HostAccessAssumption, WorldOK, Fault

\* An empty directory and a missing one are directories.
LEMMA DirsTyped ==
  /\ NoDir \in Dirs
  /\ \A d \in Dirs : \A content \in Contents : [d EXCEPT !.content = content] \in Dirs
  /\ \A d \in Dirs, claims \in SUBSET Claims : [d EXCEPT !.claims = claims] \in Dirs
  /\ \A d \in Dirs, ports \in SUBSET Ports : [d EXCEPT !.ports = ports] \in Dirs
BY DEF NoDir, Dirs, Contents

\* The stores, VMs and devices are of their types at first.
LEMMA InitWorld == Init => WorldOK
<1> SUFFICES ASSUME Init PROVE WorldOK
  OBVIOUS
<1>1. \A content \in {"legacy", "current"} : [NoDir EXCEPT !.content = content] \in Dirs
  BY DirsTyped DEF Contents
<1>2. store \in [Projects -> Dirs] /\ backup \in [Projects -> Dirs]
  BY <1>1, DirsTyped DEF Init
<1>3. vm \in [Projects -> VMs] /\ record \in [Projects -> Records]
  BY DEF Init, VMs, Records, NoVM, NoRecord
<1>4. granted \in [Projects -> SUBSET Claims] /\ exists \in [Projects -> BOOLEAN]
  BY DEF Init
<1>5. faults \in 0..MaxFaults /\ replugs \in 0..MaxReplugs
  BY HostAccessAssumption DEF HostAccessAssumption, Init
<1>6. node \in [Paths -> Serials \cup {None}]
  BY DEF Init
<1>7. QED
  BY <1>2, <1>3, <1>4, <1>5, <1>6 DEF WorldOK

\* The start of a command keeps the types of stores, VMs and devices.
LEMMA StartWorld ==
  ASSUME TypeInv, NEW p \in Procs, Start(p) \/ OwnersTimeout(p) \/ Crash(p)
  PROVE  WorldOK'
<1>1. UNCHANGED <<stores, vm, record, node, history, replugs>> /\ (UNCHANGED faults \/ Fault)
  BY DEF Start, OwnersTimeout, Crash
<1>2. QED
  BY <1>1, FaultTyped DEF TypeInv, WorldOK, stores, history

\* What is left of a directory is a directory.
LEMMA RemovedTyped ==
  ASSUME WorldOK, NEW d, NEW rest \in Dirs, Removed(d, rest)
  PROVE  faults' \in 0..MaxFaults
BY FaultTyped DEF Removed, WorldOK

\* Recovery leaves stores and backups that are directories.
LEMMA RecoverWorld ==
  ASSUME TypeInv, NEW p \in Procs, Recover(p)
  PROVE  WorldOK'
<1>0. Mine(p) \in Projects /\ backup[Mine(p)] \in Dirs /\ WorldOK
  BY Mines DEF Recover, At, TypeInv
<1>1. UNCHANGED <<vm, record, node, history, replugs>>
  BY DEF Recover
<1>2. CASE UNCHANGED <<stores, faults>>
  BY <1>0, <1>1, <1>2 DEF WorldOK, stores, history
<1>3. CASE /\ UNCHANGED store
           /\ \E rest \in Dirs : /\ Removed(backup[Mine(p)], rest)
                                 /\ backup' = [backup EXCEPT ![Mine(p)] = rest]
  BY <1>0, <1>1, <1>3, RemovedTyped DEF WorldOK, history
<1>4. CASE /\ UNCHANGED faults
           /\ store' = [store EXCEPT ![Mine(p)] = backup[Mine(p)]]
           /\ backup' = [backup EXCEPT ![Mine(p)] = NoDir]
  BY <1>0, <1>1, <1>4, DirsTyped DEF WorldOK, history
<1>5. QED
  BY <1>2, <1>3, <1>4 DEF Recover

\* Changing a grant writes claims and ports of the host.
LEMMA ChangingWorld ==
  ASSUME TypeInv, NEW p \in Procs, Changing(p)
  PROVE  WorldOK'
<1> DEFINE j == Mine(p)
<1>0. /\ j \in Projects /\ store[j] \in Dirs /\ vm[j] \in VMs
      /\ proc[p] \in Commandings /\ proc[p].grants \in Dirs /\ WorldOK /\ Fit(proc[p])
  BY Mines DEF Changing, AllowDevice, Scan, SaveDevice, RemoveDevice, SavePort, ApplyPort,
               UnsavePort, At, TypeInv, ControlOK
<1>1. CASE AllowDevice(p) \/ Scan(p)
  BY <1>0, <1>1 DEF AllowDevice, Scan, WorldOK, stores, history
<1>2. CASE SaveDevice(p)
  <2> DEFINE claims == store[j].claims \cup proc[p].grants.claims
  <2>1. claims \in SUBSET Claims
    BY <1>0 DEF Dirs
  <2>2. [store[j] EXCEPT !.claims = claims] \in Dirs
    BY <1>0, <2>1, DirsTyped
  <2>3. \/ store' = [store EXCEPT ![j] = [store[j] EXCEPT !.claims = claims]]
        \/ store' = store
    BY <1>0, <1>2 DEF SaveDevice, WorldOK
  <2>4. granted' \in [Projects -> SUBSET Claims]
    BY <1>0, <1>2 DEF SaveDevice, WorldOK, Dirs
  <2>5. UNCHANGED <<backup, vm, record, node, exists, faults, replugs>>
    BY <1>2 DEF SaveDevice
  <2> HIDE DEF claims
  <2>6. QED
    BY <1>0, <2>2, <2>3, <2>4, <2>5 DEF WorldOK
<1>3. CASE RemoveDevice(p)
  <2> DEFINE removed == {c \in store[j].claims : c.path = proc[p].resource}
             claims == store[j].claims \ removed
  <2>1. claims \in SUBSET Claims
    BY <1>0 DEF Dirs
  <2>2. [store[j] EXCEPT !.claims = claims] \in Dirs
    BY <1>0, <2>1, DirsTyped
  <2>3. \/ store' = [store EXCEPT ![j].claims = @ \ removed]
        \/ store' = store
    BY <1>3 DEF RemoveDevice
  <2>4. \/ granted' = [granted EXCEPT ![j] = @ \ removed]
        \/ granted' = granted
    BY <1>3 DEF RemoveDevice
  <2> HIDE DEF removed
  <2>5. \/ store' = [store EXCEPT ![j] = [store[j] EXCEPT !.claims = claims]]
        \/ store' = store
    BY <1>0, <2>3 DEF WorldOK
  <2>6. granted' \in [Projects -> SUBSET Claims]
    BY <1>0, <2>4 DEF WorldOK
  <2>7. UNCHANGED <<backup, vm, record, node, exists, faults, replugs>>
    BY <1>3 DEF RemoveDevice
  <2> HIDE DEF claims
  <2>8. QED
    BY <1>0, <2>2, <2>5, <2>6, <2>7 DEF WorldOK
<1>4. CASE SavePort(p) \/ UnsavePort(p)
  <2> DEFINE more == store[j].ports \cup {proc[p].resource}
             less == store[j].ports \ {proc[p].resource}
  <2>1. proc[p].resource \in Ports
    BY <1>0, <1>4 DEF SavePort, UnsavePort, At, Fit
  <2>2. more \in SUBSET Ports /\ less \in SUBSET Ports
    BY <1>0, <2>1 DEF Dirs
  <2>3. [store[j] EXCEPT !.ports = more] \in Dirs /\ [store[j] EXCEPT !.ports = less] \in Dirs
    BY <1>0, <2>2, DirsTyped
  <2>4. \/ store' = [store EXCEPT ![j] = [store[j] EXCEPT !.ports = more]]
        \/ store' = [store EXCEPT ![j] = [store[j] EXCEPT !.ports = less]]
        \/ store' = store
    BY <1>0, <1>4 DEF SavePort, UnsavePort, WorldOK
  <2>5. UNCHANGED <<backup, vm, record, node, history, faults, replugs>>
    BY <1>4 DEF SavePort, UnsavePort
  <2> HIDE DEF more, less
  <2>6. QED
    BY <1>0, <2>3, <2>4, <2>5 DEF WorldOK, history
<1>5. CASE ApplyPort(p)
  <2>1. proc[p].resource \in Ports
    BY <1>0, <1>5 DEF ApplyPort, At, Fit
  <2>2. [vm[j] EXCEPT !.forwards = Forwards(p, j)] \in VMs
    BY <1>0, <2>1 DEF Forwards, VMs
  <2>3. vm' = vm \/ vm' = [vm EXCEPT ![j] = [vm[j] EXCEPT !.forwards = Forwards(p, j)]]
    BY <1>0, <1>5 DEF ApplyPort, WorldOK
  <2>4. vm' \in [Projects -> VMs]
    BY <1>0, <2>2, <2>3 DEF WorldOK
  <2>5. UNCHANGED <<stores, record, node, history, replugs>> /\ (UNCHANGED faults \/ Fault)
    BY <1>5 DEF ApplyPort
  <2>6. QED
    BY <1>0, <2>4, <2>5, FaultTyped DEF WorldOK, stores, history
<1>6. QED
  BY <1>1, <1>2, <1>3, <1>4, <1>5 DEF Changing

\* The start of a VM opens claims and forwards ports of the host.
LEMMA BootingWorld ==
  ASSUME TypeInv, NEW p \in Procs, Booting(p)
  PROVE  WorldOK'
<1> DEFINE j == Mine(p)
<1>0. /\ j \in Projects /\ store[j] \in Dirs /\ vm[j] \in VMs /\ record[j] \in Records
      /\ proc[p] \in Commandings /\ proc[p].grants \in Dirs /\ WorldOK
  BY Mines DEF Booting, EnterVM, Boot, ForwardPorts, WriteRecord, TakeOwners, Activate, Attach,
               Stop, StopClear, At, TypeInv
<1>1. NoVM \in VMs /\ NoRecord \in Records
  BY DEF NoVM, NoRecord, VMs, Records
<1>2. UNCHANGED <<stores, node, history, replugs>> /\ (UNCHANGED faults \/ Fault)
  BY DEF Booting, EnterVM, Boot, ForwardPorts, WriteRecord, TakeOwners, Activate, Attach,
         Stop, StopClear
<1>3. vm' \in [Projects -> VMs]
  <2>1. CASE Boot(p)
    <3>1. [NoVM EXCEPT !.alive = TRUE, !.boot = store[j].claims] \in VMs
      BY <1>0, <1>1 DEF VMs, Dirs
    <3>2. QED
      BY <1>0, <2>1, <3>1 DEF Boot, WorldOK
  <2>2. CASE ForwardPorts(p)
    <3> DEFINE forwards == {port \in proc[p].grants.ports : ~Taken(j, port)}
    <3>1. forwards \in SUBSET Ports
      BY <1>0 DEF Dirs
    <3>2. vm' = [vm EXCEPT ![j].forwards = forwards] \/ vm' = vm
      BY <2>2 DEF ForwardPorts
    <3> HIDE DEF forwards
    <3>3. [vm[j] EXCEPT !.forwards = forwards] \in VMs
      BY <1>0, <3>1 DEF VMs
    <3>4. vm' = [vm EXCEPT ![j] = [vm[j] EXCEPT !.forwards = forwards]] \/ vm' = vm
      BY <1>0, <3>2 DEF WorldOK
    <3>5. QED
      BY <1>0, <3>3, <3>4 DEF WorldOK
  <2>3. CASE Activate(p) \/ Attach(p)
    <3>1. \A c \in Claims : /\ [vm[j] EXCEPT !.open = vm[j].open \cup {c}] \in VMs
                            /\ [vm[j] EXCEPT !.open = vm[j].open \ {c}] \in VMs
      BY <1>0 DEF VMs
    <3>2. proc[p].grants.claims \subseteq Claims
      BY <1>0 DEF Dirs
    <3>3. \/ vm' = vm
          \/ \E c \in Claims : \/ vm' = [vm EXCEPT ![j].open = @ \cup {c}]
                               \/ vm' = [vm EXCEPT ![j].open = @ \ {c}]
      BY <2>3, <3>2 DEF Activate, Attach
    <3>4. \/ vm' = vm
          \/ \E c \in Claims : \/ vm' = [vm EXCEPT ![j] = [vm[j] EXCEPT !.open = vm[j].open \cup {c}]]
                               \/ vm' = [vm EXCEPT ![j] = [vm[j] EXCEPT !.open = vm[j].open \ {c}]]
      BY <1>0, <3>3 DEF WorldOK
    <3>5. QED
      BY <1>0, <3>1, <3>4 DEF WorldOK
  <2>4. CASE Stop(p)
    BY <1>0, <1>1, <2>4 DEF Stop, WorldOK
  <2>5. CASE EnterVM(p) \/ WriteRecord(p) \/ TakeOwners(p) \/ StopClear(p)
    BY <1>0, <2>5 DEF EnterVM, WriteRecord, TakeOwners, StopClear, WorldOK
  <2>6. QED
    BY <2>1, <2>2, <2>3, <2>4, <2>5 DEF Booting
<1>4. record' \in [Projects -> Records]
  <2>1. CASE Boot(p) \/ StopClear(p)
    BY <1>0, <1>1, <2>1 DEF Boot, StopClear, WorldOK
  <2>2. CASE WriteRecord(p)
    <3>1. [known |-> TRUE, devices |-> proc[p].grants.claims, active |-> {}] \in Records
      BY <1>0 DEF Records, Dirs
    <3>2. QED
      BY <1>0, <2>2, <3>1 DEF WriteRecord, WorldOK
  <2>3. CASE Attach(p)
    <3>1. \A c \in Claims : [record[j] EXCEPT !.active = record[j].active \cup {c}] \in Records
      BY <1>0 DEF Records
    <3>2. \/ record' = record
          \/ \E c \in Claims : record' = [record EXCEPT ![j].active = @ \cup {c}]
      BY <1>0, <2>3 DEF Attach, Dirs
    <3>3. \/ record' = record
          \/ \E c \in Claims :
               record' = [record EXCEPT ![j] = [record[j] EXCEPT !.active = record[j].active \cup {c}]]
      BY <1>0, <3>2 DEF WorldOK
    <3>4. QED
      BY <1>0, <3>1, <3>3 DEF WorldOK
  <2>4. CASE EnterVM(p) \/ ForwardPorts(p) \/ TakeOwners(p) \/ Activate(p) \/ Stop(p)
    BY <1>0, <2>4 DEF EnterVM, ForwardPorts, TakeOwners, Activate, Stop, WorldOK
  <2>5. QED
    BY <2>1, <2>2, <2>3, <2>4 DEF Booting
<1>5. QED
  BY <1>0, <1>2, <1>3, <1>4, FaultTyped DEF WorldOK, stores, history

\* Replacing, deleting and creating a store leave directories.
LEMMA ReplacingWorld ==
  ASSUME TypeInv, NEW p \in Procs, Replacing(p)
  PROVE  WorldOK'
<1> DEFINE j == Mine(p)
<1>0. /\ j \in Projects /\ store[j] \in Dirs /\ backup[j] \in Dirs
      /\ proc[p] \in Commandings /\ proc[p].grants \in Dirs /\ WorldOK
  BY Mines DEF Replacing, Publish, PublishNew, PublishSync, DropBackup, UndoNew, UndoOld, Delete,
               DeleteContent, DeleteClaims, DeleteDir, Create, Created, At, TypeInv
<1>1. UNCHANGED <<vm, record, node, replugs>>
  BY DEF Replacing, Publish, PublishNew, PublishSync, DropBackup, UndoNew, UndoOld, Delete,
         DeleteContent, DeleteClaims, DeleteDir, Create, Created
<1>2. /\ store' \in [Projects -> Dirs] /\ backup' \in [Projects -> Dirs]
      /\ faults' \in 0..MaxFaults
  <2>1. CASE Publish(p) \/ PublishNew(p) \/ UndoOld(p)
    BY <1>0, <2>1, DirsTyped, FaultTyped DEF Publish, PublishNew, UndoOld, WorldOK, stores
  <2>2. CASE PublishSync(p) \/ Delete(p)
    BY <1>0, <2>2, FaultTyped DEF PublishSync, Delete, WorldOK, stores
  <2>3. CASE DropBackup(p) \/ UndoNew(p)
    BY <1>0, <2>3, RemovedTyped DEF DropBackup, UndoNew, WorldOK
  <2>4. CASE DeleteContent(p) \/ Created(p)
    <3>1. /\ [store[j] EXCEPT !.content = "partial"] \in Dirs
          /\ [store[j] EXCEPT !.content = "current"] \in Dirs
      BY <1>0, DirsTyped DEF Contents
    <3>2. /\ \/ store' = [store EXCEPT ![j] = [store[j] EXCEPT !.content = "partial"]]
             \/ store' = [store EXCEPT ![j] = [store[j] EXCEPT !.content = "current"]]
             \/ store' = [store EXCEPT ![j] = NoDir]
          /\ UNCHANGED backup /\ (UNCHANGED faults \/ Fault)
      BY <1>0, <2>4 DEF DeleteContent, Created, WorldOK
    <3>3. QED
      BY <1>0, <3>1, <3>2, DirsTyped, FaultTyped DEF WorldOK
  <2>5. CASE DeleteClaims(p) \/ DeleteDir(p) \/ Create(p)
    <3>1. /\ [NoDir EXCEPT !.content = "empty"] \in Dirs
          /\ [NoDir EXCEPT !.content = "partial"] \in Dirs
          /\ [proc[p].grants EXCEPT !.content = "partial"] \in Dirs
      BY <1>0, DirsTyped DEF Contents
    <3>2. QED
      BY <1>0, <2>5, <3>1, DirsTyped, FaultTyped DEF DeleteClaims, DeleteDir, Create, WorldOK
  <2>6. QED
    BY <2>1, <2>2, <2>3, <2>4, <2>5 DEF Replacing
<1>3. granted' \in [Projects -> SUBSET Claims] /\ exists' \in [Projects -> BOOLEAN]
  BY <1>0 DEF Replacing, Publish, PublishNew, PublishSync, DropBackup, UndoNew, UndoOld, Delete,
         DeleteContent, DeleteClaims, DeleteDir, Create, Created, WorldOK, history
<1>4. QED
  BY <1>0, <1>1, <1>2, <1>3 DEF WorldOK

\* What happens outside zaigr.
LEMMA OutsideStep ==
  ASSUME TypeInv,
         (\E j \in Projects : VMEnds(j)) \/ (\E path \in Paths : Replug(path))
  PROVE  TypeInv'
<1>0. ControlOK /\ WorldOK
  BY DEF TypeInv
<1>1. ASSUME NEW j \in Projects, VMEnds(j) PROVE TypeInv'
  <2>1. NoVM \in VMs
    BY DEF NoVM, VMs
  <2>2. vm' \in [Projects -> VMs]
    BY <1>0, <1>1, <2>1 DEF VMEnds, WorldOK
  <2>3. UNCHANGED <<proc, locks, stores, record, node, history, replugs>> /\ Fault
    BY <1>1 DEF VMEnds
  <2>4. ControlOK'
    BY <1>0, <2>3 DEF ControlOK, locks
  <2>5. WorldOK'
    BY <1>0, <2>2, <2>3, FaultTyped DEF WorldOK, stores, history
  <2>6. QED
    BY <2>4, <2>5 DEF TypeInv
<1>2. ASSUME NEW path \in Paths, Replug(path) PROVE TypeInv'
  <2>1. UNCHANGED <<proc, locks, stores, vm, record, history, faults>>
    BY <1>2 DEF Replug
  <2>2. node' \in [Paths -> Serials \cup {None}]
    BY <1>0, <1>2 DEF Replug, WorldOK
  <2>3. replugs' \in 0..MaxReplugs
    BY <1>0, <1>2, HostAccessAssumption DEF Replug, WorldOK, HostAccessAssumption
  <2>4. ControlOK'
    BY <1>0, <2>1 DEF ControlOK, locks
  <2>5. WorldOK'
    BY <1>0, <2>1, <2>2, <2>3 DEF WorldOK, stores, history
  <2>6. QED
    BY <2>4, <2>5 DEF TypeInv
<1>3. QED
  BY <1>1, <1>2

\* Every step keeps the types.
LEMMA TypeStep == TypeInv /\ [Next]_vars => TypeInv'
<1> SUFFICES ASSUME TypeInv, [Next]_vars PROVE TypeInv'
  OBVIOUS
<1>1. ASSUME NEW p \in Procs, Start(p) PROVE TypeInv'
  BY <1>1, StartControl, StartWorld DEF TypeInv
<1>2. ASSUME NEW p \in Procs, Recover(p) PROVE TypeInv'
  BY <1>2, RecoverControl, RecoverWorld DEF TypeInv
<1>3. ASSUME NEW p \in Procs, OwnersTimeout(p) \/ Crash(p) PROVE TypeInv'
  BY <1>3, RecoverControl, StartWorld DEF TypeInv
<1>4. ASSUME NEW p \in Procs, Changing(p) PROVE TypeInv'
  BY <1>4, ChangingControl, ChangingWorld DEF TypeInv
<1>5. ASSUME NEW p \in Procs, Booting(p) PROVE TypeInv'
  BY <1>5, BootingControl, BootingWorld DEF TypeInv
<1>6. ASSUME NEW p \in Procs, Replacing(p) PROVE TypeInv'
  BY <1>6, ReplacingControl, ReplacingWorld DEF TypeInv
<1>7. CASE UNCHANGED vars
  BY <1>7 DEF vars, locks, stores, history, TypeInv, ControlOK, WorldOK
<1>8. QED
  BY <1>1, <1>2, <1>3, <1>4, <1>5, <1>6, <1>7, OutsideStep DEF Next

\* Every variable always has its type; and what a command has read fits the step it is at,
\* whatever crashes, failures and other commands came between.
THEOREM TypeCorrect == Spec => []TypeOK
<1>1. Init => TypeInv
  BY InitControl, InitWorld DEF TypeInv
<1>2. TypeInv => TypeOK
  BY DEF TypeInv, ControlOK, WorldOK, TypeOK, Commandings, VMs, Records
<1>3. QED
  BY <1>1, <1>2, TypeStep, PTL DEF Spec

-----------------------------------------------------------------------------
(* Ownership.  A claim is only written under the owners lock, by a command *)
(* that has seen that nobody else holds it, and that it has been seen      *)
(* cannot change before the lock is released.                              *)

\* The steps under the owners lock, and those that still have claims to write.
OwnersSteps == {"scan", "save", "activate", "attach", "publish-new", "publish-sync",
                "drop-backup", "undo-new", "undo-old", "delete-content", "delete-claims",
                "delete-dir"}
Writing == {"save", "publish-new", "delete-content", "delete-claims", "delete-dir"}

OwnersHeld == \A p \in Procs : proc[p].at \in OwnersSteps => owners = p

\* A directory that is not there has no claims.
ClaimsInDirs ==
  \A j \in Projects : /\ store[j].claims # {} => IsDir(store[j])
                      /\ backup[j].claims # {} => IsDir(backup[j])

\* No other project holds one of these claims.
Clear(j, claims) ==
  \A k \in Projects \ {j} : \A c \in claims, d \in Held(k) : ~Conflict(c, d)

\* What is still to be written conflicts with nothing, ...
WritesClear ==
  \A p \in Procs : proc[p].at \in Writing => Clear(Mine(p), proc[p].grants.claims)
StagedInDir ==
  \A p \in Procs : At(p, "publish-new") => proc[p].grants.content = "current"

\* ... because a scan reads every directory with claims.
Lists(p) ==
  \A k \in Projects \ {Mine(p)} :
    /\ store[k].claims # {} => <<k, "store">> \in proc[p].listed
    /\ backup[k].claims # {} => <<k, "backup">> \in proc[p].listed
ScansAll == \A p \in Procs : At(p, "scan") => Lists(p)

OwnershipInv ==
  /\ TypeInv /\ OwnersHeld /\ ClaimsInDirs
  /\ WritesClear /\ StagedInDir /\ ScansAll /\ ExclusiveOwnership

\* A step of p leaves the other commands and their lock alone.
Isolated(p) ==
  \A q \in Procs \ {p} : proc'[q] = proc[q] /\ (owners = q => owners' = q)

\* A command that ends touches no other command.
LEMMA LeaveIsolated ==
  ASSUME TypeInv, NEW p \in Procs, Leave(p)
  PROVE  Isolated(p) /\ proc'[p] = Ended
BY DEF TypeInv, ControlOK, Leave, Isolated

\* A command that goes on touches no other command.
LEMMA ProceedIsolated ==
  ASSUME TypeInv, NEW p \in Procs, NEW step, Proceed(p, step)
  PROVE  /\ Isolated(p) /\ owners' = owners
         /\ proc'[p] = [proc[p] EXCEPT !.at = step] /\ proc'[p].at = step
<1>1. proc[p] \in Commandings
  BY DEF TypeInv, ControlOK
<1>2. proc'[p] = [proc[p] EXCEPT !.at = step] /\ \A q \in Procs \ {p} : proc'[q] = proc[q]
  BY DEF TypeInv, ControlOK, Proceed, Goto
<1>3. QED
  BY <1>1, <1>2 DEF Commandings, Proceed, locks, Isolated

\* A command that takes the owners lock, or goes on without it.
LEMMA TakeIsolated ==
  ASSUME TypeInv, NEW p \in Procs, NEW r \in Commandings, proc' = [proc EXCEPT ![p] = r],
         owners' = owners \/ (owners = Nobody /\ owners' = p)
  PROVE  Isolated(p) /\ proc'[p] = r
BY HostAccessAssumption DEF HostAccessAssumption, TypeInv, ControlOK, Isolated

\* The lock is kept by whoever needs it.
LEMMA HeldStep ==
  ASSUME TypeInv, OwnersHeld, NEW p \in Procs, Isolated(p),
         proc'[p].at \in OwnersSteps => owners' = p
  PROVE  OwnersHeld'
<1>1. ASSUME NEW q \in Procs, proc'[q].at \in OwnersSteps PROVE owners' = q
  BY <1>1 DEF Isolated, OwnersHeld
<1>2. QED
  BY <1>1 DEF OwnersHeld

\* What a step of p does to its own command: what it has still to write is Clear, and a
\* scan begins with all directories that have claims.
Moved(p) ==
  /\ Isolated(p)
  /\ proc'[p].at \in OwnersSteps => owners' = p
  /\ proc'[p].at \in Writing =>
       proc'[p].project = Mine(p) /\ Clear(Mine(p), proc'[p].grants.claims)
  /\ proc'[p].at = "publish-new" => proc'[p].grants.content = "current"
  /\ proc'[p].at = "scan" => Lists(p)'

\* A command that ends has nothing left to write.
LEMMA LeaveMoved ==
  ASSUME TypeInv, NEW p \in Procs, Leave(p)
  PROVE  Moved(p)
BY LeaveIsolated DEF Ended, Moved, OwnersSteps, Writing

\* A command that goes on with the claims it has.
LEMMA ProceedMoved ==
  ASSUME OwnershipInv, NEW p \in Procs, NEW step, Proceed(p, step),
         step \in OwnersSteps => proc[p].at \in OwnersSteps,
         step \in Writing => proc[p].at \in Writing,
         step \notin {"publish-new", "scan"}
  PROVE  Moved(p)
<1>1. /\ Isolated(p) /\ owners' = owners
      /\ proc'[p] = [proc[p] EXCEPT !.at = step] /\ proc'[p].at = step
  BY ProceedIsolated DEF OwnershipInv
<1>2. proc'[p].project = Mine(p) /\ proc'[p].grants = proc[p].grants
  BY <1>1 DEF Mine, OwnershipInv, TypeInv, ControlOK, Commandings
<1>3. step \in OwnersSteps => owners' = p
  BY <1>1 DEF OwnershipInv, OwnersHeld
<1>4. step \in Writing => Clear(Mine(p), proc'[p].grants.claims)
  BY <1>2 DEF OwnershipInv, WritesClear
<1>5. QED
  BY <1>1, <1>2, <1>3, <1>4 DEF Moved

\* Steps that are no owner's, and have read nothing of the kind.
LEMMA OutsideMoved ==
  ASSUME TypeInv, NEW p \in Procs, NEW r \in Commandings, proc' = [proc EXCEPT ![p] = r],
         owners' = owners, r.at \notin OwnersSteps
  PROVE  Moved(p)
<1>1. Isolated(p) /\ proc'[p] = r
  BY TakeIsolated
<1>2. QED
  BY <1>1 DEF Moved, OwnersSteps, Writing

\* A command that starts has nothing to write yet.
LEMMA StartMoved ==
  ASSUME OwnershipInv, NEW p \in Procs, Start(p)
  PROVE  Moved(p)
<1>1. PICK r \in Commandings : /\ proc' = [proc EXCEPT ![p] = r]
                               /\ r.at \in {"stop", "enter", "create", "recover"}
  BY StartForm DEF OwnershipInv
<1>2. owners' = owners
  BY DEF Start
<1>3. QED
  BY <1>1, <1>2, OutsideMoved DEF OwnershipInv, OwnersSteps

\* Neither has one that recovers its project.
LEMMA RecoverMoved ==
  ASSUME OwnershipInv, NEW p \in Procs, Recover(p) \/ OwnersTimeout(p) \/ Crash(p)
  PROVE  Moved(p)
<1>1. Leave(p) \/ Continue(p)
  BY DEF Recover, OwnersTimeout, Crash
<1>2. CASE Leave(p)
  BY <1>2, LeaveMoved DEF OwnershipInv
<1>3. CASE Continue(p) /\ ~Leave(p)
  <2>1. /\ proc' = [proc EXCEPT ![p].at = AfterRecovery(p),
                                ![p].running = Runs(p, Change) /\ vm[Mine(p)].alive]
        /\ UNCHANGED locks
    BY <1>3 DEF Continue
  <2>2. /\ \A q \in Procs \ {p} : proc'[q] = proc[q]
        /\ proc'[p].at = AfterRecovery(p) /\ owners' = owners
    BY <2>1 DEF OwnershipInv, TypeInv, ControlOK, Commandings, locks
  <2>3. AfterRecovery(p) \in {"allow", "remove", "save-port", "apply", "enter", "publish",
                              "delete", "idle"}
    BY DEF AfterRecovery
  <2>4. QED
    BY <2>2, <2>3 DEF Moved, Isolated, OwnersSteps, Writing
<1>4. QED
  BY <1>1, <1>2, <1>3

\* A listing has every directory with claims.
LEMMA ListingLists ==
  ASSUME OwnershipInv, NEW p \in Procs, UNCHANGED stores,
         Mine(p)' = Mine(p), proc'[p].listed = Listing(Mine(p))
  PROVE  Lists(p)'
<1>1. ASSUME NEW k \in Projects \ {Mine(p)}
      PROVE  /\ IsDir(store[k]) => <<k, "store">> \in Listing(Mine(p))
             /\ IsDir(backup[k]) => <<k, "backup">> \in Listing(Mine(p))
  BY DEF Listing, Places
<1>2. QED
  BY <1>1 DEF Lists, stores, OwnershipInv, ClaimsInDirs

\* What a scan has not found to be reserved is nobody's.
LEMMA UnreservedIsClear ==
  ASSUME OwnershipInv, NEW p \in Procs, At(p, "scan"),
         \A c \in proc[p].grants.claims : ~Reserved(p, c)
  PROVE  Clear(Mine(p), proc[p].grants.claims)
<1>1. SUFFICES ASSUME NEW k \in Projects \ {Mine(p)}, NEW c \in proc[p].grants.claims,
                      NEW d \in Held(k), Conflict(c, d)
               PROVE  FALSE
  BY DEF Clear
<1>2. Lists(p) /\ ~Reserved(p, c)
  BY DEF OwnershipInv, ScansAll
<1>3. \/ d \in Claimed(<<k, "store">>) /\ <<k, "store">> \in proc[p].listed
      \/ d \in Claimed(<<k, "backup">>) /\ <<k, "backup">> \in proc[p].listed
  BY <1>2 DEF Held, Lists, Claimed
<1>4. QED
  BY <1>1, <1>2, <1>3 DEF Reserved

\* A grant that passed the scan of the other directories is Clear (reserve, allow).
LEMMA ChangingMoved ==
  ASSUME OwnershipInv, NEW p \in Procs, Changing(p)
  PROVE  Moved(p)
<1>0. TypeInv
  BY DEF OwnershipInv
<1>1. CASE AllowDevice(p) /\ ~Leave(p)
  <2>1. /\ proc' = [proc EXCEPT ![p].at = "scan", ![p].listed = Listing(Mine(p)),
                                ![p].grants.claims = {Candidate(p)}]
        /\ owners = Nobody /\ owners' = p /\ UNCHANGED stores
    BY <1>1 DEF AllowDevice
  <2>2. /\ \A q \in Procs \ {p} : proc'[q] = proc[q]
        /\ proc'[p].at = "scan" /\ proc'[p].listed = Listing(Mine(p))
        /\ proc'[p].project = Mine(p)
    BY <1>0, <2>1 DEF TypeInv, ControlOK, Commandings, Mine
  <2>3. Lists(p)'
    BY <2>1, <2>2, ListingLists DEF Mine
  <2>4. Isolated(p)
    BY <2>1, <2>2, HostAccessAssumption DEF HostAccessAssumption, Isolated
  <2>5. QED
    BY <2>1, <2>2, <2>3, <2>4 DEF Moved, Writing
<1>2. CASE Scan(p) /\ ~Leave(p)
  <2>1. /\ At(p, "scan") /\ Proceed(p, "save")
        /\ \A c \in proc[p].grants.claims : ~Reserved(p, c)
    BY <1>2 DEF Scan
  <2>2. Clear(Mine(p), proc[p].grants.claims) /\ owners = p
    BY <2>1, UnreservedIsClear DEF OwnershipInv, OwnersHeld, OwnersSteps, At
  <2>3. /\ Isolated(p) /\ owners' = owners
        /\ proc'[p] = [proc[p] EXCEPT !.at = "save"] /\ proc'[p].at = "save"
    BY <1>0, <2>1, ProceedIsolated
  <2>4. proc'[p].project = Mine(p) /\ proc'[p].grants = proc[p].grants
    BY <1>0, <2>3 DEF Mine, TypeInv, ControlOK, Commandings
  <2>5. QED
    BY <2>2, <2>3, <2>4 DEF Moved
<1>3. CASE Proceed(p, "apply") \/ Proceed(p, "unsave-port")
  BY <1>3, ProceedMoved DEF OwnersSteps, Writing
<1>4. CASE Leave(p)
  BY <1>0, <1>4, LeaveMoved
<1>5. QED
  BY <1>1, <1>2, <1>3, <1>4 DEF Changing, AllowDevice, Scan, SaveDevice, RemoveDevice,
                                SavePort, ApplyPort, UnsavePort, PortFails

\* The activation of a VM writes no claims.
LEMMA BootingMoved ==
  ASSUME OwnershipInv, NEW p \in Procs, Booting(p)
  PROVE  Moved(p)
<1>0. TypeInv /\ proc[p] \in Commandings
  BY DEF OwnershipInv, TypeInv, ControlOK
<1>1. CASE Leave(p)
  BY <1>0, <1>1, LeaveMoved
<1>2. ASSUME NEW step \in {"boot", "forward", "record", "claim", "stop-clear"},
             \A q \in Procs \ {p} : proc'[q] = proc[q],
             proc'[p].at = step, owners' = owners
      PROVE  Moved(p)
  BY <1>2 DEF Moved, Isolated, OwnersSteps, Writing
<1>3. CASE (EnterVM(p) \/ Boot(p)) /\ ~Leave(p)
  <2>1. PICK step \in {"boot", "forward"} :
           /\ \A q \in Procs \ {p} : proc'[q] = proc[q]
           /\ proc'[p].at = step /\ owners' = owners
    BY <1>0, <1>3 DEF EnterVM, Boot, Goto, locks, TypeInv, ControlOK, Commandings
  <2>2. QED
    BY <1>2, <2>1
<1>4. ASSUME NEW step \in {"record", "claim", "stop-clear"}, Proceed(p, step)
      PROVE  Moved(p)
  <2>1. /\ \A q \in Procs \ {p} : proc'[q] = proc[q]
        /\ proc'[p].at = step /\ owners' = owners
    BY <1>0, <1>4, ProceedIsolated DEF Isolated
  <2>2. QED
    BY <1>2, <2>1
<1>5. CASE (ForwardPorts(p) \/ WriteRecord(p) \/ Stop(p)) /\ ~Leave(p)
  BY <1>4, <1>5 DEF ForwardPorts, WriteRecord, Stop
<1>6. ASSUME \A q \in Procs \ {p} : proc'[q] = proc[q],
             proc'[p].at \in {"activate", "attach"},
             (owners = p /\ owners' = p) \/ (owners = Nobody /\ owners' = p)
      PROVE  Moved(p)
  BY <1>6, HostAccessAssumption DEF HostAccessAssumption, Moved, Isolated, OwnersSteps, Writing
<1>7. CASE TakeOwners(p)
  <2>1. /\ \A q \in Procs \ {p} : proc'[q] = proc[q]
        /\ proc'[p].at = "activate" /\ owners = Nobody /\ owners' = p
    BY <1>0, <1>7 DEF TakeOwners, TypeInv, ControlOK, Commandings
  <2>2. QED
    BY <1>6, <2>1
<1>8. CASE (Activate(p) \/ Attach(p)) /\ ~Leave(p)
  <2>1. owners = p
    BY <1>8 DEF Activate, Attach, At, OwnershipInv, OwnersHeld, OwnersSteps
  <2>2. CASE Proceed(p, "attach")
    <3>1. /\ \A q \in Procs \ {p} : proc'[q] = proc[q]
          /\ proc'[p].at = "attach" /\ owners' = owners
      BY <1>0, <2>2, ProceedIsolated DEF Isolated
    <3>2. QED
      BY <1>6, <2>1, <3>1
  <2>3. ASSUME NEW c, Done(p, c) PROVE Moved(p)
    <3>1. /\ proc' = [proc EXCEPT ![p].at = "activate", ![p].grants.claims = @ \ {c}]
          /\ UNCHANGED locks
      BY <1>8, <2>3 DEF Done
    <3>2. /\ \A q \in Procs \ {p} : proc'[q] = proc[q]
          /\ proc'[p].at = "activate" /\ owners' = owners
      BY <1>0, <3>1 DEF TypeInv, ControlOK, Commandings, locks
    <3>3. QED
      BY <1>6, <2>1, <3>2
  <2>4. QED
    BY <1>8, <2>2, <2>3 DEF Activate, Attach
<1>9. QED
  BY <1>1, <1>3, <1>5, <1>7, <1>8 DEF Booting, StopClear

\* A store's own claims are Clear.
LEMMA OwnClaimsClear ==
  ASSUME ExclusiveOwnership, NEW j \in Projects
  PROVE  Clear(j, store[j].claims)
BY DEF ExclusiveOwnership, Clear, Held

\* What a new store takes over is its own, or a scan found it free.
LEMMA ReplacingMoved ==
  ASSUME OwnershipInv, NEW p \in Procs, Replacing(p)
  PROVE  Moved(p)
<1>0. TypeInv /\ proc[p] \in Commandings
  BY DEF OwnershipInv, TypeInv, ControlOK
<1>1. CASE Leave(p)
  BY <1>0, <1>1, LeaveMoved
<1>2. ASSUME NEW step \in {"publish-new", "delete-content"}, NEW grants,
             proc' = [proc EXCEPT ![p].at = step, ![p].grants = grants],
             step = "publish-new" => grants.content = "current",
             grants.claims = store[Mine(p)].claims, ~At(p, "idle"),
             owners = Nobody, owners' = p
      PROVE  Moved(p)
  <2>1. /\ \A q \in Procs \ {p} : proc'[q] = proc[q]
        /\ proc'[p].at = step /\ proc'[p].grants = grants /\ proc'[p].project = Mine(p)
    BY <1>0, <1>2 DEF TypeInv, ControlOK, Commandings, Mine
  <2>2. Clear(Mine(p), grants.claims)
    BY <1>0, <1>2, Mines, OwnClaimsClear DEF OwnershipInv
  <2>3. Isolated(p)
    BY <1>2, <2>1, HostAccessAssumption DEF HostAccessAssumption, Isolated
  <2>4. QED
    BY <1>2, <2>1, <2>2, <2>3 DEF Moved
<1>3. CASE Publish(p) \/ Delete(p)
  <2>1. ~At(p, "idle") /\ store[Mine(p)] \in Dirs
    BY <1>0, <1>3, Mines DEF Publish, Delete, At
  <2>2. Staged(Mine(p)).claims = store[Mine(p)].claims /\ Staged(Mine(p)).content = "current"
    BY <2>1 DEF Staged, Dirs
  <2>3. QED
    BY <1>2, <1>3, <2>1, <2>2 DEF Publish, Delete
<1>4. CASE (PublishNew(p) \/ PublishSync(p) \/ UndoNew(p)) /\ ~Leave(p)
  <2>1. PICK step \in {"publish-sync", "drop-backup", "undo-new", "undo-old"} :
          Proceed(p, step)
    BY <1>4 DEF PublishNew, PublishSync, UndoNew
  <2>2. proc[p].at \in OwnersSteps
    BY <1>4 DEF PublishNew, PublishSync, UndoNew, At, OwnersSteps
  <2>3. QED
    BY <2>1, <2>2, ProceedMoved DEF Writing
<1>5. CASE (DeleteContent(p) \/ DeleteClaims(p)) /\ ~Leave(p)
  <2>1. PICK step \in {"delete-claims", "delete-dir"} : Proceed(p, step)
    BY <1>5 DEF DeleteContent, DeleteClaims
  <2>2. proc[p].at \in OwnersSteps /\ proc[p].at \in Writing
    BY <1>5 DEF DeleteContent, DeleteClaims, At, OwnersSteps, Writing
  <2>3. QED
    BY <2>1, <2>2, ProceedMoved
<1>6. CASE Create(p) /\ ~Leave(p)
  <2>1. Proceed(p, "created")
    BY <1>6 DEF Create
  <2>2. QED
    BY <2>1, ProceedMoved DEF OwnersSteps, Writing
<1>7. QED
  BY <1>1, <1>3, <1>4, <1>5, <1>6 DEF Replacing, PublishNew, PublishSync, DropBackup, UndoNew,
     UndoOld, DeleteContent, DeleteClaims, DeleteDir, Create, Created

-----------------------------------------------------------------------------
(* What a step does to the claims                                          *)

\* The claims a command is about to write.
ToWrite(p, j) == IF j = Mine(p) /\ proc[p].at \in Writing THEN proc[p].grants.claims ELSE {}

\* A step adds no claim but those; and while another command has the owners lock, it
\* neither adds claims to a directory nor moves them to another one.
Kept(p) ==
  \A j \in Projects :
    /\ Held(j)' \subseteq Held(j) \cup ToWrite(p, j)
    /\ owners \notin {Nobody, p} =>
         store'[j].claims \subseteq store[j].claims /\ backup'[j].claims \subseteq backup[j].claims
    /\ store'[j].claims # {} => store'[j].content # "none"
    /\ backup'[j].claims # {} => backup'[j].content # "none"

\* It is enough to look at the project of the command.
LEMMA KeptByOthers ==
  ASSUME OwnershipInv, NEW p \in Procs,
         NEW j \in Projects, NEW d \in Dirs, NEW e \in Dirs,
         store' = [store EXCEPT ![j] = d], backup' = [backup EXCEPT ![j] = e],
         d.claims \cup e.claims \subseteq Held(j) \cup ToWrite(p, j),
         owners \notin {Nobody, p} =>
           d.claims \subseteq store[j].claims /\ e.claims \subseteq backup[j].claims,
         d.claims # {} => d.content # "none",
         e.claims # {} => e.content # "none"
  PROVE  Kept(p)
<1>1. ASSUME NEW k \in Projects
      PROVE  /\ store'[k] = IF k = j THEN d ELSE store[k]
             /\ backup'[k] = IF k = j THEN e ELSE backup[k]
  BY DEF OwnershipInv, TypeInv, WorldOK
<1>2. \A k \in Projects : /\ store[k].claims # {} => store[k].content # "none"
                          /\ backup[k].claims # {} => backup[k].content # "none"
  BY DEF OwnershipInv, ClaimsInDirs, IsDir
<1>3. QED
  BY <1>1, <1>2 DEF Kept, Held

\* A step that leaves stores and backups alone adds no claim.
LEMMA SameKept ==
  ASSUME OwnershipInv, NEW p \in Procs, UNCHANGED stores
  PROVE  Kept(p)
BY DEF Kept, Held, stores, OwnershipInv, ClaimsInDirs, IsDir


\* What is left of a directory has no other claims.
LEMMA RemovedKept ==
  ASSUME NEW d \in Dirs, NEW rest \in Dirs, Removed(d, rest)
  PROVE  rest.claims \subseteq d.claims /\ (rest.claims # {} => rest.content # "none")
BY DEF Removed, NoDir, Dirs

\* The same, for a step that changes one directory or moves one to the place of another.
LEMMA StoreKept ==
  ASSUME OwnershipInv, NEW p \in Procs, NEW j \in Projects, NEW d \in Dirs,
         store' = [store EXCEPT ![j] = d], UNCHANGED backup,
         d.claims \subseteq store[j].claims \cup ToWrite(p, j),
         owners \notin {Nobody, p} => d.claims \subseteq store[j].claims,
         d.claims # {} => d.content # "none"
  PROVE  Kept(p)
<1>1. backup[j] \in Dirs /\ backup' = [backup EXCEPT ![j] = backup[j]]
  BY DEF OwnershipInv, TypeInv, WorldOK
<1>2. backup[j].claims # {} => backup[j].content # "none"
  BY DEF OwnershipInv, ClaimsInDirs, IsDir
<1>3. d.claims \cup backup[j].claims \subseteq Held(j) \cup ToWrite(p, j)
  BY DEF Held
<1>4. QED
  BY <1>1, <1>2, <1>3, KeptByOthers

\* A change of the backup alone, with no claim it did not have.
LEMMA BackupKept ==
  ASSUME OwnershipInv, NEW p \in Procs, NEW j \in Projects, NEW e \in Dirs,
         backup' = [backup EXCEPT ![j] = e], UNCHANGED store,
         e.claims \subseteq backup[j].claims, e.claims # {} => e.content # "none"
  PROVE  Kept(p)
<1>1. store[j] \in Dirs /\ store' = [store EXCEPT ![j] = store[j]]
  BY DEF OwnershipInv, TypeInv, WorldOK
<1>2. store[j].claims # {} => store[j].content # "none"
  BY DEF OwnershipInv, ClaimsInDirs, IsDir
<1>3. store[j].claims \cup e.claims \subseteq Held(j) \cup ToWrite(p, j)
  BY DEF Held
<1>4. QED
  BY <1>1, <1>2, <1>3, KeptByOthers

\* A rename in the place of what is gone, or out of the way.
LEMMA MoveKept ==
  ASSUME OwnershipInv, NEW p \in Procs, NEW j \in Projects, owners \in {Nobody, p},
         \/ /\ store' = [store EXCEPT ![j] = backup[j]]
            /\ backup' = [backup EXCEPT ![j] = NoDir]
         \/ /\ backup' = [backup EXCEPT ![j] = store[j]]
            /\ store' = [store EXCEPT ![j] = NoDir]
  PROVE  Kept(p)
<1>1. store[j] \in Dirs /\ backup[j] \in Dirs /\ NoDir \in Dirs /\ NoDir.claims = {}
  BY DirsTyped DEF OwnershipInv, TypeInv, WorldOK, NoDir
<1>2. /\ store[j].claims # {} => store[j].content # "none"
      /\ backup[j].claims # {} => backup[j].content # "none"
  BY DEF OwnershipInv, ClaimsInDirs, IsDir
<1>3. store[j].claims \cup NoDir.claims \subseteq Held(j) \cup ToWrite(p, j)
      /\ backup[j].claims \cup NoDir.claims \subseteq Held(j) \cup ToWrite(p, j)
  BY <1>1 DEF Held
<1>4. QED
  BY <1>1, <1>2, <1>3, KeptByOthers

\* Recovery only moves a directory to the place of another of its project.
LEMMA RecoverKept ==
  ASSUME OwnershipInv, NEW p \in Procs, Recover(p)
  PROVE  Kept(p)
<1> DEFINE j == Mine(p)
<1>0. j \in Projects /\ backup[j] \in Dirs
  BY Mines DEF Recover, At, OwnershipInv
<1>1. CASE UNCHANGED stores
  BY <1>1, SameKept
<1>2. ASSUME NEW rest \in Dirs, Removed(backup[j], rest),
             backup' = [backup EXCEPT ![j] = rest], UNCHANGED store
      PROVE  Kept(p)
  BY <1>0, <1>2, RemovedKept, BackupKept
<1>3. CASE /\ owners = Nobody /\ store' = [store EXCEPT ![j] = backup[j]]
           /\ backup' = [backup EXCEPT ![j] = NoDir]
  BY <1>0, <1>3, MoveKept
<1>4. QED
  BY <1>1, <1>2, <1>3 DEF Recover

\* Changing a grant adds at most the claim it has scanned for.
LEMMA ChangingKept ==
  ASSUME OwnershipInv, NEW p \in Procs, Changing(p)
  PROVE  Kept(p)
<1> DEFINE j == Mine(p)
<1>0. /\ j \in Projects /\ store[j] \in Dirs /\ proc[p].grants \in Dirs
      /\ store \in [Projects -> Dirs]
      /\ store[j].claims # {} => store[j].content # "none"
      /\ proc[p].op \in PortChange => proc[p].resource \in Ports
  BY Mines DEF Changing, AllowDevice, Scan, SaveDevice, RemoveDevice, SavePort, ApplyPort,
               UnsavePort, At, OwnershipInv, TypeInv, WorldOK, ClaimsInDirs, IsDir
<1>1. CASE UNCHANGED stores
  BY <1>1, SameKept
<1>2. CASE SaveDevice(p) /\ IsDir(store[j])
  <2> DEFINE claims == store[j].claims \cup proc[p].grants.claims
             d == [store[j] EXCEPT !.claims = claims]
  <2>1. store' = [store EXCEPT ![j].claims = @ \cup proc[p].grants.claims] /\ UNCHANGED backup
    BY <1>2 DEF SaveDevice
  <2>2. claims \in SUBSET Claims
    BY <1>0 DEF Dirs
  <2>3. store' = [store EXCEPT ![j] = d]
    BY <1>0, <2>1
  <2>4. d \in Dirs /\ d.claims = claims /\ d.content = store[j].content
    BY <1>0, <2>2 DEF Dirs
  <2>5. proc[p].at \in Writing /\ proc[p].at \in OwnersSteps
    BY <1>2 DEF SaveDevice, At, Writing, OwnersSteps
  <2>6. ToWrite(p, j) = proc[p].grants.claims /\ owners = p
    BY <2>5 DEF ToWrite, OwnershipInv, OwnersHeld
  <2> HIDE DEF d
  <2>7. QED
    BY <1>0, <1>2, <2>1, <2>3, <2>4, <2>6, StoreKept DEF IsDir
<1>3. CASE RemoveDevice(p)
  <2> DEFINE removed == {c \in store[j].claims : c.path = proc[p].resource}
             d == [store[j] EXCEPT !.claims = store[j].claims \ removed]
  <2>1. \/ store' = [store EXCEPT ![j].claims = @ \ removed] /\ UNCHANGED backup
        \/ UNCHANGED stores
    BY <1>3 DEF RemoveDevice, stores
  <2> HIDE DEF removed
  <2>2. store[j].claims \ removed \in SUBSET Claims
    BY <1>0 DEF Dirs
  <2>3. (store' = [store EXCEPT ![j] = d] /\ UNCHANGED backup) \/ UNCHANGED stores
    BY <1>0, <2>1
  <2>4. d \in Dirs /\ d.claims = store[j].claims \ removed /\ d.content = store[j].content
    BY <1>0, <2>2 DEF Dirs
  <2> HIDE DEF d
  <2>5. QED
    BY <1>0, <2>3, <2>4, StoreKept, SameKept
<1>4. CASE (SavePort(p) \/ UnsavePort(p)) /\ ~UNCHANGED stores
  <2> DEFINE with(ports) == [store[j] EXCEPT !.ports = ports]
  <2>0. proc[p].resource \in Ports
    BY <1>0, <1>4 DEF SavePort, UnsavePort, At, OwnershipInv, TypeInv, ControlOK, Fit
  <2>1. /\ store[j].ports \cup {proc[p].resource} \in SUBSET Ports
        /\ store[j].ports \ {proc[p].resource} \in SUBSET Ports
    BY <1>0, <2>0 DEF Dirs
  <2>2. PICK ports \in SUBSET Ports : store' = [store EXCEPT ![j] = with(ports)]
    <3>1. CASE SavePort(p)
      <4>1. store' = [store EXCEPT ![j].ports = @ \cup {proc[p].resource}]
        BY <1>4, <3>1 DEF SavePort, stores
      <4>2. store' = [store EXCEPT ![j] = with(store[j].ports \cup {proc[p].resource})]
        BY <1>0, <4>1
      <4>3. QED
        BY <2>1, <4>2
    <3>2. CASE UnsavePort(p)
      <4>1. store' = [store EXCEPT ![j].ports = @ \ {proc[p].resource}]
        BY <3>2 DEF UnsavePort
      <4>2. store' = [store EXCEPT ![j] = with(store[j].ports \ {proc[p].resource})]
        BY <1>0, <4>1
      <4>3. QED
        BY <2>1, <4>2
    <3>3. QED
      BY <1>4, <3>1, <3>2
  <2>3. /\ with(ports) \in Dirs /\ with(ports).claims = store[j].claims
        /\ with(ports).content = store[j].content
    BY <1>0 DEF Dirs
  <2>4. UNCHANGED backup
    BY <1>4 DEF SavePort, UnsavePort
  <2> HIDE DEF with
  <2>5. QED
    BY <1>0, <2>2, <2>3, <2>4, StoreKept
<1>5. QED
  BY <1>1, <1>2, <1>3, <1>4 DEF Changing, AllowDevice, Scan, SaveDevice, ApplyPort, stores

\* Replacing, deleting and creating a store add at most what they had to write.
LEMMA ReplacingKept ==
  ASSUME OwnershipInv, NEW p \in Procs, Replacing(p)
  PROVE  Kept(p)
<1> DEFINE j == Mine(p)
<1>0. /\ j \in Projects /\ store[j] \in Dirs /\ backup[j] \in Dirs
      /\ proc[p].grants \in Dirs /\ store \in [Projects -> Dirs]
      /\ store[j].claims # {} => store[j].content # "none"
  BY Mines DEF Replacing, Publish, PublishNew, PublishSync, DropBackup, UndoNew, UndoOld, Delete,
               DeleteContent, DeleteClaims, DeleteDir, Create, Created, At,
               OwnershipInv, TypeInv, WorldOK, ClaimsInDirs, IsDir
<1>1. CASE UNCHANGED stores
  BY <1>1, SameKept
<1>2. NoDir \in Dirs /\ NoDir.claims = {}
  BY DirsTyped DEF NoDir
<1>3. proc[p].at \in OwnersSteps => owners = p
  BY DEF OwnershipInv, OwnersHeld
<1>4. CASE Publish(p)
  BY <1>0, <1>4, MoveKept DEF Publish
<1>5. CASE PublishNew(p)
  <2>1. owners = p /\ proc[p].at \in Writing /\ proc[p].grants.content = "current"
    BY <1>3, <1>5 DEF PublishNew, At, OwnersSteps, Writing, OwnershipInv, StagedInDir
  <2>2. ToWrite(p, j) = proc[p].grants.claims
    BY <2>1 DEF ToWrite
  <2>3. CASE store' = [store EXCEPT ![j] = proc[p].grants] /\ UNCHANGED backup
    BY <1>0, <2>1, <2>2, <2>3, StoreKept
  <2>4. CASE /\ store' = [store EXCEPT ![j] = backup[j]]
             /\ backup' = [backup EXCEPT ![j] = NoDir]
    BY <1>0, <2>1, <2>4, MoveKept
  <2>5. QED
    BY <1>5, <2>3, <2>4 DEF PublishNew
<1>6. CASE DropBackup(p)
  <2>1. PICK rest \in Dirs : /\ Removed(backup[j], rest) /\ backup' = [backup EXCEPT ![j] = rest]
                             /\ UNCHANGED store
    BY <1>6 DEF DropBackup
  <2>2. QED
    BY <1>0, <2>1, RemovedKept, BackupKept
<1>7. CASE UndoNew(p)
  <2>1. PICK rest \in Dirs : /\ Removed(store[j], rest) /\ store' = [store EXCEPT ![j] = rest]
                             /\ UNCHANGED backup
    BY <1>7 DEF UndoNew
  <2>2. rest.claims \subseteq store[j].claims /\ (rest.claims # {} => rest.content # "none")
    BY <1>0, <2>1, RemovedKept
  <2>3. QED
    BY <1>0, <2>1, <2>2, StoreKept
<1>8. CASE UndoOld(p) /\ ~UNCHANGED stores
  <2>1. owners = p
    BY <1>3, <1>8 DEF UndoOld, At, OwnersSteps
  <2>2. QED
    BY <1>0, <1>8, <2>1, MoveKept DEF UndoOld
<1>9. CASE DeleteContent(p) \/ Created(p)
  <2> DEFINE with(content) == [store[j] EXCEPT !.content = content]
  <2>1. \A content \in {"partial", "current"} :
          /\ with(content) \in Dirs /\ with(content).claims = store[j].claims
          /\ with(content).content = content
    BY <1>0 DEF Dirs, Contents
  <2>2. \/ \E content \in {"partial", "current"} : store' = [store EXCEPT ![j] = with(content)]
        \/ store' = [store EXCEPT ![j] = NoDir]
    BY <1>0, <1>9 DEF DeleteContent, Created
  <2>3. UNCHANGED backup
    BY <1>9 DEF DeleteContent, Created
  <2> HIDE DEF with
  <2>4. CASE store' = [store EXCEPT ![j] = NoDir]
    BY <1>0, <1>2, <2>3, <2>4, StoreKept
  <2>5. ASSUME NEW content \in {"partial", "current"}, store' = [store EXCEPT ![j] = with(content)]
        PROVE  Kept(p)
    BY <1>0, <2>1, <2>3, <2>5, StoreKept
  <2>6. QED
    BY <2>2, <2>4, <2>5
<1>10. CASE DeleteClaims(p) \/ (Create(p) /\ ~UNCHANGED stores)
  <2> DEFINE bare(content) == [NoDir EXCEPT !.content = content]
  <2>1. \A content \in {"partial", "empty"} :
          bare(content) \in Dirs /\ bare(content).claims = {}
    BY <1>2, DirsTyped DEF Contents, NoDir
  <2>2. \E content \in {"partial", "empty"} : store' = [store EXCEPT ![j] = bare(content)]
    BY <1>10 DEF DeleteClaims, Create, stores
  <2>3. UNCHANGED backup
    BY <1>10 DEF DeleteClaims, Create
  <2> HIDE DEF bare
  <2>4. QED
    BY <1>0, <2>1, <2>2, <2>3, StoreKept
<1>11. CASE DeleteDir(p)
  <2> DEFINE d == [proc[p].grants EXCEPT !.content = "partial"]
  <2>1. owners = p /\ proc[p].at \in Writing
    BY <1>3, <1>11 DEF DeleteDir, At, OwnersSteps, Writing
  <2>2. ToWrite(p, j) = proc[p].grants.claims
    BY <2>1 DEF ToWrite
  <2>3. d \in Dirs /\ d.claims = proc[p].grants.claims /\ d.content = "partial"
    BY <1>0 DEF Dirs, Contents
  <2>4. (store' = [store EXCEPT ![j] = NoDir] \/ store' = [store EXCEPT ![j] = d])
        /\ UNCHANGED backup
    BY <1>11 DEF DeleteDir
  <2> HIDE DEF d
  <2>5. QED
    BY <1>0, <1>2, <2>1, <2>2, <2>3, <2>4, StoreKept
<1>12. QED
  BY <1>1, <1>4, <1>5, <1>6, <1>7, <1>8, <1>9, <1>10, <1>11
  DEF Replacing, PublishSync, Delete, UndoOld, Create, stores

-----------------------------------------------------------------------------
(* The invariant                                                           *)

\* Two claims conflict whichever is looked at first.
LEMMA ConflictSymmetric == \A c, d : Conflict(c, d) => Conflict(d, c)
BY DEF Conflict

\* Whatever leaves the other commands alone and writes only what is Clear keeps the
\* invariant.
LEMMA OwnershipKept ==
  ASSUME OwnershipInv, TypeInv', NEW p \in Procs, Moved(p), Kept(p)
  PROVE  OwnershipInv'
<1>1. OwnersHeld'
  BY HeldStep DEF Moved, OwnershipInv
<1>2. ClaimsInDirs'
  BY DEF Kept, ClaimsInDirs, IsDir
<1>3. ExclusiveOwnership'
  <2>1. SUFFICES ASSUME NEW j \in Projects, NEW k \in Projects, j # k,
                        NEW c \in Held(j)', NEW d \in Held(k)'
                 PROVE  ~Conflict(c, d)
    BY DEF ExclusiveOwnership
  <2>2. c \in Held(j) \cup ToWrite(p, j) /\ d \in Held(k) \cup ToWrite(p, k)
    BY DEF Kept
  <2>3. CASE c \in Held(j) /\ d \in Held(k)
    BY <2>1, <2>3 DEF OwnershipInv, ExclusiveOwnership
  <2>4. ASSUME NEW l \in Projects, NEW m \in Projects, l # m,
               NEW e \in ToWrite(p, l), NEW f \in Held(m) \cup ToWrite(p, m)
        PROVE  ~Conflict(e, f)
    <3>1. l = Mine(p) /\ proc[p].at \in Writing /\ e \in proc[p].grants.claims /\ f \in Held(m)
      BY <2>4 DEF ToWrite
    <3>2. QED
      BY <2>4, <3>1 DEF OwnershipInv, WritesClear, Clear
  <2>5. QED
    BY <2>1, <2>2, <2>3, <2>4, ConflictSymmetric
<1>4. WritesClear'
  <2>1. SUFFICES ASSUME NEW q \in Procs, proc'[q].at \in Writing,
                        NEW k \in Projects, k # proc'[q].project,
                        NEW c \in proc'[q].grants.claims, NEW d \in Held(k)'
                 PROVE  ~Conflict(c, d)
    BY DEF WritesClear, Clear, Mine
  <2>2. CASE q = p
    <3>1. proc'[p].project = Mine(p) /\ Clear(Mine(p), proc'[p].grants.claims)
      BY <2>1, <2>2 DEF Moved
    <3>2. d \in Held(k)
      BY <2>1, <2>2, <3>1 DEF Kept, ToWrite
    <3>3. QED
      BY <2>1, <2>2, <3>1, <3>2 DEF Clear
  <2>3. CASE q # p
    <3>1. proc'[q] = proc[q]
      BY <2>3 DEF Moved, Isolated
    <3>2. owners = q
      BY <2>1, <3>1 DEF OwnershipInv, OwnersHeld, OwnersSteps, Writing
    <3>3. proc[p].at \notin Writing
      BY <2>3, <3>2 DEF OwnershipInv, OwnersHeld, OwnersSteps, Writing
    <3>4. d \in Held(k)
      BY <3>3 DEF Kept, ToWrite
    <3>5. QED
      BY <2>1, <3>1, <3>4 DEF OwnershipInv, WritesClear, Clear, Mine
  <2>4. QED
    BY <2>2, <2>3
<1>5. StagedInDir'
  BY DEF StagedInDir, At, Moved, Isolated, OwnershipInv
<1>6. ScansAll'
  <2>1. SUFFICES ASSUME NEW q \in Procs, proc'[q].at = "scan"
                 PROVE  Lists(q)'
    BY DEF ScansAll, At
  <2>2. CASE q = p
    BY <2>1, <2>2 DEF Moved
  <2>3. CASE q # p
    <3>1. proc'[q] = proc[q] /\ Lists(q)
      BY <2>1, <2>3 DEF Moved, Isolated, OwnershipInv, ScansAll, At
    <3>2. owners = q /\ owners \notin {Nobody, p}
      BY <2>1, <2>3, <3>1, HostAccessAssumption
      DEF OwnershipInv, OwnersHeld, OwnersSteps, HostAccessAssumption
    <3>3. \A k \in Projects : /\ store'[k].claims \subseteq store[k].claims
                              /\ backup'[k].claims \subseteq backup[k].claims
      BY <3>2 DEF Kept
    <3>4. QED
      BY <3>1, <3>3 DEF Lists, Mine
  <2>4. QED
    BY <2>2, <2>3
<1>7. QED
  BY <1>1, <1>2, <1>3, <1>4, <1>5, <1>6 DEF OwnershipInv

\* A step outside zaigr changes neither commands nor directories.
LEMMA OwnershipOutside ==
  ASSUME OwnershipInv, TypeInv', UNCHANGED <<proc, locks, stores>>
  PROVE  OwnershipInv'
<1>1. (OwnersHeld /\ StagedInDir)'
  BY DEF OwnershipInv, OwnersHeld, StagedInDir, At, locks
<1>2. (ClaimsInDirs /\ ExclusiveOwnership)'
  BY DEF OwnershipInv, ClaimsInDirs, IsDir, ExclusiveOwnership, Held, stores
<1>3. WritesClear'
  BY DEF OwnershipInv, WritesClear, Clear, Held, Mine, stores
<1>4. ScansAll'
  BY DEF OwnershipInv, ScansAll, Lists, At, Mine, stores
<1>5. QED
  BY <1>1, <1>2, <1>3, <1>4 DEF OwnershipInv

\* At first there are no claims.
LEMMA OwnershipInit == Init => OwnershipInv
<1> SUFFICES ASSUME Init PROVE OwnershipInv
  OBVIOUS
<1>1. TypeInv
  BY InitControl, InitWorld DEF TypeInv
<1>2. \A p \in Procs : proc[p].at = "idle"
  BY DEF Init, Ended
<1>3. \A j \in Projects : store[j].claims = {} /\ backup[j].claims = {}
  BY DEF Init, NoDir
<1>4. QED
  BY <1>1, <1>2, <1>3 DEF OwnershipInv, OwnersHeld, OwnersSteps, ClaimsInDirs, WritesClear,
     Writing, StagedInDir, ScansAll, At, ExclusiveOwnership, Held

\* Every step keeps the inductive invariant: it is Moved and Kept.
LEMMA OwnershipStep == OwnershipInv /\ [Next]_vars => OwnershipInv'
<1> SUFFICES ASSUME OwnershipInv, [Next]_vars PROVE OwnershipInv'
  OBVIOUS
<1>0. TypeInv'
  BY TypeStep DEF OwnershipInv
<1>1. ASSUME NEW p \in Procs, Start(p) PROVE OwnershipInv'
  BY <1>0, <1>1, StartMoved, SameKept, OwnershipKept DEF Start
<1>2. ASSUME NEW p \in Procs, Recover(p) PROVE OwnershipInv'
  BY <1>0, <1>2, RecoverMoved, RecoverKept, OwnershipKept
<1>3. ASSUME NEW p \in Procs, OwnersTimeout(p) \/ Crash(p) PROVE OwnershipInv'
  BY <1>0, <1>3, RecoverMoved, SameKept, OwnershipKept DEF OwnersTimeout, Crash
<1>4. ASSUME NEW p \in Procs, Changing(p) PROVE OwnershipInv'
  BY <1>0, <1>4, ChangingMoved, ChangingKept, OwnershipKept
<1>5. ASSUME NEW p \in Procs, Booting(p) PROVE OwnershipInv'
  <2>1. UNCHANGED stores
    BY <1>5 DEF Booting, EnterVM, Boot, ForwardPorts, WriteRecord, TakeOwners, Activate, Attach,
                Stop, StopClear
  <2>2. QED
    BY <1>0, <1>5, <2>1, BootingMoved, SameKept, OwnershipKept
<1>6. ASSUME NEW p \in Procs, Replacing(p) PROVE OwnershipInv'
  BY <1>0, <1>6, ReplacingMoved, ReplacingKept, OwnershipKept
<1>7. CASE \/ \E j \in Projects : VMEnds(j)
           \/ \E path \in Paths : Replug(path)
           \/ UNCHANGED vars
  BY <1>0, <1>7, OwnershipOutside DEF VMEnds, Replug, vars
<1>8. QED
  BY <1>1, <1>2, <1>3, <1>4, <1>5, <1>6, <1>7 DEF Next

\* No path and no device is ever reserved by two projects, for any number of commands,
\* projects, devices, crashes and failures: the owners lock, the scan under it and the
\* renames of clean and recovery fit together.
THEOREM OwnershipIsExclusive == Spec => []ExclusiveOwnership
<1>1. OwnershipInv => ExclusiveOwnership
  BY DEF OwnershipInv
<1>2. QED
  BY <1>1, OwnershipInit, OwnershipStep, PTL DEF Spec
=============================================================================
