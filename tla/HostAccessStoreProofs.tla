----------------------- MODULE HostAccessStoreProofs ------------------------
(***************************************************************************)
(* More proofs about HostAccess: what the VMs of the projects use is       *)
(* saved, and what the user was granted stays, for every set of commands,  *)
(* projects, paths, devices and ports.                                     *)
(***************************************************************************)
EXTENDS HostAccessProofs

-----------------------------------------------------------------------------
(* The commands and their locks                                            *)

ChangeSteps == {"allow", "scan", "save", "remove", "save-port", "apply", "unsave-port"}
BootSteps == {"boot", "forward", "record", "claim", "activate", "attach"}
StopSteps == {"stop", "stop-clear"}
CleanSteps == {"publish", "publish-new", "publish-sync", "drop-backup", "undo-new", "undo-old"}
DeleteSteps == {"delete", "delete-content", "delete-claims", "delete-dir"}
CreateSteps == {"create", "created"}

\* A command is at a step of its operation.
Placed(r) ==
  /\ r.at = "idle" => r.op = None
  /\ r.at # "idle" => r.op \in Commands
  /\ r.at \in ChangeSteps => r.op \in Change
  /\ r.at = "unsave-port" => r.op = "remove port"
  /\ r.at \in BootSteps \cup {"enter"} => r.op \in {"vm start", "shell"}
  /\ r.at \in StopSteps => r.op = "vm stop"
  /\ r.at \in CleanSteps => r.op = "clean"
  /\ r.at \in DeleteSteps => r.op = "delete"
  /\ r.at \in CreateSteps => r.op = "shell"
  /\ r.at = "recover" => r.op \notin {"shell", "vm stop"}

GateOf(r) ==
  IF r.at = "idle" THEN "none" ELSE IF r.op \in Exclusive THEN "exclusive" ELSE "shared"

\* The commands that hold the project's .host-access lock.
NeedsHostLock(r) == r.op \in Change \cup {"delete"} \/ r.at \in BootSteps

GatesHeld ==
  /\ \A p \in Procs : Placed(proc[p]) /\ gate[p] = GateOf(proc[p])
  /\ \A p, q \in Procs : p # q /\ ~At(q, "idle") /\ Mine(p) = Mine(q) =>
       proc[p].op \notin Exclusive

HostLocksHeld == \A p \in Procs : NeedsHostLock(proc[p]) => hostLock[Mine(p)] = p

CreatesAlone ==
  \A p, q \in Procs : p # q /\ Mine(p) = Mine(q) =>
    ~(proc[p].at \in CreateSteps /\ proc[q].at \in CreateSteps)

Order == TypeInv /\ GatesHeld /\ HostLocksHeld /\ CreatesAlone

\* A command that goes on with a step, and keeps its operation, its project and its gate.
Goes(p, step) ==
  /\ \A q \in Procs \ {p} : proc'[q] = proc[q]
  /\ proc'[p].op = proc[p].op /\ proc'[p].project = proc[p].project
  /\ proc'[p].resource = proc[p].resource /\ proc'[p].at = step
  /\ UNCHANGED gate

\* A command that ends.
Ends(p) ==
  /\ \A q \in Procs \ {p} : proc'[q] = proc[q]
  /\ proc'[p] = Ended

\* Which steps may follow which, with the locks the command has.
Follows(p, step) ==
  /\ ~At(p, "idle") /\ step # "idle"
  /\ Placed([proc[p] EXCEPT !.at = step])
  /\ step \in BootSteps => hostLock'[Mine(p)] = p
  /\ step \in CreateSteps => proc[p].at \in CreateSteps

\* A command that ends leaves the others as they are.
LEMMA LeaveEnds ==
  ASSUME TypeInv, NEW p \in Procs, Leave(p)
  PROVE  Ends(p)
BY LeaveIsolated DEF Isolated, Ends

\* A command that only proceeds keeps all it has read.
LEMMA ProceedGoes ==
  ASSUME TypeInv, NEW p \in Procs, NEW step, Proceed(p, step)
  PROVE  /\ Goes(p, step) /\ UNCHANGED locks
         /\ proc'[p].grants = proc[p].grants /\ proc'[p].running = proc[p].running
<1>1. /\ Isolated(p) /\ proc[p] \in Commandings
      /\ proc'[p] = [proc[p] EXCEPT !.at = step] /\ proc'[p].at = step
  BY ProceedIsolated DEF TypeInv, ControlOK
<1>2. QED
  BY <1>1 DEF Goes, Isolated, Commandings, Proceed, locks

\* A command that needs the .host-access lock has it.
LEMMA HoldsHostLock ==
  ASSUME Order, NEW p \in Procs, NeedsHostLock(proc[p])
  PROVE  ~At(p, "idle") /\ Mine(p) \in Projects /\ hostLock[Mine(p)] = p
<1>1. ~At(p, "idle")
  BY HostAccessAssumption
  DEF Order, GatesHeld, Placed, NeedsHostLock, At, BootSteps, HostAccessAssumption, Commands,
      Exclusive
<1>2. QED
  BY <1>1, Mines DEF Order, HostLocksHeld

\* A command that ends leaves the order of the others.
LEMMA LeaveOrder ==
  ASSUME Order, TypeInv', NEW p \in Procs, Leave(p)
  PROVE  Order'
<1>1. Ends(p)
  BY LeaveEnds DEF Order
<1>2. GatesHeld'
  <2>1. \A q \in Procs : Placed(proc'[q]) /\ gate'[q] = GateOf(proc'[q])
    <3>1. Placed(Ended) /\ GateOf(Ended) = "none"
      BY DEF Ended, Placed, GateOf, ChangeSteps, BootSteps, StopSteps, CleanSteps, DeleteSteps,
         CreateSteps
    <3>2. gate'[p] = "none" /\ \A q \in Procs \ {p} : gate'[q] = gate[q]
      BY DEF Leave, Order, TypeInv, ControlOK
    <3>3. QED
      BY <1>1, <3>1, <3>2 DEF Order, GatesHeld, Ends
  <2>2. None \notin Exclusive
    BY HostAccessAssumption DEF HostAccessAssumption, Exclusive, Commands
  <2>3. QED
    BY <1>1, <2>1, <2>2 DEF Order, GatesHeld, Ends, Ended, At, Mine
<1>3. HostLocksHeld'
  <2>1. None \notin Change \cup {"delete"}
    BY HostAccessAssumption DEF HostAccessAssumption, Commands, Exclusive
  <2>2. ~NeedsHostLock(Ended)
    BY <2>1 DEF NeedsHostLock, Ended, BootSteps
  <2>3. ASSUME NEW q \in Procs, NeedsHostLock(proc'[q]) PROVE hostLock'[Mine(q)'] = q
    <3>1. q # p /\ proc'[q] = proc[q]
      BY <1>1, <2>2, <2>3 DEF Ends
    <3>2. hostLock[Mine(q)] = q /\ Mine(q)' = Mine(q) /\ Mine(q) \in Projects
      BY <2>3, <3>1, HoldsHostLock DEF Mine
    <3>3. QED
      BY <3>1, <3>2 DEF Leave
  <2>4. QED
    BY <2>3 DEF HostLocksHeld
<1>4. CreatesAlone'
  BY <1>1 DEF Order, CreatesAlone, Ends, Ended, CreateSteps, Mine
<1>5. QED
  BY <1>2, <1>3, <1>4 DEF Order

\* A command that goes on keeps the order.
LEMMA GoesOrder ==
  ASSUME Order, TypeInv', NEW p \in Procs, NEW step, Goes(p, step), Follows(p, step),
         \A j \in Projects : hostLock[j] \in Procs => hostLock'[j] = hostLock[j]
  PROVE  Order'
<1>1. /\ proc[p] \in Commandings /\ proc'[p] \in Commandings /\ Mine(p) \in Projects
      /\ \A q \in Procs : Mine(q)' = Mine(q)
  BY Mines DEF Order, TypeInv, ControlOK, Follows, Goes, Mine
<1>2. GatesHeld'
  <2>1. Placed(proc'[p]) /\ GateOf(proc'[p]) = GateOf(proc[p])
    BY <1>1 DEF Goes, Follows, Placed, GateOf, At, Commandings
  <2>2. \A q \in Procs : Placed(proc'[q]) /\ gate'[q] = GateOf(proc'[q])
    BY <2>1 DEF Order, GatesHeld, Goes
  <2>3. \A q \in Procs : proc'[q].op = proc[q].op /\ (At(q, "idle")' <=> At(q, "idle"))
    BY DEF Goes, Follows, At
  <2>4. QED
    BY <1>1, <2>2, <2>3 DEF Order, GatesHeld
<1>3. HostLocksHeld'
  <2>1. ASSUME NEW q \in Procs, NeedsHostLock(proc'[q]) PROVE hostLock'[Mine(q)] = q
    <3>1. CASE NeedsHostLock(proc[q])
      BY <3>1, HoldsHostLock
    <3>2. CASE ~NeedsHostLock(proc[q])
      BY <2>1, <3>2 DEF Goes, Follows, NeedsHostLock
    <3>3. QED
      BY <3>1, <3>2
  <2>2. QED
    BY <1>1, <2>1 DEF HostLocksHeld
<1>4. CreatesAlone'
  BY <1>1 DEF Order, CreatesAlone, Goes, Follows
<1>5. QED
  BY <1>2, <1>3, <1>4 DEF Order

\* A command that starts takes the gate and the lock it needs, or none of it.
LEMMA StartOrder ==
  ASSUME Order, TypeInv', NEW p \in Procs, Start(p)
  PROVE  Order'
<1>1. PICK j \in Projects, command \in Operations :
        /\ Free(p, j, command) /\ At(p, "idle")
        /\ gate' = [gate EXCEPT ![p] = IF command \in Exclusive THEN "exclusive" ELSE "shared"]
        /\ TakesHostLock(command) => hostLock[j] = Nobody
        /\ hostLock' = IF TakesHostLock(command) THEN [hostLock EXCEPT ![j] = p] ELSE hostLock
        /\ \E resource \in CASE command \in DeviceChange -> Paths
                             [] command \in PortChange -> Ports
                             [] OTHER -> {None} :
             proc' = [proc EXCEPT ![p].op = command, ![p].project = j,
               ![p].resource = resource,
               ![p].at = CASE command = "vm stop" -> "stop"
                           [] command = "shell" -> IF Initialized(j) THEN "enter" ELSE "create"
                           [] OTHER -> "recover"]
        /\ command = "shell" /\ ~Initialized(j) =>
             \A q \in Procs : ~(proc[q].at \in {"create", "created"} /\ Mine(q) = j)
  BY DEF Start
<1>2. command \in Commands /\ None \notin Commands
  BY HostAccessAssumption DEF HostAccessAssumption
<1> DEFINE step == CASE command = "vm stop" -> "stop"
                     [] command = "shell" -> IF Initialized(j) THEN "enter" ELSE "create"
                     [] OTHER -> "recover"
<1>3. PICK resource :
        proc' = [proc EXCEPT ![p].op = command, ![p].project = j, ![p].resource = resource,
                             ![p].at = step]
  BY <1>1
<1>4. /\ command = "vm stop" => step = "stop"
      /\ command = "shell" => step = IF Initialized(j) THEN "enter" ELSE "create"
      /\ command \notin {"vm stop", "shell"} => step = "recover"
  OBVIOUS
<1> HIDE DEF step
<1>5. /\ \A q \in Procs \ {p} : proc'[q] = proc[q]
      /\ proc'[p].op = command /\ proc'[p].project = j /\ proc'[p].at = step
  BY <1>3 DEF Order, TypeInv, ControlOK, Commandings
<1>6. GatesHeld'
  <2>1. Placed(proc'[p]) /\ step # "idle" /\ gate'[p] = GateOf(proc'[p])
    BY <1>1, <1>2, <1>5, <1>4
    DEF Placed, GateOf, Commands, Exclusive, ChangeSteps, BootSteps, StopSteps, CleanSteps,
        DeleteSteps, CreateSteps, Order, TypeInv, ControlOK
  <2>2. ASSUME NEW q \in Procs, q # p, ~At(q, "idle"), Mine(q) = j
        PROVE  command \notin Exclusive /\ proc[q].op \notin Exclusive
    BY <1>1, <2>2 DEF Free, Order, GatesHeld, GateOf, At
  <2>3. ASSUME NEW q \in Procs, NEW s \in Procs, q # s, ~At(s, "idle")', Mine(q)' = Mine(s)'
        PROVE  proc'[q].op \notin Exclusive
    <3>1. CASE q = p
      BY <1>5, <2>2, <2>3, <3>1 DEF Mine, At
    <3>2. CASE s = p
      <4>1. proc'[q] = proc[q] /\ Mine(q) = j
        BY <1>5, <2>3, <3>2 DEF Mine
      <4>2. CASE At(q, "idle")
        BY <4>1, <4>2, <1>2 DEF Order, GatesHeld, Placed, At, Commands
      <4>3. QED
        BY <2>2, <2>3, <3>2, <4>1, <4>2
    <3>3. CASE q # p /\ s # p
      BY <1>5, <2>3, <3>3 DEF Order, GatesHeld, Mine, At
    <3>4. QED
      BY <3>1, <3>2, <3>3
  <2>4. \A q \in Procs : Placed(proc'[q]) /\ gate'[q] = GateOf(proc'[q])
    BY <1>1, <1>5, <2>1 DEF Order, GatesHeld, TypeInv, ControlOK
  <2>5. QED
    BY <2>3, <2>4 DEF GatesHeld
<1>7. HostLocksHeld'
  <2>1. ASSUME NEW q \in Procs, NeedsHostLock(proc'[q]) PROVE hostLock'[Mine(q)'] = q
    <3>1. CASE q = p
      <4>1. TakesHostLock(command)
        BY <1>5, <1>4, <2>1, <3>1 DEF NeedsHostLock, TakesHostLock, BootSteps
      <4>2. QED
        BY <1>1, <1>5, <3>1, <4>1 DEF Mine, Order, TypeInv, ControlOK
    <3>2. CASE q # p
      <4>1. proc'[q] = proc[q] /\ Mine(q)' = Mine(q)
        BY <1>5, <3>2 DEF Mine
      <4>2. hostLock[Mine(q)] = q /\ Mine(q) \in Projects
        BY <2>1, <4>1, HoldsHostLock
      <4>3. q # Nobody /\ hostLock \in [Projects -> Procs \cup {Nobody}]
        BY HostAccessAssumption DEF HostAccessAssumption, Order, TypeInv, ControlOK
      <4>4. hostLock'[Mine(q)] = hostLock[Mine(q)]
        BY <1>1, <4>2, <4>3
      <4>5. QED
        BY <4>1, <4>2, <4>4
    <3>3. QED
      BY <3>1, <3>2
  <2>2. QED
    BY <2>1 DEF HostLocksHeld
<1>8. CreatesAlone'
  <2>1. step \in CreateSteps =>
          \A q \in Procs : ~(proc[q].at \in CreateSteps /\ Mine(q) = j)
    BY <1>1, <1>4 DEF CreateSteps
  <2>2. QED
    BY <1>5, <2>1 DEF Order, CreatesAlone, Mine
<1>9. QED
  BY <1>6, <1>7, <1>8 DEF Order

\* What a command does once its project is recovered.
LEMMA ContinueGoes ==
  ASSUME Order, NEW p \in Procs, At(p, "recover"), Continue(p), ~Leave(p)
  PROVE  /\ Goes(p, AfterRecovery(p)) /\ UNCHANGED locks
         /\ proc'[p].running = (Runs(p, Change) /\ vm[Mine(p)].alive)
         /\ AfterRecovery(p) \in {"allow", "remove", "save-port", "apply", "enter", "publish",
                                  "delete"}
         /\ Placed([proc[p] EXCEPT !.at = AfterRecovery(p)])
         /\ AfterRecovery(p) \in {"publish", "delete"} => ~vm[Mine(p)].alive
         /\ AfterRecovery(p) = "delete" => store'[Mine(p)].content \notin {"none", "empty"}
<1>1. /\ proc' = [proc EXCEPT ![p].at = AfterRecovery(p),
                              ![p].running = Runs(p, Change) /\ vm[Mine(p)].alive]
      /\ UNCHANGED locks /\ ~Runs(p, {"setup run"})
      /\ Runs(p, {"clean", "delete"}) => ~vm[Mine(p)].alive
      /\ Runs(p, {"delete"}) => store'[Mine(p)].content \notin {"none", "empty"}
  BY DEF Continue, Runs
<1>2. /\ proc[p] \in Commandings /\ proc[p].op \in Commands
      /\ proc[p].op \notin {"shell", "vm stop", "setup run"}
  BY <1>1 DEF Order, GatesHeld, Placed, At, TypeInv, ControlOK, Runs
<1>3. /\ Goes(p, AfterRecovery(p))
      /\ proc'[p].running = (Runs(p, Change) /\ vm[Mine(p)].alive)
  BY <1>1 DEF Goes, Order, TypeInv, ControlOK, Commandings, locks
<1>4. /\ AfterRecovery(p) \in {"allow", "remove", "save-port", "apply", "enter", "publish",
                               "delete"}
      /\ AfterRecovery(p) \in {"allow", "remove", "save-port", "apply"} => proc[p].op \in Change
      /\ AfterRecovery(p) = "enter" => proc[p].op = "vm start"
      /\ AfterRecovery(p) = "publish" => proc[p].op = "clean"
      /\ AfterRecovery(p) = "delete" => proc[p].op = "delete"
  BY <1>2 DEF AfterRecovery, Runs, Commands, Exclusive, Change, DeviceChange, PortChange
<1>5. Placed([proc[p] EXCEPT !.at = AfterRecovery(p)])
  BY <1>2, <1>4
  DEF Placed, Commandings, ChangeSteps, BootSteps, StopSteps, CleanSteps, DeleteSteps, CreateSteps
<1>6. QED
  BY <1>1, <1>3, <1>4, <1>5 DEF Runs

-----------------------------------------------------------------------------
(* What the VMs use is saved                                               *)

\* What a command has read or found still holds: nobody else may change it while the
\* command has its lock or its gate.
Uses(p) ==
  LET j == Mine(p) IN
  /\ proc[p].at \in BootSteps => store[j].content = "current"
  /\ proc[p].at \in BootSteps \ {"boot"} => proc[p].grants.claims \subseteq store[j].claims
  /\ proc[p].at = "forward" => proc[p].grants.ports \subseteq store[j].ports
  /\ proc[p].at \in {"forward", "record"} => vm[j].open = {}
  /\ proc[p].at \in {"claim", "activate", "attach"} =>
       proc[p].grants.claims \subseteq record[j].devices
  /\ proc[p].at \in ChangeSteps /\ ~proc[p].running => ~vm[j].alive
  /\ proc[p].at = "unsave-port" => proc[p].resource \notin vm[j].forwards
  /\ proc[p].at = "created" => store[j].content = "partial" /\ ~exists[j]
  /\ proc[p].at \in CleanSteps \cup DeleteSteps \cup {"stop-clear"} => ~vm[j].alive

\* A VM runs on a store in the current format and uses what the store has saved and
\* what its record shows.
VMSound(j) ==
  /\ ~vm[j].alive => vm[j] = NoVM
  /\ vm[j].alive => store[j].content = "current"
  /\ vm[j].forwards \subseteq store[j].ports
  /\ vm[j].open \subseteq store[j].claims
  /\ vm[j].open \subseteq record[j].devices

UseInv == Order /\ (\A p \in Procs : Uses(p)) /\ (\A j \in Projects : VMSound(j))

\* A step of p changes nothing that a command of another project, or one that may work
\* on the same project at the same time, relies on.
Harmless(p) ==
  LET j == Mine(p) IN
  /\ \A k \in Projects \ {j} : /\ store'[k] = store[k] /\ vm'[k] = vm[k]
                              /\ record'[k] = record[k] /\ exists'[k] = exists[k]
  /\ \/ proc[p].op \in Exclusive
     \/ /\ NeedsHostLock(proc[p])
        /\ store'[j].content = store[j].content /\ exists'[j] = exists[j]
     \/ /\ vm'[j] = vm[j] /\ record'[j] = record[j]
        /\ \/ store'[j] = store[j] /\ exists'[j] = exists[j]
           \/ store[j].content = "none" /\ exists'[j] = exists[j]
           \/ store[j].content # "current" /\ proc[p].at \in CreateSteps

\* The other commands find what they rely on.
LEMMA OthersUse ==
  ASSUME UseInv, NEW p \in Procs, ~At(p, "idle"), Harmless(p),
         NEW q \in Procs \ {p}, proc'[q] = proc[q]
  PROVE  Uses(q)'
<1>1. CASE At(q, "idle")
  BY <1>1
  DEF Uses, At, BootSteps, ChangeSteps, CleanSteps, DeleteSteps
<1>2. CASE ~At(q, "idle") /\ Mine(q) # Mine(p)
  <2>1. Mine(q) \in Projects \ {Mine(p)} /\ Mine(q)' = Mine(q)
    BY <1>2, Mines DEF UseInv, Order, Mine
  <2>2. Uses(q)
    BY DEF UseInv
  <2>3. QED
    BY <2>1, <2>2 DEF Harmless, Uses
<1>3. CASE ~At(q, "idle") /\ Mine(q) = Mine(p)
  <2>1. /\ Mine(q)' = Mine(q) /\ Uses(q) /\ Placed(proc[q])
        /\ proc[q].op \notin Exclusive /\ proc[p].op \notin Exclusive
    BY <1>3 DEF UseInv, Order, GatesHeld, Mine
  <2>2. proc[q].at \notin CleanSteps \cup DeleteSteps \cup {"stop-clear"}
    BY <2>1 DEF Placed, Exclusive, StopSteps
  <2>3. CASE NeedsHostLock(proc[p]) /\ store'[Mine(p)].content = store[Mine(p)].content
             /\ exists'[Mine(p)] = exists[Mine(p)]
    <3>1. ~NeedsHostLock(proc[q])
      BY <1>3, <2>3, HoldsHostLock DEF UseInv
    <3>2. proc[q].at \notin BootSteps \cup ChangeSteps
      BY <2>1, <3>1 DEF NeedsHostLock, Placed
    <3>3. QED
      BY <1>3, <2>1, <2>2, <2>3, <3>2 DEF Uses, BootSteps, ChangeSteps
  <2>4. CASE /\ vm'[Mine(p)] = vm[Mine(p)] /\ record'[Mine(p)] = record[Mine(p)]
             /\ store'[Mine(p)] = store[Mine(p)] /\ exists'[Mine(p)] = exists[Mine(p)]
    BY <1>3, <2>1, <2>4 DEF Uses
  <2>5. CASE /\ vm'[Mine(p)] = vm[Mine(p)] /\ record'[Mine(p)] = record[Mine(p)]
             /\ \/ store[Mine(p)].content = "none" /\ exists'[Mine(p)] = exists[Mine(p)]
                \/ store[Mine(p)].content # "current" /\ proc[p].at \in CreateSteps
    <3>1. proc[q].at \notin BootSteps
      BY <1>3, <2>1, <2>5 DEF Uses
    <3>2. proc[q].at # "created"
      BY <1>3, <2>1, <2>5 DEF Uses, UseInv, Order, CreatesAlone, CreateSteps
    <3>3. QED
      BY <1>3, <2>1, <2>2, <2>5, <3>1, <3>2 DEF Uses, BootSteps, ChangeSteps
  <2>6. QED
    BY <2>1, <2>3, <2>4, <2>5 DEF Harmless
<1>4. QED
  BY <1>1, <1>2, <1>3

\* A step is sound when it is for its own command and its own project.
LEMMA UseStep ==
  ASSUME UseInv, Order', NEW p \in Procs, ~At(p, "idle"), Harmless(p),
         \A q \in Procs \ {p} : proc'[q] = proc[q], Uses(p)',
         \A j \in Projects : j = Mine(p) => VMSound(j)'
  PROVE  UseInv'
<1>1. \A q \in Procs : Uses(q)'
  BY OthersUse
<1>2. ASSUME NEW k \in Projects PROVE VMSound(k)'
  <2>1. CASE k = Mine(p)
    BY <2>1
  <2>2. CASE k # Mine(p)
    BY <2>2 DEF Harmless, UseInv, VMSound
  <2>3. QED
    BY <2>1, <2>2
<1>3. QED
  BY <1>1, <1>2 DEF UseInv

\* The end of a command, with the last change it makes.
LEMMA EndStep ==
  ASSUME UseInv, TypeInv', NEW p \in Procs, ~At(p, "idle"), Leave(p), Harmless(p),
         \A j \in Projects : j = Mine(p) => VMSound(j)'
  PROVE  UseInv'
<1>1. Order' /\ Ends(p)
  BY LeaveOrder, LeaveEnds DEF UseInv, Order
<1>2. Uses(p)'
  BY <1>1 DEF Ends, Ended, Uses, BootSteps, ChangeSteps, CleanSteps, DeleteSteps
<1>3. QED
  BY <1>1, <1>2, UseStep DEF Ends

\* The end of a command that changes nothing more.
LEMMA QuietEnd ==
  ASSUME UseInv, TypeInv', NEW p \in Procs, ~At(p, "idle"), Leave(p),
         UNCHANGED <<store, vm, record, exists>>
  PROVE  UseInv'
<1>1. Harmless(p) /\ \A j \in Projects : VMSound(j)'
  BY DEF Harmless, UseInv, VMSound
<1>2. QED
  BY <1>1, EndStep

\* A command that goes on, with the change it makes.
LEMMA GoStep ==
  ASSUME UseInv, TypeInv', NEW p \in Procs, NEW step, Goes(p, step), Follows(p, step),
         \A j \in Projects : hostLock[j] \in Procs => hostLock'[j] = hostLock[j],
         Harmless(p), Uses(p)', \A j \in Projects : j = Mine(p) => VMSound(j)'
  PROVE  UseInv'
<1>1. Order' /\ ~At(p, "idle")
  BY GoesOrder DEF UseInv, Follows
<1>2. QED
  BY <1>1, UseStep DEF Goes

\* A command that goes on and changes nothing.
LEMMA QuietGo ==
  ASSUME UseInv, TypeInv', NEW p \in Procs, NEW step, Goes(p, step), Follows(p, step),
         \A j \in Projects : hostLock[j] \in Procs => hostLock'[j] = hostLock[j],
         UNCHANGED <<store, vm, record, exists>>, Uses(p)'
  PROVE  UseInv'
<1>1. Harmless(p) /\ \A j \in Projects : VMSound(j)'
  BY DEF Harmless, UseInv, VMSound
<1>2. QED
  BY <1>1, GoStep

\* The facts about a command that its steps rely on.
LEMMA CommandFacts ==
  ASSUME UseInv, NEW p \in Procs, ~At(p, "idle")
  PROVE  /\ TypeInv /\ Mine(p) \in Projects /\ Uses(p) /\ VMSound(Mine(p))
         /\ Placed(proc[p]) /\ proc[p].op \in Commands /\ proc[p] \in Commandings
         /\ store[Mine(p)] \in Dirs /\ vm[Mine(p)] \in VMs /\ record[Mine(p)] \in Records
         /\ proc[p].at \in BootSteps => hostLock[Mine(p)] = p
BY Mines, HoldsHostLock DEF UseInv, Order, GatesHeld, Placed, At, NeedsHostLock

\* A VM that does not run uses nothing.
LEMMA StoppedUsesNothing ==
  ASSUME NEW j, VMSound(j), ~vm[j].alive
  PROVE  vm[j] = NoVM /\ vm[j].open = {} /\ vm[j].forwards = {}
<1>1. vm[j] = NoVM
  BY DEF VMSound
<1>2. NoVM.open = {} /\ NoVM.forwards = {}
  BY DEF NoVM
<1>3. QED
  BY <1>1, <1>2

\* The checks of a device.
LEMMA CheckUse ==
  ASSUME UseInv, TypeInv', NEW p \in Procs, AllowDevice(p) \/ Scan(p)
  PROVE  UseInv'
<1>1. ~At(p, "idle") /\ UNCHANGED <<store, vm, record, exists>> /\ proc[p].at \in {"allow", "scan"}
  BY DEF AllowDevice, Scan, At, stores, history
<1>2. CASE Leave(p)
  BY <1>1, <1>2, QuietEnd
<1>3. CASE ~Leave(p)
  <2>1. PICK step \in {"scan", "save"} :
          /\ Goes(p, step) /\ UNCHANGED hostLock /\ proc'[p].running = proc[p].running
    <3>1. CASE AllowDevice(p)
      BY <1>3, <3>1
      DEF AllowDevice, Goes, UseInv, Order, TypeInv, ControlOK, Commandings, Dirs
    <3>2. CASE Scan(p)
      BY <1>3, <3>2, ProceedGoes DEF Scan, UseInv, Order, locks
    <3>3. QED
      BY <3>1, <3>2
  <2>2. Placed([proc[p] EXCEPT !.at = step])
    BY <1>1, <2>1, CommandFacts
    DEF Placed, ChangeSteps, BootSteps, StopSteps, CleanSteps, DeleteSteps, CreateSteps,
        Commandings
  <2>3. Follows(p, step)
    BY <1>1, <2>1, <2>2 DEF Follows, BootSteps, CreateSteps
  <2>4. Uses(p)'
    BY <1>1, <2>1, CommandFacts
    DEF Goes, Uses, Mine, BootSteps, ChangeSteps, CleanSteps, DeleteSteps
  <2>5. QED
    BY <1>1, <2>1, <2>3, <2>4, QuietGo
<1>4. QED
  BY <1>2, <1>3

\* A host-access change has the .host-access lock: it keeps off a VM that starts.
LEMMA ChangeHarmless ==
  ASSUME UseInv, NEW p \in Procs, NEW new, proc[p].at \in ChangeSteps,
         store' = [store EXCEPT ![Mine(p)] = new], new.content = store[Mine(p)].content,
         \A k \in Projects \ {Mine(p)} : vm'[k] = vm[k],
         UNCHANGED <<record, exists>>
  PROVE  Harmless(p)
<1>1. ~At(p, "idle")
  BY DEF At, ChangeSteps
<1>2. Mine(p) \in Projects /\ proc[p].op \in Change /\ store \in [Projects -> Dirs]
  BY <1>1, CommandFacts DEF Placed, TypeInv, WorldOK
<1>3. QED
  BY <1>2 DEF Harmless, NeedsHostLock

\* What changes a device file ends the command.
LEMMA DeviceUse ==
  ASSUME UseInv, TypeInv', NEW p \in Procs, SaveDevice(p) \/ RemoveDevice(p)
  PROVE  UseInv'
<1> DEFINE j == Mine(p)
<1>1. /\ ~At(p, "idle") /\ UNCHANGED <<vm, record, exists>> /\ proc[p].at \in ChangeSteps
      /\ Leave(p)
  BY DEF SaveDevice, RemoveDevice, At, ChangeSteps
<1>2. /\ j \in Projects /\ VMSound(j) /\ Uses(p) /\ store[j] \in Dirs /\ vm[j] \in VMs
      /\ store \in [Projects -> Dirs]
  BY <1>1, CommandFacts DEF TypeInv, WorldOK
<1>3. CASE UNCHANGED store
  BY <1>1, <1>3, QuietEnd
<1>4. CASE SaveDevice(p) /\ store' # store
  <2> DEFINE new == [store[j] EXCEPT !.claims = @ \cup proc[p].grants.claims]
  <2>1. store' = [store EXCEPT ![j] = new]
    BY <1>2, <1>4 DEF SaveDevice
  <2>2. /\ new.content = store[j].content /\ new.ports = store[j].ports
        /\ store[j].claims \subseteq new.claims
    BY <1>2 DEF Dirs
  <2> HIDE DEF new
  <2>3. Harmless(p)
    BY <1>1, <2>1, <2>2, ChangeHarmless
  <2>4. QED
    BY <1>1, <1>2, <2>1, <2>2, <2>3, EndStep DEF VMSound
<1>5. CASE RemoveDevice(p) /\ store' # store
  <2> DEFINE removed == {c \in store[j].claims : c.path = proc[p].resource}
             new == [store[j] EXCEPT !.claims = @ \ removed]
  <2>1. /\ store' = [store EXCEPT ![j] = new] /\ \A c \in removed : Pending(p, c)
    BY <1>2, <1>5 DEF RemoveDevice
  <2>2. /\ new.content = store[j].content /\ new.ports = store[j].ports
        /\ new.claims = store[j].claims \ removed
    BY <1>2 DEF Dirs
  <2>3. vm[j].open \subseteq new.claims
    <3>1. CASE proc[p].running
      BY <1>2, <2>1, <2>2, <3>1 DEF Pending, VMSound
    <3>2. CASE ~proc[p].running
      BY <1>1, <1>2, <3>2 DEF Uses, VMSound, NoVM
    <3>3. QED
      BY <3>1, <3>2
  <2> HIDE DEF new
  <2>4. Harmless(p)
    BY <1>1, <2>1, <2>2, ChangeHarmless
  <2>5. QED
    BY <1>1, <1>2, <2>1, <2>2, <2>3, <2>4, EndStep DEF VMSound
<1>6. QED
  BY <1>3, <1>4, <1>5

\* A port is saved before it is forwarded.
LEMMA SavePortUse ==
  ASSUME UseInv, TypeInv', NEW p \in Procs, SavePort(p)
  PROVE  UseInv'
<1> DEFINE j == Mine(p)
           new == [store[j] EXCEPT !.ports = @ \cup {proc[p].resource}]
<1>1. /\ ~At(p, "idle") /\ UNCHANGED <<vm, record, exists>> /\ proc[p].at \in ChangeSteps
      /\ proc[p].at = "save-port"
  BY DEF SavePort, At, ChangeSteps, history
<1>2. /\ j \in Projects /\ VMSound(j) /\ Uses(p) /\ Placed(proc[p]) /\ store[j] \in Dirs
      /\ proc[p] \in Commandings /\ TypeInv
  BY <1>1, CommandFacts
<1>3. CASE UNCHANGED store /\ Leave(p)
  BY <1>1, <1>3, QuietEnd
<1>4. CASE store' = [store EXCEPT ![j] = new] /\ Proceed(p, "apply")
  <2>1. /\ new.content = store[j].content /\ new.claims = store[j].claims
        /\ store[j].ports \subseteq new.ports
    BY <1>2 DEF Dirs
  <2>2. Harmless(p)
    <3> HIDE DEF new
    <3>1. QED
      BY <1>1, <1>4, <2>1, ChangeHarmless
  <2>3. \A k \in Projects : k = j => VMSound(k)'
    <3> HIDE DEF new
    <3>1. QED
      BY <1>1, <1>2, <1>4, <2>1 DEF VMSound, TypeInv, WorldOK
  <2>4. /\ Goes(p, "apply") /\ UNCHANGED hostLock /\ proc'[p].running = proc[p].running
    BY <1>2, <1>4, ProceedGoes DEF locks
  <2>5. Placed([proc[p] EXCEPT !.at = "apply"])
    BY <1>1, <1>2
    DEF Placed, Commandings, ChangeSteps, BootSteps, StopSteps, CleanSteps, DeleteSteps,
        CreateSteps
  <2>6. Follows(p, "apply")
    BY <1>1, <2>5 DEF Follows, BootSteps, CreateSteps
  <2>7. Uses(p)'
    BY <1>1, <1>2, <2>4
    DEF Goes, Uses, Mine, BootSteps, ChangeSteps, CleanSteps, DeleteSteps
  <2>8. QED
    BY <1>1, <2>2, <2>3, <2>4, <2>6, <2>7, GoStep
<1>5. QED
  BY <1>2, <1>3, <1>4 DEF SavePort

\* A port is withdrawn before it is removed.
LEMMA UnsavePortUse ==
  ASSUME UseInv, TypeInv', NEW p \in Procs, UnsavePort(p)
  PROVE  UseInv'
<1> DEFINE j == Mine(p)
           new == [store[j] EXCEPT !.ports = @ \ {proc[p].resource}]
<1>1. /\ ~At(p, "idle") /\ UNCHANGED <<vm, record, exists>> /\ proc[p].at \in ChangeSteps
      /\ proc[p].at = "unsave-port" /\ Leave(p)
  BY DEF UnsavePort, At, ChangeSteps, history
<1>2. /\ j \in Projects /\ VMSound(j) /\ Uses(p) /\ store[j] \in Dirs /\ TypeInv
  BY <1>1, CommandFacts
<1>3. store' = [store EXCEPT ![j] = new]
  BY <1>2 DEF UnsavePort
<1>4. /\ new.content = store[j].content /\ new.claims = store[j].claims
      /\ new.ports = store[j].ports \ {proc[p].resource}
  BY <1>2 DEF Dirs
<1>5. vm[j].forwards \subseteq new.ports
  BY <1>1, <1>2, <1>4 DEF Uses, VMSound
<1> HIDE DEF new
<1>6. Harmless(p)
  BY <1>1, <1>3, <1>4, ChangeHarmless
<1>7. \A k \in Projects : k = j => VMSound(k)'
  BY <1>1, <1>2, <1>3, <1>4, <1>5 DEF VMSound, TypeInv, WorldOK
<1>8. QED
  BY <1>1, <1>6, <1>7, EndStep

\* What is forwarded is in the file, and what is withdrawn stays there until the next step.
LEMMA ApplyPortUse ==
  ASSUME UseInv, TypeInv', NEW p \in Procs, ApplyPort(p)
  PROVE  UseInv'
<1> DEFINE j == Mine(p)
<1>1. /\ ~At(p, "idle") /\ UNCHANGED <<store, record, exists>> /\ proc[p].at \in ChangeSteps
      /\ proc[p].at = "apply"
  BY DEF ApplyPort, At, ChangeSteps, history, stores
<1>2. /\ j \in Projects /\ VMSound(j) /\ Uses(p) /\ Placed(proc[p]) /\ store[j] \in Dirs
      /\ proc[p] \in Commandings /\ TypeInv /\ vm[j] \in VMs
  BY <1>1, CommandFacts
<1>3. CASE UNCHANGED vm /\ Leave(p)
  BY <1>1, <1>3, QuietEnd
<1>4. ASSUME Proceed(p, "unsave-port"), Runs(p, {"remove port"})
      PROVE  /\ Goes(p, "unsave-port") /\ UNCHANGED hostLock /\ Follows(p, "unsave-port")
             /\ proc'[p].running = proc[p].running
  <2>1. /\ Goes(p, "unsave-port") /\ UNCHANGED hostLock
        /\ proc'[p].running = proc[p].running
    BY <1>2, <1>4, ProceedGoes DEF locks
  <2>2. Placed([proc[p] EXCEPT !.at = "unsave-port"])
    BY <1>1, <1>2, <1>4
    DEF Placed, Commandings, ChangeSteps, BootSteps, StopSteps, CleanSteps, DeleteSteps,
        CreateSteps, Runs
  <2>3. QED
    BY <1>1, <2>1, <2>2 DEF Follows, BootSteps, CreateSteps
<1>5. CASE /\ UNCHANGED vm /\ ~proc[p].running
           /\ Runs(p, {"remove port"}) /\ Proceed(p, "unsave-port")
  <2>1. ~vm[j].alive /\ vm[j].forwards = {}
    <3>1. ~vm[j].alive
      BY <1>1, <1>2, <1>5 DEF Uses
    <3>2. QED
      BY <1>2, <3>1, StoppedUsesNothing
  <2>2. Uses(p)'
    BY <1>1, <1>4, <1>5, <2>1
    DEF Goes, Uses, Mine, BootSteps, ChangeSteps, CleanSteps, DeleteSteps
  <2>3. QED
    BY <1>1, <1>4, <1>5, <2>2, QuietGo
<1>6. CASE /\ proc[p].running /\ proc[p].resource \in store[j].ports /\ vm[j].alive
           /\ vm' = [vm EXCEPT ![j].forwards = Forwards(p, j)]
           /\ IF Runs(p, {"remove port"}) THEN Proceed(p, "unsave-port") ELSE Leave(p)
  <2> DEFINE new == [vm[j] EXCEPT !.forwards = Forwards(p, j)]
  <2>1. vm' = [vm EXCEPT ![j] = new]
    BY <1>2, <1>6 DEF TypeInv, WorldOK
  <2>2. /\ new.alive /\ new.open = vm[j].open /\ new.forwards = Forwards(p, j)
    BY <1>2, <1>6 DEF VMs
  <2> HIDE DEF new
  <2>3. Forwards(p, j) \subseteq store[j].ports
    BY <1>2, <1>6 DEF Forwards, VMSound
  <2>4. Harmless(p)
    <3>1. store' = [store EXCEPT ![j] = store[j]] /\ \A k \in Projects \ {j} : vm'[k] = vm[k]
      BY <1>1, <1>2, <2>1 DEF TypeInv, WorldOK
    <3>2. QED
      BY <1>1, <3>1, ChangeHarmless
  <2>5. \A k \in Projects : k = j => VMSound(k)'
    <3>1. vm'[j] = new
      BY <1>2, <2>1 DEF TypeInv, WorldOK
    <3>2. QED
      BY <1>1, <1>2, <1>6, <2>2, <2>3, <3>1 DEF VMSound
  <2>6. CASE Runs(p, {"remove port"})
    <3>1. Uses(p)'
      <4>1. vm'[j].forwards = vm[j].forwards \ {proc[p].resource}
        BY <1>2, <2>1, <2>2, <2>6 DEF Forwards, Runs, TypeInv, WorldOK
      <4>2. QED
        BY <1>1, <1>2, <1>4, <1>6, <2>6, <4>1
        DEF Goes, Uses, Mine, BootSteps, ChangeSteps, CleanSteps, DeleteSteps
    <3>2. QED
      BY <1>1, <1>4, <1>6, <2>4, <2>5, <2>6, <3>1, GoStep
  <2>7. CASE ~Runs(p, {"remove port"})
    BY <1>1, <1>6, <2>4, <2>5, <2>7, EndStep
  <2>8. QED
    BY <2>6, <2>7
<1>7. QED
  BY <1>3, <1>5, <1>6 DEF ApplyPort, PortFails

\* The changes of grants and ports keep what the VMs use.
LEMMA ChangingUse ==
  ASSUME UseInv, TypeInv', NEW p \in Procs, Changing(p)
  PROVE  UseInv'
BY CheckUse, DeviceUse, SavePortUse, ApplyPortUse, UnsavePortUse DEF Changing

\* The recovery of a project moves no store that a VM or a command works on.
LEMMA RecoverUse ==
  ASSUME UseInv, TypeInv', NEW p \in Procs, Recover(p)
  PROVE  UseInv'
<1> DEFINE j == Mine(p)
<1>1. /\ ~At(p, "idle") /\ At(p, "recover") /\ UNCHANGED <<vm, record, exists>>
      /\ proc[p].at = "recover"
  BY DEF Recover, At, history
<1>2. /\ j \in Projects /\ VMSound(j) /\ Placed(proc[p]) /\ store \in [Projects -> Dirs]
      /\ TypeInv
  BY <1>1, CommandFacts DEF TypeInv, WorldOK
<1>3. /\ Leave(p) \/ Continue(p)
      /\ \/ UNCHANGED store
         \/ store[j].content = "none" /\ store' = [store EXCEPT ![j] = backup[j]]
  BY DEF Recover, stores, Published, IsDir
<1>4. Harmless(p)
  BY <1>1, <1>2, <1>3 DEF Harmless
<1>5. \A k \in Projects : k = j => VMSound(k)'
  <2>1. CASE UNCHANGED store
    BY <1>1, <1>2, <2>1 DEF VMSound
  <2>2. CASE store[j].content = "none"
    <3>1. ~vm[j].alive
      BY <1>2, <2>2 DEF VMSound
    <3>2. QED
      BY <1>1, <1>2, <3>1, StoppedUsesNothing DEF VMSound
  <2>3. QED
    BY <1>3, <2>1, <2>2
<1>6. CASE Leave(p)
  BY <1>1, <1>4, <1>5, <1>6, EndStep
<1>7. CASE ~Leave(p)
  <2> DEFINE step == AfterRecovery(p)
  <2>1. /\ Goes(p, step) /\ UNCHANGED locks
        /\ proc'[p].running = (Runs(p, Change) /\ vm[j].alive)
        /\ step \in {"allow", "remove", "save-port", "apply", "enter", "publish", "delete"}
        /\ Placed([proc[p] EXCEPT !.at = step])
        /\ step \in {"publish", "delete"} => ~vm[j].alive
    BY <1>1, <1>3, <1>7, ContinueGoes DEF UseInv
  <2> HIDE DEF step
  <2>2. Follows(p, step)
    BY <1>1, <2>1 DEF Follows, BootSteps, CreateSteps
  <2>3. step \in ChangeSteps => Runs(p, Change)
    <3>1. proc[p] \in Commandings
      BY <1>2 DEF TypeInv, ControlOK
    <3>2. QED
      BY <2>1, <3>1 DEF Placed, Runs, Commandings
  <2>4. proc'[p].at = step /\ Mine(p)' = j
    BY <2>1 DEF Goes, Mine
  <2>5. Uses(p)'
    <3>1. step \notin BootSteps /\ step \notin {"unsave-port", "created", "stop-clear"}
      BY <2>1 DEF BootSteps
    <3>2. step \in CleanSteps \cup DeleteSteps => ~vm[j].alive
      BY <2>1 DEF CleanSteps, DeleteSteps
    <3>3. step \in ChangeSteps /\ ~proc'[p].running => ~vm[j].alive
      BY <2>1, <2>3
    <3>4. step \notin {"forward", "record", "claim", "activate", "attach"}
      BY <3>1 DEF BootSteps
    <3>5. QED
      BY <1>1, <2>4, <3>1, <3>2, <3>3, <3>4 DEF Uses
  <2>6. UNCHANGED hostLock
    BY <2>1 DEF locks
  <2>7. QED
    BY <1>4, <1>5, <2>1, <2>2, <2>5, <2>6, GoStep
<1>8. QED
  BY <1>6, <1>7

-----------------------------------------------------------------------------
(* The VM starts and stops                                                 *)

\* A step of a boot: it goes on to the next one, with or without a new list of grants.
LEMMA BootGoes ==
  ASSUME UseInv, NEW p \in Procs, NEW step \in BootSteps \cup {"stop-clear"}, ~At(p, "idle"),
         Goes(p, step), proc[p].at \in BootSteps \cup {"enter", "stop"},
         step = "stop-clear" <=> proc[p].at = "stop",
         step \in BootSteps => hostLock'[Mine(p)] = p
  PROVE  Follows(p, step)
<1>1. Placed(proc[p]) /\ proc[p] \in Commandings
  BY CommandFacts
<1>2. Placed([proc[p] EXCEPT !.at = step])
  BY <1>1
  DEF Placed, Commandings, ChangeSteps, BootSteps, StopSteps, CleanSteps, DeleteSteps,
      CreateSteps, Commands, Exclusive
<1>3. QED
  BY <1>2 DEF Follows, BootSteps, CreateSteps

\* The VM of the project is looked for and the .host-access lock taken.
LEMMA EnterUse ==
  ASSUME UseInv, TypeInv', NEW p \in Procs, EnterVM(p)
  PROVE  UseInv'
<1>1. /\ ~At(p, "idle") /\ UNCHANGED <<store, vm, record, exists>> /\ proc[p].at = "enter"
  BY DEF EnterVM, At, stores, history
<1>2. /\ Mine(p) \in Projects /\ TypeInv /\ proc[p] \in Commandings
  BY <1>1, CommandFacts
<1>3. CASE Leave(p)
  BY <1>1, <1>3, QuietEnd
<1>4. CASE ~Leave(p)
  <2>1. /\ store[Mine(p)].content = "current" /\ hostLock[Mine(p)] = Nobody
        /\ hostLock' = [hostLock EXCEPT ![Mine(p)] = p] /\ Goto(p, "boot") /\ UNCHANGED gate
    BY <1>4 DEF EnterVM
  <2>2. Goes(p, "boot")
    BY <1>2, <2>1 DEF Goto, Goes, TypeInv, ControlOK, Commandings
  <2>3. /\ hostLock'[Mine(p)] = p
        /\ \A j \in Projects : hostLock[j] \in Procs => hostLock'[j] = hostLock[j]
    BY <1>2, <2>1, HostAccessAssumption DEF HostAccessAssumption, TypeInv, ControlOK
  <2>4. Follows(p, "boot")
    BY <1>1, <2>2, <2>3, BootGoes DEF BootSteps
  <2>5. Uses(p)'
    BY <1>1, <2>1, <2>2
    DEF Goes, Uses, Mine, BootSteps, ChangeSteps, CleanSteps, DeleteSteps
  <2>6. QED
    BY <1>1, <2>2, <2>3, <2>4, <2>5, QuietGo
<1>5. QED
  BY <1>3, <1>4

\* A boot has the .host-access lock.
LEMMA BootHarmless ==
  ASSUME UseInv, NEW p \in Procs, proc[p].at \in BootSteps, UNCHANGED <<store, exists>>,
         \A k \in Projects \ {Mine(p)} : vm'[k] = vm[k] /\ record'[k] = record[k]
  PROVE  Harmless(p)
BY DEF Harmless, NeedsHostLock

\* QEMU starts with the grants of the store, and no device open.
LEMMA BootUse ==
  ASSUME UseInv, TypeInv', NEW p \in Procs, Boot(p)
  PROVE  UseInv'
<1> DEFINE j == Mine(p)
           new == [NoVM EXCEPT !.alive = TRUE, !.boot = store[j].claims]
<1>1. /\ ~At(p, "idle") /\ UNCHANGED <<store, exists, hostLock>> /\ proc[p].at = "boot"
      /\ vm' = [vm EXCEPT ![j] = new] /\ record' = [record EXCEPT ![j] = NoRecord]
      /\ proc' = [proc EXCEPT ![p].at = "forward", ![p].grants = store[j]] /\ UNCHANGED gate
  BY DEF Boot, At, stores, history, locks
<1>2. /\ j \in Projects /\ TypeInv /\ proc[p] \in Commandings /\ Uses(p)
      /\ hostLock[j] = p
  BY <1>1, CommandFacts DEF BootSteps
<1>3. /\ new.alive /\ new.open = {} /\ new.forwards = {}
  BY DEF NoVM
<1> HIDE DEF new
<1>4. Goes(p, "forward") /\ proc'[p].grants = store[j]
  BY <1>1, <1>2 DEF Goes, TypeInv, ControlOK, Commandings
<1>5. vm'[j] = new /\ store'[j] = store[j] /\ store[j].content = "current"
  BY <1>1, <1>2 DEF TypeInv, WorldOK, Uses, BootSteps
<1>6. Harmless(p)
  BY <1>1, BootHarmless DEF BootSteps
<1>7. \A k \in Projects : k = j => VMSound(k)'
  BY <1>3, <1>5 DEF VMSound
<1>8. Follows(p, "forward")
  BY <1>1, <1>2, <1>4, BootGoes DEF BootSteps
<1>9. Uses(p)'
  <2>1. Mine(p)' = j
    BY <1>4 DEF Goes, Mine
  <2>2. QED
    BY <1>3, <1>4, <1>5, <2>1 DEF Goes, Uses, BootSteps, ChangeSteps, CleanSteps, DeleteSteps
<1>10. QED
  BY <1>1, <1>4, <1>6, <1>7, <1>8, <1>9, GoStep

\* The ports that are forwarded are those of the store.
LEMMA ForwardUse ==
  ASSUME UseInv, TypeInv', NEW p \in Procs, ForwardPorts(p)
  PROVE  UseInv'
<1> DEFINE j == Mine(p)
           ports == {port \in proc[p].grants.ports : ~Taken(j, port)}
           new == [vm[j] EXCEPT !.forwards = ports]
<1>1. /\ ~At(p, "idle") /\ UNCHANGED <<store, record, exists>> /\ proc[p].at = "forward"
  BY DEF ForwardPorts, At, stores, history
<1>2. /\ j \in Projects /\ TypeInv /\ Uses(p) /\ VMSound(j) /\ hostLock[j] = p
      /\ vm[j] \in VMs
  BY <1>1, CommandFacts DEF BootSteps
<1>3. CASE ~vm[j].alive
  BY <1>1, <1>3, QuietEnd DEF ForwardPorts
<1>4. CASE vm[j].alive
  <2>1. vm' = [vm EXCEPT ![j] = new] /\ Proceed(p, "record")
    BY <1>2, <1>4 DEF ForwardPorts, TypeInv, WorldOK
  <2>2. new.alive /\ new.open = vm[j].open /\ new.forwards = ports
    BY <1>2, <1>4 DEF VMs
  <2>3. ports \subseteq store[j].ports
    BY <1>1, <1>2 DEF Uses
  <2> HIDE DEF new, ports
  <2>4. vm'[j] = new
    BY <1>2, <2>1 DEF TypeInv, WorldOK
  <2>5. /\ Goes(p, "record") /\ UNCHANGED hostLock /\ proc'[p].grants = proc[p].grants
    BY <1>2, <2>1, ProceedGoes DEF locks
  <2>6. Follows(p, "record")
    BY <1>1, <1>2, <2>5, BootGoes DEF BootSteps
  <2>7. Harmless(p)
    BY <1>1, <2>1, BootHarmless DEF BootSteps
  <2>8. \A k \in Projects : k = j => VMSound(k)'
    BY <1>1, <1>2, <1>4, <2>2, <2>3, <2>4 DEF VMSound
  <2>9. Uses(p)'
    <3>1. Mine(p)' = j
      BY <2>5 DEF Goes, Mine
    <3>2. QED
      BY <1>1, <1>2, <2>2, <2>4, <2>5, <3>1
      DEF Goes, Uses, BootSteps, ChangeSteps, CleanSteps, DeleteSteps
  <2>10. QED
    BY <1>1, <2>5, <2>6, <2>7, <2>8, <2>9, GoStep
<1>5. QED
  BY <1>3, <1>4

\* Every granted device is in the record before one is opened.
LEMMA WriteRecordUse ==
  ASSUME UseInv, TypeInv', NEW p \in Procs, WriteRecord(p)
  PROVE  UseInv'
<1> DEFINE j == Mine(p)
           new == [known |-> TRUE, devices |-> proc[p].grants.claims, active |-> {}]
<1>1. /\ ~At(p, "idle") /\ UNCHANGED <<store, vm, exists>> /\ proc[p].at = "record"
      /\ record' = [record EXCEPT ![j] = new] /\ (Leave(p) \/ Proceed(p, "claim"))
  BY DEF WriteRecord, At, stores, history
<1>2. /\ j \in Projects /\ TypeInv /\ Uses(p) /\ VMSound(j) /\ hostLock[j] = p
  BY <1>1, CommandFacts DEF BootSteps
<1>3. new.devices = proc[p].grants.claims
  OBVIOUS
<1> HIDE DEF new
<1>4. record'[j] = new /\ vm[j].open = {}
  BY <1>1, <1>2 DEF TypeInv, WorldOK, Uses
<1>5. Harmless(p)
  BY <1>1, BootHarmless DEF BootSteps
<1>6. \A k \in Projects : k = j => VMSound(k)'
  BY <1>1, <1>2, <1>4 DEF VMSound
<1>7. CASE Leave(p)
  BY <1>1, <1>5, <1>6, <1>7, EndStep
<1>8. CASE Proceed(p, "claim")
  <2>1. /\ Goes(p, "claim") /\ UNCHANGED hostLock /\ proc'[p].grants = proc[p].grants
    BY <1>2, <1>8, ProceedGoes DEF locks
  <2>2. Follows(p, "claim")
    BY <1>1, <1>2, <2>1, BootGoes DEF BootSteps
  <2>3. Uses(p)'
    <3>1. Mine(p)' = j
      BY <2>1 DEF Goes, Mine
    <3>2. QED
      BY <1>1, <1>2, <1>3, <1>4, <2>1, <3>1
      DEF Goes, Uses, BootSteps, ChangeSteps, CleanSteps, DeleteSteps
  <2>4. QED
    BY <1>1, <1>5, <1>6, <2>1, <2>2, <2>3, GoStep
<1>9. QED
  BY <1>1, <1>7, <1>8

\* A boot goes on to a step of the activation with fewer devices left, or as many.
LEMMA ActivationUses ==
  ASSUME UseInv, NEW p \in Procs, NEW step \in {"activate", "attach"}, Goes(p, step),
         proc[p].at \in {"claim", "activate", "attach"},
         proc'[p].grants.claims \subseteq proc[p].grants.claims,
         UNCHANGED store, record'[Mine(p)].devices = record[Mine(p)].devices
  PROVE  Uses(p)'
<1>1. Uses(p) /\ Mine(p)' = Mine(p)
  BY DEF UseInv, Goes, Mine
<1>2. QED
  BY <1>1 DEF Goes, Uses, BootSteps, ChangeSteps, CleanSteps, DeleteSteps

\* The activation waits for the owners lock and lists the other projects.
LEMMA TakeOwnersUse ==
  ASSUME UseInv, TypeInv', NEW p \in Procs, TakeOwners(p)
  PROVE  UseInv'
<1>1. /\ ~At(p, "idle") /\ UNCHANGED <<store, vm, record, exists, hostLock, gate>>
      /\ proc[p].at = "claim"
      /\ proc' = [proc EXCEPT ![p].at = "activate", ![p].listed = Listing(Mine(p))]
  BY DEF TakeOwners, At, stores, history
<1>2. /\ Mine(p) \in Projects /\ TypeInv /\ proc[p] \in Commandings /\ hostLock[Mine(p)] = p
  BY <1>1, CommandFacts DEF BootSteps
<1>3. Goes(p, "activate") /\ proc'[p].grants = proc[p].grants
  BY <1>1, <1>2 DEF Goes, TypeInv, ControlOK, Commandings
<1>4. Follows(p, "activate")
  BY <1>1, <1>2, <1>3, BootGoes DEF BootSteps
<1>5. Uses(p)'
  BY <1>1, <1>3, ActivationUses
<1>6. QED
  BY <1>1, <1>3, <1>4, <1>5, QuietGo

\* What happens to the next device, after the one that is done.
LEMMA DoneUse ==
  ASSUME UseInv, TypeInv', NEW p \in Procs, proc[p].at \in {"activate", "attach"}, NEW c,
         Done(p, c), UNCHANGED <<store, exists>>, Harmless(p),
         \A k \in Projects : k = Mine(p) => VMSound(k)',
         record'[Mine(p)].devices = record[Mine(p)].devices
  PROVE  UseInv'
<1>1. ~At(p, "idle")
  BY DEF At
<1>2. CASE Leave(p)
  BY <1>1, <1>2, EndStep
<1>3. CASE ~Leave(p)
  <2>1. /\ proc' = [proc EXCEPT ![p].at = "activate", ![p].grants.claims = @ \ {c}]
        /\ UNCHANGED locks
    BY <1>3 DEF Done
  <2>2. TypeInv /\ proc[p] \in Commandings /\ hostLock[Mine(p)] = p
    BY <1>1, CommandFacts DEF BootSteps
  <2>3. Goes(p, "activate") /\ proc'[p].grants.claims = proc[p].grants.claims \ {c}
    BY <2>1, <2>2 DEF Goes, TypeInv, ControlOK, Commandings, Dirs, locks
  <2>4. Follows(p, "activate")
    BY <1>1, <2>1, <2>2, <2>3, BootGoes DEF BootSteps, locks
  <2>5. Uses(p)'
    BY <2>3, ActivationUses
  <2>6. QED
    BY <1>1, <2>1, <2>3, <2>4, <2>5, GoStep DEF locks
<1>4. QED
  BY <1>2, <1>3

\* What is opened is granted and recorded.
LEMMA ActivateUse ==
  ASSUME UseInv, TypeInv', NEW p \in Procs, Activate(p)
  PROVE  UseInv'
<1> DEFINE j == Mine(p)
<1>1. /\ ~At(p, "idle") /\ UNCHANGED <<store, record, exists>> /\ proc[p].at = "activate"
  BY DEF Activate, At, stores, history
<1>2. /\ j \in Projects /\ TypeInv /\ Uses(p) /\ VMSound(j) /\ hostLock[j] = p
      /\ vm[j] \in VMs
  BY <1>1, CommandFacts DEF BootSteps
<1>3. PICK c \in proc[p].grants.claims :
        IF Opens(p, c)
        THEN vm' = [vm EXCEPT ![j].open = @ \cup {c}] /\ Proceed(p, "attach")
        ELSE Done(p, c) /\ UNCHANGED vm
  BY DEF Activate
<1>4. CASE ~Opens(p, c)
  <2>1. Harmless(p)
    BY <1>1, <1>3, <1>4, BootHarmless DEF BootSteps
  <2>2. \A k \in Projects : k = j => VMSound(k)'
    BY <1>1, <1>2, <1>3, <1>4 DEF VMSound
  <2>3. QED
    BY <1>1, <1>3, <1>4, <2>1, <2>2, DoneUse
<1>5. CASE Opens(p, c)
  <2> DEFINE new == [vm[j] EXCEPT !.open = @ \cup {c}]
  <2>1. vm' = [vm EXCEPT ![j] = new] /\ Proceed(p, "attach") /\ vm[j].alive
    BY <1>2, <1>3, <1>5 DEF TypeInv, WorldOK, Opens
  <2>2. new.alive /\ new.open = vm[j].open \cup {c} /\ new.forwards = vm[j].forwards
    BY <1>2, <2>1 DEF VMs
  <2> HIDE DEF new
  <2>3. vm'[j] = new
    BY <1>2, <2>1 DEF TypeInv, WorldOK
  <2>4. c \in store[j].claims /\ c \in record[j].devices
    BY <1>1, <1>2 DEF Uses, BootSteps
  <2>5. /\ Goes(p, "attach") /\ UNCHANGED hostLock /\ proc'[p].grants = proc[p].grants
    BY <1>2, <2>1, ProceedGoes DEF locks
  <2>6. Follows(p, "attach")
    BY <1>1, <1>2, <2>5, BootGoes DEF BootSteps
  <2>7. Harmless(p)
    BY <1>1, <2>1, BootHarmless DEF BootSteps
  <2>8. \A k \in Projects : k = j => VMSound(k)'
    BY <1>1, <1>2, <2>1, <2>2, <2>3, <2>4 DEF VMSound
  <2>9. Uses(p)'
    BY <1>1, <2>5, ActivationUses
  <2>10. QED
    BY <1>1, <2>5, <2>6, <2>7, <2>8, <2>9, GoStep
<1>6. QED
  BY <1>4, <1>5

\* A device that is not attached is no longer open, or stays open as one of the boot.
LEMMA AttachUse ==
  ASSUME UseInv, TypeInv', NEW p \in Procs, Attach(p)
  PROVE  UseInv'
<1> DEFINE j == Mine(p)
<1>1. /\ ~At(p, "idle") /\ UNCHANGED <<store, exists>> /\ proc[p].at = "attach"
  BY DEF Attach, At, stores, history
<1>2. /\ j \in Projects /\ TypeInv /\ Uses(p) /\ VMSound(j) /\ hostLock[j] = p
      /\ vm[j] \in VMs /\ record[j] \in Records
  BY <1>1, CommandFacts DEF BootSteps
<1>3. CASE Leave(p) /\ UNCHANGED <<vm, record>>
  BY <1>1, <1>3, QuietEnd
<1>4. ASSUME NEW c, Done(p, c),
             \/ record' = [record EXCEPT ![j].active = @ \cup {c}] /\ UNCHANGED vm
             \/ UNCHANGED record /\ vm' \in {vm, [vm EXCEPT ![j].open = @ \ {c}]}
      PROVE  UseInv'
  <2>1. /\ record'[j].devices = record[j].devices
        /\ vm'[j].alive = vm[j].alive /\ vm'[j].forwards = vm[j].forwards
        /\ vm'[j].open \subseteq vm[j].open
        /\ \A k \in Projects \ {j} : vm'[k] = vm[k] /\ record'[k] = record[k]
    BY <1>2, <1>4 DEF TypeInv, WorldOK, VMs, Records
  <2>2. ~vm[j].alive => vm'[j] = vm[j]
    <3>1. SUFFICES ASSUME ~vm[j].alive PROVE vm'[j] = vm[j]
      OBVIOUS
    <3>2. vm[j] = NoVM
      BY <1>2, <3>1, StoppedUsesNothing
    <3>3. [NoVM EXCEPT !.open = @ \ {c}] = NoVM
      BY DEF NoVM
    <3>4. vm'[j] \in {vm[j], [vm[j] EXCEPT !.open = @ \ {c}]}
      BY <1>2, <1>4 DEF TypeInv, WorldOK
    <3>5. QED
      BY <3>2, <3>3, <3>4
  <2>3. Harmless(p)
    BY <1>1, <2>1, BootHarmless DEF BootSteps
  <2>4. \A k \in Projects : k = j => VMSound(k)'
    BY <1>1, <1>2, <2>1, <2>2 DEF VMSound
  <2>5. QED
    BY <1>1, <1>4, <2>1, <2>3, <2>4, DoneUse
<1>5. QED
  BY <1>3, <1>4 DEF Attach

\* A stop ends all the VM uses, and its record after that.
LEMMA StopUse ==
  ASSUME UseInv, TypeInv', NEW p \in Procs, Stop(p) \/ StopClear(p)
  PROVE  UseInv'
<1> DEFINE j == Mine(p)
<1>1. /\ ~At(p, "idle") /\ UNCHANGED <<store, exists>> /\ proc[p].at \in {"stop", "stop-clear"}
  BY DEF Stop, StopClear, At, stores, history
<1>2. /\ j \in Projects /\ TypeInv /\ Uses(p) /\ VMSound(j) /\ Placed(proc[p])
      /\ vm \in [Projects -> VMs] /\ record \in [Projects -> Records]
  BY <1>1, CommandFacts DEF TypeInv, WorldOK
<1>3. \A k \in Projects \ {j} : vm'[k] = vm[k] /\ record'[k] = record[k]
  BY <1>2 DEF Stop, StopClear
<1>4. Harmless(p)
  BY <1>1, <1>2, <1>3 DEF Harmless, Placed, StopSteps, Exclusive
<1>5. NoVM.open = {} /\ NoVM.forwards = {} /\ ~NoVM.alive
  BY DEF NoVM
<1>6. vm'[j] = NoVM
  <2>1. CASE Stop(p)
    BY <1>2, <2>1 DEF Stop
  <2>2. CASE StopClear(p)
    <3>1. ~vm[j].alive
      BY <1>2, <2>2 DEF StopClear, Uses, At
    <3>2. QED
      BY <1>2, <2>2, <3>1, StoppedUsesNothing DEF StopClear
  <2>3. QED
    BY <2>1, <2>2
<1>7. \A k \in Projects : k = j => VMSound(k)'
  BY <1>5, <1>6 DEF VMSound
<1>8. CASE StopClear(p)
  BY <1>1, <1>4, <1>7, <1>8, EndStep DEF StopClear
<1>9. CASE Stop(p)
  <2>1. /\ Goes(p, "stop-clear") /\ UNCHANGED hostLock
    BY <1>2, <1>9, ProceedGoes DEF locks, Stop
  <2>2. Follows(p, "stop-clear")
    BY <1>1, <1>9, <2>1, BootGoes DEF BootSteps, Stop, At
  <2>3. Uses(p)'
    <3>1. Mine(p)' = j
      BY <2>1 DEF Goes, Mine
    <3>2. QED
      BY <1>5, <1>6, <2>1, <3>1
      DEF Goes, Uses, BootSteps, ChangeSteps, CleanSteps, DeleteSteps
  <2>4. QED
    BY <1>1, <1>4, <1>7, <2>1, <2>2, <2>3, GoStep
<1>10. QED
  BY <1>8, <1>9

\* The start and the stop of a VM keep what the VMs use.
LEMMA BootingUse ==
  ASSUME UseInv, TypeInv', NEW p \in Procs, Booting(p)
  PROVE  UseInv'
BY EnterUse, BootUse, ForwardUse, WriteRecordUse, TakeOwnersUse, ActivateUse, AttachUse, StopUse
   DEF Booting

-----------------------------------------------------------------------------
(* Stores are replaced, removed and created while no VM runs on them       *)

\* A clean, a delete or the creation of a project has no VM to disturb.
LEMMA ReplaceEnd ==
  ASSUME UseInv, TypeInv', NEW p \in Procs, ~At(p, "idle"), Leave(p), Harmless(p),
         UNCHANGED vm, ~vm[Mine(p)].alive
  PROVE  UseInv'
<1>1. vm[Mine(p)] = NoVM /\ NoVM.open = {} /\ NoVM.forwards = {} /\ ~NoVM.alive
  BY StoppedUsesNothing, CommandFacts DEF NoVM
<1>2. \A k \in Projects : k = Mine(p) => VMSound(k)'
  BY <1>1 DEF VMSound
<1>3. QED
  BY <1>2, EndStep

\* A clean, a delete or a creation goes on with its next step.
LEMMA ReplaceGo ==
  ASSUME UseInv, TypeInv', NEW p \in Procs,
         NEW step \in CleanSteps \cup DeleteSteps \cup {"created"},
         Goes(p, step), UNCHANGED <<vm, hostLock>>, Harmless(p), ~vm[Mine(p)].alive,
         \/ proc[p].at \in CleanSteps /\ step \in CleanSteps
         \/ proc[p].at \in DeleteSteps /\ step \in DeleteSteps
         \/ proc[p].at = "create" /\ step = "created" /\ store'[Mine(p)].content = "partial"
            /\ ~exists'[Mine(p)]
  PROVE  UseInv'
<1>1. ~At(p, "idle")
  BY DEF At, CleanSteps, DeleteSteps
<1>2. Placed(proc[p]) /\ proc[p] \in Commandings
  BY <1>1, CommandFacts
<1>3. vm[Mine(p)] = NoVM /\ NoVM.open = {} /\ NoVM.forwards = {} /\ ~NoVM.alive
  BY <1>1, StoppedUsesNothing, CommandFacts DEF NoVM
<1>4. \A k \in Projects : k = Mine(p) => VMSound(k)'
  BY <1>3 DEF VMSound
<1>5. Placed([proc[p] EXCEPT !.at = step])
  <2>1. CASE step \in CleanSteps /\ proc[p].op = "clean"
    BY <1>2, <2>1
    DEF Placed, Commandings, ChangeSteps, BootSteps, StopSteps, CleanSteps, DeleteSteps,
        CreateSteps, Commands, Exclusive
  <2>2. CASE step \in DeleteSteps /\ proc[p].op = "delete"
    BY <1>2, <2>2
    DEF Placed, Commandings, ChangeSteps, BootSteps, StopSteps, CleanSteps, DeleteSteps,
        CreateSteps, Commands, Exclusive
  <2>3. CASE step = "created" /\ proc[p].op = "shell"
    BY <1>2, <2>3
    DEF Placed, Commandings, ChangeSteps, BootSteps, StopSteps, CleanSteps, DeleteSteps,
        CreateSteps, Commands
  <2>4. QED
    BY <1>2, <2>1, <2>2, <2>3 DEF Placed, CreateSteps
<1>6. Follows(p, step)
  BY <1>1, <1>5 DEF Follows, BootSteps, CleanSteps, DeleteSteps, CreateSteps
<1>7. Uses(p)'
  BY DEF Goes, Uses, Mine, BootSteps, ChangeSteps, CleanSteps, DeleteSteps
<1>8. QED
  BY <1>4, <1>6, <1>7, GoStep

\* What the steps of a clean and a delete leave alone.
LEMMA ExclusiveHarmless ==
  ASSUME UseInv, NEW p \in Procs, proc[p].at \in CleanSteps \cup DeleteSteps,
         UNCHANGED <<vm, record>>, NEW dir, NEW value,
         store' = [store EXCEPT ![Mine(p)] = dir] \/ UNCHANGED store,
         exists' = [exists EXCEPT ![Mine(p)] = value] \/ UNCHANGED exists
  PROVE  ~At(p, "idle") /\ Harmless(p) /\ ~vm[Mine(p)].alive
<1>1. ~At(p, "idle")
  BY DEF At, CleanSteps, DeleteSteps
<1>2. /\ Mine(p) \in Projects /\ Placed(proc[p]) /\ Uses(p)
      /\ store \in [Projects -> Dirs] /\ exists \in [Projects -> BOOLEAN]
  BY <1>1, CommandFacts DEF TypeInv, WorldOK
<1>3. proc[p].op \in Exclusive
  BY <1>2 DEF Placed, Exclusive
<1>4. \A k \in Projects \ {Mine(p)} : store'[k] = store[k] /\ exists'[k] = exists[k]
  BY <1>2
<1>5. QED
  BY <1>1, <1>2, <1>3, <1>4 DEF Harmless, Uses

\* A clean moves the stores of a project whose VM is stopped.
LEMMA CleanUse ==
  ASSUME UseInv, TypeInv', NEW p \in Procs,
         \/ Publish(p) \/ PublishNew(p) \/ PublishSync(p) \/ DropBackup(p)
         \/ UndoNew(p) \/ UndoOld(p)
  PROVE  UseInv'
<1>1. PICK dir : /\ store' = [store EXCEPT ![Mine(p)] = dir] \/ UNCHANGED store
                 /\ proc[p].at \in CleanSteps /\ UNCHANGED <<vm, record, exists>>
  BY DEF Publish, PublishNew, PublishSync, DropBackup, UndoNew, UndoOld, CleanSteps, At, history,
         stores
<1>2. ~At(p, "idle") /\ Harmless(p) /\ ~vm[Mine(p)].alive
  BY <1>1, ExclusiveHarmless
<1>3. CASE Leave(p)
  BY <1>1, <1>2, <1>3, ReplaceEnd
<1>4. CASE ~Leave(p)
  <2>1. PICK step \in CleanSteps : Goes(p, step) /\ UNCHANGED hostLock
    <3>1. CASE Publish(p)
      <4>1. proc[p] \in Commandings /\ TypeInv
        BY <1>2, CommandFacts
      <4>2. Goes(p, "publish-new") /\ UNCHANGED hostLock
        BY <3>1, <4>1 DEF Publish, Goes, TypeInv, ControlOK, Commandings
      <4>3. QED
        BY <4>2 DEF CleanSteps
    <3>2. CASE ~Publish(p)
      <4>1. PICK step \in CleanSteps : Proceed(p, step)
        BY <1>4, <3>2 DEF PublishNew, PublishSync, DropBackup, UndoNew, UndoOld, CleanSteps
      <4>2. QED
        BY <4>1, ProceedGoes DEF UseInv, Order, locks
    <3>3. QED
      BY <3>1, <3>2
  <2>2. QED
    BY <1>1, <1>2, <2>1, ReplaceGo
<1>5. QED
  BY <1>3, <1>4

\* A delete removes the store of a project whose VM is stopped.
LEMMA DeleteUse ==
  ASSUME UseInv, TypeInv', NEW p \in Procs,
         Delete(p) \/ DeleteContent(p) \/ DeleteClaims(p) \/ DeleteDir(p)
  PROVE  UseInv'
<1>0. /\ proc[p].at \in DeleteSteps /\ UNCHANGED <<vm, record>>
      /\ (exists' = [exists EXCEPT ![Mine(p)] = FALSE] \/ UNCHANGED exists)
  BY DEF Delete, DeleteContent, DeleteClaims, DeleteDir, DeleteSteps, At, history
<1>1. TypeInv /\ Mine(p) \in Projects /\ store \in [Projects -> Dirs] /\ proc[p] \in Commandings
  <2>1. ~At(p, "idle")
    BY <1>0 DEF At, DeleteSteps
  <2>2. QED
    BY <2>1, CommandFacts DEF TypeInv, WorldOK
<1>2. PICK dir : store' = [store EXCEPT ![Mine(p)] = dir] \/ UNCHANGED store
  BY <1>1 DEF Delete, DeleteContent, DeleteClaims, DeleteDir, stores
<1>3. ~At(p, "idle") /\ Harmless(p) /\ ~vm[Mine(p)].alive
  BY <1>0, <1>2, ExclusiveHarmless
<1>4. CASE Leave(p)
  BY <1>0, <1>3, <1>4, ReplaceEnd
<1>5. CASE ~Leave(p)
  <2>1. PICK step \in DeleteSteps : Goes(p, step) /\ UNCHANGED hostLock
    <3>1. CASE Delete(p)
      <4>1. Goes(p, "delete-content") /\ UNCHANGED hostLock
        BY <1>1, <3>1 DEF Delete, Goes, TypeInv, ControlOK, Commandings
      <4>2. QED
        BY <4>1 DEF DeleteSteps
    <3>2. CASE ~Delete(p)
      <4>1. PICK step \in DeleteSteps : Proceed(p, step)
        BY <1>5, <3>2 DEF DeleteContent, DeleteClaims, DeleteDir, DeleteSteps
      <4>2. QED
        BY <1>1, <4>1, ProceedGoes DEF locks
    <3>3. QED
      BY <3>1, <3>2
  <2>2. QED
    BY <1>0, <1>3, <2>1, ReplaceGo
<1>6. QED
  BY <1>4, <1>5

\* A project is created where no VM runs, by one command at a time.
LEMMA CreateUse ==
  ASSUME UseInv, TypeInv', NEW p \in Procs, Create(p) \/ Created(p)
  PROVE  UseInv'
<1> DEFINE j == Mine(p)
<1>1. /\ ~At(p, "idle") /\ UNCHANGED <<vm, record>> /\ proc[p].at \in CreateSteps
  BY DEF Create, Created, At, CreateSteps
<1>2. /\ j \in Projects /\ TypeInv /\ Uses(p) /\ VMSound(j) /\ proc[p] \in Commandings
      /\ store \in [Projects -> Dirs] /\ exists \in [Projects -> BOOLEAN] /\ store[j] \in Dirs
  BY <1>1, CommandFacts DEF TypeInv, WorldOK
<1>3. CASE Create(p) /\ Initialized(j)
  BY <1>1, <1>3, QuietEnd DEF Create, history
<1>4. ASSUME \A k \in Projects \ {j} : store'[k] = store[k] /\ exists'[k] = exists[k],
             store[j].content # "current"
      PROVE  Harmless(p) /\ ~vm[j].alive
  BY <1>1, <1>2, <1>4 DEF Harmless, VMSound
<1>5. CASE Create(p) /\ ~Initialized(j)
  <2>1. /\ store' = [store EXCEPT ![j] = [NoDir EXCEPT !.content = "partial"]]
        /\ exists' = [exists EXCEPT ![j] = FALSE] /\ Proceed(p, "created")
        /\ proc[p].at = "create" /\ store[j].content # "current"
    BY <1>5 DEF Create, Initialized, At
  <2>2. /\ store'[j].content = "partial" /\ ~exists'[j]
        /\ \A k \in Projects \ {j} : store'[k] = store[k] /\ exists'[k] = exists[k]
    BY <1>2, <2>1 DEF NoDir
  <2>3. Goes(p, "created") /\ UNCHANGED hostLock
    BY <1>2, <2>1, ProceedGoes DEF locks
  <2>4. QED
    BY <1>1, <1>4, <2>1, <2>2, <2>3, ReplaceGo
<1>6. CASE Created(p)
  <2>1. Leave(p) /\ store[j].content = "partial"
    BY <1>2, <1>6 DEF Created, Uses, At
  <2>2. \A k \in Projects \ {j} : store'[k] = store[k] /\ exists'[k] = exists[k]
    BY <1>2, <1>6 DEF Created
  <2>3. QED
    BY <1>1, <1>4, <2>1, <2>2, ReplaceEnd
<1>7. QED
  BY <1>3, <1>5, <1>6

\* The replacement, the removal and the creation of a store keep what the VMs use.
LEMMA ReplacingUse ==
  ASSUME UseInv, TypeInv', NEW p \in Procs, Replacing(p)
  PROVE  UseInv'
BY CleanUse, DeleteUse, CreateUse DEF Replacing

-----------------------------------------------------------------------------
(* What VMs use is saved, whatever happens                                 *)

\* The start of a command changes nothing the VMs use.
LEMMA StartUse ==
  ASSUME UseInv, TypeInv', NEW p \in Procs, Start(p)
  PROVE  UseInv'
<1>1. Order'
  BY StartOrder DEF UseInv
<1>2. UNCHANGED <<store, vm, record, exists>>
  BY DEF Start, stores, history
<1>3. PICK r \in Commandings :
        proc' = [proc EXCEPT ![p] = r] /\ r.at \in {"stop", "enter", "create", "recover"}
  BY StartForm DEF UseInv, Order
<1>4. proc'[p] = r /\ \A q \in Procs \ {p} : proc'[q] = proc[q]
  BY <1>3 DEF UseInv, Order, TypeInv, ControlOK
<1>5. Uses(p)'
  BY <1>3, <1>4 DEF Uses, BootSteps, ChangeSteps, CleanSteps, DeleteSteps
<1>6. ASSUME NEW q \in Procs, q # p PROVE Uses(q)'
  BY <1>2, <1>4, <1>6 DEF UseInv, Uses, Mine
<1>7. \A j \in Projects : VMSound(j)'
  BY <1>2 DEF UseInv, VMSound
<1>8. QED
  BY <1>1, <1>5, <1>6, <1>7 DEF UseInv

\* A VM that ends and a device that is plugged in elsewhere change no store.
LEMMA OutsideUse ==
  ASSUME UseInv, TypeInv', UNCHANGED <<proc, locks, store, record, exists>>,
         \/ UNCHANGED vm
         \/ \E j \in Projects : vm' = [vm EXCEPT ![j] = NoVM]
  PROVE  UseInv'
<1>1. Order'
  BY DEF UseInv, Order, GatesHeld, HostLocksHeld, CreatesAlone, locks, At, Mine
<1>2. NoVM.open = {} /\ NoVM.forwards = {} /\ ~NoVM.alive
  BY DEF NoVM
<1>3. \A k \in Projects : vm'[k] \in {vm[k], NoVM}
  BY DEF UseInv, Order, TypeInv, WorldOK
<1>4. \A k \in Projects : VMSound(k)'
  BY <1>2, <1>3 DEF UseInv, VMSound
<1>5. ASSUME NEW q \in Procs PROVE Uses(q)'
  <2>1. CASE At(q, "idle")
    BY <2>1 DEF Uses, At, BootSteps, ChangeSteps, CleanSteps, DeleteSteps
  <2>2. CASE ~At(q, "idle")
    <3>1. Uses(q) /\ Mine(q) \in Projects /\ Mine(q)' = Mine(q)
      BY <2>2, CommandFacts DEF Mine
    <3>2. vm'[Mine(q)] \in {vm[Mine(q)], NoVM}
      BY <1>3, <3>1
    <3>3. QED
      BY <1>2, <3>1, <3>2 DEF Uses
  <2>3. QED
    BY <2>1, <2>2
<1>6. QED
  BY <1>1, <1>4, <1>5 DEF UseInv

\* No VM runs at first.
LEMMA UseInit == Init => UseInv
<1> SUFFICES ASSUME Init PROVE UseInv
  OBVIOUS
<1>1. TypeInv
  BY InitControl, InitWorld DEF TypeInv
<1>2. \A p \in Procs : proc[p] = Ended /\ gate[p] = "none"
  BY DEF Init
<1>3. None \notin Exclusive /\ None \notin Change \cup {"delete"}
  BY HostAccessAssumption DEF HostAccessAssumption, Commands, Exclusive
<1>4. Placed(Ended) /\ GateOf(Ended) = "none" /\ ~NeedsHostLock(Ended)
  BY <1>3 DEF Ended, Placed, GateOf, NeedsHostLock, ChangeSteps, BootSteps, StopSteps, CleanSteps,
     DeleteSteps, CreateSteps
<1>5. Ended.at = "idle" /\ Ended.op = None
  BY DEF Ended
<1>6. Order
  BY <1>1, <1>2, <1>3, <1>4, <1>5
  DEF Order, GatesHeld, HostLocksHeld, CreatesAlone, CreateSteps, At
<1>7. \A p \in Procs : Uses(p)
  BY <1>2, <1>5 DEF Uses, BootSteps, ChangeSteps, CleanSteps, DeleteSteps
<1>8. \A j \in Projects : VMSound(j)
  BY DEF Init, VMSound, NoVM
<1>9. QED
  BY <1>6, <1>7, <1>8 DEF UseInv

\* Every step keeps UseInv.
LEMMA UseNext == UseInv /\ [Next]_vars => UseInv'
<1> SUFFICES ASSUME UseInv, [Next]_vars PROVE UseInv'
  OBVIOUS
<1>0. TypeInv'
  BY TypeStep DEF UseInv, Order
<1>1. ASSUME NEW p \in Procs, Start(p) PROVE UseInv'
  BY <1>0, <1>1, StartUse
<1>2. ASSUME NEW p \in Procs, Recover(p) PROVE UseInv'
  BY <1>0, <1>2, RecoverUse
<1>3. ASSUME NEW p \in Procs, OwnersTimeout(p) \/ Crash(p) PROVE UseInv'
  <2>1. ~At(p, "idle") /\ Leave(p) /\ UNCHANGED <<store, vm, record, exists>>
    BY <1>3 DEF OwnersTimeout, Crash, At, stores, history
  <2>2. QED
    BY <1>0, <2>1, QuietEnd
<1>4. ASSUME NEW p \in Procs, Changing(p) PROVE UseInv'
  BY <1>0, <1>4, ChangingUse
<1>5. ASSUME NEW p \in Procs, Booting(p) PROVE UseInv'
  BY <1>0, <1>5, BootingUse
<1>6. ASSUME NEW p \in Procs, Replacing(p) PROVE UseInv'
  BY <1>0, <1>6, ReplacingUse
<1>7. CASE \/ \E j \in Projects : VMEnds(j)
           \/ \E path \in Paths : Replug(path)
           \/ UNCHANGED vars
  BY <1>0, <1>7, OutsideUse DEF VMEnds, Replug, vars, stores, history
<1>8. QED
  BY <1>1, <1>2, <1>3, <1>4, <1>5, <1>6, <1>7 DEF Next

\* A device that a VM has open is always one its project still reserves: no removal, no
\* clean and no delete takes the grant away under the VM.
THEOREM OpenAlwaysReserved == Spec => []OpenIsReserved
<1>1. UseInv => OpenIsReserved
  BY DEF UseInv, VMSound, OpenIsReserved
<1>2. QED
  BY <1>1, UseInit, UseNext, PTL DEF Spec

\* A port that a VM forwards is always in its project's file: saved before, removed after.
THEOREM ForwardsAlwaysSaved == Spec => []ForwardsAreSaved
<1>1. UseInv => ForwardsAreSaved
  BY DEF UseInv, VMSound, ForwardsAreSaved
<1>2. QED
  BY <1>1, UseInit, UseNext, PTL DEF Spec

-----------------------------------------------------------------------------
(* What the user was granted, and the project itself, survive one fault    *)

\* One command is killed, one call fails or one VM ends by itself.
OneFault == MaxFaults <= 1

Whole(dir) == dir.content \in {"legacy", "current"}

\* The directory that recovery leaves the project.
Main(j) == IF IsDir(store[j]) THEN store[j] ELSE backup[j]

MainKept(j) ==
  /\ exists[j] => Whole(Main(j))
  /\ granted[j] \subseteq Main(j).claims \/ store[j].content = "empty"

\* A backup that can take the place of the store.
Spare(j) ==
  IsDir(backup[j]) /\ granted[j] \subseteq backup[j].claims /\ (exists[j] => Whole(backup[j]))

\* A clean always has a whole directory to fall back on: the backup, until the new store
\* is synced, and it does not remove the new store after a fault unless the removal is
\* sure to succeed.  A delete keeps the grants it may have to write back.
Saves(p) ==
  LET j == Mine(p) IN
  /\ proc[p].op = "clean" /\ proc[p].at \in {"recover", "publish"} =>
       store[j].content \notin {"none", "empty"}
  /\ proc[p].at = "publish-new" =>
       /\ store[j] = NoDir /\ proc[p].grants.claims = backup[j].claims
       /\ proc[p].grants.content = "current"
  /\ proc[p].at \in {"publish-new", "publish-sync", "undo-new", "undo-old"} => Spare(j)
  /\ proc[p].at \in {"publish-sync", "drop-backup"} => IsDir(store[j])
  /\ proc[p].at \in {"undo-new", "undo-old"} => faults # 0
  /\ proc[p].at \in {"delete", "delete-content"} => store[j].content \notin {"none", "empty"}
  /\ proc[p].at = "delete-content" => proc[p].grants.claims = store[j].claims
  /\ proc[p].at \in {"delete-claims", "delete-dir"} =>
       ~exists[j] /\ granted[j] \subseteq proc[p].grants.claims

KeepInv ==
  UseInv /\ OwnershipInv /\ (\A p \in Procs : Saves(p)) /\ (\A j \in Projects : MainKept(j))

\* A clean and a delete have their project to themselves, and a fault is not forgotten.
LEMMA OthersSave ==
  ASSUME KeepInv, UseInv', NEW p \in Procs, ~At(p, "idle"),
         faults # 0 => faults' # 0,
         \A k \in Projects \ {Mine(p)} :
           /\ store'[k] = store[k] /\ backup'[k] = backup[k]
           /\ granted'[k] = granted[k] /\ exists'[k] = exists[k],
         NEW q \in Procs \ {p}, proc'[q] = proc[q]
  PROVE  Saves(q)'
<1>1. Placed(proc[q]) /\ Saves(q) /\ Mine(q)' = Mine(q)
  BY DEF KeepInv, UseInv, Order, GatesHeld, Mine
<1>2. CASE proc[q].op \notin {"clean", "delete"}
  BY <1>1, <1>2 DEF Saves, Placed, CleanSteps, DeleteSteps
<1>3. CASE proc[q].op \in {"clean", "delete"} /\ At(q, "idle")
  BY <1>3 DEF Saves, At
<1>4. CASE proc[q].op \in {"clean", "delete"} /\ ~At(q, "idle")
  <2>1. Mine(q) \in Projects /\ Mine(q) # Mine(p)
    BY <1>4, Mines DEF KeepInv, UseInv, Order, GatesHeld, Exclusive
  <2>2. QED
    BY <1>1, <2>1 DEF Saves, Spare
<1>5. QED
  BY <1>2, <1>3, <1>4

\* A step is sound when it is for its own command and its own project.
LEMMA KeepStep ==
  ASSUME KeepInv, UseInv', OwnershipInv', NEW p \in Procs, ~At(p, "idle"),
         \A q \in Procs \ {p} : proc'[q] = proc[q], faults # 0 => faults' # 0,
         \A k \in Projects \ {Mine(p)} :
           /\ store'[k] = store[k] /\ backup'[k] = backup[k]
           /\ granted'[k] = granted[k] /\ exists'[k] = exists[k],
         Saves(p)', \A j \in Projects : j = Mine(p) => MainKept(j)'
  PROVE  KeepInv'
<1>1. \A q \in Procs : Saves(q)'
  BY OthersSave
<1>2. ASSUME NEW k \in Projects, k # Mine(p) PROVE MainKept(k)'
  BY <1>2 DEF KeepInv, MainKept, Main
<1>3. QED
  BY <1>1, <1>2 DEF KeepInv

\* A command that ends or is neither a clean nor a delete has nothing to fall back on.
LEMMA OtherKeep ==
  ASSUME KeepInv, UseInv', OwnershipInv', NEW p \in Procs, ~At(p, "idle"),
         \A q \in Procs \ {p} : proc'[q] = proc[q], faults # 0 => faults' # 0,
         \A k \in Projects \ {Mine(p)} :
           /\ store'[k] = store[k] /\ backup'[k] = backup[k]
           /\ granted'[k] = granted[k] /\ exists'[k] = exists[k],
         proc'[p].op \notin {"clean", "delete"},
         \A j \in Projects : j = Mine(p) => MainKept(j)'
  PROVE  KeepInv'
<1>1. Placed(proc'[p])
  BY DEF UseInv, Order, GatesHeld
<1>2. Saves(p)'
  BY <1>1 DEF Saves, Placed, CleanSteps, DeleteSteps
<1>3. QED
  BY <1>2, KeepStep

\* The end of a command.
LEMMA EndKeep ==
  ASSUME KeepInv, UseInv', OwnershipInv', NEW p \in Procs, ~At(p, "idle"), Leave(p),
         faults # 0 => faults' # 0,
         \A k \in Projects \ {Mine(p)} :
           /\ store'[k] = store[k] /\ backup'[k] = backup[k]
           /\ granted'[k] = granted[k] /\ exists'[k] = exists[k],
         \A j \in Projects : j = Mine(p) => MainKept(j)'
  PROVE  KeepInv'
<1>1. Ends(p)
  BY LeaveEnds DEF KeepInv, OwnershipInv
<1>2. None \notin {"clean", "delete"}
  BY HostAccessAssumption DEF HostAccessAssumption, Commands, Exclusive
<1>3. QED
  BY <1>1, <1>2, OtherKeep DEF Ends, Ended

\* A fault is counted.
LEMMA FaultCounted == KeepInv /\ (UNCHANGED faults \/ Fault) => (faults # 0 => faults' # 0)
BY DEF KeepInv, OwnershipInv, TypeInv, WorldOK, Fault

\* The facts a step relies on.
LEMMA KeepFacts ==
  ASSUME KeepInv, NEW p \in Procs, ~At(p, "idle")
  PROVE  /\ TypeInv /\ Mine(p) \in Projects /\ Saves(p) /\ Uses(p) /\ Placed(proc[p])
         /\ MainKept(Mine(p)) /\ proc[p] \in Commandings /\ proc[p].op \in Commands
         /\ store \in [Projects -> Dirs] /\ backup \in [Projects -> Dirs]
         /\ granted \in [Projects -> SUBSET Claims] /\ exists \in [Projects -> BOOLEAN]
         /\ (~IsDir(store[Mine(p)]) => store[Mine(p)].claims = {})
         /\ (~IsDir(backup[Mine(p)]) => backup[Mine(p)].claims = {})
<1>1. UseInv /\ TypeInv /\ ClaimsInDirs
  BY DEF KeepInv, OwnershipInv
<1>2. Mine(p) \in Projects
  BY <1>1, CommandFacts
<1>3. QED
  BY <1>1, <1>2, CommandFacts DEF KeepInv, TypeInv, WorldOK, ClaimsInDirs

\* Grants and ports change in a store that is there.
LEMMA ChangingKeep ==
  ASSUME KeepInv, UseInv', OwnershipInv', NEW p \in Procs, Changing(p)
  PROVE  KeepInv'
<1> DEFINE j == Mine(p)
<1>1. ~At(p, "idle") /\ proc[p].at \in ChangeSteps /\ UNCHANGED <<backup, exists>>
  BY DEF Changing, AllowDevice, Scan, SaveDevice, RemoveDevice, SavePort, ApplyPort, UnsavePort,
         At, ChangeSteps, stores, history
<1>2. /\ TypeInv /\ j \in Projects /\ MainKept(j) /\ Placed(proc[p])
      /\ store \in [Projects -> Dirs] /\ granted \in [Projects -> SUBSET Claims]
      /\ (~IsDir(store[j]) => store[j].claims = {}) /\ proc[p] \in Commandings
  BY <1>1, KeepFacts
<1>3. /\ \A q \in Procs \ {p} : proc'[q] = proc[q]
      /\ proc'[p].op \notin {"clean", "delete"}
  <2>1. proc[p].op \in Change
    BY <1>1, <1>2 DEF Placed
  <2>2. proc[p].op \notin {"clean", "delete"} /\ None \notin {"clean", "delete"}
    BY <2>1, HostAccessAssumption
    DEF HostAccessAssumption, Commands, Exclusive, Change, DeviceChange, PortChange
  <2>3. CASE Leave(p)
    BY <1>2, <2>2, <2>3, LeaveEnds DEF Ends, Ended
  <2>4. CASE AllowDevice(p) /\ ~Leave(p)
    BY <1>2, <2>2, <2>4 DEF AllowDevice, TypeInv, ControlOK, Commandings
  <2>5. CASE ~AllowDevice(p) /\ ~Leave(p)
    <3>1. PICK step : Proceed(p, step)
      BY <2>5 DEF Changing, Scan, SaveDevice, RemoveDevice, SavePort, ApplyPort, UnsavePort,
         PortFails
    <3>2. QED
      BY <1>2, <2>2, <3>1, ProceedGoes DEF Goes
  <2>6. QED
    BY <2>3, <2>4, <2>5
<1>4. faults # 0 => faults' # 0
  BY FaultCounted
  DEF Changing, AllowDevice, Scan, SaveDevice, RemoveDevice, SavePort, ApplyPort, UnsavePort
<1>5. /\ \A k \in Projects \ {j} : store'[k] = store[k] /\ granted'[k] = granted[k]
      /\ MainKept(j) => \A k \in Projects : k = j => MainKept(k)'
  <2>1. CASE UNCHANGED <<store, granted>>
    BY <1>1, <2>1 DEF MainKept, Main
  <2>2. CASE SaveDevice(p) /\ IsDir(store[j])
    <3> DEFINE new == [store[j] EXCEPT !.claims = @ \cup proc[p].grants.claims]
    <3>1. store' = [store EXCEPT ![j] = new]
          /\ granted' = [granted EXCEPT ![j] = @ \cup proc[p].grants.claims]
      BY <1>2, <2>2 DEF SaveDevice
    <3>2. new.content = store[j].content /\ new.claims = store[j].claims \cup proc[p].grants.claims
      BY <1>2 DEF Dirs
    <3> HIDE DEF new
    <3>3. store'[j] = new /\ granted'[j] = granted[j] \cup proc[p].grants.claims
      BY <1>2, <3>1
    <3>4. QED
      BY <1>1, <1>2, <2>2, <3>1, <3>2, <3>3 DEF MainKept, Main, IsDir, Whole
  <2>3. CASE RemoveDevice(p) /\ ~(UNCHANGED <<store, granted>>)
    <3> DEFINE removed == {c \in store[j].claims : c.path = proc[p].resource}
               new == [store[j] EXCEPT !.claims = @ \ removed]
    <3>1. store' = [store EXCEPT ![j] = new] /\ granted' = [granted EXCEPT ![j] = @ \ removed]
      BY <1>2, <2>3 DEF RemoveDevice
    <3>2. new.content = store[j].content /\ new.claims = store[j].claims \ removed
      BY <1>2 DEF Dirs
    <3>3. ~IsDir(store[j]) => removed = {}
      BY <1>2
    <3> HIDE DEF new, removed
    <3>4. store'[j] = new /\ granted'[j] = granted[j] \ removed
      BY <1>2, <3>1
    <3>5. QED
      BY <1>1, <1>2, <3>1, <3>2, <3>3, <3>4 DEF MainKept, Main, IsDir, Whole
  <2>4. CASE (SavePort(p) \/ UnsavePort(p)) /\ ~(UNCHANGED <<store, granted>>)
    <3>1. PICK ports : store' = [store EXCEPT ![j] = [store[j] EXCEPT !.ports = ports]]
      BY <1>2, <2>4 DEF SavePort, UnsavePort, history
    <3> DEFINE new == [store[j] EXCEPT !.ports = ports]
    <3>2. new.content = store[j].content /\ new.claims = store[j].claims
      BY <1>2 DEF Dirs
    <3> HIDE DEF new
    <3>3. store'[j] = new /\ UNCHANGED granted /\ \A k \in Projects \ {j} : store'[k] = store[k]
      BY <1>2, <2>4, <3>1 DEF SavePort, UnsavePort, history, new
    <3>4. QED
      BY <1>1, <1>2, <3>2, <3>3 DEF MainKept, Main, IsDir, Whole
  <2>5. QED
    BY <2>1, <2>2, <2>3, <2>4
    DEF Changing, AllowDevice, Scan, SaveDevice, ApplyPort, stores, history
<1>6. QED
  BY <1>1, <1>2, <1>3, <1>4, <1>5, OtherKeep

\* A VM starts and stops without a change of the stores.
LEMMA BootingKeep ==
  ASSUME KeepInv, UseInv', OwnershipInv', NEW p \in Procs, Booting(p)
  PROVE  KeepInv'
<1>1. /\ ~At(p, "idle") /\ proc[p].at \in BootSteps \cup StopSteps \cup {"enter"}
      /\ UNCHANGED <<store, backup, granted, exists>>
  BY DEF Booting, EnterVM, Boot, ForwardPorts, WriteRecord, TakeOwners, Activate, Attach, Stop,
         StopClear, At, BootSteps, StopSteps, stores, history
<1>2. TypeInv /\ Mine(p) \in Projects /\ MainKept(Mine(p)) /\ Placed(proc[p])
      /\ proc[p] \in Commandings
  BY <1>1, KeepFacts
<1>3. proc[p].op \notin {"clean", "delete"} /\ None \notin {"clean", "delete"}
  BY <1>1, <1>2, HostAccessAssumption DEF Placed, HostAccessAssumption, Commands, Exclusive
<1>4. /\ \A q \in Procs \ {p} : proc'[q] = proc[q]
      /\ proc'[p].op \notin {"clean", "delete"}
  <2>1. CASE Leave(p)
    BY <1>2, <1>3, <2>1, LeaveEnds DEF Ends, Ended
  <2>2. ASSUME NEW step, Proceed(p, step) \/ Goto(p, step) PROVE Goto(p, step)
    BY <2>2 DEF Proceed
  <2>3. CASE ~Leave(p)
    <3>1. \/ \E step : Goto(p, step)
          \/ \E dir : proc' = [proc EXCEPT ![p].at = "forward", ![p].grants = dir]
          \/ \E listing : proc' = [proc EXCEPT ![p].at = "activate", ![p].listed = listing]
          \/ \E c : proc' = [proc EXCEPT ![p].at = "activate", ![p].grants.claims = @ \ {c}]
      BY <2>3 DEF Booting, EnterVM, Boot, ForwardPorts, WriteRecord, TakeOwners, Activate, Attach,
         Stop, StopClear, Done, Proceed
    <3>2. QED
      BY <1>2, <1>3, <3>1 DEF Goto, TypeInv, ControlOK, Commandings
  <2>4. QED
    BY <2>1, <2>3
<1>5. faults # 0 => faults' # 0
  BY FaultCounted
  DEF Booting, EnterVM, Boot, ForwardPorts, WriteRecord, TakeOwners, Activate, Attach, Stop,
      StopClear
<1>6. \A k \in Projects : k = Mine(p) => MainKept(k)'
  BY <1>1, <1>2 DEF MainKept, Main
<1>7. QED
  BY <1>1, <1>4, <1>5, <1>6, OtherKeep

\* A recovery leaves the project the directory it takes for the project's.
LEMMA RecoverKeep ==
  ASSUME KeepInv, UseInv', OwnershipInv', NEW p \in Procs, Recover(p)
  PROVE  KeepInv'
<1> DEFINE j == Mine(p)
<1>1. ~At(p, "idle") /\ At(p, "recover") /\ proc[p].at = "recover" /\ UNCHANGED <<granted, exists>>
  BY DEF Recover, At, history
<1>2. /\ TypeInv /\ j \in Projects /\ MainKept(j) /\ Saves(p) /\ Placed(proc[p])
      /\ proc[p] \in Commandings
      /\ store \in [Projects -> Dirs] /\ backup \in [Projects -> Dirs]
  BY <1>1, KeepFacts
<1>3. /\ \/ UNCHANGED stores
         \/ IsDir(store[j]) /\ UNCHANGED store /\ \E rest : backup' = [backup EXCEPT ![j] = rest]
         \/ /\ ~IsDir(store[j]) /\ IsDir(backup[j])
            /\ store' = [store EXCEPT ![j] = backup[j]]
            /\ backup' = [backup EXCEPT ![j] = NoDir]
      /\ Leave(p) \/ Continue(p)
      /\ UNCHANGED faults \/ Fault
  BY DEF Recover, Published, Removed, stores
<1>4. \A k \in Projects \ {j} : store'[k] = store[k] /\ backup'[k] = backup[k]
  BY <1>2, <1>3 DEF stores
<1>5. \A k \in Projects : k = j => MainKept(k)'
  <2>1. CASE UNCHANGED stores \/ (IsDir(store[j]) /\ UNCHANGED store)
    BY <1>1, <1>2, <2>1 DEF MainKept, Main, stores
  <2>2. CASE ~IsDir(store[j]) /\ IsDir(backup[j]) /\ store' = [store EXCEPT ![j] = backup[j]]
    <3>1. store'[j] = backup[j]
      BY <1>2, <2>2
    <3>2. QED
      BY <1>1, <1>2, <2>2, <3>1 DEF MainKept, Main, IsDir
  <2>3. QED
    BY <1>3, <2>1, <2>2
<1>6. faults # 0 => faults' # 0
  BY <1>3, FaultCounted
<1>7. CASE Leave(p)
  BY <1>1, <1>4, <1>5, <1>6, <1>7, EndKeep
<1>8. CASE ~Leave(p)
  <2> DEFINE step == AfterRecovery(p)
  <2>1. /\ Goes(p, step) /\ Placed([proc[p] EXCEPT !.at = step])
        /\ step \in {"allow", "remove", "save-port", "apply", "enter", "publish", "delete"}
        /\ step = "delete" => store'[j].content \notin {"none", "empty"}
    BY <1>1, <1>3, <1>8, ContinueGoes DEF KeepInv, UseInv
  <2> HIDE DEF step
  <2>2. step = "publish" => store'[j].content \notin {"none", "empty"}
    <3>1. SUFFICES ASSUME step = "publish" PROVE store'[j].content \notin {"none", "empty"}
      OBVIOUS
    <3>2. proc[p].op = "clean"
      BY <1>2, <2>1, <3>1 DEF Placed, CleanSteps, Commandings
    <3>3. store[j].content \notin {"none", "empty"}
      BY <1>1, <1>2, <3>2 DEF Saves
    <3>4. QED
      BY <1>3, <3>3 DEF IsDir, stores
  <2>3. Saves(p)'
    BY <1>1, <2>1, <2>2 DEF Goes, Saves, Mine
  <2>4. QED
    BY <1>1, <1>4, <1>5, <1>6, <2>1, <2>3, KeepStep DEF Goes
<1>9. QED
  BY <1>7, <1>8

-----------------------------------------------------------------------------
(* publishLegacyCleanStore and what undoes it                              *)

\* A clean goes on.
LEMMA CleanKeep ==
  ASSUME KeepInv, UseInv', OwnershipInv', NEW p \in Procs, NEW step, ~At(p, "idle"),
         Proceed(p, step), UNCHANGED <<granted, exists>>, faults # 0 => faults' # 0,
         \A k \in Projects \ {Mine(p)} : store'[k] = store[k] /\ backup'[k] = backup[k],
         step \in {"publish-sync", "drop-backup"} => IsDir(store'[Mine(p)]),
         step \in {"publish-sync", "undo-new", "undo-old"} =>
           IsDir(backup[Mine(p)]) /\ Spare(Mine(p)) /\ backup'[Mine(p)] = backup[Mine(p)],
         step \in {"undo-new", "undo-old"} => faults' # 0,
         step \in {"publish-sync", "drop-backup", "undo-new", "undo-old"},
         \A k \in Projects : k = Mine(p) => MainKept(k)'
  PROVE  KeepInv'
<1>1. Goes(p, step) /\ Mine(p)' = Mine(p)
  BY ProceedGoes DEF KeepInv, OwnershipInv, Goes, Mine
<1>2. Saves(p)'
  BY <1>1 DEF Goes, Saves, Spare
<1>3. QED
  BY <1>1, <1>2, KeepStep DEF Goes

\* The old store becomes the backup.
LEMMA PublishKeep ==
  ASSUME KeepInv, UseInv', OwnershipInv', NEW p \in Procs, Publish(p)
  PROVE  KeepInv'
<1> DEFINE j == Mine(p)
<1>1. /\ ~At(p, "idle") /\ proc[p].at = "publish" /\ UNCHANGED <<granted, exists, faults>>
      /\ proc' = [proc EXCEPT ![p].at = "publish-new", ![p].grants = Staged(j)]
      /\ backup' = [backup EXCEPT ![j] = store[j]] /\ store' = [store EXCEPT ![j] = NoDir]
  BY DEF Publish, At, history
<1>2. /\ TypeInv /\ j \in Projects /\ MainKept(j) /\ Saves(p) /\ Placed(proc[p])
      /\ proc[p] \in Commandings
      /\ store \in [Projects -> Dirs] /\ backup \in [Projects -> Dirs]
  BY <1>1, KeepFacts
<1>3. proc[p].op = "clean"
  BY <1>1, <1>2 DEF Placed, CleanSteps
<1>4. store[j].content \notin {"none", "empty"}
  BY <1>1, <1>2, <1>3 DEF Saves
<1>5. /\ proc'[p].op = proc[p].op /\ proc'[p].at = "publish-new" /\ Mine(p)' = j
      /\ proc'[p].grants = Staged(j)
      /\ \A q \in Procs \ {p} : proc'[q] = proc[q]
  BY <1>1, <1>2 DEF TypeInv, ControlOK, Commandings, Mine
<1>6. Staged(j).claims = store[j].claims /\ Staged(j).content = "current"
  BY <1>2 DEF Staged, Dirs
<1>7. /\ store'[j] = NoDir /\ backup'[j] = store[j]
      /\ \A k \in Projects \ {j} : store'[k] = store[k] /\ backup'[k] = backup[k]
  BY <1>1, <1>2
<1>8. /\ IsDir(store[j]) /\ granted[j] \subseteq store[j].claims
      /\ exists[j] => Whole(store[j])
  BY <1>2, <1>4 DEF MainKept, Main, IsDir
<1>9. \A k \in Projects : k = j => MainKept(k)'
  BY <1>1, <1>7, <1>8 DEF MainKept, Main, IsDir, NoDir
<1>10. Saves(p)'
  BY <1>1, <1>5, <1>6, <1>7, <1>8 DEF Saves, Spare
<1>11. QED
  BY <1>1, <1>5, <1>7, <1>9, <1>10, KeepStep

\* The new store takes its place, or the old one comes back.
LEMMA PublishNewKeep ==
  ASSUME KeepInv, UseInv', OwnershipInv', NEW p \in Procs, PublishNew(p)
  PROVE  KeepInv'
<1> DEFINE j == Mine(p)
<1>1. /\ ~At(p, "idle") /\ proc[p].at = "publish-new" /\ UNCHANGED <<granted, exists>>
      /\ UNCHANGED faults \/ Fault
  BY DEF PublishNew, At, history
<1>2. /\ TypeInv /\ j \in Projects /\ MainKept(j) /\ Saves(p)
      /\ store \in [Projects -> Dirs] /\ backup \in [Projects -> Dirs]
  BY <1>1, KeepFacts
<1>3. /\ Spare(j) /\ proc[p].grants.claims = backup[j].claims
      /\ proc[p].grants.content = "current"
  BY <1>1, <1>2 DEF Saves
<1>4. faults # 0 => faults' # 0
  BY <1>1, FaultCounted
<1>5. CASE store' = [store EXCEPT ![j] = proc[p].grants] /\ Proceed(p, "publish-sync")
           /\ UNCHANGED backup
  <2>1. store'[j] = proc[p].grants /\ \A k \in Projects \ {j} : store'[k] = store[k]
    BY <1>2, <1>5
  <2>2. \A k \in Projects : k = j => MainKept(k)'
    BY <1>1, <1>3, <2>1 DEF MainKept, Main, IsDir, Spare, Whole
  <2>3. QED
    BY <1>1, <1>3, <1>4, <1>5, <2>1, <2>2, CleanKeep DEF IsDir, Spare
<1>6. CASE Leave(p) /\ store' = [store EXCEPT ![j] = backup[j]]
           /\ backup' = [backup EXCEPT ![j] = NoDir]
  <2>1. /\ store'[j] = backup[j]
        /\ \A k \in Projects \ {j} : store'[k] = store[k] /\ backup'[k] = backup[k]
    BY <1>2, <1>6
  <2>2. \A k \in Projects : k = j => MainKept(k)'
    BY <1>1, <1>3, <2>1 DEF MainKept, Main, Spare, IsDir, Whole
  <2>3. QED
    BY <1>1, <1>4, <1>6, <2>1, <2>2, EndKeep
<1>7. QED
  BY <1>5, <1>6 DEF PublishNew

\* The new store is there until a fault.
LEMMA PublishSyncKeep ==
  ASSUME KeepInv, UseInv', OwnershipInv', NEW p \in Procs, PublishSync(p)
  PROVE  KeepInv'
<1> DEFINE j == Mine(p)
<1>1. /\ ~At(p, "idle") /\ proc[p].at = "publish-sync"
      /\ UNCHANGED <<store, backup, granted, exists>>
      /\ UNCHANGED faults \/ Fault
  BY DEF PublishSync, At, history, stores
<1>2. /\ TypeInv /\ j \in Projects /\ MainKept(j) /\ Saves(p)
  BY <1>1, KeepFacts
<1>3. Spare(j) /\ IsDir(store[j])
  BY <1>1, <1>2 DEF Saves
<1>4. (faults # 0 => faults' # 0) /\ (Fault => faults' # 0)
  BY <1>1, <1>2, FaultCounted DEF Fault, TypeInv, WorldOK
<1>5. \A k \in Projects : k = j => MainKept(k)'
  BY <1>1, <1>2 DEF MainKept, Main
<1>6. PICK step \in {"drop-backup", "undo-new"} :
        Proceed(p, step) /\ (step = "undo-new" => Fault)
  BY DEF PublishSync
<1>7. QED
  BY <1>1, <1>3, <1>4, <1>5, <1>6, CleanKeep DEF Spare

\* The backup goes when the new store is there to stay.
LEMMA DropBackupKeep ==
  ASSUME KeepInv, UseInv', OwnershipInv', NEW p \in Procs, DropBackup(p)
  PROVE  KeepInv'
<1> DEFINE j == Mine(p)
<1>1. /\ ~At(p, "idle") /\ proc[p].at = "drop-backup" /\ UNCHANGED <<store, granted, exists>>
      /\ Leave(p) /\ (UNCHANGED faults \/ Fault)
      /\ \E rest : backup' = [backup EXCEPT ![j] = rest]
  BY DEF DropBackup, At, history, Removed
<1>2. /\ j \in Projects /\ MainKept(j) /\ Saves(p) /\ backup \in [Projects -> Dirs]
  BY <1>1, KeepFacts
<1>3. \A k \in Projects : k = j => MainKept(k)'
  BY <1>1, <1>2 DEF MainKept, Main, Saves
<1>4. QED
  BY <1>1, <1>2, <1>3, FaultCounted, EndKeep

\* The one fault was before: the new store is removed, and the old one comes back.
LEMMA UndoKeep ==
  ASSUME OneFault, KeepInv, UseInv', OwnershipInv', NEW p \in Procs, UndoNew(p) \/ UndoOld(p)
  PROVE  KeepInv'
<1> DEFINE j == Mine(p)
<1>1. /\ ~At(p, "idle") /\ proc[p].at \in {"undo-new", "undo-old"}
      /\ UNCHANGED <<granted, exists>>
  BY DEF UndoNew, UndoOld, At, history
<1>2. /\ TypeInv /\ j \in Projects /\ MainKept(j) /\ Saves(p)
      /\ store \in [Projects -> Dirs] /\ backup \in [Projects -> Dirs]
  BY <1>1, KeepFacts
<1>3. Spare(j) /\ faults # 0
  BY <1>1, <1>2 DEF Saves
<1>4. ~Fault
  BY <1>2, <1>3, HostAccessAssumption DEF OneFault, Fault, TypeInv, WorldOK, HostAccessAssumption
<1>5. CASE UndoNew(p)
  <2>1. /\ store' = [store EXCEPT ![j] = NoDir] /\ UNCHANGED <<backup, faults>>
        /\ Proceed(p, "undo-old")
    BY <1>4, <1>5 DEF UndoNew, Removed
  <2>2. store'[j] = NoDir /\ \A k \in Projects \ {j} : store'[k] = store[k]
    BY <1>2, <2>1
  <2>3. \A k \in Projects : k = j => MainKept(k)'
    BY <1>1, <1>3, <2>1, <2>2 DEF MainKept, Main, IsDir, NoDir, Spare
  <2>4. QED
    BY <1>1, <1>3, <2>1, <2>2, <2>3, CleanKeep DEF Spare
<1>6. CASE UndoOld(p) /\ UNCHANGED stores
  <2>1. \A k \in Projects : k = j => MainKept(k)'
    BY <1>1, <1>2, <1>6 DEF MainKept, Main, stores
  <2>2. QED
    BY <1>1, <1>6, <2>1, EndKeep DEF UndoOld, stores
<1>7. CASE UndoOld(p) /\ store' = [store EXCEPT ![j] = backup[j]]
           /\ backup' = [backup EXCEPT ![j] = NoDir]
  <2>1. /\ store'[j] = backup[j]
        /\ \A k \in Projects \ {j} : store'[k] = store[k] /\ backup'[k] = backup[k]
    BY <1>2, <1>7
  <2>2. \A k \in Projects : k = j => MainKept(k)'
    BY <1>1, <1>3, <2>1 DEF MainKept, Main, Spare, IsDir, Whole
  <2>3. QED
    BY <1>1, <1>7, <2>1, <2>2, EndKeep DEF UndoOld
<1>8. QED
  BY <1>5, <1>6, <1>7 DEF UndoOld

-----------------------------------------------------------------------------
(* A project is deleted, or created                                        *)

\* A delete goes on.
LEMMA DeleteGoes ==
  ASSUME KeepInv, UseInv', OwnershipInv', NEW p \in Procs, NEW step, ~At(p, "idle"),
         Goes(p, step), faults # 0 => faults' # 0, UNCHANGED backup,
         \A k \in Projects \ {Mine(p)} :
           store'[k] = store[k] /\ granted'[k] = granted[k] /\ exists'[k] = exists[k],
         step \in {"delete-content", "delete-claims", "delete-dir"},
         step = "delete-content" =>
           /\ store'[Mine(p)].content \notin {"none", "empty"}
           /\ proc'[p].grants.claims = store'[Mine(p)].claims,
         step \in {"delete-claims", "delete-dir"} =>
           ~exists'[Mine(p)] /\ granted'[Mine(p)] \subseteq proc'[p].grants.claims,
         \A k \in Projects : k = Mine(p) => MainKept(k)'
  PROVE  KeepInv'
<1>1. Saves(p)'
  BY DEF Goes, Saves, Mine
<1>2. QED
  BY <1>1, KeepStep DEF Goes

\* A delete begins with the grants it may have to write back.
LEMMA DeleteKeep ==
  ASSUME KeepInv, UseInv', OwnershipInv', NEW p \in Procs, Delete(p)
  PROVE  KeepInv'
<1> DEFINE j == Mine(p)
<1>1. /\ ~At(p, "idle") /\ proc[p].at = "delete"
      /\ UNCHANGED <<store, backup, granted, exists, faults, gate>>
      /\ proc' = [proc EXCEPT ![p].at = "delete-content", ![p].grants = store[j]]
  BY DEF Delete, At, history, stores
<1>2. /\ TypeInv /\ j \in Projects /\ MainKept(j) /\ Saves(p) /\ proc[p] \in Commandings
  BY <1>1, KeepFacts
<1>3. Goes(p, "delete-content") /\ proc'[p].grants = store[j]
  BY <1>1, <1>2 DEF Goes, TypeInv, ControlOK, Commandings
<1>4. store[j].content \notin {"none", "empty"}
  BY <1>1, <1>2 DEF Saves
<1>5. \A k \in Projects : k = j => MainKept(k)'
  BY <1>1, <1>2 DEF MainKept, Main
<1>6. QED
  BY <1>1, <1>3, <1>4, <1>5, DeleteGoes

\* The project is gone; its grants are not, until the last step.
LEMMA DeleteContentKeep ==
  ASSUME KeepInv, UseInv', OwnershipInv', NEW p \in Procs, DeleteContent(p)
  PROVE  KeepInv'
<1> DEFINE j == Mine(p)
           new == [store[j] EXCEPT !.content = "partial"]
<1>1. /\ ~At(p, "idle") /\ proc[p].at = "delete-content"
      /\ UNCHANGED <<backup, granted>> /\ (UNCHANGED faults \/ Fault)
      /\ exists' = [exists EXCEPT ![j] = FALSE]
      /\ Leave(p) \/ Proceed(p, "delete-claims")
  BY DEF DeleteContent, At
<1>2. /\ TypeInv /\ j \in Projects /\ MainKept(j) /\ Saves(p) /\ store[j] \in Dirs
      /\ store \in [Projects -> Dirs] /\ exists \in [Projects -> BOOLEAN]
  BY <1>1, KeepFacts
<1>3. store' = [store EXCEPT ![j] = new]
  BY <1>2 DEF DeleteContent
<1>4. new.content = "partial" /\ new.claims = store[j].claims
  BY <1>2 DEF Dirs
<1> HIDE DEF new
<1>5. /\ store'[j] = new /\ ~exists'[j]
      /\ \A k \in Projects \ {j} : store'[k] = store[k] /\ exists'[k] = exists[k]
  BY <1>1, <1>2, <1>3
<1>6. granted[j] \subseteq store[j].claims /\ proc[p].grants.claims = store[j].claims
  BY <1>1, <1>2 DEF Saves, MainKept, Main, IsDir
<1>7. \A k \in Projects : k = j => MainKept(k)'
  BY <1>1, <1>4, <1>5, <1>6 DEF MainKept, Main, IsDir
<1>8. faults # 0 => faults' # 0
  BY <1>1, FaultCounted
<1>9. CASE Leave(p)
  BY <1>1, <1>5, <1>7, <1>8, <1>9, EndKeep
<1>10. CASE Proceed(p, "delete-claims")
  <2>1. Goes(p, "delete-claims") /\ proc'[p].grants = proc[p].grants
    BY <1>2, <1>10, ProceedGoes
  <2>2. QED
    BY <1>1, <1>5, <1>6, <1>7, <1>8, <2>1, DeleteGoes
<1>11. QED
  BY <1>1, <1>9, <1>10

\* The grants are removed with the directory, or written back.
LEMMA DeleteRestKeep ==
  ASSUME KeepInv, UseInv', OwnershipInv', NEW p \in Procs, DeleteClaims(p) \/ DeleteDir(p)
  PROVE  KeepInv'
<1> DEFINE j == Mine(p)
<1>1. /\ ~At(p, "idle") /\ proc[p].at \in {"delete-claims", "delete-dir"}
      /\ UNCHANGED <<backup, exists>> /\ (UNCHANGED faults \/ Fault)
  BY DEF DeleteClaims, DeleteDir, At, history
<1>2. /\ TypeInv /\ j \in Projects /\ MainKept(j) /\ Saves(p)
      /\ proc[p] \in Commandings
      /\ store \in [Projects -> Dirs] /\ granted \in [Projects -> SUBSET Claims]
  BY <1>1, KeepFacts
<1>3. ~exists[j] /\ granted[j] \subseteq proc[p].grants.claims
  BY <1>1, <1>2 DEF Saves
<1>4. faults # 0 => faults' # 0
  BY <1>1, FaultCounted
<1>5. CASE DeleteClaims(p)
  <2>1. /\ store' = [store EXCEPT ![j] = [NoDir EXCEPT !.content = "empty"]]
        /\ UNCHANGED granted /\ Proceed(p, "delete-dir")
    BY <1>5 DEF DeleteClaims, history
  <2>2. store'[j].content = "empty" /\ \A k \in Projects \ {j} : store'[k] = store[k]
    BY <1>2, <2>1 DEF NoDir
  <2>3. \A k \in Projects : k = j => MainKept(k)'
    BY <1>1, <1>3, <2>2 DEF MainKept
  <2>4. Goes(p, "delete-dir") /\ proc'[p].grants = proc[p].grants
    BY <1>2, <2>1, ProceedGoes
  <2>5. QED
    BY <1>1, <1>3, <1>4, <2>1, <2>2, <2>3, <2>4, DeleteGoes
<1>6. CASE DeleteDir(p)
  <2> DEFINE old == [proc[p].grants EXCEPT !.content = "partial"]
  <2>1. old.content = "partial" /\ old.claims = proc[p].grants.claims
    BY <1>2 DEF Commandings, Dirs
  <2>2. /\ Leave(p)
        /\ \/ /\ store' = [store EXCEPT ![j] = NoDir]
              /\ granted' = [granted EXCEPT ![j] = {}]
           \/ store' = [store EXCEPT ![j] = old] /\ UNCHANGED granted
    BY <1>6 DEF DeleteDir
  <2> HIDE DEF old
  <2>3. \A k \in Projects \ {j} : store'[k] = store[k] /\ granted'[k] = granted[k]
    BY <1>2, <2>2
  <2>4. granted'[j] = {} \/ (store'[j] = old /\ granted'[j] = granted[j])
    BY <1>2, <2>2
  <2>5. \A k \in Projects : k = j => MainKept(k)'
    BY <1>1, <1>3, <2>1, <2>4 DEF MainKept, Main, IsDir
  <2>6. QED
    BY <1>1, <1>4, <2>2, <2>3, <2>5, EndKeep
<1>7. QED
  BY <1>5, <1>6

\* The creation of a project begins and ends without one.
LEMMA CreateKeep ==
  ASSUME KeepInv, UseInv', OwnershipInv', NEW p \in Procs, Create(p) \/ Created(p)
  PROVE  KeepInv'
<1> DEFINE j == Mine(p)
<1>1. /\ ~At(p, "idle") /\ proc[p].at \in CreateSteps
      /\ UNCHANGED backup /\ (UNCHANGED faults \/ Fault)
      /\ Leave(p) \/ Proceed(p, "created")
  BY DEF Create, Created, At, CreateSteps
<1>2. /\ TypeInv /\ j \in Projects /\ MainKept(j) /\ Uses(p) /\ Placed(proc[p])
      /\ store[j] \in Dirs /\ proc[p] \in Commandings
      /\ store \in [Projects -> Dirs] /\ granted \in [Projects -> SUBSET Claims]
      /\ exists \in [Projects -> BOOLEAN]
  BY <1>1, KeepFacts
<1>3. /\ \A q \in Procs \ {p} : proc'[q] = proc[q]
      /\ proc'[p].op \notin {"clean", "delete"}
  <2>1. proc[p].op \notin {"clean", "delete"} /\ None \notin {"clean", "delete"}
    BY <1>1, <1>2, HostAccessAssumption DEF Placed, HostAccessAssumption, Commands, Exclusive
  <2>2. CASE Leave(p)
    BY <1>2, <2>1, <2>2, LeaveEnds DEF Ends, Ended
  <2>3. CASE Proceed(p, "created")
    BY <1>2, <2>1, <2>3, ProceedGoes DEF Goes
  <2>4. QED
    BY <1>1, <2>2, <2>3
<1>4. faults # 0 => faults' # 0
  BY <1>1, FaultCounted
<1>5. /\ \A k \in Projects \ {j} :
           store'[k] = store[k] /\ granted'[k] = granted[k] /\ exists'[k] = exists[k]
      /\ \A k \in Projects : k = j => MainKept(k)'
  <2>1. CASE Create(p) /\ Initialized(j)
    BY <1>1, <1>2, <2>1 DEF Create, history, MainKept, Main
  <2>2. CASE Create(p) /\ ~Initialized(j)
    <3>1. /\ \A k \in Projects \ {j} :
               store'[k] = store[k] /\ granted'[k] = granted[k] /\ exists'[k] = exists[k]
          /\ granted'[j] = {} /\ ~exists'[j]
      BY <1>2, <2>2 DEF Create
    <3>2. QED
      BY <3>1 DEF MainKept
  <2>3. CASE Created(p) /\ UNCHANGED granted /\ exists' = [exists EXCEPT ![j] = TRUE]
             /\ store' = [store EXCEPT ![j].content = "current"]
    <3> DEFINE new == [store[j] EXCEPT !.content = "current"]
    <3>1. store[j].content = "partial"
      BY <1>2, <2>3 DEF Created, At, Uses
    <3>2. new.content = "current" /\ new.claims = store[j].claims
      BY <1>2 DEF Dirs
    <3>3. store'[j] = new
      BY <1>2, <2>3
    <3> HIDE DEF new
    <3>4. granted[j] \subseteq store[j].claims
      BY <1>2, <3>1 DEF MainKept, Main, IsDir
    <3>5. \A k \in Projects \ {j} :
            store'[k] = store[k] /\ granted'[k] = granted[k] /\ exists'[k] = exists[k]
      BY <1>2, <2>3
    <3>6. QED
      BY <2>3, <3>2, <3>3, <3>4, <3>5 DEF MainKept, Main, IsDir, Whole
  <2>4. CASE Created(p) /\ UNCHANGED exists /\ granted' = [granted EXCEPT ![j] = {}]
             /\ store' = [store EXCEPT ![j] = NoDir]
    <3>1. ~exists[j]
      BY <1>2, <2>4 DEF Created, At, Uses
    <3>2. QED
      BY <1>2, <2>4, <3>1 DEF MainKept
  <2>5. QED
    BY <2>1, <2>2, <2>3, <2>4 DEF Created
<1>6. QED
  BY <1>1, <1>3, <1>4, <1>5, OtherKeep

\* Every step of a replacement, a removal or a creation keeps what the user has.
LEMMA ReplacingKeep ==
  ASSUME OneFault, KeepInv, UseInv', OwnershipInv', NEW p \in Procs, Replacing(p)
  PROVE  KeepInv'
BY PublishKeep, PublishNewKeep, PublishSyncKeep, DropBackupKeep, UndoKeep, DeleteKeep,
   DeleteContentKeep, DeleteRestKeep, CreateKeep DEF Replacing

-----------------------------------------------------------------------------
(* After one fault, nothing of the user's is lost                          *)

\* A clean and a delete start on a project that is there.
LEMMA StartKeep ==
  ASSUME KeepInv, UseInv', OwnershipInv', NEW p \in Procs, Start(p)
  PROVE  KeepInv'
<1>1. PICK j \in Projects, command \in Operations :
        /\ Accepted(j, command)
        /\ \E resource \in CASE command \in DeviceChange -> Paths
                             [] command \in PortChange -> Ports
                             [] OTHER -> {None} :
             proc' = [proc EXCEPT ![p].op = command, ![p].project = j,
               ![p].resource = resource,
               ![p].at = CASE command = "vm stop" -> "stop"
                           [] command = "shell" -> IF Initialized(j) THEN "enter" ELSE "create"
                           [] OTHER -> "recover"]
  BY DEF Start
<1>2. PICK resource, step :
        /\ proc' = [proc EXCEPT ![p].op = command, ![p].project = j,
                                ![p].resource = resource, ![p].at = step]
        /\ step \in {"stop", "enter", "create", "recover"}
  BY <1>1
<1>3. /\ proc'[p].op = command /\ proc'[p].project = j /\ proc'[p].at = step
      /\ \A q \in Procs \ {p} : proc'[q] = proc[q]
  BY <1>2 DEF KeepInv, OwnershipInv, TypeInv, ControlOK, Commandings
<1>4. UNCHANGED <<store, backup, granted, exists, faults>>
  BY DEF Start, stores, history
<1>5. command = "clean" => store[j].content \notin {"none", "empty"}
  BY <1>1 DEF Accepted, Initialized, Change, DeviceChange, PortChange
<1>6. Saves(p)'
  BY <1>2, <1>3, <1>4, <1>5 DEF Saves, Mine
<1>7. ASSUME NEW q \in Procs, q # p PROVE Saves(q)'
  BY <1>3, <1>4, <1>7 DEF KeepInv, Saves, Spare, Mine
<1>8. \A k \in Projects : MainKept(k)'
  BY <1>4 DEF KeepInv, MainKept, Main
<1>9. QED
  BY <1>6, <1>7, <1>8 DEF KeepInv

\* A step that changes no command and no store.
LEMMA QuietKeep ==
  ASSUME KeepInv, UseInv', OwnershipInv', UNCHANGED <<store, backup, granted, exists>>,
         faults # 0 => faults' # 0, UNCHANGED proc
  PROVE  KeepInv'
<1>1. \A p \in Procs : Saves(p)'
  BY DEF KeepInv, Saves, Spare, Mine
<1>2. \A k \in Projects : MainKept(k)'
  BY DEF KeepInv, MainKept, Main
<1>3. QED
  BY <1>1, <1>2 DEF KeepInv

\* Nothing is granted at first, and a store that is there is whole.
LEMMA KeepInit == Init => KeepInv
<1> SUFFICES ASSUME Init PROVE KeepInv
  OBVIOUS
<1>1. \A p \in Procs : proc[p].at = "idle"
  BY DEF Init, Ended
<1>2. \A p \in Procs : Saves(p)
  BY <1>1 DEF Saves
<1>3. ASSUME NEW j \in Projects PROVE MainKept(j)
  <2>1. /\ store[j] \in {NoDir, [NoDir EXCEPT !.content = "legacy"],
                         [NoDir EXCEPT !.content = "current"]}
        /\ exists[j] = (store[j] # NoDir) /\ granted[j] = {}
    BY DEF Init
  <2>2. /\ [NoDir EXCEPT !.content = "legacy"].content = "legacy"
        /\ [NoDir EXCEPT !.content = "current"].content = "current"
    BY DEF NoDir
  <2>3. exists[j] => store[j].content \in {"legacy", "current"}
    BY <2>1, <2>2
  <2>4. QED
    BY <2>1, <2>3 DEF MainKept, Main, Whole, IsDir
<1>4. QED
  BY <1>2, <1>3, UseInit, OwnershipInit DEF KeepInv

\* With one fault at most, every step keeps KeepInv.
LEMMA KeepNext == OneFault /\ KeepInv /\ [Next]_vars => KeepInv'
<1> SUFFICES ASSUME OneFault, KeepInv, [Next]_vars PROVE KeepInv'
  OBVIOUS
<1>0. UseInv' /\ OwnershipInv'
  BY UseNext, OwnershipStep DEF KeepInv
<1>1. ASSUME NEW p \in Procs, Start(p) PROVE KeepInv'
  BY <1>0, <1>1, StartKeep
<1>2. ASSUME NEW p \in Procs, Recover(p) PROVE KeepInv'
  BY <1>0, <1>2, RecoverKeep
<1>3. ASSUME NEW p \in Procs, OwnersTimeout(p) \/ Crash(p) PROVE KeepInv'
  <2>1. /\ ~At(p, "idle") /\ Leave(p) /\ UNCHANGED <<store, backup, granted, exists>>
        /\ UNCHANGED faults \/ Fault
    BY <1>3 DEF OwnersTimeout, Crash, At, stores, history
  <2>2. Mine(p) \in Projects /\ MainKept(Mine(p))
    BY <2>1, KeepFacts
  <2>3. \A k \in Projects : k = Mine(p) => MainKept(k)'
    BY <2>1, <2>2 DEF MainKept, Main
  <2>4. QED
    BY <1>0, <2>1, <2>3, FaultCounted, EndKeep
<1>4. ASSUME NEW p \in Procs, Changing(p) PROVE KeepInv'
  BY <1>0, <1>4, ChangingKeep
<1>5. ASSUME NEW p \in Procs, Booting(p) PROVE KeepInv'
  BY <1>0, <1>5, BootingKeep
<1>6. ASSUME NEW p \in Procs, Replacing(p) PROVE KeepInv'
  BY <1>0, <1>6, ReplacingKeep
<1>7. CASE \/ \E j \in Projects : VMEnds(j)
           \/ \E path \in Paths : Replug(path)
           \/ UNCHANGED vars
  <2>1. /\ UNCHANGED <<proc, store, backup, granted, exists>>
        /\ UNCHANGED faults \/ Fault
    BY <1>7 DEF VMEnds, Replug, vars, stores, history
  <2>2. QED
    BY <1>0, <2>1, FaultCounted, QuietKeep
<1>8. QED
  BY <1>1, <1>2, <1>3, <1>4, <1>5, <1>6, <1>7 DEF Next

\* With one fault at most - a command killed at any step, a call that fails, a VM that
\* ends - whatever the user was granted is still reserved in the store or the backup,
\* until the user gives it up or deletes the project.
THEOREM GrantsAlwaysKept ==
  ASSUME OneFault
  PROVE  Spec => []GrantsAreKept
<1>1. KeepInv => GrantsAreKept
  BY DEF KeepInv, MainKept, Main, GrantsAreKept, Held
<1>2. KeepInv /\ [Next]_vars => KeepInv'
  BY KeepNext
<1>3. QED
  BY <1>1, <1>2, KeepInit, PTL DEF Spec

\* With one fault at most, a project that was created and not deleted always has a whole
\* store, and it is the one that recovery would leave it.
THEOREM ProjectAlwaysRecoverable ==
  ASSUME OneFault
  PROVE  Spec => []ProjectIsRecoverable
<1>1. KeepInv => ProjectIsRecoverable
  BY DEF KeepInv, MainKept, Main, Whole, ProjectIsRecoverable
<1>2. KeepInv /\ [Next]_vars => KeepInv'
  BY KeepNext
<1>3. QED
  BY <1>1, <1>2, KeepInit, PTL DEF Spec
=============================================================================
