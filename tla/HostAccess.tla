---------------------------- MODULE HostAccess -----------------------------
(***************************************************************************)
(* The host ports and serial devices that projects reserve, and the        *)
(* operations that move, replace or remove the store a reservation lives   *)
(* in: project host-access allow and remove, vm start and stop, clean (or  *)
(* rebuild) of a store in the legacy format, delete, setup run, and the    *)
(* zaigr shell that creates a project (vm_host_access.go,                  *)
(* vm_host_access_store.go, vm_host_access_runtime.go, vm_project.go,      *)
(* vm_project_rebuild.go, vm_init.go).                                     *)
(*                                                                         *)
(* A project's store directory is renamed to a backup while a clean store  *)
(* takes its place; both count as the project's claims on devices.  A      *)
(* claim is a /dev path and the device that was behind it when it was      *)
(* granted.  A host port stands for its mapping to a port of the VM.       *)
(*                                                                         *)
(* A command that is refused before it has changed anything does nothing,  *)
(* and is not a step.                                                      *)
(***************************************************************************)
EXTENDS Naturals, FiniteSets

CONSTANTS Procs, Projects, Paths, Serials, Ports,
          Operations,   \* the commands that run, a subset of Commands
          DeviceLimit,  \* hostAccessDeviceLimit
          MaxFaults,    \* bound on killed commands, failing calls and VMs that end
          MaxReplugs,   \* bound on the devices plugged in somewhere else
          Nobody, None

DeviceChange == {"allow device", "remove device"}
PortChange == {"allow port", "remove port"}
Change == DeviceChange \cup PortChange
Exclusive == {"vm start", "vm stop", "clean", "delete"}
Commands == Change \cup Exclusive \cup {"setup run", "shell"}

ASSUME HostAccessAssumption ==
  /\ Operations \subseteq Commands
  /\ {DeviceLimit, MaxFaults, MaxReplugs} \subseteq Nat
  /\ Nobody \notin Procs /\ None \notin Commands \cup Paths \cup Ports \cup Serials \cup Projects

VARIABLES
  proc,      \* each command: op, project, resource, at, what it has read
  gate,      \* the project gates: "none", "shared" or "exclusive"
  hostLock,  \* the holder of each project's .host-access lock
  owners,    \* the holder of the account's .host-device-owners lock
  store,     \* each project's store directory
  backup,    \* and <store>.legacy-clean-transaction-old
  vm,        \* each project's QEMU: alive, boot, open, forwards
  record,    \* host-access.json in the runtime directory: known, devices, active
  node,      \* the serial device behind each path, or None
  granted,   \* history: the devices the user has been granted and has not given up
  exists,    \* history: the project was created and not deleted since
  faults, replugs

locks == <<gate, hostLock, owners>>
stores == <<store, backup>>
history == <<granted, exists>>
vars == <<proc, locks, stores, vm, record, node, history, faults, replugs>>

Claims == [path : Paths, serial : Serials]
Contents == {"none", "empty", "partial", "legacy", "current"}
Dirs == [content : Contents, claims : SUBSET Claims, ports : SUBSET Ports]
NoDir == [content |-> "none", claims |-> {}, ports |-> {}]
Places == Projects \X {"store", "backup"}

Steps == {"idle", "recover", "allow", "scan", "save", "remove", "save-port", "apply",
          "unsave-port", "boot", "forward", "record", "claim", "activate", "attach",
          "stop", "stop-clear", "publish", "publish-new", "publish-sync", "drop-backup",
          "undo-new", "undo-old", "delete", "delete-content", "delete-claims",
          "delete-dir", "enter", "create", "created"}

TypeOK ==
  /\ proc \in [Procs -> [op : Commands \cup {None}, project : Projects \cup {None},
                         resource : Paths \cup Ports \cup {None}, at : Steps,
                         running : BOOLEAN, listed : SUBSET Places,
                         grants : Dirs]]
  /\ gate \in [Procs -> {"none", "shared", "exclusive"}]
  /\ hostLock \in [Projects -> Procs \cup {Nobody}] /\ owners \in Procs \cup {Nobody}
  /\ store \in [Projects -> Dirs] /\ backup \in [Projects -> Dirs]
  /\ vm \in [Projects -> [alive : BOOLEAN, boot : SUBSET Claims, open : SUBSET Claims,
                          forwards : SUBSET Ports]]
  /\ record \in [Projects -> [known : BOOLEAN, devices : SUBSET Claims,
                              active : SUBSET Claims]]
  /\ node \in [Paths -> Serials \cup {None}]
  /\ granted \in [Projects -> SUBSET Claims] /\ exists \in [Projects -> BOOLEAN]
  /\ faults \in 0..MaxFaults /\ replugs \in 0..MaxReplugs

-----------------------------------------------------------------------------

Ended == [op |-> None, project |-> None, resource |-> None, at |-> "idle",
          running |-> FALSE, listed |-> {}, grants |-> NoDir]
NoVM == [alive |-> FALSE, boot |-> {}, open |-> {}, forwards |-> {}]
NoRecord == [known |-> FALSE, devices |-> {}, active |-> {}]

\* Projects of either format without grants, and directories without a project.
Init ==
  /\ proc = [p \in Procs |-> Ended]
  /\ gate = [p \in Procs |-> "none"]
  /\ hostLock = [j \in Projects |-> Nobody] /\ owners = Nobody
  /\ store \in [Projects -> {NoDir, [NoDir EXCEPT !.content = "legacy"],
                             [NoDir EXCEPT !.content = "current"]}]
  /\ backup = [j \in Projects |-> NoDir]
  /\ vm = [j \in Projects |-> NoVM] /\ record = [j \in Projects |-> NoRecord]
  /\ node \in [Paths -> Serials]
  /\ granted = [j \in Projects |-> {}]
  /\ exists = [j \in Projects |-> store[j] # NoDir]
  /\ faults = 0 /\ replugs = 0

At(p, step) == proc[p].at = step
Runs(p, some) == proc[p].op \in some
Goto(p, step) == proc' = [proc EXCEPT ![p].at = step]
Mine(p) == proc[p].project

IsDir(d) == d.content # "none"
\* isProjectInitialized: a directory with anything in it.
Initialized(j) == store[j].content \notin {"none", "empty"}

\* The command ends, and its locks with it.
Leave(p) ==
  /\ proc' = [proc EXCEPT ![p] = Ended]
  /\ gate' = [gate EXCEPT ![p] = "none"]
  /\ hostLock' = [j \in Projects |-> IF hostLock[j] = p THEN Nobody ELSE hostLock[j]]
  /\ owners' = IF owners = p THEN Nobody ELSE owners

Proceed(p, step) == Goto(p, step) /\ UNCHANGED locks

Fault == faults < MaxFaults /\ faults' = faults + 1

-----------------------------------------------------------------------------
(* The locks a command takes, none of which it waits for, and the checks   *)
(* it makes before it recovers the project                                 *)

\* flock on the project gate
Free(p, j, command) ==
  \A q \in Procs \ {p} :
    Mine(q) = j => IF command \in Exclusive THEN gate[q] = "none" ELSE gate[q] # "exclusive"

\* requireHostAccessProject, requireProject, and what vm stop finds
Accepted(j, command) ==
  CASE command \in Change \cup {"clean"} -> Initialized(j)
    [] command = "vm stop" -> store[j].content = "current" /\ vm[j].alive
    [] OTHER -> TRUE

TakesHostLock(command) == command \in Change \cup {"delete"}

\* At most one zaigr shell at a time creates a given project.
Start(p) ==
  /\ At(p, "idle")
  /\ \E j \in Projects, command \in Operations :
       /\ Free(p, j, command) /\ Accepted(j, command)
       /\ gate' = [gate EXCEPT ![p] = IF command \in Exclusive THEN "exclusive" ELSE "shared"]
       /\ TakesHostLock(command) => hostLock[j] = Nobody
       /\ hostLock' = IF TakesHostLock(command) THEN [hostLock EXCEPT ![j] = p] ELSE hostLock
       /\ \E resource \in CASE command \in DeviceChange -> Paths
                            [] command \in PortChange -> Ports
                            [] OTHER -> {None} :
            proc' = [proc EXCEPT ![p].op = command, ![p].project = j,
              ![p].resource = resource,
              ![p].at = CASE command = "vm stop" -> "stop"
                          [] command = "shell" -> IF Initialized(j) THEN "enter" ELSE "create"
                          [] OTHER -> "recover"]
       /\ command = "shell" /\ ~Initialized(j) =>
            \A q \in Procs : ~(proc[q].at \in {"create", "created"} /\ Mine(q) = j)
  /\ UNCHANGED <<owners, stores, vm, record, node, history, faults, replugs>>

-----------------------------------------------------------------------------
(* recoverLegacyCleanTransaction, and what each command does next          *)

\* os.RemoveAll: the directory is gone, or a killed or failing removal leaves a part
\* of it, with or without the grants.
Removed(d, rest) ==
  \/ rest = NoDir /\ UNCHANGED faults
  \/ Fault /\ rest \in {[NoDir EXCEPT !.content = "partial"], [d EXCEPT !.content = "partial"]}

AfterRecovery(p) ==
  CASE Runs(p, {"allow device"}) -> "allow"
    [] Runs(p, {"remove device"}) -> "remove"
    [] Runs(p, {"allow port"}) -> "save-port"
    [] Runs(p, {"remove port"}) -> "apply"
    [] Runs(p, {"vm start"}) -> "enter"
    [] Runs(p, {"clean"}) -> "publish"
    [] Runs(p, {"delete"}) -> "delete"
    [] OTHER -> "idle"

\* A host-access change looks for the VM; clean and delete refuse while it runs.  What
\* clean does to a store in the current format is another module's business.
Continue(p) ==
  LET j == Mine(p) IN
  IF \/ Runs(p, {"setup run"})
     \/ Runs(p, {"clean"}) /\ (vm[j].alive \/ store'[j].content = "current")
     \/ Runs(p, {"delete"}) /\ (vm[j].alive \/ store'[j].content \in {"none", "empty"})
  THEN Leave(p)
  ELSE /\ proc' = [proc EXCEPT ![p].at = AfterRecovery(p),
                               ![p].running = Runs(p, Change) /\ vm[j].alive]
       /\ UNCHANGED locks

\* A mutant: every backup is taken for a leftover.
BackupIsLeftover(j) == TRUE

\* The clean store was published before the interruption.
Published(j) == IsDir(store[j])

\* The owners lock is held for this step alone; a command waits for it, but not long.
Recover(p) ==
  LET j == Mine(p) IN
  /\ At(p, "recover")
  /\ \/ ~IsDir(backup[j]) /\ UNCHANGED <<stores, faults>> /\ Continue(p)
     \/ /\ IsDir(backup[j]) /\ owners = Nobody
        /\ \/ /\ Published(j) /\ UNCHANGED store
              /\ \E rest \in Dirs :
                   Removed(backup[j], rest) /\ backup' = [backup EXCEPT ![j] = rest]
              /\ IF IsDir(backup'[j]) THEN Leave(p) ELSE Continue(p)
           \/ /\ ~Published(j) /\ UNCHANGED faults
              /\ store' = [store EXCEPT ![j] = backup[j]]
              /\ backup' = [backup EXCEPT ![j] = NoDir]
              /\ Continue(p)
     \/ IsDir(backup[j]) /\ owners # Nobody /\ UNCHANGED <<stores, faults>> /\ Leave(p)
  /\ UNCHANGED <<vm, record, node, history, replugs>>

-----------------------------------------------------------------------------
(* Devices: changeHostAccessDevice                                         *)

\* Same path, or the same device.
Conflict(c, d) == c.path = d.path \/ c.serial = d.serial

Claimed(place) == (IF place[2] = "store" THEN store ELSE backup)[place[1]].claims

\* requireHostDeviceOwner reads the names in the store root, then each one's grants: a
\* directory that has been renamed in the meantime has none.
Listing(j) ==
  {place \in Places : /\ place[1] # j
                      /\ IsDir((IF place[2] = "store" THEN store ELSE backup)[place[1]])}

Reserved(p, c) == \E place \in proc[p].listed : \E d \in Claimed(place) : Conflict(c, d)

\* A command waits for the owners lock, but not long.
OwnersTimeout(p) ==
  /\ proc[p].at \in {"allow", "remove", "claim", "publish", "delete"}
  /\ owners # Nobody /\ Leave(p)
  /\ UNCHANGED <<stores, vm, record, node, history, faults, replugs>>

Candidate(p) == [path |-> proc[p].resource, serial |-> node[proc[p].resource]]

\* A mutant: a path without a device is granted.
PluggedUnchecked(p) == TRUE

Plugged(p) == Candidate(p).serial # None

\* The checks on the project's own grants.
AllowDevice(p) ==
  LET j == Mine(p) IN
  /\ At(p, "allow") /\ owners = Nobody
  /\ IF /\ Plugged(p) /\ Cardinality(store[j].claims) < DeviceLimit
        /\ \A c \in store[j].claims : ~Conflict(c, Candidate(p))
     THEN /\ owners' = p /\ UNCHANGED <<gate, hostLock>>
          /\ proc' = [proc EXCEPT ![p].at = "scan", ![p].listed = Listing(j),
                                  ![p].grants.claims = {Candidate(p)}]
     ELSE Leave(p)
  /\ UNCHANGED <<stores, vm, record, node, history, faults, replugs>>

\* The scan is repeated under the same lock around the opening of the device, which
\* must still be the one that was examined.
Scan(p) ==
  /\ At(p, "scan")
  /\ IF \A c \in proc[p].grants.claims : c = Candidate(p) /\ ~Reserved(p, c)
     THEN Proceed(p, "save") ELSE Leave(p)
  /\ UNCHANGED <<stores, vm, record, node, history, faults, replugs>>

\* The file can be written while its directory is there.
SaveDevice(p) ==
  LET j == Mine(p) IN
  /\ At(p, "save") /\ Leave(p)
  /\ IF IsDir(store[j])
     THEN /\ store' = [store EXCEPT ![j].claims = @ \cup proc[p].grants.claims]
          /\ granted' = [granted EXCEPT ![j] = @ \cup proc[p].grants.claims]
     ELSE UNCHANGED <<store, granted>>
  /\ UNCHANGED <<backup, vm, record, node, exists, faults, replugs>>

\* verifyHostAccessRuntime: the record is about this VM and these grants.
RecordVerified(j) ==
  /\ vm[j].alive /\ record[j].known
  /\ Cardinality(vm[j].boot) = Cardinality(record[j].devices)
  /\ record[j].devices \subseteq store[j].claims

\* A mutant: a device that is not active is taken for one that is not open.
PendingUnlessActive(p, c) ==
  proc[p].running => RecordVerified(Mine(p)) /\ c \notin record[Mine(p)].active

\* The device is not one the running VM booted with.
Pending(p, c) ==
  proc[p].running => RecordVerified(Mine(p)) /\ c \notin record[Mine(p)].devices

RemoveDevice(p) ==
  LET j == Mine(p)
      removed == {c \in store[j].claims : c.path = proc[p].resource} IN
  /\ At(p, "remove") /\ owners = Nobody /\ Leave(p)
  /\ IF \A c \in removed : Pending(p, c)
     THEN /\ store' = [store EXCEPT ![j].claims = @ \ removed]
          /\ granted' = [granted EXCEPT ![j] = @ \ removed]
     ELSE UNCHANGED <<store, granted>>
  /\ UNCHANGED <<backup, vm, record, node, exists, faults, replugs>>

-----------------------------------------------------------------------------
(* Ports: changeHostAccessPort, applyPort                                  *)

SavePort(p) ==
  LET j == Mine(p) IN
  /\ At(p, "save-port")
  /\ IF IsDir(store[j])
     THEN /\ store' = [store EXCEPT ![j].ports = @ \cup {proc[p].resource}]
          /\ Proceed(p, "apply")
     ELSE Leave(p) /\ UNCHANGED store
  /\ UNCHANGED <<backup, vm, record, node, history, faults, replugs>>

\* A port of the host has one listener.
Taken(j, port) == \E k \in Projects \ {j} : port \in vm[k].forwards

\* A mutant: what the VM did not withdraw is removed from the file all the same.
PortFailureIgnored(p) ==
  IF Runs(p, {"remove port"}) THEN Proceed(p, "unsave-port") ELSE Leave(p)

PortFails(p) == Leave(p)

Forwards(p, j) ==
  IF Runs(p, {"allow port"}) THEN vm[j].forwards \cup {proc[p].resource}
  ELSE vm[j].forwards \ {proc[p].resource}

\* What is saved is applied, and what is removed is withdrawn from the VM before it
\* is removed from the file.
ApplyPort(p) ==
  LET j == Mine(p) IN
  /\ At(p, "apply")
  /\ \/ /\ ~proc[p].running \/ proc[p].resource \notin store[j].ports
        /\ UNCHANGED <<vm, faults>>
        /\ IF Runs(p, {"remove port"}) /\ proc[p].resource \in store[j].ports
           THEN Proceed(p, "unsave-port") ELSE Leave(p)
     \/ /\ proc[p].running /\ proc[p].resource \in store[j].ports /\ vm[j].alive
        /\ Runs(p, {"allow port"}) => ~Taken(j, proc[p].resource)
        /\ vm' = [vm EXCEPT ![j].forwards = Forwards(p, j)] /\ UNCHANGED faults
        /\ IF Runs(p, {"remove port"}) THEN Proceed(p, "unsave-port") ELSE Leave(p)
     \/ /\ proc[p].running /\ proc[p].resource \in store[j].ports
        /\ \/ ~vm[j].alive /\ UNCHANGED faults
           \/ Runs(p, {"allow port"}) /\ Taken(j, proc[p].resource) /\ UNCHANGED faults
           \/ Fault
        /\ PortFails(p) /\ UNCHANGED vm
  /\ UNCHANGED <<stores, record, node, history, replugs>>

\* An absent port is left alone at the step before.
UnsavePort(p) ==
  /\ At(p, "unsave-port") /\ Leave(p)
  /\ store' = [store EXCEPT ![Mine(p)].ports = @ \ {proc[p].resource}]
  /\ UNCHANGED <<backup, vm, record, node, history, faults, replugs>>

-----------------------------------------------------------------------------
(* startPreparedProjectVM, activateHostAccess                              *)

\* Under the .host-access lock until the devices are activated.
EnterVM(p) ==
  LET j == Mine(p) IN
  /\ At(p, "enter")
  /\ IF store[j].content = "current" /\ ~vm[j].alive /\ hostLock[j] = Nobody
     THEN hostLock' = [hostLock EXCEPT ![j] = p] /\ Goto(p, "boot") /\ UNCHANGED <<gate, owners>>
     ELSE Leave(p)
  /\ UNCHANGED <<stores, vm, record, node, history, faults, replugs>>

\* QEMU gets a null backend for every granted device.
Boot(p) ==
  LET j == Mine(p) IN
  /\ At(p, "boot")
  /\ vm' = [vm EXCEPT ![j] = [NoVM EXCEPT !.alive = TRUE, !.boot = store[j].claims]]
  /\ record' = [record EXCEPT ![j] = NoRecord]
  /\ proc' = [proc EXCEPT ![p].at = "forward", ![p].grants = store[j]] /\ UNCHANGED locks
  /\ UNCHANGED <<stores, node, history, faults, replugs>>

\* A port that cannot be forwarded is reported, and remains saved.
ForwardPorts(p) ==
  LET j == Mine(p) IN
  /\ At(p, "forward")
  /\ IF vm[j].alive
     THEN /\ vm' = [vm EXCEPT ![j].forwards =
                      {port \in proc[p].grants.ports : ~Taken(j, port)}]
          /\ Proceed(p, "record")
     ELSE Leave(p) /\ UNCHANGED vm
  /\ UNCHANGED <<stores, record, node, history, faults, replugs>>

\* Every device of the boot is recorded before a backend is opened.
WriteRecord(p) ==
  /\ At(p, "record")
  /\ record' = [record EXCEPT ![Mine(p)] =
                  [known |-> TRUE, devices |-> proc[p].grants.claims, active |-> {}]]
  /\ IF proc[p].grants.claims = {} THEN Leave(p) ELSE Proceed(p, "claim")
  /\ UNCHANGED <<stores, vm, node, history, faults, replugs>>

TakeOwners(p) ==
  /\ At(p, "claim") /\ owners = Nobody
  /\ owners' = p /\ UNCHANGED <<gate, hostLock>>
  /\ proc' = [proc EXCEPT ![p].at = "activate", ![p].listed = Listing(Mine(p))]
  /\ UNCHANGED <<stores, vm, record, node, history, faults, replugs>>

\* grants.claims are the devices that are still to be activated.
Done(p, c) ==
  IF proc[p].grants.claims = {c} THEN Leave(p)
  ELSE /\ proc' = [proc EXCEPT ![p].at = "activate", ![p].grants.claims = @ \ {c}]
       /\ UNCHANGED locks

\* openHostAccessDevice: the device that was granted, and nobody else's.
Opens(p, c) == vm[Mine(p)].alive /\ node[c.path] = c.serial /\ ~Reserved(p, c)

Activate(p) ==
  LET j == Mine(p) IN
  /\ At(p, "activate")
  /\ \E c \in proc[p].grants.claims :
       IF Opens(p, c)
       THEN /\ vm' = [vm EXCEPT ![j].open = @ \cup {c}]
            /\ Proceed(p, "attach")
       ELSE Done(p, c) /\ UNCHANGED vm
  /\ UNCHANGED <<stores, record, node, history, faults, replugs>>

\* A device that the guest does not attach goes back to the null backend; if that
\* fails too, it stays open and is not shown as active.
Attach(p) ==
  LET j == Mine(p) IN
  /\ At(p, "attach")
  /\ \/ \E c \in proc[p].grants.claims \cap vm[j].open :
          /\ \/ /\ record' = [record EXCEPT ![j].active = @ \cup {c}]
                /\ UNCHANGED <<vm, faults>>
             \/ /\ Fault /\ UNCHANGED record
                /\ vm' \in {vm, [vm EXCEPT ![j].open = @ \ {c}]}
          /\ Done(p, c)
     \/ ~vm[j].alive /\ Leave(p) /\ UNCHANGED <<vm, record, faults>>
  /\ UNCHANGED <<stores, node, history, replugs>>

-----------------------------------------------------------------------------
(* stopProjectVMInStore                                                    *)

Stop(p) ==
  /\ At(p, "stop")
  /\ vm' = [vm EXCEPT ![Mine(p)] = NoVM] /\ Proceed(p, "stop-clear")
  /\ UNCHANGED <<stores, record, node, history, faults, replugs>>

StopClear(p) ==
  /\ At(p, "stop-clear")
  /\ record' = [record EXCEPT ![Mine(p)] = NoRecord] /\ Leave(p)
  /\ UNCHANGED <<stores, vm, node, history, faults, replugs>>

-----------------------------------------------------------------------------
(* publishLegacyCleanStore                                                 *)

\* A mutant: grants are left behind.
StagedWithoutGrants(j) == [NoDir EXCEPT !.content = "current"]

\* The new store has the grants of the old one (preserveHostAccessGrants).
Staged(j) == [store[j] EXCEPT !.content = "current"]

\* A mutant: the rename is not serialized with the scans.
PublishUnlocked(p) ==
  LET j == Mine(p) IN
  /\ At(p, "publish") /\ UNCHANGED locks
  /\ proc' = [proc EXCEPT ![p].at = "publish-new", ![p].grants = Staged(j)]
  /\ backup' = [backup EXCEPT ![j] = store[j]] /\ store' = [store EXCEPT ![j] = NoDir]
  /\ UNCHANGED <<vm, record, node, history, faults, replugs>>

Publish(p) ==
  LET j == Mine(p) IN
  /\ At(p, "publish") /\ owners = Nobody
  /\ owners' = p /\ UNCHANGED <<gate, hostLock>>
  /\ proc' = [proc EXCEPT ![p].at = "publish-new", ![p].grants = Staged(j)]
  /\ backup' = [backup EXCEPT ![j] = store[j]] /\ store' = [store EXCEPT ![j] = NoDir]
  /\ UNCHANGED <<vm, record, node, history, faults, replugs>>

\* A failure here or in the sync before it puts the old store back.
PublishNew(p) ==
  LET j == Mine(p) IN
  /\ At(p, "publish-new")
  /\ \/ /\ store' = [store EXCEPT ![j] = proc[p].grants]
        /\ Proceed(p, "publish-sync") /\ UNCHANGED <<backup, faults>>
     \/ /\ Fault /\ Leave(p)
        /\ store' = [store EXCEPT ![j] = backup[j]] /\ backup' = [backup EXCEPT ![j] = NoDir]
  /\ UNCHANGED <<vm, record, node, history, replugs>>

PublishSync(p) ==
  /\ At(p, "publish-sync")
  /\ \/ Proceed(p, "drop-backup") /\ UNCHANGED faults
     \/ Fault /\ Proceed(p, "undo-new")
  /\ UNCHANGED <<stores, vm, record, node, history, replugs>>

DropBackup(p) ==
  LET j == Mine(p) IN
  /\ At(p, "drop-backup") /\ Leave(p)
  /\ \E rest \in Dirs : Removed(backup[j], rest) /\ backup' = [backup EXCEPT ![j] = rest]
  /\ UNCHANGED <<store, vm, record, node, history, replugs>>

\* The new store is removed, whether that succeeds or not, ...
UndoNew(p) ==
  LET j == Mine(p) IN
  /\ At(p, "undo-new") /\ Proceed(p, "undo-old")
  /\ \E rest \in Dirs : Removed(store[j], rest) /\ store' = [store EXCEPT ![j] = rest]
  /\ UNCHANGED <<backup, vm, record, node, history, replugs>>

\* ... and the old one renamed to its place if that is free.
UndoOld(p) ==
  LET j == Mine(p) IN
  /\ At(p, "undo-old") /\ Leave(p)
  /\ IF IsDir(store[j]) THEN UNCHANGED stores
     ELSE store' = [store EXCEPT ![j] = backup[j]] /\ backup' = [backup EXCEPT ![j] = NoDir]
  /\ UNCHANGED <<vm, record, node, history, faults, replugs>>

-----------------------------------------------------------------------------
(* cmdProjectDelete, removeProjectStorePreservingHostClaims                *)

Delete(p) ==
  /\ At(p, "delete") /\ owners = Nobody
  /\ owners' = p /\ UNCHANGED <<gate, hostLock>>
  /\ proc' = [proc EXCEPT ![p].at = "delete-content", ![p].grants = store[Mine(p)]]
  /\ UNCHANGED <<stores, vm, record, node, history, faults, replugs>>

\* Everything but the grants first; ...
DeleteContent(p) ==
  LET j == Mine(p) IN
  /\ At(p, "delete-content")
  /\ store' = [store EXCEPT ![j].content = "partial"] /\ exists' = [exists EXCEPT ![j] = FALSE]
  /\ \/ Proceed(p, "delete-claims") /\ UNCHANGED faults
     \/ Fault /\ Leave(p)
  /\ UNCHANGED <<backup, vm, record, node, granted, replugs>>

DeleteClaims(p) ==
  LET j == Mine(p) IN
  /\ At(p, "delete-claims") /\ Proceed(p, "delete-dir")
  /\ store' = [store EXCEPT ![j] = [NoDir EXCEPT !.content = "empty"]]
  /\ UNCHANGED <<backup, vm, record, node, history, faults, replugs>>

\* ... they are written back when the directory itself cannot be removed.
DeleteDir(p) ==
  LET j == Mine(p) IN
  /\ At(p, "delete-dir") /\ Leave(p)
  /\ \/ /\ store' = [store EXCEPT ![j] = NoDir]
        /\ granted' = [granted EXCEPT ![j] = {}] /\ UNCHANGED faults
     \/ /\ Fault /\ UNCHANGED granted
        /\ store' = [store EXCEPT ![j] = [proc[p].grants EXCEPT !.content = "partial"]]
  /\ UNCHANGED <<backup, vm, record, node, exists, replugs>>

-----------------------------------------------------------------------------
(* cmdInit, in the zaigr shell of a directory without a project            *)

\* The user agrees to a new project; what an interrupted clean has left is no part
\* of it.
Create(p) ==
  LET j == Mine(p) IN
  /\ At(p, "create")
  /\ IF Initialized(j) THEN Leave(p) /\ UNCHANGED <<store, history>>
     ELSE /\ store' = [store EXCEPT ![j] = [NoDir EXCEPT !.content = "partial"]]
          /\ exists' = [exists EXCEPT ![j] = FALSE]
          /\ granted' = [granted EXCEPT ![j] = {}]
          /\ Proceed(p, "created")
  /\ UNCHANGED <<backup, vm, record, node, faults, replugs>>

\* A failure removes the directory, with all that others have put there.
Created(p) ==
  LET j == Mine(p) IN
  /\ At(p, "created") /\ Leave(p)
  /\ \/ /\ store' = [store EXCEPT ![j].content = "current"]
        /\ exists' = [exists EXCEPT ![j] = TRUE] /\ UNCHANGED <<granted, faults>>
     \/ /\ Fault
        /\ store' = [store EXCEPT ![j] = NoDir]
        /\ granted' = [granted EXCEPT ![j] = {}] /\ UNCHANGED exists
  /\ UNCHANGED <<backup, vm, record, node, replugs>>

-----------------------------------------------------------------------------

VMEnds(j) ==
  /\ vm[j].alive /\ Fault /\ vm' = [vm EXCEPT ![j] = NoVM]
  /\ UNCHANGED <<proc, locks, stores, record, node, history, replugs>>

Replug(path) ==
  /\ replugs < MaxReplugs /\ replugs' = replugs + 1
  /\ \E serial \in Serials \cup {None} : node' = [node EXCEPT ![path] = serial]
  /\ UNCHANGED <<proc, locks, stores, vm, record, history, faults>>

Crash(p) ==
  /\ ~At(p, "idle") /\ Fault /\ Leave(p)
  /\ UNCHANGED <<stores, vm, record, node, history, replugs>>

Changing(p) == \/ AllowDevice(p) \/ Scan(p) \/ SaveDevice(p) \/ RemoveDevice(p)
               \/ SavePort(p) \/ ApplyPort(p) \/ UnsavePort(p)

Booting(p) == \/ EnterVM(p) \/ Boot(p) \/ ForwardPorts(p) \/ WriteRecord(p)
              \/ TakeOwners(p) \/ Activate(p) \/ Attach(p) \/ Stop(p) \/ StopClear(p)

Replacing(p) == \/ Publish(p) \/ PublishNew(p) \/ PublishSync(p) \/ DropBackup(p)
                \/ UndoNew(p) \/ UndoOld(p) \/ Delete(p) \/ DeleteContent(p)
                \/ DeleteClaims(p) \/ DeleteDir(p) \/ Create(p) \/ Created(p)

Next == \/ \E p \in Procs : \/ Start(p) \/ Recover(p) \/ OwnersTimeout(p) \/ Changing(p)
                            \/ Booting(p) \/ Replacing(p) \/ Crash(p)
        \/ \E j \in Projects : VMEnds(j)
        \/ \E path \in Paths : Replug(path)

Spec == Init /\ [][Next]_vars

-----------------------------------------------------------------------------
(* Properties                                                              *)

Held(j) == store[j].claims \cup backup[j].claims

\* No path and no device is reserved by two projects, whatever renames, crashes and
\* deletions their stores go through.
ExclusiveOwnership ==
  \A j, k \in Projects : j # k =>
    \A c \in Held(j), d \in Held(k) : ~Conflict(c, d)

\* A device a VM has open is reserved by its project, and is the one that was granted.
OpenIsReserved == \A j \in Projects : vm[j].open \subseteq store[j].claims

\* What a VM forwards is saved: it can be seen, and removed.
ForwardsAreSaved == \A j \in Projects : vm[j].forwards \subseteq store[j].ports

\* What the user was granted stays reserved until the user gives it up; an empty
\* directory is what a delete that was killed at its last step has left.
GrantsAreKept ==
  \A j \in Projects : granted[j] \subseteq Held(j) \/ store[j].content = "empty"

\* After any interruption there is one whole store that recovery leaves the project.
ProjectIsRecoverable ==
  \A j \in Projects : exists[j] =>
    (IF IsDir(store[j]) THEN store[j] ELSE backup[j]).content \in {"legacy", "current"}
=============================================================================
