----------------------------- MODULE RunningVM -----------------------------
(***************************************************************************)
(* The VM of one project and the commands that start, enter, change and    *)
(* stop it: zaigr shell, project vm start, stop and exec, and project      *)
(* firewall allow and remove (vm_qemu.go, vm_project.go,                   *)
(* vm_project_firewall_ip.go, vm_firewall_root.go,                         *)
(* vm_project_image_dirty.go).                                             *)
(*                                                                         *)
(* What a command knows of the VM is the runtime directory: the monitor    *)
(* socket, the SSH port, and the exact IPv4 addresses that were applied to *)
(* the guest or attempted.  Every boot has a number, which stands for its  *)
(* QEMU process, its socket and its port.  The guest has the firewall      *)
(* rules (in its image, so they outlive a boot), the connections opened    *)
(* under them, and the zaigr-inside scripts that rewrite the rules.  A     *)
(* script is the child of an ssh, not of the command: it goes on in the    *)
(* guest when the command is killed or the connection is lost, beside any  *)
(* later script, since zaigr-inside takes no lock.                         *)
(*                                                                         *)
(* No setup capture is active; presets, setups and host access are other   *)
(* modules' business.                                                      *)
(***************************************************************************)
EXTENDS Naturals

CONSTANTS Procs, Addresses,
          Operations,   \* the commands that run, a subset of Commands
          Serial,       \* the commands of which the user runs one at a time
          MaxBoots,     \* bound on the boots
          MaxFaults,    \* bound on killed commands, failing connections and VMs that end
          MaxChanges,   \* bound on the changes of the saved addresses
          Nobody, None

Commands == {"shell", "root shell", "vm start", "vm stop", "vm stop --abrupt",
             "vm exec", "root exec", "firewall allow", "firewall remove"}

Exclusive == {"vm start", "vm stop", "vm stop --abrupt"}
Root == {"root shell", "root exec"}
Shell == {"shell", "root shell"}
Boots == Shell \cup {"vm start"}
FirewallChange == {"firewall allow", "firewall remove"}

ASSUME VMAssumption ==
  /\ Operations \subseteq Commands /\ Serial \subseteq Commands
  /\ {MaxBoots, MaxFaults, MaxChanges} \subseteq Nat
  /\ Nobody \notin Procs /\ None \notin Addresses
  /\ \A p \in Procs : p \notin Nat

NoVM == 0
VMs == 1..MaxBoots
Lists == SUBSET Addresses
Unknown == {None}     \* in place of a list that is not there

\* A script belongs to the command that waits for it or, once a fault has parted
\* them, to the number of the fault.
Orphans == 1..MaxFaults
Scripts == Procs \cup Orphans

VARIABLES
  proc,       \* each command: op, address, where it is, at, the VM it talks to
  gate,       \* the project gate: "none", "shared" or "exclusive"
  ipsLock,    \* the holder of the .firewall-ips lock
  hostAccess, \* the holder of the .host-access lock
  saved,      \* firewall-ips
  socket, sshPort, applied, attempted,  \* the runtime directory
  alive,      \* the QEMU processes
  rules,      \* the addresses the guest's firewall allows
  disk,       \* those that reached its image
  leftover,   \* those the image had when the VM booted
  flows,      \* the addresses of the guest's connections
  script,     \* the sync-ips scripts in the guest
  allowAll,   \* the temporary allow-all rules of root sessions
  dirty,      \* project-image-dirty
  rootWork,   \* a root session has changed the image
  synced,     \* history: the VM that last completed a sync
  overtaken,  \* history: the orphans that were there when a script was sent
  disturbed,  \* history: one of them has changed the rules after that
  expired,    \* history: the root sessions whose timer has removed their rule
  booted, faults, changes

locks == <<gate, ipsLock, hostAccess>>
runtime == <<socket, sshPort, applied, attempted>>
histories == <<synced, overtaken, disturbed>>
guest == <<rules, disk, leftover, flows, script, histories>>
rootState == <<allowAll, dirty, rootWork, expired>>
bounds == <<booted, faults, changes>>
vars == <<proc, locks, saved, runtime, alive, guest, rootState, bounds>>

Steps == {"idle", "detect", "detect-changed", "detect-again", "clear-stale",
          "clear-stale-again", "ips-lock", "change", "examine", "attempt",
          "script", "record", "clear-attempted", "host-access", "clear-runtime",
          "write-port", "start-qemu", "wait-ssh", "enter", "allow-all", "mark-dirty",
          "session", "in-session", "stop-scan", "stop", "stop-clear"}

NoScript == [at |-> "none", todo |-> {}, desired |-> {}, revoked |-> {}]

TypeOK ==
  /\ proc \in [Procs -> [op : Commands \cup {None}, address : Addresses \cup {None},
                         at : Steps, vm : VMs \cup {NoVM}]]
  /\ gate \in [Procs -> {"none", "shared", "exclusive"}]
  /\ {ipsLock, hostAccess} \subseteq Procs \cup {Nobody}
  /\ {saved, rules, disk, leftover, flows} \subseteq Lists
  /\ {socket, sshPort, synced} \subseteq VMs \cup {NoVM} /\ alive \subseteq VMs
  /\ {applied, attempted} \subseteq Lists \cup {Unknown}
  /\ script \in [Scripts -> [at : {"none", "allow", "drop", "close", "done"}, todo : Lists,
                             desired : Lists, revoked : Lists]]
  /\ overtaken \subseteq Orphans
  /\ allowAll \subseteq Procs /\ expired \subseteq Procs
  /\ {dirty, rootWork, disturbed} \subseteq BOOLEAN
  /\ booted \in 0..MaxBoots /\ faults \in 0..MaxFaults
  /\ changes \in 0..MaxChanges

-----------------------------------------------------------------------------

Ended == [op |-> None, address |-> None, at |-> "idle", vm |-> NoVM]

\* A stopped project; an address may be saved and, from an earlier boot, in the
\* rules of the image.
Init ==
  /\ proc = [p \in Procs |-> Ended]
  /\ gate = [p \in Procs |-> "none"] /\ ipsLock = Nobody /\ hostAccess = Nobody
  /\ saved \in Lists /\ disk \in Lists /\ rules = disk /\ leftover = {}
  /\ socket = NoVM /\ sshPort = NoVM /\ applied = Unknown /\ attempted = Unknown
  /\ alive = {} /\ flows = {} /\ script = [s \in Scripts |-> NoScript]
  /\ overtaken = {} /\ disturbed = FALSE /\ synced = NoVM
  /\ allowAll = {} /\ expired = {} /\ dirty = FALSE /\ rootWork = FALSE
  /\ booted = 0 /\ faults = 0 /\ changes = 0

At(p, step) == proc[p].at = step
Runs(p, some) == proc[p].op \in some
Goto(p, step) == proc' = [proc EXCEPT ![p].at = step]
GotoWith(p, step, vm) == proc' = [proc EXCEPT ![p].at = step, ![p].vm = vm]

Freed(lock, p) == IF lock = p THEN Nobody ELSE lock

\* The command ends and its locks with it; what it left in the guest stays.
Leave(p) ==
  /\ proc' = [proc EXCEPT ![p] = Ended]
  /\ gate' = [gate EXCEPT ![p] = "none"]
  /\ ipsLock' = Freed(ipsLock, p) /\ hostAccess' = Freed(hostAccess, p)

Proceed(p, step) == Goto(p, step) /\ UNCHANGED locks

\* The flock on the project gate is granted or refused at once; a command that is
\* refused has done nothing.
Granted(p, command) ==
  \A q \in Procs \ {p} : IF command \in Exclusive THEN gate[q] = "none"
                         ELSE gate[q] # "exclusive"

Start(p) ==
  /\ At(p, "idle") /\ p \notin allowAll
  /\ \E command \in Operations :
       /\ command \in Serial => \A q \in Procs : ~Runs(q, Serial)
       /\ Granted(p, command)
       /\ gate' = [gate EXCEPT ![p] = IF command \in Exclusive THEN "exclusive" ELSE "shared"]
       /\ \E address \in IF command \in FirewallChange THEN Addresses ELSE {None} :
            proc' = [proc EXCEPT ![p].op = command, ![p].address = address,
              ![p].at = CASE command \in FirewallChange -> "ips-lock"
                          [] command \in {"vm stop", "vm stop --abrupt"} -> "stop-scan"
                          [] OTHER -> "detect"]
  /\ UNCHANGED <<ipsLock, hostAccess, saved, runtime, alive, guest, rootState, bounds>>

-----------------------------------------------------------------------------
(* Detection of a running VM                                               *)

Running == socket \in alive
Stale == socket # NoVM /\ ~Running

ClearRuntimeState ==
  socket' = NoVM /\ sshPort' = NoVM /\ applied' = Unknown /\ attempted' = Unknown

\* Where a command goes on when it finds a VM, ...
WithVM(p) ==
  CASE At(p, "detect-changed") -> "attempt"
    [] Runs(p, Boots \cup {"vm exec"}) -> "ips-lock"
    [] Runs(p, {"root exec"}) -> "allow-all"
    [] OTHER -> "examine"

\* ... and when it finds none: exec is refused, a saved change is for the next boot.
NoVMFound(p) ==
  IF Runs(p, Boots) THEN Proceed(p, IF Runs(p, Shell) THEN "detect-again" ELSE "host-access")
  ELSE Leave(p)

Detect(p) ==
  /\ At(p, "detect") \/ At(p, "detect-changed")
  /\ CASE Running -> GotoWith(p, WithVM(p), sshPort) /\ UNCHANGED locks
       [] Stale   -> Proceed(p, "clear-stale")
       [] OTHER   -> NoVMFound(p)
  /\ UNCHANGED <<saved, runtime, alive, guest, rootState, bounds>>

ClearStale(p) ==
  /\ At(p, "clear-stale")
  /\ ClearRuntimeState /\ NoVMFound(p)
  /\ UNCHANGED <<saved, alive, guest, rootState, bounds>>

\* cmdVMShell looks a second time, and enters the VM it finds.
DetectAgain(p) ==
  /\ At(p, "detect-again")
  /\ CASE Running -> GotoWith(p, IF Runs(p, Root) THEN "allow-all" ELSE "enter", sshPort)
       [] Stale   -> Goto(p, "clear-stale-again")
       [] OTHER   -> Goto(p, "host-access")
  /\ UNCHANGED <<locks, saved, runtime, alive, guest, rootState, bounds>>

ClearStaleAgain(p) ==
  /\ At(p, "clear-stale-again")
  /\ ClearRuntimeState /\ Goto(p, "host-access")
  /\ UNCHANGED <<locks, saved, alive, guest, rootState, bounds>>

-----------------------------------------------------------------------------
(* startPreparedProjectVM, bootProjectVM                                   *)

EnterHostAccess(p) ==
  /\ At(p, "host-access")
  /\ IF hostAccess = Nobody
     THEN hostAccess' = p /\ Goto(p, "clear-runtime") /\ UNCHANGED <<gate, ipsLock>>
     ELSE Leave(p)
  /\ UNCHANGED <<saved, runtime, alive, guest, rootState, bounds>>

ClearRuntime(p) ==
  /\ At(p, "clear-runtime")
  /\ ClearRuntimeState /\ Goto(p, "write-port")
  /\ UNCHANGED <<locks, saved, alive, guest, rootState, bounds>>

WritePort(p) ==
  /\ At(p, "write-port") /\ booted < MaxBoots
  /\ booted' = booted + 1 /\ sshPort' = booted'
  /\ GotoWith(p, "start-qemu", booted')
  /\ UNCHANGED <<locks, saved, socket, applied, attempted, alive, guest, rootState,
                 faults, changes>>

ScriptsEnd ==
  script' = [s \in Scripts |-> NoScript] /\ overtaken' = {} /\ disturbed' = FALSE

\* A new guest has the rules of its image, no connections and no scripts.
GuestBoots ==
  /\ rules' = disk /\ leftover' = disk /\ flows' = {} /\ UNCHANGED <<disk, synced>>
  /\ ScriptsEnd /\ allowAll' = {}

\* QEMU locks its image: a second one binds the socket and exits, with or without
\* removing it.
StartQemu(p) ==
  /\ At(p, "start-qemu")
  /\ IF alive = {}
     THEN alive' = {proc[p].vm} /\ socket' = proc[p].vm /\ GuestBoots
     ELSE socket' \in {proc[p].vm, NoVM} /\ UNCHANGED <<alive, guest, allowAll>>
  /\ Goto(p, "wait-ssh")
  /\ UNCHANGED <<locks, saved, sshPort, applied, attempted, dirty, rootWork, expired,
                 bounds>>

\* waitForSSH: within 90 seconds, or the command fails.
WaitForSSH(p) ==
  /\ At(p, "wait-ssh")
  /\ IF proc[p].vm \in alive THEN Proceed(p, "ips-lock") ELSE Leave(p)
  /\ UNCHANGED <<saved, runtime, alive, guest, rootState, bounds>>

-----------------------------------------------------------------------------
(* The exact IPv4 addresses                                                *)

LockIPs(p) ==
  /\ At(p, "ips-lock")
  /\ IF ipsLock = Nobody
     THEN /\ ipsLock' = p /\ UNCHANGED <<gate, hostAccess>>
          /\ Goto(p, CASE Runs(p, FirewallChange) -> "change"
                       [] Runs(p, {"vm exec"}) -> "examine"
                       [] OTHER -> "attempt")
     ELSE Leave(p)
  /\ UNCHANGED <<saved, runtime, alive, guest, rootState, bounds>>

\* cmdProjectFirewallIPChange: the saved list first, then the VM.
Change(p) ==
  /\ At(p, "change")
  /\ saved' = IF Runs(p, {"firewall allow"}) THEN saved \cup {proc[p].address}
              ELSE saved \ {proc[p].address}
  /\ IF saved' = saved THEN UNCHANGED changes
     ELSE changes < MaxChanges /\ changes' = changes + 1
  /\ Goto(p, IF saved' = saved THEN "detect" ELSE "detect-changed")
  /\ UNCHANGED <<locks, runtime, alive, guest, rootState, booted, faults>>

Listed(list) == list \ Unknown

\* A mutant: addresses of an unfinished sync are taken for applied.
AppliedIgnoringAttempts == applied = saved

\* The VM is known to have exactly the saved addresses.
KnownApplied == applied = saved /\ attempted = Unknown

\* reconcileSavedProjectFirewallIPsToVM, and a change that saves nothing: a sync
\* is left out when nothing asks for it.
Examine(p) ==
  /\ At(p, "examine")
  /\ IF /\ Runs(p, {"vm exec", "firewall allow"}) => KnownApplied
        /\ Runs(p, {"firewall remove"}) =>
             proc[p].address \notin Listed(applied) \cup Listed(attempted)
     THEN IF Runs(p, {"vm exec"})
          THEN Goto(p, "enter") /\ ipsLock' = Nobody /\ UNCHANGED <<gate, hostAccess>>
          ELSE Leave(p)
     ELSE Proceed(p, "attempt")
  /\ UNCHANGED <<saved, runtime, alive, guest, rootState, bounds>>

\* A mutant: a list that is not there is read as one with an entry.
PossibleUnread(p) == applied \cup attempted

\* The addresses the guest may have: the one the command revokes, and the lists.
Possible(p) ==
  (IF Runs(p, {"firewall remove"}) THEN {proc[p].address} ELSE {})
    \cup Listed(applied) \cup Listed(attempted)

SendScript(p) ==
  /\ script' = [script EXCEPT ![p] = IF proc[p].vm \in alive
                  THEN [at |-> "allow", todo |-> saved, desired |-> saved,
                        revoked |-> Possible(p) \ saved]
                  ELSE NoScript]
  /\ overtaken' = {n \in Orphans : script[n].at # "none"}
  /\ Goto(p, "script")
  /\ UNCHANGED <<locks, saved, socket, sshPort, applied, alive, rules, disk, leftover,
                 flows, synced, disturbed, rootState, bounds>>

\* A mutant: the guest is asked before anything is written down.
AttemptUnrecorded(p) == At(p, "attempt") /\ SendScript(p) /\ UNCHANGED attempted

\* syncProjectFirewallIPsToVM: every address the guest may have is written down
\* before it is asked to change anything.
Attempt(p) ==
  At(p, "attempt") /\ SendScript(p) /\ attempted' = Possible(p) \cup saved

\* zaigr-inside firewall sync-ips writes the rules one by one, each of them disabled
\* and then enabled, ...
ScriptAllow(s) ==
  /\ script[s].at = "allow" /\ alive # {}
  /\ \/ \E a \in script[s].todo : rules' = rules \ {a} /\ UNCHANGED script
     \/ \E a \in script[s].todo : /\ rules' = rules \cup {a}
                                  /\ script' = [script EXCEPT ![s].todo = @ \ {a}]
     \/ /\ script[s].todo = {} /\ UNCHANGED rules
        /\ script' = [script EXCEPT ![s].at = "drop", ![s].todo = rules \ script[s].desired]
  /\ disturbed' = (disturbed \/ (s \in overtaken /\ rules' # rules))
  /\ UNCHANGED <<proc, locks, saved, runtime, alive, disk, leftover, flows, synced,
                 overtaken, rootState, bounds>>

\* ... removes those it then finds that are not wanted, ...
ScriptDrop(s) ==
  /\ script[s].at = "drop" /\ alive # {}
  /\ \/ \E a \in script[s].todo : /\ rules' = rules \ {a}
                                  /\ script' = [script EXCEPT ![s].todo = @ \ {a}]
     \/ /\ script[s].todo = {} /\ UNCHANGED rules
        /\ script' = [script EXCEPT ![s].at = "close"]
  /\ disturbed' = (disturbed \/ (s \in overtaken /\ rules' # rules))
  /\ UNCHANGED <<proc, locks, saved, runtime, alive, disk, leftover, flows, synced,
                 overtaken, rootState, bounds>>

\* ... and closes the connections to the revoked addresses.
ScriptClose(s) ==
  /\ script[s].at = "close" /\ alive # {}
  /\ flows' = flows \ script[s].revoked
  /\ script' = [script EXCEPT ![s] = IF s \in Orphans THEN NoScript
                                     ELSE [@ EXCEPT !.at = "done"]]
  /\ UNCHANGED <<proc, locks, saved, runtime, alive, rules, disk, leftover, histories,
                 rootState, bounds>>

\* The script has succeeded: its addresses are the applied ones.
Record(p) ==
  /\ At(p, "script") /\ script[p].at = "done"
  /\ applied' = script[p].desired
  /\ script' = [script EXCEPT ![p] = NoScript]
  /\ Goto(p, "clear-attempted")
  /\ UNCHANGED <<locks, saved, socket, sshPort, attempted, alive, rules, disk, leftover,
                 flows, histories, rootState, bounds>>

\* The sync is over; its lock goes with it.
ClearAttempted(p) ==
  /\ At(p, "clear-attempted")
  /\ attempted' = Unknown /\ synced' = proc[p].vm
  /\ IF Runs(p, FirewallChange \cup {"vm start"}) THEN Leave(p)
     ELSE /\ ipsLock' = Nobody /\ hostAccess' = Freed(hostAccess, p) /\ UNCHANGED gate
          /\ Goto(p, IF Runs(p, Shell) /\ hostAccess # p THEN "detect-again"
                     ELSE IF Runs(p, Root) THEN "allow-all" ELSE "enter")
  /\ UNCHANGED <<saved, socket, sshPort, applied, alive, rules, disk, leftover, flows,
                 script, overtaken, disturbed, rootState, bounds>>

\* The script of a command that is gone goes on, or stops wherever it is.
Abandoned(p) ==
  script' = [script EXCEPT ![p] = NoScript,
               ![faults + 1] = IF script[p].at = "done" THEN NoScript ELSE script[p]]

Fault == faults < MaxFaults /\ faults' = faults + 1

\* The connection is refused or lost, or the script fails.
SyncFails(p) ==
  /\ At(p, "script")
  /\ \/ proc[p].vm \notin alive /\ UNCHANGED <<script, faults>>
     \/ Fault /\ Abandoned(p)
  /\ Leave(p)
  /\ UNCHANGED <<saved, runtime, alive, rules, disk, leftover, flows, histories, rootState,
                 booted, changes>>

-----------------------------------------------------------------------------
(* Entering the VM                                                         *)

\* ssh as user: it keeps no lock.
Enter(p) ==
  /\ At(p, "enter") /\ Leave(p)
  /\ UNCHANGED <<saved, runtime, alive, guest, rootState, bounds>>

InstallAllowAll(p) ==
  /\ At(p, "allow-all")
  /\ IF proc[p].vm \in alive
     THEN allowAll' = allowAll \cup {p} /\ expired' = expired \ {p} /\ Proceed(p, "mark-dirty")
     ELSE Leave(p) /\ UNCHANGED <<allowAll, expired>>
  /\ UNCHANGED <<saved, runtime, alive, guest, dirty, rootWork, bounds>>

MarkDirty(p) ==
  /\ At(p, "mark-dirty")
  /\ dirty' = TRUE /\ Goto(p, "session")
  /\ UNCHANGED <<locks, saved, runtime, alive, guest, allowAll, rootWork, expired, bounds>>

\* A mutant: the marker is written when the session is over.
SessionBeforeMarker(p) ==
  /\ At(p, "mark-dirty") /\ Goto(p, "in-session")
  /\ rootWork' = (rootWork \/ proc[p].vm \in alive)
  /\ UNCHANGED <<locks, saved, runtime, alive, guest, allowAll, dirty, expired, bounds>>

\* From its beginning on the session may have changed the image.
Session(p) ==
  /\ At(p, "session") /\ Goto(p, "in-session")
  /\ rootWork' = (rootWork \/ proc[p].vm \in alive)
  /\ UNCHANGED <<locks, saved, runtime, alive, guest, allowAll, dirty, expired, bounds>>

\* A mutant: all sessions share one rule.
RemoveSharedAllowAll(p) ==
  /\ At(p, "in-session")
  /\ allowAll' = {} /\ expired' = expired \ {p} /\ Leave(p)
  /\ UNCHANGED <<saved, runtime, alive, guest, dirty, rootWork, bounds>>

\* The session is over, and so is its rule.
RemoveAllowAll(p) ==
  /\ At(p, "in-session")
  /\ allowAll' = allowAll \ {p} /\ expired' = expired \ {p} /\ Leave(p)
  /\ UNCHANGED <<saved, runtime, alive, guest, dirty, rootWork, bounds>>

\* A timer in the guest removes the rule 31 minutes after it was installed, whether
\* the session has ended without it or still lasts.
ExpireAllowAll(p) ==
  /\ p \in allowAll
  /\ allowAll' = allowAll \ {p}
  /\ expired' = IF At(p, "idle") THEN expired ELSE expired \cup {p}
  /\ UNCHANGED <<proc, locks, saved, runtime, alive, guest, dirty, rootWork, bounds>>

-----------------------------------------------------------------------------
(* stopProjectVMInStore                                                    *)

\* The scan of /proc, by socket path and start time: a process that has ended is not
\* taken for the VM, nor is one that has its pid now.
Processes == alive

StopScan(p) ==
  /\ At(p, "stop-scan")
  /\ IF Processes # {} THEN GotoWith(p, "stop", CHOOSE n \in Processes : TRUE) /\ UNCHANGED locks
     ELSE IF Stale THEN Proceed(p, "stop-clear") ELSE Leave(p)
  /\ UNCHANGED <<saved, runtime, alive, guest, rootState, bounds>>

\* The guest with its connections and scripts is gone; flushed says whether all its
\* writes have reached the image.
GuestEnds(flushed) ==
  /\ alive' = {}
  /\ disk' \in IF flushed THEN {rules} ELSE {disk, rules}
  /\ rules' = disk' /\ flows' = {} /\ ScriptsEnd
  /\ leftover' = {} /\ synced' = NoVM
  /\ allowAll' = {} /\ expired' = {} /\ UNCHANGED <<dirty, rootWork>>

\* Both wait for the processes the scan has found.
FlushAndQuit == Running /\ sshPort # NoVM /\ GuestEnds(TRUE)
Kill == GuestEnds(FALSE)

\* A graceful stop needs the monitor and the port, and a guest that flushes and
\* quits in time.
Stop(p) ==
  /\ At(p, "stop")
  /\ \/ /\ IF Runs(p, {"vm stop"}) THEN FlushAndQuit ELSE Kill
        /\ Proceed(p, "stop-clear") /\ UNCHANGED faults
     \/ /\ Runs(p, {"vm stop"}) /\ ~(Running /\ sshPort # NoVM)
        /\ Leave(p) /\ UNCHANGED <<alive, guest, rootState, faults>>
     \/ Fault /\ Leave(p) /\ UNCHANGED <<alive, guest, rootState>>
  /\ UNCHANGED <<saved, runtime, booted, changes>>

StopClear(p) ==
  /\ At(p, "stop-clear")
  /\ ClearRuntimeState /\ Leave(p)
  /\ UNCHANGED <<saved, alive, guest, rootState, bounds>>

-----------------------------------------------------------------------------

\* The guest shuts down or QEMU dies; its socket may stay.
VMEnds ==
  /\ alive # {} /\ Fault /\ GuestEnds(FALSE)
  /\ socket' \in {socket} \cup (IF Running THEN {NoVM} ELSE {})
  /\ UNCHANGED <<proc, locks, saved, sshPort, applied, attempted, booted, changes>>

\* A program in the guest connects to an address it may reach.
Connect ==
  /\ alive # {}
  /\ \E a \in rules \ flows : flows' = flows \cup {a}
  /\ UNCHANGED <<proc, locks, saved, runtime, alive, rules, disk, leftover, script,
                 histories, rootState, bounds>>

Crash(p) ==
  /\ ~At(p, "idle") /\ Fault
  /\ Abandoned(p) /\ expired' = expired \ {p} /\ Leave(p)
  /\ UNCHANGED <<saved, runtime, alive, rules, disk, leftover, flows, histories, allowAll,
                 dirty, rootWork, booted, changes>>

Booting(p) == \/ Detect(p) \/ ClearStale(p) \/ DetectAgain(p) \/ ClearStaleAgain(p)
              \/ EnterHostAccess(p) \/ ClearRuntime(p) \/ WritePort(p) \/ StartQemu(p)
              \/ WaitForSSH(p)

Syncing(p) == \/ LockIPs(p) \/ Change(p) \/ Examine(p) \/ Attempt(p) \/ Record(p)
              \/ ClearAttempted(p) \/ SyncFails(p)

Scripting(s) == ScriptAllow(s) \/ ScriptDrop(s) \/ ScriptClose(s)

Entering(p) == \/ Enter(p) \/ InstallAllowAll(p) \/ MarkDirty(p) \/ Session(p)
               \/ RemoveAllowAll(p) \/ ExpireAllowAll(p)

Stopping(p) == StopScan(p) \/ Stop(p) \/ StopClear(p)

Next == \/ VMEnds \/ Connect
        \/ \E s \in Scripts : Scripting(s)
        \/ \E p \in Procs : \/ Start(p) \/ Booting(p) \/ Syncing(p)
                            \/ Entering(p) \/ Stopping(p) \/ Crash(p)

Spec == Init /\ [][Next]_vars

-----------------------------------------------------------------------------
(* Properties                                                              *)

Synced == Running /\ synced = socket

\* Once a VM has completed a sync, the records that let project vm exec skip the next
\* one are true: the guest allows exactly the saved addresses, and has connections to
\* no other, except those it made at boot under the rules its image still had.  The
\* code does not ensure it when a script that a fault left behind changes the rules
\* after a later sync was sent: disturbed.
RecordsAreTrue ==
  Synced /\ KnownApplied /\ ~disturbed => rules = saved /\ flows \subseteq saved \cup leftover

\* Whatever a VM that is found may reach is on a list, so that interrupted changes can be
\* revoked, or was in the rules of its image when it booted: also what a script left
\* behind by a fault allows, until a later sync is sent beside it.
GuestIsOnRecord ==
  Running /\ ~disturbed =>
    rules \cup flows \subseteq Listed(applied) \cup Listed(attempted) \cup leftover

\* A root session leaves a marked image, however it ends.
RootWorkIsMarked == rootWork => dirty

\* The rule of a root session is its own: while its VM runs the session loses the
\* rule only to its own timer, never to the end of another session, and a rule that
\* outlives its session is one whose command was killed.
RootRulesAreTheirOwn ==
  \A p \in Procs :
    /\ At(p, "in-session") /\ proc[p].vm \in alive => p \in allowAll \cup expired
    /\ At(p, "idle") /\ p \in allowAll => faults > 0

\* When no command is booting it, a VM that runs is found by the next command.
RunningVMIsDetected ==
  alive # {} =>
    Running \/ \E p \in Procs : proc[p].at \in {"write-port", "start-qemu", "wait-ssh"}
=============================================================================
