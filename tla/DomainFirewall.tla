--------------------------- MODULE DomainFirewall ---------------------------
(***************************************************************************)
(* The domains one project may reach: the account's list and its edits     *)
(* (vm_global_firewall.go), the entries of the project's setups, and the   *)
(* sync that brings both to the guest's list when a command boots or joins *)
(* the VM (syncAppliedSetupFirewallToVM, vm_project.go).                   *)
(*                                                                         *)
(* The guest's list is a file of its image, so it outlives a boot and is   *)
(* replaced with the image.  The project's store says which account        *)
(* entries the guest was given, and the runtime directory which lists were *)
(* synced last in this boot.                                               *)
(***************************************************************************)
EXTENDS Naturals

CONSTANTS Procs, Domains,
          Operations,   \* the commands that run, a subset of Commands
          Serial,       \* the commands of which the user runs one at a time
          MaxFaults,    \* bound on killed commands, failing steps and VMs that end
          MaxChanges,   \* bound on edits, setups and replacements
          None

Edit == {"global firewall allow", "global firewall remove"}
Boots == {"shell", "vm start"}
Exclusive == {"vm start", "vm stop", "clean or rebuild"}
Commands == Edit \cup Exclusive \cup {"shell", "setup run"}

Lists == SUBSET Domains
Digests == [project : Lists, globals : Lists]

ASSUME FirewallAssumption ==
  /\ Operations \subseteq Commands /\ Serial \subseteq Commands
  /\ {MaxFaults, MaxChanges} \subseteq Nat
  /\ None \notin Domains \cup Commands /\ None \notin Digests

VARIABLES
  proc,      \* each command: op, domain, at, the lists it has read
  gate,      \* the project gate: "none", "shared" or "exclusive"
  globals,   \* ~/.zaigr/firewall
  project,   \* firewall: the entries of the project's setups
  applied,   \* global-firewall-applied
  marker,    \* applied-firewall-sync in the runtime directory: a digest of two lists
  vm,        \* the VM runs
  allowed,   \* the guest's list
  disk,      \* what reached its image
  failed,    \* history: entries of setups that failed after the guest had them
  torn,      \* history: entries touched by a sync that was cut, or lost by the guest
  faults, changes

lists == <<globals, project, applied, marker>>
guest == <<vm, allowed, disk>>
history == <<failed, torn>>
vars == <<proc, gate, lists, guest, history, faults, changes>>

Steps == {"idle", "read-list", "truncate", "write", "enter", "read", "append",
          "append-write", "script", "stable", "mark", "record", "setup", "setup-record",
          "stop", "replace"}

\* The edits of the account's list take no lock at all.
GateOf(command) ==
  IF command \in Edit \cup {None} THEN "none"
  ELSE IF command \in Exclusive THEN "exclusive" ELSE "shared"

\* Every variable has its type, and a command holds its gate until it ends and no longer.
TypeOK ==
  /\ proc \in [Procs -> [op : Commands \cup {None}, domain : Domains \cup {None}, at : Steps,
                         project : Lists, globals : Lists, stale : Lists, current : Lists]]
  /\ gate = [p \in Procs |-> GateOf(proc[p].op)]
  /\ {globals, project, applied, allowed, disk, failed, torn} \subseteq Lists
  /\ marker \in Digests \cup {None} /\ vm \in BOOLEAN
  /\ faults \in 0..MaxFaults /\ changes \in 0..MaxChanges

-----------------------------------------------------------------------------

Ended == [op |-> None, domain |-> None, at |-> "idle",
          project |-> {}, globals |-> {}, stale |-> {}, current |-> {}]

\* A stopped project that no account entry was given to yet; setups may have run.
Init ==
  /\ proc = [p \in Procs |-> Ended] /\ gate = [p \in Procs |-> "none"]
  /\ globals \in Lists /\ project \in Lists /\ applied = {} /\ marker = None
  /\ vm = FALSE /\ allowed = project /\ disk = project
  /\ failed = {} /\ torn = {} /\ faults = 0 /\ changes = 0

At(p, step) == proc[p].at = step
Goto(p, step) == proc' = [proc EXCEPT ![p].at = step]

\* A mutant: the lock is left to a later return.
LeaveLocked(p) == proc' = [proc EXCEPT ![p] = Ended] /\ UNCHANGED gate

Leave(p) ==
  /\ proc' = [proc EXCEPT ![p] = Ended] /\ gate' = [gate EXCEPT ![p] = "none"]

Proceed(p, step) == Goto(p, step) /\ UNCHANGED gate

Fault == faults < MaxFaults /\ faults' = faults + 1
Change == changes < MaxChanges /\ changes' = changes + 1

\* The flock on the project gate.
Granted(p, command) ==
  \/ command \in Edit
  \/ \A q \in Procs \ {p} : IF command \in Exclusive THEN gate[q] = "none"
                            ELSE gate[q] # "exclusive"

Start(p) ==
  /\ At(p, "idle")
  /\ \E command \in Operations, domain \in Domains :
       /\ command \in Serial => \A q \in Procs : proc[q].op \notin Serial
       /\ Granted(p, command) /\ gate' = [gate EXCEPT ![p] = GateOf(command)]
       /\ proc' = [proc EXCEPT ![p].op = command,
            ![p].domain = IF command \in Edit \cup {"setup run"} THEN domain ELSE None,
            ![p].at = CASE command \in Edit -> "read-list"
                        [] command \in Boots -> "enter"
                        [] command = "setup run" -> "setup"
                        [] command = "vm stop" -> "stop"
                        [] OTHER -> "replace"]
       /\ IF command \in {"shell", "vm start", "vm stop"} THEN UNCHANGED changes ELSE Change
  /\ UNCHANGED <<lists, guest, history, faults>>

-----------------------------------------------------------------------------
(* cmdGlobalFirewallAllow, cmdGlobalFirewallRemove                         *)

\* The list is read, and a removal of what is not on it refused; ...
ReadGlobal(p) ==
  /\ At(p, "read-list")
  /\ IF proc[p].op = "global firewall remove" /\ proc[p].domain \notin globals THEN Leave(p)
     ELSE /\ proc' = [proc EXCEPT ![p].at = "truncate", ![p].globals =
                        IF proc[p].op = "global firewall remove" THEN globals \ {proc[p].domain}
                        ELSE globals \cup {proc[p].domain}]
          /\ UNCHANGED gate
  /\ UNCHANGED <<lists, guest, history, faults, changes>>

\* ... then the file is rewritten in place, and for a moment empty (os.WriteFile).
TruncateGlobal(p) ==
  /\ At(p, "truncate")
  /\ globals' = {} /\ Proceed(p, "write")
  /\ UNCHANGED <<project, applied, marker, guest, history, faults, changes>>

WriteGlobal(p) ==
  /\ At(p, "write")
  /\ globals' = proc[p].globals /\ Leave(p)
  /\ UNCHANGED <<project, applied, marker, guest, history, faults, changes>>

-----------------------------------------------------------------------------
(* syncAppliedSetupFirewallToVM                                            *)

\* The VM is joined, or booted with a fresh runtime directory.
Enter(p) ==
  /\ At(p, "enter")
  /\ vm' = TRUE /\ Proceed(p, "read")
  /\ marker' = IF vm THEN marker ELSE None
  /\ UNCHANGED <<globals, project, applied, allowed, disk, history, faults, changes>>

Wanted(p) == proc[p].project \cup proc[p].globals
Digest(p) == [project |-> proc[p].project, globals |-> proc[p].globals]

\* staleGlobalFirewallEntries: given by an earlier sync, and now on no list.
StaleEntries == applied \ (project \cup globals)

\* A mutant: entries to remove are no reason for a sync.
NothingToAdd ==
  \/ project = {} /\ globals = {}
  \/ marker = [project |-> project, globals |-> globals]

\* The sync is not needed: there is nothing on the lists and nothing to remove, or these
\* very lists were synced in this boot.
NothingToSync ==
  /\ StaleEntries = {}
  /\ \/ project = {} /\ globals = {}
     \/ marker = [project |-> project, globals |-> globals]

ReadLists(p) ==
  /\ At(p, "read")
  /\ \/ NothingToSync /\ Leave(p)
     \/ /\ ~NothingToSync
        /\ proc' = [proc EXCEPT ![p].project = project, ![p].globals = globals,
                      ![p].stale = StaleEntries,
                      ![p].at = IF project = {} THEN "script" ELSE "append"]
        /\ UNCHANGED gate
  /\ UNCHANGED <<lists, guest, history, faults, changes>>

\* appendFirewallEntries reads the project's list again and writes it with its own.
ReadProject(p) ==
  /\ At(p, "append")
  /\ proc' = [proc EXCEPT ![p].at = "append-write", ![p].current = project]
  /\ UNCHANGED <<gate, lists, guest, history, faults, changes>>

AppendProject(p) ==
  /\ At(p, "append-write")
  /\ project' = proc[p].current \cup proc[p].project /\ Proceed(p, "script")
  /\ UNCHANGED <<globals, applied, marker, guest, history, faults, changes>>

\* What a sync that ends here has left in doubt.
Touched(p) == proc[p].stale \cup (proc[p].globals \ proc[p].project)

\* The stale entries are filtered out by one rename, then the listed ones are added one by
\* one; the connection may fail, or the script with the VM, after any of that.
Script(p) ==
  /\ At(p, "script")
  /\ \/ /\ vm
        /\ allowed' = (allowed \ proc[p].stale) \cup Wanted(p) /\ Proceed(p, "stable")
        /\ UNCHANGED <<history, faults>>
     \/ /\ vm /\ Fault
        /\ \/ UNCHANGED allowed
           \/ \E added \in SUBSET Wanted(p) :
                allowed' = (allowed \ proc[p].stale) \cup added
        /\ torn' = torn \cup Touched(p) /\ Leave(p) /\ UNCHANGED failed
     \/ ~vm /\ Leave(p) /\ UNCHANGED <<allowed, history, faults>>
  /\ UNCHANGED <<lists, vm, disk, changes>>

\* waitForStableSSH; without a stable connection nothing of the sync is recorded.
WaitStable(p) ==
  /\ At(p, "stable")
  /\ \/ vm /\ Proceed(p, "mark") /\ UNCHANGED <<history, faults>>
     \/ vm /\ Fault /\ Leave(p) /\ torn' = torn \cup Touched(p) /\ UNCHANGED failed
     \/ ~vm /\ Leave(p) /\ torn' = torn \cup Touched(p) /\ UNCHANGED <<failed, faults>>
  /\ UNCHANGED <<lists, guest, changes>>

Mark(p) ==
  /\ At(p, "mark")
  /\ marker' = Digest(p) /\ Proceed(p, "record")
  /\ UNCHANGED <<globals, project, applied, guest, history, faults, changes>>

\* A sync that gets here leaves no doubt about what it touched, unless the VM has ended.
Settled(p) == IF vm THEN torn \ (Wanted(p) \cup proc[p].stale) ELSE torn

\* A mutant: the list is read again for the record, and may be another one.
RecordReadAgain(p) ==
  /\ At(p, "record")
  /\ applied' = globals /\ torn' = Settled(p) /\ Leave(p)
  /\ UNCHANGED <<globals, project, marker, guest, failed, faults, changes>>

Record(p) ==
  /\ At(p, "record")
  /\ applied' = proc[p].globals /\ torn' = Settled(p) /\ Leave(p)
  /\ UNCHANGED <<globals, project, marker, guest, failed, faults, changes>>

Syncing(p) ==
  \/ Enter(p) \/ ReadLists(p) \/ ReadProject(p) \/ AppendProject(p)
  \/ Script(p) \/ WaitStable(p) \/ Mark(p) \/ Record(p)

-----------------------------------------------------------------------------
(* Setups, the end of a VM, and the replacement of its image               *)

\* A setup's payload begins with its firewall entries, in the running VM or in a
\* temporary one that is shut down after it; then its script ends well or not.
RunSetup(p) ==
  /\ At(p, "setup")
  /\ allowed' = allowed \cup {proc[p].domain}
  /\ disk' = IF vm THEN disk ELSE allowed'
  /\ \/ Proceed(p, "setup-record") /\ UNCHANGED failed
     \/ Leave(p) /\ failed' = failed \cup {proc[p].domain}
  /\ UNCHANGED <<lists, vm, torn, faults, changes>>

\* recordSuccessfulDirectSetup, whose transaction writes all or nothing.
RecordSetup(p) ==
  /\ At(p, "setup-record")
  /\ project' = project \cup {proc[p].domain} /\ Leave(p)
  /\ UNCHANGED <<globals, applied, marker, guest, history, faults, changes>>

\* project vm stop has the guest write its files out before QEMU is told to quit.
Stop(p) ==
  /\ At(p, "stop")
  /\ vm' = FALSE /\ disk' = allowed /\ marker' = None /\ Leave(p)
  /\ UNCHANGED <<globals, project, applied, allowed, history, faults, changes>>

\* Clean and rebuild are refused while the VM runs.  The new image allows what the setups
\* of the base image and, for a rebuild, of the project allow now; the applied account
\* entries are not among the replaced files.
Replace(p) ==
  /\ At(p, "replace")
  /\ Leave(p)
  /\ IF vm THEN UNCHANGED <<project, allowed, disk, history>>
     ELSE \E entries \in Lists :
            /\ project' = entries /\ allowed' = entries /\ disk' = entries
            /\ failed' = {} /\ torn' = {}
  /\ UNCHANGED <<globals, applied, marker, vm, faults, changes>>

Command(p) ==
  \/ Start(p) \/ ReadGlobal(p) \/ TruncateGlobal(p) \/ WriteGlobal(p) \/ Syncing(p)
  \/ RunSetup(p) \/ RecordSetup(p) \/ Stop(p) \/ Replace(p)

\* A killed command.  What it was about to record about the guest is not recorded.
Crash(p) ==
  /\ ~At(p, "idle") /\ Fault /\ Leave(p)
  /\ torn' = IF proc[p].at \in {"stable", "mark", "record"} THEN torn \cup Touched(p) ELSE torn
  /\ failed' = IF At(p, "setup-record") THEN failed \cup {proc[p].domain} ELSE failed
  /\ UNCHANGED <<lists, guest, changes>>

\* The guest writes its file out in its own time, ...
GuestFlushes ==
  /\ vm /\ disk # allowed /\ disk' = allowed
  /\ UNCHANGED <<proc, gate, lists, vm, allowed, history, faults, changes>>

\* ... or loses what it has not when QEMU ends or is killed (vm stop --abrupt).
VMEnds ==
  /\ vm /\ Fault /\ vm' = FALSE /\ allowed' = disk
  /\ torn' = torn \cup (allowed \ disk) \cup (disk \ allowed)
  /\ UNCHANGED <<proc, gate, lists, disk, failed, changes>>

Next == (\E p \in Procs : Command(p) \/ Crash(p)) \/ GuestFlushes \/ VMEnds

Spec == Init /\ [][Next]_vars

-----------------------------------------------------------------------------
(* Properties                                                              *)

\* Whatever the guest allows is a setup's entry, an account entry that is recorded as
\* applied or about to be, so that its removal from the account's list is seen by a later
\* sync, or else one of two exceptions that no list names: an entry of a failed setup, and
\* one that a sync touched which was cut, or which the guest lost.  The second comes only
\* from a fault: edits, boots, stops and replacements never cut a sync.
EntriesAreOnRecord ==
  /\ allowed \subseteq
       project \cup applied \cup failed \cup torn
         \cup (UNION {proc[p].globals :
                       p \in {q \in Procs : proc[q].at \in {"stable", "mark", "record"}}})
         \cup {proc[p].domain : p \in {q \in Procs : At(q, "setup-record")}}
  /\ faults = 0 => torn = {}

\* A shell or a VM start that ends its sync well, or finds that none is needed, leaves the
\* guest with exactly the listed domains it has read: nothing that was taken off the
\* account's list since any earlier sync, boot or image, and nothing missing, whatever the
\* marker says.  Entries of failed or interrupted work are excepted.
SyncIsExact ==
  [][\A p \in Procs :
       /\ At(p, "read") /\ At(p, "idle")' /\ faults' = faults
            => /\ allowed \subseteq project \cup globals \cup failed \cup torn
               /\ (project \cup globals) \ torn \subseteq allowed
       /\ At(p, "record") /\ At(p, "idle")' /\ faults' = faults
            => /\ allowed \subseteq project \cup proc[p].globals \cup failed \cup torn'
               /\ Wanted(p) \ torn' \subseteq allowed]_vars
=============================================================================
