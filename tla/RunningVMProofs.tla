--------------------------- MODULE RunningVMProofs ---------------------------
(***************************************************************************)
(* Proofs about RunningVM for every set of commands and addresses, and     *)
(* every bound.  Nothing is assumed of the user: any commands may run at   *)
(* any time.                                                               *)
(***************************************************************************)
EXTENDS RunningVM, TLAPS

-----------------------------------------------------------------------------
(* The commands, their steps and their locks                               *)

Commandings ==
  [op : Commands \cup {None}, address : Addresses \cup {None}, at : Steps, vm : VMs \cup {NoVM}]

Stops == {"vm stop", "vm stop --abrupt"}

\* Steps of a boot that hold .host-access, and those before them.
HostSteps == {"clear-runtime", "write-port", "start-qemu", "wait-ssh"}
BootSteps == HostSteps \cup {"detect-again", "clear-stale-again", "host-access"}

\* A command's step is one its operation has.
Fit(r) ==
  /\ r.at # "idle" => r.op \in Commands
  /\ r.at # "idle" /\ r.op \in FirewallChange => r.address \in Addresses
  /\ r.at \in {"change", "detect-changed"} => r.op \in FirewallChange
  /\ r.at \in {"detect", "clear-stale"} => r.op \notin Stops
  /\ r.at \in BootSteps => r.op \in Boots
  /\ r.at = "start-qemu" => r.vm \in VMs

\* A command that reads or changes the addresses holds .firewall-ips, ...
HoldsIPs(r) ==
  \/ r.at \in {"change", "detect-changed", "examine", "attempt", "script", "clear-attempted"}
  \/ r.op \in FirewallChange /\ r.at \notin {"idle", "ips-lock"}

\* ... and one that boots the VM .host-access.
HoldsHost(r) == r.at \in HostSteps

Held == \A p \in Procs : /\ HoldsIPs(proc[p]) => ipsLock = p
                         /\ HoldsHost(proc[p]) => hostAccess = p

ControlOK ==
  /\ proc \in [Procs -> Commandings] /\ \A p \in Procs : Fit(proc[p])
  /\ gate \in [Procs -> {"none", "shared", "exclusive"}]
  /\ ipsLock \in Procs \cup {Nobody} /\ hostAccess \in Procs \cup {Nobody}
  /\ Held

\* p takes a free lock, or gives back its own, or leaves the lock alone.
LockMove(before, after, p) == after = before \/ ({before, after} \subseteq {p, Nobody})

\* A command takes another step, with the locks that the step needs.
LEMMA ControlStep ==
  ASSUME ControlOK, NEW p \in Procs, NEW r \in Commandings, Fit(r),
         proc' = [proc EXCEPT ![p] = r],
         gate' \in [Procs -> {"none", "shared", "exclusive"}],
         LockMove(ipsLock, ipsLock', p), LockMove(hostAccess, hostAccess', p),
         HoldsIPs(r) => ipsLock' = p, HoldsHost(r) => hostAccess' = p
  PROVE  ControlOK'
<1>1. proc' \in [Procs -> Commandings]
  BY DEF ControlOK
<1>2. \A q \in Procs : proc'[q] = IF q = p THEN r ELSE proc[q]
  BY DEF ControlOK
<1>3. \A q \in Procs : Fit(proc'[q])
  BY <1>2 DEF ControlOK
<1>4. ipsLock' \in Procs \cup {Nobody} /\ hostAccess' \in Procs \cup {Nobody}
  BY DEF LockMove, ControlOK
<1>5. ASSUME NEW q \in Procs
      PROVE  /\ HoldsIPs(proc'[q]) => ipsLock' = q
             /\ HoldsHost(proc'[q]) => hostAccess' = q
  <2>1. CASE q = p
    BY <1>2, <2>1
  <2>2. CASE q # p
    BY <1>2, <2>2, VMAssumption DEF ControlOK, Held, LockMove, VMAssumption
  <2>3. QED
    BY <2>1, <2>2
<1>6. Held'
  BY <1>5 DEF Held, HoldsIPs, HoldsHost
<1>7. QED
  BY <1>1, <1>3, <1>4, <1>6 DEF ControlOK, Fit

\* A process without a command fits, and needs no lock.
LEMMA EndedFits ==
  Ended \in Commandings /\ Fit(Ended) /\ ~HoldsIPs(Ended) /\ ~HoldsHost(Ended)
BY DEF Ended, Commandings, Fit, HoldsIPs, HoldsHost, BootSteps, HostSteps, Steps, NoVM

\* A command that ends gives its locks back.
LEMMA LeaveControl ==
  ASSUME ControlOK, NEW p \in Procs, Leave(p)
  PROVE  ControlOK'
<1>1. LockMove(ipsLock, ipsLock', p) /\ LockMove(hostAccess, hostAccess', p)
  BY DEF Leave, Freed, LockMove
<1>2. gate' \in [Procs -> {"none", "shared", "exclusive"}] /\ proc' = [proc EXCEPT ![p] = Ended]
  BY DEF Leave, ControlOK
<1>3. QED
  BY <1>1, <1>2, EndedFits, ControlStep

\* A running command goes on with a step its operation has and whose locks it now holds.
Leads(p, step) ==
  /\ ~At(p, "idle") /\ step \in Steps
  /\ step \in {"change", "detect-changed"} => Runs(p, FirewallChange)
  /\ step \in {"detect", "clear-stale"} => ~Runs(p, Stops)
  /\ step \in BootSteps => Runs(p, Boots)
  /\ step = "start-qemu" => proc'[p].vm \in VMs
  /\ step \in {"examine", "attempt", "script", "clear-attempted"} => ipsLock' = p
  /\ Runs(p, FirewallChange) /\ step \notin {"idle", "ips-lock"} => ipsLock' = p
  /\ step \in HostSteps => hostAccess' = p

\* So a step of this kind keeps the commands and their locks, ...
LEMMA GotoControl ==
  ASSUME ControlOK, NEW p \in Procs, NEW step, Leads(p, step), NEW vm \in VMs \cup {NoVM},
         Goto(p, step) \/ GotoWith(p, step, vm),
         UNCHANGED gate, LockMove(ipsLock, ipsLock', p), LockMove(hostAccess, hostAccess', p)
  PROVE  ControlOK'
<1>1. PICK n \in VMs \cup {NoVM} :
        proc' = [proc EXCEPT ![p] = [proc[p] EXCEPT !.at = step, !.vm = n]]
  <2>1. CASE Goto(p, step)
    <3>1. [proc[p] EXCEPT !.at = step] = [proc[p] EXCEPT !.at = step, !.vm = proc[p].vm]
      BY DEF ControlOK, Commandings
    <3>2. QED
      BY <2>1, <3>1 DEF Goto, ControlOK, Commandings
  <2>2. CASE GotoWith(p, step, vm)
    BY <2>2 DEF GotoWith, ControlOK
  <2>3. QED
    BY <2>1, <2>2
<1> DEFINE r == [proc[p] EXCEPT !.at = step, !.vm = n]
<1>2. /\ r \in Commandings /\ r.at = step /\ r.op = proc[p].op /\ r.address = proc[p].address
  BY DEF ControlOK, Commandings, Leads
<1>3. proc' = [proc EXCEPT ![p] = r] /\ proc'[p] = r
  BY <1>1 DEF ControlOK
<1> HIDE DEF r
<1>4. Fit(r)
  BY <1>2, <1>3 DEF ControlOK, Fit, Leads, Runs, At
<1>5. (HoldsIPs(r) => ipsLock' = p) /\ (HoldsHost(r) => hostAccess' = p)
  BY <1>2 DEF HoldsIPs, HoldsHost, Leads, Runs
<1>6. QED
  BY <1>2, <1>3, <1>4, <1>5, ControlStep DEF ControlOK

\* ... also when the locks stay as they are.
LEMMA ProceedControl ==
  ASSUME ControlOK, NEW p \in Procs, NEW step, Proceed(p, step), UNCHANGED locks => Leads(p, step)
  PROVE  ControlOK'
BY GotoControl DEF Proceed, locks, LockMove, NoVM

\* A command begins with the step of its kind, and takes none of the address locks.
LEMMA StartForm ==
  ASSUME ControlOK, NEW p \in Procs, Start(p)
  PROVE  \E r \in Commandings :
           /\ proc' = [proc EXCEPT ![p] = r] /\ Fit(r) /\ r.vm = proc[p].vm
           /\ r.at \in {"ips-lock", "stop-scan", "detect"} /\ r.op \in Commands
           /\ r.at # "ips-lock" => r.op \notin FirewallChange
           /\ gate' \in [Procs -> {"none", "shared", "exclusive"}]
<1>1. PICK command \in Operations, address \in Addresses \cup {None} :
        /\ command \in FirewallChange => address \in Addresses
        /\ gate' = [gate EXCEPT ![p] = IF command \in Exclusive THEN "exclusive" ELSE "shared"]
        /\ proc' = [proc EXCEPT ![p].op = command, ![p].address = address,
             ![p].at = CASE command \in FirewallChange -> "ips-lock"
                         [] command \in {"vm stop", "vm stop --abrupt"} -> "stop-scan"
                         [] OTHER -> "detect"]
  BY DEF Start
<1>2. command \in Commands
  BY VMAssumption DEF VMAssumption
<1>3. PICK step \in {"ips-lock", "stop-scan", "detect"} :
        /\ proc' = [proc EXCEPT ![p].op = command, ![p].address = address, ![p].at = step]
        /\ step # "ips-lock" => command \notin FirewallChange
        /\ step = "detect" => command \notin Stops
  BY <1>1 DEF FirewallChange, Stops
<1> DEFINE r == [proc[p] EXCEPT !.op = command, !.address = address, !.at = step]
<1>4. proc' = [proc EXCEPT ![p] = r]
  BY <1>3 DEF ControlOK
<1>5. /\ r \in Commandings /\ r.op = command /\ r.address = address /\ r.at = step
      /\ r.vm = proc[p].vm
  BY <1>2, <1>3 DEF ControlOK, Commandings, Steps
<1> HIDE DEF r
<1>6. Fit(r)
  BY <1>1, <1>2, <1>3, <1>5 DEF Fit, BootSteps, HostSteps
<1>7. gate' \in [Procs -> {"none", "shared", "exclusive"}]
  BY <1>1 DEF ControlOK
<1>8. QED
  BY <1>2, <1>3, <1>4, <1>5, <1>6, <1>7

\* A command that begins keeps them.
LEMMA StartControl == ASSUME ControlOK, NEW p \in Procs, Start(p) PROVE ControlOK'
<1>1. PICK r \in Commandings :
        /\ proc' = [proc EXCEPT ![p] = r] /\ Fit(r)
        /\ r.at \in {"ips-lock", "stop-scan", "detect"}
        /\ r.at # "ips-lock" => r.op \notin FirewallChange
        /\ gate' \in [Procs -> {"none", "shared", "exclusive"}]
  BY StartForm
<1>2. ~HoldsIPs(r) /\ ~HoldsHost(r)
  BY <1>1 DEF HoldsIPs, HoldsHost, HostSteps
<1>3. LockMove(ipsLock, ipsLock', p) /\ LockMove(hostAccess, hostAccess', p)
  BY DEF Start, LockMove
<1>4. QED
  BY <1>1, <1>2, <1>3, ControlStep

ScriptRecords == [at : {"none", "allow", "drop", "close", "done"}, todo : Lists,
                  desired : Lists, revoked : Lists]

\* The runtime directory, the guest and the bounds have their types.
WorldOK ==
  /\ saved \in Lists /\ rules \in Lists /\ disk \in Lists /\ leftover \in Lists
  /\ flows \in Lists
  /\ socket \in VMs \cup {NoVM} /\ sshPort \in VMs \cup {NoVM} /\ synced \in VMs \cup {NoVM}
  /\ alive \subseteq VMs
  /\ applied \in Lists \cup {Unknown} /\ attempted \in Lists \cup {Unknown}
  /\ script \in [Scripts -> ScriptRecords]
  /\ overtaken \subseteq Orphans /\ disturbed \in BOOLEAN
  /\ allowAll \subseteq Procs /\ expired \subseteq Procs
  /\ dirty \in BOOLEAN /\ rootWork \in BOOLEAN
  /\ booted \in 0..MaxBoots /\ faults \in 0..MaxFaults /\ changes \in 0..MaxChanges

TypeInv == ControlOK /\ WorldOK

\* What the type invariant of the model says is part of it.
LEMMA TypesFollow == TypeInv => TypeOK
BY DEF TypeInv, TypeOK, ControlOK, WorldOK, Commandings, ScriptRecords

\* A script that is left behind takes a place of its own, which is no command's.
LEMMA AbandonedForm ==
  ASSUME TypeInv, NEW p \in Procs, Fault, Abandoned(p)
  PROVE  /\ faults' \in 0..MaxFaults /\ faults' > 0 /\ script' \in [Scripts -> ScriptRecords]
         /\ script'[p] = NoScript /\ \A q \in Procs \ {p} : script'[q] = script[q]
         /\ \A n \in Orphans : script'[n] \in {script[n], script[p], NoScript}
<1>1. /\ MaxFaults \in Nat /\ \A q \in Procs : q \notin Nat
      /\ faults \in 0..MaxFaults /\ script \in [Scripts -> ScriptRecords]
  BY VMAssumption DEF VMAssumption, TypeInv, WorldOK
<1>2. faults' \in 0..MaxFaults /\ faults' > 0 /\ faults + 1 \in Orphans
  BY <1>1 DEF Fault, Orphans
<1>3. p \in Scripts /\ p \notin Orphans /\ Orphans \subseteq Scripts /\ Procs \subseteq Scripts
      /\ \A q \in Procs : q # faults + 1
  BY <1>1, <1>2 DEF Scripts, Orphans
<1>4. NoScript \in ScriptRecords
  BY DEF NoScript, ScriptRecords, Lists
<1>5. PICK left \in {script[p], NoScript} :
        script' = [script EXCEPT ![p] = NoScript, ![faults + 1] = left]
  BY DEF Abandoned
<1>6. left \in ScriptRecords
  BY <1>1, <1>3, <1>4, <1>5
<1>7. script' \in [Scripts -> ScriptRecords]
  BY <1>1, <1>4, <1>5, <1>6
<1>8. \A s \in Scripts : script'[s] = IF s = faults + 1 THEN left
                                    ELSE IF s = p THEN NoScript ELSE script[s]
  BY <1>1, <1>2, <1>3, <1>5
<1>9. QED
  BY <1>2, <1>3, <1>5, <1>7, <1>8

\* What a list that is there has of addresses.
LEMMA ListedAddresses ==
  ASSUME NEW list \in Lists \cup {Unknown}
  PROVE  Listed(list) \in Lists /\ (list \in Lists => Listed(list) = list) /\ Listed(Unknown) = {}
BY VMAssumption DEF Listed, Lists, Unknown, VMAssumption

\* Detection goes on only with the locks a command has.
LEMMA BootingControl == ASSUME TypeInv, NEW p \in Procs, Booting(p) PROVE ControlOK'
<1>0. /\ ControlOK /\ Fit(proc[p]) /\ proc[p] \in Commandings
      /\ HoldsIPs(proc[p]) => ipsLock = p
      /\ HoldsHost(proc[p]) => hostAccess = p
  BY DEF TypeInv, ControlOK, Held
<1>1. sshPort \in VMs \cup {NoVM}
  BY DEF TypeInv, WorldOK
<1> USE DEF At, Runs, Leads, Steps, BootSteps, HostSteps, Boots, Shell, Stops,
            FirewallChange, locks, LockMove
<1>2. ASSUME NoVMFound(p), At(p, "detect") \/ At(p, "detect-changed") \/ At(p, "clear-stale")
      PROVE  ControlOK'
  <2>1. CASE Runs(p, Boots)
    <3>1. PICK step \in {"detect-again", "host-access"} : Proceed(p, step)
      BY <1>2, <2>1 DEF NoVMFound
    <3>2. UNCHANGED locks => Leads(p, step)
      BY <1>2, <2>1
    <3>3. QED
      BY <1>0, <3>1, <3>2, ProceedControl
  <2>2. CASE ~Runs(p, Boots)
    BY <1>0, <1>2, <2>2, LeaveControl DEF NoVMFound
  <2>3. QED
    BY <2>1, <2>2
<1>3. CASE Detect(p)
  <2>1. CASE Running
    <3> DEFINE step == WithVM(p)
    <3>1. /\ GotoWith(p, step, sshPort) /\ UNCHANGED locks
          /\ (At(p, "detect") \/ At(p, "detect-changed"))
      BY <1>3, <2>1 DEF Detect, Stale
    <3>2. step \in {"attempt", "ips-lock", "allow-all", "examine"}
      BY DEF WithVM
    <3>3. step \in {"attempt", "examine"} => ipsLock = p
      <4>1. CASE At(p, "detect-changed")
        BY <1>0, <4>1 DEF HoldsIPs
      <4>2. CASE ~At(p, "detect-changed") /\ step \in {"attempt", "examine"}
        <5>1. proc[p].op \notin Boots \cup {"vm exec", "root exec"}
          BY <4>2 DEF WithVM
        <5>2. proc[p].op \in FirewallChange
          BY <1>0, <3>1, <4>2, <5>1 DEF Fit, Commandings, Commands
        <5>3. QED
          BY <1>0, <3>1, <5>2 DEF HoldsIPs
      <4>3. QED
        BY <4>1, <4>2
    <3>4. Runs(p, FirewallChange) => ipsLock = p
      BY <1>0, <3>1 DEF HoldsIPs
    <3> HIDE DEF step
    <3>5. Leads(p, step)
      BY <3>1, <3>2, <3>3, <3>4
    <3>6. QED
      BY <1>0, <1>1, <3>1, <3>5, GotoControl
  <2>2. CASE ~Running /\ Stale
    <3>1. Proceed(p, "clear-stale") /\ (At(p, "detect") \/ At(p, "detect-changed"))
      BY <1>3, <2>2 DEF Detect
    <3>2. UNCHANGED locks => Leads(p, "clear-stale")
      BY <1>0, <3>1 DEF HoldsIPs, Fit
    <3>3. QED
      BY <1>0, <3>1, <3>2, ProceedControl
  <2>3. CASE ~Running /\ ~Stale
    BY <1>2, <1>3, <2>3 DEF Detect
  <2>4. QED
    BY <2>1, <2>2, <2>3
<1>4. CASE ClearStale(p)
  BY <1>2, <1>4 DEF ClearStale
<1>5. CASE DetectAgain(p) \/ ClearStaleAgain(p)
  <2>1. PICK step \in {"allow-all", "enter", "clear-stale-again", "host-access"} :
          (Goto(p, step) \/ GotoWith(p, step, sshPort)) /\ UNCHANGED locks
    BY <1>5 DEF DetectAgain, ClearStaleAgain
  <2>2. Leads(p, step)
    BY <1>0, <1>5, <2>1 DEF DetectAgain, ClearStaleAgain, HoldsIPs, Fit
  <2>3. QED
    BY <1>0, <1>1, <2>1, <2>2, GotoControl
<1>6. CASE EnterHostAccess(p)
  <2>1. CASE hostAccess = Nobody
    <3>1. hostAccess' = p /\ Goto(p, "clear-runtime") /\ UNCHANGED <<gate, ipsLock>>
      BY <1>6, <2>1 DEF EnterHostAccess
    <3>2. Leads(p, "clear-runtime")
      BY <1>0, <1>6, <3>1 DEF EnterHostAccess, Fit
    <3>3. QED
      BY <1>0, <1>1, <2>1, <3>1, <3>2, GotoControl
  <2>2. CASE hostAccess # Nobody
    BY <1>0, <1>6, <2>2, LeaveControl DEF EnterHostAccess
  <2>3. QED
    BY <2>1, <2>2
<1>7. CASE ClearRuntime(p) \/ StartQemu(p)
  <2>1. PICK step \in {"write-port", "wait-ssh"} : Goto(p, step) /\ UNCHANGED locks
    BY <1>7 DEF ClearRuntime, StartQemu
  <2>2. Leads(p, step)
    BY <1>0, <1>7, <2>1 DEF ClearRuntime, StartQemu, HoldsHost, Fit
  <2>3. QED
    BY <1>0, <1>1, <2>1, <2>2, GotoControl
<1>8. CASE WritePort(p)
  <2>1. booted' \in VMs
    BY <1>8, VMAssumption DEF WritePort, VMs, VMAssumption, TypeInv, WorldOK
  <2>2. Leads(p, "start-qemu")
    <3>1. proc'[p].vm = booted'
      BY <1>0, <1>8 DEF WritePort, GotoWith, ControlOK, Commandings
    <3>2. QED
      BY <1>0, <1>8, <2>1, <3>1 DEF WritePort, HoldsHost, Fit
  <2>3. QED
    BY <1>0, <1>8, <2>1, <2>2, GotoControl DEF WritePort
<1>9. CASE WaitForSSH(p)
  <2>1. CASE Proceed(p, "ips-lock")
    BY <1>0, <1>9, <2>1, ProceedControl DEF WaitForSSH, Fit
  <2>2. CASE Leave(p)
    BY <1>0, <2>2, LeaveControl
  <2>3. QED
    BY <1>9, <2>1, <2>2 DEF WaitForSSH
<1>10. QED
  BY <1>3, <1>4, <1>5, <1>6, <1>7, <1>8, <1>9 DEF Booting

\* So do the steps of a sync, ...
LEMMA SyncingControl == ASSUME TypeInv, NEW p \in Procs, Syncing(p) PROVE ControlOK'
<1>0. /\ ControlOK /\ Fit(proc[p]) /\ proc[p] \in Commandings /\ NoVM \in VMs \cup {NoVM}
      /\ HoldsIPs(proc[p]) => ipsLock = p
      /\ HoldsHost(proc[p]) => hostAccess = p
  BY DEF TypeInv, ControlOK, Held
<1> USE DEF At, Runs, Leads, Steps, BootSteps, HostSteps, Stops, FirewallChange, locks, LockMove
<1>1. CASE Leave(p)
  BY <1>0, <1>1, LeaveControl
<1>2. CASE ~Leave(p) /\ LockIPs(p)
  <2>1. PICK step \in {"change", "examine", "attempt"} :
          /\ Goto(p, step) /\ ipsLock = Nobody /\ ipsLock' = p /\ UNCHANGED <<gate, hostAccess>>
          /\ step = "change" => Runs(p, FirewallChange)
    BY <1>2 DEF LockIPs
  <2>2. Leads(p, step)
    BY <1>2, <2>1 DEF LockIPs
  <2>3. QED
    BY <1>0, <2>1, <2>2, GotoControl
<1>3. CASE Change(p) \/ (~Leave(p) /\ Examine(p)) \/ Attempt(p) \/ Record(p)
  <2>1. CASE UNCHANGED locks
    <3>1. PICK step \in {"detect", "detect-changed", "attempt", "script", "clear-attempted"} :
            /\ Goto(p, step)
            /\ step \in {"detect", "detect-changed"} => At(p, "change")
      <4>1. CASE Change(p)
        BY <4>1 DEF Change
      <4>2. CASE ~Leave(p) /\ Examine(p)
        <5>1. Goto(p, "enter") => ipsLock' = Nobody /\ ipsLock = p
          BY <1>0, <4>2 DEF Examine, Proceed, Goto, HoldsIPs, Commandings, ControlOK
        <5>2. QED
          BY <2>1, <4>2, <5>1, VMAssumption DEF Examine, Proceed, VMAssumption
      <4>3. CASE Attempt(p) \/ Record(p)
        BY <4>3 DEF Attempt, SendScript, Record
      <4>4. QED
        BY <1>3, <4>1, <4>2, <4>3
    <3>2. Leads(p, step)
      BY <1>0, <1>3, <2>1, <3>1
      DEF Fit, HoldsIPs, Change, Examine, Attempt, SendScript, Record
    <3>3. QED
      BY <1>0, <2>1, <3>1, <3>2, GotoControl
  <2>2. CASE ~UNCHANGED locks
    <3>1. /\ Examine(p) /\ Runs(p, {"vm exec"})
          /\ Goto(p, "enter") /\ ipsLock' = Nobody /\ UNCHANGED <<gate, hostAccess>>
      BY <1>3, <2>2 DEF Change, Examine, Attempt, SendScript, Record, Proceed
    <3>2. ipsLock = p
      BY <1>0, <3>1 DEF Examine, HoldsIPs
    <3>3. Leads(p, "enter")
      BY <3>1 DEF Examine
    <3>4. QED
      BY <1>0, <3>1, <3>2, <3>3, GotoControl
  <2>3. QED
    BY <2>1, <2>2
<1>4. CASE ~Leave(p) /\ ClearAttempted(p)
  <2>1. PICK step \in {"detect-again", "allow-all", "enter"} :
          /\ Goto(p, step) /\ ipsLock' = Nobody /\ hostAccess' = Freed(hostAccess, p)
          /\ UNCHANGED gate /\ ~Runs(p, FirewallChange)
          /\ step = "detect-again" => Runs(p, Shell)
    BY <1>4 DEF ClearAttempted
  <2>2. ipsLock = p /\ At(p, "clear-attempted")
    BY <1>0, <1>4 DEF ClearAttempted, HoldsIPs
  <2>3. Leads(p, step)
    BY <2>1, <2>2 DEF Boots
  <2>4. LockMove(hostAccess, hostAccess', p) /\ LockMove(ipsLock, ipsLock', p)
    BY <2>1, <2>2 DEF Freed
  <2>5. QED
    BY <1>0, <2>1, <2>3, <2>4, GotoControl
<1>5. QED
  BY <1>1, <1>2, <1>3, <1>4 DEF Syncing, SyncFails

\* ... of a session, of a stop, and the end of a command.
LEMMA OtherControl ==
  ASSUME TypeInv, NEW p \in Procs, Entering(p) \/ Stopping(p) \/ Crash(p)
  PROVE  ControlOK'
<1>0. /\ ControlOK /\ Fit(proc[p]) /\ proc[p] \in Commandings /\ NoVM \in VMs \cup {NoVM}
      /\ HoldsIPs(proc[p]) => ipsLock = p
      /\ HoldsHost(proc[p]) => hostAccess = p
  BY DEF TypeInv, ControlOK, Held
<1> USE DEF At, Runs, Leads, Steps, BootSteps, HostSteps, Stops, FirewallChange, locks, LockMove
<1>1. CASE Leave(p)
  BY <1>0, <1>1, LeaveControl
<1>2. CASE UNCHANGED <<proc, locks>>
  BY <1>0, <1>2 DEF ControlOK, Held, HoldsIPs, HoldsHost, Fit
<1>3. CASE (~Leave(p) /\ InstallAllowAll(p)) \/ MarkDirty(p) \/ Session(p)
  <2>1. PICK step \in {"mark-dirty", "session", "in-session"} :
          Goto(p, step) /\ UNCHANGED locks
    BY <1>3 DEF InstallAllowAll, MarkDirty, Session, Proceed
  <2>2. Leads(p, step)
    BY <1>0, <1>3, <2>1 DEF InstallAllowAll, MarkDirty, Session, HoldsIPs
  <2>3. QED
    BY <1>0, <2>1, <2>2, GotoControl
<1>4. CASE ~Leave(p) /\ (StopScan(p) \/ Stop(p))
  <2>1. PICK step \in {"stop", "stop-clear"}, n \in VMs \cup {NoVM} :
          (Goto(p, step) \/ GotoWith(p, step, n)) /\ UNCHANGED locks
    <3>1. CASE StopScan(p) /\ Processes # {}
      <4>1. (CHOOSE n \in Processes : TRUE) \in VMs
        BY <3>1 DEF TypeInv, WorldOK, Processes
      <4>2. QED
        BY <3>1, <4>1 DEF StopScan
    <3>2. CASE (StopScan(p) /\ Processes = {}) \/ Stop(p)
      BY <1>0, <1>4, <3>2 DEF StopScan, Stop, Proceed
    <3>3. QED
      BY <1>4, <3>1, <3>2
  <2>2. Leads(p, step)
    BY <1>0, <1>4, <2>1 DEF StopScan, Stop, HoldsIPs
  <2>3. QED
    BY <1>0, <2>1, <2>2, GotoControl
<1>5. QED
  BY <1>1, <1>2, <1>3, <1>4 DEF Entering, Stopping, Enter, RemoveAllowAll, ExpireAllowAll,
                                StopClear, Crash

\* Every step keeps the types of the rest.
LEMMA WorldStep ==
  ASSUME TypeInv, [Next]_vars
  PROVE  WorldOK'
<1> USE DEF locks, runtime, guest, histories, rootState, bounds
<1>0. WorldOK /\ MaxBoots \in Nat /\ MaxFaults \in Nat /\ MaxChanges \in Nat
  BY VMAssumption DEF TypeInv, VMAssumption
<1>1. /\ NoVM \in VMs \cup {NoVM} /\ Unknown \in Lists \cup {Unknown}
      /\ NoScript \in ScriptRecords /\ {} \in Lists /\ {} \subseteq Procs /\ {} \subseteq Orphans
  BY DEF NoScript, ScriptRecords, Lists
<1>2. \A p \in Procs : Possible(p) \in Lists \/ (Runs(p, {"firewall remove"}) /\ At(p, "idle"))
  <2> SUFFICES ASSUME NEW p \in Procs, ~(Runs(p, {"firewall remove"}) /\ At(p, "idle"))
               PROVE  Possible(p) \in Lists
    OBVIOUS
  <2>1. Listed(applied) \in Lists /\ Listed(attempted) \in Lists
    BY <1>0, ListedAddresses DEF WorldOK
  <2>2. Runs(p, {"firewall remove"}) => proc[p].address \in Addresses
    BY DEF TypeInv, ControlOK, Fit, Runs, At, FirewallChange
  <2>3. QED
    BY <2>1, <2>2 DEF Possible, Lists
<1>3. ASSUME NEW b, GuestEnds(b)
      PROVE
        /\ rules' \in Lists /\ disk' \in Lists /\ leftover' \in Lists /\ flows' \in Lists
        /\ synced' \in VMs \cup {NoVM} /\ alive' \subseteq VMs
        /\ script' \in [Scripts -> ScriptRecords]
        /\ overtaken' \subseteq Orphans /\ disturbed' \in BOOLEAN
        /\ allowAll' \subseteq Procs /\ expired' \subseteq Procs
        /\ dirty' \in BOOLEAN /\ rootWork' \in BOOLEAN
  BY <1>0, <1>1, <1>3 DEF GuestEnds, ScriptsEnd, WorldOK
<1>4. /\ Fault => faults' \in 0..MaxFaults
      /\ changes < MaxChanges /\ changes' = changes + 1 => changes' \in 0..MaxChanges
  BY <1>0 DEF WorldOK, Fault
<1>5. CASE UNCHANGED vars
  BY <1>0, <1>5 DEF vars, WorldOK
<1>6. CASE VMEnds
  <2>1. faults' \in 0..MaxFaults /\ GuestEnds(FALSE) /\ socket' \in VMs \cup {NoVM}
    BY <1>0, <1>1, <1>4, <1>6 DEF VMEnds, WorldOK
  <2>2. QED
    BY <1>0, <1>3, <1>6, <2>1 DEF VMEnds, WorldOK
<1>7. CASE Connect
  BY <1>0, <1>7 DEF Connect, WorldOK, Lists
<1>8. ASSUME NEW p \in Procs, Start(p) \/ Crash(p) PROVE WorldOK'
  <2>1. CASE Start(p)
    BY <1>0, <2>1 DEF Start, WorldOK
  <2>2. CASE Crash(p)
    <3>1. faults' \in 0..MaxFaults /\ script' \in [Scripts -> ScriptRecords]
      BY <2>2, AbandonedForm DEF Crash
    <3>2. QED
      BY <1>0, <2>2, <3>1 DEF Crash, WorldOK
  <2>3. QED
    BY <1>8, <2>1, <2>2
<1>9. ASSUME NEW p \in Procs, Booting(p) PROVE WorldOK'
  <2>1. CASE Detect(p) \/ DetectAgain(p) \/ EnterHostAccess(p) \/ WaitForSSH(p)
    BY <1>0, <2>1 DEF Detect, DetectAgain, EnterHostAccess, WaitForSSH, WorldOK
  <2>2. CASE ClearStale(p) \/ ClearStaleAgain(p) \/ ClearRuntime(p)
    BY <1>0, <1>1, <2>2 DEF ClearStale, ClearStaleAgain, ClearRuntime, ClearRuntimeState, WorldOK
  <2>3. CASE WritePort(p)
    <3>1. booted' \in VMs /\ booted' \in 0..MaxBoots
      BY <1>0, <2>3 DEF WritePort, VMs, WorldOK
    <3>2. QED
      BY <1>0, <2>3, <3>1 DEF WritePort, WorldOK
  <2>4. CASE StartQemu(p)
    <3>1. proc[p].vm \in VMs
      BY <2>4 DEF StartQemu, At, TypeInv, ControlOK, Fit
    <3>2. alive' \subseteq VMs /\ socket' \in VMs \cup {NoVM} /\ allowAll' \subseteq Procs
      BY <1>0, <2>4, <3>1 DEF StartQemu, GuestBoots, WorldOK
    <3>3. GuestBoots \/ UNCHANGED guest
      BY <2>4 DEF StartQemu
    <3>4. QED
      BY <1>0, <1>1, <2>4, <3>2, <3>3 DEF StartQemu, GuestBoots, ScriptsEnd, WorldOK
  <2>5. QED
    BY <1>9, <2>1, <2>2, <2>3, <2>4 DEF Booting
<1>10. ASSUME NEW p \in Procs, Syncing(p) PROVE WorldOK'
  <2>1. CASE LockIPs(p) \/ Examine(p)
    BY <1>0, <2>1 DEF LockIPs, Examine, WorldOK
  <2>2. CASE Change(p)
    <3>1. proc[p].address \in Addresses
      BY <2>2 DEF Change, At, TypeInv, ControlOK, Fit
    <3>2. saved' \in Lists
      BY <1>0, <2>2, <3>1 DEF Change, WorldOK, Lists
    <3>3. QED
      <4>1. changes' \in 0..MaxChanges
        BY <1>0, <1>4, <2>2 DEF Change, WorldOK
      <4>2. QED
        BY <1>0, <2>2, <3>2, <4>1 DEF Change, WorldOK
  <2>3. CASE Attempt(p)
    <3>1. Possible(p) \in Lists
      BY <1>2, <2>3 DEF Attempt, At
    <3>2. attempted' \in Lists /\ Possible(p) \ saved \in Lists
      BY <1>0, <2>3, <3>1 DEF Attempt, WorldOK, Lists
    <3>3. QED
      <4>1. script' \in [Scripts -> ScriptRecords]
        BY <1>0, <1>1, <2>3, <3>2 DEF Attempt, SendScript, WorldOK, ScriptRecords
      <4>2. overtaken' \subseteq Orphans
        BY <2>3 DEF Attempt, SendScript
      <4>3. QED
        BY <1>0, <2>3, <3>2, <4>1, <4>2 DEF Attempt, SendScript, WorldOK
  <2>5. CASE Record(p)
    <3>1. script[p] \in ScriptRecords
      BY <1>0 DEF WorldOK, Scripts
    <3>2. applied' \in Lists /\ script' \in [Scripts -> ScriptRecords]
      BY <1>0, <1>1, <2>5, <3>1 DEF Record, WorldOK, ScriptRecords
    <3>3. QED
      BY <1>0, <2>5, <3>2 DEF Record, WorldOK
  <2>6. CASE ClearAttempted(p)
    <3>1. proc[p].vm \in VMs \cup {NoVM}
      BY DEF TypeInv, ControlOK, Commandings
    <3>2. QED
      BY <1>0, <1>1, <2>6, <3>1 DEF ClearAttempted, WorldOK
  <2>7. CASE SyncFails(p)
    <3>1. faults' \in 0..MaxFaults /\ script' \in [Scripts -> ScriptRecords]
      BY <1>0, <2>7, AbandonedForm DEF SyncFails, WorldOK
    <3>2. QED
      BY <1>0, <2>7, <3>1 DEF SyncFails, WorldOK
  <2>8. QED
    BY <1>10, <2>1, <2>2, <2>3, <2>5, <2>6, <2>7 DEF Syncing
<1>11. ASSUME NEW p \in Procs, Entering(p) PROVE WorldOK'
  BY <1>0, <1>11 DEF Entering, Enter, InstallAllowAll, MarkDirty, Session, RemoveAllowAll,
                     ExpireAllowAll, WorldOK
<1>12. ASSUME NEW p \in Procs, Stopping(p) PROVE WorldOK'
  <2>1. CASE StopScan(p) \/ StopClear(p)
    BY <1>0, <1>1, <2>1 DEF StopScan, StopClear, ClearRuntimeState, WorldOK
  <2>2. CASE Stop(p)
    <3>1. GuestEnds(TRUE) \/ GuestEnds(FALSE) \/ UNCHANGED <<alive, guest, rootState>>
      BY <2>2 DEF Stop, FlushAndQuit, Kill
    <3>2. faults' \in 0..MaxFaults
      BY <1>0, <1>4, <2>2 DEF Stop, WorldOK
    <3>3. QED
      BY <1>0, <1>3, <2>2, <3>1, <3>2 DEF Stop, WorldOK
  <2>3. QED
    BY <1>12, <2>1, <2>2 DEF Stopping
<1>13. ASSUME NEW s \in Scripts, Scripting(s) PROVE WorldOK'
  <2>1. script[s] \in ScriptRecords
    BY <1>0 DEF WorldOK
  <2>2. rules' \in Lists /\ flows' \in Lists /\ disturbed' \in BOOLEAN
    BY <1>0, <1>13, <2>1
    DEF Scripting, ScriptAllow, ScriptDrop, ScriptClose, WorldOK, Lists, ScriptRecords
  <2>3. script' \in [Scripts -> ScriptRecords]
    <3>1. PICK r \in ScriptRecords : script' = [script EXCEPT ![s] = r]
      <4>1. CASE ScriptAllow(s)
        BY <1>0, <4>1, <2>1 DEF ScriptAllow, WorldOK, Lists, ScriptRecords
      <4>2. CASE ScriptDrop(s)
        BY <1>0, <4>2, <2>1 DEF ScriptDrop, WorldOK, Lists, ScriptRecords
      <4>3. CASE ScriptClose(s)
        BY <1>0, <1>1, <4>3, <2>1 DEF ScriptClose, WorldOK, ScriptRecords
      <4>4. QED
        BY <1>13, <4>1, <4>2, <4>3 DEF Scripting
    <3>2. QED
      BY <1>0, <3>1 DEF WorldOK
  <2>4. QED
    BY <1>0, <1>13, <2>2, <2>3 DEF Scripting, ScriptAllow, ScriptDrop, ScriptClose, WorldOK
<1>14. QED
  BY <1>5, <1>6, <1>7, <1>8, <1>9, <1>10, <1>11, <1>12, <1>13 DEF Next

\* Every step keeps the types, and every command its locks.
LEMMA TypeStep == TypeInv /\ [Next]_vars => TypeInv'
<1> SUFFICES ASSUME TypeInv, [Next]_vars PROVE TypeInv'
  OBVIOUS
<1>1. WorldOK'
  BY WorldStep
<1>2. CASE UNCHANGED vars \/ VMEnds \/ Connect \/ \E s \in Scripts : Scripting(s)
  <2>1. UNCHANGED <<proc, gate, ipsLock, hostAccess>>
    BY <1>2 DEF vars, locks, VMEnds, Connect, Scripting, ScriptAllow, ScriptDrop, ScriptClose
  <2>2. ControlOK'
    BY <2>1 DEF TypeInv, ControlOK, Held, HoldsIPs, HoldsHost, Fit
  <2>3. QED
    BY <1>1, <2>2 DEF TypeInv
<1>3. ASSUME NEW p \in Procs, Start(p) \/ Booting(p) \/ Syncing(p) \/ Entering(p) \/ Stopping(p)
                                \/ Crash(p)
      PROVE  TypeInv'
  BY <1>1, <1>3, StartControl, BootingControl, SyncingControl, OtherControl DEF TypeInv
<1>4. QED
  BY <1>2, <1>3 DEF Next

\* A stopped project has the types.
LEMMA TypeInit == Init => TypeInv
<1> SUFFICES ASSUME Init PROVE TypeInv
  OBVIOUS
<1>1. ControlOK
  BY EndedFits DEF Init, ControlOK, Held
<1>2. MaxBoots \in Nat /\ MaxFaults \in Nat /\ MaxChanges \in Nat
  BY VMAssumption DEF VMAssumption
<1>3. booted \in 0..MaxBoots /\ faults \in 0..MaxFaults /\ changes \in 0..MaxChanges
  BY <1>2 DEF Init
<1>4. {} \in Lists /\ NoScript \in ScriptRecords
  BY DEF Lists, NoScript, ScriptRecords
<1>5. WorldOK
  BY <1>3, <1>4 DEF Init, WorldOK
<1>6. QED
  BY <1>1, <1>5 DEF TypeInv

\* TypeOK always holds: every step of every command is one its operation has, and what it
\* reads and writes has the type it should.
THEOREM TypeCorrect == Spec => []TypeOK
<1>1. Spec => []TypeInv
  BY TypeInit, TypeStep, PTL DEF Spec
<1>2. QED
  BY <1>1, TypesFollow, PTL

-----------------------------------------------------------------------------
(* Boots.  Every boot has a number of its own, one VM runs at a time, and   *)
(* from the clearing of the runtime directory to the start of QEMU no       *)
(* socket is there: so a VM that loses its socket is never found again, and *)
(* what a command knows about another VM is never taken for the new one's.  *)

Numbered ==
  /\ alive \subseteq 1..booted /\ \A m, n \in alive : m = n
  /\ \A p \in Procs : proc[p].vm \in 0..booted
  /\ socket \in 0..booted /\ sshPort \in 0..booted /\ synced \in 0..booted

NewVM ==
  \A p \in Procs :
    /\ proc[p].at \in {"write-port", "start-qemu"} => socket = NoVM
    /\ At(p, "start-qemu") =>
         /\ proc[p].vm \notin alive /\ synced # proc[p].vm /\ proc[p].vm # NoVM
         /\ \A q \in Procs \ {p} : proc[q].vm # proc[p].vm

BootsOK == Numbered /\ NewVM

\* Numbers a command may take over: the VM it finds by the records, or by its process.
Found == {NoVM} \cup alive \cup (IF Running THEN {sshPort} ELSE {})

\* Steps that start no VM.
LEMMA BootsKept ==
  ASSUME TypeInv, BootsOK, alive' \subseteq alive, booted' = booted,
         socket' \in {socket, NoVM}, sshPort' \in {sshPort, NoVM},
         \/ synced' \in {synced, NoVM}
         \/ \E q \in Procs : At(q, "clear-attempted") /\ synced' = proc[q].vm,
         \A q \in Procs :
           \/ proc'[q] = proc[q]
           \/ /\ proc'[q].at # "start-qemu" /\ (proc'[q].at = "write-port" => socket' = NoVM)
              /\ proc'[q].vm \in {proc[q].vm} \cup Found
  PROVE  BootsOK'
<1>1. booted \in Nat
  BY VMAssumption DEF TypeInv, WorldOK, VMAssumption
<1>2. Found \subseteq 0..booted
  BY <1>1 DEF BootsOK, Numbered, Found, NoVM
<1>3. Numbered'
  <2>1. alive' \subseteq 1..booted /\ \A m, n \in alive' : m = n
    BY DEF BootsOK, Numbered
  <2>2. ASSUME NEW p \in Procs PROVE proc'[p].vm \in 0..booted
    BY <1>2 DEF BootsOK, Numbered
  <2>3. socket' \in 0..booted /\ sshPort' \in 0..booted /\ synced' \in 0..booted
    BY <1>1 DEF BootsOK, Numbered, NoVM
  <2>4. QED
    BY <2>1, <2>2, <2>3 DEF Numbered
<1>4. ASSUME NEW p \in Procs, At(p, "start-qemu")'
      PROVE  proc'[p] = proc[p] /\ proc[p].vm \notin Found
  <2>1. proc'[p] = proc[p] /\ At(p, "start-qemu")
    BY <1>4 DEF At
  <2>2. socket = NoVM
    BY <2>1 DEF BootsOK, NewVM, At
  <2>3. ~Running
    BY <2>2 DEF Running, BootsOK, Numbered, NoVM
  <2>4. QED
    BY <2>1, <2>3 DEF BootsOK, NewVM, Found
<1>5. NewVM'
  BY <1>4 DEF BootsOK, NewVM, At, Found
<1>6. QED
  BY <1>3, <1>5 DEF BootsOK

\* A boot takes a number that nothing knows yet.
LEMMA WritePortBoots == ASSUME TypeInv, BootsOK, NEW p \in Procs, WritePort(p) PROVE BootsOK'
<1>1. /\ booted \in Nat /\ booted' = booted + 1 /\ sshPort' = booted'
      /\ UNCHANGED <<socket, alive, synced>>
  BY VMAssumption DEF WritePort, guest, histories, TypeInv, WorldOK, VMAssumption
<1>2. /\ proc'[p].at = "start-qemu" /\ proc'[p].vm = booted'
      /\ \A q \in Procs \ {p} : proc'[q] = proc[q]
  BY DEF WritePort, GotoWith, TypeInv, ControlOK, Commandings
<1>3. socket = NoVM
  BY DEF WritePort, At, BootsOK, NewVM
<1>4. \A q \in Procs \ {p} : proc[q].at # "start-qemu"
  <2>1. hostAccess = p /\ \A q \in Procs : proc[q].at = "start-qemu" => hostAccess = q
    BY DEF WritePort, At, TypeInv, ControlOK, Held, HoldsHost, HostSteps
  <2>2. QED
    BY <2>1
<1>5. Numbered'
  BY <1>1, <1>2 DEF BootsOK, Numbered
<1>6. /\ booted' \notin alive /\ synced # booted' /\ booted' # NoVM
      /\ \A q \in Procs : proc[q].vm # booted'
  BY <1>1 DEF BootsOK, Numbered, NoVM
<1>7. NewVM'
  BY <1>1, <1>2, <1>3, <1>4, <1>6 DEF NewVM, At
<1>8. QED
  BY <1>5, <1>7 DEF BootsOK

\* QEMU starts with that number, or exits because another has the image.
LEMMA StartQemuBoots == ASSUME TypeInv, BootsOK, NEW p \in Procs, StartQemu(p) PROVE BootsOK'
<1>1. /\ proc'[p].at = "wait-ssh" /\ proc'[p].vm = proc[p].vm
      /\ \A q \in Procs \ {p} : proc'[q] = proc[q]
  BY DEF StartQemu, Goto, TypeInv, ControlOK, Commandings
<1>2. \A q \in Procs \ {p} : proc[q].at \notin {"write-port", "start-qemu"}
  <2>1. /\ hostAccess = p
        /\ \A q \in Procs : proc[q].at \in {"write-port", "start-qemu"} => hostAccess = q
    BY DEF StartQemu, At, TypeInv, ControlOK, Held, HoldsHost, HostSteps
  <2>2. QED
    BY <2>1
<1>3. booted \in Nat /\ proc[p].vm \in 1..booted
  BY VMAssumption DEF StartQemu, At, BootsOK, Numbered, NewVM, NoVM, TypeInv, WorldOK, VMAssumption
<1>4. /\ alive' \in {alive, {proc[p].vm}} /\ socket' \in {proc[p].vm, NoVM}
      /\ UNCHANGED <<sshPort, synced, booted>>
  BY DEF StartQemu, GuestBoots, guest, histories, bounds
<1>5. Numbered'
  BY <1>1, <1>3, <1>4 DEF BootsOK, Numbered, NoVM
<1>6. NewVM'
  BY <1>1, <1>2 DEF NewVM, At
<1>7. QED
  BY <1>5, <1>6 DEF BootsOK

-----------------------------------------------------------------------------
(* The scripts in the guest.  .firewall-ips keeps the saved list still and  *)
(* all commands' scripts but one out of the guest; the attempt is written   *)
(* down before it is sent.                                                  *)

\* A command's script works on the saved list, which is written down as attempted.
ScriptFits(p) ==
  /\ At(p, "script") /\ proc[p].vm \in alive /\ script[p].desired = saved
  /\ script[p].at = "allow" => script[p].todo \subseteq saved
  /\ script[p].at = "drop" => script[p].todo \cap saved = {}
  /\ Running => /\ attempted # Unknown /\ saved \subseteq attempted
                /\ Listed(applied) \subseteq attempted

ScriptsFit == \A p \in Procs : script[p].at # "none" => ScriptFits(p)

-----------------------------------------------------------------------------
(* Steps that only concern a command itself.                               *)

\* What the guest, its image and the saved list say, and which VM has synced.
guestFacts == <<saved, alive, rules, leftover, flows, histories, booted, dirty, rootWork>>

\* Steps of a root session, and those that tell of the guest.
SessionSteps == {"mark-dirty", "session", "in-session"}
TellingSteps == {"start-qemu", "script", "clear-attempted"} \cup SessionSteps

Sent(s) == script[s].at # "none"

\* p's script is no longer there, or in the place of one that a fault has left behind.
ScriptMove(p) ==
  /\ \A q \in Procs : script'[q] = script[q] \/ (q = p /\ script'[q] = NoScript)
  /\ \A n \in Orphans : \/ script'[n] \in {script[n], NoScript}
                        \/ script'[n] = script[p] /\ proc'[p].at = "idle"

\* p's rule is where it was, or has gone: with the session, or by its timer.
RuleMove(p) ==
  /\ allowAll \ {p} \subseteq allowAll' /\ allowAll' \subseteq allowAll
  /\ expired \ {p} \subseteq expired'
  /\ p \in allowAll \cup expired => p \in allowAll' \cup expired' \/ proc'[p].at = "idle"
  /\ p \in allowAll' /\ proc'[p] # proc[p] =>
       proc[p].at \notin SessionSteps \cup {"idle"} \/ (proc'[p].at = "idle" /\ faults' > 0)

\* One command moves or ends, or clears the runtime directory; nothing else changes but for
\* its script and its allow-all rule.
SidewaysOf(p) ==
  /\ UNCHANGED guestFacts /\ faults' \in {faults, faults + 1}
  /\ UNCHANGED <<socket, sshPort, applied, attempted>> \/ ClearRuntimeState
  /\ ScriptMove(p) /\ RuleMove(p)
  /\ \A q \in Procs \ {p} : proc'[q] = proc[q]
  /\ \/ proc'[p] = proc[p]
     \/ /\ proc'[p].at \notin TellingSteps
        /\ proc'[p].at = "write-port" => ClearRuntimeState
        /\ proc[p].at = "script" => ~Sent(p)'
        /\ proc'[p].vm \in {proc[p].vm} \cup Found

Sideways == \E p \in Procs : SidewaysOf(p)

\* What the steps of a command leave of the commands.
LEMMA Forms ==
  ASSUME TypeInv, NEW p \in Procs
  PROVE  /\ Leave(p) => proc'[p] = Ended /\ \A q \in Procs \ {p} : proc'[q] = proc[q]
         /\ \A step \in Steps : Goto(p, step) =>
              /\ proc'[p] = [proc[p] EXCEPT !.at = step]
              /\ proc'[p].at = step /\ proc'[p].vm = proc[p].vm
              /\ \A q \in Procs \ {p} : proc'[q] = proc[q]
         /\ \A step \in Steps, n \in VMs \cup {NoVM} : GotoWith(p, step, n) =>
              /\ proc'[p].at = step /\ proc'[p].vm = n
              /\ \A q \in Procs \ {p} : proc'[q] = proc[q]
         /\ proc[p] \in Commandings
BY DEF TypeInv, ControlOK, Commandings, Leave, Goto, GotoWith

\* A command ends.
LEMMA LeaveSideways ==
  ASSUME TypeInv, NEW p \in Procs, Leave(p), UNCHANGED guestFacts,
         UNCHANGED <<socket, sshPort, applied, attempted>> \/ ClearRuntimeState,
         \/ script' = script /\ (proc[p].at = "script" => ~Sent(p)) /\ faults' = faults
         \/ Fault /\ Abandoned(p)
         \/ script' = script /\ Fault /\ proc[p].at # "script",
         allowAll \ {p} \subseteq allowAll', allowAll' \subseteq allowAll,
         expired \ {p} \subseteq expired',
         p \in allowAll' => faults' > 0 \/ proc[p].at \notin SessionSteps \cup {"idle"}
  PROVE  Sideways
<1>1. proc'[p].at = "idle" /\ proc'[p].vm = NoVM /\ \A q \in Procs \ {p} : proc'[q] = proc[q]
  BY Forms DEF Ended
<1>2. ScriptMove(p) /\ (proc[p].at = "script" => ~Sent(p)') /\ faults' \in {faults, faults + 1}
  <2>1. CASE ~(Fault /\ Abandoned(p))
    BY <2>1 DEF ScriptMove, Sent, Fault
  <2>2. CASE Fault /\ Abandoned(p)
    BY <1>1, <2>2, AbandonedForm DEF ScriptMove, Sent, Fault, NoScript
  <2>3. QED
    BY <2>1, <2>2
<1>3. RuleMove(p)
  BY <1>1 DEF RuleMove
<1>4. QED
  BY <1>1, <1>2, <1>3 DEF Sideways, SidewaysOf, Found, TellingSteps, SessionSteps

\* A command goes on with a step that tells nothing of the guest.
LEMMA GotoSideways ==
  ASSUME TypeInv, NEW p \in Procs, NEW n \in Found \cap (VMs \cup {NoVM}),
         NEW step \in Steps \ TellingSteps,
         Goto(p, step) \/ GotoWith(p, step, n), UNCHANGED guestFacts,
         UNCHANGED <<socket, sshPort, applied, attempted>> \/ ClearRuntimeState,
         step = "write-port" => ClearRuntimeState,
         UNCHANGED <<script, allowAll, expired, faults>>,
         proc[p].at \notin SessionSteps \cup {"script", "idle"}
  PROVE  Sideways
<1>1. /\ proc'[p].at = step /\ proc'[p].vm \in {proc[p].vm, n}
      /\ \A q \in Procs \ {p} : proc'[q] = proc[q]
  BY Forms
<1>2. ScriptMove(p) /\ RuleMove(p)
  BY DEF ScriptMove, RuleMove
<1>3. QED
  BY <1>1, <1>2 DEF Sideways, SidewaysOf

\* So are the steps of a boot but those that number and start the VM.
LEMMA BootingSideways ==
  ASSUME TypeInv, NEW p \in Procs, Booting(p), ~WritePort(p), ~StartQemu(p)
  PROVE  Sideways
<1> USE DEF Found, At, Steps, TellingSteps, SessionSteps, locks, runtime, guest, rootState, bounds,
            guestFacts
<1>1. NoVM \in Found \cap (VMs \cup {NoVM}) /\ sshPort \in VMs \cup {NoVM}
  BY DEF TypeInv, WorldOK
<1>2. CASE Leave(p)
  <2>1. /\ UNCHANGED <<guestFacts, script, faults, allowAll, expired>>
        /\ proc[p].at \notin SessionSteps \cup {"idle", "script"}
        /\ UNCHANGED <<socket, sshPort, applied, attempted>> \/ ClearRuntimeState
    BY DEF Booting, WritePort, StartQemu, Detect, ClearStale, DetectAgain, ClearStaleAgain,
           EnterHostAccess, ClearRuntime, WaitForSSH
  <2>2. QED
    BY <1>2, <2>1, LeaveSideways
<1>3. CASE ~Leave(p) /\ (Detect(p) \/ DetectAgain(p)) /\ Running
  <2>1. PICK step \in {"attempt", "ips-lock", "allow-all", "examine", "enter"} :
          GotoWith(p, step, sshPort)
    BY <1>3 DEF Detect, DetectAgain, WithVM, Stale
  <2>2. sshPort \in Found
    BY <1>3
  <2>3. QED
    BY <1>1, <1>3, <2>1, <2>2, GotoSideways DEF Detect, DetectAgain
<1>4. CASE ~Leave(p) /\ ~((Detect(p) \/ DetectAgain(p)) /\ Running)
  <2>1. PICK step \in {"clear-stale", "detect-again", "host-access", "clear-stale-again",
                       "clear-runtime", "ips-lock", "write-port"} :
          Goto(p, step) /\ (step = "write-port" => ClearRuntimeState)
    <3>1. CASE Detect(p) \/ ClearStale(p)
      BY <1>4, <3>1 DEF Detect, ClearStale, NoVMFound, Proceed
    <3>2. CASE DetectAgain(p) \/ ClearStaleAgain(p)
      BY <1>4, <3>2 DEF DetectAgain, ClearStaleAgain
    <3>3. CASE EnterHostAccess(p) \/ ClearRuntime(p) \/ WaitForSSH(p)
      BY <1>4, <3>3 DEF EnterHostAccess, ClearRuntime, WaitForSSH, Proceed
    <3>4. QED
      BY <1>4, <3>1, <3>2, <3>3 DEF Booting
  <2>2. UNCHANGED <<socket, sshPort, applied, attempted>> \/ ClearRuntimeState
    BY DEF Booting, WritePort, StartQemu, Detect, ClearStale, DetectAgain,
           ClearStaleAgain, EnterHostAccess, ClearRuntime, WaitForSSH
  <2>3. /\ UNCHANGED guestFacts /\ UNCHANGED <<script, allowAll, expired, faults>>
        /\ proc[p].at \notin SessionSteps \cup {"script", "idle"}
    BY DEF Booting, WritePort, StartQemu, Detect, ClearStale, DetectAgain,
           ClearStaleAgain, EnterHostAccess, ClearRuntime, WaitForSSH
  <2>4. QED
    BY <1>1, <2>1, <2>2, <2>3, GotoSideways
<1>5. QED
  BY <1>2, <1>3, <1>4

\* The end of a command, and the steps of a sync and of a session that tell nothing.
LEMMA OtherSideways ==
  ASSUME TypeInv, ScriptsFit, NEW p \in Procs,
         \/ Start(p) \/ LockIPs(p) \/ Examine(p) \/ SyncFails(p) \/ Enter(p)
         \/ RemoveAllowAll(p) \/ ExpireAllowAll(p) \/ StopScan(p) \/ StopClear(p) \/ Crash(p)
         \/ (Leave(p) /\ (InstallAllowAll(p) \/ Stop(p)))
  PROVE  Sideways
<1> USE DEF Found, At, TellingSteps, SessionSteps, locks, runtime, guest, rootState, bounds,
            guestFacts
<1>1. NoVM \in Found \cap (VMs \cup {NoVM})
  OBVIOUS
<1>2. CASE Start(p)
  <2>1. PICK r \in Commandings :
          /\ proc' = [proc EXCEPT ![p] = r] /\ r.vm = proc[p].vm
          /\ r.at \in {"ips-lock", "stop-scan", "detect"}
    BY <1>2, StartForm DEF TypeInv
  <2>2. proc'[p] = r /\ (\A q \in Procs \ {p} : proc'[q] = proc[q]) /\ proc[p].at = "idle"
    BY <1>2, <2>1 DEF Start, TypeInv, ControlOK
  <2>3. /\ UNCHANGED <<guestFacts, socket, sshPort, applied, attempted, script, allowAll, expired>>
        /\ faults' = faults /\ p \notin allowAll
    BY <1>2 DEF Start
  <2>4. ScriptMove(p) /\ RuleMove(p)
    BY <2>3 DEF ScriptMove, RuleMove
  <2>5. QED
    BY <2>1, <2>2, <2>3, <2>4 DEF Sideways, SidewaysOf
<1>3. CASE Leave(p) /\ ~Stop(p) /\ ~Start(p) /\ ~ExpireAllowAll(p)
  <2>1. /\ UNCHANGED guestFacts
        /\ (UNCHANGED <<socket, sshPort, applied, attempted>> \/ ClearRuntimeState)
    BY <1>3 DEF LockIPs, Examine, SyncFails, Enter, RemoveAllowAll, StopScan, StopClear, Crash,
                InstallAllowAll
  <2>2. \/ /\ script' = script /\ faults' = faults /\ (SyncFails(p) => proc[p].vm \notin alive)
           /\ ~SyncFails(p) => proc[p].at # "script"
        \/ Fault /\ Abandoned(p)
    BY <1>3 DEF LockIPs, Examine, SyncFails, Enter, RemoveAllowAll, StopScan, StopClear, Crash,
                InstallAllowAll
  <2>3. proc[p].vm \notin alive => ~Sent(p)
    BY DEF ScriptsFit, ScriptFits, Sent
  <2> InstallAllowAll(p) => UNCHANGED <<allowAll, expired>>
    <3>1. Proceed(p, "mark-dirty") => proc'[p].at = "mark-dirty"
      BY Forms DEF Proceed, Steps
    <3>2. proc'[p].at = "idle"
      BY <1>3, Forms DEF Ended
    <3>3. QED
      BY <3>1, <3>2 DEF InstallAllowAll
  <2>4. /\ allowAll \ {p} \subseteq allowAll' /\ allowAll' \subseteq allowAll
        /\ expired \ {p} \subseteq expired'
    BY <1>3 DEF LockIPs, Examine, SyncFails, Enter, RemoveAllowAll, StopScan, StopClear, Crash,
                InstallAllowAll
  <2>5. Fault => faults' > 0
    BY DEF Fault, TypeInv, WorldOK
  <2>6. p \in allowAll' => faults' > 0 \/ proc[p].at \notin SessionSteps \cup {"idle"}
    BY <1>3, <2>5 DEF LockIPs, Examine, SyncFails, Enter, RemoveAllowAll, StopScan, StopClear,
                      Crash, InstallAllowAll
  <2>7. QED
    BY <1>3, <2>1, <2>2, <2>3, <2>4, <2>6, LeaveSideways
<1>4. CASE Leave(p) /\ Stop(p)
  <2>1. ~Proceed(p, "stop-clear")
    <3>1. Proceed(p, "stop-clear") => proc'[p].at = "stop-clear"
      BY Forms DEF Proceed, Steps
    <3>2. proc'[p].at = "idle"
      BY <1>4, Forms DEF Ended
    <3>3. QED
      BY <3>1, <3>2
  <2>2. UNCHANGED <<alive, guest, rootState>> /\ (faults' = faults \/ Fault)
    BY <1>4, <2>1 DEF Stop
  <2>3. QED
    BY <1>4, <2>2, LeaveSideways DEF Stop
<1>5. CASE ~Leave(p) /\ (LockIPs(p) \/ Examine(p))
  <2>1. PICK step \in {"change", "examine", "attempt", "enter"} : Goto(p, step)
    BY <1>5 DEF LockIPs, Examine, Proceed
  <2>2. step \in Steps
    BY DEF Steps
  <2>3. /\ UNCHANGED <<guestFacts, socket, sshPort, applied, attempted, script, allowAll, expired>>
        /\ faults' = faults /\ proc[p].at \notin SessionSteps \cup {"script", "idle"}
    BY <1>5 DEF LockIPs, Examine
  <2>4. QED
    BY <1>1, <2>1, <2>2, <2>3, GotoSideways
<1>6. CASE ~Leave(p) /\ StopScan(p)
  <2>1. PICK step \in {"stop", "stop-clear"}, n \in Found \cap (VMs \cup {NoVM}) :
          Goto(p, step) \/ GotoWith(p, step, n)
    <3>1. CASE Processes # {}
      <4>1. (CHOOSE n \in Processes : TRUE) \in alive /\ alive \subseteq VMs
        BY <3>1 DEF Processes, TypeInv, WorldOK
      <4>2. QED
        BY <1>6, <3>1, <4>1 DEF StopScan
    <3>2. CASE Processes = {}
      BY <1>1, <1>6, <3>2 DEF StopScan, Proceed
    <3>3. QED
      BY <3>1, <3>2
  <2>2. step \in Steps
    BY DEF Steps
  <2>3. /\ UNCHANGED <<guestFacts, socket, sshPort, applied, attempted, script, allowAll, expired>>
        /\ faults' = faults /\ proc[p].at \notin SessionSteps \cup {"script", "idle"}
    BY <1>6 DEF StopScan
  <2>4. QED
    BY <2>1, <2>2, <2>3, GotoSideways
<1>7. CASE ExpireAllowAll(p)
  <2>1. UNCHANGED <<proc, guestFacts, socket, sshPort, applied, attempted, script, faults>>
    BY <1>7 DEF ExpireAllowAll
  <2>2. ScriptMove(p) /\ RuleMove(p)
    BY <1>7, <2>1 DEF ExpireAllowAll, ScriptMove, RuleMove
  <2>3. QED
    BY <2>1, <2>2 DEF Sideways, SidewaysOf
<1>8. QED
  BY <1>2, <1>3, <1>4, <1>5, <1>6, <1>7 DEF SyncFails, Enter, RemoveAllowAll, StopClear, Crash

-----------------------------------------------------------------------------
(* Root sessions                                                           *)

\* A session begins when its rule is in the guest and the image is marked; the rule of a
\* command that is no more was left behind by a fault.
Sessions ==
  /\ RootWorkIsMarked
  /\ \A p \in Procs :
       /\ At(p, "session") => dirty
       /\ proc[p].at \in SessionSteps /\ proc[p].vm \in alive => p \in allowAll \cup expired
       /\ p \in allowAll => proc[p].at \in SessionSteps \/ (At(p, "idle") /\ faults > 0)

\* Steps that neither begin a session nor take its rule away.
LEMMA SessionsKept ==
  ASSUME TypeInv, Sessions, alive' \subseteq alive, UNCHANGED <<dirty, rootWork>>,
         allowAll' \subseteq allowAll, faults' \in {faults, faults + 1},
         \A q \in Procs :
           \/ /\ proc'[q].at \notin SessionSteps
              /\ q \in allowAll' => \/ proc'[q].at = "idle" /\ faults' > 0
                                    \/ proc[q].at \notin SessionSteps \cup {"idle"}
           \/ proc'[q] = proc[q] /\ (q \in allowAll \cup expired =>
                                       q \in allowAll' \cup expired' \/ alive' = {})
  PROVE  Sessions'
<1>1. faults > 0 => faults' > 0
  BY DEF TypeInv, WorldOK
<1>2. RootWorkIsMarked'
  BY DEF Sessions, RootWorkIsMarked
<1>3. ASSUME NEW q \in Procs
      PROVE  /\ At(q, "session")' => dirty'
             /\ proc'[q].at \in SessionSteps /\ proc'[q].vm \in alive' =>
                  q \in allowAll' \cup expired'
             /\ q \in allowAll' =>
                  proc'[q].at \in SessionSteps \/ (proc'[q].at = "idle" /\ faults' > 0)
  BY <1>1 DEF Sessions, SessionSteps, At
<1>4. QED
  BY <1>2, <1>3 DEF Sessions, At

\* The start of a VM clears the rules, and is the start of another VM than any session's.
LEMMA StartQemuSessions ==
  ASSUME TypeInv, BootsOK, Sessions, NEW p \in Procs, StartQemu(p)
  PROVE  Sessions'
<1>1. /\ proc'[p].at = "wait-ssh" /\ \A q \in Procs \ {p} : proc'[q] = proc[q]
  BY Forms DEF StartQemu, Steps
<1>2. UNCHANGED <<dirty, rootWork, expired, faults>> /\ proc[p].at = "start-qemu"
  BY DEF StartQemu, At, bounds
<1>3. CASE alive = {}
  <2>1. (\A q \in Procs \ {p} : proc[q].vm \notin alive') /\ allowAll' = {}
    BY <1>3 DEF StartQemu, GuestBoots, BootsOK, NewVM, At
  <2>2. QED
    BY <1>1, <1>2, <2>1 DEF Sessions, SessionSteps, RootWorkIsMarked, At
<1>4. CASE alive # {}
  <2>1. alive' = alive /\ allowAll' = allowAll
    BY <1>4 DEF StartQemu
  <2>2. proc'[p].at \notin SessionSteps /\ proc[p].at \notin SessionSteps \cup {"idle"}
    BY <1>1, <1>2 DEF SessionSteps
  <2>3. QED
    BY <1>1, <1>2, <2>1, <2>2, SessionsKept
<1>5. QED
  BY <1>3, <1>4

\* The rule is installed, the image marked, and then the session works.
LEMMA SessionBegins ==
  ASSUME TypeInv, Sessions, NEW p \in Procs,
         (~Leave(p) /\ InstallAllowAll(p)) \/ MarkDirty(p) \/ Session(p)
  PROVE  Sessions'
<1> USE DEF SessionSteps, bounds
<1>1. CASE ~Leave(p) /\ InstallAllowAll(p)
  <2>1. /\ Goto(p, "mark-dirty") /\ allowAll' = allowAll \cup {p} /\ expired' = expired \ {p}
        /\ UNCHANGED <<alive, dirty, rootWork, faults>>
    BY <1>1 DEF InstallAllowAll, Proceed
  <2>2. proc'[p].at = "mark-dirty" /\ \A q \in Procs \ {p} : proc'[q] = proc[q]
    BY <2>1, Forms DEF Steps
  <2>3. QED
    BY <2>1, <2>2 DEF Sessions, RootWorkIsMarked, At
<1>2. CASE MarkDirty(p)
  <2>1. /\ Goto(p, "session") /\ dirty' = TRUE /\ At(p, "mark-dirty")
        /\ UNCHANGED <<alive, allowAll, expired, rootWork, faults>>
    BY <1>2 DEF MarkDirty
  <2>2. /\ proc'[p].at = "session" /\ proc'[p].vm = proc[p].vm
        /\ \A q \in Procs \ {p} : proc'[q] = proc[q]
    BY <2>1, Forms DEF Steps
  <2>3. QED
    BY <2>1, <2>2 DEF Sessions, RootWorkIsMarked, At
<1>3. CASE Session(p)
  <2>1. /\ Goto(p, "in-session") /\ At(p, "session")
        /\ UNCHANGED <<alive, allowAll, expired, dirty, faults>>
    BY <1>3 DEF Session
  <2>2. /\ proc'[p].at = "in-session" /\ proc'[p].vm = proc[p].vm
        /\ \A q \in Procs \ {p} : proc'[q] = proc[q]
    BY <2>1, Forms DEF Steps
  <2>3. dirty
    BY <2>1 DEF Sessions
  <2>4. QED
    BY <2>1, <2>2, <2>3 DEF Sessions, RootWorkIsMarked, At
<1>4. QED
  BY <1>1, <1>2, <1>3

-----------------------------------------------------------------------------
(* The exact addresses, as long as no script that a fault left behind has   *)
(* changed the rules under a later sync.                                    *)

\* A sync is about to be recorded; every script left behind is known to it.
Busy(p) == At(p, "script") \/ At(p, "clear-attempted")

\* A script left behind that no later sync has met works on addresses that are written down.
OrphanFits(n) ==
  /\ \A p \in Procs : ~Busy(p)
  /\ script[n].at = "allow" => script[n].todo \subseteq script[n].desired
  /\ Running => attempted # Unknown /\ script[n].desired \subseteq attempted

OrphansFit == \A n \in Orphans : Sent(n) /\ n \notin overtaken => OrphanFits(n)

\* A script's rules are its addresses once it has added and dropped; whatever the guest
\* reaches is one of them, or will be closed.
ScriptTrue(p) ==
  /\ script[p].at = "allow" => saved \ script[p].todo \subseteq rules
  /\ script[p].at = "drop" => saved \subseteq rules /\ rules \ saved \subseteq script[p].todo
  /\ script[p].at \in {"close", "done"} => rules = saved
  /\ Running => /\ rules \cup flows \subseteq saved \cup script[p].revoked \cup leftover
                /\ script[p].at = "done" => flows \subseteq saved \cup leftover

OnRecord ==
  Running => rules \cup flows \subseteq Listed(applied) \cup Listed(attempted) \cup leftover

AppliedIsTrue ==
  Synced /\ attempted = Unknown => rules = applied /\ flows \subseteq applied \cup leftover

\* A sync that is about to be over is over in the VM it was about; another VM was not synced
\* since its boot.
SyncEnds(p) ==
  /\ Running /\ proc[p].vm = socket => rules = applied /\ flows \subseteq applied \cup leftover
  /\ alive # {} /\ proc[p].vm \notin alive => rules = leftover /\ flows \subseteq leftover

RecordsFit ==
  /\ \A p \in Procs : Sent(p) => ScriptTrue(p)
  /\ OnRecord /\ AppliedIsTrue
  /\ \A p \in Procs : At(p, "clear-attempted") => SyncEnds(p)

AddressesOK == ScriptsFit /\ OrphansFit /\ (~disturbed => RecordsFit)

\* The holder of .firewall-ips is the only one with a script or about to end a sync.
LEMMA SoleHolder ==
  ASSUME TypeInv, ScriptsFit, NEW p \in Procs, HoldsIPs(proc[p])
  PROVE  \A q \in Procs \ {p} : ~Sent(q) /\ ~Busy(q)
<1>1. \A q \in Procs \ {p} : ~HoldsIPs(proc[q])
  BY DEF TypeInv, ControlOK, Held
<1>2. QED
  BY <1>1 DEF HoldsIPs, ScriptsFit, ScriptFits, At, Sent, Busy

\* Steps that tell nothing of the addresses, or lose the records of the VM.
LEMMA AddressesKept ==
  ASSUME TypeInv, BootsOK, AddressesOK,
         UNCHANGED <<saved, alive, rules, leftover, flows, histories>>,
         UNCHANGED <<socket, applied, attempted>> \/ ClearRuntimeState,
         NEW p \in Procs, ScriptMove(p), \A q \in Procs \ {p} : proc'[q] = proc[q],
         \/ proc'[p] = proc[p]
         \/ /\ proc'[p].at \notin {"script", "clear-attempted"}
            /\ proc[p].at = "script" => ~Sent(p)'
  PROVE  AddressesOK'
<1> USE DEF histories
<1>1. NoScript.at = "none" /\ NoVM \notin alive
  BY DEF NoScript, BootsOK, Numbered, NoVM
<1>2. Running' => Running /\ UNCHANGED <<socket, applied, attempted>>
  BY <1>1 DEF Running, ClearRuntimeState
<1>3. \A q \in Procs : Sent(q)' => script'[q] = script[q] /\ Sent(q) /\ proc'[q] = proc[q]
  BY <1>1 DEF ScriptMove, AddressesOK, ScriptsFit, ScriptFits, Sent, At
<1>4. \A q \in Procs : Busy(q)' => Busy(q) /\ proc'[q] = proc[q]
  BY DEF Busy, At
<1>5. ScriptsFit'
  BY <1>2, <1>3 DEF AddressesOK, ScriptsFit, ScriptFits, At, Listed, Sent
<1>6. ASSUME NEW n \in Orphans, Sent(n)', n \notin overtaken PROVE OrphanFits(n)'
  <2>1. CASE script'[n] = script[n]
    <3>1. OrphanFits(n)
      BY <1>6, <2>1 DEF AddressesOK, OrphansFit, Sent
    <3>2. QED
      BY <1>2, <1>4, <2>1, <3>1 DEF OrphanFits
  <2>2. CASE script'[n] = script[p] /\ proc'[p].at = "idle"
    <3>1. ScriptFits(p)
      BY <1>6, <2>2 DEF AddressesOK, ScriptsFit, Sent
    <3>2. HoldsIPs(proc[p])
      BY <3>1 DEF ScriptFits, At, HoldsIPs
    <3>3. \A q \in Procs : ~Busy(q)'
      BY <1>4, <2>2, <3>2, SoleHolder DEF AddressesOK, Busy, At
    <3>4. QED
      BY <1>2, <2>2, <3>1, <3>3 DEF OrphanFits, ScriptFits
  <2>3. QED
    BY <1>1, <1>6, <2>1, <2>2 DEF ScriptMove, Sent
<1>7. RecordsFit => RecordsFit'
  <2> SUFFICES ASSUME RecordsFit PROVE RecordsFit'
    OBVIOUS
  <2>1. \A q \in Procs : Sent(q)' => ScriptTrue(q)'
    BY <1>2, <1>3 DEF RecordsFit, ScriptTrue
  <2>2. OnRecord' /\ AppliedIsTrue'
    BY <1>2 DEF RecordsFit, OnRecord, AppliedIsTrue, Synced, Listed
  <2>3. \A q \in Procs : At(q, "clear-attempted")' => SyncEnds(q)'
    BY <1>2, <1>4 DEF RecordsFit, SyncEnds, At, Busy
  <2>4. QED
    BY <2>1, <2>2, <2>3 DEF RecordsFit
<1>8. QED
  BY <1>5, <1>6, <1>7 DEF AddressesOK, OrphansFit

\* Without scripts in the guest only the records count.
LEMMA NothingSent ==
  ASSUME script' = [s \in Scripts |-> NoScript], OnRecord', AppliedIsTrue',
         \A q \in Procs : At(q, "clear-attempted")' => SyncEnds(q)'
  PROVE  AddressesOK'
<1>1. \A s \in Scripts : ~Sent(s)'
  BY DEF NoScript, Sent
<1>2. QED
  BY <1>1 DEF AddressesOK, ScriptsFit, OrphansFit, RecordsFit, Sent, Scripts

\* A VM that starts has the rules of its image and no connections.
LEMMA StartQemuAddresses ==
  ASSUME TypeInv, BootsOK, AddressesOK, NEW p \in Procs, StartQemu(p)
  PROVE  AddressesOK'
<1>1. /\ proc'[p].at = "wait-ssh" /\ \A q \in Procs \ {p} : proc'[q] = proc[q]
  BY Forms DEF StartQemu, Steps
<1>2. /\ proc[p].vm \notin alive /\ synced # proc[p].vm /\ NoVM \notin alive
      /\ \A q \in Procs \ {p} : proc[q].vm # proc[p].vm
  BY DEF StartQemu, At, BootsOK, NewVM, Numbered, NoVM
<1>3. CASE alive = {}
  <2>1. /\ socket' = proc[p].vm /\ rules' = leftover' /\ flows' = {} /\ synced' = synced
        /\ script' = [s \in Scripts |-> NoScript]
    BY <1>3 DEF StartQemu, GuestBoots, ScriptsEnd
  <2>2. OnRecord' /\ AppliedIsTrue'
    BY <1>2, <2>1 DEF OnRecord, AppliedIsTrue, Synced
  <2>3. \A q \in Procs : At(q, "clear-attempted")' => SyncEnds(q)'
    BY <1>1, <1>2, <2>1 DEF SyncEnds, At
  <2>4. QED
    BY <2>1, <2>2, <2>3, NothingSent
<1>4. CASE alive # {}
  <2>1. /\ ~Running'
        /\ UNCHANGED <<alive, saved, rules, leftover, flows, script, overtaken, disturbed>>
    BY <1>2, <1>4 DEF StartQemu, Running, guest, histories
  <2>2. \A q \in Procs : /\ Sent(q) => proc'[q] = proc[q]
                         /\ Busy(q)' => Busy(q) /\ proc'[q] = proc[q]
    BY <1>1 DEF AddressesOK, ScriptsFit, ScriptFits, StartQemu, Sent, Busy, At
  <2>3. ScriptsFit'
    BY <2>1, <2>2 DEF AddressesOK, ScriptsFit, ScriptFits, At, Sent
  <2>4. OrphansFit'
    BY <2>1, <2>2 DEF AddressesOK, OrphansFit, OrphanFits, Sent
  <2>5. RecordsFit => RecordsFit'
    <3>1. OnRecord' /\ AppliedIsTrue'
      BY <2>1 DEF OnRecord, AppliedIsTrue, Synced
    <3>2. RecordsFit => \A q \in Procs : At(q, "clear-attempted")' => SyncEnds(q)'
      BY <2>1, <2>2 DEF RecordsFit, SyncEnds, At, Busy
    <3>3. RecordsFit => \A q \in Procs : Sent(q)' => ScriptTrue(q)'
      BY <2>1 DEF RecordsFit, ScriptTrue, Sent
    <3>4. QED
      BY <3>1, <3>2, <3>3 DEF RecordsFit
  <2>6. QED
    BY <2>1, <2>3, <2>4, <2>5 DEF AddressesOK
<1>5. QED
  BY <1>3, <1>4

\* The saved list changes while no command's script is in the guest, ...
LEMMA ChangeAddresses ==
  ASSUME TypeInv, AddressesOK, NEW p \in Procs, Change(p)
  PROVE  AddressesOK'
<1>1. HoldsIPs(proc[p])
  BY DEF Change, At, HoldsIPs
<1>2. ~Sent(p) /\ \A q \in Procs \ {p} : ~Sent(q) /\ ~Busy(q)
  BY <1>1, SoleHolder DEF Change, At, AddressesOK, ScriptsFit, ScriptFits, Sent
<1>3. /\ proc'[p].at \in {"detect", "detect-changed"} /\ \A q \in Procs \ {p} : proc'[q] = proc[q]
  BY Forms DEF Change, Steps
<1>4. /\ UNCHANGED <<alive, rules, leftover, flows, synced, overtaken, disturbed>>
      /\ UNCHANGED <<socket, applied, attempted, script>>
  BY DEF Change, runtime, guest, histories
<1>5. \A q \in Procs : ~Sent(q)' /\ ~Busy(q)'
  BY <1>2, <1>3, <1>4 DEF Sent, Busy, At
<1>6. OrphansFit'
  BY <1>4, <1>5 DEF AddressesOK, OrphansFit, OrphanFits, Running, Sent
<1>7. RecordsFit => RecordsFit'
  BY <1>4, <1>5 DEF RecordsFit, OnRecord, AppliedIsTrue, Synced, Running, Listed, Busy
<1>8. QED
  BY <1>4, <1>5, <1>6, <1>7 DEF AddressesOK, ScriptsFit, Sent

\* ... and so does the writing down of the sync, which meets the scripts left behind.
LEMMA AttemptAddresses ==
  ASSUME TypeInv, BootsOK, AddressesOK, NEW p \in Procs, Attempt(p)
  PROVE  AddressesOK'
<1>1. HoldsIPs(proc[p])
  BY DEF Attempt, At, HoldsIPs
<1>2. \A q \in Procs \ {p} : ~Sent(q) /\ ~Busy(q)
  BY <1>1, SoleHolder DEF AddressesOK
<1>3. /\ proc'[p].at = "script" /\ proc'[p].vm = proc[p].vm
      /\ \A q \in Procs \ {p} : proc'[q] = proc[q]
  BY Forms DEF Attempt, SendScript, Steps
<1>4. UNCHANGED <<saved, alive, rules, leftover, flows, synced, disturbed, socket, applied>>
  BY DEF Attempt, SendScript
<1>5. attempted' = Possible(p) \cup saved /\ attempted' \in Lists
  <2>1. Possible(p) \in Lists
    <3>1. Listed(applied) \in Lists /\ Listed(attempted) \in Lists
      BY ListedAddresses DEF TypeInv, WorldOK
    <3>2. Runs(p, {"firewall remove"}) => proc[p].address \in Addresses
      BY DEF Attempt, TypeInv, ControlOK, Fit, Runs, At, FirewallChange
    <3>3. QED
      BY <3>1, <3>2 DEF Possible, Lists
  <2>2. QED
    BY <2>1 DEF Attempt, TypeInv, WorldOK, Lists
<1>6. attempted' # Unknown /\ Listed(attempted)' = attempted'
  BY <1>5, VMAssumption DEF Lists, Unknown, Listed, VMAssumption
<1>7. Listed(applied) \cup Listed(attempted) \cup saved \subseteq attempted'
  BY <1>5 DEF Possible
<1>8. script \in [Scripts -> ScriptRecords] /\ p \in Scripts /\ Procs \cap Orphans = {}
  BY VMAssumption DEF TypeInv, WorldOK, Scripts, Orphans, VMAssumption
<1>9. /\ \A s \in Scripts \ {p} : script'[s] = script[s]
      /\ Sent(p)' => /\ proc[p].vm \in alive /\ script'[p].at = "allow"
                     /\ script'[p].desired = saved /\ script'[p].todo = saved
                     /\ script'[p].revoked = Possible(p) \ saved
  BY <1>8 DEF Attempt, SendScript, NoScript, Sent
<1>10. \A q \in Procs \ {p} : ~Sent(q)' /\ ~Busy(q)'
  BY <1>2, <1>3, <1>9 DEF Sent, Busy, At, Scripts
<1>11. ScriptsFit'
  <2>1. Sent(p)' => ScriptFits(p)'
    BY <1>3, <1>4, <1>6, <1>7, <1>9 DEF ScriptFits, At, Listed
  <2>2. QED
    BY <1>10, <2>1 DEF ScriptsFit, Sent
<1>12. OrphansFit'
  <2>1. overtaken' = {n \in Orphans : Sent(n)}
    BY DEF Attempt, SendScript, Sent
  <2>2. \A n \in Orphans : Sent(n)' => n \in overtaken'
    BY <1>8, <1>9, <2>1 DEF Sent, Scripts
  <2>3. QED
    BY <2>2 DEF OrphansFit
<1>13. RecordsFit => RecordsFit'
  <2> SUFFICES ASSUME RecordsFit PROVE RecordsFit'
    OBVIOUS
  <2>1. Running' = Running /\ (Running => rules \cup flows \subseteq Possible(p) \cup leftover)
    BY <1>4 DEF Running, RecordsFit, OnRecord, Possible
  <2>2. Sent(p)' => ScriptTrue(p)'
    BY <1>4, <1>9, <2>1 DEF ScriptTrue
  <2>3. OnRecord' /\ AppliedIsTrue'
    BY <1>4, <1>6, <1>7 DEF RecordsFit, OnRecord, AppliedIsTrue, Running
  <2>4. \A q \in Procs : ~At(q, "clear-attempted")'
    BY <1>3, <1>10 DEF At, Busy
  <2>5. QED
    BY <1>10, <2>2, <2>3, <2>4 DEF RecordsFit
<1>14. QED
  BY <1>4, <1>11, <1>12, <1>13 DEF AddressesOK

\* The script of a command works on the rules alone.
LEMMA CommandScriptAddresses ==
  ASSUME TypeInv, BootsOK, AddressesOK, NEW p \in Procs, Scripting(p)
  PROVE  AddressesOK'
<1> USE DEF Scripting
<1>1. ScriptFits(p) /\ Sent(p)
  BY DEF ScriptAllow, ScriptDrop, ScriptClose, AddressesOK, ScriptsFit, Sent
<1>2. \A q \in Procs \ {p} : ~Sent(q) /\ ~Busy(q)
  BY <1>1, SoleHolder DEF ScriptFits, At, HoldsIPs, AddressesOK
<1>3. /\ UNCHANGED <<proc, saved, alive, leftover, synced, socket, applied, attempted, overtaken>>
      /\ disturbed => disturbed'
  <2>1. CASE ScriptAllow(p)
    BY <2>1 DEF ScriptAllow, runtime
  <2>2. CASE ScriptDrop(p)
    BY <2>2 DEF ScriptDrop, runtime
  <2>3. CASE ScriptClose(p)
    BY <2>3 DEF ScriptClose, runtime, histories
  <2>4. QED
    BY <2>1, <2>2, <2>3
<1>4. script \in [Scripts -> ScriptRecords] /\ p \in Scripts /\ p \notin Orphans
  BY VMAssumption DEF TypeInv, WorldOK, Scripts, Orphans, VMAssumption
<1>5. \A s \in Scripts \ {p} : script'[s] = script[s]
  BY <1>4 DEF ScriptAllow, ScriptDrop, ScriptClose
<1>6. script[p] \in ScriptRecords /\ rules \in Lists
  BY <1>4 DEF TypeInv, WorldOK
<1>7. ScriptFits(p)'
  <2>1. /\ script'[p].desired = saved
        /\ script'[p].at = "allow" => script'[p].todo \subseteq saved
        /\ script'[p].at = "drop" => script'[p].todo \cap saved = {}
    <3>1. CASE ScriptAllow(p)
      BY <1>1, <1>4, <1>6, <3>1 DEF ScriptAllow, ScriptFits, ScriptRecords
    <3>2. CASE ScriptDrop(p)
      BY <1>1, <1>4, <1>6, <3>2 DEF ScriptDrop, ScriptFits, ScriptRecords
    <3>3. CASE ScriptClose(p)
      BY <1>1, <1>4, <1>6, <3>3 DEF ScriptClose, ScriptFits, ScriptRecords
    <3>4. QED
      BY <3>1, <3>2, <3>3
  <2>2. QED
    BY <1>1, <1>3, <2>1 DEF ScriptFits, Running, At, Listed
<1>8. ScriptsFit'
  BY <1>2, <1>5, <1>7 DEF ScriptsFit, Sent, Scripts
<1>9. OrphansFit'
  <2>1. \A n \in Orphans : Sent(n) => n \in overtaken
    BY <1>1 DEF AddressesOK, OrphansFit, OrphanFits, Busy, ScriptFits
  <2>2. \A n \in Orphans : Sent(n)' => Sent(n)
    BY <1>4, <1>5 DEF Sent, Scripts
  <2>3. QED
    BY <1>3, <2>1, <2>2 DEF OrphansFit
<1>10. RecordsFit => RecordsFit'
  <2> SUFFICES ASSUME RecordsFit PROVE RecordsFit'
    OBVIOUS
  <2>1. ScriptTrue(p) /\ Running' = Running
    BY <1>1, <1>3 DEF RecordsFit, Running
  <2>2. ScriptTrue(p)' /\ (Running => rules' \cup flows' \subseteq rules \cup flows \cup saved)
    <3>1. CASE ScriptAllow(p)
      BY <1>1, <1>3, <1>4, <1>6, <2>1, <3>1
      DEF ScriptAllow, ScriptFits, ScriptTrue, ScriptRecords, Lists
    <3>2. CASE ScriptDrop(p)
      <4>1. /\ script[p].at = "drop" /\ script[p].desired = saved /\ flows' = flows
            /\ saved \subseteq rules /\ rules \ saved \subseteq script[p].todo
            /\ script[p].todo \cap saved = {}
        BY <1>1, <2>1, <3>2 DEF ScriptDrop, ScriptFits, ScriptTrue
      <4>2. ASSUME NEW a \in script[p].todo, rules' = rules \ {a},
                   script' = [script EXCEPT ![p].todo = @ \ {a}]
            PROVE  ScriptTrue(p)'
        <5>1. /\ script'[p].at = "drop" /\ script'[p].revoked = script[p].revoked
              /\ script'[p].todo = script[p].todo \ {a}
          BY <1>4, <1>6, <4>1, <4>2 DEF ScriptRecords
        <5>2. QED
          BY <1>3, <2>1, <4>1, <4>2, <5>1 DEF ScriptTrue
      <4>3. ASSUME script[p].todo = {}, rules' = rules,
                   script' = [script EXCEPT ![p].at = "close"]
            PROVE  ScriptTrue(p)'
        <5>1. script'[p].at = "close" /\ script'[p].revoked = script[p].revoked
          BY <1>4, <1>6, <4>3 DEF ScriptRecords
        <5>2. rules = saved
          BY <4>1, <4>3
        <5>3. QED
          BY <1>3, <2>1, <4>1, <4>3, <5>1, <5>2 DEF ScriptTrue
      <4>4. QED
        BY <3>2, <4>1, <4>2, <4>3 DEF ScriptDrop
    <3>3. CASE ScriptClose(p)
      BY <1>1, <1>3, <1>4, <1>6, <2>1, <3>3
      DEF ScriptClose, ScriptFits, ScriptTrue, ScriptRecords, Lists
    <3>4. QED
      BY <3>1, <3>2, <3>3
  <2>3. Running => attempted # Unknown /\ saved \subseteq Listed(attempted)
    BY <1>1, ListedAddresses DEF ScriptFits, TypeInv, WorldOK
  <2>4. OnRecord' /\ AppliedIsTrue'
    BY <1>3, <2>1, <2>2, <2>3 DEF RecordsFit, OnRecord, AppliedIsTrue, Synced, Listed
  <2>5. \A q \in Procs : ~At(q, "clear-attempted")'
    BY <1>1, <1>2, <1>3 DEF ScriptFits, At, Busy
  <2>6. \A q \in Procs \ {p} : ~Sent(q)'
    BY <1>2, <1>5 DEF Sent, Scripts
  <2>7. QED
    BY <2>2, <2>4, <2>5, <2>6 DEF RecordsFit
<1>11. QED
  BY <1>3, <1>8, <1>9, <1>10 DEF AddressesOK

\* One that was left behind adds what is written down, or is known to have disturbed a later
\* sync.
LEMMA OrphanAddresses ==
  ASSUME TypeInv, AddressesOK, NEW n \in Orphans, Scripting(n)
  PROVE  AddressesOK'
<1> USE DEF Scripting
<1>1. /\ UNCHANGED <<proc, saved, alive, leftover, synced, socket, applied, attempted, overtaken>>
      /\ disturbed => disturbed'
      /\ n \in overtaken /\ ~disturbed' => rules' = rules
      /\ Sent(n) /\ flows' \subseteq flows
  <2>1. CASE ScriptAllow(n)
    BY <2>1 DEF ScriptAllow, runtime, Sent
  <2>2. CASE ScriptDrop(n)
    BY <2>2 DEF ScriptDrop, runtime, Sent
  <2>3. CASE ScriptClose(n)
    BY <2>3 DEF ScriptClose, runtime, histories, Sent
  <2>4. QED
    BY <2>1, <2>2, <2>3
<1>2. script \in [Scripts -> ScriptRecords] /\ n \in Scripts /\ n \notin Procs
  BY VMAssumption DEF TypeInv, WorldOK, Scripts, Orphans, VMAssumption
<1>3. script[n] \in ScriptRecords
  BY <1>2
<1>4. \A s \in Scripts \ {n} : script'[s] = script[s]
  BY <1>2 DEF ScriptAllow, ScriptDrop, ScriptClose
<1>5. Running' = Running /\ \A q \in Procs : Busy(q)' = Busy(q)
  BY <1>1 DEF Running, Busy, At
<1>6. ScriptsFit'
  BY <1>1, <1>2, <1>4, <1>5 DEF AddressesOK, ScriptsFit, ScriptFits, At, Listed, Scripts
<1>7. OrphansFit'
  <2>1. Sent(n)' => script'[n].desired = script[n].desired
    BY <1>2, <1>3 DEF ScriptAllow, ScriptDrop, ScriptClose, Sent, ScriptRecords, NoScript
  <2>2. Sent(n)' /\ script'[n].at = "allow" =>
          script[n].at = "allow" /\ script'[n].todo \subseteq script[n].todo
    BY <1>2, <1>3 DEF ScriptAllow, ScriptDrop, ScriptClose, Sent, ScriptRecords, NoScript
  <2>3. n \notin overtaken => OrphanFits(n)
    BY <1>1 DEF AddressesOK, OrphansFit
  <2>4. Sent(n)' /\ n \notin overtaken => OrphanFits(n)'
    BY <1>1, <1>5, <2>1, <2>2, <2>3 DEF OrphanFits
  <2>5. \A m \in Orphans \ {n} : Sent(m)' /\ m \notin overtaken => OrphanFits(m)'
    BY <1>1, <1>4, <1>5 DEF AddressesOK, OrphansFit, OrphanFits, Sent, Scripts
  <2>6. QED
    BY <1>1, <2>4, <2>5 DEF OrphansFit
<1>8. ASSUME RecordsFit, ~disturbed' PROVE RecordsFit'
  <2>1. CASE n \in overtaken
    <3>1. rules' = rules
      BY <1>1, <1>8, <2>1
    <3>2. \A p \in Procs : Sent(p)' => ScriptTrue(p)'
      BY <1>1, <1>2, <1>4, <1>5, <1>8, <3>1 DEF RecordsFit, ScriptTrue, Sent, Scripts
    <3>3. OnRecord' /\ AppliedIsTrue'
      BY <1>1, <1>5, <1>8, <3>1 DEF RecordsFit, OnRecord, AppliedIsTrue, Synced, Listed
    <3>4. \A p \in Procs : At(p, "clear-attempted")' => SyncEnds(p)'
      BY <1>1, <1>5, <1>8, <3>1 DEF RecordsFit, SyncEnds, At
    <3>5. QED
      BY <3>2, <3>3, <3>4 DEF RecordsFit
  <2>2. CASE n \notin overtaken
    <3>1. OrphanFits(n)
      BY <1>1, <2>2 DEF AddressesOK, OrphansFit
    <3>2. \A p \in Procs : ~Sent(p)' /\ ~At(p, "clear-attempted")'
      BY <1>1, <1>2, <1>4, <3>1
      DEF OrphanFits, Busy, Sent, At, AddressesOK, ScriptsFit, ScriptFits, Scripts
    <3>3. rules' \subseteq rules \cup script[n].desired
      BY <3>1 DEF ScriptAllow, ScriptDrop, ScriptClose, OrphanFits
    <3>4. Running => script[n].desired \subseteq Listed(attempted) /\ attempted # Unknown
      BY <3>1, ListedAddresses DEF OrphanFits, TypeInv, WorldOK
    <3>5. OnRecord' /\ AppliedIsTrue'
      BY <1>1, <1>5, <1>8, <3>3, <3>4 DEF RecordsFit, OnRecord, AppliedIsTrue, Synced, Listed
    <3>6. QED
      BY <3>2, <3>5 DEF RecordsFit
  <2>3. QED
    BY <2>1, <2>2
<1>9. QED
  BY <1>1, <1>6, <1>7, <1>8 DEF AddressesOK

\* The script is done, its list is the applied one, ...
LEMMA RecordAddresses ==
  ASSUME TypeInv, BootsOK, AddressesOK, NEW p \in Procs, Record(p)
  PROVE  AddressesOK'
<1>1. HoldsIPs(proc[p])
  BY DEF Record, At, HoldsIPs
<1>2. \A q \in Procs \ {p} : ~Sent(q) /\ ~Busy(q)
  BY <1>1, SoleHolder DEF AddressesOK
<1>3. /\ proc'[p].at = "clear-attempted" /\ proc'[p].vm = proc[p].vm
      /\ \A q \in Procs \ {p} : proc'[q] = proc[q]
  BY Forms DEF Record, Steps
<1>4. ScriptFits(p) /\ script[p].at = "done" /\ Sent(p)
  BY DEF Record, AddressesOK, ScriptsFit, Sent
<1>5. /\ UNCHANGED <<saved, alive, rules, leftover, flows, synced, overtaken, disturbed>>
      /\ UNCHANGED <<socket, attempted>> /\ applied' = saved
  BY <1>4 DEF Record, ScriptFits, histories
<1>6. script \in [Scripts -> ScriptRecords] /\ p \in Scripts /\ p \notin Orphans
  BY VMAssumption DEF TypeInv, WorldOK, Scripts, Orphans, VMAssumption
<1>7. ~Sent(p)' /\ \A s \in Scripts \ {p} : script'[s] = script[s]
  BY <1>6 DEF Record, NoScript, Sent
<1>8. \A q \in Procs : ~Sent(q)'
  BY <1>2, <1>7 DEF Sent, Scripts
<1>9. OrphansFit'
  <2>1. \A m \in Orphans : Sent(m)' => m \in overtaken
    BY <1>4, <1>6, <1>7 DEF AddressesOK, OrphansFit, OrphanFits, Busy, ScriptFits, Sent, Scripts
  <2>2. QED
    BY <1>5, <2>1 DEF OrphansFit
<1>10. RecordsFit => RecordsFit'
  <2> SUFFICES ASSUME RecordsFit PROVE RecordsFit'
    OBVIOUS
  <2>1. ScriptTrue(p)
    BY <1>4 DEF RecordsFit
  <2>2. OnRecord' /\ AppliedIsTrue'
    BY <1>4, <1>5, <2>1, ListedAddresses
    DEF OnRecord, AppliedIsTrue, ScriptFits, ScriptTrue, Synced, Running, TypeInv, WorldOK
  <2>3. SyncEnds(p)'
    BY <1>3, <1>4, <1>5, <2>1 DEF SyncEnds, ScriptFits, ScriptTrue, Running
  <2>4. \A q \in Procs \ {p} : ~At(q, "clear-attempted")'
    BY <1>2, <1>3 DEF Busy, At
  <2>5. QED
    BY <1>8, <2>2, <2>3, <2>4 DEF RecordsFit
<1>11. QED
  BY <1>5, <1>8, <1>9, <1>10 DEF AddressesOK, ScriptsFit, Sent

\* ... and then the attempt is over.
LEMMA ClearAttemptedAddresses ==
  ASSUME TypeInv, BootsOK, AddressesOK, NEW p \in Procs, ClearAttempted(p)
  PROVE  AddressesOK'
<1>1. HoldsIPs(proc[p]) /\ At(p, "clear-attempted")
  BY DEF ClearAttempted, At, HoldsIPs
<1>2. ~Sent(p) /\ \A q \in Procs \ {p} : ~Sent(q) /\ ~Busy(q)
  BY <1>1, SoleHolder DEF At, AddressesOK, ScriptsFit, ScriptFits, Sent
<1>3. ~Busy(p)' /\ \A q \in Procs \ {p} : proc'[q] = proc[q]
  <2>1. CASE Leave(p)
    BY <2>1, Forms DEF Ended, Busy, At
  <2>2. CASE ~Leave(p)
    <3>1. PICK step \in {"detect-again", "allow-all", "enter"} : Goto(p, step)
      BY <2>2 DEF ClearAttempted
    <3>2. QED
      BY <3>1, Forms DEF Steps, Busy, At
  <2>3. QED
    BY <2>1, <2>2
<1>4. /\ UNCHANGED <<saved, alive, rules, leftover, flows, script, overtaken, disturbed>>
      /\ UNCHANGED <<socket, applied>> /\ attempted' = Unknown /\ synced' = proc[p].vm
  BY DEF ClearAttempted
<1>5. \A q \in Procs : ~Sent(q)' /\ ~Busy(q)'
  BY <1>2, <1>3, <1>4 DEF Sent, Busy, At
<1>6. OrphansFit'
  <2>1. \A m \in Orphans : Sent(m) => m \in overtaken
    BY <1>1 DEF AddressesOK, OrphansFit, OrphanFits, Busy
  <2>2. QED
    BY <1>4, <2>1 DEF OrphansFit, Sent
<1>7. RecordsFit => RecordsFit'
  <2> SUFFICES ASSUME RecordsFit PROVE RecordsFit'
    OBVIOUS
  <2>1. SyncEnds(p)
    BY <1>1 DEF RecordsFit
  <2>2. CASE Running
    <3>1. proc[p].vm = socket \/ proc[p].vm \notin alive
      BY <2>2 DEF Running, BootsOK, Numbered
    <3>2. \/ rules = applied /\ flows \subseteq applied \cup leftover
          \/ proc[p].vm # socket /\ rules = leftover /\ flows \subseteq leftover
      BY <2>1, <2>2, <3>1 DEF SyncEnds, Running
    <3>3. rules \in Lists
      BY DEF TypeInv, WorldOK
    <3>4. rules = applied => Listed(applied) = rules
      BY <3>3, ListedAddresses
    <3>5. OnRecord'
      BY <1>4, <3>2, <3>4 DEF OnRecord, Listed
    <3>6. AppliedIsTrue'
      BY <1>4, <3>2 DEF AppliedIsTrue, Synced, Running
    <3>7. QED
      BY <1>5, <3>5, <3>6 DEF RecordsFit, Busy
  <2>3. CASE ~Running
    BY <1>4, <1>5, <2>3 DEF RecordsFit, OnRecord, AppliedIsTrue, Synced, Running, Busy
  <2>4. QED
    BY <2>2, <2>3
<1>8. QED
  BY <1>4, <1>5, <1>6, <1>7 DEF AddressesOK, ScriptsFit, Sent

\* Without a VM there is nothing to be on record.
LEMMA EndAddresses ==
  ASSUME alive' = {}, script' = [s \in Scripts |-> NoScript]
  PROVE  AddressesOK'
<1>1. ~Running'
  BY DEF Running
<1>2. /\ OnRecord' /\ AppliedIsTrue'
      /\ \A q \in Procs : At(q, "clear-attempted")' => SyncEnds(q)'
  BY <1>1 DEF OnRecord, AppliedIsTrue, Synced, SyncEnds
<1>3. QED
  BY <1>2, NothingSent

\* A connection is opened under the rules.
LEMMA ConnectAddresses == ASSUME TypeInv, AddressesOK, Connect PROVE AddressesOK'
<1>1. PICK a \in rules : flows' = flows \cup {a}
  BY DEF Connect
<1>2. /\ UNCHANGED <<proc, saved, socket, applied, attempted, alive, rules, leftover, script>>
      /\ UNCHANGED <<synced, overtaken, disturbed>>
  BY DEF Connect, runtime, histories
<1>3. ScriptsFit'
  BY <1>2 DEF AddressesOK, ScriptsFit, ScriptFits, Running, At, Listed
<1>4. OrphansFit'
  BY <1>2 DEF AddressesOK, OrphansFit, OrphanFits, Running, Busy, At, Sent
<1>5. RecordsFit => RecordsFit'
  <2> SUFFICES ASSUME RecordsFit PROVE RecordsFit'
    OBVIOUS
  <2>1. \A p \in Procs : Sent(p)' => ScriptTrue(p)'
    BY <1>1, <1>2 DEF RecordsFit, ScriptTrue, Running, Sent
  <2>2. OnRecord' /\ AppliedIsTrue'
    BY <1>1, <1>2 DEF RecordsFit, OnRecord, AppliedIsTrue, Synced, Running, Listed
  <2>3. \A q \in Procs : At(q, "clear-attempted")' => SyncEnds(q)'
    BY <1>1, <1>2 DEF RecordsFit, SyncEnds, Running, At
  <2>4. QED
    BY <2>1, <2>2, <2>3 DEF RecordsFit
<1>6. QED
  BY <1>2, <1>3, <1>4, <1>5 DEF AddressesOK

-----------------------------------------------------------------------------
(* The inductive invariant                                                 *)

Inv == TypeInv /\ BootsOK /\ Sessions /\ AddressesOK

\* What a sideways step needs to keep, it keeps.
LEMMA SidewaysKeeps ==
  ASSUME Inv, Sideways
  PROVE  BootsOK' /\ Sessions' /\ AddressesOK'
<1>1. PICK p \in Procs : SidewaysOf(p)
  BY DEF Sideways
<1> USE DEF Inv, SidewaysOf, guestFacts, histories
<1>2. /\ socket' \in {socket, NoVM} /\ sshPort' \in {sshPort, NoVM}
      /\ UNCHANGED <<socket, applied, attempted>> \/ ClearRuntimeState
  BY <1>1 DEF ClearRuntimeState
<1>3. BootsOK'
  <2>1. ASSUME NEW q \in Procs
        PROVE  \/ proc'[q] = proc[q]
               \/ /\ proc'[q].at # "start-qemu" /\ (proc'[q].at = "write-port" => socket' = NoVM)
                  /\ proc'[q].vm \in {proc[q].vm} \cup Found
    BY <1>1 DEF ClearRuntimeState, TellingSteps
  <2>2. QED
    BY <1>1, <1>2, <2>1, BootsKept
<1>4. Sessions'
  <2>1. ASSUME NEW q \in Procs
        PROVE  \/ /\ proc'[q].at \notin SessionSteps
                  /\ q \in allowAll' => \/ proc'[q].at = "idle" /\ faults' > 0
                                        \/ proc[q].at \notin SessionSteps \cup {"idle"}
               \/ proc'[q] = proc[q] /\ (q \in allowAll \cup expired =>
                                           q \in allowAll' \cup expired' \/ alive' = {})
    BY <1>1 DEF RuleMove, TellingSteps, SessionSteps
  <2>2. QED
    BY <1>1, <2>1, SessionsKept DEF RuleMove
<1>5. AddressesOK'
  BY <1>1, <1>2, AddressesKept DEF TellingSteps
<1>6. QED
  BY <1>3, <1>4, <1>5

\* A command's own step: what Goto leaves of the boots and the sessions.
LEMMA GotoKeeps ==
  ASSUME Inv, NEW p \in Procs,
         NEW step \in Steps \ ({"start-qemu", "write-port"} \cup SessionSteps),
         Goto(p, step), proc[p].at \notin SessionSteps \cup {"idle"},
         UNCHANGED <<alive, booted, socket, sshPort, synced, rootState, faults>>
  PROVE  BootsOK' /\ Sessions'
<1>1. /\ proc'[p].at = step /\ proc'[p].vm = proc[p].vm
      /\ \A q \in Procs \ {p} : proc'[q] = proc[q]
  BY Forms DEF Inv
<1>2. BootsOK'
  BY <1>1, BootsKept DEF Inv
<1>3. Sessions'
  BY <1>1, SessionsKept DEF Inv, rootState
<1>4. QED
  BY <1>2, <1>3

\* A command starts a VM.
LEMMA BootingInv ==
  ASSUME Inv, NEW p \in Procs, Booting(p)
  PROVE  BootsOK' /\ Sessions' /\ AddressesOK'
<1> USE DEF Inv
<1>1. CASE ~WritePort(p) /\ ~StartQemu(p)
  BY <1>1, BootingSideways, SidewaysKeeps
<1>2. CASE WritePort(p)
  <2>1. /\ proc'[p].at = "start-qemu" /\ \A q \in Procs \ {p} : proc'[q] = proc[q]
    BY <1>2 DEF WritePort, GotoWith, TypeInv, ControlOK, Commandings
  <2>2. /\ UNCHANGED <<saved, alive, rules, leftover, flows, histories, socket, applied>>
        /\ UNCHANGED <<attempted, script, allowAll, expired, dirty, rootWork, faults>>
        /\ proc[p].at = "write-port"
    BY <1>2 DEF WritePort, At, guest, rootState
  <2>3. Sessions'
    BY <2>1, <2>2, SessionsKept DEF SessionSteps
  <2>4. AddressesOK'
    BY <2>1, <2>2, AddressesKept DEF ScriptMove
  <2>5. QED
    BY <1>2, <2>3, <2>4, WritePortBoots
<1>3. CASE StartQemu(p)
  BY <1>3, StartQemuBoots, StartQemuSessions, StartQemuAddresses
<1>4. QED
  BY <1>1, <1>2, <1>3

\* A command syncs the addresses.
LEMMA SyncingInv ==
  ASSUME Inv, NEW p \in Procs, Syncing(p)
  PROVE  BootsOK' /\ Sessions' /\ AddressesOK'
<1> USE DEF Inv
<1>1. CASE LockIPs(p) \/ Examine(p) \/ SyncFails(p)
  BY <1>1, OtherSideways, SidewaysKeeps DEF AddressesOK
<1>2. CASE Change(p) \/ Attempt(p) \/ Record(p)
  <2>1. PICK step \in {"detect", "detect-changed", "script", "clear-attempted"} : Goto(p, step)
    BY <1>2 DEF Change, Attempt, SendScript, Record
  <2>2. /\ UNCHANGED <<alive, booted, socket, sshPort, synced, rootState, faults>>
        /\ proc[p].at \notin SessionSteps \cup {"idle"}
    BY <1>2 DEF Change, Attempt, SendScript, Record, runtime, guest, histories, bounds, At,
                SessionSteps
  <2>3. step \in Steps \ ({"start-qemu", "write-port"} \cup SessionSteps)
    BY DEF Steps, SessionSteps
  <2>4. BootsOK' /\ Sessions'
    BY <2>1, <2>2, <2>3, GotoKeeps
  <2>5. QED
    BY <1>2, <2>4, ChangeAddresses, AttemptAddresses, RecordAddresses
<1>4. CASE ClearAttempted(p)
  <2>1. /\ proc'[p].at \notin {"start-qemu", "write-port"} \cup SessionSteps
        /\ proc'[p].vm \in {proc[p].vm, NoVM} /\ \A q \in Procs \ {p} : proc'[q] = proc[q]
    <3>1. CASE Leave(p)
      BY <3>1, Forms DEF Ended, SessionSteps
    <3>2. CASE ~Leave(p)
      <4>1. PICK step \in {"detect-again", "allow-all", "enter"} : Goto(p, step)
        BY <1>4, <3>2 DEF ClearAttempted
      <4>2. QED
        BY <4>1, Forms DEF Steps, SessionSteps
    <3>3. QED
      BY <3>1, <3>2
  <2>2. /\ UNCHANGED <<alive, booted, socket, sshPort, allowAll, expired, dirty, rootWork, faults>>
        /\ At(p, "clear-attempted") /\ synced' = proc[p].vm
    BY <1>4 DEF ClearAttempted, rootState, bounds
  <2>3. BootsOK'
    BY <2>1, <2>2, BootsKept DEF Found
  <2>4. Sessions'
    BY <2>1, <2>2, SessionsKept DEF At, SessionSteps
  <2>5. QED
    BY <1>4, <2>3, <2>4, ClearAttemptedAddresses
<1>5. QED
  BY <1>1, <1>2, <1>4 DEF Syncing

\* A script in the guest goes on.
LEMMA ScriptingInv ==
  ASSUME Inv, NEW s \in Scripts, Scripting(s)
  PROVE  BootsOK' /\ Sessions' /\ AddressesOK'
<1> USE DEF Inv
<1>1. /\ UNCHANGED <<proc, alive, booted, socket, sshPort, synced, allowAll, expired, dirty>>
      /\ UNCHANGED <<rootWork, faults>>
  BY DEF Scripting, ScriptAllow, ScriptDrop, ScriptClose, runtime, histories, rootState, bounds
<1>2. BootsOK' /\ Sessions'
  BY <1>1, BootsKept, SessionsKept
<1>3. AddressesOK'
  BY CommandScriptAddresses, OrphanAddresses DEF Scripts
<1>4. QED
  BY <1>2, <1>3

\* A command enters the VM.
LEMMA EnteringInv ==
  ASSUME Inv, NEW p \in Procs, Entering(p)
  PROVE  BootsOK' /\ Sessions' /\ AddressesOK'
<1> USE DEF Inv
<1>1. CASE Enter(p) \/ RemoveAllowAll(p) \/ ExpireAllowAll(p)
           \/ (Leave(p) /\ InstallAllowAll(p))
  BY <1>1, OtherSideways, SidewaysKeeps DEF AddressesOK
<1>2. CASE (~Leave(p) /\ InstallAllowAll(p)) \/ MarkDirty(p) \/ Session(p)
  <2>1. UNCHANGED <<saved, runtime, alive, guest, booted>>
    BY <1>2 DEF InstallAllowAll, MarkDirty, Session, bounds
  <2>2. /\ proc'[p].at \in SessionSteps /\ proc'[p].vm = proc[p].vm
        /\ proc[p].at # "script" /\ \A q \in Procs \ {p} : proc'[q] = proc[q]
    <3>1. PICK step \in SessionSteps : Goto(p, step)
      BY <1>2 DEF InstallAllowAll, MarkDirty, Session, Proceed, SessionSteps
    <3>2. proc[p].at # "script"
      BY <1>2 DEF InstallAllowAll, MarkDirty, Session, At
    <3>3. QED
      BY <3>1, <3>2, Forms DEF Steps, SessionSteps
  <2>3. BootsOK'
    BY <2>1, <2>2, BootsKept DEF runtime, guest, histories, SessionSteps
  <2>4. AddressesOK'
    BY <2>1, <2>2, AddressesKept DEF runtime, guest, ScriptMove, SessionSteps
  <2>5. QED
    BY <1>2, <2>3, <2>4, SessionBegins
<1>3. QED
  BY <1>1, <1>2 DEF Entering

\* The VM ends, by itself or by a command.
LEMMA GuestEndsInv ==
  ASSUME Inv, NEW flushed, GuestEnds(flushed), booted' = booted,
         socket' \in {socket, NoVM}, sshPort' = sshPort, faults' \in {faults, faults + 1},
         \A q \in Procs :
           \/ proc'[q] = proc[q]
           \/ proc'[q].at = "stop-clear" /\ proc'[q].vm = proc[q].vm
  PROVE  BootsOK' /\ Sessions' /\ AddressesOK'
<1>1. /\ alive' = {} /\ script' = [s \in Scripts |-> NoScript] /\ synced' = NoVM
      /\ allowAll' = {} /\ UNCHANGED <<dirty, rootWork>>
  BY DEF GuestEnds, ScriptsEnd
<1>2. BootsOK'
  BY <1>1, BootsKept DEF Inv
<1>3. Sessions'
  BY <1>1, SessionsKept DEF Inv, SessionSteps
<1>4. QED
  BY <1>1, <1>2, <1>3, EndAddresses DEF Inv

\* A command stops the VM.
LEMMA StoppingInv ==
  ASSUME Inv, NEW p \in Procs, Stopping(p)
  PROVE  BootsOK' /\ Sessions' /\ AddressesOK'
<1> USE DEF Inv
<1>1. CASE StopScan(p) \/ StopClear(p) \/ (Leave(p) /\ Stop(p))
  BY <1>1, OtherSideways, SidewaysKeeps DEF AddressesOK
<1>2. CASE ~Leave(p) /\ Stop(p)
  <2>1. /\ GuestEnds(TRUE) \/ GuestEnds(FALSE)
        /\ Goto(p, "stop-clear") /\ UNCHANGED <<booted, socket, sshPort>>
        /\ faults' \in {faults, faults + 1}
    BY <1>2 DEF Stop, FlushAndQuit, Kill, Fault, Proceed, runtime
  <2>2. /\ proc'[p].at = "stop-clear" /\ proc'[p].vm = proc[p].vm
        /\ \A q \in Procs \ {p} : proc'[q] = proc[q]
    BY <2>1, Forms DEF Steps
  <2>3. QED
    BY <2>1, <2>2, GuestEndsInv
<1>3. QED
  BY <1>1, <1>2 DEF Stopping

\* A stopped project satisfies all of it, ...
LEMMA InvInit == Init => Inv
<1> SUFFICES ASSUME Init PROVE Inv
  OBVIOUS
<1>1. TypeInv
  BY TypeInit
<1>2. /\ alive = {} /\ booted = 0 /\ socket = 0 /\ sshPort = 0 /\ synced = 0
      /\ \A p \in Procs : proc[p].at = "idle" /\ proc[p].vm = 0
      /\ \A s \in Scripts : ~Sent(s)
      /\ rootWork = FALSE /\ allowAll = {}
  BY DEF Init, Ended, NoScript, NoVM, Sent
<1>3. BootsOK
  BY <1>2 DEF BootsOK, Numbered, NewVM, At
<1>4. Sessions
  BY <1>2 DEF Sessions, SessionSteps, RootWorkIsMarked, At
<1>5. AddressesOK
  BY <1>2 DEF AddressesOK, ScriptsFit, OrphansFit, RecordsFit, OnRecord, AppliedIsTrue, Synced,
              Running, Sent, Scripts, At
<1>6. QED
  BY <1>1, <1>3, <1>4, <1>5 DEF Inv

\* ... and every step of every command, and of the guest, keeps it.
LEMMA InvStep == Inv /\ [Next]_vars => Inv'
<1> SUFFICES ASSUME Inv, [Next]_vars PROVE Inv'
  OBVIOUS
<1>1. TypeInv'
  BY TypeStep DEF Inv
<1>2. CASE UNCHANGED vars
  <2>1. /\ UNCHANGED <<proc, saved, alive, rules, leftover, flows, histories, socket, sshPort>>
        /\ UNCHANGED <<applied, attempted, script, allowAll, expired, dirty, rootWork, booted>>
        /\ faults' = faults
    BY <1>2 DEF vars, runtime, guest, rootState, bounds
  <2>2. BootsOK' /\ Sessions'
    BY <2>1, BootsKept, SessionsKept DEF Inv, histories
  <2>3. AddressesOK'
    <3>1. CASE Procs = {}
      BY <2>1, <3>1
      DEF Inv, AddressesOK, ScriptsFit, OrphansFit, OrphanFits, RecordsFit, OnRecord, AppliedIsTrue,
          Synced, Running, Sent, Listed, histories
    <3>2. CASE Procs # {}
      BY <2>1, <3>2, AddressesKept DEF Inv, ScriptMove
    <3>3. QED
      BY <3>1, <3>2
  <2>4. QED
    BY <1>1, <2>2, <2>3 DEF Inv
<1>3. CASE VMEnds
  <2>1. /\ GuestEnds(FALSE) /\ UNCHANGED <<proc, sshPort, booted>> /\ socket' \in {socket, NoVM}
        /\ faults' = faults + 1
    BY <1>3 DEF VMEnds, Fault
  <2>2. QED
    BY <1>1, <2>1, GuestEndsInv DEF Inv
<1>4. CASE Connect
  <2>1. /\ UNCHANGED <<proc, alive, booted, socket, sshPort, synced, allowAll, expired, dirty>>
        /\ UNCHANGED <<rootWork, faults>>
    BY <1>4 DEF Connect, runtime, histories, rootState, bounds
  <2>2. BootsOK' /\ Sessions'
    BY <2>1, BootsKept, SessionsKept DEF Inv
  <2>3. QED
    BY <1>1, <1>4, <2>2, ConnectAddresses DEF Inv
<1>5. ASSUME NEW p \in Procs, Start(p) \/ Crash(p) PROVE Inv'
  BY <1>1, <1>5, OtherSideways, SidewaysKeeps DEF Inv, AddressesOK
<1>6. ASSUME NEW p \in Procs, Booting(p) \/ Syncing(p) \/ Entering(p) \/ Stopping(p)
      PROVE  Inv'
  BY <1>1, <1>6, BootingInv, SyncingInv, EnteringInv, StoppingInv DEF Inv
<1>7. ASSUME NEW s \in Scripts, Scripting(s) PROVE Inv'
  BY <1>1, <1>7, ScriptingInv DEF Inv
<1>8. QED
  BY <1>2, <1>3, <1>4, <1>5, <1>6, <1>7 DEF Next

\* The inductive invariant always holds.
LEMMA InvariantHolds == Spec => []Inv
BY InvInit, InvStep, PTL DEF Spec

\* RootWorkIsMarked always holds: markProjectImageDirty comes before the session that needs
\* it, and nothing here takes the marker away.
THEOREM RootWorkAlwaysMarked == Spec => []RootWorkIsMarked
<1>1. Inv => RootWorkIsMarked
  BY DEF Inv, Sessions
<1>2. QED
  BY <1>1, InvariantHolds, PTL

\* RootRulesAreTheirOwn always holds: whatever sessions end and whatever VM is started
\* meanwhile, a root session in its VM has its own rule, or had it until its timer of 31
\* minutes, and without a fault no rule outlives the command that installed it.
THEOREM RootRulesAlwaysTheirOwn == Spec => []RootRulesAreTheirOwn
<1>1. Inv => RootRulesAreTheirOwn
  BY DEF Inv, Sessions, SessionSteps, RootRulesAreTheirOwn, At
<1>2. QED
  BY <1>1, InvariantHolds, PTL

\* GuestIsOnRecord always holds: syncProjectFirewallIPsToVM writes an attempt down before it
\* asks the guest, so that what the guest may reach is on a list a later command reads, also
\* when a fault has left a script in the guest; until such a script changes the rules beside
\* a later sync.
THEOREM GuestAlwaysOnRecord == Spec => []GuestIsOnRecord
<1>1. Inv => GuestIsOnRecord
  BY DEF Inv, AddressesOK, RecordsFit, OnRecord, GuestIsOnRecord
<1>2. QED
  BY <1>1, InvariantHolds, PTL

\* RecordsAreTrue always holds: when project vm exec leaves out a sync because the records
\* say it is not needed, it is not, in a VM that has completed one and in which no script
\* that a fault left behind has changed the rules beside a later sync.
THEOREM RecordsAlwaysTrue == Spec => []RecordsAreTrue
<1>1. Inv => RecordsAreTrue
  BY DEF Inv, AddressesOK, RecordsFit, AppliedIsTrue, RecordsAreTrue, Synced, KnownApplied
<1>2. QED
  BY <1>1, InvariantHolds, PTL
=============================================================================
