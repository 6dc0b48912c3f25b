------------------------ MODULE DomainFirewallProofs ------------------------
(***************************************************************************)
(* Proofs about DomainFirewall for every set of commands and domains, and  *)
(* every bound.                                                            *)
(***************************************************************************)
EXTENDS DomainFirewall, TLAPS

-----------------------------------------------------------------------------
(* Type correctness                                                        *)

Commandings ==
  [op : Commands \cup {None}, domain : Domains \cup {None}, at : Steps,
   project : Lists, globals : Lists, stale : Lists, current : Lists]

\* Steps of the commands that edit the account's list, which take no lock.
Editing == {"idle", "read-list", "truncate", "write"}

\* A command's step is one its operation has, and it has the domain the step needs.
Fit(r) ==
  /\ r.at = "idle" => r = Ended
  /\ r.at # "idle" => r.op \in Commands
  /\ r.at \notin Editing => r.op \notin Edit
  /\ r.at \in {"read-list", "truncate", "write", "setup", "setup-record"} => r.domain \in Domains

ControlOK ==
  /\ proc \in [Procs -> Commandings] /\ \A p \in Procs : Fit(proc[p])
  /\ gate = [p \in Procs |-> GateOf(proc[p].op)]

\* The lists, the guest, what its history explains and the bounds.
WorldOK ==
  /\ globals \in Lists /\ project \in Lists /\ applied \in Lists
  /\ allowed \in Lists /\ disk \in Lists /\ failed \in Lists /\ torn \in Lists
  /\ marker \in Digests \cup {None} /\ vm \in BOOLEAN
  /\ faults \in 0..MaxFaults /\ changes \in 0..MaxChanges

TypeInv == ControlOK /\ WorldOK

\* The strengthened form is about types first of all.
LEMMA TypesFollow == TypeInv => TypeOK
BY DEF TypeInv, TypeOK, ControlOK, WorldOK, Commandings

\* A command takes another step and keeps the gate its operation has.
LEMMA ControlStep ==
  ASSUME ControlOK, NEW p \in Procs, NEW r \in Commandings, Fit(r),
         proc' = [proc EXCEPT ![p] = r],
         gate' = [gate EXCEPT ![p] = GateOf(r.op)]
  PROVE  ControlOK'
<1>1. proc' \in [Procs -> Commandings]
  BY DEF ControlOK
<1>2. \A q \in Procs : proc'[q] = IF q = p THEN r ELSE proc[q]
  BY DEF ControlOK
<1>3. \A q \in Procs : Fit(proc'[q])
  BY <1>2 DEF ControlOK
<1>4. gate' = [q \in Procs |-> GateOf(proc'[q].op)]
  BY <1>2 DEF ControlOK
<1>5. QED
  BY <1>1, <1>3, <1>4 DEF ControlOK, Fit, GateOf

\* A process without a command fits, and holds no gate.
LEMMA EndedFits == Ended \in Commandings /\ Fit(Ended) /\ GateOf(Ended.op) = "none"
BY DEF Ended, Commandings, Fit, Steps, Lists, GateOf, Editing

\* A command that ends gives its gate back (lockFile.Close).
LEMMA LeaveControl ==
  ASSUME ControlOK, NEW p \in Procs, Leave(p)
  PROVE  ControlOK'
BY EndedFits, ControlStep DEF Leave

\* A running command goes on with a step of its own operation.
Leads(p, step) ==
  /\ ~At(p, "idle") /\ step \in Steps \ {"idle"}
  /\ step \notin Editing => proc[p].op \notin Edit
  /\ step \in {"read-list", "truncate", "write", "setup", "setup-record"} =>
       proc[p].domain \in Domains

\* What a command goes on with, whatever it has read in this step, is fit for the step.
LEMMA AdvanceControl ==
  ASSUME ControlOK, NEW p \in Procs, NEW r \in Commandings, Leads(p, r.at),
         r.op = proc[p].op, r.domain = proc[p].domain,
         proc' = [proc EXCEPT ![p] = r], UNCHANGED gate
  PROVE  ControlOK'
<1>1. Fit(r)
  BY DEF ControlOK, Leads, Fit, At
<1>2. gate' = [gate EXCEPT ![p] = GateOf(r.op)]
  BY DEF ControlOK
<1>3. QED
  BY <1>1, <1>2, ControlStep

\* A command that only changes its step.
LEMMA ProceedControl ==
  ASSUME ControlOK, NEW p \in Procs, NEW step, Leads(p, step), Proceed(p, step)
  PROVE  ControlOK'
<1> DEFINE r == [proc[p] EXCEPT !.at = step]
<1>1. r \in Commandings /\ r.at = step /\ r.op = proc[p].op /\ r.domain = proc[p].domain
  BY DEF ControlOK, Commandings, Leads
<1>2. proc' = [proc EXCEPT ![p] = r]
  BY DEF Proceed, Goto, ControlOK
<1> HIDE DEF r
<1>3. QED
  BY <1>1, <1>2, AdvanceControl DEF Proceed

\* A command begins with the step of its kind.
LEMMA StartForm ==
  ASSUME TypeInv, NEW p \in Procs, Start(p)
  PROVE  \E r \in Commandings :
           /\ proc' = [proc EXCEPT ![p] = r] /\ gate' = [gate EXCEPT ![p] = GateOf(r.op)]
           /\ Fit(r) /\ r.at \in {"read-list", "enter", "setup", "stop", "replace"}
           /\ r.op \in Commands /\ (r.at \in Editing <=> r.op \in Edit)
           /\ Granted(p, r.op)
           /\ r.op \in Serial => \A q \in Procs : proc[q].op \notin Serial
<1>1. PICK command \in Operations, domain \in Domains :
        /\ command \in Serial => \A q \in Procs : proc[q].op \notin Serial
        /\ Granted(p, command) /\ gate' = [gate EXCEPT ![p] = GateOf(command)]
        /\ proc' = [proc EXCEPT ![p].op = command,
             ![p].domain = IF command \in Edit \cup {"setup run"} THEN domain ELSE None,
             ![p].at = CASE command \in Edit -> "read-list"
                         [] command \in Boots -> "enter"
                         [] command = "setup run" -> "setup"
                         [] command = "vm stop" -> "stop"
                         [] OTHER -> "replace"]
  BY DEF Start
<1>2. command \in Commands
  BY FirewallAssumption DEF FirewallAssumption
<1>3. PICK given \in Domains \cup {None},
           step \in {"read-list", "enter", "setup", "stop", "replace"} :
        /\ proc' = [proc EXCEPT ![p].op = command, ![p].domain = given, ![p].at = step]
        /\ step = "read-list" <=> command \in Edit
        /\ step \in {"read-list", "setup"} => given \in Domains
  <2>1. CASE command \in Edit
    BY <1>1, <2>1 DEF Boots, Edit
  <2>2. CASE command \in Boots
    BY <1>1, <2>2 DEF Boots, Edit
  <2>3. CASE command = "setup run"
    BY <1>1, <2>3 DEF Boots, Edit
  <2>4. CASE command = "vm stop"
    BY <1>1, <2>4 DEF Boots, Edit
  <2>5. CASE command \notin Edit \cup Boots \cup {"setup run", "vm stop"}
    BY <1>1, <2>5
  <2>6. QED
    BY <2>1, <2>2, <2>3, <2>4, <2>5
<1> DEFINE r == [proc[p] EXCEPT !.op = command, !.domain = given, !.at = step]
<1>4. proc' = [proc EXCEPT ![p] = r]
  BY <1>3 DEF TypeInv, ControlOK
<1>5. r \in Commandings /\ r.op = command /\ r.domain = given /\ r.at = step
  BY <1>2, <1>3 DEF TypeInv, ControlOK, Commandings, Steps
<1> HIDE DEF r
<1>6. Fit(r) /\ (r.at \in Editing <=> r.op \in Edit)
  BY <1>2, <1>3, <1>5 DEF Fit, Editing
<1>7. QED
  BY <1>1, <1>2, <1>3, <1>4, <1>5, <1>6

\* The bounds are numbers, and keep to their limits.
LEMMA Bounds ==
  ASSUME WorldOK
  PROVE  /\ faults \in Nat /\ changes \in Nat
         /\ Fault => faults' \in 0..MaxFaults /\ faults' # faults
         /\ Change => changes' \in 0..MaxChanges
<1>1. MaxFaults \in Nat /\ MaxChanges \in Nat
  BY FirewallAssumption DEF FirewallAssumption
<1>2. QED
  BY <1>1 DEF WorldOK, Fault, Change

\* The start of a command keeps the types.
LEMMA StartTypes == ASSUME TypeInv, NEW p \in Procs, Start(p) PROVE TypeInv'
<1>1. ControlOK'
  BY StartForm, ControlStep DEF TypeInv
<1>2. changes' \in 0..MaxChanges
  <2>1. UNCHANGED changes \/ Change
    BY DEF Start
  <2>2. QED
    BY <2>1, Bounds DEF TypeInv, WorldOK
<1>3. QED
  BY <1>1, <1>2 DEF Start, TypeInv, WorldOK, lists, guest, history

\* Edits of the account's list.
LEMMA EditTypes ==
  ASSUME TypeInv, NEW p \in Procs, ReadGlobal(p) \/ TruncateGlobal(p) \/ WriteGlobal(p)
  PROVE  TypeInv'
<1> USE DEF TypeInv, lists, guest, history
<1>1. proc[p] \in Commandings /\ Fit(proc[p])
  BY DEF ControlOK
<1>2. CASE ReadGlobal(p)
  <2>1. WorldOK'
    BY <1>2 DEF ReadGlobal, WorldOK
  <2>2. CASE Leave(p)
    BY <2>1, <2>2, LeaveControl
  <2>3. CASE ~Leave(p)
    <3> DEFINE l == IF proc[p].op = "global firewall remove" THEN globals \ {proc[p].domain}
                    ELSE globals \cup {proc[p].domain}
    <3>1. proc' = [proc EXCEPT ![p].at = "truncate", ![p].globals = l] /\ UNCHANGED gate
      BY <1>2, <2>3 DEF ReadGlobal
    <3>2. At(p, "read-list") /\ proc[p].domain \in Domains
      BY <1>1, <1>2 DEF ReadGlobal, Fit, At
    <3>3. l \in Lists
      BY <3>2 DEF WorldOK, Lists
    <3> HIDE DEF l
    <3> DEFINE r == [proc[p] EXCEPT !.at = "truncate", !.globals = l]
    <3>4. /\ r \in Commandings /\ r.at = "truncate"
          /\ r.op = proc[p].op /\ r.domain = proc[p].domain
      BY <1>1, <3>3 DEF Commandings, Steps
    <3>5. proc' = [proc EXCEPT ![p] = r]
      BY <3>1 DEF ControlOK
    <3> HIDE DEF r
    <3>6. ControlOK'
      <4>1. Leads(p, "truncate")
        BY <3>2 DEF Leads, At, Steps, Editing
      <4>2. QED
        BY <3>1, <3>4, <3>5, <4>1, AdvanceControl
    <3>7. QED
      BY <2>1, <3>6
  <2>4. QED
    BY <2>2, <2>3
<1>3. CASE TruncateGlobal(p)
  <2>1. Leads(p, "write")
    BY <1>1, <1>3 DEF TruncateGlobal, Fit, At, Leads, Steps, Editing
  <2>2. QED
    BY <1>3, <2>1, ProceedControl DEF TruncateGlobal, WorldOK, Lists
<1>4. CASE WriteGlobal(p)
  BY <1>1, <1>4, LeaveControl DEF WriteGlobal, WorldOK, Commandings
<1>5. QED
  BY <1>2, <1>3, <1>4

\* The steps of a sync.
LEMMA SyncTypes == ASSUME TypeInv, NEW p \in Procs, Syncing(p) PROVE TypeInv'
<1> USE DEF TypeInv, lists, guest, history
<1>1. proc[p] \in Commandings /\ Fit(proc[p])
  BY DEF ControlOK
<1>2. \A step \in Steps \ (Editing \cup {"setup", "setup-record"}) :
        proc[p].at \notin Editing => Leads(p, step)
  BY <1>1 DEF Fit, At, Leads, Editing
<1>3. CASE Enter(p)
  BY <1>2, <1>3, ProceedControl DEF Enter, At, Editing, Steps, WorldOK
<1>4. CASE ReadLists(p)
  <2>1. CASE Leave(p)
    BY <1>4, <2>1, LeaveControl DEF ReadLists, WorldOK
  <2>2. CASE ~Leave(p)
    <3>1. PICK step \in {"script", "append"} :
            proc' = [proc EXCEPT ![p].project = project, ![p].globals = globals,
                                 ![p].stale = StaleEntries, ![p].at = step]
      BY <1>4, <2>2 DEF ReadLists
    <3> DEFINE r == [proc[p] EXCEPT !.project = project, !.globals = globals,
                                    !.stale = StaleEntries, !.at = step]
    <3>2. proc' = [proc EXCEPT ![p] = r]
      BY <3>1 DEF ControlOK
    <3>3. StaleEntries \in Lists
      BY DEF StaleEntries, Lists, WorldOK
    <3>4. r \in Commandings /\ r.at = step /\ r.op = proc[p].op /\ r.domain = proc[p].domain
      BY <1>1, <3>3 DEF Commandings, WorldOK, Steps
    <3> HIDE DEF r
    <3>5. Leads(p, step)
      BY <1>2, <1>4 DEF ReadLists, At, Steps, Editing
    <3>6. UNCHANGED gate /\ WorldOK'
      BY <1>4, <2>2 DEF ReadLists, WorldOK
    <3>7. QED
      BY <3>2, <3>4, <3>5, <3>6, AdvanceControl
  <2>3. QED
    BY <2>1, <2>2
<1>5. CASE ReadProject(p)
  <2> DEFINE r == [proc[p] EXCEPT !.at = "append-write", !.current = project]
  <2>1. proc' = [proc EXCEPT ![p] = r]
    BY <1>5 DEF ReadProject, ControlOK
  <2>2. /\ r \in Commandings /\ r.at = "append-write"
        /\ r.op = proc[p].op /\ r.domain = proc[p].domain
    BY <1>1 DEF Commandings, WorldOK, Steps
  <2> HIDE DEF r
  <2>3. Leads(p, "append-write")
    BY <1>2, <1>5 DEF ReadProject, At, Steps, Editing
  <2>4. QED
    BY <1>5, <2>1, <2>2, <2>3, AdvanceControl DEF ReadProject, WorldOK
<1>6. CASE AppendProject(p)
  <2>1. proc[p].current \cup proc[p].project \in Lists
    BY <1>1 DEF Commandings, Lists
  <2>2. QED
    BY <1>2, <1>6, <2>1, ProceedControl DEF AppendProject, At, Editing, Steps, WorldOK
<1>7. CASE Script(p)
  <2>1. allowed' \in Lists /\ torn' \in Lists
    BY <1>1, <1>7 DEF Script, Commandings, Wanted, Touched, WorldOK, Lists
  <2>2. failed' \in Lists /\ faults' \in 0..MaxFaults
    BY <1>7, Bounds DEF Script, WorldOK
  <2>3. Leave(p) \/ Proceed(p, "stable")
    BY <1>7 DEF Script
  <2>4. ControlOK'
    BY <1>2, <1>7, <2>3, ProceedControl, LeaveControl DEF Script, At, Editing, Steps
  <2>5. QED
    BY <1>7, <2>1, <2>2, <2>4 DEF Script, WorldOK
<1>8. CASE WaitStable(p)
  <2>1. torn' \in Lists
    BY <1>1, <1>8 DEF WaitStable, Commandings, Touched, WorldOK, Lists
  <2>2. failed' \in Lists /\ faults' \in 0..MaxFaults
    BY <1>8, Bounds DEF WaitStable, WorldOK
  <2>3. ControlOK'
    BY <1>2, <1>8, ProceedControl, LeaveControl DEF WaitStable, At, Editing, Steps
  <2>4. QED
    BY <1>8, <2>1, <2>2, <2>3 DEF WaitStable, WorldOK
<1>9. CASE Mark(p)
  <2>1. Digest(p) \in Digests
    BY <1>1 DEF Digest, Digests, Commandings
  <2>2. QED
    BY <1>2, <1>9, <2>1, ProceedControl DEF Mark, At, Editing, Steps, WorldOK
<1>10. CASE Record(p)
  <2>1. proc[p].globals \in Lists /\ Settled(p) \in Lists
    BY <1>1 DEF Settled, Commandings, WorldOK, Lists
  <2>2. QED
    BY <1>10, <2>1, LeaveControl DEF Record, WorldOK
<1>11. QED
  BY <1>3, <1>4, <1>5, <1>6, <1>7, <1>8, <1>9, <1>10 DEF Syncing

\* Setups, the end of the VM and the replacement of its image.
LEMMA OtherTypes ==
  ASSUME TypeInv, NEW p \in Procs,
         RunSetup(p) \/ RecordSetup(p) \/ Stop(p) \/ Replace(p) \/ Crash(p)
  PROVE  TypeInv'
<1> USE DEF TypeInv, lists, guest, history
<1>1. proc[p] \in Commandings /\ Fit(proc[p])
  BY DEF ControlOK
<1>2. CASE RunSetup(p)
  <2>1. proc[p].domain \in Domains /\ Leads(p, "setup-record")
    BY <1>1, <1>2 DEF RunSetup, At, Fit, Leads, Steps, Editing
  <2>2. allowed' \in Lists /\ disk' \in Lists /\ failed' \in Lists
    BY <1>2, <2>1 DEF RunSetup, WorldOK, Lists
  <2>3. ControlOK'
    BY <1>2, <2>1, ProceedControl, LeaveControl DEF RunSetup
  <2>4. QED
    BY <1>2, <2>2, <2>3 DEF RunSetup, WorldOK
<1>3. CASE RecordSetup(p)
  <2>1. proc[p].domain \in Domains
    BY <1>1, <1>3 DEF RecordSetup, At, Fit
  <2>2. project' \in Lists
    BY <1>3, <2>1 DEF RecordSetup, WorldOK, Lists
  <2>3. QED
    BY <1>3, <2>2, LeaveControl DEF RecordSetup, WorldOK
<1>4. CASE Stop(p)
  BY <1>4, LeaveControl DEF Stop, WorldOK
<1>5. CASE Replace(p)
  <2>1. /\ project' \in Lists /\ allowed' \in Lists /\ disk' \in Lists
        /\ failed' \in Lists /\ torn' \in Lists
    BY <1>5 DEF Replace, WorldOK, Lists
  <2>2. QED
    BY <1>5, <2>1, LeaveControl DEF Replace, WorldOK
<1>6. CASE Crash(p)
  <2>1. At(p, "setup-record") => proc[p].domain \in Domains
    BY <1>1 DEF At, Fit
  <2>2. torn' \in Lists /\ failed' \in Lists
    BY <1>1, <1>6, <2>1 DEF Crash, Touched, Commandings, WorldOK, Lists
  <2>3. faults' \in 0..MaxFaults
    BY <1>6, Bounds DEF Crash
  <2>4. QED
    BY <1>6, <2>2, <2>3, LeaveControl DEF Crash, WorldOK
<1>7. QED
  BY <1>2, <1>3, <1>4, <1>5, <1>6

\* What happens to the VM by itself.
LEMMA GuestTypes == ASSUME TypeInv, GuestFlushes \/ VMEnds PROVE TypeInv'
<1>1. ControlOK'
  BY DEF GuestFlushes, VMEnds, TypeInv, ControlOK, Fit
<1>2. torn' \in Lists /\ allowed' \in Lists /\ disk' \in Lists /\ faults' \in 0..MaxFaults
  BY Bounds DEF GuestFlushes, VMEnds, TypeInv, WorldOK, history, Lists
<1>3. QED
  BY <1>1, <1>2 DEF GuestFlushes, VMEnds, TypeInv, WorldOK, lists, guest, history

\* Every step keeps the types.
LEMMA TypeStep == TypeInv /\ [Next]_vars => TypeInv'
<1> SUFFICES ASSUME TypeInv, [Next]_vars PROVE TypeInv'
  OBVIOUS
<1>1. CASE UNCHANGED vars
  BY <1>1 DEF vars, lists, guest, history, TypeInv, ControlOK, WorldOK, Fit
<1>2. ASSUME NEW p \in Procs, Command(p) \/ Crash(p) PROVE TypeInv'
  BY <1>2, StartTypes, EditTypes, SyncTypes, OtherTypes DEF Command
<1>3. QED
  BY <1>1, <1>2, GuestTypes DEF Next

\* The types hold at first.
LEMMA TypeInit == Init => TypeInv
<1> SUFFICES ASSUME Init PROVE TypeInv
  OBVIOUS
<1>1. ControlOK
  BY EndedFits DEF Init, ControlOK
<1>2. MaxFaults \in Nat /\ MaxChanges \in Nat
  BY FirewallAssumption DEF FirewallAssumption
<1>3. WorldOK
  <2>1. faults \in 0..MaxFaults /\ changes \in 0..MaxChanges
    BY <1>2 DEF Init
  <2>2. {} \in Lists
    BY DEF Lists
  <2>3. QED
    BY <2>1, <2>2 DEF Init, WorldOK
<1>4. QED
  BY <1>1, <1>3 DEF TypeInv

\* TypeOK always holds: in particular a command holds the gate its operation has, from its
\* start to its end, and the guest's list, the records and the histories are lists.
THEOREM TypeCorrect == Spec => []TypeOK
<1>1. Spec => []TypeInv
  BY TypeInit, TypeStep, PTL DEF Spec
<1>2. QED
  BY <1>1, TypesFollow, PTL

-----------------------------------------------------------------------------
(* What the guest allows.  The commands that sync, set up, stop or replace  *)
(* exclude each other: by the project gate, and because the user runs one   *)
(* command that syncs at a time.  Between its steps, a sync is disturbed    *)
(* only by edits of the account's list and by the end of the VM.            *)

\* The user runs one sync or setup at a time.
SyncsAreSerial == Boots \cup {"setup run"} \subseteq Serial

\* A command that reads or changes what the guest, its image or its records say.
Working(p) == proc[p].at \notin Editing

\* At most one such command runs.
Alone == \A p, q \in Procs : Working(p) /\ Working(q) => p = q

\* The two halves of a sync: the lists are read, and the guest has them.
HasRead(p) == proc[p].at \in {"append", "append-write", "script", "stable", "mark", "record"}
HasGiven(p) == proc[p].at \in {"stable", "mark", "record"}

\* What a sync has read of the project is still so; the account's list may have been edited.
ReadKept(p) ==
  /\ proc[p].project = project
  /\ proc[p].stale = applied \ (project \cup proc[p].globals)
  /\ At(p, "append-write") => proc[p].current = project
  /\ At(p, "record") => marker = Digest(p)

ReadIsKept == \A p \in Procs : HasRead(p) => ReadKept(p)

\* What a sync has given to the guest is there, unless the VM has ended since.
GivenThere(p) ==
  /\ allowed \subseteq project \cup proc[p].globals \cup failed \cup torn
  /\ Wanted(p) \ torn \subseteq allowed
  /\ vm => Wanted(p) \subseteq allowed /\ allowed \cap proc[p].stale = {}

GivenIsThere == \A p \in Procs : HasGiven(p) => GivenThere(p)

\* While no sync has given its lists, the guest allows what is on record.
RestIsOnRecord ==
  (\A p \in Procs : ~HasGiven(p)) =>
    \A d \in allowed :
      \/ d \in project \cup applied \cup failed \cup torn
      \/ \E p \in Procs : At(p, "setup-record") /\ proc[p].domain = d

\* The boot that the marker is about has not given way to another.
InBoot == vm \/ \E p \in Procs : HasRead(p) \/ At(p, "read")

TakesOff(p, d) == proc[p].at \in {"stable", "mark"} /\ d \in proc[p].stale

\* What the marker says was synced in this boot is there, but for what a sync takes off.
MarkerIsTrue ==
  marker # None /\ InBoot =>
    \A d \in marker.project \cup marker.globals :
      d \in allowed \cup torn \/ \E p \in Procs : TakesOff(p, d)

Truths == ReadIsKept /\ GivenIsThere /\ RestIsOnRecord /\ MarkerIsTrue

\* Without a fault the VM runs on under a sync, and no sync is cut.
InSync(p) == HasRead(p) \/ At(p, "read")
NothingCut == faults = 0 => torn = {} /\ \A p \in Procs : InSync(p) => vm
Inv == TypeInv /\ Alone /\ Truths

\* The entries that EntriesAreOnRecord says the guest may allow.
OnRecord ==
  project \cup applied \cup failed \cup torn
    \cup (UNION {proc[p].globals :
                  p \in {q \in Procs : proc[q].at \in {"stable", "mark", "record"}}})
    \cup {proc[p].domain : p \in {q \in Procs : At(q, "setup-record")}}

\* A guest's list is on record whether or not a sync has given its lists.
LEMMA RecordsFollow == ASSUME Inv PROVE allowed \subseteq OnRecord
<1>1. CASE \E p \in Procs : HasGiven(p)
  BY <1>1 DEF Inv, Truths, GivenIsThere, GivenThere, HasGiven, OnRecord
<1>2. CASE \A p \in Procs : ~HasGiven(p)
  <2>1. ASSUME NEW d \in allowed, d \notin project \cup applied \cup failed \cup torn
        PROVE  d \in {proc[p].domain : p \in {q \in Procs : At(q, "setup-record")}}
    BY <1>2, <2>1 DEF Inv, Truths, RestIsOnRecord
  <2> DEFINE given == UNION {proc[p].globals :
                              p \in {q \in Procs : proc[q].at \in {"stable", "mark", "record"}}}
             setUp == {proc[p].domain : p \in {q \in Procs : At(q, "setup-record")}}
  <2>2. OnRecord = project \cup applied \cup failed \cup torn \cup given \cup setUp
    BY DEF OnRecord
  <2>3. \A d \in allowed : d \in project \cup applied \cup failed \cup torn \cup setUp
    BY <2>1
  <2> HIDE DEF given, setUp
  <2>4. QED
    BY <2>2, <2>3
<1>3. QED
  BY <1>1, <1>2

\* A step by a command that goes on, ends, or starts none of the working kind keeps the
\* others out.
LEMMA StaysAlone ==
  ASSUME Alone, TypeInv, NEW p \in Procs,
         proc' \in [Procs -> Commandings], \A q \in Procs \ {p} : proc'[q] = proc[q],
         Working(p) \/ ~Working(p)'
  PROVE  Alone'
BY DEF Alone, Working

\* A command of the working kind starts only when no other runs.
LEMMA StartAlone ==
  ASSUME SyncsAreSerial, Alone, TypeInv, NEW p \in Procs, Start(p)
  PROVE  /\ Alone'
         /\ Working(p)' => \A q \in Procs : ~Working(q)
<1>1. PICK r \in Commandings :
        /\ proc' = [proc EXCEPT ![p] = r] /\ r.op \in Commands
        /\ r.at \in Editing <=> r.op \in Edit
        /\ Granted(p, r.op)
        /\ r.op \in Serial => \A q \in Procs : proc[q].op \notin Serial
  BY StartForm
<1>2. proc'[p] = r /\ \A q \in Procs \ {p} : proc'[q] = proc[q]
  BY <1>1 DEF TypeInv, ControlOK
<1>3. ~Working(p)
  BY DEF Start, At, Working, Editing
<1>4. ASSUME Working(p)', NEW q \in Procs, Working(q) PROVE FALSE
  <2>1. r.op \in Commands \ Edit
    BY <1>1, <1>2, <1>4 DEF Working
  <2>2. proc[q].op \in Commands \ Edit /\ gate[q] = GateOf(proc[q].op) /\ q # p
    BY <1>3, <1>4 DEF TypeInv, ControlOK, Fit, Working, Editing
  <2>3. gate[q] # "none"
    BY <2>2, FirewallAssumption DEF GateOf, FirewallAssumption
  <2>4. r.op \notin Exclusive /\ gate[q] # "exclusive"
    BY <1>1, <2>1, <2>2, <2>3 DEF Granted
  <2>5. proc[q].op \notin Exclusive
    BY <2>2, <2>4, FirewallAssumption DEF GateOf, FirewallAssumption
  <2>6. r.op \in Serial /\ proc[q].op \in Serial
    BY <2>1, <2>2, <2>4, <2>5 DEF SyncsAreSerial, Boots, Commands, Exclusive
  <2>7. QED
    BY <1>1, <2>6
<1>5. QED
  BY <1>2, <1>3, <1>4 DEF Alone, Working

\* What the truths depend on but for the commands.
about == <<project, applied, marker, vm, allowed, failed, torn>>

\* Steps that leave the guest and its records alone, of commands that are not working.
LEMMA QuietStep ==
  ASSUME Truths, UNCHANGED about,
         \A q \in Procs :
           \/ proc'[q] = proc[q]
           \/ ~Working(q) /\ proc'[q].at \in Editing \cup {"enter", "setup", "stop", "replace"}
  PROVE  Truths'
<1>1. \A q \in Procs : HasRead(q)' \/ HasGiven(q)' \/ (proc'[q].at \in {"read", "setup-record"})
                          => proc'[q] = proc[q]
  BY DEF HasRead, HasGiven, Editing
<1>2. \A q \in Procs : HasRead(q) \/ HasGiven(q) \/ (proc[q].at \in {"read", "setup-record"})
                          => proc'[q] = proc[q]
  BY DEF HasRead, HasGiven, Editing, Working
<1>3. ReadIsKept'
  BY <1>1 DEF Truths, ReadIsKept, ReadKept, about, HasRead, At, Digest
<1>4. GivenIsThere'
  BY <1>1 DEF Truths, GivenIsThere, GivenThere, about, HasGiven, Wanted
<1>5. RestIsOnRecord'
  BY <1>1, <1>2 DEF Truths, RestIsOnRecord, about, HasGiven, At
<1>6. MarkerIsTrue'
  BY <1>1, <1>2 DEF Truths, MarkerIsTrue, TakesOff, InBoot, about, HasGiven, HasRead, At
<1>7. QED
  BY <1>3, <1>4, <1>5, <1>6 DEF Truths

\* The truths as they are about the one command that is working.
Sole(p) ==
  /\ HasRead(p) => ReadKept(p)
  /\ HasGiven(p) => GivenThere(p)
  /\ ~HasGiven(p) => \A d \in allowed :
                       \/ d \in project \cup applied \cup failed \cup torn
                       \/ At(p, "setup-record") /\ proc[p].domain = d
  /\ marker # None /\ (vm \/ HasRead(p) \/ At(p, "read")) =>
       \A d \in marker.project \cup marker.globals :
         d \in allowed \cup torn \/ TakesOff(p, d)

\* Only the working command makes the truths differ from those of a project at rest.
LEMMA SoleFacts == ASSUME Inv, NEW p \in Procs, Working(p) PROVE Sole(p)
<1>1. \A q \in Procs :
        HasRead(q) \/ HasGiven(q) \/ (proc[q].at \in {"read", "setup-record"}) => q = p
  BY DEF Inv, Alone, Working, HasRead, HasGiven, Editing
<1>2. QED
  BY <1>1 DEF Inv, Truths, ReadIsKept, GivenIsThere, RestIsOnRecord, MarkerIsTrue, InBoot, Sole,
              HasRead, HasGiven, TakesOff, At

\* And so it is with the step it takes.
LEMMA SoleTruths ==
  ASSUME Inv, NEW p \in Procs, Working(p), \A q \in Procs \ {p} : proc'[q] = proc[q], Sole(p)'
  PROVE  Truths'
<1>1. \A q \in Procs :
        (HasRead(q) \/ HasGiven(q) \/ (proc[q].at \in {"read", "setup-record"}))' => q = p
  BY DEF Inv, Alone, Working, HasRead, HasGiven, Editing
<1>2. QED
  BY <1>1 DEF Truths, ReadIsKept, GivenIsThere, RestIsOnRecord, MarkerIsTrue, InBoot, Sole,
              HasRead, HasGiven, TakesOff, At

\* What a step of its own leaves of a command.
LEMMA Moves ==
  ASSUME TypeInv, NEW p \in Procs, NEW step, Proceed(p, step)
  PROVE  proc'[p] = [proc[p] EXCEPT !.at = step] /\ \A q \in Procs \ {p} : proc'[q] = proc[q]
BY DEF TypeInv, ControlOK, Proceed, Goto

\* What its end leaves.
LEMMA Leaves ==
  ASSUME TypeInv, NEW p \in Procs, Leave(p)
  PROVE  proc'[p] = Ended /\ \A q \in Procs \ {p} : proc'[q] = proc[q]
BY DEF TypeInv, ControlOK, Leave

\* The end of a command leaves a project at rest.
LEMMA EndedSole ==
  ASSUME NEW p \in Procs, proc'[p] = Ended,
         allowed' \subseteq project' \cup applied' \cup failed' \cup torn',
         marker' # None /\ vm' =>
           \A d \in marker'.project \cup marker'.globals : d \in allowed' \cup torn'
  PROVE  Sole(p)'
BY DEF Sole, Ended, HasRead, HasGiven, At

\* A step of a sync keeps the truths.
LEMMA SyncSole == ASSUME Inv, NEW p \in Procs, Working(p), Syncing(p), TypeInv' PROVE Sole(p)'
<1>0. Sole(p) /\ TypeInv /\ proc[p] \in Commandings /\ proc'[p] \in Commandings
  BY SoleFacts DEF Inv, TypeInv, ControlOK
<1> USE DEF lists, guest, history, HasRead, HasGiven, At
<1>1. CASE Enter(p)
  <2>1. proc'[p] = [proc[p] EXCEPT !.at = "read"]
    BY <1>0, <1>1, Moves DEF Enter
  <2>2. QED
    BY <1>0, <1>1, <2>1 DEF Enter, Sole, TakesOff, Commandings
<1>2. CASE ReadLists(p)
  <2>1. CASE Leave(p)
    BY <1>0, <1>2, <2>1, Leaves, EndedSole DEF ReadLists, Sole, TakesOff
  <2>2. CASE ~Leave(p)
    <3>1. /\ proc'[p].at \in {"script", "append"}
          /\ proc'[p].project = project /\ proc'[p].globals = globals
          /\ proc'[p].stale = StaleEntries
      BY <1>0, <1>2, <2>2 DEF ReadLists, TypeInv, ControlOK, Commandings
    <3>2. QED
      BY <1>0, <1>2, <2>2, <3>1 DEF ReadLists, Sole, TakesOff, ReadKept, StaleEntries
  <2>3. QED
    BY <2>1, <2>2
<1>3. CASE ReadProject(p)
  <2>1. /\ proc'[p].at = "append-write" /\ proc'[p].current = project
        /\ proc'[p].project = proc[p].project /\ proc'[p].globals = proc[p].globals
        /\ proc'[p].stale = proc[p].stale
    BY <1>0, <1>3 DEF ReadProject, TypeInv, ControlOK, Commandings
  <2>2. QED
    BY <1>0, <1>3, <2>1 DEF ReadProject, Sole, TakesOff, ReadKept, Commandings
<1>4. CASE AppendProject(p)
  <2>1. proc'[p] = [proc[p] EXCEPT !.at = "script"]
    BY <1>0, <1>4, Moves DEF AppendProject
  <2>2. project' = project
    BY <1>0, <1>4 DEF AppendProject, Sole, ReadKept
  <2>3. QED
    BY <1>0, <1>4, <2>1, <2>2 DEF AppendProject, Sole, TakesOff, ReadKept, Commandings
<1>5. CASE Script(p)
  <2>0. ReadKept(p)
    BY <1>0, <1>5 DEF Script, Sole
  <2>1. CASE Proceed(p, "stable") /\ vm /\ allowed' = (allowed \ proc[p].stale) \cup Wanted(p)
    <3>1. proc'[p] = [proc[p] EXCEPT !.at = "stable"]
      BY <1>0, <2>1, Moves
    <3>2. QED
      BY <1>0, <1>5, <2>0, <2>1, <3>1
       DEF Script, Sole, TakesOff, ReadKept, GivenThere, Wanted, Commandings
  <2>2. CASE Leave(p)
    <3>1. proc'[p] = Ended
      BY <1>0, <2>2, Leaves
    <3>2. UNCHANGED lists /\ allowed \subseteq project \cup applied \cup failed \cup torn
      BY <1>0, <1>5 DEF Script, Sole
    <3>3. ~Proceed(p, "stable")
      <4>1. proc'[p].at = "idle"
        BY <3>1 DEF Ended
      <4>2. Proceed(p, "stable") => proc'[p] = [proc[p] EXCEPT !.at = "stable"]
        BY <1>0, Moves
      <4>3. QED
        BY <1>0, <4>1, <4>2 DEF Commandings
    <3>4. CASE ~vm
      <4>1. UNCHANGED <<allowed, vm, history>>
        BY <1>5, <3>4 DEF Script
      <4>2. QED
        BY <3>1, <3>2, <3>4, <4>1, EndedSole
    <3>5. CASE vm
      <4>1. /\ torn' = torn \cup Touched(p) /\ UNCHANGED <<vm, failed>>
            /\ \/ UNCHANGED allowed
               \/ \E added \in SUBSET Wanted(p) : allowed' = (allowed \ proc[p].stale) \cup added
        BY <1>5, <3>3, <3>5 DEF Script
      <4>2. allowed' \subseteq project \cup applied \cup failed \cup torn'
        BY <2>0, <3>2, <4>1 DEF ReadKept, Touched, Wanted
      <4>3. marker # None =>
              \A d \in marker.project \cup marker.globals : d \in allowed' \cup torn'
        BY <1>0, <1>5, <3>5, <4>1 DEF Script, Sole, TakesOff, Touched
      <4>4. QED
        BY <3>1, <3>2, <4>1, <4>2, <4>3, EndedSole
    <3>6. QED
      BY <3>4, <3>5
  <2>3. QED
    BY <1>5, <2>1, <2>2 DEF Script
<1>6. CASE WaitStable(p)
  <2>0. ReadKept(p) /\ GivenThere(p)
    BY <1>0, <1>6 DEF WaitStable, Sole
  <2>1. CASE Proceed(p, "mark")
    <3>1. proc'[p] = [proc[p] EXCEPT !.at = "mark"]
      BY <1>0, <2>1, Moves
    <3>2. QED
      BY <1>0, <1>6, <2>0, <2>1, <3>1
       DEF WaitStable, Sole, TakesOff, ReadKept, GivenThere, Wanted, Commandings
  <2>2. CASE Leave(p)
    <3>1. proc'[p] = Ended /\ proc'[p].at # "mark"
      BY <1>0, <2>2, Leaves DEF Ended
    <3>2. torn' = torn \cup Touched(p) /\ UNCHANGED <<lists, guest, failed>>
      <4>1. ~Proceed(p, "mark")
        <5>1. Proceed(p, "mark") => proc'[p] = [proc[p] EXCEPT !.at = "mark"]
          BY <1>0, Moves
        <5>2. QED
          BY <1>0, <3>1, <5>1 DEF Commandings
      <4>2. QED
        BY <1>6, <4>1 DEF WaitStable
    <3>3. QED
      BY <1>0, <1>6, <2>0, <3>1, <3>2, EndedSole
      
       DEF WaitStable, Sole, TakesOff, ReadKept, GivenThere, Touched
  <2>3. QED
    BY <1>6, <2>1, <2>2 DEF WaitStable
<1>7. CASE Mark(p)
  <2>1. proc'[p] = [proc[p] EXCEPT !.at = "record"]
    BY <1>0, <1>7, Moves DEF Mark
  <2>2. QED
    BY <1>0, <1>7, <2>1 DEF Mark, Sole, TakesOff, ReadKept, GivenThere, Wanted, Digest, Commandings
<1>8. CASE Record(p)
  <2>0. ReadKept(p) /\ GivenThere(p) /\ proc'[p] = Ended
    BY <1>0, <1>8, Leaves DEF Record, Sole
  <2>1. allowed \subseteq project \cup proc[p].globals \cup failed \cup torn'
    BY <1>8, <2>0 DEF Record, GivenThere, Settled, Wanted, ReadKept
  <2>2. marker.project = project /\ marker.globals = proc[p].globals
    BY <1>8, <2>0 DEF Record, ReadKept, Digest
  <2>3. Wanted(p) \subseteq allowed \cup torn'
    BY <1>8, <2>0 DEF Record, GivenThere, Settled
  <2>4. QED
    BY <1>8, <2>0, <2>1, <2>2, <2>3, EndedSole DEF Record, Wanted, ReadKept
<1>9. QED
  BY <1>1, <1>2, <1>3, <1>4, <1>5, <1>6, <1>7, <1>8 DEF Syncing

\* A setup, a stop or a replacement keeps the truths.
LEMMA OtherSole ==
  ASSUME Inv, NEW p \in Procs, Working(p),
         RunSetup(p) \/ RecordSetup(p) \/ Stop(p) \/ Replace(p) \/ Crash(p)
  PROVE  Sole(p)'
<1>0. Sole(p) /\ TypeInv /\ proc[p] \in Commandings
  BY SoleFacts DEF Inv, TypeInv, ControlOK
<1> USE DEF lists, guest, history, HasRead, HasGiven, At
<1>1. CASE RunSetup(p)
  <2>1. CASE Proceed(p, "setup-record") /\ UNCHANGED failed
    <3>1. proc'[p] = [proc[p] EXCEPT !.at = "setup-record"]
      BY <1>0, <2>1, Moves
    <3>2. QED
      BY <1>0, <1>1, <2>1, <3>1 DEF RunSetup, Sole, TakesOff, Commandings
  <2>2. CASE Leave(p) /\ failed' = failed \cup {proc[p].domain}
    BY <1>0, <1>1, <2>2, Leaves, EndedSole DEF RunSetup, Sole, TakesOff
  <2>3. QED
    BY <1>1, <2>1, <2>2 DEF RunSetup
<1>2. CASE RecordSetup(p)
  BY <1>0, <1>2, Leaves, EndedSole DEF RecordSetup, Sole, TakesOff
<1>3. CASE Stop(p)
  BY <1>0, <1>3, Leaves, EndedSole DEF Stop, Sole, TakesOff
<1>4. CASE Replace(p)
  BY <1>0, <1>4, Leaves, EndedSole DEF Replace, Sole, TakesOff
<1>5. CASE Crash(p)
  <2>1. proc'[p] = Ended /\ UNCHANGED <<lists, guest>>
    BY <1>0, <1>5, Leaves DEF Crash
  <2>2. CASE HasGiven(p)
    <3>1. torn' = torn \cup Touched(p) /\ failed' = failed
      BY <1>5, <2>2 DEF Crash
    <3>2. ReadKept(p) /\ GivenThere(p)
      BY <1>0, <2>2 DEF Sole
    <3>3. QED
      BY <1>0, <2>1, <2>2, <3>1, <3>2, EndedSole DEF Sole, TakesOff, ReadKept, GivenThere, Touched
  <2>3. CASE ~HasGiven(p)
    <3>1. torn' = torn
      BY <1>5, <2>3 DEF Crash
    <3>2. failed \subseteq failed' /\ (At(p, "setup-record") => proc[p].domain \in failed')
      BY <1>5 DEF Crash
    <3>3. QED
      BY <1>0, <2>1, <2>3, <3>1, <3>2, EndedSole DEF Sole, TakesOff
  <2>4. QED
    BY <2>2, <2>3
<1>6. QED
  BY <1>1, <1>2, <1>3, <1>4, <1>5

\* The VM ends: what the guest had and its image has not, and the other way round, is in doubt.
LEMMA EndTruths == ASSUME Inv, VMEnds PROVE Truths'
<1>1. /\ vm /\ ~vm' /\ allowed' = disk
      /\ torn' = torn \cup (allowed \ disk) \cup (disk \ allowed)
      /\ UNCHANGED <<proc, globals, project, applied, marker, failed>>
  BY DEF VMEnds, lists
<1> USE DEF Inv, Truths, HasRead, HasGiven, At
<1>2. ReadIsKept'
  BY <1>1 DEF ReadIsKept, ReadKept, Digest
<1>3. GivenIsThere'
  BY <1>1 DEF GivenIsThere, GivenThere, Wanted
<1>4. RestIsOnRecord'
  BY <1>1 DEF RestIsOnRecord
<1>5. MarkerIsTrue'
  BY <1>1 DEF MarkerIsTrue, InBoot, TakesOff
<1>6. QED
  BY <1>2, <1>3, <1>4, <1>5

\* Every step keeps the invariant.
LEMMA InvStep == ASSUME SyncsAreSerial, Inv, [Next]_vars PROVE Inv'
<1>0. TypeInv' /\ TypeInv /\ Alone /\ Truths
  BY TypeStep DEF Inv
<1>1. CASE UNCHANGED vars
  BY <1>0, <1>1, QuietStep DEF vars, lists, guest, history, about, Alone, Working, Inv
<1>2. CASE GuestFlushes
  BY <1>0, <1>2, QuietStep DEF GuestFlushes, lists, history, about, Alone, Working, Inv
<1>3. CASE VMEnds
  BY <1>0, <1>3, EndTruths DEF VMEnds, Alone, Working, Inv
<1>4. ASSUME NEW p \in Procs, Start(p) PROVE Inv'
  <2>1. /\ \A q \in Procs \ {p} : proc'[q] = proc[q]
        /\ proc'[p].at \in {"read-list", "enter", "setup", "stop", "replace"}
    BY <1>0, <1>4, StartForm DEF TypeInv, ControlOK
  <2>2. ~Working(p) /\ UNCHANGED about
    BY <1>4 DEF Start, At, Working, Editing, lists, guest, history, about
  <2>3. Truths'
    BY <1>0, <2>1, <2>2, QuietStep DEF Editing
  <2>4. QED
    BY <1>0, <1>4, <2>3, StartAlone DEF Inv
<1>5. ASSUME NEW p \in Procs, ReadGlobal(p) \/ TruncateGlobal(p) \/ WriteGlobal(p) PROVE Inv'
  <2>1. /\ \A q \in Procs \ {p} : proc'[q] = proc[q]
        /\ ~Working(p) /\ proc'[p].at \in Editing /\ UNCHANGED about
    <3>1. CASE Leave(p) /\ ~TruncateGlobal(p)
      <4>1. proc'[p].at = "idle" /\ \A q \in Procs \ {p} : proc'[q] = proc[q]
        BY <1>0, <3>1, Leaves DEF Ended
      <4>2. QED
        BY <1>5, <3>1, <4>1 DEF ReadGlobal, WriteGlobal, At, Working, Editing, lists, guest,
                                history, about
    <3>2. CASE ReadGlobal(p) /\ ~Leave(p)
      BY <1>0, <3>2 DEF TypeInv, ControlOK, Commandings, ReadGlobal, At, Working, Editing, lists,
                        guest, history, about
    <3>3. CASE TruncateGlobal(p)
      BY <1>0, <3>3, Moves DEF TypeInv, ControlOK, Commandings, TruncateGlobal, At, Working,
                               Editing, guest, history, about
    <3>4. QED
      BY <1>5, <3>1, <3>2, <3>3 DEF WriteGlobal
  <2>2. Alone'
    BY <1>0, <2>1, StaysAlone DEF TypeInv, ControlOK, Working
  <2>3. Truths'
    BY <1>0, <2>1, QuietStep
  <2>4. QED
    BY <1>0, <2>2, <2>3 DEF Inv
<1>6. ASSUME NEW p \in Procs, ~Working(p), Crash(p) PROVE Inv'
  <2>1. proc'[p] = Ended /\ \A q \in Procs \ {p} : proc'[q] = proc[q]
    BY <1>0, <1>6, Leaves DEF Crash
  <2>2. UNCHANGED about
    BY <1>6 DEF Crash, Working, Editing, At, lists, guest, about
  <2>3. ~Working(p)' /\ proc'[p].at \in Editing
    BY <2>1 DEF Working, Editing, Ended
  <2>4. Alone'
    BY <1>0, <2>1, <2>3, StaysAlone DEF TypeInv, ControlOK
  <2>5. Truths'
    BY <1>0, <1>6, <2>1, <2>2, <2>3, QuietStep
  <2>6. QED
    BY <1>0, <2>4, <2>5 DEF Inv
<1>7. ASSUME NEW p \in Procs,
             Syncing(p) \/ RunSetup(p) \/ RecordSetup(p) \/ Stop(p) \/ Replace(p)
               \/ (Working(p) /\ Crash(p))
      PROVE  Inv'
  <2>1. Working(p)
    BY <1>7 DEF Syncing, Enter, ReadLists, ReadProject, AppendProject, Script, WaitStable, Mark,
                Record, RunSetup, RecordSetup, Stop, Replace, At, Working, Editing
  <2>2. \A q \in Procs \ {p} : proc'[q] = proc[q]
    <3>1. CASE Leave(p) \/ \E step \in Steps : Proceed(p, step)
      BY <1>0, <3>1, Moves, Leaves
    <3>2. CASE (ReadLists(p) /\ ~Leave(p)) \/ ReadProject(p)
      BY <1>0, <3>2 DEF ReadLists, ReadProject, TypeInv, ControlOK
    <3>3. QED
      BY <1>7, <3>1, <3>2 DEF Syncing, Enter, AppendProject, Script, WaitStable, Mark, Record,
                              RunSetup, RecordSetup, Stop, Replace, Crash, Steps
  <2>3. Sole(p)'
    BY <1>0, <1>7, <2>1, SyncSole, OtherSole
  <2>4. Alone'
    BY <1>0, <2>1, <2>2, StaysAlone DEF TypeInv, ControlOK
  <2>5. QED
    BY <1>0, <2>1, <2>2, <2>3, <2>4, SoleTruths DEF Inv
<1>8. QED
  BY <1>1, <1>2, <1>3, <1>4, <1>5, <1>6, <1>7 DEF Next, Command

\* The invariant holds of a stopped project to which no account entry was given.
LEMMA InvInit == Init => Inv
<1> SUFFICES ASSUME Init PROVE Inv
  OBVIOUS
<1>1. \A p \in Procs : proc[p] = Ended /\ proc[p].at = "idle"
  BY DEF Init, Ended
<1>2. Alone /\ ReadIsKept /\ GivenIsThere
  BY <1>1 DEF Alone, Working, Editing, ReadIsKept, GivenIsThere, HasRead, HasGiven
<1>3. RestIsOnRecord /\ MarkerIsTrue
  BY <1>1 DEF Init, RestIsOnRecord, MarkerIsTrue
<1>4. QED
  BY <1>2, <1>3, TypeInit DEF Inv, Truths

\* A command's own step other than a fault cuts no sync: what ends the VM has the gate.
LEMMA CutsNothing ==
  ASSUME Inv, Inv', NothingCut, NEW p \in Procs, Command(p), faults = 0, faults' = 0
  PROVE  torn' = {} /\ \A q \in Procs : InSync(q)' => vm'
<1>0. TypeInv /\ torn = {} /\ \A q \in Procs : InSync(q) => vm
  BY DEF Inv, NothingCut
<1>1. ASSUME NEW q \in Procs, proc'[q] = proc[q], InSync(q)' PROVE InSync(q)
  BY <1>1 DEF InSync, HasRead, At
<1>2. CASE Leave(p)
  <2>1. proc'[p] = Ended /\ \A q \in Procs \ {p} : proc'[q] = proc[q]
    BY <1>0, <1>2, Leaves
  <2>2. ~InSync(p)'
    BY <2>1 DEF InSync, HasRead, At, Ended
  <2>3. torn' = {}
    <3>1. InSync(p) => vm
      BY <1>0
    <3>2. CASE Script(p) \/ WaitStable(p) \/ Record(p)
      BY <1>0, <3>1, <3>2
      DEF Script, WaitStable, Record, Settled, Fault, history, InSync, HasRead, At
    <3>3. CASE Replace(p)
      BY <1>0, <3>3 DEF Replace, history
    <3>4. CASE ~(Script(p) \/ WaitStable(p) \/ Record(p) \/ Replace(p))
      BY <1>0, <3>4
      DEF Command, Syncing, Start, Enter, ReadLists, ReadProject, AppendProject, Mark,
          ReadGlobal, TruncateGlobal, WriteGlobal, RunSetup, RecordSetup, Stop, history
    <3>5. QED
      BY <3>2, <3>3, <3>4
  <2>4. \A q \in Procs : InSync(q)' => vm'
    <3>1. CASE Stop(p)
      <4>1. Working(p) /\ \A q \in Procs \ {p} : ~Working(q)
        BY <3>1 DEF Stop, At, Working, Editing, Inv, Alone
      <4>2. \A q \in Procs : InSync(q) => Working(q)
        BY DEF InSync, HasRead, At, Working, Editing
      <4>3. QED
        BY <1>1, <2>1, <2>2, <4>1, <4>2
    <3>2. CASE ~Stop(p)
      <4>1. (vm => vm')
        BY <3>2 DEF Command, Syncing, Start, Enter, ReadLists, ReadProject, AppendProject,
          Script, WaitStable, Mark, Record, ReadGlobal, TruncateGlobal, WriteGlobal, RunSetup,
          RecordSetup, Replace, guest
      <4>2. QED
        BY <1>0, <1>1, <2>1, <2>2, <4>1
    <3>3. QED
      BY <3>1, <3>2
  <2>5. QED
    BY <2>3, <2>4
<1>3. CASE ~Leave(p)
  <2>1. torn' = torn /\ (vm => vm')
    <3>1. torn' = torn /\ vm' \in {vm, TRUE}
      BY <1>3 DEF Command, Syncing, Start, Enter, ReadLists, ReadProject, AppendProject, Script,
        WaitStable, Mark, Record, ReadGlobal, TruncateGlobal, WriteGlobal, RunSetup, RecordSetup,
        Stop, Replace, guest, history
    <3>2. vm \in BOOLEAN /\ vm' \in BOOLEAN
      BY DEF Inv, TypeInv, WorldOK
    <3>3. QED
      BY <3>1, <3>2
  <2>0. proc[p] \in Commandings
    BY <1>0 DEF TypeInv, ControlOK
  <2>2. /\ \A q \in Procs \ {p} : proc'[q] = proc[q]
        /\ InSync(p)' => vm'
    <3>1. CASE Start(p)
      BY <1>0, <3>1, StartForm DEF TypeInv, ControlOK, InSync, HasRead, At
    <3>2. CASE ReadGlobal(p)
      <4>1. proc'[p].at = "truncate" /\ \A q \in Procs \ {p} : proc'[q] = proc[q]
        BY <1>0, <1>3, <2>0, <3>2 DEF ReadGlobal, TypeInv, ControlOK, Commandings
      <4>2. QED
        BY <4>1 DEF InSync, HasRead, At
    <3>3. CASE ReadLists(p) \/ ReadProject(p)
      <4>1. InSync(p) /\ \A q \in Procs \ {p} : proc'[q] = proc[q]
        BY <1>0, <1>3, <3>3
        DEF ReadLists, ReadProject, TypeInv, ControlOK, InSync, HasRead, At
      <4>2. QED
        BY <1>0, <2>1, <4>1
    <3>4. CASE \E step \in Steps : Proceed(p, step)
      <4>1. PICK step \in Steps : Proceed(p, step)
        BY <3>4
      <4>2. proc'[p] = [proc[p] EXCEPT !.at = step] /\ \A q \in Procs \ {p} : proc'[q] = proc[q]
        BY <1>0, <4>1, Moves
      <4>3. CASE Enter(p)
        BY <4>2, <4>3 DEF Enter
      <4>4. CASE TruncateGlobal(p) \/ RunSetup(p)
        <5>1. PICK next \in {"write", "setup-record"} : Proceed(p, next)
          BY <1>3, <4>4 DEF TruncateGlobal, RunSetup
        <5>2. proc'[p] = [proc[p] EXCEPT !.at = next]
          BY <1>0, <5>1, Moves
        <5>3. proc'[p].at = next
          BY <2>0, <5>2 DEF Commandings
        <5>4. QED
          BY <4>2, <5>1, <5>3 DEF InSync, HasRead, At
      <4>5. CASE AppendProject(p) \/ Script(p) \/ WaitStable(p) \/ Mark(p)
        <5>1. InSync(p)
          BY <4>5 DEF AppendProject, Script, WaitStable, Mark, InSync, HasRead, At
        <5>2. QED
          BY <1>0, <2>1, <4>2, <5>1
      <4>6. QED
        BY <1>3, <3>1, <3>2, <3>3, <4>2, <4>3, <4>4, <4>5
        DEF Command, Syncing, Record, WriteGlobal, RecordSetup, Stop, Replace
    <3>5. QED
      BY <1>3, <3>1, <3>2, <3>3, <3>4
      DEF Command, Syncing, Enter, AppendProject, Script, WaitStable, Mark, Record,
          TruncateGlobal, WriteGlobal, RunSetup, RecordSetup, Stop, Replace, Steps
  <2>3. QED
    BY <1>0, <1>1, <2>1, <2>2
<1>4. QED
  BY <1>2, <1>3

\* Without a fault no step cuts a sync.
LEMMA CutStep == ASSUME Inv, Inv', NothingCut, [Next]_vars PROVE NothingCut'
<1> SUFFICES ASSUME faults' = 0 PROVE torn' = {} /\ \A q \in Procs : InSync(q)' => vm'
  BY DEF NothingCut
<1>0. faults \in Nat
  BY Bounds DEF Inv, TypeInv, WorldOK
<1>1. CASE UNCHANGED vars \/ GuestFlushes
  BY <1>1 DEF vars, guest, history, GuestFlushes, NothingCut, InSync, HasRead, At
<1>2. ~VMEnds /\ \A p \in Procs : ~Crash(p)
  BY <1>0 DEF VMEnds, Crash, Fault
<1>3. ASSUME NEW p \in Procs, Command(p)
      PROVE  torn' = {} /\ \A q \in Procs : InSync(q)' => vm'
  <2>1. faults' \in {faults, faults + 1}
    <3>1. CASE Script(p) \/ WaitStable(p)
      BY <3>1 DEF Script, WaitStable, Fault
    <3>2. CASE ~(Script(p) \/ WaitStable(p))
      BY <1>3, <3>2 DEF Command, Syncing, Start, Enter, ReadLists, ReadProject, AppendProject,
        Mark, Record, ReadGlobal, TruncateGlobal, WriteGlobal, RunSetup, RecordSetup, Stop,
        Replace
    <3>3. QED
      BY <3>1, <3>2
  <2>2. faults = 0
    BY <1>0, <2>1
  <2>3. QED
    BY <1>3, <2>2, CutsNothing
<1>4. QED
  BY <1>1, <1>2, <1>3 DEF Next

\* With one sync or setup at a time, whatever the guest allows is on the project's list, is an
\* applied account entry or one just given, whose removal from the account's list a later
\* sync sees, or is excepted: an entry of a failed setup, or one that a sync cut by a fault
\* touched, or that the guest lost.  Of those excepted entries it says nothing, but that
\* without a fault no sync is cut.
THEOREM AllowedIsNamed == ASSUME SyncsAreSerial PROVE Spec => []EntriesAreOnRecord
<1>1. Init => Inv /\ NothingCut
  BY InvInit DEF Init, NothingCut, InSync, HasRead, At, Ended
<1>2. Inv /\ NothingCut /\ [Next]_vars => (Inv /\ NothingCut)'
  BY InvStep, CutStep
<1>3. Inv /\ NothingCut => EntriesAreOnRecord
  BY RecordsFollow DEF NothingCut, EntriesAreOnRecord, OnRecord
<1>4. QED
  BY <1>1, <1>2, <1>3, PTL DEF Spec

\* The body of SyncIsExact.
ExactSync(p) ==
  /\ At(p, "read") /\ At(p, "idle")' /\ faults' = faults
       => /\ allowed \subseteq project \cup globals \cup failed \cup torn
          /\ (project \cup globals) \ torn \subseteq allowed
  /\ At(p, "record") /\ At(p, "idle")' /\ faults' = faults
       => /\ allowed \subseteq project \cup proc[p].globals \cup failed \cup torn'
          /\ Wanted(p) \ torn' \subseteq allowed

\* A command that leaves a step of its sync has taken that step, or was killed.
LEMMA ExactStep ==
  ASSUME Inv, [Next]_vars, NEW p \in Procs
  PROVE  ExactSync(p)
<1>0. TypeInv /\ WorldOK /\ proc[p] \in Commandings
  BY DEF Inv, TypeInv, ControlOK
<1>1. CASE ~(proc[p].at \in {"read", "record"} /\ At(p, "idle")' /\ faults' = faults)
  BY <1>1 DEF ExactSync, At
<1>2. CASE proc[p].at \in {"read", "record"} /\ At(p, "idle")' /\ faults' = faults
  <2>1. Sole(p)
    BY <1>2, SoleFacts DEF Working, Editing
  <2>2. proc'[p] # proc[p]
    BY <1>2 DEF At
  <2>3. PICK q \in Procs : Command(q) \/ Crash(q)
    BY <1>0, <2>2 DEF Next, vars, GuestFlushes, VMEnds
  <2>4. ~Crash(q)
    BY <1>0, <1>2, Bounds DEF Crash
  <2>5. p = q
    <3> SUFFICES ASSUME p # q PROVE FALSE
      OBVIOUS
    <3>1. CASE Leave(q) \/ \E step \in Steps : Proceed(q, step)
      BY <1>0, <2>2, <3>1, Moves, Leaves
    <3>2. CASE (ReadLists(q) /\ ~Leave(q)) \/ ReadProject(q) \/ (ReadGlobal(q) /\ ~Leave(q))
      BY <1>0, <2>2, <3>2 DEF ReadLists, ReadProject, ReadGlobal, TypeInv, ControlOK
    <3>3. CASE Start(q)
      BY <1>0, <2>2, <3>3, StartForm DEF TypeInv, ControlOK
    <3>4. QED
      BY <2>3, <2>4, <3>1, <3>2, <3>3
      DEF Command, Syncing, Enter, ReadLists, AppendProject, Script, WaitStable, Mark, Record,
          ReadGlobal, TruncateGlobal, WriteGlobal, RunSetup, RecordSetup, Stop, Replace, Steps
  <2>6. CASE At(p, "read")
    <3>1. ReadLists(p)
      BY <2>3, <2>4, <2>5, <2>6
      DEF Command, Syncing, Start, Enter, ReadLists, ReadProject, AppendProject, Script, WaitStable,
          Mark, Record, ReadGlobal, TruncateGlobal, WriteGlobal, RunSetup, RecordSetup, Stop,
          Replace, At
    <3>2. NothingToSync
      BY <1>0, <1>2, <3>1 DEF ReadLists, At, TypeInv, ControlOK, Commandings
    <3>3. allowed \subseteq project \cup globals \cup failed \cup torn
      BY <2>1, <2>6, <3>2 DEF Sole, HasGiven, At, NothingToSync, StaleEntries
    <3>4. (project \cup globals) \ torn \subseteq allowed
      <4>1. CASE project = {} /\ globals = {}
        BY <4>1
      <4>2. CASE marker = [project |-> project, globals |-> globals]
        <5>1. marker # None
          BY <1>0, <4>2, FirewallAssumption DEF WorldOK, Digests, FirewallAssumption
        <5>2. QED
          BY <2>1, <2>6, <4>2, <5>1 DEF Sole, TakesOff, At
      <4>3. QED
        BY <3>2, <4>1, <4>2 DEF NothingToSync
    <3>5. QED
      BY <2>6, <3>3, <3>4 DEF ExactSync, At
  <2>7. CASE At(p, "record")
    <3>1. Record(p)
      BY <2>3, <2>4, <2>5, <2>7
      DEF Command, Syncing, Start, Enter, ReadLists, ReadProject, AppendProject, Script, WaitStable,
          Mark, Record, ReadGlobal, TruncateGlobal, WriteGlobal, RunSetup, RecordSetup, Stop,
          Replace, At
    <3>2. ReadKept(p) /\ GivenThere(p) /\ torn' = Settled(p)
      BY <2>1, <2>7, <3>1 DEF Sole, HasRead, HasGiven, At, Record
    <3>3. QED
      BY <2>7, <3>2 DEF ExactSync, At, ReadKept, GivenThere, Settled, Wanted
  <2>8. QED
    BY <1>2, <2>6, <2>7 DEF At
<1>3. QED
  BY <1>1, <1>2

\* With one sync or setup at a time, a shell or VM start that ends its sync well, or finds
\* that it needs none, leaves the guest with exactly the domains it has read; entries of
\* failed setups, and those a cut sync touched or the guest lost, are excepted.
THEOREM SyncLeavesTheLists == ASSUME SyncsAreSerial PROVE Spec => SyncIsExact
<1>1. Inv /\ [Next]_vars => Inv'
  BY InvStep
<1>2. Inv /\ [Next]_vars => [\A p \in Procs : ExactSync(p)]_vars
  BY ExactStep
<1>3. Spec => [][\A p \in Procs : ExactSync(p)]_vars
  BY <1>1, <1>2, InvInit, PTL DEF Spec
<1>4. QED
  BY <1>3 DEF SyncIsExact, ExactSync
=============================================================================
