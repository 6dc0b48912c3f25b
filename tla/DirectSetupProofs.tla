------------------------- MODULE DirectSetupProofs -------------------------
(***************************************************************************)
(* Proofs about DirectSetup for every set of setups and commands, and      *)
(* every bound on the faults.                                              *)
(***************************************************************************)
EXTENDS DirectSetup, TLAPS

-----------------------------------------------------------------------------
(* The files a transaction has ahead of it, and one of them written        *)

\* What is left of the files of a transaction, at each point of it.
Rests == {SuccessPaths, FailurePaths, <<"applied", "intent">>, <<"failed", "intent">>,
          <<"intent">>, <<>>}

\* The files a list names.
Of(list) == {list[i] : i \in DOMAIN list}

FileNames == {"applied", "rules", "failed", "intent"}

\* Every tail of the two lists is one of these.
LEMMA RestsAreTails ==
  Rests \subseteq {SubSeq(s, k, 3) : s \in {SuccessPaths, FailurePaths}, k \in 1..4}
<1>1. SuccessPaths = SubSeq(SuccessPaths, 1, 3) /\ FailurePaths = SubSeq(FailurePaths, 1, 3)
  BY DEF SuccessPaths, FailurePaths
<1>2. /\ <<"applied", "intent">> = SubSeq(SuccessPaths, 2, 3)
      /\ <<"failed", "intent">> = SubSeq(FailurePaths, 2, 3)
  BY DEF SuccessPaths, FailurePaths
<1>3. <<"intent">> = SubSeq(SuccessPaths, 3, 3) /\ <<>> = SubSeq(SuccessPaths, 4, 3)
  BY DEF SuccessPaths, FailurePaths
<1>4. QED
  BY <1>1, <1>2, <1>3 DEF Rests

\* The next file of a list is one of its files, and what is left are the others.
LEMMA RestMoves ==
  ASSUME NEW t \in Rests, t # <<>>
  PROVE  /\ Tail(t) \in Rests /\ Head(t) \in FileNames /\ Head(t) \in Of(t)
         /\ Of(Tail(t)) = Of(t) \ {Head(t)}
<1>1. CASE t = SuccessPaths
  BY <1>1 DEF Rests, Of, FileNames, SuccessPaths
<1>2. CASE t = FailurePaths
  BY <1>2 DEF Rests, Of, FileNames, FailurePaths
<1>3. CASE t = <<"applied", "intent">>
  BY <1>3 DEF Rests, Of, FileNames
<1>4. CASE t = <<"failed", "intent">>
  BY <1>4 DEF Rests, Of, FileNames
<1>5. CASE t = <<"intent">>
  BY <1>5 DEF Rests, Of, FileNames
<1>6. QED
  BY <1>1, <1>2, <1>3, <1>4, <1>5 DEF Rests

\* The files of the two transactions.
LEMMA PathsNameFiles ==
  /\ Of(SuccessPaths) = {"rules", "applied", "intent"}
  /\ Of(FailurePaths) = {"applied", "failed", "intent"}
  /\ Of(<<>>) = {}
  /\ SuccessPaths \in Rests /\ FailurePaths \in Rests /\ <<>> \in Rests
  /\ SuccessPaths # FailurePaths
BY DEF SuccessPaths, FailurePaths, Of, Rests

\* One file of the record takes what another record has for it.
LEMMA FileWritten ==
  ASSUME NEW f \in Files, NEW content \in Files, NEW name \in FileNames, NEW g,
         g = [f EXCEPT ![name] = content[name]]
  PROVE  /\ g \in Files
         /\ g.applied = IF name = "applied" THEN content.applied ELSE f.applied
         /\ g.rules = IF name = "rules" THEN content.rules ELSE f.rules
         /\ g.failed = IF name = "failed" THEN content.failed ELSE f.failed
         /\ g.intent = IF name = "intent" THEN content.intent ELSE f.intent
<1>1. CASE name = "applied"
  BY <1>1 DEF Files
<1>2. CASE name = "rules"
  BY <1>2 DEF Files
<1>3. CASE name = "failed"
  BY <1>3 DEF Files
<1>4. CASE name = "intent"
  BY <1>4 DEF Files
<1>5. QED
  BY <1>1, <1>2, <1>3, <1>4 DEF FileNames

-----------------------------------------------------------------------------
(* Type correctness                                                        *)

Guests == [Names -> [version : Versions \cup {None}, done : BOOLEAN]]

ImageOK ==
  /\ guest \in Guests /\ running \in SUBSET Setups /\ vm \in BOOLEAN
  /\ faults \in 0..MaxFaults

RecordsOK == files \in Files /\ journal \in Journals \cup {NoJournal}

TransactionOK ==
  /\ caller \in {"success", "failure", "resolve"}
  /\ update \in Files /\ saved \in Journals /\ todo \in Rests /\ errors \in BOOLEAN

\* A command has its setup from the moment it has chosen one to the end of the
\* transaction that records its success.
Working == {"ssh", "check", "sync", "record", "failed"}
Recording == {"write", "undo", "undo-clear"}

CommandOK ==
  /\ pc \in Steps /\ command \in Commands \cup {None}
  /\ pc # "idle" => command \in Commands
  /\ setup \in Setups \cup {None}
  /\ pc \in Working => setup \in Setups
  /\ pc \in Recording /\ caller # "resolve" => setup \in Setups
  /\ started \in BOOLEAN /\ begun \in BOOLEAN

TypeInv == ImageOK /\ RecordsOK /\ TransactionOK /\ CommandOK

\* The strengthened form is about types first of all.
LEMMA TypesFollow == TypeInv => TypeOK
BY RestsAreTails
DEF TypeInv, TypeOK, ImageOK, RecordsOK, TransactionOK, CommandOK, Guests, Journals

\* Everything is well typed when the project is new.
LEMMA InitTypes == Init => TypeInv
<1>1. Init => ImageOK
  BY DirectSetupAssumption DEF Init, DirectSetupAssumption, ImageOK, Guests
<1>2. Blank \in Files
  BY DEF Blank, Files
<1>3. Init => RecordsOK
  BY <1>2 DEF Init, RecordsOK
<1>4. Init => TransactionOK
  <2>1. [phase |-> "prepared", files |-> Blank, paths |-> SuccessPaths] \in Journals
    BY <1>2 DEF Journals
  <2>2. QED
    BY <1>2, <2>1, PathsNameFiles DEF Init, TransactionOK
<1>5. Init => CommandOK
  BY DEF Init, CommandOK, Steps, Working, Recording
<1>6. QED
  BY <1>1, <1>3, <1>4, <1>5 DEF TypeInv

\* The end of a command resets what the command kept.
LEMMA FinishTypes ==
  ASSUME TypeInv, Finish
  PROVE  TransactionOK' /\ CommandOK'
<1>1. Blank \in Files
  BY DEF Blank, Files
<1>2. TransactionOK'
  BY <1>1, PathsNameFiles DEF Finish, TransactionOK, Journals
<1>3. CommandOK'
  BY DEF Finish, CommandOK, Steps, Working, Recording
<1>4. QED
  BY <1>2, <1>3

\* The image and the metadata when a step leaves them alone.
LEMMA ImageStands ==
  ASSUME TypeInv, UNCHANGED <<image, faults>> \/ (UNCHANGED image /\ Fault)
  PROVE  ImageOK'
BY DirectSetupAssumption
DEF TypeInv, ImageOK, image, Fault, DirectSetupAssumption

\* A temporary VM that is shut down, with or without a fault.
LEMMA ImageStops ==
  ASSUME TypeInv, StopTemporaryVM, NoFault \/ Fault
  PROVE  ImageOK'
BY DirectSetupAssumption
DEF TypeInv, ImageOK, StopTemporaryVM, NoFault, Fault, DirectSetupAssumption

\* A step of a command that goes on with the same attempt and transaction.
LEMMA GoesOn ==
  ASSUME TypeInv, NEW step \in Steps, Goto(step), UNCHANGED <<attempt, transaction>>,
         pc # "idle",
         step \in Working \/ (step \in Recording /\ caller # "resolve") => setup \in Setups
  PROVE  TransactionOK' /\ CommandOK'
BY DEF TypeInv, TransactionOK, CommandOK, Goto, attempt, transaction

\* The metadata and the journal when a step changes the journal, if anything.
LEMMA JournalTypes ==
  ASSUME TypeInv, UNCHANGED files,
         journal' \in Journals \cup {NoJournal}
  PROVE  RecordsOK'
BY DEF TypeInv, RecordsOK

\* A step that leaves metadata, journal and image alone, with or without a fault.
LEMMA MovesOnly ==
  ASSUME TypeInv, UNCHANGED <<files, journal, image>>, NoFault \/ Fault,
         TransactionOK', CommandOK'
  PROVE  TypeInv'
<1>1. RecordsOK'
  BY DEF TypeInv, RecordsOK
<1>2. ImageOK'
  BY ImageStands DEF NoFault
<1>3. QED
  BY <1>1, <1>2 DEF TypeInv

\* The metadata a record of a setup leaves is metadata.
LEMMA RecordsAreFiles ==
  ASSUME RecordsOK, NEW s \in Setups
  PROVE  /\ WithSetup(s) \in Files
         /\ WithSetup(s).applied = [files.applied EXCEPT ![s[1]] = s[2]]
         /\ WithSetup(s).rules = files.rules \cup {s}
         /\ WithSetup(s).failed = files.failed /\ WithSetup(s).intent = None
         /\ WithoutSetup(s) \in Files
         /\ WithoutSetup(s).applied =
              [files.applied EXCEPT ![s[1]] = IF @ = s[2] THEN None ELSE @]
         /\ WithoutSetup(s).rules = files.rules
         /\ WithoutSetup(s).failed = TRUE /\ WithoutSetup(s).intent = None
<1>1. s[1] \in Names /\ s[2] \in Versions
  BY DirectSetupAssumption DEF DirectSetupAssumption
<1>2. files \in Files
  BY DEF RecordsOK
<1>3. QED
  BY <1>1, <1>2 DEF WithSetup, WithoutSetup, Files

\* A transaction opens, or the command gives up.
LEMMA OpenTypes ==
  ASSUME TypeInv, NEW who \in {"success", "failure", "resolve"},
         NEW paths \in {SuccessPaths, FailurePaths}, NEW contents \in Files,
         Open(who, paths, contents), pc # "idle",
         who # "resolve" => setup \in Setups
  PROVE  TypeInv'
<1> DEFINE prepared == [phase |-> "prepared", files |-> files, paths |-> paths]
<1>1. prepared \in Journals
  BY DEF Journals, TypeInv, RecordsOK
<1>2. RecordsOK'
  BY <1>1 DEF Open, JournalFails, TypeInv, RecordsOK
<1>3. ImageOK'
  BY ImageStands DEF Open, JournalFails, NoFault
<1>4. CASE Finish
  BY <1>2, <1>3, <1>4, FinishTypes DEF TypeInv
<1>5. CASE Goto("failed") /\ UNCHANGED <<attempt, transaction>> /\ who = "success"
  BY <1>2, <1>3, <1>5, GoesOn DEF TypeInv, Steps, Recording
<1>6. CASE /\ caller' = who /\ update' = contents /\ saved' = prepared /\ todo' = paths
           /\ errors' = FALSE /\ Goto("write") /\ UNCHANGED attempt
  <2>1. TransactionOK'
    BY <1>1, <1>6, PathsNameFiles DEF TransactionOK
  <2>2. CommandOK'
    BY <1>6 DEF TypeInv, CommandOK, Goto, attempt, Steps, Working, Recording
  <2>3. QED
    BY <1>2, <1>3, <2>1, <2>2 DEF TypeInv
<1>7. QED
  BY <1>4, <1>5, <1>6 DEF Open

\* A file is restored from a journal, and whatever fails is remembered.
LEMMA RestoreTypes ==
  ASSUME TypeInv, NEW step \in {"recover-files", "undo"}, Restore(step)
  PROVE  TypeInv'
<1>1. files' \in Files
  BY RestMoves, FileWritten
  DEF Restore, Written, TypeInv, RecordsOK, TransactionOK, Journals
<1>2. RecordsOK'
  BY <1>1 DEF Restore, TypeInv, RecordsOK
<1>3. ImageOK'
  BY ImageStands DEF Restore, NoFault
<1>4. TransactionOK'
  BY RestMoves DEF Restore, TypeInv, TransactionOK
<1>5. CommandOK'
  BY DEF Restore, TypeInv, CommandOK, attempt
<1>6. QED
  BY <1>2, <1>3, <1>4, <1>5 DEF TypeInv

\* What follows an error of a transaction.
LEMMA ErrorTypes ==
  ASSUME TypeInv, AfterError, pc \in Recording
  PROVE  TransactionOK' /\ CommandOK'
<1>1. CASE Finish
  BY <1>1, FinishTypes
<1>2. CASE Goto("failed") /\ UNCHANGED <<attempt, transaction>> /\ caller = "success"
  BY <1>2, GoesOn DEF TypeInv, CommandOK, Steps, Recording, Working
<1>3. QED
  BY <1>1, <1>2 DEF AfterError

\* Every step of the program keeps the types.
LEMMA TypeStep ==
  ASSUME TypeInv, Next
  PROVE  TypeInv'
<1>1. CASE StartCommand
  <2>1. ImageOK' /\ RecordsOK' /\ TransactionOK'
    BY <1>1 DEF StartCommand, TypeInv, ImageOK, RecordsOK, TransactionOK, NoFault, transaction
  <2>2. CommandOK'
    BY <1>1 DEF StartCommand, TypeInv, CommandOK, Goto, Steps, Working, Recording
  <2>3. QED
    BY <2>1, <2>2 DEF TypeInv
<1>2. CASE RecoverNothing \/ ResolveNothing
  <2>1. PICK step \in {"resolve", "ready"} : Goto(step)
    BY <1>2 DEF RecoverNothing, ResolveNothing
  <2>2. TransactionOK' /\ CommandOK'
    BY <1>2, <2>1, GoesOn DEF RecoverNothing, ResolveNothing, Steps, Working, Recording
  <2>3. QED
    BY <1>2, <2>2, MovesOnly DEF RecoverNothing, ResolveNothing
<1>3. CASE ReadJournal
  <2>1. TransactionOK'
    BY <1>3 DEF ReadJournal, TypeInv, TransactionOK, RecordsOK, Journals, Rests
  <2>2. CommandOK'
    BY <1>3 DEF ReadJournal, TypeInv, CommandOK, Goto, attempt, Steps, Working, Recording
  <2>3. QED
    BY <1>3, <2>1, <2>2, MovesOnly DEF ReadJournal
<1>4. CASE RecoverFile \/ UndoFile
  BY <1>4, RestoreTypes DEF RecoverFile, UndoFile
<1>5. CASE FilesRecovered
  <2>1. CASE Finish
    BY <1>5, <2>1, FinishTypes, MovesOnly DEF FilesRecovered
  <2>2. CASE Goto("recover-clear") /\ UNCHANGED <<attempt, transaction>>
    BY <1>5, <2>2, GoesOn, MovesOnly DEF FilesRecovered, Steps, Working, Recording
  <2>3. QED
    BY <1>5, <2>1, <2>2 DEF FilesRecovered
<1>6. CASE RecoverClear
  <2>1. RecordsOK' /\ ImageOK'
    BY <1>6, ImageStands, JournalTypes
    DEF RecoverClear, JournalFails, NoFault, TypeInv, RecordsOK
  <2>2. CASE Finish
    BY <2>1, <2>2, FinishTypes DEF TypeInv
  <2>3. CASE Goto("resolve") /\ UNCHANGED <<attempt, transaction>>
    BY <1>6, <2>1, <2>3, GoesOn DEF RecoverClear, TypeInv, Steps, Working, Recording
  <2>4. QED
    BY <1>6, <2>2, <2>3 DEF RecoverClear
<1>7. CASE Resolve
  <2>1. files.intent \in Setups
    BY <1>7 DEF Resolve, TypeInv, RecordsOK, Files
  <2>2. WithoutSetup(files.intent) \in Files
    BY <2>1, RecordsAreFiles DEF TypeInv
  <2>3. QED
    BY <1>7, <2>2, OpenTypes DEF Resolve
<1>8. CASE ChooseSetup
  <2>1. TransactionOK'
    BY <1>8 DEF ChooseSetup, TypeInv, TransactionOK, transaction
  <2>2. CommandOK'
    BY <1>8 DEF ChooseSetup, TypeInv, CommandOK, Goto, Steps, Working, Recording
  <2>3. QED
    BY <1>8, <2>1, <2>2, MovesOnly DEF ChooseSetup
<1>9. CASE EndCommand
  BY <1>9, FinishTypes, MovesOnly DEF EndCommand
<1>10. CASE ScriptBegins
  <2>1. setup \in Setups /\ setup[1] \in Names /\ setup[2] \in Versions
    BY <1>10, DirectSetupAssumption
    DEF ScriptBegins, TypeInv, CommandOK, Working, DirectSetupAssumption
  <2>2. ImageOK'
    BY <1>10, <2>1 DEF ScriptBegins, TypeInv, ImageOK, NoFault, Guests
  <2>3. RecordsOK'
    BY <1>10, <2>1 DEF ScriptBegins, TypeInv, RecordsOK, Files
  <2>4. TransactionOK' /\ CommandOK'
    BY <1>10 DEF ScriptBegins, TypeInv, TransactionOK, CommandOK, transaction
  <2>5. QED
    BY <2>2, <2>3, <2>4 DEF TypeInv
<1>11. CASE MarkerSeen
  <2>1. TransactionOK' /\ CommandOK'
    BY <1>11 DEF MarkerSeen, TypeInv, TransactionOK, CommandOK, transaction
  <2>2. QED
    BY <1>11, <2>1, MovesOnly DEF MarkerSeen
<1>12. CASE ScriptEnds
  <2>1. PICK s \in running, complete \in BOOLEAN :
          /\ running' = running \ {s}
          /\ guest' = [guest EXCEPT ![s[1]] = [version |-> s[2], done |-> complete]]
    BY <1>12 DEF ScriptEnds
  <2>2. s[1] \in Names /\ s[2] \in Versions
    BY DirectSetupAssumption DEF TypeInv, ImageOK, DirectSetupAssumption
  <2>3. ImageOK'
    BY <1>12, <2>1, <2>2 DEF ScriptEnds, TypeInv, ImageOK, NoFault, Guests
  <2>4. RecordsOK' /\ TransactionOK' /\ CommandOK'
    BY <1>12
    DEF ScriptEnds, TypeInv, RecordsOK, TransactionOK, CommandOK, attempt, transaction
  <2>5. QED
    BY <2>3, <2>4 DEF TypeInv
<1>13. CASE ScriptSucceeds
  <2>1. setup \in Setups /\ setup[1] \in Names /\ setup[2] \in Versions
    BY <1>13, DirectSetupAssumption
    DEF ScriptSucceeds, TypeInv, CommandOK, Working, DirectSetupAssumption
  <2>2. ImageOK'
    BY <1>13, <2>1 DEF ScriptSucceeds, TypeInv, ImageOK, NoFault, Guests
  <2>3. RecordsOK'
    BY <1>13 DEF ScriptSucceeds, TypeInv, RecordsOK
  <2>4. PICK step \in {"sync", "failed"} : Goto(step)
    BY <1>13 DEF ScriptSucceeds
  <2>5. TransactionOK' /\ CommandOK'
    BY <1>13, <2>1, <2>4, GoesOn DEF ScriptSucceeds, Steps
  <2>6. QED
    BY <2>2, <2>3, <2>5 DEF TypeInv
<1>14. CASE ScriptFails
  <2>1. ImageOK' /\ RecordsOK'
    BY <1>14 DEF ScriptFails, TypeInv, ImageOK, RecordsOK, NoFault
  <2>2. TransactionOK' /\ CommandOK'
    BY <1>14, GoesOn DEF ScriptFails, TypeInv, CommandOK, Steps, Working
  <2>3. QED
    BY <2>1, <2>2 DEF TypeInv
<1>15. CASE CheckIntent
  <2>1. ImageOK' /\ RecordsOK'
    BY <1>15, ImageStops DEF CheckIntent, TypeInv, RecordsOK
  <2>2. CASE Finish
    BY <2>1, <2>2, FinishTypes DEF TypeInv
  <2>3. CASE Goto("failed") /\ UNCHANGED <<attempt, transaction>>
    BY <1>15, <2>1, <2>3, GoesOn DEF CheckIntent, TypeInv, CommandOK, Steps, Working
  <2>4. QED
    BY <1>15, <2>2, <2>3 DEF CheckIntent
<1>16. CASE Sync
  <2>1. ImageOK' /\ RecordsOK'
    BY <1>16, ImageStops DEF Sync, TypeInv, RecordsOK
  <2>2. CASE Finish
    BY <2>1, <2>2, FinishTypes DEF TypeInv
  <2>3. CASE (Goto("record") \/ Goto("failed")) /\ UNCHANGED <<attempt, transaction>>
    <3>1. PICK step \in {"record", "failed"} : Goto(step)
      BY <2>3
    <3>2. TransactionOK' /\ CommandOK'
      BY <1>16, <2>3, <3>1, GoesOn DEF Sync, TypeInv, CommandOK, Steps, Working
    <3>3. QED
      BY <2>1, <3>2 DEF TypeInv
  <2>4. QED
    BY <1>16, <2>2, <2>3 DEF Sync
<1>17. CASE RecordSuccess
  <2>1. setup \in Setups
    BY <1>17 DEF RecordSuccess, TypeInv, CommandOK, Working
  <2>2. WithSetup(setup) \in Files
    BY <2>1, RecordsAreFiles DEF TypeInv
  <2>3. QED
    BY <1>17, <2>1, <2>2, OpenTypes DEF RecordSuccess
<1>18. CASE RecordFailure
  <2>1. setup \in Setups
    BY <1>18 DEF RecordFailure, TypeInv, CommandOK, Working
  <2>2. WithoutSetup(setup) \in Files
    BY <2>1, RecordsAreFiles DEF TypeInv
  <2>3. QED
    BY <1>18, <2>1, <2>2, OpenTypes DEF RecordFailure
<1>19. CASE WriteFile
  <2>1. files' \in Files
    BY <1>19, RestMoves, FileWritten
    DEF WriteFile, Written, TypeInv, RecordsOK, TransactionOK
  <2>2. RecordsOK' /\ ImageOK'
    BY <1>19, <2>1, ImageStands DEF WriteFile, TypeInv, RecordsOK, NoFault
  <2>3. TransactionOK'
    BY <1>19, RestMoves
    DEF WriteFile, Undo, TypeInv, TransactionOK, Journals, Rests
  <2>4. CommandOK'
    BY <1>19
    DEF WriteFile, Undo, TypeInv, CommandOK, Goto, attempt, Steps, Working, Recording
  <2>5. QED
    BY <2>2, <2>3, <2>4 DEF TypeInv
<1>20. CASE Commit
  <2>1. [saved EXCEPT !.phase = "committed"] \in Journals
    BY DEF TypeInv, TransactionOK, Journals
  <2>2. RecordsOK' /\ ImageOK'
    BY <1>20, <2>1, ImageStands DEF Commit, TypeInv, RecordsOK, NoFault
  <2>3. TransactionOK'
    BY <1>20 DEF Commit, Undo, TypeInv, TransactionOK, Journals, Rests, transaction
  <2>4. CommandOK'
    BY <1>20
    DEF Commit, Undo, TypeInv, CommandOK, Goto, attempt, transaction, Steps, Working, Recording
  <2>5. QED
    BY <2>2, <2>3, <2>4 DEF TypeInv
<1>21. CASE Clear
  <2>1. RecordsOK' /\ ImageOK'
    BY <1>21, ImageStands DEF Clear, JournalFails, TypeInv, RecordsOK, NoFault
  <2>2. CASE Finish
    BY <2>1, <2>2, FinishTypes DEF TypeInv
  <2>3. CASE Goto("ready") /\ UNCHANGED <<attempt, transaction>>
    BY <1>21, <2>1, <2>3, GoesOn DEF Clear, TypeInv, Steps, Working, Recording
  <2>4. QED
    BY <1>21, <2>2, <2>3 DEF Clear, AfterSuccess
<1>22. CASE FilesUndone
  <2>1. CASE AfterError
    BY <1>22, <2>1, ErrorTypes, MovesOnly DEF FilesUndone, Recording
  <2>2. CASE Goto("undo-clear") /\ UNCHANGED <<attempt, transaction>>
    <3>1. TransactionOK' /\ CommandOK'
      BY <1>22, <2>2, GoesOn DEF FilesUndone, TypeInv, CommandOK, Steps, Working, Recording
    <3>2. QED
      BY <1>22, <3>1, MovesOnly DEF FilesUndone
  <2>3. QED
    BY <1>22, <2>1, <2>2 DEF FilesUndone
<1>23. CASE UndoClear
  <2>1. RecordsOK' /\ ImageOK'
    BY <1>23, ImageStands DEF UndoClear, JournalFails, TypeInv, RecordsOK, NoFault
  <2>2. QED
    BY <1>23, <2>1, ErrorTypes DEF UndoClear, Recording, TypeInv
<1>24. CASE Crash
  <2>1. ImageOK' /\ RecordsOK'
    BY <1>24, ImageStops DEF Crash, TypeInv, RecordsOK
  <2>2. QED
    BY <1>24, <2>1, FinishTypes DEF Crash, TypeInv
<1>25. QED
  BY <1>1, <1>2, <1>3, <1>4, <1>5, <1>6, <1>7, <1>8, <1>9, <1>10, <1>11, <1>12, <1>13,
     <1>14, <1>15, <1>16, <1>17, <1>18, <1>19, <1>20, <1>21, <1>22, <1>23, <1>24
  DEF Next

\* A stuttering step changes nothing.
LEMMA TypeStutters ==
  ASSUME TypeInv, UNCHANGED vars
  PROVE  TypeInv'
<1>1. ImageOK' /\ RecordsOK'
  BY DEF vars, image, TypeInv, ImageOK, RecordsOK
<1>2. TransactionOK' /\ CommandOK'
  BY DEF vars, attempt, transaction, TypeInv, TransactionOK, CommandOK
<1>3. QED
  BY <1>1, <1>2 DEF TypeInv

\* The state of every behaviour is of its kinds.
LEMMA TypesHold == Spec => []TypeInv
<1>1. TypeInv /\ [Next]_vars => TypeInv'
  BY TypeStep, TypeStutters
<1>2. QED
  BY <1>1, InitTypes, PTL DEF Spec

\* In every state the metadata, the journal, the guest and the command are of their
\* kinds, whatever fails.
THEOREM TypeCorrect == Spec => []TypeOK
BY TypesHold, TypesFollow, PTL

-----------------------------------------------------------------------------
(* A failure note needs an execution                                       *)

Executed == \E n \in Names : guest[n].version # None

\* Metadata that says a script has begun.
Claims(f) == f.failed \/ f.intent # None

\* Nothing says that a script has begun: no metadata, on disk or in memory, and no
\* step of a command.
Unclaimed ==
  /\ ~Claims(files) /\ ~Claims(saved.files) /\ ~Claims(update)
  /\ journal # NoJournal => ~Claims(journal.files)
  /\ ~begun /\ ~started
  /\ pc \notin {"sync", "record", "failed"} \cup Recording

Witnessed == Executed \/ Unclaimed

\* A script that begins or ends has executed.
LEMMA ScriptsExecute ==
  ASSUME TypeInv, ScriptBegins \/ ScriptEnds \/ ScriptSucceeds
  PROVE  Executed'
<1>1. PICK s \in Setups, complete \in BOOLEAN :
        guest' = [guest EXCEPT ![s[1]] = [version |-> s[2], done |-> complete]]
  <2>1. CASE ScriptEnds
    BY <2>1 DEF ScriptEnds, TypeInv, ImageOK
  <2>2. CASE ScriptBegins \/ ScriptSucceeds
    BY <2>2 DEF ScriptBegins, ScriptSucceeds, TypeInv, CommandOK, Working
  <2>3. QED
    BY <2>1, <2>2
<1>2. s[1] \in Names /\ s[2] \in Versions
  BY DirectSetupAssumption DEF DirectSetupAssumption
<1>3. guest'[s[1]].version = s[2] /\ s[2] # None
  BY <1>1, <1>2, DirectSetupAssumption DEF TypeInv, ImageOK, Guests, DirectSetupAssumption
<1>4. QED
  BY <1>2, <1>3 DEF Executed

\* What a step writes to the metadata comes from metadata it has.
LEMMA WritesNoClaim ==
  ASSUME TypeInv, Unclaimed, NEW content \in {saved.files, update}, todo # <<>>,
         Written(Head(todo), content) \/ UNCHANGED files
  PROVE  ~Claims(files')
<1>1. content \in Files /\ files \in Files /\ Head(todo) \in FileNames
  BY RestMoves DEF TypeInv, RecordsOK, TransactionOK, Journals
<1>2. CASE Written(Head(todo), content)
  BY <1>1, <1>2, FileWritten DEF Written, Unclaimed, Claims
<1>3. QED
  BY <1>2 DEF Unclaimed, Claims

\* As long as no script has executed, nothing comes to say that one has.
LEMMA ClaimsNothing ==
  ASSUME TypeInv, Unclaimed, Next, ~(ScriptBegins \/ ScriptEnds \/ ScriptSucceeds)
  PROVE  Unclaimed'
<1> USE DEF Unclaimed, Claims
<1>1. CASE StartCommand
  BY <1>1 DEF StartCommand, Goto, transaction, Recording
<1>2. CASE RecoverNothing \/ ResolveNothing
  BY <1>2 DEF RecoverNothing, ResolveNothing, Goto, attempt, transaction, Recording
<1>3. CASE ChooseSetup
  BY <1>3 DEF ChooseSetup, Goto, transaction, Recording
<1>4. CASE MarkerSeen \/ ScriptFails
  BY <1>4 DEF MarkerSeen, ScriptFails, Goto, attempt, transaction, Recording
<1>5. CASE ReadJournal
  BY <1>5 DEF ReadJournal, Goto, attempt, Recording
<1>6. CASE RecoverFile
  <2>1. ~Claims(files')
    BY <1>6, WritesNoClaim DEF RecoverFile, Restore
  <2>2. QED
    BY <1>6, <2>1 DEF RecoverFile, Restore, attempt
<1>7. CASE Finish /\ UNCHANGED files /\ (UNCHANGED journal \/ journal' = NoJournal)
  BY <1>7 DEF Finish, Blank, Recording
<1>8. CASE FilesRecovered /\ ~Finish
  BY <1>8 DEF FilesRecovered, Goto, attempt, transaction, Recording
<1>9. CASE RecoverClear /\ ~Finish
  BY <1>9 DEF RecoverClear, Goto, attempt, transaction, Recording
<1>10. CASE CheckIntent /\ ~Finish
  BY <1>10 DEF CheckIntent
<1>11. CASE Clear \/ Commit \/ WriteFile \/ UndoFile \/ FilesUndone \/ UndoClear
  <2>1. pc \in {"clear"} \cup Recording
    BY <1>11
    DEF Clear, Commit, WriteFile, UndoFile, Restore, FilesUndone, UndoClear, Recording
  <2>2. Clear
    BY <1>11, <2>1
    DEF Commit, WriteFile, UndoFile, Restore, FilesUndone, UndoClear, Recording
  <2>3. CASE Goto("ready") /\ UNCHANGED <<attempt, transaction>>
    BY <2>2, <2>3 DEF Clear, JournalFails, Goto, attempt, transaction, Recording
  <2>4. CASE Finish
    BY <2>2, <2>4, <1>7 DEF Clear, JournalFails
  <2>5. QED
    BY <2>2, <2>3, <2>4 DEF Clear, AfterSuccess
<1>12. CASE Sync \/ RecordSuccess \/ RecordFailure \/ Resolve
  BY <1>12 DEF Sync, RecordSuccess, RecordFailure, Resolve
<1>13. CASE EndCommand \/ Crash
  BY <1>7, <1>13 DEF EndCommand, Crash
<1>14. CASE (FilesRecovered \/ RecoverClear \/ CheckIntent) /\ Finish
  BY <1>7, <1>14 DEF FilesRecovered, RecoverClear, CheckIntent, JournalFails
<1>15. QED
  BY <1>1, <1>2, <1>3, <1>4, <1>5, <1>6, <1>7, <1>8, <1>9, <1>10, <1>11, <1>12, <1>13, <1>14
  DEF Next

\* No step changes what the scripts have done but a script.
LEMMA GuestStands ==
  ASSUME Next, ~(ScriptBegins \/ ScriptEnds \/ ScriptSucceeds)
  PROVE  guest' = guest
<1>1. CASE StartCommand \/ RecoverNothing \/ ReadJournal \/ FilesRecovered \/ RecoverClear
  BY <1>1 DEF StartCommand, RecoverNothing, ReadJournal, FilesRecovered, RecoverClear, image
<1>2. CASE RecoverFile \/ UndoFile
  BY <1>2 DEF RecoverFile, UndoFile, Restore, image
<1>3. CASE Resolve \/ RecordSuccess \/ RecordFailure
  BY <1>3 DEF Resolve, RecordSuccess, RecordFailure, Open, image
<1>4. CASE ResolveNothing \/ ChooseSetup \/ EndCommand \/ MarkerSeen \/ ScriptFails
  BY <1>4 DEF ResolveNothing, ChooseSetup, EndCommand, MarkerSeen, ScriptFails, image
<1>5. CASE CheckIntent \/ Sync \/ Crash
  BY <1>5 DEF CheckIntent, Sync, Crash, StopTemporaryVM
<1>6. CASE WriteFile \/ Commit \/ Clear \/ FilesUndone \/ UndoClear
  BY <1>6 DEF WriteFile, Commit, Clear, FilesUndone, UndoClear, image
<1>7. QED
  BY <1>1, <1>2, <1>3, <1>4, <1>5, <1>6 DEF Next

\* Every step keeps it that only an execution is witnessed.
LEMMA WitnessStep ==
  ASSUME TypeInv, Witnessed, [Next]_vars
  PROVE  Witnessed'
<1>1. CASE UNCHANGED vars
  BY <1>1 DEF vars, image, attempt, transaction, Witnessed, Executed, Unclaimed, Claims
<1>2. CASE Next /\ (ScriptBegins \/ ScriptEnds \/ ScriptSucceeds)
  BY <1>2, ScriptsExecute DEF Witnessed
<1>3. CASE Next /\ ~(ScriptBegins \/ ScriptEnds \/ ScriptSucceeds)
  <2>1. CASE Executed
    BY <1>3, <2>1, GuestStands DEF Executed, Witnessed
  <2>2. CASE Unclaimed
    BY <1>3, <2>2, ClaimsNothing DEF Witnessed
  <2>3. QED
    BY <2>1, <2>2 DEF Witnessed
<1>4. QED
  BY <1>1, <1>2, <1>3

\* An error before guest execution leaves no failure note, in whatever command (zaigr
\* shell, which does not recover, included) and with whatever faults: the note needs
\* a script that has begun.
THEOREM NoteAlwaysNeedsExecution == Spec => []NoteNeedsExecution
<1>1. Init => Witnessed
  BY DEF Init, Blank, Witnessed, Unclaimed, Claims, Recording
<1>2. TypeInv /\ Witnessed => NoteNeedsExecution
  <2> SUFFICES ASSUME TypeInv, Witnessed, Stored.failed PROVE Executed
    BY DEF NoteNeedsExecution, Executed
  <2>1. "failed" \in DOMAIN files
    BY DEF TypeInv, RecordsOK, Files
  <2>2. files.failed \/ (journal # NoJournal /\ journal.files.failed)
    BY <2>1 DEF Stored
  <2>3. QED
    BY <2>2 DEF Witnessed, Unclaimed, Claims
<1>3. QED
  BY <1>1, <1>2, TypesHold, WitnessStep, PTL DEF Spec

-----------------------------------------------------------------------------
(* What the records say, when every command recovers first                 *)

\* The commands recover before they work, and a write of the journal that reports an
\* error has not replaced it when the transaction commits.
Recovering == "shell" \notin Commands /\ ~CommitFailsLate

\* A journal that recovery rolls back.
Undone(j) == j # NoJournal /\ j.phase = "prepared"

Same(f, g, names) == \A n \in names : f[n] = g[n]

\* The metadata as recovery would leave it, file by file.
StoredIs ==
  /\ Stored.applied = IF Undone(journal) THEN journal.files.applied ELSE files.applied
  /\ Stored.intent = IF Undone(journal) THEN journal.files.intent ELSE files.intent
  /\ Stored.rules = IF Undone(journal) /\ journal.paths = SuccessPaths
                    THEN journal.files.rules ELSE files.rules
  /\ Stored.failed = IF Undone(journal) /\ journal.paths = FailurePaths
                     THEN journal.files.failed ELSE files.failed

\* The setup of the attempt has run to its end.
Complete == guest[setup[1]] = [version |-> setup[2], done |-> TRUE]

\* No command works on metadata that recovery would roll back, and none starts work,
\* or has just recorded it, with an intent pending.
Settled ==
  /\ pc \in {"resolve", "ready", "ssh", "check", "sync", "record", "clear"} =>
       ~Undone(journal)
  /\ pc \in {"ready", "clear"} => files.intent = None

\* The attempt: the intent is that of its setup from the first line of the script, and
\* a setup about to be recorded is complete and alone.
Attempted ==
  /\ started => begun
  /\ pc \in {"ssh", "check"} => files.intent = IF begun THEN setup ELSE None
  /\ pc \in {"sync", "record", "failed"} => Stored.intent = setup
  /\ pc \in {"sync", "record"} /\ ~Stored.failed => Complete /\ running = {}

\* The open transaction: its journal is on disk, and what it writes is the record of
\* its setup.
Opened ==
  pc \in Recording =>
    /\ journal = saved /\ saved.phase = "prepared" /\ update.intent = None
    /\ caller = "success" =>
         /\ saved.paths = SuccessPaths /\ saved.files.intent = setup
         /\ update.applied = [saved.files.applied EXCEPT ![setup[1]] = setup[2]]
         /\ update.rules = saved.files.rules \cup {setup}
         /\ ~Stored.failed => Complete /\ running = {}
    /\ caller # "success" =>
         /\ saved.paths = FailurePaths /\ update.failed
         /\ LET s == IF caller = "failure" THEN setup ELSE saved.files.intent
            IN /\ s \in Setups
               /\ update.applied =
                    [saved.files.applied EXCEPT ![s[1]] = IF @ = s[2] THEN None ELSE @]

\* How far the transaction, or the recovery, has come.
Progress ==
  /\ pc \in {"write", "undo", "recover-files"} => Of(todo) \subseteq Of(saved.paths)
  /\ pc = "write" => Same(files, update, FileNames \ Of(todo))
  /\ pc \in {"undo", "recover-files"} /\ ~errors =>
       Same(files, saved.files, Of(saved.paths) \ Of(todo))
  /\ pc = "undo-clear" => Same(files, saved.files, Of(saved.paths))
  /\ pc \in {"recover-files", "recover-clear"} => journal = saved
  /\ pc = "recover-files" => saved.phase = "prepared"
  /\ pc = "recover-clear" /\ saved.phase = "prepared" =>
       Same(files, saved.files, Of(saved.paths))

\* The record of a setup is what its scripts have left in the image.
Matches(n) ==
  /\ Stored.applied[n] = guest[n].version
  /\ Stored.applied[n] # None =>
       guest[n].done /\ <<n, Stored.applied[n]>> \in Stored.rules

\* Without a failure note, only the setup of the pending intent may run or disagree
\* with its record.
Sound ==
  ~Stored.failed =>
    /\ running \subseteq {Stored.intent}
    /\ \A n \in Names : Matches(n) \/ (Stored.intent # None /\ n = Stored.intent[1])

Inv == TypeInv /\ Settled /\ Attempted /\ Opened /\ Progress /\ Sound

\* Stored, file by file.
LEMMA StoredFields ==
  ASSUME NEW f \in Files, NEW j \in Journals \cup {NoJournal}, NEW g,
         g = IF j = NoJournal \/ j.phase = "committed" THEN f
             ELSE [n \in DOMAIN f |-> IF \E i \in 1..3 : j.paths[i] = n THEN j.files[n] ELSE f[n]]
  PROVE  /\ g.applied = IF Undone(j) THEN j.files.applied ELSE f.applied
         /\ g.intent = IF Undone(j) THEN j.files.intent ELSE f.intent
         /\ g.rules = IF Undone(j) /\ j.paths = SuccessPaths THEN j.files.rules ELSE f.rules
         /\ g.failed = IF Undone(j) /\ j.paths = FailurePaths THEN j.files.failed ELSE f.failed
<1>1. DOMAIN f = FileNames
  BY DEF Files, FileNames
<1>2. CASE j = NoJournal \/ j.phase = "committed"
  BY <1>2 DEF Undone
<1>3. CASE j # NoJournal /\ j.phase # "committed"
  <2>1. j \in Journals /\ j.phase = "prepared" /\ Undone(j)
    BY <1>3 DEF Journals, Undone
  <2>2. \A n \in FileNames : g[n] = IF \E i \in 1..3 : j.paths[i] = n THEN j.files[n] ELSE f[n]
    BY <1>1, <1>3
  <2>3. CASE j.paths = SuccessPaths
    <3>1. /\ j.paths[1] = "rules" /\ j.paths[2] = "applied" /\ j.paths[3] = "intent"
      BY <2>3 DEF SuccessPaths
    <3>2. \A n : (\E i \in 1..3 : j.paths[i] = n) <=> n \in {"rules", "applied", "intent"}
      BY <3>1
    <3>3. QED
      BY <2>1, <2>2, <2>3, <3>2, PathsNameFiles DEF FileNames
  <2>4. CASE j.paths = FailurePaths
    <3>1. /\ j.paths[1] = "applied" /\ j.paths[2] = "failed" /\ j.paths[3] = "intent"
      BY <2>4 DEF FailurePaths
    <3>2. \A n : (\E i \in 1..3 : j.paths[i] = n) <=> n \in {"applied", "failed", "intent"}
      BY <3>1
    <3>3. QED
      BY <2>1, <2>2, <2>4, <3>2, PathsNameFiles DEF FileNames
  <2>5. QED
    BY <2>1, <2>3, <2>4 DEF Journals
<1>4. QED
  BY <1>2, <1>3

\* Stored, file by file, in any state and in the next one.
LEMMA StoredForms ==
  /\ TypeInv => StoredIs
  /\ TypeInv' => StoredIs'
<1>1. TypeInv => StoredIs
  BY StoredFields DEF TypeInv, RecordsOK, StoredIs, Stored
<1>2. TypeInv' => StoredIs'
  BY StoredFields DEF TypeInv, RecordsOK, StoredIs, Stored
<1>3. QED
  BY <1>1, <1>2

StoredStays ==
  /\ Stored'.applied = Stored.applied /\ Stored'.intent = Stored.intent
  /\ Stored'.rules = Stored.rules /\ Stored'.failed = Stored.failed

\* A file written while the journal would restore it changes nothing that counts.
LEMMA WritesUnderJournal ==
  ASSUME TypeInv, TypeInv', NEW content \in {saved.files, update}, todo # <<>>,
         Written(Head(todo), content) \/ UNCHANGED files, UNCHANGED journal,
         journal = saved, saved.phase = "prepared", Of(todo) \subseteq Of(saved.paths)
  PROVE  StoredStays
<1>1. content \in Files /\ files \in Files /\ Head(todo) \in FileNames
      /\ Head(todo) \in Of(saved.paths)
  BY RestMoves DEF TypeInv, RecordsOK, TransactionOK, Journals
<1>2. CASE UNCHANGED files
  BY <1>2 DEF StoredStays, Stored
<1>3. CASE Written(Head(todo), content)
  <2>1. /\ files'.applied = IF Head(todo) = "applied" THEN content.applied ELSE files.applied
        /\ files'.rules = IF Head(todo) = "rules" THEN content.rules ELSE files.rules
        /\ files'.failed = IF Head(todo) = "failed" THEN content.failed ELSE files.failed
        /\ files'.intent = IF Head(todo) = "intent" THEN content.intent ELSE files.intent
    BY <1>1, <1>3, FileWritten DEF Written
  <2>2. Undone(journal) /\ saved.paths \in {SuccessPaths, FailurePaths}
    BY JournalAssumption DEF Undone, TypeInv, TransactionOK, Journals, JournalAssumption
  <2>3. StoredIs /\ StoredIs'
    BY StoredForms
  <2>4. CASE saved.paths = SuccessPaths
    <3>1. Head(todo) # "failed"
      BY <1>1, <2>4, PathsNameFiles
    <3>2. QED
      BY <2>1, <2>2, <2>3, <2>4, <3>1, PathsNameFiles DEF StoredIs, StoredStays
  <2>5. CASE saved.paths = FailurePaths
    <3>1. Head(todo) # "rules"
      BY <1>1, <2>5, PathsNameFiles
    <3>2. QED
      BY <2>1, <2>2, <2>3, <2>5, <3>1, PathsNameFiles DEF StoredIs, StoredStays
  <2>6. QED
    BY <2>2, <2>4, <2>5
<1>4. QED
  BY <1>2, <1>3

\* A journal written before the first file, of the files as they are.
LEMMA OpensUnchanged ==
  ASSUME TypeInv, TypeInv', NEW who, NEW paths \in {SuccessPaths, FailurePaths}, NEW contents,
         Open(who, paths, contents)
  PROVE  StoredStays
<1> DEFINE prepared == [phase |-> "prepared", files |-> files, paths |-> paths]
<1>1. CASE UNCHANGED <<files, journal>>
  BY <1>1 DEF StoredStays, Stored
<1>2. CASE UNCHANGED files /\ journal = NoJournal /\ journal' = prepared
  <2>1. StoredIs /\ StoredIs'
    BY StoredForms
  <2>2. journal'.files = files /\ ~Undone(journal)
    BY <1>2 DEF Undone
  <2>3. QED
    BY <1>2, <2>1, <2>2 DEF StoredIs, StoredStays
<1>3. QED
  BY <1>1, <1>2 DEF Open, JournalFails

\* A journal removed when the files are what it would restore.
LEMMA ClearsUnchanged ==
  ASSUME TypeInv, TypeInv', UNCHANGED files, UNCHANGED journal \/ journal' = NoJournal,
         Undone(journal) => Same(files, journal.files, Of(journal.paths))
  PROVE  StoredStays
<1>1. CASE UNCHANGED journal
  BY <1>1 DEF StoredStays, Stored
<1>2. CASE journal' = NoJournal
  <2>1. StoredIs /\ StoredIs' /\ ~Undone(journal')
    BY <1>2, StoredForms DEF Undone
  <2>2. CASE ~Undone(journal)
    BY <2>1, <2>2 DEF StoredIs, StoredStays
  <2>3. CASE Undone(journal)
    <3>1. journal.paths \in {SuccessPaths, FailurePaths}
      BY <2>3 DEF Undone, TypeInv, RecordsOK, Journals
    <3>2. /\ files.applied = journal.files.applied /\ files.intent = journal.files.intent
          /\ journal.paths = SuccessPaths => files.rules = journal.files.rules
          /\ journal.paths = FailurePaths => files.failed = journal.files.failed
      BY <2>3, <3>1, PathsNameFiles DEF Same
    <3>3. QED
      BY <2>1, <2>3, <3>1, <3>2, PathsNameFiles DEF StoredIs, StoredStays
  <2>4. QED
    BY <2>2, <2>3
<1>3. QED
  BY <1>1, <1>2

\* What recovery would leave changes only as the script announces itself and as a
\* transaction commits.
LEMMA StoredStands ==
  ASSUME Inv, TypeInv', Next, ~ScriptBegins, ~(Commit /\ pc' = "clear"), ~CommitFailsLate
  PROVE  StoredStays
<1>1. CASE UNCHANGED <<files, journal>>
  BY <1>1 DEF StoredStays, Stored
<1>2. CASE StartCommand \/ RecoverNothing \/ ReadJournal \/ FilesRecovered \/ ResolveNothing
  BY <1>1, <1>2
  DEF StartCommand, RecoverNothing, ReadJournal, FilesRecovered, ResolveNothing
<1>3. CASE ChooseSetup \/ EndCommand \/ MarkerSeen \/ ScriptEnds \/ ScriptSucceeds \/ ScriptFails
  BY <1>1, <1>3
  DEF ChooseSetup, EndCommand, MarkerSeen, ScriptEnds, ScriptSucceeds, ScriptFails
<1>4. CASE CheckIntent \/ Sync \/ Crash \/ FilesUndone
  BY <1>1, <1>4 DEF CheckIntent, Sync, Crash, FilesUndone
<1>5. CASE RecoverFile \/ UndoFile
  BY <1>5, WritesUnderJournal
  DEF RecoverFile, UndoFile, Restore, Inv, Progress, Opened, Recording
<1>6. CASE WriteFile
  BY <1>6, WritesUnderJournal DEF WriteFile, Inv, Progress, Opened, Recording
<1>7. CASE Resolve \/ RecordSuccess \/ RecordFailure
  <2>1. CASE Resolve
    BY <2>1, OpensUnchanged DEF Resolve, Inv
  <2>2. CASE RecordSuccess
    BY <2>2, OpensUnchanged DEF RecordSuccess, Inv
  <2>3. CASE RecordFailure
    BY <2>3, OpensUnchanged DEF RecordFailure, Inv
  <2>4. QED
    BY <1>7, <2>1, <2>2, <2>3
<1>8. CASE RecoverClear
  BY <1>8, ClearsUnchanged DEF RecoverClear, JournalFails, Inv, Progress, Undone
<1>9. CASE Clear
  BY <1>9, ClearsUnchanged DEF Clear, JournalFails, Inv, Settled
<1>10. CASE UndoClear
  BY <1>10, ClearsUnchanged DEF UndoClear, JournalFails, Inv, Progress, Opened, Recording
<1>11. CASE Commit
  BY <1>1, <1>11 DEF Commit, Goto
<1>12. QED
  BY <1>2, <1>3, <1>4, <1>5, <1>6, <1>7, <1>8, <1>9, <1>10, <1>11 DEF Next

\* The commit makes the update what counts.
LEMMA StoredCommits ==
  ASSUME Inv, TypeInv', Commit, pc' = "clear", ~CommitFailsLate
  PROVE  /\ ~Undone(journal') /\ UNCHANGED <<files, guest, running, setup, caller>>
         /\ files.applied = update.applied /\ files.rules = update.rules
         /\ files.failed = update.failed /\ files.intent = None
         /\ Stored'.applied = update.applied /\ Stored'.rules = update.rules
         /\ Stored'.failed = update.failed /\ Stored'.intent = None
         /\ Stored.applied = saved.files.applied /\ Stored.intent = saved.files.intent
         /\ caller = "success" =>
              Stored.rules = saved.files.rules /\ Stored.failed = update.failed
<1>1. /\ pc = "write" /\ todo = <<>> /\ UNCHANGED <<files, image, attempt, transaction>>
      /\ journal' = [saved EXCEPT !.phase = "committed"]
  BY DEF Commit, Undo, Goto
<1>2. saved \in Journals /\ saved.phase = "prepared" /\ journal = saved /\ update.intent = None
  BY <1>1 DEF Inv, Opened, Recording, TypeInv, TransactionOK
<1>3. Undone(journal) /\ ~Undone(journal')
  BY <1>1, <1>2, JournalAssumption DEF Undone, Journals, JournalAssumption
<1>4. Same(files, update, FileNames)
  BY <1>1, PathsNameFiles DEF Inv, Progress
<1>5. /\ files.applied = update.applied /\ files.rules = update.rules
      /\ files.failed = update.failed /\ files.intent = None
  BY <1>2, <1>4 DEF Same, FileNames
<1>6. StoredIs /\ StoredIs'
  BY StoredForms DEF Inv
<1>7. /\ Stored'.applied = update.applied /\ Stored'.rules = update.rules
      /\ Stored'.failed = update.failed /\ Stored'.intent = None
  BY <1>1, <1>3, <1>5, <1>6 DEF StoredIs
<1>8. Stored.applied = saved.files.applied /\ Stored.intent = saved.files.intent
  BY <1>2, <1>3, <1>6 DEF StoredIs
<1>9. ASSUME caller = "success"
      PROVE  Stored.rules = saved.files.rules /\ Stored.failed = update.failed
  <2>1. saved.paths = SuccessPaths
    BY <1>1, <1>9 DEF Inv, Opened, Recording
  <2>2. QED
    BY <1>2, <1>3, <1>5, <1>6, <2>1, PathsNameFiles DEF StoredIs
<1>10. QED
  BY <1>1, <1>3, <1>5, <1>7, <1>8, <1>9 DEF image, attempt, transaction

\* No script comes to run but one that begins.
LEMMA RunningShrinks ==
  ASSUME Next, ~ScriptBegins
  PROVE  running' \subseteq running
<1>1. CASE RecoverNothing \/ ReadJournal \/ FilesRecovered \/ RecoverClear \/ ResolveNothing
  BY <1>1 DEF RecoverNothing, ReadJournal, FilesRecovered, RecoverClear, ResolveNothing, image
<1>2. CASE RecoverFile \/ UndoFile
  BY <1>2 DEF RecoverFile, UndoFile, Restore, image
<1>3. CASE Resolve \/ RecordSuccess \/ RecordFailure
  BY <1>3 DEF Resolve, RecordSuccess, RecordFailure, Open, image
<1>4. CASE ChooseSetup \/ EndCommand \/ MarkerSeen
  BY <1>4 DEF ChooseSetup, EndCommand, MarkerSeen, image
<1>5. CASE CheckIntent \/ Sync \/ Crash
  BY <1>5 DEF CheckIntent, Sync, Crash, StopTemporaryVM
<1>6. CASE WriteFile \/ Commit \/ Clear \/ FilesUndone \/ UndoClear
  BY <1>6 DEF WriteFile, Commit, Clear, FilesUndone, UndoClear, image
<1>7. CASE StartCommand \/ ScriptEnds \/ ScriptSucceeds \/ ScriptFails
  BY <1>7 DEF StartCommand, ScriptEnds, ScriptSucceeds, ScriptFails
<1>8. QED
  BY <1>1, <1>2, <1>3, <1>4, <1>5, <1>6, <1>7 DEF Next

\* The records agree with the image as long as both stand.
LEMMA SoundStands ==
  ASSUME Sound, StoredStays, guest' = guest, running' \subseteq running
  PROVE  Sound'
BY DEF Sound, Matches, StoredStays

\* The outcome of a script that the pending intent names is open until it is recorded.
LEMMA SoundWhileOpen ==
  ASSUME Inv, StoredStays, NEW s \in running, NEW complete, running' \subseteq running,
         guest' = [guest EXCEPT ![s[1]] = [version |-> s[2], done |-> complete]]
  PROVE  Sound'
<1> SUFFICES ASSUME ~Stored'.failed PROVE Sound'
  BY DEF Sound
<1>1. ~Stored.failed /\ s = Stored.intent /\ s \in Setups
  BY DEF StoredStays, Inv, Sound, TypeInv, ImageOK
<1>2. s # None
  BY <1>1, DirectSetupAssumption DEF DirectSetupAssumption
<1>3. \A n \in Names : n # s[1] => guest'[n] = guest[n]
  BY DEF Inv, TypeInv, ImageOK, Guests
<1>4. ASSUME NEW n \in Names, n # s[1]
      PROVE  Matches(n)'
  BY <1>1, <1>3, <1>4 DEF Inv, Sound, Matches, StoredStays
<1>5. QED
  BY <1>1, <1>2, <1>4 DEF Inv, Sound, StoredStays

\* A script that begins makes its setup the one whose outcome is open.
LEMMA SoundBegins ==
  ASSUME Inv, TypeInv', ScriptBegins
  PROVE  Sound'
<1>1. /\ setup \in Setups /\ files.intent = None /\ ~Undone(journal)
      /\ pc \in {"ssh", "check"}
  BY DEF ScriptBegins, Inv, TypeInv, CommandOK, Working, Attempted, Settled
<1>2. /\ files'.applied = files.applied /\ files'.rules = files.rules
      /\ files'.failed = files.failed /\ files'.intent = setup /\ journal' = journal
  BY DEF ScriptBegins, Inv, TypeInv, RecordsOK, Files
<1>3. /\ Stored'.applied = Stored.applied /\ Stored'.rules = Stored.rules
      /\ Stored'.failed = Stored.failed /\ Stored'.intent = setup /\ Stored.intent = None
  BY <1>1, <1>2, StoredForms DEF Inv, StoredIs
<1>4. setup # None
  BY <1>1, DirectSetupAssumption DEF DirectSetupAssumption
<1> SUFFICES ASSUME ~Stored'.failed PROVE Sound'
  BY DEF Sound
<1>5. running = {}
  BY <1>3, DirectSetupAssumption DEF Inv, Sound, TypeInv, ImageOK, DirectSetupAssumption
<1>6. \A n \in Names : n # setup[1] => guest'[n] = guest[n]
  BY DEF ScriptBegins, Inv, TypeInv, ImageOK, Guests
<1>7. ASSUME NEW n \in Names, n # setup[1]
      PROVE  Matches(n)'
  BY <1>3, <1>6, <1>7 DEF Inv, Sound, Matches
<1>8. running' = {setup}
  BY <1>5 DEF ScriptBegins
<1>9. QED
  BY <1>3, <1>4, <1>7, <1>8 DEF Sound

\* A transaction that commits records what the image has, or that something failed.
LEMMA SoundCommits ==
  ASSUME Inv, TypeInv', Commit, pc' = "clear", ~CommitFailsLate
  PROVE  Sound'
<1>1. pc = "write"
  BY DEF Commit
<1> SUFFICES ASSUME ~Stored'.failed PROVE Sound'
  BY DEF Sound
<1>2. caller = "success" /\ ~Stored.failed
  BY <1>1, StoredCommits DEF Inv, Opened, Recording
<1>3. /\ Complete /\ running = {} /\ Stored.intent = setup /\ setup \in Setups
      /\ update.applied = [Stored.applied EXCEPT ![setup[1]] = setup[2]]
      /\ update.rules = Stored.rules \cup {setup}
  BY <1>1, <1>2, StoredCommits DEF Inv, Opened, Recording, TypeInv, CommandOK
<1>4. setup[1] \in Names /\ setup = <<setup[1], setup[2]>>
  BY <1>3, DirectSetupAssumption DEF DirectSetupAssumption
<1>5. Stored.applied \in [Names -> Versions \cup {None}]
  BY StoredCommits DEF Inv, TypeInv, TransactionOK, Journals, Files
<1>6. /\ Stored'.applied = [Stored.applied EXCEPT ![setup[1]] = setup[2]]
      /\ Stored'.rules = Stored.rules \cup {setup} /\ guest' = guest /\ running' = {}
  BY <1>3, StoredCommits
<1>7. ASSUME NEW n \in Names
      PROVE  Matches(n)'
  <2>1. CASE n = setup[1]
    <3>1. Stored'.applied[n] = setup[2] /\ <<n, setup[2]>> \in Stored'.rules
      BY <1>4, <1>5, <1>6, <2>1
    <3>2. guest'[n].version = setup[2] /\ guest'[n].done
      BY <1>3, <1>6, <2>1 DEF Complete
    <3>3. QED
      BY <3>1, <3>2 DEF Matches
  <2>2. CASE n # setup[1]
    <3>1. Stored'.applied[n] = Stored.applied[n]
      BY <1>5, <1>6, <2>2
    <3>2. Matches(n)
      BY <1>2, <1>3, <2>2 DEF Inv, Sound
    <3>3. QED
      BY <1>6, <3>1, <3>2 DEF Matches
  <2>3. QED
    BY <2>1, <2>2
<1>8. QED
  BY <1>6, <1>7 DEF Sound

\* Every step keeps the records sound.
LEMMA SoundStep ==
  ASSUME Inv, TypeInv', Next, ~CommitFailsLate
  PROVE  Sound'
<1>1. CASE ScriptBegins
  BY <1>1, SoundBegins
<1>2. CASE Commit /\ pc' = "clear"
  BY <1>2, SoundCommits
<1>3. CASE (ScriptEnds \/ ScriptSucceeds) /\ ~ScriptBegins /\ ~(Commit /\ pc' = "clear")
  <2>1. PICK s \in running, complete \in BOOLEAN :
          guest' = [guest EXCEPT ![s[1]] = [version |-> s[2], done |-> complete]]
    BY <1>3 DEF ScriptEnds, ScriptSucceeds
  <2>2. StoredStays /\ running' \subseteq running
    BY <1>3, StoredStands, RunningShrinks
  <2>3. QED
    BY <2>1, <2>2, SoundWhileOpen
<1>4. CASE ~(ScriptBegins \/ ScriptEnds \/ ScriptSucceeds) /\ ~(Commit /\ pc' = "clear")
  BY <1>4, StoredStands, RunningShrinks, GuestStands, SoundStands DEF Inv
<1>5. QED
  BY <1>1, <1>2, <1>3, <1>4

\* Commands that recover first find no journal to roll back when they work.
LEMMA SettledStep ==
  ASSUME Inv, TypeInv', Next, Recovering
  PROVE  Settled'
<1> USE DEF Settled
<1>1. CASE pc' \notin {"resolve", "ready", "ssh", "check", "sync", "record", "clear"}
  BY <1>1
<1>2. CASE UNCHANGED <<files, journal, pc>>
  BY <1>2 DEF Inv
<1>3. CASE StartCommand
  BY <1>1, <1>3 DEF StartCommand, Goto, Recovering
<1>4. CASE RecoverNothing \/ ResolveNothing
  BY <1>4 DEF RecoverNothing, ResolveNothing, Goto, Undone, Inv
<1>5. CASE ReadJournal \/ FilesRecovered \/ EndCommand \/ Crash
  BY <1>1, <1>5 DEF ReadJournal, FilesRecovered, EndCommand, Crash, Goto, Finish
<1>6. CASE RecoverFile \/ UndoFile
  BY <1>1, <1>6 DEF RecoverFile, UndoFile, Restore
<1>7. CASE RecoverClear
  BY <1>1, <1>7 DEF RecoverClear, Goto, Finish, Undone
<1>8. CASE Resolve \/ RecordSuccess \/ RecordFailure
  BY <1>1, <1>8 DEF Resolve, RecordSuccess, RecordFailure, Open, Goto, Finish
<1>9. CASE ChooseSetup \/ ScriptSucceeds \/ ScriptFails \/ Sync
  <2>1. pc \in {"ready", "ssh", "sync"} /\ pc' # "ready" /\ pc' # "clear"
    BY <1>9 DEF ChooseSetup, ScriptSucceeds, ScriptFails, Sync, Goto, Finish
  <2>2. UNCHANGED journal
    BY <1>9 DEF ChooseSetup, ScriptSucceeds, ScriptFails, Sync
  <2>3. QED
    BY <2>1, <2>2 DEF Inv
<1>10. CASE ScriptBegins
  BY <1>10 DEF ScriptBegins, Inv
<1>11. CASE MarkerSeen \/ ScriptEnds
  BY <1>2, <1>11 DEF MarkerSeen, ScriptEnds, attempt
<1>12. CASE CheckIntent
  BY <1>1, <1>12 DEF CheckIntent, Goto, Finish
<1>13. CASE WriteFile \/ FilesUndone \/ UndoClear
  BY <1>1, <1>13 DEF WriteFile, FilesUndone, UndoClear, AfterError, Undo, Goto, Finish
<1>14. CASE Commit
  <2>1. CASE pc' = "clear"
    BY <1>14, <2>1, StoredCommits DEF Recovering
  <2>2. CASE pc' = "undo"
    BY <1>1, <2>2
  <2>3. QED
    BY <1>14, <2>1, <2>2 DEF Commit, Undo, Goto
<1>15. CASE Clear
  <2>1. UNCHANGED files /\ files.intent = None /\ ~Undone(journal)
    BY <1>15 DEF Clear, Inv
  <2>2. ~Undone(journal') /\ pc' \in {"idle", "ready"}
    BY <1>15, <2>1 DEF Clear, JournalFails, Undone, AfterSuccess, Goto, Finish
  <2>3. QED
    BY <2>1, <2>2
<1>16. QED
  BY <1>3, <1>4, <1>5, <1>6, <1>7, <1>8, <1>9, <1>10, <1>11, <1>12, <1>13, <1>14, <1>15
  DEF Next

\* Out of an attempt there is nothing to say of one.
LEMMA NoAttempt ==
  ASSUME Attempted, pc' \notin Working, UNCHANGED <<started, begun>> \/ Finish
  PROVE  Attempted'
BY DEF Attempted, Working, Finish

\* An attempt that goes on to a record or to its failure, with what counts unchanged.
LEMMA AttemptGoesOn ==
  ASSUME Attempted, StoredStays, UNCHANGED <<attempt, guest>>, running' \subseteq running,
         \/ pc' = "failed" /\ Stored.intent = setup
         \/ pc = "sync" /\ pc' = "record"
  PROVE  Attempted'
BY DEF Attempted, StoredStays, Complete, attempt

\* Every step keeps the attempt and its intent together.
LEMMA AttemptedStep ==
  ASSUME Inv, TypeInv', Next, ~CommitFailsLate
  PROVE  Attempted'
<1>1. StoredIs /\ StoredIs' /\ Attempted
  BY StoredForms DEF Inv
<1>2. CASE StartCommand
  BY <1>1, <1>2, NoAttempt DEF StartCommand, Goto, Working
<1>3. CASE RecoverNothing \/ ReadJournal \/ ResolveNothing
  BY <1>1, <1>3, NoAttempt DEF RecoverNothing, ReadJournal, ResolveNothing, Goto, Working, attempt
<1>4. CASE FilesRecovered \/ RecoverClear
  BY <1>1, <1>4, NoAttempt DEF FilesRecovered, RecoverClear, Goto, Working, Finish, attempt
<1>5. CASE RecoverFile \/ UndoFile
  BY <1>1, <1>5, NoAttempt DEF RecoverFile, UndoFile, Restore, Working, attempt
<1>6. CASE EndCommand \/ Crash
  BY <1>1, <1>6, NoAttempt DEF EndCommand, Crash, Working, Finish
<1>7. CASE WriteFile \/ Commit
  BY <1>1, <1>7, NoAttempt
  DEF WriteFile, Commit, Undo, Goto, Working, attempt
<1>8. CASE Clear
  BY <1>1, <1>8, NoAttempt DEF Clear, AfterSuccess, Goto, Working, Finish, attempt
<1>9. CASE ChooseSetup
  BY <1>9 DEF ChooseSetup, Goto, Attempted, Inv, Settled
<1>10. CASE ScriptBegins
  <2>1. files'.intent = setup
    BY <1>10 DEF ScriptBegins, Inv, TypeInv, RecordsOK, Files
  <2>2. QED
    BY <1>1, <1>10, <2>1 DEF ScriptBegins, Attempted
<1>11. CASE MarkerSeen
  BY <1>1, <1>11 DEF MarkerSeen, Attempted
<1>12. CASE ScriptEnds /\ ~ScriptBegins /\ ~(Commit /\ pc' = "clear")
  <2>1. StoredStays /\ UNCHANGED <<files, pc, attempt>>
    BY <1>12, StoredStands DEF ScriptEnds
  <2>2. running # {} /\ running' \subseteq running
    BY <1>12 DEF ScriptEnds
  <2>3. QED
    BY <1>1, <2>1, <2>2 DEF Attempted, StoredStays, attempt
<1>13. CASE ScriptSucceeds
  <2>1. /\ pc = "ssh" /\ files.intent = setup /\ Stored.intent = setup /\ setup \in Setups
        /\ begun
    BY <1>1, <1>13
    DEF ScriptSucceeds, Attempted, Inv, Settled, StoredIs, TypeInv, CommandOK, Working
  <2>2. Stored' = Stored /\ UNCHANGED <<setup, started, begun>> /\ pc' = "sync"
    BY <1>13, <2>1 DEF ScriptSucceeds, Goto, attempt, Stored
  <2>3. Complete'
    BY <1>13, <2>1, DirectSetupAssumption
    DEF ScriptSucceeds, Complete, attempt, Inv, TypeInv, ImageOK, Guests, DirectSetupAssumption
  <2>4. ~Stored.failed => running' = {}
    BY <1>13, <2>1 DEF ScriptSucceeds, Inv, Sound
  <2>5. QED
    BY <1>1, <2>1, <2>2, <2>3, <2>4 DEF Attempted
<1>14. CASE ScriptFails
  BY <1>1, <1>14 DEF ScriptFails, Goto, Attempted, attempt
<1>15. CASE CheckIntent
  <2>1. CASE Finish
    BY <1>1, <2>1, NoAttempt DEF Finish, Working
  <2>2. CASE Goto("failed") /\ UNCHANGED attempt /\ (started \/ files.intent # None)
    <3>1. Stored.intent = setup
      BY <1>1, <1>15, <2>2 DEF CheckIntent, Attempted, Inv, Settled, StoredIs
    <3>2. StoredStays /\ guest' = guest /\ running' \subseteq running
      BY <1>15 DEF CheckIntent, StoredStays, Stored, StopTemporaryVM
    <3>3. QED
      BY <1>1, <2>2, <3>1, <3>2, AttemptGoesOn DEF Goto
  <2>3. QED
    BY <1>15, <2>1, <2>2 DEF CheckIntent
<1>16. CASE Sync
  <2>1. CASE Finish
    BY <1>1, <2>1, NoAttempt DEF Finish, Working
  <2>2. CASE (Goto("failed") \/ Goto("record")) /\ UNCHANGED attempt
    <3>1. StoredStays /\ guest' = guest /\ running' \subseteq running
      BY <1>16 DEF Sync, StoredStays, Stored, StopTemporaryVM
    <3>2. QED
      BY <1>1, <1>16, <2>2, <3>1, AttemptGoesOn DEF Goto, Sync, Attempted
  <2>3. QED
    BY <1>16, <2>1, <2>2 DEF Sync
<1>17. CASE RecordSuccess
  <2>1. StoredStays /\ UNCHANGED image
    BY <1>17, OpensUnchanged DEF RecordSuccess, Open, Inv
  <2>2. CASE Goto("failed") /\ UNCHANGED attempt
    BY <1>1, <1>17, <2>1, <2>2, AttemptGoesOn DEF RecordSuccess, Goto, Attempted, image
  <2>3. CASE Goto("write") /\ UNCHANGED attempt
    BY <1>1, <2>3, NoAttempt DEF Goto, Working, attempt
  <2>4. QED
    BY <1>17, <2>2, <2>3 DEF RecordSuccess, Open
<1>18. CASE RecordFailure \/ Resolve
  <2>1. CASE Finish
    BY <1>1, <2>1, NoAttempt DEF Finish, Working
  <2>2. CASE Goto("write") /\ UNCHANGED attempt
    BY <1>1, <2>2, NoAttempt DEF Goto, Working, attempt
  <2>3. QED
    BY <1>18, <2>1, <2>2 DEF RecordFailure, Resolve, Open
<1>19. CASE (FilesUndone \/ UndoClear) /\ ~ScriptBegins /\ ~(Commit /\ pc' = "clear")
  <2>1. CASE Finish
    BY <1>1, <2>1, NoAttempt DEF Finish, Working
  <2>2. CASE Goto("undo-clear") /\ UNCHANGED attempt
    BY <1>1, <2>2, NoAttempt DEF Goto, Working, attempt
  <2>3. CASE Goto("failed") /\ UNCHANGED attempt /\ caller = "success"
    <3>1. pc \in Recording /\ UNCHANGED image
      BY <1>19 DEF FilesUndone, UndoClear, Recording
    <3>2. Stored.intent = setup
      BY <1>1, <2>3, <3>1, JournalAssumption
      DEF Inv, Opened, StoredIs, Undone, TypeInv, TransactionOK, JournalAssumption
    <3>3. StoredStays
      BY <1>19, StoredStands
    <3>4. QED
      BY <1>1, <2>3, <3>1, <3>2, <3>3, AttemptGoesOn DEF Goto, image
  <2>4. QED
    BY <1>19, <2>1, <2>2, <2>3 DEF FilesUndone, UndoClear, AfterError
<1>20. QED
  BY <1>2, <1>3, <1>4, <1>5, <1>6, <1>7, <1>8, <1>9, <1>10, <1>11, <1>12, <1>13, <1>14, <1>15,
     <1>16, <1>17, <1>18, <1>19 DEF Next

\* Every step keeps the journal and the update of an open transaction.
LEMMA OpenedStep ==
  ASSUME Inv, TypeInv', Next, ~CommitFailsLate
  PROVE  Opened'
<1>1. StoredIs /\ StoredIs'
  BY StoredForms DEF Inv
<1>2. CASE pc' \notin Recording
  BY <1>2 DEF Opened
<1>3. ASSUME pc \in Recording, UNCHANGED <<journal, saved, update, caller, setup>>, StoredStays,
             UNCHANGED guest \/ running # {}, running' \subseteq running
      PROVE  Opened'
  <2>1. Stored'.failed = Stored.failed
    BY <1>3 DEF StoredStays
  <2>2. ~Stored.failed /\ caller = "success" => UNCHANGED guest /\ running = {}
    BY <1>3 DEF Inv, Opened
  <2>3. QED
    BY <1>3, <2>1, <2>2 DEF Inv, Opened, Complete
<1>4. CASE StartCommand \/ RecoverNothing \/ ReadJournal \/ ResolveNothing
  BY <1>2, <1>4
  DEF StartCommand, RecoverNothing, ReadJournal, ResolveNothing, Goto, Recording
<1>5. CASE FilesRecovered \/ RecoverClear
  BY <1>2, <1>5 DEF FilesRecovered, RecoverClear, Goto, Finish, Recording
<1>6. CASE RecoverFile
  BY <1>2, <1>6 DEF RecoverFile, Restore, Recording
<1>7. CASE EndCommand \/ Crash
  BY <1>2, <1>7 DEF EndCommand, Crash, Finish, Recording
<1>8. CASE ChooseSetup \/ MarkerSeen \/ ScriptSucceeds \/ ScriptFails
  BY <1>2, <1>8 DEF ChooseSetup, MarkerSeen, ScriptSucceeds, ScriptFails, Goto, Recording
<1>9. CASE ScriptBegins
  BY <1>2, <1>9 DEF ScriptBegins, Recording
<1>10. CASE CheckIntent \/ Sync
  BY <1>2, <1>10 DEF CheckIntent, Sync, Goto, Finish, Recording
<1>11. CASE Clear \/ UndoClear
  BY <1>2, <1>11 DEF Clear, UndoClear, AfterSuccess, AfterError, Goto, Finish, Recording
<1>12. CASE ScriptEnds /\ ~ScriptBegins /\ ~(Commit /\ pc' = "clear")
  <2>1. UNCHANGED <<journal, pc, attempt, transaction>> /\ running # {}
    BY <1>12 DEF ScriptEnds
  <2>2. StoredStays /\ running' \subseteq running
    BY <1>12, StoredStands, RunningShrinks
  <2>3. QED
    BY <1>2, <1>3, <2>1, <2>2 DEF attempt, transaction
<1>13. CASE /\ WriteFile \/ Commit \/ UndoFile \/ FilesUndone
            /\ ~ScriptBegins /\ ~(Commit /\ pc' = "clear") /\ pc' \in Recording
  <2>1. StoredStays
    BY <1>13, StoredStands
  <2>2. pc \in Recording /\ UNCHANGED <<image, journal>>
    BY <1>13, JournalAssumption DEF WriteFile, Commit, UndoFile, Restore, FilesUndone, Recording,
       Goto, Undo
  <2>3. UNCHANGED <<saved, update, caller, setup>>
    <3>1. CASE WriteFile \/ Commit
      BY <3>1 DEF WriteFile, Commit, Undo, attempt, transaction
    <3>2. CASE UndoFile
      BY <3>2 DEF UndoFile, Restore, attempt
    <3>3. CASE FilesUndone
      BY <1>13, <3>3
      DEF FilesUndone, AfterError, Goto, Finish, Recording, attempt, transaction
    <3>4. QED
      BY <1>13, <3>1, <3>2, <3>3
  <2>4. QED
    BY <1>3, <2>1, <2>2, <2>3 DEF image
<1>14. CASE Resolve
  <2>1. files.intent \in Setups
    BY <1>14 DEF Resolve, Inv, TypeInv, RecordsOK, Files
  <2>2. CASE Goto("write")
    <3>1. /\ journal' = saved' /\ saved'.phase = "prepared" /\ saved'.files = files
          /\ saved'.paths = FailurePaths /\ caller' = "resolve"
          /\ update' = WithoutSetup(files.intent)
      BY <1>14, <2>2 DEF Resolve, Open, Finish, Goto
    <3>2. /\ update'.applied = [files.applied EXCEPT ![files.intent[1]] =
                                 IF @ = files.intent[2] THEN None ELSE @]
          /\ update'.failed /\ update'.intent = None
      BY <2>1, <3>1, RecordsAreFiles DEF Inv, TypeInv
    <3>3. QED
      BY <2>1, <3>1, <3>2 DEF Opened
  <2>3. QED
    BY <1>2, <1>14, <2>2 DEF Resolve, Open, Finish, Recording
<1>15. CASE RecordFailure
  <2>1. setup \in Setups
    BY <1>15 DEF RecordFailure, Inv, TypeInv, CommandOK, Working
  <2>2. CASE Goto("write")
    <3>1. /\ journal' = saved' /\ saved'.phase = "prepared" /\ saved'.files = files
          /\ saved'.paths = FailurePaths /\ caller' = "failure" /\ setup' = setup
          /\ update' = WithoutSetup(setup)
      BY <1>15, <2>2 DEF RecordFailure, Open, Finish, Goto, attempt
    <3>2. /\ update'.applied = [files.applied EXCEPT ![setup[1]] =
                                 IF @ = setup[2] THEN None ELSE @]
          /\ update'.failed /\ update'.intent = None
      BY <2>1, <3>1, RecordsAreFiles DEF Inv, TypeInv
    <3>3. QED
      BY <2>1, <3>1, <3>2 DEF Opened
  <2>3. QED
    BY <1>2, <1>15, <2>2 DEF RecordFailure, Open, Finish, Recording
<1>16. CASE RecordSuccess
  <2>1. setup \in Setups /\ pc = "record"
    BY <1>16 DEF RecordSuccess, Inv, TypeInv, CommandOK, Working
  <2>2. CASE Goto("write")
    <3>1. /\ journal' = saved' /\ saved'.phase = "prepared" /\ saved'.files = files
          /\ saved'.paths = SuccessPaths /\ caller' = "success" /\ setup' = setup
          /\ update' = WithSetup(setup) /\ UNCHANGED image
      BY <1>16, <2>2 DEF RecordSuccess, Open, Finish, Goto, attempt
    <3>2. /\ update'.applied = [files.applied EXCEPT ![setup[1]] = setup[2]]
          /\ update'.rules = files.rules \cup {setup} /\ update'.intent = None
      BY <2>1, <3>1, RecordsAreFiles DEF Inv, TypeInv
    <3>3. StoredStays
      BY <1>16, OpensUnchanged DEF RecordSuccess, Inv
    <3>4. files.intent = setup
      BY <1>1, <2>1 DEF Inv, Settled, Attempted, StoredIs
    <3>5. ~Stored'.failed => Complete' /\ running' = {}
      BY <2>1, <3>1, <3>3 DEF Inv, Attempted, StoredStays, Complete, image
    <3>6. QED
      BY <3>1, <3>2, <3>4, <3>5 DEF Opened
  <2>3. QED
    BY <1>2, <1>16, <2>2 DEF RecordSuccess, Open, Goto, Recording
<1>17. QED
  BY <1>2, <1>4, <1>5, <1>6, <1>7, <1>8, <1>9, <1>10, <1>11, <1>12, <1>13, <1>14, <1>15, <1>16
  DEF Next, Recording

\* A file that takes its content from a record agrees with it from then on.
LEMMA SameGrows ==
  ASSUME TypeInv, NEW content \in {saved.files, update}, NEW names \in SUBSET FileNames,
         todo # <<>>, Same(files, content, names \ Of(todo)), Written(Head(todo), content)
  PROVE  Same(files', content, names \ Of(Tail(todo)))
<1>1. content \in Files /\ files \in Files /\ Head(todo) \in FileNames
      /\ Of(Tail(todo)) = Of(todo) \ {Head(todo)}
  BY RestMoves DEF TypeInv, RecordsOK, TransactionOK, Journals
<1>2. \A n \in FileNames : files'[n] = IF n = Head(todo) THEN content[n] ELSE files[n]
  BY <1>1 DEF Written, Files, FileNames
<1>3. QED
  BY <1>1, <1>2 DEF Same

\* The steps of a transaction or of its recovery that the journal is on disk for.
Journaled == {"write", "undo", "undo-clear", "recover-files", "recover-clear"}

\* Restoring a file brings the metadata nearer to the journal.
LEMMA RestoreProgress ==
  ASSUME Inv, TypeInv', NEW step \in {"recover-files", "undo"}, Restore(step)
  PROVE  Progress'
<1>1. /\ pc = step /\ pc' = step /\ todo # <<>> /\ todo' = Tail(todo)
      /\ UNCHANGED <<journal, saved>>
      /\ ~errors' => ~errors /\ Written(Head(todo), saved.files)
  BY DEF Restore
<1>2. Of(todo') \subseteq Of(saved'.paths)
  BY <1>1, RestMoves DEF Inv, TypeInv, TransactionOK, Progress
<1>3. Of(saved.paths) \subseteq FileNames
  BY PathsNameFiles DEF Inv, TypeInv, TransactionOK, Journals, FileNames
<1>4. ~errors' => Same(files', saved'.files, Of(saved'.paths) \ Of(todo'))
  BY <1>1, <1>3, SameGrows DEF Inv, Progress
<1>5. QED
  BY <1>1, <1>2, <1>4 DEF Inv, Progress

\* A transaction that opens has all its files ahead of it.
LEMMA OpenProgress ==
  ASSUME Inv, NEW s \in Setups, Goto("write"), UNCHANGED files,
         \/ todo' = SuccessPaths /\ saved'.paths = SuccessPaths /\ update' = WithSetup(s)
         \/ todo' = FailurePaths /\ saved'.paths = FailurePaths /\ update' = WithoutSetup(s)
  PROVE  Progress'
<1>1. Of(todo') \subseteq Of(saved'.paths)
  OBVIOUS
<1>2. CASE todo' = SuccessPaths
  <2>1. update' = WithSetup(s) /\ FileNames \ Of(todo') = {"failed"}
    BY <1>2, PathsNameFiles DEF FileNames
  <2>2. Same(files', update', FileNames \ Of(todo'))
    BY <2>1, RecordsAreFiles DEF Inv, TypeInv, Same
  <2>3. QED
    BY <1>1, <2>2 DEF Goto, Progress
<1>3. CASE todo' = FailurePaths
  <2>1. update' = WithoutSetup(s) /\ FileNames \ Of(todo') = {"rules"}
    BY <1>3, PathsNameFiles DEF FileNames
  <2>2. Same(files', update', FileNames \ Of(todo'))
    BY <2>1, RecordsAreFiles DEF Inv, TypeInv, Same
  <2>3. QED
    BY <1>1, <2>2 DEF Goto, Progress
<1>4. QED
  BY <1>2, <1>3

\* Every step keeps the account of what is written and restored.
LEMMA ProgressStep ==
  ASSUME Inv, TypeInv', Next
  PROVE  Progress'
<1>1. CASE pc' \notin Journaled
  BY <1>1 DEF Progress, Journaled
<1>2. CASE UNCHANGED <<files, journal, pc, transaction>>
  BY <1>2 DEF Inv, Progress, transaction
<1>3. CASE StartCommand \/ RecoverNothing \/ ResolveNothing
  BY <1>1, <1>3 DEF StartCommand, RecoverNothing, ResolveNothing, Goto, Journaled
<1>4. CASE EndCommand \/ Crash
  BY <1>1, <1>4 DEF EndCommand, Crash, Finish, Journaled
<1>5. CASE ChooseSetup \/ MarkerSeen \/ ScriptSucceeds \/ ScriptFails
  BY <1>1, <1>5 DEF ChooseSetup, MarkerSeen, ScriptSucceeds, ScriptFails, Goto, Journaled
<1>6. CASE ScriptBegins
  BY <1>1, <1>6 DEF ScriptBegins, Journaled
<1>7. CASE CheckIntent \/ Sync
  BY <1>1, <1>7 DEF CheckIntent, Sync, Goto, Finish, Journaled
<1>8. CASE Clear \/ UndoClear
  BY <1>1, <1>8 DEF Clear, UndoClear, AfterSuccess, AfterError, Goto, Finish, Journaled
<1>9. CASE RecoverClear
  BY <1>1, <1>9 DEF RecoverClear, Goto, Finish, Journaled
<1>10. CASE ScriptEnds
  BY <1>2, <1>10 DEF ScriptEnds
<1>11. CASE RecoverFile \/ UndoFile
  BY <1>11, RestoreProgress DEF RecoverFile, UndoFile
<1>12. CASE ReadJournal
  <2>1. /\ journal \in Journals /\ saved' = journal /\ todo' = saved'.paths
        /\ UNCHANGED <<files, journal>>
    BY <1>12 DEF ReadJournal, Inv, TypeInv, RecordsOK
  <2>2. CASE pc' = "recover-clear"
    BY <1>12, <2>1, <2>2 DEF ReadJournal, Goto, Progress, Journals
  <2>3. CASE pc' = "recover-files" /\ journal.phase # "committed"
    BY <2>1, <2>3 DEF Progress, Same, Journals
  <2>4. QED
    BY <1>12, <2>2, <2>3 DEF ReadJournal, Goto
<1>13. CASE FilesRecovered
  <2>1. CASE pc' = "recover-clear" /\ ~errors
    <3>1. pc = "recover-files" /\ todo = <<>> /\ UNCHANGED <<files, journal, saved>>
      BY <1>13, <2>1 DEF FilesRecovered, Finish, transaction
    <3>2. Same(files, saved.files, Of(saved.paths))
      BY <2>1, <3>1, PathsNameFiles DEF Inv, Progress
    <3>3. QED
      BY <2>1, <3>1, <3>2 DEF Inv, Progress
  <2>2. CASE pc' = "idle"
    BY <1>1, <2>2 DEF Journaled
  <2>3. QED
    BY <1>13, <2>1, <2>2 DEF FilesRecovered, Goto, Finish
<1>14. CASE FilesUndone
  <2>1. CASE pc' = "undo-clear" /\ ~errors
    <3>1. pc = "undo" /\ todo = <<>> /\ UNCHANGED <<files, journal, saved>>
      BY <1>14, <2>1 DEF FilesUndone, transaction
    <3>2. Same(files, saved.files, Of(saved.paths))
      BY <2>1, <3>1, PathsNameFiles DEF Inv, Progress
    <3>3. QED
      BY <2>1, <3>1, <3>2 DEF Progress
  <2>2. CASE pc' \in {"idle", "failed"}
    BY <1>1, <2>2 DEF Journaled
  <2>3. QED
    BY <1>14, <2>1, <2>2 DEF FilesUndone, AfterError, Goto, Finish
<1>15. CASE pc' = "undo" /\ Undo
  BY <1>15 DEF Undo, Progress, Same
<1>16. CASE Commit
  BY <1>1, <1>15, <1>16 DEF Commit, Undo, Goto, Journaled
<1>17. CASE WriteFile
  <2>1. CASE Undo
    BY <1>15, <2>1 DEF Undo, Goto
  <2>2. CASE Written(Head(todo), update) /\ todo' = Tail(todo) /\ UNCHANGED <<pc, update, saved>>
    <3>1. pc = "write" /\ todo # <<>>
      BY <1>17 DEF WriteFile
    <3>2. Of(todo') \subseteq Of(saved'.paths)
      BY <2>2, <3>1, RestMoves DEF Inv, TypeInv, TransactionOK, Progress
    <3>3. Same(files', update', FileNames \ Of(todo'))
      BY <2>2, <3>1, SameGrows DEF Inv, Progress
    <3>4. QED
      BY <2>2, <3>1, <3>2, <3>3 DEF Progress
  <2>3. QED
    BY <1>17, <2>1, <2>2 DEF WriteFile
<1>18. CASE Resolve
  <2>1. files.intent \in Setups
    BY <1>18 DEF Resolve, Inv, TypeInv, RecordsOK, Files
  <2>2. CASE Goto("write")
    BY <1>18, <2>1, <2>2, OpenProgress DEF Resolve, Open, Finish, Goto
  <2>3. QED
    BY <1>1, <1>18, <2>2 DEF Resolve, Open, Finish, Journaled
<1>19. CASE RecordSuccess \/ RecordFailure
  <2>1. setup \in Setups
    BY <1>19 DEF RecordSuccess, RecordFailure, Inv, TypeInv, CommandOK, Working
  <2>2. CASE Goto("write")
    BY <1>19, <2>1, <2>2, OpenProgress DEF RecordSuccess, RecordFailure, Open, Finish, Goto
  <2>3. QED
    BY <1>1, <1>19, <2>2 DEF RecordSuccess, RecordFailure, Open, Finish, Goto, Journaled
<1>20. QED
  BY <1>3, <1>4, <1>5, <1>6, <1>7, <1>8, <1>9, <1>10, <1>11, <1>12, <1>13, <1>14, <1>16, <1>17,
     <1>18, <1>19
  DEF Next

-----------------------------------------------------------------------------
(* The theorems                                                            *)

\* A new project has nothing recorded and nothing done.
LEMMA InitInv == Init => Inv
<1>1. SUFFICES ASSUME Init PROVE Inv
  OBVIOUS
<1>2. TypeInv /\ StoredIs
  BY <1>1, InitTypes, StoredForms
<1>3. ~Undone(journal) /\ files = Blank
  BY <1>1 DEF Init, Undone
<1>4. Settled /\ Attempted /\ Opened /\ Progress
  BY <1>1, <1>3 DEF Init, Settled, Attempted, Opened, Progress, Recording
<1>5. Sound
  BY <1>1, <1>2, <1>3 DEF Init, Sound, Matches, StoredIs, Blank
<1>6. QED
  BY <1>2, <1>4, <1>5 DEF Inv

\* Every step keeps the invariant.
LEMMA InvStep ==
  ASSUME Inv, [Next]_vars, Recovering
  PROVE  Inv'
<1>1. CASE Next
  <2>1. TypeInv'
    BY <1>1, TypeStep DEF Inv
  <2>2. QED
    BY <1>1, <2>1, SettledStep, AttemptedStep, OpenedStep, ProgressStep, SoundStep
    DEF Inv, Recovering
<1>2. CASE UNCHANGED vars
  <2>1. TypeInv'
    BY <1>2, TypeStutters DEF Inv
  <2>2. Stored' = Stored
    BY <1>2 DEF vars, Stored
  <2>3. Settled' /\ Progress'
    BY <1>2 DEF vars, transaction, Inv, Settled, Progress
  <2>4. Attempted' /\ Opened'
    BY <1>2, <2>2 DEF vars, image, attempt, transaction, Inv, Attempted, Opened, Complete
  <2>5. Sound'
    BY <1>2, <2>2 DEF vars, image, Inv, Sound, Matches
  <2>6. QED
    BY <2>1, <2>3, <2>4, <2>5 DEF Inv
<1>3. QED
  BY <1>1, <1>2

\* The invariant holds in every state.
LEMMA InvHolds == ASSUME Recovering PROVE Spec => []Inv
<1>1. Inv /\ [Next]_vars => Inv'
  BY InvStep
<1>2. QED
  BY <1>1, InitInv, PTL DEF Spec

\* No setup changes the image silently, whatever crashes and file operations fail, if
\* every command recovers first: what a script has left behind is recorded as applied,
\* or there is a failure note, or the intent that will become the note.
THEOREM NeverSilent == ASSUME Recovering PROVE Spec => []NoSilentSetup
<1>1. Inv => NoSilentSetup
  BY DEF Inv, Sound, Matches, NoSilentSetup
<1>2. QED
  BY <1>1, InvHolds, PTL

\* A setup recorded as applied, with no failure note and no intent, has run to its end
\* in that version and has its firewall rules.
THEOREM RecordsAreComplete == ASSUME Recovering PROVE Spec => []AppliedIsComplete
<1>1. Inv => AppliedIsComplete
  <2> SUFFICES ASSUME Inv, ~Stored.failed, Stored.intent = None,
                      NEW n \in Names, Stored.applied[n] # None
               PROVE  /\ guest[n] = [version |-> Stored.applied[n], done |-> TRUE]
                      /\ <<n, Stored.applied[n]>> \in Stored.rules
    BY DEF AppliedIsComplete
  <2>1. Matches(n)
    BY DEF Inv, Sound
  <2>2. guest[n] \in [version : Versions \cup {None}, done : BOOLEAN]
    BY DEF Inv, TypeInv, ImageOK, Guests
  <2>3. QED
    BY <2>1, <2>2 DEF Matches
<1>2. QED
  BY <1>1, InvHolds, PTL

\* A command starts its own work with no transaction to roll back and no intent to
\* resolve, however its own recovery or its last transaction went.
THEOREM WorkStartsClean == ASSUME Recovering PROVE Spec => []NothingPending
<1>1. Inv => NothingPending
  <2> SUFFICES ASSUME Inv, pc = "ready"
               PROVE  Stored = files /\ files.intent = None
    BY DEF NothingPending
  <2>1. ~Undone(journal) /\ files.intent = None
    BY DEF Inv, Settled
  <2>2. journal = NoJournal \/ journal.phase = "committed"
    BY <2>1 DEF Undone, Inv, TypeInv, RecordsOK, Journals
  <2>3. QED
    BY <2>1, <2>2 DEF Stored
<1>2. QED
  BY <1>1, InvHolds, PTL

\* The record of a setup changes only as a transaction commits.
LEMMA RecordsMove ==
  ASSUME Inv, Inv', [Next]_vars, Recovering, Stored'.applied # Stored.applied
  PROVE  Commit /\ pc' = "clear"
<1>1. CASE UNCHANGED vars
  <2>1. Stored' = Stored
    BY <1>1 DEF vars, Stored
  <2>2. QED
    BY <2>1
<1>2. CASE Next /\ ScriptBegins
  <2>1. files'.applied = files.applied /\ journal' = journal
    BY <1>2 DEF ScriptBegins, Inv, TypeInv, RecordsOK, Files
  <2>2. StoredIs /\ StoredIs'
    BY StoredForms DEF Inv
  <2>3. QED
    BY <2>1, <2>2 DEF StoredIs
<1>3. CASE Next /\ ~ScriptBegins /\ ~(Commit /\ pc' = "clear")
  <2>1. TypeInv' /\ ~CommitFailsLate
    BY DEF Inv, Recovering
  <2>2. StoredStays
    BY <1>3, <2>1, StoredStands
  <2>3. QED
    BY <2>2 DEF StoredStays
<1>4. QED
  BY <1>1, <1>2, <1>3

\* A commit of a success records the setup that has just run.
LEMMA SuccessRecords ==
  ASSUME Inv, TypeInv', Recovering, Commit, pc' = "clear", caller = "success",
         NEW n \in Names, Stored'.applied[n] # Stored.applied[n]
  PROVE  /\ Stored'.applied[n] # None
         /\ ~Stored.failed => guest[n] = [version |-> Stored'.applied[n], done |-> TRUE]
<1>1. pc \in Recording /\ saved.files \in Files
  BY DEF Commit, Recording, Inv, TypeInv, TransactionOK, Journals
<1>2. Stored'.applied = update.applied /\ Stored.applied = saved.files.applied
  BY StoredCommits DEF Recovering
<1>3. update.applied = [saved.files.applied EXCEPT ![setup[1]] = setup[2]]
  BY <1>1 DEF Inv, Opened
<1>4. ~Stored.failed => Complete
  BY <1>1 DEF Inv, Opened
<1>5. setup \in Setups
  BY <1>1 DEF Inv, TypeInv, CommandOK
<1>6. n = setup[1] /\ Stored'.applied[n] = setup[2]
  BY <1>1, <1>2, <1>3 DEF Files
<1>7. setup[2] # None
  BY <1>5, DirectSetupAssumption DEF DirectSetupAssumption
<1>8. QED
  BY <1>4, <1>6, <1>7 DEF Complete

\* A commit of a failure drops the record of the version that failed, and no other.
LEMMA FailureDrops ==
  ASSUME Inv, TypeInv', Recovering, Commit, pc' = "clear", caller # "success",
         NEW n \in Names, Stored'.applied[n] # Stored.applied[n]
  PROVE  /\ Stored'.applied[n] = None
         /\ <<n, Stored.applied[n]>> \in {setup, saved.files.intent}
<1>1. pc \in Recording /\ saved.files \in Files
  BY DEF Commit, Recording, Inv, TypeInv, TransactionOK, Journals
<1>2. Stored'.applied = update.applied /\ Stored.applied = saved.files.applied
  BY StoredCommits DEF Recovering
<1> DEFINE s == IF caller = "failure" THEN setup ELSE saved.files.intent
<1>3. /\ s \in Setups
      /\ update.applied = [saved.files.applied EXCEPT ![s[1]] = IF @ = s[2] THEN None ELSE @]
  BY <1>1 DEF Inv, Opened
<1>4. s \in {setup, saved.files.intent}
  OBVIOUS
<1> HIDE DEF s
<1>5. s = <<s[1], s[2]>>
  BY <1>3, DirectSetupAssumption DEF DirectSetupAssumption
<1>6. n = s[1] /\ Stored.applied[n] = s[2] /\ Stored'.applied[n] = None
  BY <1>1, <1>2, <1>3 DEF Files
<1>7. QED
  BY <1>4, <1>5, <1>6

\* The record of a version goes only for a failed or interrupted run of that version,
\* and comes only with its success (a failure note apart).
THEOREM RecordsFollowRuns == ASSUME Recovering PROVE Spec => RecordFollowsRun
<1>1. ASSUME Inv, Inv', [Next]_vars, NEW n \in Names, Stored'.applied[n] # Stored.applied[n]
      PROVE  IF Stored'.applied[n] = None
             THEN <<n, Stored.applied[n]>> \in {setup, saved.files.intent}
             ELSE Stored.failed
                  \/ guest[n] = [version |-> Stored'.applied[n], done |-> TRUE]
  <2>1. Commit /\ pc' = "clear" /\ TypeInv'
    BY <1>1, RecordsMove DEF Inv
  <2>2. CASE caller = "success"
    BY <1>1, <2>1, <2>2, SuccessRecords
  <2>3. CASE caller # "success"
    BY <1>1, <2>1, <2>3, FailureDrops
  <2>4. QED
    BY <2>2, <2>3
<1>2. Inv /\ Inv' /\ [Next]_vars =>
        [\A n \in Names :
           LET old == Stored.applied[n]
               new == Stored'.applied[n]
           IN new # old => IF new = None THEN <<n, old>> \in {setup, saved.files.intent}
                           ELSE Stored.failed \/ guest[n] = [version |-> new, done |-> TRUE]]_vars
  BY <1>1
<1>3. QED
  BY <1>2, InvHolds, PTL DEF Spec, RecordFollowsRun
=============================================================================
