---------------------- MODULE InstallTransactionProofs ----------------------
(***************************************************************************)
(* Proofs about the installation transaction, for any number of paths,     *)
(* versions, transactions, raising operations and outside changes.         *)
(***************************************************************************)
EXTENDS InstallTransaction, TLAPS

USE InstallAssumption DEF InstallAssumption

(* The type invariant by place: the trees, the two files, the process, the *)
(* bounds and the flag.                                                    *)
Trees == live \in Payload /\ backup \in Payload /\ stage \in Payload /\ before \in Payload
Files == journal \in Journal /\ txn \in Journal /\ marker \in Marker
Place == /\ pc \in {"off", "recover", "clean", "rollback", "decide", "extract",
                    "begin", "path", "verify", "mark", "publish"}
         /\ at \in 0 .. Count + 1 /\ (pc = "path" => at \in Paths)
         /\ caller \in {"recover", "commit"} /\ plan \in Sources
         /\ exit \in {"none", "ready", "error"}
Bounds == lastTx \in Nat /\ faults \in Nat /\ damage \in Nat
Flag == calm \in BOOLEAN

LEMMA Typed == Trees /\ Files /\ Place /\ Bounds /\ Flag <=> TypeOK
BY DEF Trees, Files, Place, Bounds, Flag, TypeOK

(* From the full validation to the answer the marker comes to seal what is *)
(* live, and nothing moves a tree in between.                              *)
Whole == marker.seal = live /\ Valid(live)
Sealing ==
    /\ pc = "mark" => Valid(live)
    /\ pc = "publish" \/ (pc = "clean" /\ caller = "commit") => Whole
    /\ exit = "ready" => pc = "off" /\ Whole

IInv == TypeOK /\ Sealing

USE DEF disk, process, Continue, GoOn, Leave, Raise, Refuse

LEMMA NoFiles == NoJournal \in Journal /\ Nothing \in Payload
BY DEF NoJournal, Journal, Phases, Nothing, Payload, Tree

LEMMA NewJournal ==
    ASSUME NEW n \in Nat, NEW t \in Payload
    PROVE  [tx |-> n, published |-> FALSE, had |-> HadLive(t),
            phase |-> [p \in Paths |-> "pending"]] \in Journal
<1>1. HadLive(t) \in [Paths -> BOOLEAN]
  BY DEF HadLive
<1>2. [p \in Paths |-> "pending"] \in [Paths -> Phases]
  BY DEF Phases
<1> QED
  BY <1>1, <1>2 DEF Journal

LEMMA InitInv == Init => IInv
<1> SUFFICES ASSUME Init PROVE IInv
  OBVIOUS
<1>1. Bounds
  BY DEF Init, Bounds
<1>4. Flag
  BY Zenon DEF Init, Flag
<1>2. Trees /\ Files /\ Place
  BY DEF Init, Trees, Files, Place, NoJournal, NoMarker, Nothing, Payload, Tree, Journal,
         Marker, Phases, Paths
<1>3. Sealing
  BY DEF Init, Sealing
<1> QED
  BY <1>1, <1>2, <1>3, <1>4, Typed DEF IInv

(* Renames, deletions and extractions put trees where trees may be.        *)
LEMMA StepTrees == IInv /\ [Next]_vars => Trees'
<1> SUFFICES ASSUME IInv, [Next]_vars PROVE Trees'
  OBVIOUS
<1> USE Typed DEF IInv, Trees
<1>1. CASE Start \/ Recover \/ RollbackGivesUp \/ RollbackNext \/ AlreadyReady \/ Adopt \/
             NoSource
  BY <1>1 DEF Start, Recover, RollbackGivesUp, RollbackNext, AlreadyReady, Adopt, NoSource
<1>2. CASE BeginRefused \/ Record \/ NextPath \/ Verify \/ Mark \/ Publish \/ Crash
  BY <1>2 DEF BeginRefused, Record, NextPath, Verify, Mark, Publish, Crash
<1>3. CASE RollbackSetAside
  BY <1>3 DEF RollbackSetAside, Payload, Tree
<1>4. CASE RollbackRestore
  BY <1>4 DEF RollbackRestore, Payload, Tree
<1>5. CASE RollbackDone
  BY <1>5, NoFiles DEF RollbackDone
<1>6. CASE CleanSome
  BY <1>6 DEF CleanSome, Remains
<1>7. CASE CleanDone
  BY <1>7, NoFiles DEF CleanDone, AfterClean
<1>8. CASE CleanGivesUp
  BY <1>8 DEF CleanGivesUp, AfterClean, Remains
<1>9. CASE Prepare
  BY <1>9 DEF Prepare, Remains, Nothing, Payload, Tree
<1>10. CASE Extract
  BY <1>10 DEF Extract, Payload, Tree, Place
<1>11. CASE Validate
  BY <1>11 DEF Validate, Remains
<1>12. CASE Begin
  BY <1>12 DEF Begin
<1>13. CASE MoveAside
  BY <1>13 DEF MoveAside, Payload, Tree
<1>14. CASE MoveIn
  BY <1>14 DEF MoveIn, Payload, Tree
<1>15. CASE Touch
  BY <1>15 DEF Touch, Payload, Tree
<1>16. CASE UNCHANGED vars
  BY <1>16 DEF vars
<1> QED
  BY <1>1, <1>2, <1>3, <1>4, <1>5, <1>6, <1>7, <1>8, <1>9, <1>10, <1>11, <1>12, <1>13, <1>14, <1>15, <1>16
     DEF Next, Installer

(* The journal is written whole or not at all, and so is the marker.       *)
LEMMA StepFiles == IInv /\ [Next]_vars => Files'
<1> SUFFICES ASSUME IInv, [Next]_vars PROVE Files'
  OBVIOUS
<1> USE Typed DEF IInv, Files
<1>1. CASE Start \/ Recover \/ RollbackGivesUp \/ RollbackSetAside \/ RollbackRestore \/
             RollbackNext \/ CleanSome
  BY <1>1 DEF Start, Recover, RollbackGivesUp, RollbackSetAside, RollbackRestore,
     RollbackNext, CleanSome
<1>2. CASE AlreadyReady \/ Prepare \/ NoSource \/ Extract \/ Validate \/ BeginRefused \/
             MoveAside
  BY <1>2 DEF AlreadyReady, Prepare, NoSource, Extract, Validate, BeginRefused, MoveAside
<1>3. CASE MoveIn \/ NextPath \/ Verify \/ Crash \/ Touch
  BY <1>3 DEF MoveIn, NextPath, Verify, Crash, Touch
<1>4. CASE RollbackDone
  BY <1>4, NoFiles DEF RollbackDone
<1>5. CASE CleanDone
  BY <1>5, NoFiles DEF CleanDone, AfterClean
<1>6. CASE CleanGivesUp
  BY <1>6 DEF CleanGivesUp, AfterClean
<1>7. CASE Adopt
  BY <1>7 DEF Adopt, Marker, Trees, Bounds
<1>8. CASE Begin
  BY <1>8, NewJournal DEF Begin, Bounds, Trees
<1>9. CASE Record
  BY SMTT(30), <1>9 DEF Record, Journal, NextPhase, Phases
<1>10. CASE Mark
  BY <1>10 DEF Mark, Marker, Journal, Trees
<1>11. CASE Publish
  BY <1>11 DEF Publish, Journal
<1>12. CASE UNCHANGED vars
  BY <1>12 DEF vars
<1> QED
  BY <1>1, <1>2, <1>3, <1>4, <1>5, <1>6, <1>7, <1>8, <1>9, <1>10, <1>11, <1>12
     DEF Next, Installer

(* The course of install_command.                                          *)
LEMMA StepPlace == IInv /\ [Next]_vars => Place'
<1> SUFFICES ASSUME IInv, [Next]_vars PROVE Place'
  OBVIOUS
<1> USE Typed DEF IInv, Place
<1>1. CASE RollbackGivesUp \/ RollbackSetAside \/ RollbackRestore \/ CleanSome \/
             AlreadyReady \/ Adopt \/ Prepare
  BY <1>1 DEF RollbackGivesUp, RollbackSetAside, RollbackRestore, CleanSome, AlreadyReady,
     Adopt, Prepare
<1>2. CASE NoSource \/ Extract \/ Validate \/ BeginRefused \/ Verify \/ Mark \/ Publish
  BY <1>2 DEF NoSource, Extract, Validate, BeginRefused, Verify, Mark, Publish
<1>3. CASE Crash \/ Touch
  BY <1>3 DEF Crash, Touch
<1>4. CASE Start
  BY <1>4 DEF Start, Paths
<1>5. CASE Recover
  BY <1>5 DEF Recover, Paths
<1>6. CASE RollbackNext
  BY <1>6 DEF RollbackNext, Paths, Committing, Rolling, IsLast
<1>7. CASE RollbackDone
  BY <1>7, NoFiles DEF RollbackDone
<1>8. CASE CleanDone
  BY <1>8, NoFiles DEF CleanDone, AfterClean
<1>9. CASE CleanGivesUp
  BY <1>9 DEF CleanGivesUp, AfterClean
<1>10. CASE Begin
  BY <1>10 DEF Begin, Paths, Committing, Rolling, IsLast
<1>11. CASE Record
  BY <1>11 DEF Record, Paths, Committing, Rolling, IsLast
<1>12. CASE MoveAside
  BY <1>12 DEF MoveAside, Paths, Committing, Rolling, IsLast
<1>13. CASE MoveIn
  BY <1>13 DEF MoveIn, Paths, Committing, Rolling, IsLast
<1>14. CASE NextPath
  BY <1>14 DEF NextPath, Paths, Committing, Rolling, IsLast
<1>15. CASE UNCHANGED vars
  BY <1>15 DEF vars
<1> QED
  BY <1>1, <1>2, <1>3, <1>4, <1>5, <1>6, <1>7, <1>8, <1>9, <1>10, <1>11, <1>12, <1>13, <1>14, <1>15
     DEF Next, Installer

(* The bounds are counted up.                                              *)
LEMMA StepBounds == IInv /\ [Next]_vars => Bounds'
<1> SUFFICES ASSUME IInv, [Next]_vars PROVE Bounds'
  OBVIOUS
<1> USE Typed DEF IInv, Bounds
<1>1. CASE Start \/ Recover \/ RollbackGivesUp \/ RollbackSetAside \/ RollbackRestore \/
             RollbackNext \/ CleanSome
  BY <1>1 DEF Start, Recover, RollbackGivesUp, RollbackSetAside, RollbackRestore,
     RollbackNext, CleanSome
<1>2. CASE AlreadyReady \/ Adopt \/ Prepare \/ NoSource \/ Extract \/ Validate \/
             BeginRefused
  BY <1>2 DEF AlreadyReady, Adopt, Prepare, NoSource, Extract, Validate, BeginRefused
<1>3. CASE Record \/ MoveAside \/ MoveIn \/ NextPath \/ Verify \/ Mark \/ Publish
  BY <1>3 DEF Record, MoveAside, MoveIn, NextPath, Verify, Mark, Publish
<1>4. CASE Crash \/ Touch
  BY <1>4 DEF Crash, Touch
<1>5. CASE RollbackDone
  BY <1>5, NoFiles DEF RollbackDone
<1>6. CASE CleanDone
  BY <1>6, NoFiles DEF CleanDone, AfterClean
<1>7. CASE CleanGivesUp
  BY <1>7 DEF CleanGivesUp, AfterClean
<1>8. CASE Begin
  BY <1>8 DEF Begin
<1>9. CASE UNCHANGED vars
  BY <1>9 DEF vars
<1> QED
  BY <1>1, <1>2, <1>3, <1>4, <1>5, <1>6, <1>7, <1>8, <1>9
     DEF Next, Installer

(* One operation raises at most, and it is noted.                          *)
LEMMA StepFlag == IInv /\ [Next]_vars => Flag'
<1> SUFFICES ASSUME IInv, [Next]_vars PROVE Flag'
  OBVIOUS
<1>0. Flag
  BY Typed DEF IInv
<1> USE <1>0 DEF Flag
<1>1. CASE Start \/ Crash \/ Touch \/ UNCHANGED vars
  BY <1>1, Zenon DEF Start, Crash, Touch, vars
<1>2. CASE Installer
  <2>1. CASE Recover \/ RollbackGivesUp \/ RollbackSetAside \/ RollbackRestore \/ RollbackNext
               \/ RollbackDone \/ CleanSome \/ CleanDone \/ CleanGivesUp
    BY <2>1, Zenon DEF Recover, RollbackGivesUp, RollbackSetAside, RollbackRestore, RollbackNext,
       RollbackDone, CleanSome, CleanDone, CleanGivesUp
  <2>2. CASE AlreadyReady \/ Adopt \/ Prepare \/ NoSource \/ Extract \/ Validate
    BY <2>2, Zenon DEF AlreadyReady, Adopt, Prepare, NoSource, Extract, Validate
  <2>3. CASE BeginRefused \/ Begin \/ Record \/ MoveAside \/ MoveIn \/ NextPath
               \/ Verify \/ Mark \/ Publish
    BY <2>3, Zenon DEF BeginRefused, Begin, Record, MoveAside, MoveIn, NextPath, Verify, Mark,
       Publish
  <2> QED
    BY <1>2, <2>1, <2>2, <2>3 DEF Installer
<1> QED
  BY <1>1, <1>2 DEF Next

(* Nothing moves a tree between the validation and the answer.             *)
LEMMA StepSealing == IInv /\ [Next]_vars => Sealing'
<1> SUFFICES ASSUME IInv, [Next]_vars PROVE Sealing'
  OBVIOUS
<1> USE Typed DEF IInv, Sealing, Whole, Place
<1>1. CASE Start \/ Recover \/ CleanSome \/ Adopt \/ Prepare \/ NoSource \/ Extract
  BY <1>1 DEF Start, Recover, CleanSome, Adopt, Prepare, NoSource, Extract
<1>2. CASE Validate \/ BeginRefused \/ Verify \/ Mark \/ Publish \/ Crash \/ Touch
  BY <1>2 DEF Validate, BeginRefused, Verify, Mark, Publish, Crash, Touch
<1>3. CASE RollbackGivesUp
  BY <1>3 DEF RollbackGivesUp, Rolling
<1>4. CASE RollbackSetAside
  BY <1>4 DEF RollbackSetAside, Rolling
<1>5. CASE RollbackRestore
  BY <1>5 DEF RollbackRestore, Rolling
<1>6. CASE RollbackNext
  BY <1>6 DEF RollbackNext, Rolling
<1>7. CASE RollbackDone
  BY <1>7 DEF RollbackDone, Rolling
<1>8. CASE CleanDone
  BY <1>8 DEF CleanDone, AfterClean
<1>9. CASE CleanGivesUp
  BY <1>9 DEF CleanGivesUp, AfterClean
<1>10. CASE AlreadyReady
  BY <1>10 DEF AlreadyReady, Sealed
<1>11. CASE Begin
  BY <1>11 DEF Begin
<1>12. CASE Record
  BY <1>12 DEF Record, Committing
<1>13. CASE MoveAside
  BY <1>13 DEF MoveAside, Committing
<1>14. CASE MoveIn
  BY <1>14 DEF MoveIn, Committing
<1>15. CASE NextPath
  BY <1>15 DEF NextPath, Committing, IsLast
<1>16. CASE UNCHANGED vars
  BY <1>16 DEF vars
<1> QED
  BY <1>1, <1>2, <1>3, <1>4, <1>5, <1>6, <1>7, <1>8, <1>9, <1>10, <1>11, <1>12, <1>13, <1>14, <1>15, <1>16
     DEF Next, Installer

LEMMA StepInv == IInv /\ [Next]_vars => IInv'
BY StepTrees, StepFiles, StepPlace, StepBounds, StepFlag, StepSealing
   DEF IInv, Trees, Files, Place, Bounds, Flag, TypeOK

(* Every reachable state satisfies the invariant.                          *)
THEOREM Invariance == Spec => []IInv
BY InitInv, StepInv, PTL DEF Spec

(* Type correctness of the transaction.                                    *)
THEOREM TypeCorrect == Spec => []TypeOK
BY Invariance, PTL DEF IInv

(* A run that answers "ready" leaves a payload that validates as a whole   *)
(* and a marker that seals it.                                             *)
THEOREM ReadyIsWhole == Spec => []ReadyMeansWhole
<1>1. IInv => ReadyMeansWhole
  BY DEF IInv, Sealing, Whole, ReadyMeansWhole
<1> QED
  BY Invariance, <1>1, PTL

-----------------------------------------------------------------------------
(* Where the trees are.  While a journal is there, a path is as it was, its *)
(* tree lies aside, or the new one has replaced it - the same three places  *)
(* on the way forth and back - unless the marker seals what is live.        *)
SealedNow == marker.tx = journal.tx /\ Sealed(marker, live)

Untouched(p) == live[p] = before[p] /\ backup[p] = NoTree
Aside(p) == live[p] = NoTree /\ backup[p] = before[p]
Replaced(p) == backup[p] = before[p] /\ live[p] # NoTree
Installed(p) == backup[p] = before[p] /\ live[p] = plan

Placed ==
    \A p \in Paths :
        /\ journal.had[p] <=> before[p] # NoTree
        /\ \/ (Untouched(p) \/ Aside(p)) /\ stage[p] # NoTree
           \/ Replaced(p) /\ stage[p] = NoTree

Forward == pc \in {"path", "verify", "mark"}
Held == Forward \/ pc \in {"publish", "rollback", "clean"}

(* Identifiers are given out in order, and only valid payloads are sealed. *)
Numbered ==
    /\ journal.tx <= lastTx /\ marker.tx <= lastTx
    /\ marker.tx # 0 => Valid(marker.seal)

(* The journal object of the process is about the transaction on the disk, *)
(* and without one there is no backup.                                     *)
HeldJournal ==
    /\ Held => journal.tx # 0 /\ txn.tx = journal.tx /\ txn.had = journal.had
    /\ journal.tx = 0 => backup = Nothing

(* From the choice of the plan to the last rename: the trees of the plan   *)
(* are new to the game directory, ...                                      *)
Fresh ==
    /\ pc \in {"extract", "begin"} => \A p \in Paths : live[p] # plan
    /\ pc = "begin" => stage = Staged
    /\ Forward => /\ marker.tx # journal.tx
                  /\ \A p \in Paths : /\ before[p] # plan
                                      /\ stage[p] \in {plan, NoTree}

(* ... and the phase of a path says where its trees are.                   *)
Phased(p) ==
    CASE txn.phase[p] = "pending" -> Untouched(p)
      [] txn.phase[p] = "backup-intent" -> txn.had[p] /\ (Untouched(p) \/ Aside(p))
      [] txn.phase[p] = "backup-skipped" -> ~txn.had[p] /\ Untouched(p)
      [] txn.phase[p] = "backed-up" -> txn.had[p] /\ Aside(p)
      [] txn.phase[p] = "install-intent" -> Aside(p) \/ Installed(p)
      [] OTHER -> Installed(p)

Progress ==
    Forward => \A p \in Paths :
        /\ Phased(p)
        /\ pc = "path" => (p < at => txn.phase[p] = "installed")
                            /\ (p > at => txn.phase[p] = "pending")
        /\ pc # "path" => txn.phase[p] = "installed"

(* A transaction nobody interferes with can always be taken back, from the *)
(* try block of commit_stage and by a later run.                           *)
Recoverable ==
    /\ Forward \/ (pc = "rollback" /\ (caller = "commit" \/ damage = 0)) => Placed
    /\ damage = 0 /\ journal.tx # 0 => Placed \/ SealedNow

(* The paths a rollback has left behind it are as they were.               *)
Behind ==
    pc = "rollback" =>
        /\ \A p \in Paths : p > at => backup[p] = NoTree /\ (txn.had[p] \/ live[p] = NoTree)
        /\ caller = "recover" => ~SealedNow

(* A transaction that is still on the disk when the run prepares another   *)
(* one is published, and its cleanup has failed in this run.               *)
Published ==
    /\ pc \in {"publish", "clean"} => SealedNow
    /\ pc \in {"decide", "extract", "begin"} /\ journal.tx # 0 => SealedNow /\ ~calm
    /\ pc # "off" => exit = "none"

(* No backup can pass for what a marker seals.                             *)
Distinct ==
    marker.tx = journal.tx /\ journal.tx # 0 => \A p \in Paths : backup[p] # marker.seal[p]

TInv == /\ IInv
        /\ Numbered /\ HeldJournal /\ Fresh /\ Progress /\ Recoverable
        /\ Behind /\ Published /\ Distinct /\ CalmRunHeals

(* What the type invariant says of the trees, one by one. *)
LEMMA Shapes ==
    ASSUME IInv
    PROVE  /\ live \in [Paths -> Tree] /\ backup \in [Paths -> Tree]
           /\ stage \in [Paths -> Tree] /\ before \in [Paths -> Tree]
           /\ marker.seal \in [Paths -> Tree]
           /\ journal.tx \in Nat /\ marker.tx \in Nat /\ txn.tx \in Nat
           /\ journal.had \in [Paths -> BOOLEAN] /\ txn.had \in [Paths -> BOOLEAN]
           /\ txn.phase \in [Paths -> Phases]
           /\ plan \in Versions /\ plan # NoTree /\ lastTx \in Nat
BY DEF IInv, TypeOK, Payload, Journal, Marker

LEMMA Empty == NoJournal.tx = 0 /\ \A p \in Paths : Nothing[p] = NoTree
BY DEF NoJournal, Nothing

(* A payload with an empty place validates under no recipe. *)
LEMMA HoleIsInvalid ==
    ASSUME NEW t, NEW p \in Paths, t[p] = NoTree PROVE ~Valid(t)
BY DEF Valid

(* Recording a phase, or that it is published, leaves the rest of a journal. *)
LEMMA Recorded ==
    ASSUME IInv, NEW p \in Paths, NEW f
    PROVE  LET j == [txn EXCEPT !.phase[p] = f]
           IN  /\ j.tx = txn.tx /\ j.had = txn.had
               /\ j.phase = [txn.phase EXCEPT ![p] = f]
BY DEF IInv, TypeOK, Journal

LEMMA MarkedPublished ==
    ASSUME IInv
    PROVE  LET j == [txn EXCEPT !.published = TRUE]
           IN  j.tx = txn.tx /\ j.had = txn.had /\ j.phase = txn.phase
BY DEF IInv, TypeOK, Journal

LEMMA RecordsPhase ==
    ASSUME IInv, Record
    PROVE  /\ txn'.tx = txn.tx /\ txn'.had = txn.had /\ journal' \in {journal, txn'}
           /\ \E p \in Paths : /\ at = p /\ ~RenameDue(p) /\ txn.phase[p] # "installed"
                              /\ txn'.phase = [txn.phase EXCEPT ![p] = NextPhase(p)]
           /\ pc = "path"
<1>1. PICK p \in Paths : /\ Committing(p) /\ ~RenameDue(p) /\ txn.phase[p] # "installed"
                        /\ txn' = [txn EXCEPT !.phase[p] = NextPhase(p)]
  BY DEF Record
<1> QED
  BY ZenonT(30), <1>1, Recorded DEF Record, Committing

LEMMA TStart == Init => TInv
<1> SUFFICES ASSUME Init PROVE TInv
  OBVIOUS
<1>1. IInv
  BY InitInv
<1>2. journal.tx = 0 /\ marker.tx = 0 /\ backup = Nothing /\ lastTx = 0 /\ pc = "off"
  BY DEF Init, NoJournal, NoMarker
<1> QED
  BY <1>1, <1>2 DEF Init, TInv, Numbered, HeldJournal, Fresh, Progress, Recoverable, Behind,
     Published, Distinct, CalmRunHeals, Held, Forward

LEMMA StepNumbered == TInv /\ [Next]_vars => Numbered'
<1> SUFFICES ASSUME TInv, [Next]_vars PROVE Numbered'
  OBVIOUS
<1> USE Shapes, Empty DEF TInv, Numbered
<1>1. CASE UNCHANGED <<journal, marker, lastTx>>
  BY <1>1 DEF Valid
<1>2. CASE RollbackDone \/ CleanDone
  BY <1>2 DEF RollbackDone, CleanDone, Valid
<1>3. CASE Adopt
  BY <1>3 DEF Adopt, Valid
<1>4. CASE Begin
  BY <1>4 DEF Begin, Valid
<1>5. CASE Record
  BY <1>5, RecordsPhase DEF Record, HeldJournal, Held, Forward, Valid
<1>6. CASE Mark
  BY <1>6 DEF Mark, HeldJournal, Held, Forward, IInv, Sealing, Valid
<1>7. CASE Publish
  BY <1>7, MarkedPublished DEF Publish, HeldJournal, Held, Forward, Valid
<1> QED
  BY <1>1, <1>2, <1>3, <1>4, <1>5, <1>6, <1>7 DEF Next, Installer, vars, Start, Crash, Touch,
     Recover, RollbackGivesUp, RollbackSetAside, RollbackRestore, RollbackNext, CleanSome,
     CleanGivesUp, AlreadyReady, Prepare, NoSource, Extract, Validate, BeginRefused, MoveAside,
     MoveIn, NextPath, Verify

LEMMA StepHeldJournal == TInv /\ [Next]_vars => HeldJournal'
<1> SUFFICES ASSUME TInv, [Next]_vars PROVE HeldJournal'
  OBVIOUS
<1> USE Shapes DEF TInv, HeldJournal, Held, Forward
<1>1. CASE Start \/ RollbackGivesUp \/ RollbackSetAside \/ RollbackNext \/ CleanSome \/
           CleanGivesUp \/ AlreadyReady \/ Adopt \/ NoSource \/ Crash \/ Touch \/ UNCHANGED vars
  BY <1>1 DEF Start, RollbackGivesUp, Rolling, RollbackSetAside, RollbackNext, CleanSome,
     CleanGivesUp, AfterClean, AlreadyReady, Adopt, NoSource, Crash, Touch, vars
<1>2. CASE Recover \/ Prepare \/ Extract \/ Validate \/ BeginRefused \/ MoveIn \/ NextPath \/
           Verify \/ Mark
  BY <1>2 DEF Recover, Prepare, Extract, Validate, BeginRefused, MoveIn, NextPath, Verify, Mark,
     Committing
<1>3. CASE RollbackRestore
  BY <1>3 DEF RollbackRestore, Rolling
<1>4. CASE RollbackDone \/ CleanDone
  BY <1>4 DEF RollbackDone, CleanDone, AfterClean
<1>5. CASE Begin
  <2>1. journal' = journal \/ journal' = txn'
    BY <1>5 DEF Begin
  <2>2. txn'.tx # 0 /\ backup' = Nothing
    BY <1>5 DEF Begin
  <2> QED
    BY <1>5, <2>1, <2>2 DEF Begin
<1>6. CASE Record
  BY <1>6, RecordsPhase DEF Record
<1>7. CASE MoveAside
  BY <1>7 DEF MoveAside, Committing
<1>8. CASE Publish
  BY <1>8, MarkedPublished DEF Publish
<1> QED
  BY <1>1, <1>2, <1>3, <1>4, <1>5, <1>6, <1>7, <1>8 DEF Next, Installer

LEMMA StepFresh == TInv /\ [Next]_vars => Fresh'
<1> SUFFICES ASSUME TInv, [Next]_vars PROVE Fresh'
  OBVIOUS
<1> USE Shapes DEF TInv, Fresh, Forward
<1>1. CASE Start \/ Recover \/ RollbackGivesUp \/ RollbackSetAside \/ RollbackRestore \/
           RollbackNext \/ RollbackDone \/ CleanSome \/ CleanDone \/ CleanGivesUp
  BY <1>1 DEF Start, Recover, RollbackGivesUp, RollbackSetAside, RollbackRestore, Rolling,
     RollbackNext, RollbackDone, CleanSome, CleanDone, CleanGivesUp, AfterClean
<1>2. CASE AlreadyReady \/ Adopt \/ NoSource \/ BeginRefused \/ Crash \/ Touch \/ UNCHANGED vars
  BY <1>2 DEF AlreadyReady, Adopt, NoSource, BeginRefused, Crash, Touch, vars, Staged
<1>3. CASE Prepare \/ Extract \/ Validate
  BY <1>3 DEF Prepare, Extract, Validate, Staged
<1>4. CASE Begin
  <2>1. \A p \in Paths : stage[p] = plan
    BY <1>4 DEF Begin, Staged
  <2>2. pc' \in {"path", "off"} /\ before' = live /\ live' = live /\ stage' = stage /\ plan' = plan
        /\ marker' = marker
    BY <1>4 DEF Begin
  <2>3. pc' = "path" => journal'.tx = lastTx + 1
    BY <1>4 DEF Begin
  <2>4. marker.tx < lastTx + 1
    BY DEF Numbered
  <2> QED
    BY <1>4, <2>1, <2>2, <2>3, <2>4 DEF Begin
<1>5. CASE Record
  BY <1>5, RecordsPhase DEF Record, HeldJournal, Held
<1>6. CASE MoveAside \/ MoveIn
  BY <1>6 DEF MoveAside, MoveIn, Committing
<1>7. CASE NextPath \/ Verify \/ Publish
  BY <1>7 DEF NextPath, Verify, Publish, Committing
<1>8. CASE Mark
  BY <1>8 DEF Mark
<1> QED
  BY <1>1, <1>2, <1>3, <1>4, <1>5, <1>6, <1>7, <1>8 DEF Next, Installer

LEMMA StepProgress == TInv /\ [Next]_vars => Progress'
<1> SUFFICES ASSUME TInv, [Next]_vars, Forward' PROVE Progress'
  BY DEF Progress
<1> USE Shapes DEF TInv, Progress, Forward
<1>1. CASE Begin
  <2>1. journal'.tx # 0 /\ txn'.phase = [p \in Paths |-> "pending"] /\ pc' = "path" /\ at' = 1
        /\ before' = live /\ live' = live /\ backup' = Nothing
    BY <1>1 DEF Begin
  <2>2. \A p \in Paths : txn'.phase[p] = "pending" /\ ~(p < at') /\ before'[p] = live'[p] /\ backup'[p] = NoTree
    BY <2>1, Empty DEF Paths
  <2> QED
    BY <2>1, <2>2 DEF Phased, Untouched
<1>2. CASE Record
  <2>1. PICK q \in Paths : /\ at = q /\ ~RenameDue(q) /\ txn.phase[q] # "installed"
                           /\ txn'.phase = [txn.phase EXCEPT ![q] = NextPhase(q)]
    BY <1>2, RecordsPhase
  <2>2. pc = "path" /\ pc' = "path" /\ UNCHANGED <<live, backup, stage, before, at, plan>>
    BY <1>2, RecordsPhase DEF Record
  <2>3. txn'.had = txn.had
    BY <1>2, RecordsPhase
  <2>4. Phased(q)'
    <3>1. Phased(q) /\ txn'.phase[q] = NextPhase(q) /\ txn.phase[q] \in Phases
      BY <2>1, <2>2
    <3>2. stage[q] \in {plan, NoTree}
      BY <2>2 DEF Fresh
    <3>3. Placed
      BY <2>2 DEF Recoverable
    <3>4. txn.had[q] <=> before[q] # NoTree
      BY <2>2, <3>3 DEF Placed, HeldJournal, Held
    <3>5. \/ (Untouched(q) \/ Aside(q)) /\ stage[q] # NoTree
          \/ Replaced(q) /\ stage[q] = NoTree
      BY <3>3 DEF Placed
    <3> QED
      BY <2>1, <2>2, <2>3, <3>1, <3>2, <3>4, <3>5 DEF Phased, NextPhase, RenameDue, Phases,
         Untouched, Aside, Replaced, Installed
  <2>5. \A p \in Paths \ {q} : txn'.phase[p] = txn.phase[p] /\ (Phased(p) => Phased(p)')
    BY <2>1, <2>2, <2>3 DEF Phased, Untouched, Aside, Installed
  <2> QED
    BY <2>1, <2>2, <2>4, <2>5 DEF Paths
<1>3. CASE MoveAside
  <2>1. PICK q \in Paths : /\ at = q /\ pc = "path" /\ txn.phase[q] = "backup-intent" /\ live[q] # NoTree
                           /\ backup' = [backup EXCEPT ![q] = live[q]]
                           /\ live' = [live EXCEPT ![q] = NoTree]
    BY <1>3 DEF MoveAside, RenameDue, Committing
  <2>2. pc' = "path" /\ UNCHANGED <<txn, at, before, plan>>
    BY <1>3, <2>1 DEF MoveAside
  <2>3. Phased(q) /\ Phased(q)'
    BY <2>1, <2>2 DEF Phased, Untouched, Aside, Installed
  <2>4. \A p \in Paths \ {q} : Phased(p) => Phased(p)'
    BY <2>1, <2>2 DEF Phased, Untouched, Aside, Installed
  <2> QED
    BY <2>1, <2>2, <2>3, <2>4
<1>4. CASE MoveIn
  <2>1. PICK q \in Paths : /\ at = q /\ pc = "path" /\ txn.phase[q] = "install-intent" /\ stage[q] # NoTree
                           /\ live' = [live EXCEPT ![q] = stage[q]]
    BY <1>4 DEF MoveIn, RenameDue, Committing
  <2>2. pc' = "path" /\ UNCHANGED <<txn, at, before, backup, plan>>
    BY <1>4, <2>1 DEF MoveIn
  <2>3. stage[q] = plan /\ backup[q] = before[q]
    BY <2>1 DEF Phased, Aside, Installed, Fresh
  <2>4. Phased(q)'
    BY <2>1, <2>2, <2>3 DEF Phased, Installed
  <2>5. \A p \in Paths \ {q} : Phased(p) => Phased(p)'
    BY <2>1, <2>2 DEF Phased, Untouched, Aside, Installed
  <2> QED
    BY <2>1, <2>2, <2>4, <2>5
<1>5. CASE NextPath
  <2>1. at \in Paths /\ pc = "path" /\ txn.phase[at] = "installed" /\ at' = at + 1
        /\ UNCHANGED <<live, backup, stage, before, txn, plan>>
        /\ pc' = IF at = Count THEN "verify" ELSE "path"
    BY <1>5 DEF NextPath, Committing, IsLast
  <2>2. \A p \in Paths : Phased(p)'
    BY <2>1 DEF Phased, Untouched, Aside, Installed
  <2>3. \A p \in Paths : p < at + 1 => txn.phase[p] = "installed"
    <3>1. \A p \in Paths : p < at + 1 => p < at \/ p = at
      BY <2>1 DEF Paths
    <3> QED
      BY <2>1, <3>1
  <2>4. \A p \in Paths : p > at + 1 => txn.phase[p] = "pending"
    BY <2>1 DEF Paths
  <2>5. at = Count => \A p \in Paths : p < at + 1
    BY DEF Paths
  <2> QED
    BY <2>1, <2>2, <2>3, <2>4, <2>5
<1>6. CASE Verify \/ UNCHANGED vars
  <2>1. (pc # "path" /\ Forward) \/ UNCHANGED vars
    BY <1>6 DEF Verify
  <2>2. (pc' # "path" /\ Forward) \/ UNCHANGED vars
    BY <1>6, <2>1 DEF Verify
  <2>3. UNCHANGED <<live, backup, stage, before, txn, plan>>
    BY <1>6 DEF Verify, vars
  <2>4. \A p \in Paths : Phased(p) => Phased(p)'
    BY <2>3 DEF Phased, Untouched, Aside, Installed
  <2> QED
    BY <2>1, <2>2, <2>3, <2>4 DEF vars
<1>7. CASE Mark \/ Publish \/ Start \/ Recover \/ RollbackGivesUp \/ RollbackSetAside
           \/ RollbackRestore \/ RollbackNext \/ RollbackDone \/ CleanSome \/ CleanDone
           \/ CleanGivesUp
  BY <1>7 DEF Mark, Publish, Start, Recover, RollbackGivesUp, RollbackSetAside, RollbackRestore,
     Rolling, RollbackNext, RollbackDone, CleanSome, CleanDone, CleanGivesUp, AfterClean
<1>8. CASE AlreadyReady \/ Adopt \/ Prepare \/ NoSource \/ Extract \/ Validate \/ BeginRefused
           \/ Crash \/ Touch
  BY <1>8 DEF AlreadyReady, Adopt, Prepare, NoSource, Extract, Validate, BeginRefused, Crash,
     Touch
<1> QED
  BY <1>1, <1>2, <1>3, <1>4, <1>5, <1>6, <1>7, <1>8 DEF Next, Installer

(* The three places are closed under the four renames. *)
LEMMA StepPlaced ==
    ASSUME TInv, Placed, journal'.had = journal.had, UNCHANGED before,
           \/ UNCHANGED <<live, backup, stage>>
           \/ RollbackSetAside \/ RollbackRestore \/ MoveAside \/ MoveIn
    PROVE  Placed'
<1> USE Shapes DEF TInv
<1>1. CASE UNCHANGED <<live, backup, stage>>
  BY <1>1 DEF Placed, Untouched, Aside, Replaced
<1>2. CASE RollbackSetAside
  <2>1. PICK q \in Paths : /\ pc = "rollback" /\ ~Stuck(q) /\ Occupied(q)
                           /\ \/ UNCHANGED <<live, stage>>
                              \/ /\ live' = [live EXCEPT ![q] = NoTree]
                                 /\ stage' = [stage EXCEPT ![q] = live[q]]
    BY <1>2 DEF RollbackSetAside, Rolling
  <2>2. backup' = backup /\ txn.had = journal.had
    BY <1>2, <2>1 DEF RollbackSetAside, HeldJournal, Held
  <2>3. CASE live' = [live EXCEPT ![q] = NoTree] /\ stage' = [stage EXCEPT ![q] = live[q]]
    <3>1. live[q] # NoTree /\ (txn.had[q] => backup[q] # NoTree)
      BY <2>1 DEF Occupied
    <3>2. live'[q] = NoTree /\ stage'[q] = live[q]
      BY <2>3, <2>1
    <3>3. \A p \in Paths \ {q} : live'[p] = live[p] /\ stage'[p] = stage[p]
      BY <2>3
    <3> QED
      BY <2>1, <2>2, <3>1, <3>2, <3>3 DEF Placed, Untouched, Aside, Replaced, Stuck
  <2> QED
    BY <1>1, <2>1, <2>2, <2>3
<1>3. CASE RollbackRestore
  <2>1. PICK q \in Paths : /\ pc = "rollback" /\ ~Stuck(q) /\ ~Occupied(q) /\ txn.had[q] /\ backup[q] # NoTree
                           /\ \/ UNCHANGED <<live, backup>>
                              \/ /\ live' = [live EXCEPT ![q] = backup[q]]
                                 /\ backup' = [backup EXCEPT ![q] = NoTree]
    BY <1>3 DEF RollbackRestore, Rolling
  <2>2. stage' = stage
    BY <1>3 DEF RollbackRestore
  <2>3. CASE live' = [live EXCEPT ![q] = backup[q]] /\ backup' = [backup EXCEPT ![q] = NoTree]
    BY <2>1, <2>2, <2>3 DEF Placed, Untouched, Aside, Replaced, Occupied
  <2> QED
    BY <1>1, <2>1, <2>2, <2>3
<1>4. CASE MoveAside
  <2>1. PICK q \in Paths : /\ pc = "path" /\ txn.phase[q] = "backup-intent" /\ live[q] # NoTree
                           /\ \/ UNCHANGED <<live, backup>>
                              \/ /\ backup' = [backup EXCEPT ![q] = live[q]]
                                 /\ live' = [live EXCEPT ![q] = NoTree]
    BY <1>4 DEF MoveAside, RenameDue, Committing
  <2>2. stage' = stage /\ Phased(q)
    BY <1>4, <2>1 DEF MoveAside, Progress, Forward
  <2>3. CASE backup' = [backup EXCEPT ![q] = live[q]] /\ live' = [live EXCEPT ![q] = NoTree]
    BY <2>1, <2>2, <2>3 DEF Placed, Phased, Untouched, Aside, Replaced, Installed
  <2> QED
    BY <1>1, <2>1, <2>2, <2>3
<1>5. CASE MoveIn
  <2>1. PICK q \in Paths : /\ pc = "path" /\ txn.phase[q] = "install-intent" /\ stage[q] # NoTree
                           /\ \/ UNCHANGED <<live, stage>>
                              \/ /\ live' = [live EXCEPT ![q] = stage[q]]
                                 /\ stage' = [stage EXCEPT ![q] = NoTree]
    BY <1>5 DEF MoveIn, RenameDue, Committing
  <2>2. backup' = backup /\ Phased(q)
    BY <1>5, <2>1 DEF MoveIn, Progress, Forward
  <2>3. CASE live' = [live EXCEPT ![q] = stage[q]] /\ stage' = [stage EXCEPT ![q] = NoTree]
    BY <2>1, <2>2, <2>3 DEF Placed, Phased, Untouched, Aside, Replaced, Installed
  <2> QED
    BY <1>1, <2>1, <2>2, <2>3
<1> QED
  BY <1>1, <1>2, <1>3, <1>4, <1>5

LEMMA StepRecoverable == TInv /\ [Next]_vars => Recoverable'
<1> SUFFICES ASSUME TInv, [Next]_vars PROVE Recoverable'
  OBVIOUS
<1> USE Shapes DEF TInv, Recoverable, Forward
<1>1. CASE Start \/ Recover \/ RollbackGivesUp \/ RollbackNext \/ NextPath \/ Verify
           \/ AlreadyReady \/ NoSource \/ BeginRefused \/ Crash \/ UNCHANGED vars
  <2>1. UNCHANGED <<disk, before, damage>>
    BY <1>1 DEF Start, Recover, RollbackGivesUp, RollbackNext, NextPath, Verify, AlreadyReady,
       NoSource, BeginRefused, Crash, vars
  <2>2. (Placed <=> Placed') /\ (SealedNow <=> SealedNow')
    BY <2>1 DEF Placed, Untouched, Aside, Replaced, SealedNow, Sealed, Valid
  <2>3. CASE Recover
    BY <2>1, <2>2, <2>3 DEF Recover, SealedNow
  <2>4. CASE Start \/ RollbackGivesUp \/ RollbackNext \/ NextPath \/ Verify
             \/ AlreadyReady \/ NoSource \/ BeginRefused \/ Crash \/ UNCHANGED vars
    BY <2>1, <2>2, <2>4 DEF Start, RollbackGivesUp, RollbackNext, NextPath, Verify,
       AlreadyReady, NoSource, BeginRefused, Crash, vars, Rolling, Committing
  <2> QED
    BY <1>1, <2>3, <2>4
<1>2. CASE RollbackSetAside \/ RollbackRestore \/ MoveAside \/ MoveIn
  <2>1. UNCHANGED <<journal, marker, before, damage>> /\ journal.tx # 0
        /\ pc' \in {"path", "rollback", "off"} /\ pc \in {"path", "rollback"}
        /\ (pc = "path" => pc' = "path" \/ (pc' = "rollback" /\ caller' = "commit"))
        /\ (pc = "rollback" => pc' = "off" \/ (pc' = "rollback" /\ caller' = caller))
    <3>1. CASE RollbackSetAside
      BY <3>1 DEF RollbackSetAside, Rolling, HeldJournal, Held
    <3>2. CASE RollbackRestore
      BY <3>2 DEF RollbackRestore, Rolling, HeldJournal, Held
    <3>3. CASE MoveAside
      BY <3>3 DEF MoveAside, Committing, HeldJournal, Held
    <3>4. CASE MoveIn
      BY <3>4 DEF MoveIn, Committing, HeldJournal, Held
    <3> QED
      BY <1>2, <3>1, <3>2, <3>3, <3>4
  <2>2. Placed => Placed'
    BY <1>2, <2>1, StepPlaced
  <2> QED
    BY <2>1, <2>2
<1>3. CASE RollbackDone
  <2>1. pc' # "rollback" /\ ~Forward' /\ UNCHANGED <<live, backup, stage, marker, before, damage>>
        /\ journal' \in {journal, NoJournal} /\ pc = "rollback"
    BY <1>3 DEF RollbackDone
  <2>2. CASE journal' = journal
    BY <2>1, <2>2 DEF Placed, Untouched, Aside, Replaced
  <2>3. CASE journal' = NoJournal
    BY <2>1, <2>3, Empty
  <2> QED
    BY <2>1, <2>2, <2>3
<1>4. CASE CleanSome \/ CleanDone \/ CleanGivesUp
  <2>1. pc' \in {"clean", "decide", "off"} /\ UNCHANGED <<live, marker, damage>>
        /\ journal' \in {journal, NoJournal} /\ SealedNow
    BY <1>4 DEF CleanSome, CleanDone, CleanGivesUp, AfterClean, Published
  <2> QED
    BY <2>1, Empty DEF SealedNow, Sealed, Valid
<1>5. CASE Adopt
  <2>1. journal.tx = 0
    BY <1>5 DEF Adopt, Published, SealedNow
  <2> QED
    BY <1>5, <2>1 DEF Adopt
<1>6. CASE Prepare \/ Extract \/ Validate
  <2>1. pc' \in {"extract", "begin", "off"} /\ UNCHANGED <<live, journal, marker, damage>>
        /\ pc \in {"decide", "extract"}
    BY <1>6 DEF Prepare, Extract, Validate
  <2> QED
    BY <2>1 DEF Published, SealedNow, Sealed, Valid
<1>7. CASE Begin
  <2>1. \A p \in Paths : stage'[p] = plan /\ backup'[p] = NoTree /\ live'[p] = before'[p]
    BY <1>7, Empty DEF Begin, Fresh, Staged
  <2>2. CASE journal' = txn'
    <3>1. \A p \in Paths : journal'.had[p] <=> before'[p] # NoTree
      BY <1>7, <2>2 DEF Begin, HadLive
    <3>2. Placed'
      BY <2>1, <3>1 DEF Placed, Untouched
    <3> QED
      BY <3>2
  <2>3. CASE journal' = journal /\ pc' = "off"
    BY <1>7, <2>3 DEF Begin
  <2> QED
    BY <1>7, <2>2, <2>3 DEF Begin
<1>8. CASE Record
  <2>1. Placed /\ UNCHANGED <<live, backup, stage, before>> /\ journal'.had = journal.had
    BY <1>8, RecordsPhase DEF Record, HeldJournal, Held
  <2>2. Placed'
    BY <2>1, StepPlaced
  <2> QED
    BY <2>2
<1>9. CASE Mark
  <2>1. Placed /\ UNCHANGED <<live, backup, stage, before, journal>>
    BY <1>9 DEF Mark
  <2>2. Placed'
    BY <2>1, StepPlaced
  <2> QED
    BY <2>2
<1>10. CASE Publish
  <2>1. SealedNow /\ UNCHANGED <<live, marker>> /\ journal'.tx = journal.tx /\ pc' \in {"clean", "off"}
    BY <1>10, MarkedPublished DEF Publish, Published, HeldJournal, Held
  <2> QED
    BY <2>1 DEF SealedNow, Sealed, Valid
<1>11. CASE Touch
  BY <1>11 DEF Touch, IInv, TypeOK
<1> QED
  BY <1>1, <1>2, <1>3, <1>4, <1>5, <1>6, <1>7, <1>8, <1>9, <1>10, <1>11 DEF Next, Installer

LEMMA StepBehind == TInv /\ [Next]_vars => Behind'
<1> SUFFICES ASSUME TInv, [Next]_vars, pc' = "rollback" PROVE Behind'
  BY DEF Behind
<1> USE Shapes DEF TInv, Behind
<1>1. CASE UNCHANGED vars
  BY <1>1 DEF vars, SealedNow, Sealed, Valid
<1>2. CASE Recover
  BY <1>2 DEF Recover, Paths, SealedNow, Sealed, Valid
<1>3. CASE RollbackSetAside
  <2>1. PICK q \in Paths : /\ pc = "rollback" /\ at = q
                           /\ \/ UNCHANGED <<live, stage>>
                              \/ live' = [live EXCEPT ![q] = NoTree]
    BY <1>3 DEF RollbackSetAside, Rolling
  <2>2. UNCHANGED <<backup, txn, marker, journal, at, caller>>
    BY <1>3, <2>1 DEF RollbackSetAside
  <2>3. CASE live' = live
    BY <2>1, <2>2, <2>3 DEF SealedNow, Sealed, Valid
  <2>4. CASE live' = [live EXCEPT ![q] = NoTree]
    BY <2>1, <2>2, <2>4, HoleIsInvalid DEF SealedNow, Sealed
  <2> QED
    BY <2>1, <2>3, <2>4
<1>4. CASE RollbackRestore
  <2>1. PICK q \in Paths : /\ pc = "rollback" /\ at = q /\ txn.had[q] /\ backup[q] # NoTree
                           /\ \/ UNCHANGED <<live, backup>>
                              \/ /\ live' = [live EXCEPT ![q] = backup[q]]
                                 /\ backup' = [backup EXCEPT ![q] = NoTree]
    BY <1>4 DEF RollbackRestore, Rolling
  <2>2. UNCHANGED <<txn, marker, journal, at, caller>>
    BY <1>4, <2>1 DEF RollbackRestore
  <2>3. CASE UNCHANGED <<live, backup>>
    BY <2>1, <2>2, <2>3 DEF SealedNow, Sealed, Valid
  <2>4. CASE live' = [live EXCEPT ![q] = backup[q]] /\ backup' = [backup EXCEPT ![q] = NoTree]
    <3>1. ~SealedNow'
      BY <2>1, <2>2, <2>4 DEF SealedNow, Sealed, Distinct, HeldJournal, Held
    <3>2. \A p \in Paths : p > at => p # q
      BY <2>1 DEF Paths
    <3> QED
      BY <2>1, <2>2, <2>4, <3>1, <3>2
  <2> QED
    BY <2>1, <2>3, <2>4
<1>5. CASE RollbackNext
  <2>1. PICK q \in Paths : /\ pc = "rollback" /\ at = q /\ ~Stuck(q) /\ ~Occupied(q)
                           /\ ~(txn.had[q] /\ backup[q] # NoTree)
    BY <1>5 DEF RollbackNext, Rolling
  <2>2. at' = at - 1 /\ UNCHANGED <<live, backup, txn, marker, journal, caller>>
    BY <1>5 DEF RollbackNext
  <2>3. backup[q] = NoTree /\ (txn.had[q] \/ live[q] = NoTree)
    BY <2>1 DEF Stuck, Occupied
  <2>4. \A p \in Paths : p > at - 1 => p = q \/ p > at
    BY <2>1 DEF Paths
  <2> QED
    BY <2>1, <2>2, <2>3, <2>4 DEF SealedNow, Sealed, Valid
<1>6. CASE Record \/ MoveAside \/ MoveIn \/ Verify \/ Mark
  <2>1. at' = Count /\ caller' = "commit"
    BY <1>6 DEF Record, MoveAside, MoveIn, Verify, Mark, Committing
  <2> QED
    BY <2>1 DEF Paths
<1>7. CASE Start \/ RollbackGivesUp \/ RollbackDone \/ CleanSome \/ CleanDone \/ CleanGivesUp
           \/ AlreadyReady \/ Adopt \/ Prepare \/ NoSource
  BY <1>7 DEF Start, RollbackGivesUp, RollbackDone, CleanSome, CleanDone, CleanGivesUp,
     AfterClean, AlreadyReady, Adopt, Prepare, NoSource
<1>8. CASE Extract \/ Validate \/ BeginRefused \/ Begin \/ NextPath \/ Publish \/ Crash \/ Touch
  BY <1>8 DEF Extract, Validate, BeginRefused, Begin, NextPath, Publish, Crash, Touch, Committing
<1> QED
  BY <1>1, <1>2, <1>3, <1>4, <1>5, <1>6, <1>7, <1>8 DEF Next, Installer

LEMMA StepPublished == TInv /\ [Next]_vars => Published'
<1> SUFFICES ASSUME TInv, [Next]_vars PROVE Published'
  OBVIOUS
<1> USE Shapes, Empty DEF TInv, Published
<1>1. pc' # "off" => exit' = "none"
  <2>1. CASE Start \/ Crash \/ Touch \/ UNCHANGED vars
    BY <2>1 DEF Start, Crash, Touch, vars
  <2>2. CASE Recover \/ RollbackGivesUp \/ RollbackSetAside \/ RollbackRestore \/ RollbackNext
             \/ RollbackDone \/ CleanSome \/ CleanDone \/ CleanGivesUp
    BY <2>2 DEF Recover, RollbackGivesUp, RollbackSetAside, RollbackRestore, Rolling, RollbackNext,
       RollbackDone, CleanSome, CleanDone, CleanGivesUp, AfterClean
  <2>3. CASE AlreadyReady \/ Adopt \/ Prepare \/ NoSource \/ Extract \/ Validate \/ BeginRefused
    BY <2>3 DEF AlreadyReady, Adopt, Prepare, NoSource, Extract, Validate, BeginRefused
  <2>4. CASE Begin \/ Record \/ MoveAside \/ MoveIn \/ NextPath \/ Verify \/ Mark \/ Publish
    BY <2>4 DEF Begin, Record, MoveAside, MoveIn, Committing, NextPath, Verify, Mark, Publish
  <2> QED
    BY <2>1, <2>2, <2>3, <2>4 DEF Next, Installer
<1>2. CASE UNCHANGED vars
  BY <1>1, <1>2 DEF vars, SealedNow, Sealed, Valid
<1>3. CASE Recover
  BY <1>1, <1>3 DEF Recover, SealedNow, Sealed, Valid
<1>4. CASE RollbackDone
  BY <1>1, <1>4 DEF RollbackDone
<1>5. CASE CleanSome \/ CleanDone \/ CleanGivesUp
  BY <1>1, <1>5 DEF CleanSome, CleanDone, CleanGivesUp, AfterClean, SealedNow, Sealed, Valid
<1>6. CASE Prepare \/ Extract \/ Validate
  BY <1>1, <1>6 DEF Prepare, Extract, Validate, SealedNow, Sealed, Valid
<1>7. CASE Mark
  <2>1. pc' = "publish" => marker' = [tx |-> txn.tx, seal |-> live] /\ UNCHANGED <<live, journal>>
    BY <1>7 DEF Mark
  <2> QED
    BY <1>1, <1>7, <2>1 DEF Mark, SealedNow, Sealed, Valid, IInv, Sealing, HeldJournal, Held, Forward
<1>8. CASE Publish
  BY <1>1, <1>8, MarkedPublished DEF Publish, SealedNow, Sealed, Valid, HeldJournal, Held, Forward
<1>9. CASE Start \/ RollbackGivesUp \/ RollbackSetAside \/ RollbackRestore \/ RollbackNext
           \/ AlreadyReady \/ Adopt \/ NoSource
  BY <1>1, <1>9 DEF Start, RollbackGivesUp, RollbackSetAside, RollbackRestore, RollbackNext, Rolling,
     AlreadyReady, Adopt, NoSource
<1>10. CASE BeginRefused \/ Begin \/ Record \/ MoveAside \/ MoveIn \/ NextPath \/ Verify \/ Crash \/ Touch
  BY <1>1, <1>10 DEF BeginRefused, Begin, Record, MoveAside, MoveIn, NextPath, Verify, Crash, Touch, Committing
<1> QED
  BY <1>2, <1>3, <1>4, <1>5, <1>6, <1>7, <1>8, <1>9, <1>10 DEF Next, Installer

LEMMA StepDistinct == TInv /\ [Next]_vars => Distinct'
<1> SUFFICES ASSUME TInv, [Next]_vars PROVE Distinct'
  OBVIOUS
<1> USE Shapes, Empty DEF TInv, Distinct
<1>1. CASE UNCHANGED <<journal, marker, backup>>
  BY <1>1
<1>2. CASE RollbackRestore
  <2>1. marker' = marker /\ journal' = journal
        /\ \A p \in Paths : backup'[p] = backup[p] \/ backup'[p] = NoTree
    BY <1>2 DEF RollbackRestore
  <2> QED
    BY <2>1 DEF Numbered, Valid
<1>3. CASE RollbackDone \/ CleanDone
  BY <1>3 DEF RollbackDone, CleanDone
<1>4. CASE CleanSome
  <2>1. marker' = marker /\ journal' = journal
        /\ \A p \in Paths : backup'[p] = backup[p] \/ backup'[p] \in {NoTree, Torn}
    BY <1>4 DEF CleanSome, Remains
  <2> QED
    BY SMTT(30), <2>1 DEF Numbered, Valid
<1>5. CASE Adopt
  BY <1>5 DEF Adopt, Numbered
<1>6. CASE Begin
  BY <1>6 DEF Begin, Numbered
<1>7. CASE Record
  BY <1>7, RecordsPhase DEF Record, HeldJournal, Held, Forward
<1>8. CASE MoveAside
  BY <1>8 DEF MoveAside, Committing, Fresh, Forward
<1>9. CASE Mark
  <2>1. pc = "mark" /\ Placed /\ Progress /\ UNCHANGED <<backup, journal>>
        /\ (marker' = marker \/ marker'.seal = live)
    BY <1>9 DEF Mark, Recoverable, Forward
  <2>2. \A p \in Paths : backup[p] = before[p] /\ before[p] # plan /\ live[p] = plan
    BY <2>1 DEF Progress, Phased, Installed, Fresh, Forward
  <2> QED
    BY <1>9, <2>1, <2>2
<1>10. CASE Publish
  BY <1>10, MarkedPublished DEF Publish, HeldJournal, Held
<1> QED
  BY <1>1, <1>2, <1>3, <1>4, <1>5, <1>6, <1>7, <1>8, <1>9, <1>10 DEF Next, Installer, vars,
     Start, Crash, Touch, Recover, RollbackGivesUp, RollbackSetAside, RollbackNext, CleanGivesUp,
     AlreadyReady, Prepare, NoSource, Extract, Validate, BeginRefused, MoveIn, NextPath, Verify

(* Every way out of a run in which nothing raised: the transaction is over, *)
(* or the run would have had to give up on a path, which it does not.      *)
LEMMA NotStuck == TInv => RollbackNeverStuck
<1> SUFFICES ASSUME TInv, damage = 0, pc = "rollback", NEW p \in Paths, p = at PROVE ~Stuck(p)
  BY DEF RollbackNeverStuck
<1> USE Shapes DEF TInv
<1>1. Placed /\ txn.had = journal.had
  BY DEF Recoverable, HeldJournal, Held
<1> QED
  BY <1>1 DEF Placed, Untouched, Aside, Replaced, Stuck

LEMMA StepCalm == TInv /\ [Next]_vars => CalmRunHeals'
<1> SUFFICES ASSUME TInv, [Next]_vars,
                    damage' = 0, pc' = "off", exit' # "none", calm'
             PROVE  journal'.tx = 0
  BY DEF CalmRunHeals
<1> USE Shapes, Empty DEF TInv, CalmRunHeals
<1>1. CASE UNCHANGED vars
  BY <1>1 DEF vars
<1>2. CASE Start \/ Crash \/ Touch \/ Recover
  BY <1>2 DEF Start, Crash, Touch, Recover, Published, IInv, TypeOK
<1>3. CASE RollbackGivesUp
  <2>1. damage = 0 /\ pc = "rollback" /\ at # 0 /\ \E p \in Paths : p = at /\ Stuck(p)
    BY <1>3 DEF RollbackGivesUp, Rolling
  <2> QED
    BY <2>1, NotStuck DEF RollbackNeverStuck
<1>4. CASE RollbackSetAside \/ RollbackRestore \/ RollbackNext
  BY <1>4 DEF RollbackSetAside, RollbackRestore, RollbackNext, Rolling
<1>5. CASE RollbackDone
  <2>1. backup = Nothing
    BY <1>5 DEF RollbackDone, Behind, Paths, Nothing
  <2> QED
    BY <1>5, <2>1 DEF RollbackDone
<1>6. CASE CleanSome \/ CleanDone \/ CleanGivesUp
  BY <1>6 DEF CleanSome, CleanDone, CleanGivesUp, AfterClean
<1>7. CASE AlreadyReady \/ Adopt \/ Prepare \/ NoSource
  BY <1>7 DEF AlreadyReady, Adopt, Prepare, NoSource, Published
<1>8. CASE Extract \/ Validate \/ BeginRefused
  BY <1>8 DEF Extract, Validate, BeginRefused, Published
<1>9. CASE Begin \/ Record \/ MoveAside \/ MoveIn \/ NextPath \/ Verify \/ Mark \/ Publish
  BY <1>9 DEF Begin, Record, MoveAside, MoveIn, NextPath, Verify, Mark, Publish, Committing
<1> QED
  BY <1>1, <1>2, <1>3, <1>4, <1>5, <1>6, <1>7, <1>8, <1>9 DEF Next, Installer

LEMMA StepTInv == TInv /\ [Next]_vars => TInv'
BY StepInv, StepNumbered, StepHeldJournal, StepFresh, StepProgress, StepRecoverable, StepBehind,
   StepPublished, StepDistinct, StepCalm DEF TInv

(* Where the trees are is an invariant of every reachable state.           *)
THEOREM TransactionInvariance == Spec => []TInv
BY TStart, StepTInv, PTL DEF Spec

(* No order of failures and crashes leaves a transaction that the rollback *)
(* refuses, for any number of paths, transactions and failures.            *)
THEOREM NeverStuck == Spec => []RollbackNeverStuck
BY TransactionInvariance, NotStuck, PTL

(* A run in which nothing raised leaves no open transaction, whatever the  *)
(* runs before it left.                                                    *)
THEOREM CalmHeals == Spec => []CalmRunHeals
<1>1. TInv => CalmRunHeals
  BY DEF TInv
<1> QED
  BY TransactionInvariance, <1>1, PTL

-----------------------------------------------------------------------------
(* Refinement: what a following start ends up with changes as a whole.     *)

(* It depends on the game directory, the backup, the marker and on what    *)
(* the journal says of the paths; phases and the stage do not matter.      *)
LEMMA SamePayload ==
    ASSUME UNCHANGED <<live, backup, marker>>, journal'.tx = journal.tx,
           journal'.had = journal.had
    PROVE  EventualPayload' = EventualPayload
BY DEF EventualPayload, Restored, Sealed, Valid

(* A rename of the rollback leaves the payload the rollback is heading for; *)
(* the first one after a marker was written withdraws what it sealed.      *)
LEMMA RollbackStutters ==
    ASSUME TInv, RollbackSetAside \/ RollbackRestore
    PROVE  EventualPayload' \in {EventualPayload, before} /\ UNCHANGED <<before, damage>>
<1> USE Shapes DEF TInv
<1>1. pc = "rollback" /\ journal.tx # 0 /\ txn.had = journal.had
      /\ UNCHANGED <<journal, marker, before, damage>>
  BY DEF RollbackSetAside, RollbackRestore, Rolling, HeldJournal, Held
<1>2. CASE UNCHANGED <<live, backup>>
  BY <1>1, <1>2, SamePayload
<1>3. SUFFICES ASSUME NEW q \in Paths, ~UNCHANGED <<live, backup>>,
                      \/ /\ Occupied(q) /\ backup' = backup
                         /\ live' = [live EXCEPT ![q] = NoTree]
                      \/ /\ ~Occupied(q) /\ txn.had[q] /\ backup[q] # NoTree
                         /\ live' = [live EXCEPT ![q] = backup[q]]
                         /\ backup' = [backup EXCEPT ![q] = NoTree]
               PROVE  EventualPayload' \in {EventualPayload, before}
  BY <1>1, <1>2 DEF RollbackSetAside, RollbackRestore, Rolling
<1>4. ~SealedNow'
  <2>1. CASE live' = [live EXCEPT ![q] = NoTree]
    BY <2>1, HoleIsInvalid DEF SealedNow, Sealed
  <2>2. CASE live' = [live EXCEPT ![q] = backup[q]]
    BY <1>1, <2>2 DEF SealedNow, Sealed, Distinct
  <2> QED
    BY <1>3, <2>1, <2>2
<1>5. EventualPayload' = [p \in Paths |-> Restored(journal, p)']
  BY <1>1, <1>4 DEF EventualPayload, SealedNow
<1>6. \A p \in Paths : Restored(journal, p)' = Restored(journal, p)
  BY <1>1, <1>3 DEF Restored, Occupied
<1>7. CASE ~SealedNow
  BY <1>1, <1>5, <1>6, <1>7 DEF EventualPayload, SealedNow
<1>8. CASE SealedNow
  <2>1. Placed
    BY <1>1, <1>8, caller \in {"recover", "commit"} DEF Behind, Recoverable, IInv, TypeOK
  <2>2. \A p \in Paths : Restored(journal, p) = before[p]
    BY <2>1 DEF Placed, Untouched, Aside, Replaced, Restored
  <2> QED
    BY <1>5, <1>6, <2>2
<1> QED
  BY <1>7, <1>8

(* While paths are replaced the payload to restore is the one from before. *)
LEMMA CommitStutters ==
    ASSUME TInv, MoveAside \/ MoveIn
    PROVE  EventualPayload' = EventualPayload /\ UNCHANGED <<before, damage>>
<1> USE Shapes DEF TInv
<1>1. pc = "path" /\ Placed /\ Placed' /\ journal.tx # 0
      /\ UNCHANGED <<journal, marker, before, damage>> /\ marker.tx # journal.tx
  BY StepPlaced DEF MoveAside, MoveIn, Committing, Recoverable, Forward, HeldJournal, Held, Fresh
<1>2. \A p \in Paths : Restored(journal, p) = before[p] /\ Restored(journal, p)' = before[p]
  BY <1>1 DEF Placed, Untouched, Aside, Replaced, Restored
<1> QED
  BY <1>1, <1>2 DEF EventualPayload

(* The marker is what replaces the payload.                                *)
LEMMA MarkReplaces ==
    ASSUME TInv, Mark
    PROVE  /\ EventualPayload' = EventualPayload \/ Abstract!Replace
           /\ UNCHANGED <<before, damage>>
<1> USE Shapes DEF TInv
<1>1. pc = "mark" /\ journal.tx # 0 /\ txn.tx = journal.tx /\ Valid(live)
      /\ UNCHANGED <<journal, live, backup, before, damage>>
  BY DEF Mark, HeldJournal, Held, Forward, IInv, Sealing
<1>2. CASE marker' = marker
  BY <1>1, <1>2, SamePayload
<1>3. CASE marker' = [tx |-> txn.tx, seal |-> live]
  <2>1. EventualPayload' = live
    BY <1>1, <1>3 DEF EventualPayload, Sealed, Valid
  <2>2. \A p \in Paths : live[p] = plan
    BY <1>1 DEF Progress, Forward, Phased, Installed
  <2>3. live = [p \in Paths |-> plan] /\ plan \in Sources
    BY <2>2 DEF IInv, TypeOK
  <2> QED
    BY <1>1, <2>1, <2>3 DEF Abstract!Replace, Abstract!Whole
<1> QED
  BY <1>2, <1>3 DEF Mark

(* The end of a rollback and of a cleanup only confirms the payload.       *)
LEMMA DoneStutters ==
    ASSUME TInv, RollbackDone \/ CleanDone
    PROVE  EventualPayload' = EventualPayload /\ UNCHANGED <<before, damage>>
<1> USE Shapes, Empty DEF TInv
<1>1. UNCHANGED <<live, backup, marker, before, damage>> /\ journal' \in {journal, NoJournal}
  BY DEF RollbackDone, CleanDone
<1>2. CASE journal' = journal
  BY <1>1, <1>2, SamePayload
<1>3. CASE journal' = NoJournal
  <2>1. EventualPayload' = live
    BY <1>1, <1>3 DEF EventualPayload
  <2>2. CASE SealedNow
    BY <1>1, <2>1, <2>2 DEF EventualPayload, SealedNow
  <2>3. CASE RollbackDone
    <3>1. at = 0 /\ pc = "rollback" /\ txn.had = journal.had
      BY <2>3 DEF RollbackDone, HeldJournal, Held
    <3>2. \A p \in Paths : backup[p] = NoTree /\ (journal.had[p] \/ live[p] = NoTree)
      BY <3>1 DEF Behind, Paths
    <3>3. \A p \in Paths : Restored(journal, p) = live[p]
      BY <3>2 DEF Restored
    <3>4. live = [p \in Paths |-> Restored(journal, p)]
      BY <3>3
    <3> QED
      BY <1>1, <2>1, <3>4 DEF EventualPayload
  <2>4. CASE CleanDone
    BY <2>2, <2>4 DEF CleanDone, Published
  <2> QED
    BY <2>3, <2>4
<1> QED
  BY <1>1, <1>2, <1>3

LEMMA CleanStutters ==
    ASSUME TInv, CleanSome \/ CleanGivesUp
    PROVE  EventualPayload' = EventualPayload /\ UNCHANGED <<before, damage>>
<1>1. SealedNow /\ UNCHANGED <<live, journal, marker, before, damage>>
  BY DEF CleanSome, CleanGivesUp, TInv, Published
<1> QED
  BY <1>1 DEF EventualPayload, SealedNow, Sealed, Valid

LEMMA AdoptStutters ==
    ASSUME TInv, Adopt
    PROVE  EventualPayload' = EventualPayload /\ UNCHANGED <<before, damage>>
<1>1. journal.tx = 0 /\ UNCHANGED <<live, journal, before, damage>>
  BY DEF Adopt, TInv, Published, SealedNow
<1> QED
  BY <1>1 DEF EventualPayload

LEMMA BeginBegins == ASSUME TInv, Begin PROVE Abstract!Begin
<1> USE Shapes, Empty DEF TInv
<1>1. journal.tx = 0 /\ backup = Nothing /\ before' = live
      /\ UNCHANGED <<live, backup, marker, damage>>
  BY DEF Begin
<1>2. EventualPayload = live
  BY <1>1 DEF EventualPayload
<1>3. EventualPayload' = live
  <2>1. CASE journal' = journal
    BY <1>1, <2>1 DEF EventualPayload
  <2>2. CASE journal' = txn'
    <3>1. journal'.tx = lastTx + 1 /\ journal'.had = HadLive(live)
      BY <2>2 DEF Begin
    <3>2. journal'.tx # 0 /\ marker'.tx # journal'.tx
      BY <1>1, <3>1 DEF Numbered
    <3>3. \A p \in Paths : Restored(journal, p)' = live[p]
      BY <1>1, <3>1 DEF Restored, HadLive
    <3>4. live = [p \in Paths |-> Restored(journal, p)']
      BY <3>3
    <3> QED
      BY <3>2, <3>4 DEF EventualPayload
  <2> QED
    BY <2>1, <2>2 DEF Begin
<1> QED
  BY <1>1, <1>2, <1>3 DEF Abstract!Begin

LEMMA StepRefines == TInv /\ TInv' /\ [Next]_vars => [Abstract!Next]_(Abstract!vars)
<1> SUFFICES ASSUME TInv, TInv', [Next]_vars
             PROVE  Abstract!Next \/ UNCHANGED <<EventualPayload, before, damage>>
  BY DEF Abstract!vars
<1> USE DEF TInv
<1>1. CASE \/ Start \/ Recover \/ RollbackGivesUp \/ RollbackNext \/ AlreadyReady \/ Prepare
           \/ NoSource \/ Extract \/ Validate \/ BeginRefused \/ NextPath \/ Verify \/ Crash
           \/ UNCHANGED vars
  <2>1. UNCHANGED <<live, backup, journal, marker, before, damage>>
    BY <1>1 DEF Start, Recover, RollbackGivesUp, RollbackNext, AlreadyReady, Prepare, NoSource,
       Extract, Validate, BeginRefused, NextPath, Verify, Crash, vars
  <2> QED
    BY <2>1, SamePayload
<1>2. CASE RollbackSetAside \/ RollbackRestore
  BY <1>2, RollbackStutters DEF Abstract!Next, Abstract!Withdraw
<1>3. CASE RollbackDone \/ CleanDone
  BY <1>3, DoneStutters
<1>4. CASE CleanSome \/ CleanGivesUp
  BY <1>4, CleanStutters
<1>5. CASE Adopt
  BY <1>5, AdoptStutters
<1>6. CASE Begin
  BY <1>6, BeginBegins DEF Abstract!Next
<1>7. CASE Record
  <2>1. UNCHANGED <<live, backup, marker, before, damage>> /\ journal'.tx = journal.tx
        /\ journal'.had = journal.had
    BY <1>7, RecordsPhase DEF Record, HeldJournal, Held, Forward
  <2> QED
    BY <2>1, SamePayload
<1>8. CASE MoveAside \/ MoveIn
  BY <1>8, CommitStutters
<1>9. CASE Mark
  BY <1>9, MarkReplaces DEF Abstract!Next
<1>10. CASE Publish
  <2>1. UNCHANGED <<live, backup, marker, before, damage>> /\ journal'.tx = journal.tx
        /\ journal'.had = journal.had
    BY <1>10, MarkedPublished DEF Publish, HeldJournal, Held
  <2> QED
    BY <2>1, SamePayload
<1>11. CASE Touch
  <2>1. EventualPayload' \in [Paths -> Tree]
    <3>1. EventualPayload' = (IF journal'.tx = 0 \/ (marker'.tx = journal'.tx /\ Sealed(marker, live)')
                              THEN live' ELSE [p \in Paths |-> Restored(journal, p)'])
      BY DEF EventualPayload
    <3>2. live' \in [Paths -> Tree] /\ backup' \in [Paths -> Tree]
      BY DEF IInv, TypeOK, Payload
    <3>3. NoTree \in Tree
      BY DEF Tree
    <3> QED
      BY <3>1, <3>2, <3>3 DEF Restored
  <2> QED
    BY <1>11, <2>1 DEF Touch, Abstract!Next, Abstract!Meddle
<1> QED
  BY <1>1, <1>2, <1>3, <1>4, <1>5, <1>6, <1>7, <1>8, <1>9, <1>10, <1>11 DEF Next, Installer

(* Seen through the recovery of the next start an installation replaces    *)
(* all paths or none, with any number of crashes, failures and paths.      *)
THEOREM Refinement == Spec => RefinesAtomicInstall
<1>1. Init => Abstract!Init
  BY Empty DEF Init, EventualPayload, Abstract!Init
<1>2. TInv /\ TInv' /\ [Next]_vars => [Abstract!Next]_(Abstract!vars)
  BY StepRefines
<1> QED
  BY <1>1, <1>2, TransactionInvariance, PTL DEF Spec, RefinesAtomicInstall, Abstract!Spec
=============================================================================
