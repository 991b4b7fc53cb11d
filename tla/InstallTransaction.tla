-------------------------- MODULE InstallTransaction --------------------------
(***************************************************************************)
(* The installation transaction of nxextract.py: recover_transaction,      *)
(* rollback_transaction, commit_stage, _finalize_published_transaction and *)
(* the course of install_command around them.                              *)
(*                                                                         *)
(* A payload is one tree per commit path.  Trees live in three places: the *)
(* game directory, the backup and the stage.  A version is what one        *)
(* extraction made: its files have times of their own, so that the next    *)
(* extraction of the same input is another version.  Two files decide what *)
(* a start makes of them: the journal and the marker, whose seal identifies *)
(* the trees it was written for.  The process or the device may die        *)
(* between any two steps; a rename or an atomic write is durable once it   *)
(* returns, and may also raise after it took effect.  Only one installer   *)
(* runs at a time (WorkspaceLock).                                         *)
(***************************************************************************)
EXTENDS Naturals

CONSTANTS Count,      \* number of commit paths, in journal order 1 .. Count
          Versions,   \* payload versions
          Sources,    \* those that can be extracted from the inputs
          Good,       \* those the recipe validates
          NoTree,     \* no object at this place
          Torn,       \* an object that is no payload (any more)
          Initial,    \* what the game directory may hold before the first run
          MaxTx,      \* bound: transaction identifiers
          MaxFaults,  \* bound: operations that raise
          Touched,    \* what an outside modification may leave in the game directory
          MaxDamage   \* bound: such modifications

ASSUME InstallAssumption ==
    /\ Count \in Nat \ {0}
    /\ Good \subseteq Versions /\ Sources \subseteq Versions
    /\ NoTree \notin Versions
    /\ Torn \notin Versions
    /\ NoTree # Torn
    /\ Initial \subseteq [1 .. Count -> Versions \cup {NoTree, Torn}]
    /\ Touched \subseteq Versions \cup {NoTree, Torn}
    /\ MaxTx \in Nat
    /\ MaxFaults \in Nat
    /\ MaxDamage \in Nat

Paths == 1 .. Count
Tree == Versions \cup {NoTree, Torn}
Payload == [Paths -> Tree]
Nothing == [p \in Paths |-> NoTree]

Phases == {"pending", "backup-intent", "backup-skipped", "backed-up",
           "install-intent", "installed"}

(* Transaction identifiers are 1, 2, ...; 0 is the absent file. *)
Journal == [tx : Nat, published : BOOLEAN, had : [Paths -> BOOLEAN], phase : [Paths -> Phases]]
NoJournal == [tx |-> 0, published |-> FALSE, had |-> [p \in Paths |-> FALSE],
              phase |-> [p \in Paths |-> "pending"]]
Marker == [tx : Nat, seal : Payload]
NoMarker == [tx |-> 0, seal |-> Nothing]

VARIABLES live,     \* the game directory
          backup,   \* <workspace>/backup
          stage,    \* <workspace>/stage
          journal,  \* <workspace>/transaction.json
          marker,   \* the installation marker
          pc,       \* where install_command stands; "off" when it is not running
          txn,      \* the journal object the process holds
          at,       \* the commit path being handled
          caller,   \* who called the rollback or the cleanup: "recover" or "commit"
          plan,     \* the version being extracted
          exit,     \* what the last run answered: "none", "ready" or "error"
          calm,     \* no operation has raised in this run
          lastTx,   \* transaction identifiers used
          faults,   \* operations that raised so far
          damage,   \* outside modifications so far
          before    \* history: the payload before the last transaction

disk == <<live, backup, stage, journal, marker>>
process == <<txn, at, caller, plan, exit>>
vars == <<disk, pc, process, calm, lastTx, faults, damage, before>>

TypeOK ==
    /\ live \in Payload /\ backup \in Payload /\ stage \in Payload
    /\ journal \in Journal /\ txn \in Journal
    /\ marker \in Marker
    /\ pc \in {"off", "recover", "clean", "rollback", "decide", "extract",
               "begin", "path", "verify", "mark", "publish"}
    /\ at \in 0 .. Count + 1 /\ (pc = "path" => at \in Paths)
    /\ caller \in {"recover", "commit"}
    /\ plan \in Sources
    /\ exit \in {"none", "ready", "error"}
    /\ calm \in BOOLEAN
    /\ lastTx \in Nat /\ faults \in Nat /\ damage \in Nat
    /\ before \in Payload

Init ==
    /\ live \in Initial /\ before = live
    /\ backup = Nothing /\ stage = Nothing
    /\ journal = NoJournal /\ txn = NoJournal
    /\ marker = NoMarker
    /\ pc = "off" /\ exit = "none" /\ calm = TRUE
    /\ at = 0 /\ caller = "recover" /\ plan \in Sources
    /\ lastTx = 0 /\ faults = 0 /\ damage = 0

-----------------------------------------------------------------------------
(* validate_recipe_outputs looks at each tree on its own: it need not      *)
(* notice that two valid trees come from different versions.               *)
Valid(payload) == \A p \in Paths : payload[p] \in Good

(* Defect: a marker is enough. *)
SealedByName(m, payload) == m.tx # 0

(* marker_payload_seal_valid, and the validation that goes with it. *)
Sealed(m, payload) == m.tx # 0 /\ m.seal = payload /\ Valid(payload)

Continue(next) == pc' = next /\ UNCHANGED <<calm, faults>>

(* The operation succeeds. *)
GoOn(next) == Continue(next) /\ UNCHANGED <<at, caller, exit>>

(* install_command ends. *)
Leave(answer) == pc' = "off" /\ exit' = answer

(* An operation raises: inside commit_stage's try block that rolls back,   *)
(* anywhere else it ends the run with exit status 1 and whatever the disk  *)
(* looks like.                                                             *)
Raise ==
    /\ faults < MaxFaults
    /\ faults' = faults + 1
    /\ calm' = FALSE
    /\ IF pc \in {"path", "verify", "mark"}
       THEN pc' = "rollback" /\ at' = Count /\ caller' = "commit" /\ UNCHANGED exit
       ELSE Leave("error") /\ UNCHANGED <<at, caller>>

(* The checks of the code that raise without any operation failing. *)
Refuse == Leave("error") /\ UNCHANGED <<calm, faults>>

-----------------------------------------------------------------------------
(* Recovery *)

Start ==
    /\ pc = "off"
    /\ pc' = "recover" /\ exit' = "none" /\ calm' = TRUE
    /\ UNCHANGED <<disk, txn, at, caller, plan, lastTx, faults, damage, before>>

(* Defect: a journal that says published is believed. *)
RecoverTrustsJournal ==
    /\ pc = "recover"
    /\ caller' = "recover" /\ txn' = journal /\ at' = Count
    /\ Continue(IF journal.tx = 0 THEN "decide"
                ELSE IF marker.tx = journal.tx THEN "clean"
                ELSE "rollback")
    /\ UNCHANGED <<disk, plan, exit, lastTx, damage, before>>

(* recover_transaction: no journal, a published transaction whose payload  *)
(* still is what the marker sealed, or one to roll back.                   *)
Recover ==
    /\ pc = "recover"
    /\ caller' = "recover" /\ txn' = journal /\ at' = Count
    /\ Continue(IF journal.tx = 0 THEN "decide"
                ELSE IF marker.tx = journal.tx /\ Sealed(marker, live) THEN "clean"
                ELSE "rollback")
    /\ UNCHANGED <<disk, plan, exit, lastTx, damage, before>>

(* The states in which rollback_transaction gives up on a path. *)
Stuck(p) ==
    \/ txn.had[p] /\ backup[p] # NoTree /\ live[p] # NoTree /\ stage[p] # NoTree
    \/ txn.had[p] /\ backup[p] = NoTree /\ live[p] = NoTree
    \/ ~txn.had[p] /\ backup[p] # NoTree
    \/ ~txn.had[p] /\ live[p] # NoTree /\ stage[p] # NoTree

(* The new tree still has to leave the game directory. *)
Occupied(p) == live[p] # NoTree /\ (txn.had[p] => backup[p] # NoTree)

Rolling(p) == pc = "rollback" /\ at = p /\ p # 0

RollbackGivesUp ==
    /\ \E p \in Paths : Rolling(p) /\ Stuck(p)
    /\ Refuse
    /\ UNCHANGED <<disk, txn, at, caller, plan, lastTx, damage, before>>

(* durable_rename(destination, staged) *)
RollbackSetAside ==
    /\ \E p \in Paths :
          /\ Rolling(p) /\ ~Stuck(p) /\ Occupied(p)
          /\ \/ /\ live' = [live EXCEPT ![p] = NoTree]
                /\ stage' = [stage EXCEPT ![p] = live[p]]
                /\ (GoOn(pc) \/ Raise)
             \/ Raise /\ UNCHANGED <<live, stage>>
    /\ UNCHANGED <<backup, journal, marker, txn, plan, lastTx, damage, before>>

(* durable_rename(previous, destination) *)
RollbackRestore ==
    /\ \E p \in Paths :
          /\ Rolling(p) /\ ~Stuck(p) /\ ~Occupied(p) /\ txn.had[p] /\ backup[p] # NoTree
          /\ \/ /\ live' = [live EXCEPT ![p] = backup[p]]
                /\ backup' = [backup EXCEPT ![p] = NoTree]
                /\ (GoOn(pc) \/ Raise)
             \/ Raise /\ UNCHANGED <<live, backup>>
    /\ UNCHANGED <<stage, journal, marker, txn, plan, lastTx, damage, before>>

(* This path is as it was: on to the one before it. *)
RollbackNext ==
    /\ \E p \in Paths : /\ Rolling(p) /\ ~Stuck(p) /\ ~Occupied(p)
                        /\ ~(txn.had[p] /\ backup[p] # NoTree)
    /\ at' = at - 1
    /\ Continue(pc)
    /\ UNCHANGED <<disk, txn, caller, plan, exit, lastTx, damage, before>>

(* Defect: the journal outlives the rollback. *)
RollbackDoneKeepsJournal ==
    /\ pc = "rollback" /\ at = 0 /\ backup = Nothing
    /\ IF caller = "recover" THEN Continue("decide") /\ UNCHANGED exit ELSE Refuse
    /\ UNCHANGED <<disk, txn, at, caller, plan, lastTx, damage, before>>

(* All paths restored: drop the empty backup, then the journal.  A         *)
(* rollback inside commit_stage re-raises what started it.                 *)
RollbackDone ==
    /\ pc = "rollback" /\ at = 0
    /\ \/ /\ backup # Nothing
          /\ Refuse
          /\ UNCHANGED journal
       \/ /\ backup = Nothing
          /\ journal' = NoJournal
          /\ IF caller = "recover" THEN Continue("decide") /\ UNCHANGED exit ELSE Refuse
       \/ /\ backup = Nothing
          /\ journal' \in {journal, NoJournal}
          /\ Leave("error")
          /\ faults < MaxFaults /\ faults' = faults + 1 /\ calm' = FALSE
    /\ UNCHANGED <<live, backup, stage, marker, txn, at, caller, plan, lastTx, damage, before>>

(* What an interrupted rmtree leaves of the trees t. *)
Remains(t) == {u \in Payload : \A p \in Paths : u[p] \in {t[p], NoTree} \cup
                                                     (IF t[p] = NoTree THEN {} ELSE {Torn})}

(* _finalize_published_transaction deletes the backup, then the stage, then *)
(* the journal.                                                             *)
CleanSome ==
    /\ pc = "clean"
    /\ \/ backup' \in Remains(backup) \ {backup} /\ UNCHANGED stage
       \/ backup = Nothing /\ stage' \in Remains(stage) \ {stage} /\ UNCHANGED backup
    /\ Continue(pc)
    /\ UNCHANGED <<live, journal, marker, process, lastTx, damage, before>>

AfterClean == IF caller = "recover" THEN pc' = "decide" /\ UNCHANGED exit ELSE Leave("ready")

CleanDone ==
    /\ pc = "clean" /\ backup = Nothing /\ stage = Nothing
    /\ journal' = NoJournal
    /\ AfterClean
    /\ UNCHANGED <<live, backup, stage, marker, txn, at, caller, plan, calm, lastTx, faults,
                   damage, before>>

(* A deletion fails: the journal stays for the next run, this one goes on. *)
CleanGivesUp ==
    /\ pc = "clean" /\ faults < MaxFaults
    /\ stage' \in Remains(stage)
    /\ AfterClean
    /\ faults' = faults + 1 /\ calm' = FALSE
    /\ UNCHANGED <<live, backup, journal, marker, txn, at, caller, plan, lastTx, damage, before>>

-----------------------------------------------------------------------------
(* Preparation *)

(* marker_fast_valid *)
AlreadyReady ==
    /\ pc = "decide" /\ Sealed(marker, live)
    /\ Leave("ready")
    /\ UNCHANGED <<disk, txn, at, caller, plan, calm, lastTx, faults, damage, before>>

(* try_adopt_existing validates what is there and writes a marker for it. *)
Adopt ==
    /\ pc = "decide" /\ ~Sealed(marker, live) /\ Valid(live) /\ lastTx < MaxTx
    /\ lastTx' = lastTx + 1
    /\ \/ /\ marker' = [tx |-> lastTx', seal |-> live]
          /\ \/ Leave("ready") /\ UNCHANGED <<at, caller, calm, faults>>
             \/ Raise
       \/ Raise /\ UNCHANGED marker
    /\ UNCHANGED <<live, backup, stage, journal, txn, plan, damage, before>>

(* build_candidate_groups, resolve_plan, _prepare_stage_state: a stage made *)
(* for another plan is deleted.  force_source comes here even though the    *)
(* installed data is valid.                                                 *)
Prepare ==
    /\ pc = "decide" /\ lastTx < MaxTx
    /\ \/ \E v \in Sources :
             /\ \A p \in Paths : live[p] # v
             /\ plan' = v
             /\ stage' = IF v = plan THEN stage ELSE Nothing
             /\ GoOn("extract")
       \/ Raise /\ stage' \in Remains(stage) /\ UNCHANGED plan
    /\ UNCHANGED <<live, backup, journal, marker, txn, lastTx, damage, before>>

(* No source that satisfies the recipe. *)
NoSource ==
    /\ pc = "decide"
    /\ Refuse
    /\ UNCHANGED <<disk, txn, at, caller, plan, lastTx, damage, before>>

Staged == [p \in Paths |-> plan]

(* extract_plan and run_hooks, one tree at a time. *)
Extract ==
    /\ pc = "extract"
    /\ \E p \in Paths :
          /\ stage[p] # plan
          /\ \/ stage' = [stage EXCEPT ![p] = plan] /\ GoOn(pc)
             \/ stage' = [stage EXCEPT ![p] = Torn] /\ Raise
    /\ UNCHANGED <<live, backup, journal, marker, txn, plan, lastTx, damage, before>>

(* A stage that does not validate is discarded, so that the next run does  *)
(* not resume from it.                                                     *)
Validate ==
    /\ pc = "extract" /\ stage = Staged
    /\ IF Valid(stage)
       THEN Continue("begin") /\ UNCHANGED <<stage, exit>>
       ELSE Refuse /\ stage' \in Remains(stage)
    /\ UNCHANGED <<live, backup, journal, marker, txn, at, caller, plan, lastTx, damage, before>>

-----------------------------------------------------------------------------
(* commit_stage *)

(* Defect: a tree that does not validate is not worth a backup. *)
HadValid(trees) == [p \in Paths |-> trees[p] \in Good]

(* Which paths hold something to move out of the way. *)
HadLive(trees) == [p \in Paths |-> trees[p] # NoTree]

BeginRefused ==
    /\ pc = "begin" /\ (backup # Nothing \/ journal.tx # 0)
    /\ Refuse
    /\ UNCHANGED <<disk, txn, at, caller, plan, lastTx, damage, before>>

(* The first journal write is outside the try block. *)
Begin ==
    /\ pc = "begin" /\ backup = Nothing /\ journal.tx = 0
    /\ lastTx' = lastTx + 1
    /\ before' = live
    /\ txn' = [tx |-> lastTx', published |-> FALSE, had |-> HadLive(live),
               phase |-> [p \in Paths |-> "pending"]]
    /\ \/ journal' = txn' /\ at' = 1 /\ Continue("path") /\ UNCHANGED <<caller, exit>>
       \/ journal' \in {journal, txn'} /\ Raise
    /\ UNCHANGED <<live, backup, stage, marker, plan, damage>>

Committing(p) == pc = "path" /\ at = p /\ p \in Paths

(* The phase to record next for path p, once the rename it announced is done. *)
NextPhase(p) ==
    CASE txn.phase[p] = "pending" /\ txn.had[p] -> "backup-intent"
      [] txn.phase[p] = "pending" /\ ~txn.had[p] -> "backup-skipped"
      [] txn.phase[p] = "backup-intent" -> "backed-up"
      [] txn.phase[p] \in {"backed-up", "backup-skipped"} -> "install-intent"
      [] OTHER -> "installed"

(* An announced rename is still to be made. *)
RenameDue(p) == \/ txn.phase[p] = "backup-intent" /\ live[p] # NoTree
                \/ txn.phase[p] = "install-intent" /\ stage[p] # NoTree

(* _journal_write *)
Record ==
    /\ \E p \in Paths :
          /\ Committing(p) /\ ~RenameDue(p) /\ txn.phase[p] # "installed"
          /\ txn' = [txn EXCEPT !.phase[p] = NextPhase(p)]
    /\ \/ journal' = txn' /\ GoOn(pc)
       \/ journal' \in {journal, txn'} /\ Raise
    /\ UNCHANGED <<live, backup, stage, marker, plan, lastTx, damage, before>>

(* durable_rename(destination, previous) *)
MoveAside ==
    /\ \E p \in Paths :
          /\ Committing(p) /\ txn.phase[p] = "backup-intent" /\ RenameDue(p)
          /\ \/ /\ backup' = [backup EXCEPT ![p] = live[p]]
                /\ live' = [live EXCEPT ![p] = NoTree]
                /\ (GoOn(pc) \/ Raise)
             \/ Raise /\ UNCHANGED <<backup, live>>
    /\ UNCHANGED <<stage, journal, marker, txn, plan, lastTx, damage, before>>

(* durable_rename(staged, destination) *)
MoveIn ==
    /\ \E p \in Paths :
          /\ Committing(p) /\ txn.phase[p] = "install-intent" /\ RenameDue(p)
          /\ \/ /\ live' = [live EXCEPT ![p] = stage[p]]
                /\ stage' = [stage EXCEPT ![p] = NoTree]
                /\ (GoOn(pc) \/ Raise)
             \/ Raise /\ UNCHANGED <<stage, live>>
    /\ UNCHANGED <<backup, journal, marker, txn, plan, lastTx, damage, before>>

IsLast(p) == p = Count

NextPath ==
    /\ \E p \in Paths : Committing(p) /\ txn.phase[p] = "installed"
    /\ at' = at + 1
    /\ Continue(IF IsLast(at) THEN "verify" ELSE pc)
    /\ UNCHANGED <<disk, txn, caller, plan, exit, lastTx, damage, before>>

(* fsync of the game directory and the full validation *)
Verify ==
    /\ pc = "verify"
    /\ ((Valid(live) /\ GoOn("mark")) \/ Raise)
    /\ UNCHANGED <<disk, txn, plan, lastTx, damage, before>>

(* _write_install_marker, still inside the try block *)
Mark ==
    /\ pc = "mark"
    /\ \/ /\ marker' = [tx |-> txn.tx, seal |-> live]
          /\ (GoOn("publish") \/ Raise)
       \/ Raise /\ UNCHANGED marker
    /\ UNCHANGED <<live, backup, stage, journal, txn, plan, lastTx, damage, before>>

(* The journal's published flag is best effort, the fsync of the game      *)
(* directory after it is not.                                              *)
Publish ==
    /\ pc = "publish"
    /\ txn' = [txn EXCEPT !.published = TRUE]
    /\ \/ /\ journal' = txn'
          /\ Continue("clean") /\ caller' = "commit" /\ UNCHANGED <<at, exit>>
       \/ /\ faults < MaxFaults /\ faults' = faults + 1 /\ calm' = FALSE
          /\ journal' \in {journal, txn'}
          /\ pc' = "clean" /\ caller' = "commit" /\ UNCHANGED <<at, exit>>
       \/ journal' \in {journal, txn'} /\ Raise
    /\ UNCHANGED <<live, backup, stage, marker, plan, lastTx, damage, before>>

-----------------------------------------------------------------------------
(* Environment *)

(* The process is killed or the device loses power. *)
Crash ==
    /\ pc # "off"
    /\ pc' = "off"
    /\ UNCHANGED <<disk, process, calm, lastTx, faults, damage, before>>

(* Somebody changes the installed data while no installer runs. *)
Touch ==
    /\ pc = "off" /\ damage < MaxDamage
    /\ \E p \in Paths, t \in Touched : live' = [live EXCEPT ![p] = t]
    /\ damage' = damage + 1
    /\ exit' = "none"
    /\ UNCHANGED <<backup, stage, journal, marker, pc, txn, at, caller, plan, calm, lastTx,
                   faults, before>>

Installer ==
    \/ Recover \/ RollbackGivesUp \/ RollbackSetAside \/ RollbackRestore \/ RollbackNext
    \/ RollbackDone \/ CleanSome \/ CleanDone \/ CleanGivesUp
    \/ AlreadyReady \/ Adopt \/ Prepare \/ NoSource \/ Extract \/ Validate
    \/ BeginRefused \/ Begin \/ Record \/ MoveAside \/ MoveIn \/ NextPath
    \/ Verify \/ Mark \/ Publish

Next == Start \/ Installer \/ Crash \/ Touch

Spec == Init /\ [][Next]_vars

(* The installer runs on by itself, and the launcher starts it again each  *)
(* time the player starts the game.                                        *)
FairSpec == Spec /\ WF_vars(Installer) /\ WF_vars(Start)

-----------------------------------------------------------------------------
(* A run that answers "ready" leaves a payload that validates as a whole   *)
(* and a marker sealing exactly that payload: install_command, 3718-3865.  *)
ReadyMeansWhole == pc = "off" /\ exit = "ready" => marker.seal = live /\ Valid(live)

(* As long as nobody else touches the trees, no order of failures and      *)
(* crashes leaves a transaction that rollback_transaction calls ambiguous  *)
(* or unrestorable.                                                        *)
RollbackNeverStuck ==
    damage = 0 /\ pc = "rollback" /\ at # 0 => \A p \in Paths : p = at => ~Stuck(p)

(* A run in which no operation fails leaves no open transaction behind,    *)
(* whatever it found.                                                      *)
CalmRunHeals == damage = 0 /\ pc = "off" /\ exit # "none" /\ calm => journal.tx = 0

(* What rolling back the journal j would leave at path p. *)
Restored(j, p) == CASE ~j.had[p] -> NoTree
                    [] j.had[p] /\ backup[p] # NoTree -> backup[p]
                    [] OTHER -> live[p]

(* The payload the next recovery ends up with. *)
EventualPayload == IF journal.tx = 0 \/ (marker.tx = journal.tx /\ Sealed(marker, live))
                   THEN live
                   ELSE [p \in Paths |-> Restored(journal, p)]

Abstract == INSTANCE AtomicInstall WITH payload <- EventualPayload, meddled <- damage,
                                        Trees <- Tree, Versions <- Sources

(* Seen through recovery, an installation replaces all paths or none.      *)
RefinesAtomicInstall == Abstract!Spec

(* An interrupted transaction is resolved by some later run, unless every  *)
(* run is interrupted.                                                     *)
InterruptedIsResolved ==
    <>[][~Crash]_vars => (journal.tx # 0 /\ damage = 0 ~> journal.tx = 0 \/ damage # 0)

(* README line 116: a partial payload never takes the place of a working   *)
(* installation.                                                           *)
PartialNeverInstalled ==
    [][\A p \in Paths : live'[p] = Torn => live[p] = Torn]_vars

=============================================================================
