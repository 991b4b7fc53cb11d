------------------------------ MODULE PortSession ------------------------------
(***************************************************************************)
(* "Dead Trigger.sh" from the instance lock to its exit, around the        *)
(* process it starts.  Bash runs a trap between two commands, and when     *)
(* wait is interrupted; every other command is a step.  Several launches   *)
(* of the port may overlap.                                                *)
(***************************************************************************)
EXTENDS GameProcess, Naturals

CONSTANTS Ticks,      \* NXBOOTSTRAP_SHUTDOWN_TICKS: 10
          MaxSignals  \* bound: signals the frontend sends to each launch

ASSUME SessionAssumption == Ticks \in Nat /\ MaxSignals \in [Launches -> Nat]

VARIABLES at,         \* where each script is
          lock,       \* launches whose fd 9 holds the flock
          status,
          finished,   \* NXBOOTSTRAP_FINISHED
          aborting,   \* NXBOOTSTRAP_ABORTING
          handed,     \* history: runs of pm_finish that came to their end
          cut,        \* history: launches whose first signal left pm_finish half done
          pending,    \* signals bash has caught and not yet handled
          sent,       \* bound: signals sent
          requested,  \* NXBOOTSTRAP_SHUTDOWN_REQUESTED
          termSent,   \* NXBOOTSTRAP_TERM_SENT
          count,      \* NXBOOTSTRAP_SIGNAL_COUNT
          known,      \* NXBOOTSTRAP_CHILD_STARTTIME is set
          pid,        \* who has the child's pid: "child" (dead or alive), "nobody", "other"
          ticks,
          budget,     \* NXBOOTSTRAP_REWAIT_BUDGET
          strays      \* history: launches that have signalled a process not their own

handing == <<finished, aborting, handed, cut>>
script == <<at, lock, status, handing>>
signals == <<pending, sent, requested, count>>
child == <<known, termSent, pid, strays>>
timers == <<ticks, budget>>
vars == <<game, script, signals, child, timers>>

Early == {"lock", "extract", "gate"}
Armed == {"fork", "forked", "named", "recheck", "wait", "woken", "recover"}
Ignoring == {"deadline", "rewait"}
Leaving == {"finish", "flag", "pm", "exit"}

TypeOK ==
    /\ GameTypeOK
    /\ at \in [Launches -> {"idle", "exited"} \cup Early \cup Armed \cup Ignoring \cup Leaving]
    /\ lock \subseteq Launches /\ cut \subseteq Launches
    /\ finished \in [Launches -> BOOLEAN] /\ aborting \in [Launches -> BOOLEAN]
    /\ handed \in [Launches -> Nat]
    /\ status \in [Launches -> Statuses \cup {"aborted", "interrupted"}]
    /\ \A l \in Launches : {pending[l], sent[l], count[l], budget[l]} \subseteq 0 .. MaxSignals[l]
    /\ \A f \in {pending, sent, count, budget} : DOMAIN f = Launches
    /\ requested \in [Launches -> BOOLEAN]
    /\ known \in [Launches -> BOOLEAN] /\ termSent \in [Launches -> BOOLEAN]
    /\ pid \in [Launches -> {"nobody", "child", "other"}] /\ strays \subseteq Launches
    /\ ticks \in [Launches -> 0 .. Ticks]

All(value) == [l \in Launches |-> value]

Init ==
    /\ GameInit
    /\ at = All("idle") /\ lock = {} /\ status = All("none")
    /\ finished = All(FALSE) /\ aborting = All(FALSE) /\ handed = All(0) /\ cut = {}
    /\ pending = All(0) /\ sent = All(0) /\ requested = All(FALSE) /\ count = All(0)
    /\ known = All(FALSE) /\ termSent = All(FALSE) /\ pid = All("nobody") /\ strays = {}
    /\ ticks = All(0) /\ budget = All(0)

Goes(l, to) == at' = [at EXCEPT ![l] = to]

Ends(l, result) == Goes(l, "finish") /\ status' = [status EXCEPT ![l] = result]

(* The next command of a script that has no trap to run first. *)
Command(l, here) == at[l] = here /\ pending[l] = 0

-----------------------------------------------------------------------------
(* The instance lock and the checks before the game *)

(* Defect: the game and its helpers keep fd 9. *)
GameInherits(l) == Running(l) \/ game[l].helpers = "running"

(* The game is started with 9>&-. *)
GameKeepsLock(l) == FALSE

LockTaken == lock # {} \/ \E l \in Launches : GameKeepsLock(l)

Launch(l) ==
    /\ at[l] = "idle" /\ Goes(l, "lock")
    /\ UNCHANGED <<game, lock, status, handing, signals, child, timers>>

(* The lock file may also be missing or unsafe. *)
TakeLock(l) ==
    /\ Command(l, "lock")
    /\ \/ ~LockTaken /\ lock' = lock \cup {l} /\ Goes(l, "extract") /\ UNCHANGED status
       \/ Ends(l, "failed") /\ UNCHANGED lock
    /\ UNCHANGED <<game, handing, signals, child, timers>>

(* A foreground command: bash keeps the traps for its end. *)
Extract(l) ==
    /\ at[l] = "extract"
    /\ \/ Goes(l, "gate") /\ UNCHANGED status
       \/ Ends(l, "failed")
    /\ UNCHANGED <<game, lock, handing, signals, child, timers>>

Gate(l) ==
    /\ Command(l, "gate")
    /\ \/ Goes(l, "fork") /\ UNCHANGED status
       \/ Ends(l, "failed")
    /\ UNCHANGED <<game, lock, handing, signals, child, timers>>

-----------------------------------------------------------------------------
(* Signals *)

Listening(l) == at[l] \in Early \cup Armed \/ (at[l] \in Leaving /\ game[l].at = "none")

Signal(l) ==
    /\ Listening(l) /\ sent[l] < MaxSignals[l]
    /\ sent' = [sent EXCEPT ![l] = @ + 1] /\ pending' = [pending EXCEPT ![l] = @ + 1]
    /\ UNCHANGED <<game, script, requested, count, child, timers>>

(* Defect: NXBOOTSTRAP_ABORTING is not looked at. *)
AbortsAgain(l) == TRUE

Aborts(l) == ~aborting[l]

(* nxbootstrap_abort_before_game: what it interrupts is not taken up again, *)
(* for it ends in exit; a second call returns at once.                      *)
Abort(l) ==
    /\ at[l] \in Early \cup Leaving /\ pending[l] > 0
    /\ pending' = [pending EXCEPT ![l] = @ - 1]
    /\ IF Aborts(l)
         THEN /\ aborting' = [aborting EXCEPT ![l] = TRUE]
              /\ cut' = IF at[l] = "pm" /\ ~aborting[l] THEN cut \cup {l} ELSE cut
              /\ Ends(l, "aborted")
         ELSE UNCHANGED <<at, status, aborting, cut>>
    /\ UNCHANGED <<game, lock, finished, handed, sent, requested, count, child, timers>>

(* Defect: any process with that pid is the child. *)
SamePid(l) == pid[l] = "other" \/ (pid[l] = "child" /\ Running(l))

(* nxbootstrap_child_alive, once the start time is known: a zombie is      *)
(* dead, and a process that has taken the pid started at another time.     *)
SameProcess(l) == pid[l] = "child" /\ Running(l)

Alive(l) == known[l] /\ SameProcess(l)

(* nxbootstrap_capture_child_starttime; it may fail. *)
Capture(l) == known' = [known EXCEPT ![l] = TRUE] /\ pid[l] = "child"

Hit(l, signal) ==
    IF pid[l] = "other" THEN strays' = strays \cup {l} /\ UNCHANGED game
    ELSE signal /\ UNCHANGED strays

TermAllowed(l) == ~termSent[l]

(* nxbootstrap_signal_child *)
SignalChild(l) ==
    \/ /\ TermAllowed(l) /\ at[l] \notin {"fork", "forked"}
       /\ SameProcess(l)
       /\ IF known[l] THEN UNCHANGED known ELSE Capture(l)
       /\ termSent' = [termSent EXCEPT ![l] = TRUE]
       /\ Hit(l, Terminate(l))
    \/ /\ ~TermAllowed(l) \/ at[l] \in {"fork", "forked"} \/ ~known[l] \/ ~SameProcess(l)
       /\ UNCHANGED <<game, known, termSent, strays>>

(* nxbootstrap_request_shutdown *)
RequestShutdown(l) ==
    /\ at[l] \in Armed /\ pending[l] > 0
    /\ pending' = [pending EXCEPT ![l] = @ - 1]
    /\ count' = [count EXCEPT ![l] = @ + 1] /\ requested' = [requested EXCEPT ![l] = TRUE]
    /\ SignalChild(l)
    /\ UNCHANGED <<script, sent, pid, timers>>

-----------------------------------------------------------------------------
(* The game *)

Fork(l) ==
    /\ Command(l, "fork")
    /\ Started(l) /\ pid' = [pid EXCEPT ![l] = "child"]
    /\ Goes(l, "forked")
    /\ UNCHANGED <<lock, status, handing, signals, known, termSent, strays, timers>>

(* game_pid=$! *)
Name(l) ==
    /\ Command(l, "forked") /\ Goes(l, "named")
    /\ UNCHANGED <<game, lock, status, handing, signals, child, timers>>

Identify(l) ==
    /\ Command(l, "named") /\ Goes(l, "recheck")
    /\ Capture(l) \/ known' = [known EXCEPT ![l] = FALSE]
    /\ UNCHANGED <<game, lock, status, handing, signals, termSent, pid, strays, timers>>

(* Defect: a signal that came before the pid was known is forgotten. *)
Forget(l) == FALSE

AskedBefore(l) == requested[l]

Recheck(l) ==
    /\ Command(l, "recheck") /\ Goes(l, "wait")
    /\ IF AskedBefore(l) THEN SignalChild(l) ELSE UNCHANGED <<game, known, termSent, strays>>
    /\ UNCHANGED <<lock, status, handing, signals, pid, timers>>

Collected(l) == pid' = [pid EXCEPT ![l] = IF @ = "child" THEN "nobody" ELSE @]

Wait(l) ==
    /\ at[l] = "wait" /\ Goes(l, "woken")
    /\ \/ /\ ~Running(l) /\ Collected(l)
          /\ status' = [status EXCEPT ![l] = game[l].status]
       \/ /\ pending[l] > 0 /\ UNCHANGED pid
          /\ status' = [status EXCEPT ![l] = "interrupted"]
    /\ UNCHANGED <<game, lock, handing, signals, known, termSent, strays, timers>>

(* From here on, if a shutdown was asked for, signals are ignored. *)
Woken(l) ==
    /\ Command(l, "woken")
    /\ IF requested[l] THEN Goes(l, "deadline") /\ ticks' = [ticks EXCEPT ![l] = Ticks]
       ELSE Goes(l, "recover") /\ UNCHANGED ticks
    /\ UNCHANGED <<game, lock, status, handing, signals, child, budget>>

(* Defect: KILL follows at once. *)
Impatient(l) == TRUE

Expired(l) == ticks[l] = 0

SleepTick(l) ==
    /\ at[l] = "deadline" /\ ~Expired(l) /\ Alive(l)
    /\ ticks' = [ticks EXCEPT ![l] = @ - 1]
    /\ UNCHANGED <<game, script, signals, child, budget>>

(* Defect: the first wait is believed. *)
NoRewait(l) == 0

RewaitBudget(l) == count[l]

Deadline(l) ==
    /\ at[l] = "deadline" /\ (Expired(l) \/ ~Alive(l))
    /\ IF Alive(l) THEN Hit(l, Kill(l)) ELSE UNCHANGED <<game, strays>>
    /\ budget' = [budget EXCEPT ![l] = RewaitBudget(l)]
    /\ Goes(l, "rewait")
    /\ UNCHANGED <<lock, status, handing, signals, known, termSent, pid, ticks>>

(* 129, 130 and 143 may be the status of an interrupted wait. *)
Doubtful(l) == status[l] \in {"interrupted", "termed"}

Rewait(l) ==
    /\ at[l] = "rewait" /\ budget[l] > 0 /\ Doubtful(l) /\ ~Running(l)
    /\ budget' = [budget EXCEPT ![l] = @ - 1]
    /\ status' = [status EXCEPT ![l] = game[l].status] /\ Collected(l)
    /\ UNCHANGED <<game, at, lock, handing, signals, known, termSent, strays, ticks>>

Believe(l) ==
    /\ at[l] = "rewait" /\ (budget[l] = 0 \/ ~Doubtful(l))
    /\ Goes(l, "finish")
    /\ UNCHANGED <<game, lock, status, handing, signals, child, timers>>

(* Without a request wait has not been interrupted, so the loop that waits *)
(* again for a child still alive ends at once.                             *)
Recover(l) ==
    /\ Command(l, "recover") /\ ~Alive(l)
    /\ Goes(l, "finish")
    /\ UNCHANGED <<game, lock, status, handing, signals, child, timers>>

-----------------------------------------------------------------------------
(* The screen is handed back: nxbootstrap_finish is called by the script,  *)
(* by an abort and, at exit, by the EXIT trap.  Before the game every one  *)
(* of its commands may be followed by a trap; after it the traps only ask  *)
(* a game that is gone to stop, or nothing.                                *)

(* [ "$NXBOOTSTRAP_FINISHED" = 0 ] || return 0 *)
Finish(l) ==
    /\ Command(l, "finish") /\ Goes(l, IF finished[l] THEN "exit" ELSE "flag")
    /\ UNCHANGED <<game, lock, status, handing, signals, child, timers>>

SetFinished(l) ==
    /\ Command(l, "flag") /\ Goes(l, "pm")
    /\ finished' = [finished EXCEPT ![l] = TRUE]
    /\ UNCHANGED <<game, lock, status, aborting, handed, cut, signals, child, timers>>

(* The end of pm_finish.  A trap that is due may run in its middle, or     *)
(* after its last command.                                                 *)
HandBack(l) ==
    /\ at[l] = "pm" /\ Goes(l, "exit")
    /\ handed' = [handed EXCEPT ![l] = @ + 1]
    /\ UNCHANGED <<game, lock, status, finished, aborting, cut, signals, child, timers>>

Exit(l) ==
    /\ Command(l, "exit")
    /\ IF finished[l] THEN Goes(l, "exited") /\ lock' = lock \ {l}
       ELSE Goes(l, "flag") /\ UNCHANGED lock
    /\ UNCHANGED <<game, status, handing, signals, child, timers>>

ScriptStep(l) ==
    \/ TakeLock(l) \/ Extract(l) \/ Gate(l) \/ Abort(l) \/ RequestShutdown(l)
    \/ Fork(l) \/ Name(l) \/ Identify(l) \/ Recheck(l) \/ Wait(l) \/ Woken(l)
    \/ SleepTick(l) \/ Deadline(l) \/ Rewait(l) \/ Believe(l) \/ Recover(l)
    \/ Finish(l) \/ SetFinished(l) \/ HandBack(l) \/ Exit(l)

-----------------------------------------------------------------------------
(* The system around *)

(* Bash collects a dead child when SIGCHLD comes. *)
Reap(l) ==
    /\ pid[l] = "child" /\ ~Running(l) /\ at[l] # "exited"
    /\ pid' = [pid EXCEPT ![l] = "nobody"]
    /\ UNCHANGED <<game, script, signals, known, termSent, strays, timers>>

(* The pid goes to another process; numbers do not wrap around before its  *)
(* start time has been read.                                               *)
Recycle(l) ==
    /\ pid[l] = "nobody" /\ known[l] /\ at[l] \notin {"forked", "named", "exited"}
    /\ pid' = [pid EXCEPT ![l] = "other"]
    /\ UNCHANGED <<game, script, signals, known, termSent, strays, timers>>

Play(l) == GameStep(l) /\ UNCHANGED <<script, signals, child, timers>>

Next ==
    \E l \in Launches :
        Launch(l) \/ Signal(l) \/ ScriptStep(l) \/ Play(l) \/ Reap(l) \/ Recycle(l)

Spec == Init /\ [][Next]_vars

(* Bash goes on, the installer ends, the UI thread runs unless it is stuck *)
(* in a call; UnityMain owes nothing.                                      *)
FairSpec ==
    /\ Spec
    /\ \A l \in Launches : /\ WF_vars(ScriptStep(l))
                           /\ WF_vars(UiStep(l) /\ UNCHANGED <<script, signals, child, timers>>)

-----------------------------------------------------------------------------
(* What the launcher promises *)

(* However launches overlap, one game runs at most; a launcher does not    *)
(* leave while its game runs: an interrupted wait is taken up again until  *)
(* the game is gone; and when the last launcher has gone so has the lock,  *)
(* even if helpers of the game live on ("Dead Trigger.sh":217, 366-369,    *)
(* 378-402).                                                               *)
OneGame == \A k, l \in Launches : Running(k) /\ Running(l) => k = l
NoGameLeftBehind == \A l \in Launches : at[l] = "exited" => ~Running(l)
LockDiesWithLauncher == LockTaken => \E l \in Launches : at[l] \notin {"idle", "exited"}

GamesAreOwned == OneGame /\ NoGameLeftBehind /\ LockDiesWithLauncher

(* The frontend gets its screen back exactly once on every way out: the    *)
(* script's own end, an abort in any command of the checks or of an end    *)
(* already under way, a second signal while aborting, the EXIT trap.  One  *)
(* launch goes without: pm_finish was running after a failed check when    *)
(* its first signal came, and the abort found the flag already set         *)
(* ("Dead Trigger.sh":7-30).                                               *)
FinishedOnce ==
    \A l \in Launches :
        /\ handed[l] <= 1
        /\ at[l] = "exited" => handed[l] = 1 \/ l \in cut
        /\ l \in cut => handed[l] = 0 /\ game[l].at = "none" /\ status[l] = "aborted"

(* The status handed to the frontend is the game's own, never that of an   *)
(* interrupted wait ("Dead Trigger.sh":391-402).                           *)
StatusIsTheGames ==
    \A l \in Launches : (at[l] = "exited" /\ game[l].at # "none") => status[l] = game[l].status

(* TERM and KILL reach the launcher's own child or nobody, even when the   *)
(* pid has a new owner ("Dead Trigger.sh":338-349).                        *)
SignalsOwnChild == strays = {}

(* A game is killed only by a launcher that has asked it to end and waited *)
(* the deadline out ("Dead Trigger.sh":382-388).                           *)
KillIsLast ==
    [][\A l \in Launches :
          (game'[l].status = "killed" /\ game[l].status # "killed")
              => (termSent[l] /\ ticks[l] = 0)]_vars

(* A launcher whose game is gone ends, and so does one asked to stop:      *)
(* unless it never learnt the start time of its child, or the request was  *)
(* handled before wait began - then no deadline runs - and the child is    *)
(* stuck ("Dead Trigger.sh":358-402).                                      *)
LaunchesEnd ==
    \A l \in Launches :
        /\ game[l].at = "gone" ~> at[l] = "exited"
        /\ requested[l] ~> (at[l] = "exited" \/ ~known[l] \/ (at[l] = "wait" /\ game[l].stuck))

(* What a comment of main.c says of the process's own exit: "The native    *)
(* focus-lost/nativePause sequence has completed" (main.c:1001).           *)
PausePrecedesExit ==
    \A l \in Launches : game[l].status = "clean" => game[l].unity = "stopped"
=============================================================================
