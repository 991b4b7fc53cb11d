--------------------------- MODULE PortSessionProofs ---------------------------
(***************************************************************************)
(* The launcher's safety, for any number of launches and of signals and    *)
(* any deadline.                                                           *)
(***************************************************************************)
EXTENDS PortSession, TLAPS

USE SessionAssumption DEF SessionAssumption

-----------------------------------------------------------------------------
(* The process seen from the launcher *)

Settled(l) == game[l].at = "gone" /\ status[l] = game[l].status

OthersSame(l) == \A m \in Launches \ {l} : game'[m] = game[m]

(* A process grows older: it does not come back, its status stays, and it  *)
(* is not killed by itself.                                                *)
Ages(l) ==
    /\ GameTypeOK' /\ OthersSame(l)
    /\ game[l].at # "none" /\ game'[l].at # "none"
    /\ game[l].at = "gone" => game'[l].at = "gone" /\ game'[l].status = game[l].status
    /\ game'[l].status = "killed" => game[l].status = "killed"

Process == [at : {"none", "exec", "boot", "loop", "drain", "gone"},
            unity : {"none", "starting", "playing", "intro", "pausing", "stopped"},
            helpers : {"none", "running", "gone"},
            quit : BOOLEAN, stuck : BOOLEAN, status : Statuses]

LEMMA Update ==
    ASSUME GameTypeOK, NEW l \in Launches, NEW r \in Process, game' = [game EXCEPT ![l] = r]
    PROVE  GameTypeOK' /\ OthersSame(l) /\ game'[l] = r
BY DEF GameTypeOK, Process, OthersSame

(* How a process ends. *)
LEMMA DiesAges ==
    ASSUME GameTypeOK, NEW l \in Launches, Running(l), NEW s \in Statuses, Dies(l, s)
    PROVE  /\ GameTypeOK' /\ OthersSame(l)
           /\ game'[l].at = "gone" /\ game'[l].status = s
<1> DEFINE r == [NoGame EXCEPT !.at = "gone", !.status = s,
                    !.helpers = IF game[l].helpers = "running" THEN "running" ELSE "none",
                    !.unity = IF game[l].unity = "stopped" THEN "stopped" ELSE "none"]
<1>1. r \in Process /\ r.at = "gone" /\ r.status = s
  BY DEF NoGame, Process
<1>2. game' = [game EXCEPT ![l] = r]
  BY DEF Dies
<1> HIDE DEF r
<1> QED
  BY <1>1, <1>2, Update

LEMMA GameStepAges ==
    ASSUME GameTypeOK, NEW l \in Launches, GameStep(l)
    PROVE  Ages(l)
<1> DEFINE Now == game[l]
<1>1. Now \in Process
  BY DEF GameTypeOK, Process
<1>2. ASSUME NEW r \in Process, game' = [game EXCEPT ![l] = r],
             Now.at # "none", r.at # "none", r.status = Now.status,
             Now.at = "gone" => r.at = "gone"
      PROVE  Ages(l)
  BY <1>2, Update DEF Ages
<1>3. ASSUME NEW s \in Statuses \ {"killed"}, Now.at \notin {"none", "gone"}, Dies(l, s)
      PROVE  Ages(l)
  BY <1>3, DiesAges DEF Ages, Running
<1>4. CASE InstallHandlers(l)
  <2>1. game' = [game EXCEPT ![l] = [Now EXCEPT !.at = "boot"]] /\ Now.at # "none"
    BY <1>4 DEF InstallHandlers, UiThread
  <2>2. [Now EXCEPT !.at = "boot"] \in Process
    BY <1>1 DEF Process
  <2> QED
    BY <1>1, <1>2, <1>4, <2>1, <2>2 DEF Process, InstallHandlers, UiThread
<1>5. CASE AskToQuit(l)
  <2>1. game' = [game EXCEPT ![l] = [Now EXCEPT !.quit = TRUE]] /\ Now.at # "none"
    BY <1>5 DEF AskToQuit, UiThread
  <2>2. [Now EXCEPT !.quit = TRUE] \in Process
    BY <1>1 DEF Process
  <2> QED
    BY <1>1, <1>2, <1>5, <2>1, <2>2 DEF Process, AskToQuit, UiThread
<1>6. CASE LeaveLoop(l)
  <2>1. game' = [game EXCEPT ![l] = [Now EXCEPT !.at = "drain"]] /\ Now.at # "none"
    BY <1>6 DEF LeaveLoop, UiThread
  <2>2. [Now EXCEPT !.at = "drain"] \in Process
    BY <1>1 DEF Process
  <2> QED
    BY <1>1, <1>2, <1>6, <2>1, <2>2 DEF Process, LeaveLoop, UiThread
<1>7. CASE GetStuck(l)
  <2>1. game' = [game EXCEPT ![l] = [Now EXCEPT !.stuck = TRUE]] /\ Now.at # "none"
    BY <1>7 DEF GetStuck
  <2>2. [Now EXCEPT !.stuck = TRUE] \in Process
    BY <1>1 DEF Process
  <2> QED
    BY <1>1, <1>2, <1>7, <2>1, <2>2 DEF Process, GetStuck
<1>8. CASE Resume(l)
  <2>1. game' = [game EXCEPT ![l] = [Now EXCEPT !.unity = "playing"]] /\ Now.at # "none"
    BY <1>8 DEF Resume, Unity, UnityGoes
  <2>2. [Now EXCEPT !.unity = "playing"] \in Process
    BY <1>1 DEF Process
  <2> QED
    BY <1>1, <1>2, <1>8, <2>1, <2>2 DEF Process, Resume, Unity, UnityGoes
<1>9. CASE RenderEnds(l)
  <2>1. game' = [game EXCEPT ![l] = [Now EXCEPT !.quit = TRUE]] /\ Now.at # "none"
    BY <1>9 DEF RenderEnds, Unity
  <2>2. [Now EXCEPT !.quit = TRUE] \in Process
    BY <1>1 DEF Process
  <2> QED
    BY <1>1, <1>2, <1>9, <2>1, <2>2 DEF Process, RenderEnds, Unity
<1>10. CASE StartVideo(l)
  <2>1. game' = [game EXCEPT ![l] = [Now EXCEPT !.unity = "intro", !.helpers = "running"]] /\ Now.at # "none"
    BY <1>10 DEF StartVideo, Unity
  <2>2. [Now EXCEPT !.unity = "intro", !.helpers = "running"] \in Process
    BY <1>1 DEF Process
  <2> QED
    BY <1>1, <1>2, <1>10, <2>1, <2>2 DEF Process, StartVideo, Unity
<1>11. CASE StopVideo(l)
  <2>1. game' = [game EXCEPT ![l] = [Now EXCEPT !.unity = "playing", !.helpers = "gone"]] /\ Now.at # "none"
    BY <1>11 DEF StopVideo, Unity
  <2>2. [Now EXCEPT !.unity = "playing", !.helpers = "gone"] \in Process
    BY <1>1 DEF Process
  <2> QED
    BY <1>1, <1>2, <1>11, <2>1, <2>2 DEF Process, StopVideo, Unity
<1>12. CASE LoseFocus(l)
  <2>1. game' = [game EXCEPT ![l] = [Now EXCEPT !.unity = "pausing"]] /\ Now.at # "none"
    BY <1>12 DEF LoseFocus, Unity, UnityGoes
  <2>2. [Now EXCEPT !.unity = "pausing"] \in Process
    BY <1>1 DEF Process
  <2> QED
    BY <1>1, <1>2, <1>12, <2>1, <2>2 DEF Process, LoseFocus, Unity, UnityGoes
<1>13. CASE PauseReturns(l)
  <2>1. game' = [game EXCEPT ![l] = [Now EXCEPT !.unity = "stopped"]] /\ Now.at # "none"
    BY <1>13 DEF PauseReturns, Unity, UnityGoes
  <2>2. [Now EXCEPT !.unity = "stopped"] \in Process
    BY <1>1 DEF Process
  <2> QED
    BY <1>1, <1>2, <1>13, <2>1, <2>2 DEF Process, PauseReturns, Unity, UnityGoes
<1>14. CASE FilmEnds(l)
  <2>1. game' = [game EXCEPT ![l] = [Now EXCEPT !.helpers = "none"]] /\ Now.at # "none"
    BY <1>14 DEF FilmEnds
  <2>2. [Now EXCEPT !.helpers = "none"] \in Process
    BY <1>1 DEF Process
  <2> QED
    BY <1>1, <1>2, <1>14, <2>1, <2>2 DEF Process, FilmEnds
<1>15. CASE Boot(l)
  <2>1. CASE Dies(l, "failed")
    BY <1>3, <1>15, <2>1 DEF Boot, UiThread, Statuses
  <2>2. CASE game' = [game EXCEPT ![l].at = "loop", ![l].unity = "starting"]
    <3>1. game' = [game EXCEPT ![l] = [Now EXCEPT !.at = "loop", !.unity = "starting"]]
      BY <2>2
    <3>2. [Now EXCEPT !.at = "loop", !.unity = "starting"] \in Process
      BY <1>1 DEF Process
    <3> QED
      BY <1>1, <1>2, <1>15, <3>1, <3>2 DEF Process, Boot, UiThread
  <2> QED
    BY <1>15, <2>1, <2>2 DEF Boot
<1>16. CASE Join(l) \/ GiveUp(l) \/ Crash(l)
  BY <1>3, <1>16 DEF Join, GiveUp, Crash, UiThread, Statuses
<1> QED
  BY <1>4, <1>5, <1>6, <1>7, <1>8, <1>9, <1>10, <1>11, <1>12, <1>13, <1>14, <1>15, <1>16 DEF GameStep, UiStep

LEMMA TerminateAges ==
    ASSUME GameTypeOK, NEW l \in Launches, Running(l), Terminate(l)
    PROVE  Ages(l)
<1>1. CASE game[l].at = "exec"
  BY <1>1, DiesAges DEF Terminate, Ages, Statuses
<1>2. CASE game[l].at # "exec"
  <2> DEFINE r == [game[l] EXCEPT !.quit = TRUE]
  <2>1. game' = [game EXCEPT ![l] = r]
    BY <1>2 DEF Terminate
  <2>2. game[l] \in Process
    BY DEF GameTypeOK, Process
  <2>3. r \in Process /\ r.at = game[l].at /\ r.status = game[l].status
    BY <2>2 DEF Process
  <2> HIDE DEF r
  <2>4. GameTypeOK' /\ OthersSame(l) /\ game'[l] = r
    BY <2>1, <2>3, Update
  <2> QED
    BY <2>3, <2>4 DEF Ages, Running
<1> QED
  BY <1>1, <1>2

LEMMA KillEnds ==
    ASSUME GameTypeOK, NEW l \in Launches, Running(l), Kill(l)
    PROVE  GameTypeOK' /\ OthersSame(l) /\ game'[l].at = "gone" /\ game'[l].status = "killed"
BY DiesAges DEF Kill, Statuses

LEMMA StartedRuns ==
    ASSUME GameTypeOK, NEW l \in Launches, Started(l)
    PROVE  GameTypeOK' /\ OthersSame(l) /\ game'[l].at = "exec" /\ game'[l].status = "none"
<1> DEFINE r == [NoGame EXCEPT !.at = "exec"]
<1>1. r \in Process /\ r.at = "exec" /\ r.status = "none"
  BY DEF NoGame, Process, Statuses
<1>2. game' = [game EXCEPT ![l] = r]
  BY DEF Started
<1> HIDE DEF r
<1> QED
  BY <1>1, <1>2, Update

-----------------------------------------------------------------------------
(* The invariant *)

BeforeGame == {"idle", "lock", "extract", "gate", "fork"}
Watching == {"forked", "named", "recheck", "wait", "woken", "deadline", "rewait"}
WithLock == {"extract", "gate"} \cup Armed \cup Ignoring

Shapes ==
    /\ GameTypeOK
    /\ at \in [Launches -> {"idle", "exited"} \cup Early \cup Armed \cup Ignoring \cup Leaving]
    /\ lock \subseteq Launches
    /\ finished \in [Launches -> BOOLEAN] /\ aborting \in [Launches -> BOOLEAN]
    /\ handed \in [Launches -> Nat] /\ cut \subseteq Launches
    /\ status \in [Launches -> Statuses \cup {"aborted", "interrupted"}]
    /\ pending \in [Launches -> Nat] /\ sent \in [Launches -> Nat]
    /\ count \in [Launches -> Nat] /\ budget \in [Launches -> Nat]
    /\ requested \in [Launches -> BOOLEAN]
    /\ known \in [Launches -> BOOLEAN] /\ termSent \in [Launches -> BOOLEAN]
    /\ pid \in [Launches -> {"nobody", "child", "other"}]
    /\ ticks \in [Launches -> 0 .. Ticks]

(* Signals are counted once, and waits are not taken up more often.        *)
Bounded(l) ==
    /\ sent[l] <= MaxSignals[l]
    /\ pending[l] + count[l] <= sent[l]
    /\ budget[l] <= count[l]
    /\ count[l] > 0 <=> requested[l]
    /\ at[l] \in Ignoring \/ (at[l] \in Leaving /\ game[l].at # "none") => pending[l] = 0

(* The lock is held from the first check to the exit, and by one launch.   *)
Locked(l) ==
    /\ at[l] \in WithLock => l \in lock
    /\ l \in lock => at[l] \notin {"idle", "lock", "exited"}
OneHolder == \A k, l \in lock : k = l

(* The game lives only while it is watched, and what the launcher takes    *)
(* for its status is that of an interrupted wait only as long as there is  *)
(* a signal to blame and a wait left to take up.                           *)
Owned(l) ==
    /\ at[l] \in BeforeGame => game[l].at = "none"
    /\ at[l] \in Watching \cup {"recover"} => game[l].at # "none"
    /\ Running(l) => at[l] \in Watching
    /\ at[l] \in {"recover", "exited"} \cup Leaving /\ game[l].at # "none" => Settled(l)
    /\ at[l] \in {"woken", "deadline", "rewait"} => Settled(l) \/ status[l] = "interrupted"
    /\ at[l] = "woken" => Settled(l) \/ pending[l] + count[l] > 0
    /\ at[l] = "deadline" => count[l] > 0
    /\ at[l] = "rewait" => Settled(l) \/ budget[l] > 0

(* A launcher that waits has sent the TERM it was asked for, if it can     *)
(* tell its child.                                                         *)
Asked(l) ==
    at[l] \in {"wait", "woken", "deadline"} /\ requested[l] /\ Alive(l) => termSent[l]

(* The flag is up from the one call of pm_finish on, and that call has     *)
(* come to its end unless it is under way or a first abort cut it.         *)
FinishedSoFar(l) ==
    /\ at[l] \in {"idle", "flag"} \cup Early \cup Armed \cup Ignoring => ~finished[l]
    /\ at[l] \in {"pm", "exit", "exited"} => finished[l]
    /\ handed[l] = IF finished[l] /\ at[l] # "pm" /\ l \notin cut THEN 1 ELSE 0
    /\ l \in cut => /\ finished[l] /\ at[l] # "pm" /\ aborting[l]
                    /\ game[l].at = "none" /\ status[l] = "aborted"

Good(l) == Bounded(l) /\ Locked(l) /\ Owned(l) /\ Asked(l) /\ FinishedSoFar(l)

IInv == Shapes /\ SignalsOwnChild /\ OneHolder /\ \A l \in Launches : Good(l)

LEMMA InitInv == Init => IInv
<1> SUFFICES ASSUME Init PROVE IInv
  OBVIOUS
<1>1. GameTypeOK /\ \A l \in Launches : game[l] = NoGame
  BY DEF Init, GameInit, GameTypeOK, NoGame, Statuses
<1>2. Shapes
  BY <1>1 DEF Init, Shapes, All, Statuses
<1>3. OneHolder /\ SignalsOwnChild
  BY DEF Init, OneHolder, SignalsOwnChild
<1>4. ASSUME NEW l \in Launches PROVE Good(l)
  BY <1>1, <1>4 DEF Init, All, Good, Bounded, Locked, Owned, Asked, FinishedSoFar, NoGame,
     WithLock, Armed, Ignoring, Leaving, BeforeGame, Watching, Running, Alive
<1> QED
  BY <1>2, <1>3, <1>4 DEF IInv

-----------------------------------------------------------------------------
(* A launch is not affected by the steps of another.                       *)
Same(l) ==
    /\ game'[l] = game[l] /\ at'[l] = at[l] /\ (l \in lock' <=> l \in lock)
    /\ finished'[l] = finished[l] /\ aborting'[l] = aborting[l] /\ handed'[l] = handed[l]
    /\ (l \in cut' <=> l \in cut) /\ status'[l] = status[l]
    /\ pending'[l] = pending[l] /\ sent'[l] = sent[l] /\ count'[l] = count[l]
    /\ budget'[l] = budget[l] /\ requested'[l] = requested[l] /\ known'[l] = known[l]
    /\ termSent'[l] = termSent[l] /\ pid'[l] = pid[l]

LEMMA SameGood == ASSUME NEW l \in Launches, Good(l), Same(l) PROVE Good(l)'
BY DEF Same, Good, Bounded, Locked, Owned, Asked, FinishedSoFar, Running, Alive, SameProcess,
   Settled

Mine(l) == Shapes' /\ SignalsOwnChild' /\ Good(l)' /\ \A m \in Launches \ {l} : Same(m)

LEMMA Together ==
    ASSUME IInv, NEW l \in Launches, Mine(l), OneHolder'
    PROVE  IInv'
BY SameGood DEF Mine, IInv

(* The steps that leave the process alone.                                 *)
LEMMA ScriptMine ==
    ASSUME IInv, NEW l \in Launches, UNCHANGED game,
           \/ Launch(l) \/ TakeLock(l) \/ Extract(l) \/ Gate(l) \/ Abort(l) \/ Signal(l)
           \/ Name(l) \/ Identify(l) \/ Wait(l) \/ Woken(l) \/ SleepTick(l) \/ Rewait(l)
           \/ Believe(l) \/ Recover(l) \/ Finish(l) \/ SetFinished(l) \/ HandBack(l) \/ Exit(l)
           \/ Reap(l) \/ Recycle(l)
    PROVE  IInv'
<1> USE DEF IInv, Mine, Shapes, Same, OneHolder, SignalsOwnChild,
        Good, Bounded, Locked, Owned, Asked, FinishedSoFar, Settled, Running, Alive, SameProcess,
        BeforeGame, Watching, WithLock, Early, Armed, Ignoring, Leaving,
        script, handing, signals, child, timers, Goes, handing, Ends, Command
<1>0. GameTypeOK' /\ "failed" \in Statuses
  BY DEF GameTypeOK, Statuses
<1>1. CASE Launch(l)
  BY <1>0, <1>1, Together DEF Launch
<1>2. CASE TakeLock(l)
  <2>1. CASE Ends(l, "failed") /\ UNCHANGED lock
    <3>1. Shapes'
      BY <1>0, <1>2, <2>1 DEF TakeLock
    <3> QED
      BY <1>2, <2>1, <3>1, Together DEF TakeLock
  <2>2. CASE lock = {} /\ lock' = {l} /\ Goes(l, "extract") /\ UNCHANGED status
    <3>1. Shapes' /\ SignalsOwnChild'
      BY <1>0, <1>2, <2>2 DEF TakeLock
    <3>2. Good(l)' /\ \A m \in Launches \ {l} : Same(m)
      BY <1>2, <2>2 DEF TakeLock
    <3>3. OneHolder'
      BY <2>2
    <3> QED
      BY <3>1, <3>2, <3>3, Together
  <2> QED
    BY <1>2, <2>1, <2>2 DEF TakeLock, LockTaken
<1>3. CASE Extract(l)
  <2>1. CASE Ends(l, "failed")
    BY <1>0, <1>3, <2>1, Together DEF Extract
  <2>2. CASE Goes(l, "gate") /\ UNCHANGED status
    BY <1>0, <1>3, <2>2, Together DEF Extract
  <2> QED
    BY <1>3, <2>1, <2>2 DEF Extract
<1>4. CASE Gate(l)
  <2>1. CASE Ends(l, "failed")
    BY <1>0, <1>4, <2>1, Together DEF Gate
  <2>2. CASE Goes(l, "fork") /\ UNCHANGED status
    BY <1>0, <1>4, <2>2, Together DEF Gate
  <2> QED
    BY <1>4, <2>1, <2>2 DEF Gate
<1>5. CASE Abort(l)
  <2>1. CASE Ends(l, "aborted") /\ aborting' = [aborting EXCEPT ![l] = TRUE]
             /\ cut' = (IF at[l] = "pm" /\ ~aborting[l] THEN cut \cup {l} ELSE cut) /\ ~aborting[l]
    <3>1. Shapes' /\ SignalsOwnChild' /\ OneHolder'
      BY <1>0, <1>5, <2>1 DEF Abort
    <3>2. game[l].at = "none"
      BY <1>5 DEF Abort
    <3>3. FinishedSoFar(l)'
      BY <1>5, <2>1, <3>2 DEF Abort
    <3>4. (Bounded(l) /\ Locked(l) /\ Owned(l) /\ Asked(l))'
      BY <1>5, <2>1, <3>2 DEF Abort
    <3>5. \A m \in Launches \ {l} : Same(m)
      BY <1>5, <2>1 DEF Abort
    <3> QED
      BY <3>1, <3>3, <3>4, <3>5, Together
  <2>2. CASE UNCHANGED <<at, status, aborting, cut>>
    BY <1>0, <1>5, <2>2, Together DEF Abort
  <2> QED
    BY <1>5, <2>1, <2>2 DEF Abort, Aborts
<1>6. CASE Signal(l)
  BY <1>0, <1>6, Together DEF Signal, Listening
<1>7. CASE Name(l)
  BY <1>0, <1>7, Together DEF Name
<1>8. CASE Identify(l)
  <2>1. PICK b \in BOOLEAN : known' = [known EXCEPT ![l] = b]
    BY <1>8 DEF Identify, Capture
  <2> QED
    BY SMTT(30), <1>0, <1>8, <2>1, Together DEF Identify
<1>9. CASE Wait(l)
  <2>1. CASE status' = [status EXCEPT ![l] = game[l].status] /\ Collected(l) /\ ~Running(l)
    BY SMTT(30), <1>0, <1>9, <2>1, Together DEF Wait, Collected, GameTypeOK
  <2>2. CASE status' = [status EXCEPT ![l] = "interrupted"] /\ UNCHANGED pid /\ pending[l] > 0
    BY SMTT(30), <1>0, <1>9, <2>2, Together DEF Wait
  <2> QED
    BY <1>9, <2>1, <2>2 DEF Wait
<1>10. CASE Woken(l)
  <2>1. Shapes' /\ Good(l)'
    <3>1. Shapes'
      BY <1>0, <1>10 DEF Woken
    <3>2. Good(l)'
      BY <1>10 DEF Woken
    <3> QED
      BY <3>1, <3>2
  <2> QED
    BY SMTT(30), <1>10, <2>1, Together DEF Woken
<1>11. CASE SleepTick(l)
  <2>1. Shapes' /\ Good(l)'
    BY <1>0, <1>11 DEF SleepTick, Expired
  <2> QED
    BY SMTT(30), <1>11, <2>1, Together DEF SleepTick
<1>12. CASE Rewait(l)
  <2>1. Shapes'
    BY <1>0, <1>12 DEF Rewait, Collected, GameTypeOK
  <2>2. Good(l)'
    BY <1>12 DEF Rewait, Collected, GameTypeOK
  <2> QED
    BY SMTT(30), <1>12, <2>1, <2>2, Together DEF Rewait, Collected, GameTypeOK
<1>13. CASE Believe(l)
  BY <1>0, <1>13, Together DEF Believe, Doubtful
<1>14. CASE Recover(l)
  BY <1>0, <1>14, Together DEF Recover
<1>15. CASE Finish(l)
  BY <1>0, <1>15, Together DEF Finish
<1>16. CASE Exit(l)
  <2>1. finished[l] /\ Goes(l, "exited") /\ lock' = lock \ {l}
    BY <1>16 DEF Exit
  <2>2. Shapes' /\ SignalsOwnChild' /\ OneHolder'
    BY <1>0, <1>16, <2>1 DEF Exit
  <2>3. Good(l)' /\ \A m \in Launches \ {l} : Same(m)
    BY <1>16, <2>1 DEF Exit
  <2> QED
    BY <2>2, <2>3, Together
<1>19. CASE SetFinished(l)
  BY <1>0, <1>19, Together DEF SetFinished
<1>20. CASE HandBack(l)
  BY <1>0, <1>20, Together DEF HandBack
<1>17. CASE Reap(l)
  BY <1>0, <1>17, Together DEF Reap
<1>18. CASE Recycle(l)
  BY <1>0, <1>18, Together DEF Recycle
<1> QED
  BY <1>1, <1>2, <1>3, <1>4, <1>5, <1>6, <1>7, <1>8, <1>9, <1>10, <1>11, <1>12, <1>13, <1>14, <1>15, <1>16, <1>17, <1>18, <1>19, <1>20

-----------------------------------------------------------------------------
(* The steps that change the process                                       *)

(* TERM goes to a running child of the launcher's own, once.               *)
LEMMA SignalChildSafe ==
    ASSUME Shapes, NEW l \in Launches, SignalChild(l)
    PROVE  /\ (Ages(l) /\ termSent'[l]) \/ UNCHANGED <<game, known, termSent>>
           /\ GameTypeOK' /\ OthersSame(l) /\ UNCHANGED strays
           /\ known' \in [Launches -> BOOLEAN] /\ termSent' \in [Launches -> BOOLEAN]
           /\ \A m \in Launches \ {l} : known'[m] = known[m] /\ termSent'[m] = termSent[m]
           /\ known[l] /\ SameProcess(l) /\ at[l] \notin {"fork", "forked"} => termSent'[l]
<1>1. CASE UNCHANGED <<game, known, termSent, strays>> /\
           (~TermAllowed(l) \/ at[l] \in {"fork", "forked"} \/ ~known[l] \/ ~SameProcess(l))
  BY <1>1 DEF Shapes, GameTypeOK, OthersSame, TermAllowed
<1>2. CASE SameProcess(l) /\ (IF known[l] THEN UNCHANGED known ELSE Capture(l))
           /\ termSent' = [termSent EXCEPT ![l] = TRUE] /\ Hit(l, Terminate(l))
  <2>1. Running(l) /\ Terminate(l) /\ UNCHANGED strays
    BY <1>2 DEF SameProcess, Hit
  <2>2. Ages(l)
    BY <2>1, TerminateAges DEF Shapes
  <2>3. known' = known \/ known' = [known EXCEPT ![l] = TRUE]
    BY <1>2 DEF Capture
  <2>4. known' \in [Launches -> BOOLEAN] /\ \A m \in Launches \ {l} : known'[m] = known[m]
    BY <2>3 DEF Shapes
  <2> QED
    BY <1>2, <2>1, <2>2, <2>4 DEF Ages, Shapes
<1> QED
  BY <1>1, <1>2 DEF SignalChild

LEMMA RequestShutdownKeeps ==
    ASSUME IInv, NEW l \in Launches, RequestShutdown(l)
    PROVE  IInv'
<1>1. SignalChild(l) /\ Shapes /\ Good(l) /\ at[l] \in Armed
  BY DEF RequestShutdown, IInv
<1>2. Shapes'
  BY <1>1, SignalChildSafe DEF RequestShutdown, Shapes, script, handing, timers
<1>3. SignalsOwnChild' /\ OneHolder' /\ \A m \in Launches \ {l} : Same(m)
  BY <1>1, SignalChildSafe
     DEF RequestShutdown, IInv, SignalsOwnChild, OneHolder, Same, Shapes, OthersSame, script, handing, timers
<1>4. Bounded(l)' /\ Locked(l)' /\ FinishedSoFar(l)'
  BY <1>1 DEF RequestShutdown, Good, Bounded, Locked, FinishedSoFar, Shapes, Armed, Ignoring,
     Leaving, WithLock, script, handing, timers
<1>5. Owned(l)'
  BY <1>1, SignalChildSafe DEF RequestShutdown, Good, Bounded, Owned, Shapes, Ages, Settled, Running,
     Armed, BeforeGame, Watching, script, handing, timers
<1>6. Asked(l)'
  BY <1>1, SignalChildSafe DEF RequestShutdown, Asked, Alive, SameProcess, Running, script
<1> QED
  BY <1>2, <1>3, <1>4, <1>5, <1>6, Together DEF Mine, Good

LEMMA RecheckKeeps ==
    ASSUME IInv, NEW l \in Launches, Recheck(l)
    PROVE  IInv'
<1>1. Shapes /\ Good(l) /\ at[l] = "recheck" /\ GameTypeOK'
  BY SignalChildSafe DEF Recheck, Command, IInv, Shapes, GameTypeOK
<1>2. \/ SignalChild(l) /\ requested[l]
      \/ UNCHANGED <<game, known, termSent, strays>> /\ ~requested[l]
  BY DEF Recheck, AskedBefore
<1>3. Shapes'
  BY <1>1, <1>2, SignalChildSafe DEF Recheck, Goes, handing, Shapes, Armed, signals, timers
<1>4. SignalsOwnChild' /\ OneHolder' /\ \A m \in Launches \ {l} : Same(m)
  BY <1>1, <1>2, SignalChildSafe
     DEF Recheck, Goes, handing, IInv, SignalsOwnChild, OneHolder, Same, Shapes, OthersSame, signals, timers
<1>5. Bounded(l)' /\ Locked(l)' /\ FinishedSoFar(l)'
  BY <1>1 DEF Recheck, Goes, handing, Good, Bounded, Locked, FinishedSoFar, Shapes, Armed, Ignoring,
     Leaving, WithLock, signals, timers
<1>6. Owned(l)'
  BY <1>1, <1>2, SignalChildSafe DEF Recheck, Goes, handing, Good, Owned, Shapes, Ages, Running,
     BeforeGame, Watching, Leaving
<1>7. Asked(l)'
  BY <1>1, <1>2, SignalChildSafe DEF Recheck, Asked, Alive, SameProcess, Running, signals
<1> QED
  BY <1>3, <1>4, <1>5, <1>6, <1>7, Together DEF Mine, Good

LEMMA ForkKeeps ==
    ASSUME IInv, NEW l \in Launches, Fork(l)
    PROVE  IInv'
<1>1. Shapes /\ Good(l) /\ at[l] = "fork" /\ Started(l)
  BY DEF Fork, Command, IInv
<1>2. GameTypeOK' /\ OthersSame(l) /\ game'[l].at = "exec"
  BY <1>1, StartedRuns DEF Shapes
<1>3. Shapes'
  BY <1>1, <1>2 DEF Fork, Goes, handing, Shapes, Armed, signals, timers
<1>4. SignalsOwnChild' /\ OneHolder' /\ \A m \in Launches \ {l} : Same(m)
  BY <1>2
     DEF Fork, Goes, handing, IInv, SignalsOwnChild, OneHolder, Same, Shapes, OthersSame, signals, timers
<1>5. Good(l)'
  BY <1>1, <1>2 DEF Fork, Goes, handing, Good, Bounded, Locked, Owned, Asked, FinishedSoFar, Shapes,
     BeforeGame, Watching, WithLock, Armed, Ignoring, Leaving, Running, signals, timers
<1> QED
  BY <1>3, <1>4, <1>5, Together DEF Mine

LEMMA DeadlineKeeps ==
    ASSUME IInv, NEW l \in Launches, Deadline(l)
    PROVE  IInv'
<1>1. Shapes /\ Good(l) /\ at[l] = "deadline"
  BY DEF Deadline, IInv
<1>2. \/ /\ Running(l) /\ GameTypeOK' /\ OthersSame(l) /\ game'[l].at = "gone"
         /\ UNCHANGED strays
      \/ UNCHANGED <<game, strays>>
  <2>1. CASE Alive(l)
    <3>1. Running(l) /\ Kill(l) /\ UNCHANGED strays
      BY <2>1 DEF Deadline, Alive, SameProcess, Hit
    <3> QED
      BY <1>1, <3>1, KillEnds DEF Shapes
  <2>2. CASE ~Alive(l)
    BY <2>2 DEF Deadline
  <2> QED
    BY <2>1, <2>2
<1>3. Shapes'
  <2>1. GameTypeOK'
    BY <1>1, <1>2 DEF Shapes, GameTypeOK
  <2> QED
    BY <1>1, <2>1 DEF Deadline, Goes, handing, Shapes, RewaitBudget, Ignoring, signals
<1>4. SignalsOwnChild' /\ OneHolder' /\ \A m \in Launches \ {l} : Same(m)
  BY <1>2 DEF Deadline, Goes, handing, IInv, SignalsOwnChild, OneHolder, Same, Shapes, OthersSame,
     RewaitBudget, signals
<1>5. Bounded(l)' /\ Locked(l)' /\ FinishedSoFar(l)' /\ Asked(l)'
  BY <1>1 DEF Deadline, Goes, handing, Good, Bounded, Locked, FinishedSoFar, Asked, Shapes, RewaitBudget,
     WithLock, Ignoring, Leaving, signals
<1>6. Owned(l)'
  BY <1>1, <1>2 DEF Deadline, Goes, handing, Good, Owned, Shapes, Settled, Running, RewaitBudget,
     BeforeGame, Watching, Leaving, signals
<1> QED
  BY <1>3, <1>4, <1>5, <1>6, Together DEF Mine, Good

LEMMA PlayKeeps ==
    ASSUME IInv, NEW l \in Launches, Play(l)
    PROVE  IInv'
<1>1. Shapes /\ Good(l) /\ Ages(l)
  BY GameStepAges DEF Play, IInv, Shapes
<1>2. Shapes' /\ SignalsOwnChild' /\ OneHolder' /\ \A m \in Launches \ {l} : Same(m)
  BY <1>1 DEF Play, IInv, Shapes, Ages, SignalsOwnChild, OneHolder, Same, OthersSame,
     script, handing, signals, child, timers
<1>3. Good(l)'
  BY <1>1 DEF Play, Good, Bounded, Locked, Owned, Asked, FinishedSoFar, Shapes, Ages, Settled,
     Running, Alive, SameProcess, BeforeGame, Watching, script, handing, signals, child, timers
<1> QED
  BY <1>2, <1>3, Together DEF Mine

LEMMA StepInv == IInv /\ [Next]_vars => IInv'
<1> SUFFICES ASSUME IInv, [Next]_vars PROVE IInv'
  OBVIOUS
<1>1. CASE UNCHANGED vars
  <2>1. \A l \in Launches : Same(l)
    BY <1>1 DEF vars, Same, script, handing, signals, child, timers
  <2>2. Shapes' /\ SignalsOwnChild' /\ OneHolder'
    BY <1>1 DEF vars, IInv, Shapes, GameTypeOK, SignalsOwnChild, OneHolder,
       script, handing, signals, child, timers
  <2> QED
    BY <2>1, <2>2, SameGood DEF IInv
<1>2. ASSUME NEW l \in Launches,
             Launch(l) \/ Signal(l) \/ ScriptStep(l) \/ Play(l) \/ Reap(l) \/ Recycle(l)
      PROVE  IInv'
  <2>1. CASE RequestShutdown(l) \/ Recheck(l) \/ Fork(l) \/ Deadline(l) \/ Play(l)
    BY <2>1, RequestShutdownKeeps, RecheckKeeps, ForkKeeps, DeadlineKeeps, PlayKeeps
  <2>2. CASE \/ Launch(l) \/ TakeLock(l) \/ Extract(l) \/ Gate(l) \/ Abort(l) \/ Signal(l)
             \/ Name(l) \/ Identify(l) \/ Wait(l) \/ Woken(l) \/ SleepTick(l) \/ Rewait(l)
             \/ Believe(l) \/ Recover(l) \/ Finish(l) \/ SetFinished(l) \/ HandBack(l) \/ Exit(l)
             \/ Reap(l) \/ Recycle(l)
    <3>1. UNCHANGED game
      BY <2>2 DEF Launch, TakeLock, Extract, Gate, Abort, Signal, Name, Identify, Wait, Woken,
         SleepTick, Rewait, Believe, Recover, Finish, SetFinished, HandBack, Exit, Reap, Recycle
    <3> QED
      BY <2>2, <3>1, ScriptMine
  <2> QED
    BY <1>2, <2>1, <2>2 DEF ScriptStep
<1> QED
  BY <1>1, <1>2 DEF Next

-----------------------------------------------------------------------------
(* The theorems *)

(* The strengthening is an invariant of every behaviour of the launches.   *)
THEOREM Invariance == Spec => []IInv
BY InitInv, StepInv, PTL DEF Spec

(* Every variable keeps its type, and no launch counts more signals, or    *)
(* takes up more waits, than it was sent signals.                          *)
THEOREM TypeCorrect == Spec => []TypeOK
<1>1. IInv => TypeOK
  <2> SUFFICES ASSUME IInv PROVE TypeOK
    OBVIOUS
  <2>1. ASSUME NEW l \in Launches
        PROVE  {pending[l], sent[l], count[l], budget[l]} \subseteq 0 .. MaxSignals[l]
    BY DEF IInv, Shapes, Good, Bounded
  <2>2. \A f \in {pending, sent, count, budget} : DOMAIN f = Launches
    BY DEF IInv, Shapes
  <2>3. Shapes /\ strays \subseteq Launches
    BY DEF IInv, SignalsOwnChild
  <2> QED
    BY <2>1, <2>2, <2>3, Zenon DEF Shapes, TypeOK
<1> QED
  BY <1>1, Invariance, PTL

(* However many launches overlap, one game runs at most, no launcher ends  *)
(* before its game, and the lock goes with the last launcher               *)
(* ("Dead Trigger.sh":217, 366-402).                                       *)
THEOREM OwnedGames == Spec => []GamesAreOwned
<1>1. IInv => GamesAreOwned
  <2> SUFFICES ASSUME IInv PROVE GamesAreOwned
    OBVIOUS
  <2>1. ASSUME NEW l \in Launches, Running(l) PROVE l \in lock /\ at[l] # "exited"
    BY <2>1 DEF IInv, Good, Owned, Locked, Watching, WithLock, Armed, Ignoring
  <2>2. OneGame
    BY <2>1 DEF IInv, OneHolder, OneGame
  <2>3. LockDiesWithLauncher
    BY DEF IInv, Shapes, Good, Locked, LockDiesWithLauncher, LockTaken, GameKeepsLock
  <2> QED
    BY <2>1, <2>2, <2>3 DEF GamesAreOwned, NoGameLeftBehind
<1> QED
  BY <1>1, Invariance, PTL

(* Whatever the order of failed checks, signals and traps, pm_finish runs  *)
(* to its end once, and the one launch that goes without it is that whose  *)
(* first signal came while it was running ("Dead Trigger.sh":7-30).        *)
THEOREM Finished == Spec => []FinishedOnce
<1>1. IInv => FinishedOnce
  <2> SUFFICES ASSUME IInv, NEW l \in Launches
               PROVE  /\ handed[l] <= 1
                      /\ at[l] = "exited" => handed[l] = 1 \/ l \in cut
                      /\ l \in cut => handed[l] = 0 /\ game[l].at = "none" /\ status[l] = "aborted"
    BY DEF FinishedOnce
  <2>1. FinishedSoFar(l)
    BY DEF IInv, Good
  <2> QED
    BY <2>1 DEF FinishedSoFar
<1> QED
  BY <1>1, Invariance, PTL

(* The launcher exits with its game's status, never with that of a wait a  *)
(* signal interrupted ("Dead Trigger.sh":391-402).                         *)
THEOREM TrueStatus == Spec => []StatusIsTheGames
<1>1. IInv => StatusIsTheGames
  BY DEF IInv, Good, Owned, Settled, StatusIsTheGames
<1> QED
  BY <1>1, Invariance, PTL

(* No signal reaches a process that has taken over the child's pid         *)
(* ("Dead Trigger.sh":338-349).                                            *)
THEOREM OwnChild == Spec => []SignalsOwnChild
<1>1. IInv => SignalsOwnChild
  BY DEF IInv
<1> QED
  BY <1>1, Invariance, PTL

(* KILL is sent only after TERM and the whole of the deadline              *)
(* ("Dead Trigger.sh":382-388).                                            *)
THEOREM KillLast == Spec => KillIsLast
<1> DEFINE Late(l) == (game'[l].status = "killed" /\ game[l].status # "killed")
                         => (termSent[l] /\ ticks[l] = 0)
<1>1. ASSUME IInv, [Next]_vars PROVE [\A l \in Launches : Late(l)]_vars
  <2> SUFFICES ASSUME Next PROVE \A l \in Launches : Late(l)
    BY <1>1
  <2>1. PICK k \in Launches :
           Launch(k) \/ Signal(k) \/ ScriptStep(k) \/ Play(k) \/ Reap(k) \/ Recycle(k)
    BY DEF Next
  <2>2. Shapes /\ Good(k) /\ GameTypeOK
    BY <1>1 DEF IInv, Shapes
  <2>3. CASE UNCHANGED game
    BY <2>3
  <2>4. ASSUME OthersSame(k), game'[k].status = "killed" => game[k].status = "killed"
        PROVE  \A l \in Launches : Late(l)
    BY <2>4 DEF OthersSame
  <2>5. CASE RequestShutdown(k)
    BY <2>2, <2>3, <2>4, <2>5, SignalChildSafe DEF RequestShutdown, Ages
  <2>6. CASE Recheck(k)
    BY <2>2, <2>3, <2>4, <2>6, SignalChildSafe DEF Recheck, Ages
  <2>7. CASE Fork(k)
    BY <2>2, <2>4, <2>7, StartedRuns DEF Fork
  <2>8. CASE Play(k)
    BY <2>2, <2>4, <2>8, GameStepAges DEF Play, Ages
  <2>9. CASE Deadline(k)
    <3>1. CASE Alive(k)
      <4>1. Expired(k) /\ Running(k) /\ Kill(k)
        BY <2>9, <3>1 DEF Deadline, Alive, SameProcess, Hit
      <4>2. OthersSame(k)
        BY <2>2, <4>1, KillEnds
      <4>3. termSent[k] /\ ticks[k] = 0
        BY <2>2, <2>9, <3>1, <4>1 DEF Deadline, Good, Owned, Bounded, Asked, Expired
      <4> QED
        BY <4>2, <4>3 DEF OthersSame
    <3>2. CASE ~Alive(k)
      BY <2>3, <2>9, <3>2 DEF Deadline
    <3> QED
      BY <3>1, <3>2
  <2> QED
    BY <2>1, <2>3, <2>5, <2>6, <2>7, <2>8, <2>9 DEF ScriptStep, Launch, TakeLock, Extract, Gate,
       Abort, Signal, Name, Identify, Wait, Woken, SleepTick, Rewait, Believe, Recover, Finish,
       SetFinished, HandBack, Exit, Reap, Recycle
<1> QED
  BY <1>1, Invariance, PTL DEF Spec, KillIsLast
=============================================================================
