------------------------------ MODULE GameProcess ------------------------------
(***************************************************************************)
(* The life of the port's process, main.c and media_dt.c: the UI thread    *)
(* that boots, loops and drains, the thread UnityMain beside it, and the   *)
(* helpers (ffmpeg, pacat) that show the intro.  One process per run of    *)
(* the launcher.                                                           *)
(***************************************************************************)
CONSTANT Launches  \* runs of "Dead Trigger.sh"

VARIABLE game      \* the process of each run

Statuses == {"none", "clean", "failed", "termed", "killed", "crashed"}

GameTypeOK ==
    game \in [Launches -> [at : {"none", "exec", "boot", "loop", "drain", "gone"},
                           unity : {"none", "starting", "playing", "intro", "pausing", "stopped"},
                           helpers : {"none", "running", "gone"},
                           quit : BOOLEAN, stuck : BOOLEAN, status : Statuses]]

NoGame == [at |-> "none", unity |-> "none", helpers |-> "none",
           quit |-> FALSE, stuck |-> FALSE, status |-> "none"]

GameInit == game = [l \in Launches |-> NoGame]

Running(l) == game[l].at \notin {"none", "gone"}

Started(l) == game' = [game EXCEPT ![l] = [NoGame EXCEPT !.at = "exec"]]

(* The threads end with the process.  Its helpers do not; and whether      *)
(* UnityMain had got through nativePause is remembered.                    *)
Dies(l, status) ==
    game' = [game EXCEPT ![l] =
               [NoGame EXCEPT !.at = "gone", !.status = status,
                    !.helpers = IF game[l].helpers = "running" THEN "running" ELSE "none",
                    !.unity = IF game[l].unity = "stopped" THEN "stopped" ELSE "none"]]

-----------------------------------------------------------------------------
(* The UI thread *)

UiThread(l, at) == game[l].at = at /\ ~game[l].stuck

InstallHandlers(l) == UiThread(l, "exec") /\ game' = [game EXCEPT ![l].at = "boot"]

(* Every failure up to pthread_create returns 1; after it there is a loop  *)
(* to run, whatever g_quit says.                                           *)
Boot(l) ==
    /\ UiThread(l, "boot")
    /\ \/ Dies(l, "failed")
       \/ game' = [game EXCEPT ![l].at = "loop", ![l].unity = "starting"]

(* SDL_QUIT, Start+Select, DT_MAX_SECONDS. *)
AskToQuit(l) == UiThread(l, "loop") /\ game' = [game EXCEPT ![l].quit = TRUE]

LeaveLoop(l) ==
    /\ UiThread(l, "loop") /\ game[l].quit
    /\ game' = [game EXCEPT ![l].at = "drain"]

Join(l) == UiThread(l, "drain") /\ game[l].unity = "stopped" /\ Dies(l, "clean")

(* UnityMain has not exited after 2.5 s: the process goes all the same. *)
GiveUp(l) == UiThread(l, "drain") /\ game[l].unity # "stopped" /\ Dies(l, "clean")

UiStep(l) == InstallHandlers(l) \/ Boot(l) \/ LeaveLoop(l) \/ Join(l) \/ GiveUp(l)

(* A native call on the UI thread that never returns. *)
GetStuck(l) ==
    /\ game[l].at \in {"boot", "loop", "drain"} /\ ~game[l].stuck
    /\ game' = [game EXCEPT ![l].stuck = TRUE]

Crash(l) == game[l].at \in {"boot", "loop", "drain"} /\ Dies(l, "crashed")

-----------------------------------------------------------------------------
(* UnityMain and the intro *)

Unity(l, at) == game[l].at \in {"loop", "drain"} /\ game[l].unity = at

UnityGoes(l, to) == game' = [game EXCEPT ![l].unity = to]

(* Surface, focus and resume come first even if g_quit is already set. *)
Resume(l) == Unity(l, "starting") /\ UnityGoes(l, "playing")

RenderEnds(l) == Unity(l, "playing") /\ ~game[l].quit /\ game' = [game EXCEPT ![l].quit = TRUE]

(* The hooked StartVideo keeps UnityMain inside nativeRender until the     *)
(* film ends or is skipped; nothing there looks at g_quit.                 *)
StartVideo(l) ==
    /\ Unity(l, "playing") /\ game[l].helpers = "none"
    /\ game' = [game EXCEPT ![l].unity = "intro", ![l].helpers = "running"]

StopVideo(l) ==
    /\ Unity(l, "intro")
    /\ game' = [game EXCEPT ![l].unity = "playing", ![l].helpers = "gone"]

LoseFocus(l) == Unity(l, "playing") /\ game[l].quit /\ UnityGoes(l, "pausing")

PauseReturns(l) == Unity(l, "pausing") /\ UnityGoes(l, "stopped")

(* Helpers of a dead process play their film to the end. *)
FilmEnds(l) ==
    /\ game[l].at = "gone" /\ game[l].helpers = "running"
    /\ game' = [game EXCEPT ![l].helpers = "none"]

GameStep(l) ==
    \/ UiStep(l) \/ AskToQuit(l) \/ GetStuck(l) \/ Crash(l)
    \/ Resume(l) \/ RenderEnds(l) \/ StartVideo(l) \/ StopVideo(l)
    \/ LoseFocus(l) \/ PauseReturns(l) \/ FilmEnds(l)

-----------------------------------------------------------------------------
(* Signals *)

(* SIGTERM before install_handlers kills; after it, it sets g_quit. *)
Terminate(l) ==
    IF game[l].at = "exec" THEN Dies(l, "termed")
    ELSE game' = [game EXCEPT ![l].quit = TRUE]

Kill(l) == Dies(l, "killed")
=============================================================================
