------------------------------- MODULE IntroFilm -------------------------------
(***************************************************************************)
(* The intro of media_dt.c: the hook in IntroVideoPlayer.StartVideo runs   *)
(* the game's own StartVideo, plays the film with three helper processes,  *)
(* waits for the film's end or a skip, ends the helpers and calls          *)
(* StopVideo, without which the game waits for its video for ever.         *)
(***************************************************************************)
EXTENDS Naturals, Sequences

VARIABLES media,   \* media_dt's g_install_state: "waiting", "installed", "refused"
          video,   \* where hooked_start_video is, "out" before and "over" after
          helper,  \* the helper processes
          ending   \* helpers still to be terminated, the first at work

intro == <<media, video, helper, ending>>

Helpers == {"decoder", "player", "film"}
Spawned == <<"decoder", "player", "film">>  \* the order of play_intro_native

IntroTypeOK ==
    /\ media \in {"waiting", "installed", "refused"}
    /\ video \in {"out", "original", "extract", "spawn", "wait", "end", "stop", "over"}
    /\ helper \in [Helpers -> {"none", "running", "asked", "killed", "exited", "reaped"}]
    /\ ending \in Seq(Helpers)

IntroInit ==
    /\ media = "waiting"
    /\ video = "out" /\ helper = [h \in Helpers |-> "none"] /\ ending = <<>>

-----------------------------------------------------------------------------
(* dt_media_try_install, once both methods are found.  StartVideo is       *)
(* hooked when it has the prologue the gateway knows and its page opens;   *)
(* otherwise the game keeps its own.                                       *)
InstallFilm(hookable) ==
    /\ media = "waiting"
    /\ media' = IF hookable THEN "installed" ELSE "refused"
    /\ UNCHANGED <<video, helper, ending>>

(* The game calls StartVideo, once; the original runs first. *)
StartVideo ==
    /\ media = "installed" /\ video = "out"
    /\ video' = "original"
    /\ UNCHANGED <<media, helper, ending>>

(* can_present: helpers and framebuffer are there, SDL has not the screen. *)
OriginalReturns(present) ==
    /\ video = "original"
    /\ video' = IF present THEN "extract" ELSE "stop"
    /\ UNCHANGED <<media, helper, ending>>

(* extract_intro: a film of the right size and kind is taken as it is,     *)
(* another is replaced by the renaming of a copy checked before; or there  *)
(* is none.                                                                *)
Extract(whole) ==
    /\ video = "extract"
    /\ video' = IF whole THEN "spawn" ELSE "stop"
    /\ UNCHANGED <<media, helper, ending>>

-----------------------------------------------------------------------------
(* play_intro_native *)

(* How many of them are there. *)
Reached ==
    CHOOSE n \in 0 .. Len(Spawned) :
        \A i \in 1 .. Len(Spawned) : helper[Spawned[i]] # "none" <=> i <= n

Spawn ==
    /\ video = "spawn"
    /\ helper' = [helper EXCEPT ![Spawned[Reached + 1]] = "running"]
    /\ video' = IF Reached + 1 = Len(Spawned) THEN "wait" ELSE "spawn"
    /\ UNCHANGED <<media, ending>>

(* Defect: the helpers there are left to themselves. *)
Nobody == <<>>

Alive == SubSeq(Spawned, 1, Reached)

(* A pipe or a fork fails: what was spawned is terminated. *)
SpawnFails ==
    /\ video = "spawn"
    /\ ending' = Alive
    /\ video' = "end"
    /\ UNCHANGED <<media, helper>>

(* The loop that polls the film's process and the skip flag, which the UI  *)
(* thread may set or clear at any time.  The film's process comes first in *)
(* the three that are then terminated, whether it has been waited for or   *)
(* not, and once more, before them, after a skip.                          *)
FilmOver ==
    /\ video = "wait" /\ helper["film"] = "exited"
    /\ helper' = [helper EXCEPT !["film"] = "reaped"]
    /\ ending' = <<"film", "decoder", "player">>
    /\ video' = "end"
    /\ UNCHANGED <<media>>

FilmSkipped ==
    /\ video = "wait"
    /\ ending' = <<"film", "film", "decoder", "player">>
    /\ video' = "end"
    /\ UNCHANGED <<media, helper>>

-----------------------------------------------------------------------------
(* terminate_child of the first in "ending": reap it, ask it, ask it with  *)
(* KILL when 20 polls have found it running, reap it.                      *)
Ending(h) == video = "end" /\ ending # <<>> /\ Head(ending) = h

Ask(h) ==
    /\ Ending(h) /\ helper[h] = "running"
    /\ helper' = [helper EXCEPT ![h] = "asked"]
    /\ UNCHANGED <<media, video, ending>>

(* Defect: a helper that does not listen is waited for. *)
Patient(state) == FALSE

GivenUp(state) == state = "asked"

Kill(h) ==
    /\ Ending(h) /\ GivenUp(helper[h])
    /\ helper' = [helper EXCEPT ![h] = "killed"]
    /\ UNCHANGED <<media, video, ending>>

Reap(h) ==
    /\ Ending(h) /\ helper[h] = "exited"
    /\ helper' = [helper EXCEPT ![h] = "reaped"]
    /\ ending' = Tail(ending)
    /\ UNCHANGED <<media, video>>

(* Of a process that has been reaped nothing is left but its number: TERM, *)
(* 20 polls and KILL go to that number, whoever has it by now, and there   *)
(* is no child to wait for.                                                *)
AskGone(h) ==
    /\ Ending(h) /\ helper[h] = "reaped"
    /\ ending' = Tail(ending)
    /\ UNCHANGED <<media, video, helper>>

Ended ==
    /\ video = "end" /\ ending = <<>>
    /\ video' = "stop"
    /\ UNCHANGED <<media, helper, ending>>

StopVideo ==
    /\ video = "stop"
    /\ video' = "over"
    /\ UNCHANGED <<media, helper, ending>>

-----------------------------------------------------------------------------
(* The helpers *)

HelperExits(h) ==
    /\ helper[h] \in {"running", "asked", "killed"}
    /\ helper' = [helper EXCEPT ![h] = "exited"]
    /\ UNCHANGED <<media, video, ending>>

(* The thread in the hook *)
FilmStep ==
    \/ \E yes \in BOOLEAN : OriginalReturns(yes) \/ Extract(yes)
    \/ Spawn \/ SpawnFails
    \/ FilmOver \/ FilmSkipped \/ Ended \/ StopVideo
    \/ \E h \in Helpers : Ask(h) \/ Kill(h) \/ Reap(h) \/ AskGone(h)

-----------------------------------------------------------------------------
(* When the game has its StopVideo no helper of the film runs or waits to  *)
(* be reaped, whether the film ended, was skipped or never started: none   *)
(* keeps the framebuffer or the sound (media_dt.c:309-317, 336-338).       *)
NoHelperSurvives ==
    video \in {"stop", "over"} => \A h \in Helpers : helper[h] \in {"none", "reaped"}

(* A StartVideo of the hook is followed by StopVideo, whatever the helpers *)
(* do (the comment at 379-384).                                            *)
IntroEnds == video = "original" ~> video = "over"
=============================================================================
