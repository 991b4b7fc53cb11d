------------------------------- MODULE SdlVideo -------------------------------
(***************************************************************************)
(* egl_sdl.c: fake EGL contexts in front of SDL's.  A thread that makes an *)
(* EGL context current has it in two places: in the thread-local           *)
(* current_context, which answers for EGL, and in SDL, where OpenGL looks. *)
(* Creating a context takes a detour over the share root on the calling    *)
(* thread, under context_lock.                                             *)
(*                                                                         *)
(* Of SDL the model has which thread has which context: one that another   *)
(* thread has cannot be made current, and where the driver lets the window *)
(* belong to one thread only, nothing can while another thread has any.    *)
(* All contexts draw to SDL's one window, so EGL surfaces are left out.    *)
(***************************************************************************)
CONSTANTS Threads,   \* threads of the engine that use EGL
          Contexts   \* places of dt_sdl_context structures

ASSUME VideoAssumption == {"root", "none"} \cap Contexts = {} /\ "nobody" \notin Threads

VARIABLES mode,      \* video_mode
          exclusive, \* the driver gives the window to one thread at a time
          holder,    \* who has context_lock
          current,   \* what SDL has current on each thread
          shadow,    \* current_context of each thread
          contexts,  \* "free", or whether an existing one shares with the root
          lost,      \* history: CreateContext took away what EGL says is current
          denied,    \* history: another thread had the window when the call under
                     \* context_lock asked for the share root
          orphans    \* history: contexts created by such calls

binding == <<current, shadow, lost>>
family == <<contexts, denied, orphans>>
video == <<mode, exclusive, holder, binding, family>>

VideoTypeOK ==
    /\ mode \in {"undecided", "raw", "sdl"} /\ exclusive \in BOOLEAN
    /\ holder \in Threads \cup {"nobody"}
    /\ current \in [Threads -> Contexts \cup {"root", "none"}]
    /\ shadow \in [Threads -> Contexts \cup {"none"}]
    /\ contexts \in [Contexts -> {"free", "shared", "alone"}]
    /\ lost \in [Threads -> BOOLEAN]
    /\ denied \in BOOLEAN /\ orphans \subseteq Contexts

VideoInit ==
    /\ mode = "undecided" /\ exclusive \in BOOLEAN /\ holder = "nobody"
    /\ current = [t \in Threads |-> "none"] /\ shadow = [t \in Threads |-> "none"]
    /\ contexts = [c \in Contexts |-> "free"] /\ lost = [t \in Threads |-> FALSE]
    /\ denied = FALSE /\ orphans = {}

(* dt_sdl_video_init: one of five formats gives a window with a GLES 2     *)
(* context, the share root, or SDL gives up the window and raw EGL is      *)
(* used.  No thread of the engine is there yet.                            *)
ChooseVideo ==
    /\ mode = "undecided"
    /\ mode' \in {"raw", "sdl"}
    /\ UNCHANGED <<exclusive, holder, binding, family>>

-----------------------------------------------------------------------------
(* SDL_GL_MakeCurrent succeeds. *)
Bindable(t, c) ==
    \A u \in Threads \ {t} : current[u] # c /\ (exclusive => current[u] = "none")

Idle(t) == mode = "sdl" /\ holder # t

(* Defect: context_lock is not taken. *)
Unlocked(t) == TRUE

ContextLockFree(t) == holder = "nobody"

WindowTaken(t) == exclusive /\ \E u \in Threads \ {t} : current[u] # "none"

(* eglCreateContext up to the share root; whether it could be made current *)
(* is not looked at.                                                       *)
CreateContext(t) ==
    /\ Idle(t) /\ ContextLockFree(t)
    /\ holder' = t
    /\ current' = [current EXCEPT ![t] = IF Bindable(t, "root") THEN "root" ELSE @]
    /\ denied' = WindowTaken(t)
    /\ UNCHANGED <<mode, exclusive, shadow, contexts, lost, orphans>>

(* SDL shares a new context with the one current on the thread, and makes  *)
(* it current, or cannot and creates none.                                 *)
Sharing(t) ==
    IF current[t] = "root" \/ (current[t] \in Contexts /\ contexts[current[t]] = "shared")
    THEN "shared" ELSE "alone"

(* The rest of eglCreateContext: nothing is current on the thread then,    *)
(* whatever was before the call.                                           *)
ContextCreated(t) ==
    /\ holder = t
    /\ \/ \E c \in Contexts :
            /\ contexts[c] = "free" /\ Bindable(t, c)
            /\ contexts' = [contexts EXCEPT ![c] = Sharing(t)]
            /\ orphans' = IF denied THEN orphans \cup {c} ELSE orphans
       \/ UNCHANGED <<contexts, orphans>>
    /\ current' = [current EXCEPT ![t] = "none"]
    /\ lost' = [lost EXCEPT ![t] = shadow[t] # "none"]
    /\ holder' = "nobody" /\ denied' = FALSE
    /\ UNCHANGED <<mode, exclusive, shadow>>

(* Defect: only EGL's answer is taken back. *)
Forgotten(t) ==
    /\ shadow' = [shadow EXCEPT ![t] = "none"]
    /\ lost' = [lost EXCEPT ![t] = FALSE]
    /\ UNCHANGED current

(* Nothing is current on the thread, for SDL and for EGL: MakeCurrent of   *)
(* no context, ReleaseThread, and the ways out of the calls below.         *)
Released(t) ==
    /\ current' = [current EXCEPT ![t] = "none"]
    /\ shadow' = [shadow EXCEPT ![t] = "none"]
    /\ lost' = [lost EXCEPT ![t] = FALSE]

Release(t) == Idle(t) /\ Released(t) /\ UNCHANGED <<mode, exclusive, holder, family>>

(* eglDestroyContext looks only at the calling thread's own binding: the   *)
(* engine must not destroy what another thread has current.                *)
DestroyContext(t, c) ==
    /\ Idle(t) /\ contexts[c] # "free"
    /\ \A u \in Threads \ {t} : shadow[u] # c /\ current[u] # c
    /\ contexts' = [contexts EXCEPT ![c] = "free"] /\ orphans' = orphans \ {c}
    /\ IF shadow[t] = c THEN Released(t) ELSE UNCHANGED binding
    /\ UNCHANGED <<mode, exclusive, holder, denied>>

(* eglMakeCurrent when SDL accepts; "published" is what the bridge says.   *)
MakeCurrent(t, c, published) ==
    /\ Idle(t) /\ contexts[c] # "free" /\ Bindable(t, c)
    /\ IF published
       THEN /\ current' = [current EXCEPT ![t] = c]
            /\ shadow' = [shadow EXCEPT ![t] = c]
            /\ lost' = [lost EXCEPT ![t] = FALSE]
       ELSE Released(t)
    /\ UNCHANGED <<mode, exclusive, holder, family>>

-----------------------------------------------------------------------------
(* Whoever creates contexts, on whatever driver, and however the calls     *)
(* overlap, a context sees the textures and shaders of the others, because *)
(* context_lock keeps the root from being on two threads: 484-497.  The    *)
(* exception, to the letter: the driver gives the window to one thread,    *)
(* another thread had it when the root was asked for - the refusal is not  *)
(* looked at - and let go of it before SDL_GL_CreateContext.  Such a       *)
(* context shares with nothing.                                            *)
AllShared == \A c \in Contexts : contexts[c] = "alone" <=> c \in orphans

(* Outside eglCreateContext EGL's answer and SDL's truth agree on each     *)
(* thread, so no thread keeps the window from the others unknowingly and   *)
(* none draws into nothing - but for a thread that created a context while *)
(* one was current: 494-499, 541-576.                                      *)
BindingIsKnown ==
    \A t \in Threads : holder # t /\ ~lost[t] =>
        /\ current[t] = shadow[t]
        /\ shadow[t] # "none" => contexts[shadow[t]] # "free"
=============================================================================
