-------------------------------- MODULE Graphics --------------------------------
(***************************************************************************)
(* The video facade and the framework bridge together, from main's boot    *)
(* on: eglMakeCurrent publishes the graphics receipt of the SDL path, the  *)
(* replaced eglSwapBuffers (shims.c) that of the raw EGL path, while audio *)
(* and pads deliver theirs on other threads.                               *)
(***************************************************************************)
EXTENDS SdlVideo, FrameworkBridge, FrameCap

VARIABLES boot,      \* where main is
          driver,    \* what a receipt of the graphics driver is worth
          pad,       \* a pad is plugged in
          framework_graphics_ready, \* static variable of dt_egl_swap_buffers
          presenter  \* the thread that sleeps in its page flip

host == <<boot, driver, pad, framework_graphics_ready>>
vars == <<video, bridge, cap, host, presenter>>

TypeOK ==
    /\ VideoTypeOK /\ BridgeTypeOK /\ CapTypeOK
    /\ boot \in {"preflight", "video", "input", "running", "failed"}
    /\ driver \in {"partial", "whole"} /\ pad \in BOOLEAN
    /\ framework_graphics_ready \in BOOLEAN
    /\ presenter \in Threads \cup {"nobody"}

Init ==
    /\ VideoInit /\ BridgeInit /\ CapInit
    /\ boot = "preflight" /\ driver \in {"partial", "whole"} /\ pad \in BOOLEAN
    /\ framework_graphics_ready = FALSE /\ presenter = "nobody"

-----------------------------------------------------------------------------
(* main *)

BootPreflight ==
    /\ boot = "preflight"
    /\ Preflight
    /\ boot' = IF up' /\ Satisfied("preflight") THEN "video" ELSE "failed"
    /\ UNCHANGED <<video, cap, presenter, driver, pad, framework_graphics_ready>>

BootVideo ==
    /\ boot = "video"
    /\ ChooseVideo
    /\ boot' = "input"
    /\ UNCHANGED <<bridge, cap, presenter, driver, pad, framework_graphics_ready>>

BootInput ==
    /\ boot = "input"
    /\ \E accepted \in BOOLEAN :
         /\ OpenInput(accepted, pad)
         /\ boot' = IF accepted THEN "running" ELSE "failed"
    /\ UNCHANGED <<video, cap, presenter, driver, pad, framework_graphics_ready>>

(* The UI loop sees a pad come or go. *)
PadChanges ==
    /\ boot = "running"
    /\ pad' = ~pad
    /\ \E accepted \in BOOLEAN : Observe(accepted, pad')
    /\ UNCHANGED <<video, cap, presenter, boot, driver, framework_graphics_ready>>

(* OpenSL's CreateAudioPlayer opened a device. *)
PlayerCreated(accepted) ==
    /\ boot = "running"
    /\ AudioOpened(accepted)
    /\ UNCHANGED <<video, cap, presenter, host>>

-----------------------------------------------------------------------------
(* The engine's threads *)

Engine(t) == boot = "running" /\ presenter # t

EngineUses(t, op) ==
    /\ Engine(t) /\ op
    /\ UNCHANGED <<bridge, cap, host, presenter>>

Usable(evidence) == Published(evidence)

(* A drawable may have no size for a moment. *)
EngineMakesCurrent(t, c) ==
    /\ Engine(t)
    /\ \E evidence \in {"broken", driver} :
         /\ PublishGraphics(evidence)
         /\ MakeCurrent(t, c, Usable(evidence))
    /\ UNCHANGED <<cap, host, presenter>>

(* dt_sdl_swap_buffers: a thread with a current context flips the page, in *)
(* one step or after a sleep.  The window is flipped by one thread at a    *)
(* time.                                                                   *)
Flip(t) ==
    /\ Engine(t) /\ shadow[t] # "none" /\ presenter = "nobody"
    /\ \/ ShowLate /\ UNCHANGED presenter
       \/ Sleep /\ presenter' = t
    /\ UNCHANGED <<video, bridge, host>>

FlipDone(t) ==
    /\ presenter = t
    /\ ShowOnTime /\ presenter' = "nobody"
    /\ UNCHANGED <<video, bridge, host>>

TimePasses == mode = "sdl" /\ Clock /\ UNCHANGED <<video, bridge, host, presenter>>

(* Defect: the attempt is made once. *)
Once(evidence) == TRUE

Noted(evidence) == Published(evidence)

(* dt_egl_swap_buffers on raw EGL: every frame tries until one succeeds.   *)
RawSwap(evidence) ==
    /\ boot = "running" /\ mode = "raw" /\ ~framework_graphics_ready
    /\ PublishGraphics(evidence)
    /\ framework_graphics_ready' = Noted(evidence)
    /\ UNCHANGED <<video, cap, presenter, boot, driver, pad>>

Main == BootPreflight \/ BootVideo \/ BootInput

Next ==
    \/ Main \/ PadChanges
    \/ \E accepted \in BOOLEAN : PlayerCreated(accepted)
    \/ \E evidence \in {"broken", driver} : RawSwap(evidence)
    \/ \E t \in Threads :
         \/ EngineUses(t, CreateContext(t))
         \/ EngineUses(t, ContextCreated(t))
         \/ EngineUses(t, Release(t))
         \/ \E c \in Contexts : EngineUses(t, DestroyContext(t, c)) \/ EngineMakesCurrent(t, c)
         \/ Flip(t) \/ FlipDone(t)
    \/ TimePasses

Spec == Init /\ [][Next]_vars

(* The engine goes on presenting frames, in a window that has a size again *)
(* and again, and its audio player is accepted at last.                    *)
FairSpec ==
    /\ Spec
    /\ WF_vars(RawSwap(driver))
    /\ WF_vars(PlayerCreated(TRUE))

-----------------------------------------------------------------------------
(* Nothing is drawn before the registry has accepted a graphics receipt:   *)
(* a context is current for EGL only after that, on whatever thread and    *)
(* whoever published it (README.md:66-71).                                 *)
DrawsAfterReceipt == \A t \in Threads : shadow[t] # "none" => drawn

(* On raw EGL the receipt of the first frames may fail; with a driver and  *)
(* audio that satisfy the requirements READY comes all the same, unless no *)
(* pad is there or it came late (shims.c:211-228).                         *)
RawReadyComes ==
    boot = "running" /\ mode = "raw" /\ driver = "whole"
        ~> ready \/ late \/ "pad" \notin receipts
=============================================================================
