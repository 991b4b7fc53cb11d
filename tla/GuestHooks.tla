-------------------------------- MODULE GuestHooks --------------------------------
(***************************************************************************)
(* UnityMain's frame from its hooks' side: the loader's lookups, the method*)
(* patches and the intro's hook.  Another guest thread looks symbols up    *)
(* while the frame's calls do, through the same loader without a lock.     *)
(***************************************************************************)
EXTENDS ModuleLoader, MethodPatches, IntroFilm

CONSTANTS Il2cpp, \* libil2cpp.so
          Budget  \* bound: lookups of the other threads

ASSUME HooksAssumption == Il2cpp \in Modules /\ Budget \in Nat

VARIABLES metadata, \* the game's classes have been registered
          call,     \* what UnityMain runs: "gamepad", "media", "render"
          others    \* lookups of the other threads so far

unity == <<metadata, call, others>>
vars == <<loader, patches, intro, unity>>

Unity == Loader

TypeOK ==
    /\ LoaderTypeOK /\ PatchTypeOK /\ IntroTypeOK
    /\ metadata \in BOOLEAN /\ others \in 0 .. Budget
    /\ call \in {"gamepad", "media", "render"}

Init ==
    /\ LoaderInit /\ PatchInit /\ IntroInit
    /\ metadata = FALSE /\ call = "render" /\ others = 0

-----------------------------------------------------------------------------
(* A lookup of a method needs several symbols of libil2cpp.so: it may fail *)
(* when another thread has had the engine in between, and does when the    *)
(* engine searches another module.                                         *)
Outcomes(methods) ==
    IF ~metadata THEN {{}}
    ELSE IF Unity \in overlapped THEN SUBSET methods
    ELSE IF Searched(Unity) = Il2cpp THEN {methods} ELSE {{}}

(* The guest's start, which loads its libraries before the classes are     *)
(* there.                                                                  *)
LoaderRuns ==
    /\ call = "render" /\ ~metadata
    /\ \/ \E m \in Modules : Load(Unity, m)
       \/ LoadFails(Unity) \/ Mapped(Unity) \/ LoadDone(Unity)
       \/ Doing(Unity, "constructors") /\ \E m \in Modules : Lookup(Unity, m)
       \/ LookupDone(Unity)
    /\ UNCHANGED <<patches, intro, unity>>

MetadataRegistered ==
    /\ call = "render" /\ ~Busy(Unity) /\ Il2cpp \in loaded /\ ~metadata
    /\ metadata' = TRUE
    /\ UNCHANGED <<loader, patches, intro, call, others>>

(* dt_dlsym on another thread *)
OtherLooksUp(t) ==
    /\ t # Unity
    /\ \/ /\ others < Budget /\ ~Busy(t) /\ others' = others + 1
          /\ \E m \in Modules : Lookup(t, m)
       \/ LookupDone(t) /\ UNCHANGED others
    /\ UNCHANGED <<patches, intro, metadata, call>>

-----------------------------------------------------------------------------
(* dt_module_find without a module ends both calls at once; so does a      *)
(* state that is settled.                                                  *)
FrameBegins ==
    /\ call = "render" /\ ~Busy(Unity) /\ video \in {"out", "over"}
    /\ Il2cpp \in loaded
    /\ IF install = "waiting" THEN Begin /\ call' = "gamepad"
       ELSE media = "waiting" /\ call' = "media" /\ UNCHANGED patches
    /\ UNCHANGED <<loader, intro, metadata, others>>

LooksForMethods ==
    /\ ~Busy(Unity)
    /\ \/ call = "gamepad" /\ group # 0 /\ queue = {}
       \/ call = "media" /\ media = "waiting"
    /\ Lookup(Unity, Il2cpp)
    /\ UNCHANGED <<patches, intro, unity>>

FindsMethods ==
    /\ call = "gamepad" /\ Doing(Unity, "lookup")
    /\ \E found \in Outcomes(ToSet(Groups[group])) : Found(found)
    /\ LookupDone(Unity)
    /\ UNCHANGED <<intro, unity>>

Patches ==
    /\ call = "gamepad" /\ Replace
    /\ UNCHANGED <<loader, intro, unity>>

GamepadReturns ==
    /\ call = "gamepad" /\ group = 0 /\ ~Busy(Unity)
    /\ call' = IF media = "waiting" THEN "media" ELSE "render"
    /\ UNCHANGED <<loader, patches, intro, metadata, others>>

FindsVideo ==
    /\ call = "media" /\ Doing(Unity, "lookup")
    /\ LET both == {"StartVideo", "StopVideo"} IN
       \E found \in Outcomes(both) : IF found = both THEN \E hookable \in BOOLEAN : InstallFilm(hookable)
                                    ELSE UNCHANGED intro
    /\ LookupDone(Unity)
    /\ call' = "render"
    /\ UNCHANGED <<patches, metadata, others>>

(* The game plays its intro, in a frame after the hook was installed. *)
GamePlaysIntro ==
    /\ call = "render" /\ ~Busy(Unity) /\ StartVideo
    /\ UNCHANGED <<loader, patches, unity>>

IntroRuns == FilmStep /\ UNCHANGED <<loader, patches, unity>>

Elsewhere ==
    /\ \E h \in Helpers : HelperExits(h)
    /\ UNCHANGED <<loader, patches, unity>>

FrameStep == FrameBegins \/ LooksForMethods \/ FindsMethods \/ Patches \/ GamepadReturns \/ FindsVideo

Next ==
    \/ LoaderRuns \/ MetadataRegistered \/ FrameStep
    \/ \E t \in Threads : OtherLooksUp(t)
    \/ GamePlaysIntro \/ IntroRuns \/ Elsewhere

Spec == Init /\ [][Next]_vars

(* UnityMain goes on, in its hooks too, and so does a thread in a lookup;  *)
(* the film ends some time, and the kernel ends a process it was told to   *)
(* kill.                                                                   *)
FairSpec ==
    /\ Spec
    /\ WF_vars(FrameStep) /\ WF_vars(IntroRuns)
    /\ \A t \in Threads \ {Unity} : WF_vars(Busy(t) /\ OtherLooksUp(t))
    /\ WF_vars(HelperExits("film") /\ UNCHANGED <<loader, patches, unity>>)
    /\ \A h \in Helpers : WF_vars(helper[h] = "killed" /\ HelperExits(h)
                                    /\ UNCHANGED <<loader, patches, unity>>)

-----------------------------------------------------------------------------
(* With the game's classes there both installations come to an end, the    *)
(* bridge's with the bridge installed if the build allows it, however often*)
(* lookups of other threads spoil an attempt (1360-1379), unless one spoilt*)
(* the library while it was mapped.                                        *)
InstallEnds ==
    metadata /\ Il2cpp \notin spoilt
        ~> media # "waiting" /\ install = IF Patchable THEN "installed" ELSE "refused"
=============================================================================
