----------------------------- MODULE GraphicsProofs -----------------------------
(***************************************************************************)
(* Proofs about Graphics.  Each of the three parts keeps its own invariant *)
(* under its own steps; Components says that a step of the whole is a step *)
(* of each part.                                                           *)
(***************************************************************************)
EXTENDS Graphics, TLAPS

VideoNext ==
    \/ ChooseVideo
    \/ \E t \in Threads : CreateContext(t) \/ ContextCreated(t) \/ Release(t)
    \/ \E t \in Threads, c \in Contexts :
         DestroyContext(t, c) \/ \E published \in BOOLEAN : MakeCurrent(t, c, published)

BridgeNext ==
    \/ Preflight
    \/ \E accepted \in BOOLEAN :
         AudioOpened(accepted)
           \/ \E plugged \in BOOLEAN : OpenInput(accepted, plugged) \/ Observe(accepted, plugged)
    \/ \E evidence \in Evidence : PublishGraphics(evidence)

CapNext == ShowLate \/ Sleep \/ ShowOnTime \/ Clock

HostTypeOK ==
    /\ boot \in {"preflight", "video", "input", "running", "failed"}
    /\ driver \in {"partial", "whole"} /\ pad \in BOOLEAN
    /\ framework_graphics_ready \in BOOLEAN
    /\ presenter \in Threads \cup {"nobody"}

-----------------------------------------------------------------------------
(* A step of the whole is, of each part, a step or none. *)
LEMMA Components ==
    ASSUME driver \in {"partial", "whole"}, pad \in BOOLEAN, [Next]_vars
    PROVE  [VideoNext]_video /\ [BridgeNext]_bridge /\ [CapNext]_cap
<1>1. CASE UNCHANGED vars
  BY <1>1 DEF vars
<1>2. CASE BootPreflight
  BY <1>2 DEF BootPreflight, BridgeNext
<1>3. CASE BootVideo
  BY <1>3 DEF BootVideo, VideoNext
<1>4. CASE BootInput
  BY <1>4 DEF BootInput, BridgeNext
<1>5. CASE PadChanges
  <2>1. pad' \in BOOLEAN
    BY <1>5 DEF PadChanges
  <2> QED
    BY <1>5, <2>1 DEF PadChanges, BridgeNext
<1>6. ASSUME NEW accepted \in BOOLEAN, PlayerCreated(accepted)
      PROVE  [VideoNext]_video /\ [BridgeNext]_bridge /\ [CapNext]_cap
  BY <1>6 DEF PlayerCreated, BridgeNext
<1>7. ASSUME NEW evidence \in {"broken", driver}, RawSwap(evidence)
      PROVE  [VideoNext]_video /\ [BridgeNext]_bridge /\ [CapNext]_cap
  BY <1>7 DEF RawSwap, BridgeNext, Evidence
<1>8. ASSUME NEW t \in Threads,
             \/ EngineUses(t, CreateContext(t)) \/ EngineUses(t, ContextCreated(t))
             \/ EngineUses(t, Release(t))
             \/ \E c \in Contexts : EngineUses(t, DestroyContext(t, c))
      PROVE  [VideoNext]_video /\ [BridgeNext]_bridge /\ [CapNext]_cap
  BY <1>8 DEF EngineUses, VideoNext
<1>9. ASSUME NEW t \in Threads, NEW c \in Contexts, EngineMakesCurrent(t, c)
      PROVE  [VideoNext]_video /\ [BridgeNext]_bridge /\ [CapNext]_cap
  <2>1. PICK evidence \in {"broken", driver} :
          PublishGraphics(evidence) /\ MakeCurrent(t, c, Usable(evidence))
    BY <1>9 DEF EngineMakesCurrent
  <2>2. MakeCurrent(t, c, TRUE) \/ MakeCurrent(t, c, FALSE)
    BY <2>1 DEF MakeCurrent
  <2> QED
    BY <1>9, <2>1, <2>2 DEF EngineMakesCurrent, VideoNext, BridgeNext, Evidence
<1>10. ASSUME NEW t \in Threads, Flip(t) \/ FlipDone(t)
       PROVE  [VideoNext]_video /\ [BridgeNext]_bridge /\ [CapNext]_cap
  BY <1>10 DEF Flip, FlipDone, CapNext
<1>11. CASE TimePasses
  BY <1>11 DEF TimePasses, CapNext
<1> QED
  BY <1>1, <1>2, <1>3, <1>4, <1>5, <1>6, <1>7, <1>8, <1>9, <1>10, <1>11 DEF Next, Main

-----------------------------------------------------------------------------
(* The video facade.  The share root is on a thread only while that thread *)
(* has the lock, and then it is, unless another thread had the window, in  *)
(* which case the thread has nothing current at all.                       *)
RootIsHeld ==
    \A t \in Threads :
        /\ holder # t => current[t] # "root"
        /\ holder = t => current[t] = IF denied THEN "none" ELSE "root"

(* A driver that gives the window to one thread does.                      *)
OneDraws ==
    exclusive => \A t, u \in Threads : t # u => current[t] = "none" \/ current[u] = "none"

VideoInv == VideoTypeOK /\ RootIsHeld /\ OneDraws /\ AllShared /\ BindingIsKnown

LEMMA VideoKept == ASSUME VideoInv, [VideoNext]_video PROVE VideoInv'
<1> USE VideoAssumption DEF VideoInv, VideoTypeOK
<1>1. CASE UNCHANGED video
  BY <1>1 DEF video, binding, family, RootIsHeld, OneDraws, AllShared, BindingIsKnown
<1>2. CASE ChooseVideo
  BY <1>2 DEF ChooseVideo, binding, family, RootIsHeld, OneDraws, AllShared, BindingIsKnown
<1>3. ASSUME NEW t \in Threads, CreateContext(t) PROVE VideoInv'
  <2>1. VideoTypeOK'
    BY <1>3 DEF CreateContext, WindowTaken
  <2>2. RootIsHeld'
    <3>1. ~WindowTaken(t) => Bindable(t, "root")
      BY <1>3 DEF CreateContext, ContextLockFree, WindowTaken, Bindable, RootIsHeld
    <3>2. WindowTaken(t) => current[t] = "none" /\ ~Bindable(t, "root")
      BY DEF WindowTaken, Bindable, OneDraws
    <3> QED
      BY <1>3, <3>1, <3>2 DEF CreateContext, ContextLockFree, RootIsHeld
  <2>4. OneDraws'
    BY <1>3 DEF CreateContext, Bindable, OneDraws
  <2>3. AllShared' /\ BindingIsKnown'
    BY <1>3 DEF CreateContext, ContextLockFree, AllShared, BindingIsKnown
  <2> QED
    BY <2>1, <2>2, <2>3, <2>4
<1>4. ASSUME NEW t \in Threads, ContextCreated(t) PROVE VideoInv'
  <2>1. VideoTypeOK'
    BY <1>4 DEF ContextCreated, Sharing
  <2>2. RootIsHeld'
    BY <1>4 DEF ContextCreated, RootIsHeld
  <2>3. AllShared'
    BY <1>4 DEF ContextCreated, Sharing, RootIsHeld, AllShared
  <2>4. BindingIsKnown'
    BY ZenonT(30), <1>4 DEF ContextCreated, Sharing, BindingIsKnown
  <2>5. OneDraws'
    BY <1>4 DEF ContextCreated, OneDraws
  <2> QED
    BY <2>1, <2>2, <2>3, <2>4, <2>5
<1>5. ASSUME NEW t \in Threads, Release(t) PROVE VideoInv'
  BY <1>5 DEF Release, Idle, Released, family, RootIsHeld, OneDraws, AllShared, BindingIsKnown
<1>6. ASSUME NEW t \in Threads, NEW c \in Contexts, DestroyContext(t, c) PROVE VideoInv'
  <2>0. /\ contexts' = [contexts EXCEPT ![c] = "free"]
        /\ orphans' = orphans \ {c}
        /\ UNCHANGED <<mode, exclusive, holder, denied>> /\ holder # t
        /\ Released(t) \/ UNCHANGED binding
    BY <1>6 DEF DestroyContext, Idle
  <2>1. VideoTypeOK'
    BY <2>0 DEF Released, binding
  <2>3. RootIsHeld'
    BY <2>0 DEF Released, binding, RootIsHeld
  <2>4. AllShared'
    BY <2>0 DEF AllShared
  <2>2. BindingIsKnown'
    BY <1>6 DEF DestroyContext, Idle, Released, binding, BindingIsKnown
  <2>5. OneDraws'
    BY <2>0 DEF Released, binding, OneDraws
  <2> QED
    BY <2>1, <2>2, <2>3, <2>4, <2>5
<1>7. ASSUME NEW t \in Threads, NEW c \in Contexts, NEW published \in BOOLEAN,
             MakeCurrent(t, c, published)
      PROVE  VideoInv'
  <2>1. VideoTypeOK'
    BY <1>7 DEF MakeCurrent, Released, family
  <2>3. RootIsHeld'
    BY <1>7 DEF MakeCurrent, Idle, Released, family, RootIsHeld
  <2>4. AllShared'
    BY <1>7 DEF MakeCurrent, family, AllShared
  <2>2. BindingIsKnown'
    BY <1>7 DEF MakeCurrent, Idle, Released, family, BindingIsKnown
  <2>5. OneDraws'
    BY <1>7 DEF MakeCurrent, Bindable, Released, OneDraws
  <2> QED
    BY <2>1, <2>2, <2>3, <2>4, <2>5
<1> QED
  BY <1>1, <1>2, <1>3, <1>4, <1>5, <1>6, <1>7 DEF VideoNext

-----------------------------------------------------------------------------
(* The bridge.  Evidence that satisfies was published by its thread.       *)
ReceiptsAreSourced ==
    /\ "pad" \in receipts => input
    /\ "graphics" \in receipts => drawn
    /\ "audio" \in receipts => heard

BridgeInv == BridgeTypeOK /\ ReceiptsAreSourced /\ ReadyIsAnnounced

LEMMA BridgeKept == ASSUME BridgeInv, [BridgeNext]_bridge PROVE BridgeInv'
<1> USE DEF BridgeInv, BridgeTypeOK, ReceiptsAreSourced, ReadyIsAnnounced
<1>1. CASE UNCHANGED bridge
  BY <1>1 DEF bridge
<1>2. CASE Preflight
  <2>1. CASE UNCHANGED bridge
    BY <2>1, <1>1
  <2>2. CASE /\ up' = TRUE /\ receipts' \in {{}, {"host"}}
             /\ UNCHANGED <<input, drawn, heard, ready, late>>
    <3>1. "pad" \notin receipts' /\ "graphics" \notin receipts' /\ "audio" \notin receipts'
      BY <2>2
    <3>2. receipts' # Kinds /\ receipts' \subseteq Kinds
      BY <2>2, <3>1 DEF Kinds
    <3> QED
      BY <2>2, <3>1, <3>2
  <2> QED
    BY <1>2, <2>1, <2>2 DEF Preflight
<1>3. ASSUME NEW accepted \in BOOLEAN, AudioOpened(accepted) PROVE BridgeInv'
  BY <1>3 DEF AudioOpened, EvaluateReady, Kinds
<1>4. ASSUME NEW accepted \in BOOLEAN, NEW plugged \in BOOLEAN, OpenInput(accepted, plugged)
      PROVE  BridgeInv'
  BY <1>4 DEF OpenInput, EvaluateReady, Kinds
<1>5. ASSUME NEW accepted \in BOOLEAN, NEW plugged \in BOOLEAN, Observe(accepted, plugged)
      PROVE  BridgeInv'
  <2>1. input' = input /\ input /\ drawn' = drawn /\ heard' = heard /\ ready' = ready /\ up' = up
    BY <1>5 DEF Observe
  <2>2. receipts' \in {receipts, receipts \cup {"pad"}, receipts \ {"pad"}}
    BY <1>5 DEF Observe
  <2>3. late' = (receipts' = Kinds /\ ~ready)
    BY <1>5 DEF Observe
  <2>4. BridgeTypeOK'
    BY <2>1, <2>2, <2>3 DEF Kinds
  <2>5. ReceiptsAreSourced'
    BY <2>1, <2>2
  <2>6. ReadyIsAnnounced'
    BY <2>1, <2>3
  <2> QED
    BY <2>4, <2>5, <2>6
<1>6. ASSUME NEW evidence \in Evidence, PublishGraphics(evidence) PROVE BridgeInv'
  BY <1>6 DEF PublishGraphics, EvaluateReady, bridge, Kinds
<1> QED
  BY <1>1, <1>2, <1>3, <1>4, <1>5, <1>6 DEF BridgeNext

(* What READY is said about. *)
LEMMA BridgeEarns ==
    ASSUME BridgeInv, [BridgeNext]_bridge
    PROVE  ready' # ready => ready' /\ receipts' = Kinds
<1> USE DEF BridgeInv, BridgeTypeOK
<1>1. CASE UNCHANGED bridge
  BY <1>1 DEF bridge
<1> QED
  BY <1>1 DEF BridgeNext, Preflight, AudioOpened, OpenInput, Observe, PublishGraphics,
              EvaluateReady, bridge

-----------------------------------------------------------------------------
(* The frame cap.  The last flip and the deadline are a period apart, less *)
(* the lateness of a sleep; a sleeper is not much over its deadline.       *)
CapInv ==
    /\ CapTypeOK
    /\ since < Horizon => due + since >= Period - Lateness /\ due + since <= Period
    /\ since = Horizon => due <= 0
    /\ asleep => due >= -Lateness /\ due + since <= Period

LEMMA CapKept == ASSUME CapInv, [CapNext]_cap PROVE CapInv'
<1> USE CapAssumption DEF CapInv, CapTypeOK
<1>1. CASE UNCHANGED cap
  BY <1>1 DEF cap
<1>2. CASE ShowLate
  BY <1>2 DEF ShowLate, FromNow
<1>3. CASE Sleep
  BY <1>3 DEF Sleep, Late
<1>4. CASE ShowOnTime
  <2>1. due \in Int /\ Period \in Int /\ Lateness \in Int /\ Horizon \in Int
    OBVIOUS
  <2>2. due <= 0 /\ due >= -Lateness /\ due' = due + Period /\ since' = 0 /\ asleep' = FALSE
    BY <1>4 DEF ShowOnTime, Late
  <2>3. due' \in -Horizon .. Period /\ since' \in 0 .. Horizon /\ since' # Horizon
    BY <2>1, <2>2
  <2>4. due' + since' >= Period - Lateness /\ due' + since' <= Period
    BY <2>1, <2>2
  <2> QED
    BY <2>2, <2>3, <2>4
<1>5. CASE Clock
  <2>1. due \in Int /\ since \in Int /\ Period \in Int /\ Lateness \in Int /\ Horizon \in Int
    OBVIOUS
  <2>2. asleep' = asleep /\ (asleep => due > -Lateness)
    BY <1>5 DEF Clock
  <2>3. CASE due > -Horizon
    <3>1. due' = due - 1 /\ since' = IF since < Horizon THEN since + 1 ELSE since
      BY <1>5, <2>3 DEF Clock
    <3>2. due' \in -Horizon .. Period /\ since' \in 0 .. Horizon
      BY <2>1, <2>3, <3>1
    <3>3. asleep' => due' >= -Lateness /\ due' + since' <= Period
      BY <2>1, <2>2, <3>1
    <3>4. since' < Horizon => due' + since' >= Period - Lateness /\ due' + since' <= Period
      BY <2>1, <3>1
    <3>5. since' = Horizon => due' <= 0
      BY <2>1, <3>1
    <3> QED
      BY <2>2, <3>2, <3>3, <3>4, <3>5
  <2>4. CASE ~(due > -Horizon)
    <3>1. due = -Horizon /\ due' = due
      BY <1>5, <2>4 DEF Clock
    <3>2. since = Horizon
      BY <2>1, <3>1
    <3>3. since' = since
      BY <1>5, <3>2 DEF Clock
    <3> QED
      BY <2>2, <3>1, <3>3
  <2> QED
    BY <2>3, <2>4
<1> QED
  BY <1>1, <1>2, <1>3, <1>4, <1>5 DEF CapNext

(* The step of FlipsAreSpaced. *)
LEMMA CapSpaces ==
    ASSUME CapInv
    PROVE  /\ ShowLate \/ ShowOnTime => since >= Period - Lateness
           /\ ShowOnTime => since <= Period + Lateness
BY CapAssumption DEF CapInv, CapTypeOK, ShowLate, ShowOnTime, Late

-----------------------------------------------------------------------------
IInv == VideoInv /\ BridgeInv /\ CapInv /\ HostTypeOK /\ DrawsAfterReceipt

LEMMA HostKept == ASSUME HostTypeOK, [Next]_vars PROVE HostTypeOK'
<1> USE DEF HostTypeOK
<1>1. CASE UNCHANGED vars
  BY <1>1 DEF vars, host
<1>2. CASE Main
  BY <1>2 DEF Main, BootPreflight, BootVideo, BootInput
<1>3. CASE PadChanges
  BY <1>3 DEF PadChanges
<1>4. ASSUME NEW accepted \in BOOLEAN, PlayerCreated(accepted) PROVE HostTypeOK'
  BY <1>4 DEF PlayerCreated, host
<1>5. ASSUME NEW evidence \in {"broken", driver}, RawSwap(evidence) PROVE HostTypeOK'
  <2>1. framework_graphics_ready' \in BOOLEAN
    BY <1>5 DEF RawSwap, Noted, Published
  <2> QED
    BY <1>5, <2>1 DEF RawSwap
<1>6. ASSUME NEW t \in Threads,
             \/ EngineUses(t, CreateContext(t)) \/ EngineUses(t, ContextCreated(t))
             \/ EngineUses(t, Release(t))
             \/ \E c \in Contexts : EngineUses(t, DestroyContext(t, c)) \/ EngineMakesCurrent(t, c)
      PROVE  HostTypeOK'
  BY <1>6 DEF EngineUses, EngineMakesCurrent, host
<1>7. ASSUME NEW t \in Threads, Flip(t) \/ FlipDone(t) PROVE HostTypeOK'
  BY <1>7 DEF Flip, FlipDone, host
<1>8. CASE TimePasses
  BY <1>8 DEF TimePasses, host
<1> QED
  BY <1>1, <1>2, <1>3, <1>4, <1>5, <1>6, <1>7, <1>8 DEF Next

(* A receipt is never withdrawn. *)
LEMMA DrawnStays == ASSUME BridgeTypeOK, [BridgeNext]_bridge PROVE drawn => drawn'
BY DEF BridgeTypeOK, BridgeNext, Preflight, AudioOpened, OpenInput, Observe, PublishGraphics, bridge

LEMMA DrawsKept == ASSUME IInv, [Next]_vars PROVE DrawsAfterReceipt'
<1> USE DEF IInv
<1>1. driver \in {"partial", "whole"} /\ pad \in BOOLEAN
  BY DEF HostTypeOK
<1>2. [BridgeNext]_bridge /\ [VideoNext]_video
  BY <1>1, Components
<1>3. drawn => drawn'
  BY <1>2, DrawnStays DEF BridgeInv
<1>4. ASSUME NEW t \in Threads, NEW c \in Contexts, EngineMakesCurrent(t, c)
      PROVE  DrawsAfterReceipt'
  <2>1. PICK evidence \in {"broken", driver} :
          PublishGraphics(evidence) /\ MakeCurrent(t, c, Usable(evidence))
    BY <1>4 DEF EngineMakesCurrent
  <2>2. CASE Usable(evidence)
    <3>1. drawn'
      BY <2>1, <2>2 DEF Usable, Published, PublishGraphics, bridge
    <3> QED
      BY <3>1 DEF DrawsAfterReceipt
  <2>3. CASE ~Usable(evidence)
    <3>1. \A u \in Threads : shadow'[u] # "none" => shadow[u] # "none"
      BY <2>1, <2>3 DEF MakeCurrent, Released, VideoInv, VideoTypeOK
    <3> QED
      BY <3>1, <1>3 DEF DrawsAfterReceipt
  <2> QED
    BY <2>2, <2>3
<1>5. CASE \A u \in Threads : shadow'[u] # "none" => shadow[u] # "none"
  BY <1>5, <1>3 DEF DrawsAfterReceipt
<1>6. ASSUME UNCHANGED shadow PROVE \A u \in Threads : shadow'[u] # "none" => shadow[u] # "none"
  BY <1>6
<1>7. ASSUME NEW t \in Threads, NEW c \in Contexts, DestroyContext(t, c) \/ Release(t)
      PROVE  \A u \in Threads : shadow'[u] # "none" => shadow[u] # "none"
  BY <1>7 DEF DestroyContext, Release, Released, binding, VideoInv, VideoTypeOK
<1>8. ASSUME NEW t \in Threads, Release(t)
      PROVE  \A u \in Threads : shadow'[u] # "none" => shadow[u] # "none"
  BY <1>8 DEF Release, Released, VideoInv, VideoTypeOK
<1>9. CASE BootVideo
  BY <1>9, <1>5, <1>6 DEF BootVideo, ChooseVideo, binding
<1>10. ASSUME NEW t \in Threads,
              EngineUses(t, CreateContext(t)) \/ EngineUses(t, ContextCreated(t))
       PROVE  DrawsAfterReceipt'
  BY <1>10, <1>5, <1>6 DEF EngineUses, CreateContext, ContextCreated
<1>11. CASE UNCHANGED video
  BY <1>11, <1>5, <1>6 DEF video, binding
<1>12. ASSUME NEW t \in Threads, Flip(t) \/ FlipDone(t) PROVE UNCHANGED video
  BY <1>12 DEF Flip, FlipDone
<1>13. ASSUME NEW accepted \in BOOLEAN, PlayerCreated(accepted) PROVE UNCHANGED video
  BY <1>13 DEF PlayerCreated
<1>14. ASSUME NEW evidence \in {"broken", driver}, RawSwap(evidence) PROVE UNCHANGED video
  BY <1>14 DEF RawSwap
<1>15. ASSUME BootPreflight \/ BootInput \/ PadChanges \/ TimePasses \/ UNCHANGED vars
       PROVE  UNCHANGED video
  BY <1>15 DEF BootPreflight, BootInput, PadChanges, TimePasses, vars
<1> QED
  BY <1>4, <1>5, <1>7, <1>8, <1>9, <1>10, <1>11, <1>12, <1>13, <1>14, <1>15
     DEF Next, Main, EngineUses

THEOREM Inductive == Spec => []IInv
<1>1. Init => IInv
  <2> SUFFICES ASSUME Init PROVE IInv
    OBVIOUS
  <2>1. VideoInv
    BY VideoAssumption DEF Init, VideoInit, VideoInv, VideoTypeOK, RootIsHeld, OneDraws, AllShared, BindingIsKnown
  <2>2. BridgeInv
    BY DEF Init, BridgeInit, BridgeInv, BridgeTypeOK, ReceiptsAreSourced, ReadyIsAnnounced, Kinds
  <2>3. CapInv
    <3>1. due = 0 /\ since = Horizon /\ asleep = FALSE
      BY DEF Init, CapInit
    <3>2. due \in -Horizon .. Period /\ since \in 0 .. Horizon /\ ~(since < Horizon) /\ due <= 0
      BY <3>1, CapAssumption
    <3>3. CapTypeOK
      BY <3>1, <3>2 DEF CapTypeOK
    <3> QED
      BY <3>1, <3>2, <3>3 DEF CapInv
  <2>4. HostTypeOK /\ DrawsAfterReceipt
    BY DEF Init, VideoInit, HostTypeOK, DrawsAfterReceipt
  <2> QED
    BY <2>1, <2>2, <2>3, <2>4 DEF IInv
<1>2. IInv /\ [Next]_vars => IInv'
  <2> SUFFICES ASSUME IInv, [Next]_vars PROVE IInv'
    OBVIOUS
  <2>1. [VideoNext]_video /\ [BridgeNext]_bridge /\ [CapNext]_cap
    BY Components DEF IInv, HostTypeOK
  <2> QED
    BY <2>1, VideoKept, BridgeKept, CapKept, HostKept, DrawsKept DEF IInv
<1> QED
  BY <1>1, <1>2, PTL DEF Spec

(* Every variable of the composition keeps its type. *)
THEOREM TypeCorrect == Spec => []TypeOK
<1>1. IInv => TypeOK
  BY DEF IInv, TypeOK, VideoInv, BridgeInv, CapInv, HostTypeOK
<1> QED
  BY <1>1, Inductive, PTL

(* On every driver the contexts that do not share are those whose creation *)
(* asked for the share root while another thread had a window the driver   *)
(* gives to one: eglCreateContext, egl_sdl.c:484-497.                      *)
THEOREM Shared == Spec => []AllShared
<1>1. IInv => AllShared
  BY DEF IInv, VideoInv
<1> QED
  BY <1>1, Inductive, PTL

(* What EGL says is current is what SDL has current, and exists.           *)
THEOREM BindingKnown == Spec => []BindingIsKnown
<1>1. IInv => BindingIsKnown
  BY DEF IInv, VideoInv
<1> QED
  BY <1>1, Inductive, PTL

(* No context is current before a graphics receipt was accepted.           *)
THEOREM DrawingFollowsReceipt == Spec => []DrawsAfterReceipt
<1>1. IInv => DrawsAfterReceipt
  BY DEF IInv
<1> QED
  BY <1>1, Inductive, PTL

(* READY has been said when all the evidence is there.                     *)
THEOREM Announced == Spec => []ReadyIsAnnounced
<1>1. IInv => ReadyIsAnnounced
  BY DEF IInv, BridgeInv
<1> QED
  BY <1>1, Inductive, PTL

(* READY is said once and about whole evidence.                            *)
THEOREM Earned == Spec => ReadyIsEarned
<1>1. IInv /\ [Next]_vars => [ready' # ready => ready' /\ receipts' = Kinds]_bridge
  <2> SUFFICES ASSUME IInv, [Next]_vars PROVE ready' # ready => ready' /\ receipts' = Kinds
    OBVIOUS
  <2>1. [BridgeNext]_bridge
    BY Components DEF IInv, HostTypeOK
  <2> QED
    BY <2>1, BridgeEarns DEF IInv
<1> QED
  BY <1>1, Inductive, PTL DEF Spec, ReadyIsEarned

(* Flips are a period apart, less or more the lateness of a sleep.         *)
THEOREM Spaced == Spec => FlipsAreSpaced
<1>1. IInv => [/\ ShowLate \/ ShowOnTime => since >= Period - Lateness
               /\ ShowOnTime => since <= Period + Lateness]_cap
  BY CapSpaces DEF IInv
<1> QED
  BY <1>1, Inductive, PTL DEF FlipsAreSpaced
=============================================================================
