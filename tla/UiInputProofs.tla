----------------------------- MODULE UiInputProofs -----------------------------
(***************************************************************************)
(* What UiInput's TLC run finds for one clicking button and nine moves,    *)
(* proved for any buttons and any number of moves.                         *)
(***************************************************************************)
EXTENDS UiInput, TLAPS

USE UiAssumption DEF UiAssumption

(* The type invariant by kind of value: the flags, the sets of buttons and *)
(* the counters.                                                           *)
Flags == /\ menu \in BOOLEAN /\ due \in BOOLEAN /\ ready \in BOOLEAN /\ quit \in BOOLEAN
         /\ playing \in BOOLEAN /\ strayed \in BOOLEAN
Names == /\ turn \in {"poll", "context", "click", "back", "touch", "out"}
         /\ finger \in {"up", "down"} /\ backKey \in {"up", "down"}
Levels == /\ held \subseteq Buttons /\ was \subseteq Buttons /\ pressed \subseteq Buttons
          /\ released \subseteq {Back}
Counters == stage \in 0 .. LastMove + 1 /\ moves \in 0 .. LastMove

(* Unity knows of a finger only once it is ready, and stays ready: without *)
(* this a loop that counts its stage on while nothing is delivered could   *)
(* leave a finger behind.                                                  *)
TouchedWhenReady == finger = "down" => ready

Tracking == Counters /\ TouchedWhenReady /\ LiveTouchIsTracked

IInv == Flags /\ Names /\ Levels /\ Tracking

LEMMA InvTyped == IInv => TypeOK
BY DEF IInv, Flags, Names, Levels, Tracking, Counters, TypeOK

LEMMA InitInv == Init => IInv
<1> SUFFICES ASSUME Init PROVE IInv
  OBVIOUS
<1>1. Flags
  BY Zenon DEF Init, Flags
<1>2. Names /\ Levels
  BY DEF Init, Names, Levels
<1>3. Tracking
  BY DEF Init, Tracking, TouchedWhenReady, Counters, LiveTouchIsTracked
<1> QED
  BY <1>1, <1>2, <1>3 DEF IInv

LEMMA StepInv == IInv /\ [Next]_vars => IInv'
<1> SUFFICES ASSUME IInv, [Next]_vars PROVE IInv'
  OBVIOUS
<1> USE DEF IInv, pad, touch, lifecycle, engine
<1>1. CASE Poll
  <2>1. Flags'
    BY <1>1, Zenon DEF Poll, Flags
  <2>2. Names'
    BY <1>1 DEF Poll, Names
  <2>3. Levels'
    BY <1>1 DEF Poll, Levels, Buttons
  <2>4. Tracking'
    BY <1>1 DEF Poll, Tracking, TouchedWhenReady, Counters, LiveTouchIsTracked, Names
  <2> QED
    BY <2>1, <2>2, <2>3, <2>4
<1>2. CASE Context
  <2>1. Flags'
    BY <1>2, Zenon DEF Context, LeaveMenu, Touch, Flags
  <2>2. Names'
    BY <1>2 DEF Context, LeaveMenu, Touch, Names
  <2>3. Levels'
    BY <1>2 DEF Context, LeaveMenu, Touch, Levels, Buttons
  <2>4. Tracking'
    <3> USE DEF Tracking, TouchedWhenReady, Counters, LiveTouchIsTracked, Names
    <3>1. CASE menu /\ playing /\ stage # 0
      BY <1>2, <3>1 DEF Context, LeaveMenu, Touch
    <3>2. CASE ~(menu /\ playing /\ stage # 0)
      <4>1. /\ UNCHANGED <<finger, moves, ready>> /\ menu' = ~playing
            /\ stage' = IF menu /\ playing THEN 0 ELSE stage
        BY <1>2, <3>2 DEF Context, LeaveMenu
      <4>2. CASE finger = "up"
        BY <4>1, <4>2
      <4>3. CASE finger = "down"
        <5>1. menu /\ stage = moves + 1 /\ stage # 0
          BY <4>3
        <5>2. ~playing
          BY <3>2, <5>1, Zenon
        <5>3. menu' /\ stage' = stage
          BY <4>1, <5>2, Zenon
        <5> QED
          BY <4>1, <5>1, <5>3
      <4> QED
        BY <4>2, <4>3
    <3> QED
      BY <3>1, <3>2
  <2> QED
    BY <2>1, <2>2, <2>3, <2>4
<1>3. CASE Click
  <2>1. Flags'
    BY <1>3, Zenon DEF Click, Touch, Flags
  <2>2. Names'
    BY <1>3 DEF Click, Touch, Names
  <2>3. Levels'
    BY <1>3 DEF Click, Touch, Levels, Buttons
  <2>4. Tracking'
    BY <1>3 DEF Click, Touch, Tracking, TouchedWhenReady, Counters, LiveTouchIsTracked, Names
  <2> QED
    BY <2>1, <2>2, <2>3, <2>4
<1>4. CASE BackStep
  <2>1. Flags'
    BY <1>4, Zenon DEF BackStep, Key, BackUp, Flags
  <2>2. Names'
    BY <1>4 DEF BackStep, Key, BackUp, Names
  <2>3. Levels'
    BY <1>4 DEF BackStep, Key, BackUp, Levels, Buttons
  <2>4. Tracking'
    BY <1>4 DEF BackStep, Key, BackUp, Tracking, TouchedWhenReady, Counters, LiveTouchIsTracked, Names
  <2> QED
    BY <2>1, <2>2, <2>3, <2>4
<1>5. CASE Dispatch
  <2>1. Flags'
    BY <1>5, Zenon DEF Dispatch, StillMoving, Touch, Flags
  <2>2. Names'
    BY <1>5 DEF Dispatch, StillMoving, Touch, Names
  <2>3. Levels'
    BY <1>5 DEF Dispatch, StillMoving, Touch, Levels, Buttons
  <2>4. Tracking'
    BY <1>5 DEF Dispatch, StillMoving, Touch, Tracking, TouchedWhenReady, Counters, LiveTouchIsTracked, Names
  <2> QED
    BY <2>1, <2>2, <2>3, <2>4
<1>6. CASE Leave
  <2>1. Flags'
    BY <1>6, Zenon DEF Leave, Flags
  <2>2. Names'
    BY <1>6 DEF Leave, Names
  <2>3. Levels'
    BY <1>6 DEF Leave, Levels, Buttons
  <2>4. Tracking'
    BY <1>6 DEF Leave, Tracking, TouchedWhenReady, Counters, LiveTouchIsTracked, Names
  <2> QED
    BY <2>1, <2>2, <2>3, <2>4
<1>7. CASE Tick
  <2>1. Flags'
    BY <1>7, Zenon DEF Tick, Flags
  <2>2. Names'
    BY <1>7 DEF Tick, Names
  <2>3. Levels'
    BY <1>7 DEF Tick, Levels, Buttons
  <2>4. Tracking'
    BY <1>7 DEF Tick, Tracking, TouchedWhenReady, Counters, LiveTouchIsTracked, Names
  <2> QED
    BY <2>1, <2>2, <2>3, <2>4
<1>8. CASE BecomeReady
  <2>1. Flags'
    BY <1>8, Zenon DEF BecomeReady, Flags
  <2>2. Names'
    BY <1>8 DEF BecomeReady, Names
  <2>3. Levels'
    BY <1>8 DEF BecomeReady, Levels, Buttons
  <2>4. Tracking'
    BY <1>8 DEF BecomeReady, Tracking, TouchedWhenReady, Counters, LiveTouchIsTracked, Names
  <2> QED
    BY <2>1, <2>2, <2>3, <2>4
<1>9. CASE SwitchContext
  <2>1. Flags'
    BY <1>9, Zenon DEF SwitchContext, Flags
  <2>2. Names'
    BY <1>9 DEF SwitchContext, Names
  <2>3. Levels'
    BY <1>9 DEF SwitchContext, Levels, Buttons
  <2>4. Tracking'
    BY <1>9 DEF SwitchContext, Tracking, TouchedWhenReady, Counters, LiveTouchIsTracked, Names
  <2> QED
    BY <2>1, <2>2, <2>3, <2>4
<1>10. CASE Quit
  <2>1. Flags'
    BY <1>10, Zenon DEF Quit, Flags
  <2>2. Names'
    BY <1>10 DEF Quit, Names
  <2>3. Levels'
    BY <1>10 DEF Quit, Levels, Buttons
  <2>4. Tracking'
    BY <1>10 DEF Quit, Tracking, TouchedWhenReady, Counters, LiveTouchIsTracked, Names
  <2> QED
    BY <2>1, <2>2, <2>3, <2>4
<1>11. CASE UNCHANGED vars
  <2>1. Flags'
    BY <1>11, Zenon DEF vars, Flags
  <2>2. Names'
    BY <1>11 DEF vars, Names
  <2>3. Levels'
    BY <1>11 DEF vars, Levels, Buttons
  <2>4. Tracking'
    BY <1>11 DEF vars, Tracking, TouchedWhenReady, Counters, LiveTouchIsTracked, Names
  <2> QED
    BY <2>1, <2>2, <2>3, <2>4
<1> QED
  BY <1>1, <1>2, <1>3, <1>4, <1>5, <1>6, <1>7, <1>8, <1>9, <1>10, <1>11 DEF Next, UiStep

-----------------------------------------------------------------------------
(* The Back key.  Unity holds it down only once it is ready; between the   *)
(* poll and the key events a press whose level has gone has its release;   *)
(* play that the loop has noticed strays a key that is down; and any other *)
(* key that is down was down for the pad too when the loop last looked.    *)
HeldWhenReady == backKey = "down" => ready
TapHasRelease ==
    turn \in {"context", "click", "back"} /\ Back \in pressed \ held => Back \in released
PlayStrays == turn \in {"click", "back"} /\ ~menu /\ backKey = "down" => strayed
HeldIsSeen == backKey = "down" /\ ~strayed => Back \in was

BackInv == HeldWhenReady /\ TapHasRelease /\ PlayStrays /\ HeldIsSeen

LEMMA InitBack == Init => BackInv
BY DEF Init, BackInv, HeldWhenReady, TapHasRelease, PlayStrays, HeldIsSeen

LEMMA StepBack == IInv /\ BackInv /\ [Next]_vars => BackInv'
<1> SUFFICES ASSUME IInv, BackInv, [Next]_vars PROVE BackInv'
  OBVIOUS
<1> USE DEF IInv, Names, BackInv, HeldWhenReady, TapHasRelease, PlayStrays, HeldIsSeen, Buttons,
        pad, touch, lifecycle, engine
<1>1. CASE Poll
  BY <1>1 DEF Poll
<1>2. CASE Context
  BY <1>2 DEF Context
<1>3. CASE Click
  BY <1>3 DEF Click
<1>4. CASE BackStep
  BY <1>4 DEF BackStep, Key, BackUp
<1>5. CASE Dispatch \/ Leave
  BY <1>5 DEF Dispatch, Leave
<1>6. CASE Tick \/ BecomeReady \/ SwitchContext \/ Quit
  BY <1>6 DEF Tick, BecomeReady, SwitchContext, Quit
<1>7. CASE UNCHANGED vars
  BY <1>7 DEF vars
<1> QED
  BY <1>1, <1>2, <1>3, <1>4, <1>5, <1>6, <1>7 DEF Next, UiStep

-----------------------------------------------------------------------------
(* Every reachable state is typed, and a finger Unity believes down is     *)
(* tracked by the loop, in a menu (main.c:605-608, 630-640, 753-767).      *)
THEOREM Invariance == Spec => []IInv
BY InitInv, StepInv, PTL DEF Spec

(* Type correctness of the input loop.                                     *)
THEOREM TypeCorrect == Spec => []TypeOK
BY Invariance, InvTyped, PTL

(* A finger that Unity believes is down is one the loop will lift.         *)
THEOREM TouchTracked == Spec => []LiveTouchIsTracked
BY Invariance, PTL DEF IInv, Tracking

(* A click that begins and ends in a menu has moved LastMove times.        *)
THEOREM WholeClicks == Spec => ClickIsWhole
<1>1. ASSUME IInv, [Next]_vars
      PROVE  [finger = "down" /\ finger' = "up" /\ menu' => moves = LastMove]_vars
  <2> SUFFICES ASSUME Next, finger = "down", finger' = "up", menu' PROVE moves = LastMove
    BY <1>1 DEF vars
  <2> USE DEF pad, touch, lifecycle, engine
  <2>1. CASE Dispatch
    BY <1>1, <2>1 DEF Dispatch, StillMoving, Touch, IInv, Tracking, TouchedWhenReady, Counters,
                       LiveTouchIsTracked
  <2>2. CASE Context
    BY <1>1, <2>2 DEF Context, LeaveMenu, Touch
  <2>3. CASE Click
    BY <2>3 DEF Click, Touch
  <2>4. CASE Poll \/ BackStep \/ Leave \/ Tick \/ BecomeReady \/ SwitchContext \/ Quit
    BY <2>4 DEF Poll, BackStep, Leave, Tick, BecomeReady, SwitchContext, Quit
  <2> QED
    BY <2>1, <2>2, <2>3, <2>4 DEF Next, UiStep
<1> QED
  BY Invariance, <1>1, PTL DEF Spec, ClickIsWhole

(* While Unity holds Back down so does the pad, unless play came between.  *)
THEOREM BackFollows == Spec => []BackFollowsPad
<1>1. BackInv => BackFollowsPad
  BY DEF BackInv, HeldIsSeen, BackFollowsPad
<1> QED
  BY Invariance, InitBack, StepBack, <1>1, PTL DEF Spec
=============================================================================
