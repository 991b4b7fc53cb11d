------------------------------- MODULE BusyGuard -------------------------------
(***************************************************************************)
(* The replaced WeaponBase.SetBusy of gamepad_dt.c for one weapon.  A      *)
(* reload sets the weapon's deadline twice, in either order, with two      *)
(* lengths; a shot sets it once, when the last deadline has passed.        *)
(*                                                                         *)
(* Time is in units of an eighth of a second.  A deadline is kept as the   *)
(* game time left to it, so that it is the game's clock that runs it down  *)
(* and the wall's that ages the last call.                                 *)
(***************************************************************************)
EXTENDS Naturals

CONSTANTS Short, Long, \* the lengths of the two writes of a reload
          Shot,        \* the length of a shot's write
          Window,      \* 250 ms of wall time
          Threshold    \* 0.5 s of game time

(* A short reload outlasts the threshold by more than the window can run   *)
(* down, at up to twice the pace; a shot does not reach the threshold.     *)
ASSUME BusyAssumption ==
    /\ {Short, Long, Shot, Window, Threshold} \subseteq Nat \ {0}
    /\ Short < Long /\ Short > Threshold + 2 * Window /\ Shot <= Threshold

VARIABLES left,   \* Busy minus the game's now, zero when it has passed
          ago,    \* wall time since previous_millis, at most Window
          second, \* the write the reload still owes, 0 for none
          ruling  \* history: what left should be

busy == <<left, ago, second, ruling>>

BusyTypeOK ==
    /\ left \in 0 .. Long /\ ruling \in 0 .. Long
    /\ ago \in 0 .. Window /\ second \in {0, Short, Long}

BusyInit == left = 0 /\ ago = Window /\ second = 0 /\ ruling = 0

-----------------------------------------------------------------------------
(* Defect: a call is refused by the deadline that has passed too. *)
AnyDeadline(t) == ago < Window /\ t > left

Refused(t) == ago < Window /\ left > Threshold /\ t > left

(* hooked_set_busy: a refused call counts as the last one too. *)
SetBusy(t) ==
    /\ left' = IF Refused(t) THEN left ELSE t
    /\ ago' = 0

(* The gate of the game's CanFire. *)
Fire ==
    /\ left = 0 /\ second = 0
    /\ SetBusy(Shot)
    /\ ruling' = Shot /\ UNCHANGED second

Reload ==
    /\ left <= Shot /\ second = 0
    /\ \E t \in {Short, Long} :
         /\ SetBusy(t)
         /\ ruling' = t /\ second' = Short + Long - t

(* The other write of the same reload. *)
ReloadAgain ==
    /\ second # 0
    /\ SetBusy(second)
    /\ ruling' = IF second < ruling THEN second ELSE ruling
    /\ second' = 0

Later(t, passed) == IF t > passed THEN t - passed ELSE 0

(* One unit of wall time; the two writes of a reload are less than the     *)
(* window apart.                                                           *)
Elapse(passed) ==
    /\ second # 0 => ago + 1 < Window
    /\ ago' = IF ago < Window THEN ago + 1 ELSE ago
    /\ left' = Later(left, passed) /\ ruling' = Later(ruling, passed)
    /\ UNCHANGED second

-----------------------------------------------------------------------------
(* Whichever order the two writes of a reload arrive in, and whatever the  *)
(* game's clock does between them, the shorter one rules, and a shot is    *)
(* never refused its own (the comment at 186-198).                         *)
ShorterRules == left = ruling
=============================================================================
