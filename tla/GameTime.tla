-------------------------------- MODULE GameTime --------------------------------
(***************************************************************************)
(* The two hooks that deal in the game's time together: the pace governor  *)
(* sets the engine's scale, the scale drives the game's clock, and the     *)
(* busy guard compares deadlines of that clock with a window of the wall's.*)
(***************************************************************************)
EXTENDS PaceGovernor, BusyGuard

gameTime == <<vars, busy>>

GameTimeInit == Init /\ BusyInit

(* The game's clock stands in a pause and runs at up to twice the wall's   *)
(* pace otherwise.                                                         *)
Advances == IF raw = 0 THEN {0} ELSE 0 .. 2

WallTime == \E passed \in Advances : Elapse(passed)

Weapon == (~paused /\ (Fire \/ Reload)) \/ ReloadAgain

GameTimeNext ==
    \/ Next /\ UNCHANGED busy
    \/ (Weapon \/ WallTime) /\ UNCHANGED vars

GameTimeSpec == GameTimeInit /\ [][GameTimeNext]_gameTime
=============================================================================
