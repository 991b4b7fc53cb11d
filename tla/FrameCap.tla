------------------------------- MODULE FrameCap -------------------------------
(***************************************************************************)
(* frame_cap_pace of egl_sdl.c, which each page flip of the SDL path goes  *)
(* through: a frame that is late is shown at once and the deadline starts  *)
(* anew from now, one that is early sleeps until the deadline.  Either way *)
(* the next deadline is a period later.                                    *)
(*                                                                         *)
(* Times are relative to now.  A frame later than Horizon is as late as    *)
(* that.                                                                   *)
(***************************************************************************)
EXTENDS Integers

CONSTANTS Period,   \* period_ns
          Lateness, \* how late clock_nanosleep may return
          Horizon   \* how late a frame is told apart

ASSUME CapAssumption ==
    /\ Period \in Nat /\ Lateness \in Nat /\ Horizon \in Nat
    /\ Lateness < Period /\ Period + Lateness <= Horizon

VARIABLES due,   \* the deadline, from now on
          since, \* history: time since the last flip
          asleep \* somebody sleeps for the deadline

cap == <<due, since, asleep>>

CapTypeOK == due \in -Horizon .. Period /\ since \in 0 .. Horizon /\ asleep \in BOOLEAN

CapInit == due = 0 /\ since = Horizon /\ asleep = FALSE

Late == due <= 0

(* Defect: the deadline advances from the one that was missed. *)
Missed == due + Period

FromNow == Period

(* The frame is late. *)
ShowLate ==
    /\ ~asleep /\ Late
    /\ due' = FromNow /\ since' = 0 /\ UNCHANGED asleep

(* The frame is early. *)
Sleep == ~asleep /\ ~Late /\ asleep' = TRUE /\ UNCHANGED <<due, since>>

ShowOnTime ==
    /\ asleep /\ Late
    /\ due' = due + Period /\ since' = 0 /\ asleep' = FALSE

(* Time passes; not much of it over a deadline somebody sleeps for. *)
Clock ==
    /\ asleep => due > -Lateness
    /\ due' = IF due > -Horizon THEN due - 1 ELSE due
    /\ since' = IF since < Horizon THEN since + 1 ELSE since
    /\ UNCHANGED asleep

-----------------------------------------------------------------------------
(* A slow frame never causes a burst (614): two flips are a period apart,  *)
(* but for the lateness of a sleep, whatever the frames before took.  And  *)
(* the cap does not slow a game that is fast enough: nobody is kept longer *)
(* than a period after the flip before, 617-651.                           *)
FlipsAreSpaced ==
    [][/\ ShowLate \/ ShowOnTime => since >= Period - Lateness
       /\ ShowOnTime => since <= Period + Lateness]_cap
=============================================================================
