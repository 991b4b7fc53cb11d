----------------------------- MODULE PaceGovernor -----------------------------
(***************************************************************************)
(* The pace governor of gamepad_dt.c: speed_probe_tick, which runs before  *)
(* each rendered frame, and the replaced Time.get_timeScale.  Between two  *)
(* ticks the game sets its timeScale, pauses and resumes.  The engine has  *)
(* one timeScale; the governor halves it and the game must not notice.     *)
(*                                                                         *)
(* Scales are integers, One standing for 1.0; two scales the code's        *)
(* tolerance of 0.0005 does not tell apart are one integer.                *)
(***************************************************************************)
EXTENDS Naturals

CONSTANTS One,       \* timeScale 1.0
          Scales,    \* what the game sets it to while it runs
          Overrides  \* values of DT_TIME_SCALE

ASSUME PaceAssumption ==
    /\ One \in Scales
    /\ \A s \in Scales \cup Overrides : s \in Nat /\ s > 0 /\ s % 2 = 0

VARIABLES mode,     \* "governor", "override", "off": DT_PACE and DT_TIME_SCALE
          override, \* g_time_scale_override
          hook,     \* get_timeScale is replaced
          inflated, \* the engine's game time runs twice as fast as its scale says
          raw,      \* the engine's timeScale
          applied,  \* g_pace_applied; 1 is none (scales are even)
          engaged,  \* g_pace_engaged
          hits,     \* g_pace_hits
          paused,   \* the game is paused
          stored,   \* the TimeManager's m_StoredScale
          intent,   \* history: the scale the game runs at, or would if not paused
          mistaken  \* history: intent happened to be what the governor wrote last

config == <<mode, override, hook, inflated>>
wish == <<intent, mistaken>>
vars == <<config, raw, applied, engaged, hits, paused, stored, wish>>

NothingApplied == 1
Half(s) == s \div 2

TypeOK ==
    /\ mode \in {"governor", "override", "off"} /\ override \in Overrides
    /\ hook \in BOOLEAN /\ inflated \in BOOLEAN
    /\ raw \in Nat /\ applied \in Nat /\ stored \in Nat
    /\ engaged \in BOOLEAN /\ hits \in 0 .. 3 /\ paused \in BOOLEAN
    /\ intent \in Scales /\ mistaken \in BOOLEAN
    /\ mistaken => engaged /\ applied = intent
    /\ engaged => mode = "governor" /\ inflated /\ hits = 3

Init ==
    /\ mode \in {"governor", "override", "off"} /\ override \in Overrides
    /\ inflated \in BOOLEAN
    /\ hook \in BOOLEAN /\ (hook => mode = "governor")
    /\ raw = One /\ applied = NothingApplied /\ engaged = FALSE /\ hits = 0
    /\ paused = FALSE /\ stored = One /\ intent = One /\ mistaken = FALSE

-----------------------------------------------------------------------------
(* hooked_get_time_scale *)
Seen == IF hook /\ engaged /\ raw # 0 /\ raw = applied THEN 2 * raw ELSE raw

(* The game, as the comments of the governor describe it.  A scale that    *)
(* equals the governor's last write cannot be told from it.                *)
GameSets ==
    /\ ~paused
    /\ \E s \in Scales : raw' = s /\ intent' = s /\ mistaken' = (engaged /\ s = applied)
    /\ UNCHANGED <<config, applied, engaged, hits, paused, stored>>

(* TimeManager.PauseTime *)
Pause ==
    /\ ~paused
    /\ paused' = TRUE /\ stored' = Seen /\ raw' = 0
    /\ UNCHANGED <<config, applied, engaged, hits, wish>>

(* TimeManager.UnpauseTime *)
Unpause ==
    /\ paused
    /\ paused' = FALSE /\ raw' = stored
    /\ UNCHANGED <<config, applied, engaged, hits, stored, wish>>

-----------------------------------------------------------------------------
(* Defect: a frozen scale is compensated like any other. *)
NeverFrozen(scale) == FALSE

Frozen(scale) == scale = 0

(* DT_TIME_SCALE tames normal play only. *)
Tamed(scale) == IF mode = "override" /\ scale >= One THEN override ELSE scale

(* A fresh write of the game is compensated, our own is left. *)
Fresh(scale) == engaged /\ ~Frozen(scale) /\ scale # applied

(* speed_probe_tick less than a second after the last sample *)
Tick ==
    /\ ~Fresh(Tamed(raw))
    /\ raw' = Tamed(raw)
    /\ UNCHANGED <<config, applied, engaged, hits, paused, stored, wish>>

TickCompensates ==
    /\ Fresh(raw)
    /\ raw' = Half(raw) /\ applied' = Half(raw)
    /\ UNCHANGED <<config, engaged, hits, paused, stored, wish>>

Enough(h) == h = 3

Normal(scale) == 20 * scale > 19 * One /\ 20 * scale < 21 * One

(* A sample: game time against wall time over the last second.  A healthy  *)
(* engine never shows twice the pace; an inflated one shows it unless the  *)
(* game slowed down or paused on the way.                                  *)
Sample(double) ==
    /\ mode = "governor" /\ ~engaged
    /\ double => inflated
    /\ hits' = IF double /\ Normal(raw) THEN hits + 1 ELSE 0
    /\ engaged' = Enough(hits')
    /\ IF engaged' THEN raw' = Half(raw) /\ applied' = Half(raw) ELSE UNCHANGED <<raw, applied>>
    /\ UNCHANGED <<config, paused, stored, wish>>

AnyTick == Tick \/ TickCompensates \/ \E double \in BOOLEAN : Sample(double)

Next == GameSets \/ Pause \/ Unpause \/ AnyTick

Spec == Init /\ [][Next]_vars

-----------------------------------------------------------------------------
(* What the engine's scale ought to be when the game wants to run at s. *)
Governed(s) == CASE engaged' -> Half(s)
                 [] mode = "override" /\ s >= One -> override
                 [] OTHER -> s

(* Every frame is rendered at the pace the game asked for, or in a pause   *)
(* at none, whatever the game set, paused and resumed before - but for a   *)
(* scale mistaken for the governor's own, which runs uncompensated until   *)
(* the game sets another, through any pause: the comments at 280-285 and   *)
(* 424-432.                                                                *)
PaceIsIntended ==
    [][AnyTick => raw' = IF paused THEN 0 ELSE IF mistaken THEN intent ELSE Governed(intent)]_vars

(* With get_timeScale replaced the game reads back what it set, on either  *)
(* side of a tick - twice that, if what it set was mistaken: 304-317.      *)
GameSeesIntent == hook /\ ~paused => Seen = IF mistaken THEN 2 * intent ELSE intent
=============================================================================
