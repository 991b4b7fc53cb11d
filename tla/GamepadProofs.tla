----------------------------- MODULE GamepadProofs -----------------------------
(***************************************************************************)
(* Proofs about the hooks of gamepad_dt.c.                                 *)
(*                                                                         *)
(* The button latch: what its TLC run finds for one button and three       *)
(* presses holds for any buttons and any number of presses.                *)
(*                                                                         *)
(* The hooks that deal in the game's time: the pace governor is right for  *)
(* any scales none of which is half of another, any overrides and every    *)
(* mode: a scale that is half of the one the governor has just compensated *)
(* is taken for its own.  The busy guard is right for any lengths and any  *)
(* pace of the clock up to twice the wall's, and the two hooks together    *)
(* keep what each of them keeps alone.                                     *)
(***************************************************************************)
EXTENDS GamepadLatch, GameTime, TLAPS

USE LatchAssumption DEF LatchAssumption

(* The type invariant by kind of value.                                    *)
Sets ==
    /\ level \subseteq Inputs /\ pendingDown \subseteq Inputs /\ pendingUp \subseteq Inputs
    /\ pressed \subseteq Inputs /\ released \subseteq Inputs /\ pressed \cap released = {}
    /\ frameLevel \subseteq Inputs /\ previous \subseteq Inputs /\ taken \subseteq Inputs
    /\ downLatch \subseteq Inputs /\ upLatch \subseteq Inputs
    /\ downRead \subseteq downLatch /\ upRead \subseteq upLatch
    /\ unseen \subseteq Inputs /\ latched \subseteq unseen
Places == ui \in {"level", "down", "up"} /\ frame \in {"game", "down", "up"}
LatchFlags == fireDelivered \in BOOLEAN /\ firing \in BOOLEAN
Counts == presses \in [Inputs -> 0 .. MaxPresses] /\ credit \in [Inputs -> Nat]

(* A press that a frame has latched and the game has not read is still     *)
(* there in the next frame.                                                *)
LatchedIsUnread == latched \cap downRead = {}

(* The edge in the publisher's hands is that of the level it has just      *)
(* stored.                                                                 *)
InHand(b) == ui = "down" /\ b \in pressed
InHandIsDown == ui = "down" => pressed \subseteq level

N(p) == IF p THEN 1 ELSE 0

(* How many down edges of b the words may still cause without a further    *)
(* press: outside dt_gamepad_frame_begin, with the level just read, and    *)
(* with the new edges taken.                                               *)
Demand(b) ==
    IF frame = "down"
    THEN IF InHand(b)
         THEN 1 + N(b \in pendingDown \/ b \in frameLevel \ previous \/ b \in level \ frameLevel)
         ELSE N(b \in pendingDown \/ b \in frameLevel \ previous) + N(b \in level \ frameLevel)
    ELSE LET seen == IF frame = "up" THEN frameLevel ELSE previous
         IN  N(frame = "up" /\ b \in taken)
               + (IF InHand(b) THEN 1 + N(b \in pendingDown)
                  ELSE N(b \in pendingDown \/ b \in level \ seen))

CreditCovers == \A b \in Inputs : credit[b] >= Demand(b)

LatchInv == /\ Sets /\ Places /\ LatchFlags /\ Counts
        /\ LatchedIsUnread /\ InHandIsDown /\ NoPressLost /\ CreditCovers

-----------------------------------------------------------------------------
LEMMA LatchInitInv == LatchInit => LatchInv
<1> SUFFICES ASSUME LatchInit PROVE LatchInv
  OBVIOUS
<1>1. LatchFlags
  BY Zenon DEF LatchInit, LatchFlags
<1>2. Sets /\ Places /\ Counts /\ LatchedIsUnread /\ InHandIsDown /\ NoPressLost
  BY DEF LatchInit, Sets, Places, Counts, LatchedIsUnread, InHandIsDown, NoPressLost
<1>3. CreditCovers
  <2> SUFFICES ASSUME NEW b \in Inputs PROVE credit[b] >= Demand(b)
    BY DEF CreditCovers
  <2>1. ~InHand(b) /\ frame = "game" /\ ~(b \in pendingDown \/ b \in level \ previous)
    BY DEF LatchInit, InHand
  <2>2. Demand(b) = 0
    BY <2>1, SMT DEF Demand, N
  <2> QED
    BY <2>2 DEF LatchInit
<1> QED
  BY <1>1, <1>2, <1>3 DEF LatchInv

(* The sets, places and flags, and with them the fate of every press.      *)
PressInv == Sets /\ Places /\ LatchFlags /\ LatchedIsUnread /\ InHandIsDown /\ NoPressLost

LEMMA StepPress == LatchInv /\ [LatchNext]_gamepad => PressInv'
<1> SUFFICES ASSUME LatchInv, [LatchNext]_gamepad PROVE PressInv'
  OBVIOUS
<1> USE DEF LatchInv, PressInv, Sets, Places, LatchedIsUnread, InHandIsDown, NoPressLost,
        shared, publisher, latches, reader, history
<1>1. CASE PublishLevel
  BY <1>1 DEF PublishLevel, LatchFlags
<1>2. CASE PublishDown
  BY <1>2 DEF PublishDown, LatchFlags
<1>3. CASE PublishUp
  BY <1>3 DEF PublishUp, LatchFlags
<1>4. CASE FrameLevel
  BY <1>4 DEF FrameLevel, LatchFlags
<1>5. CASE FrameDown
  BY <1>5 DEF FrameDown, NewEdges, Exchanged, LatchFlags
<1>6. CASE FrameUp
  BY <1>6 DEF FrameUp, NewEdges, Exchanged, Latched, LatchFlags
<1>7. ASSUME NEW b \in Inputs, ReadDown(b) PROVE PressInv'
  <2>1. LatchFlags'
    BY <1>7, Zenon DEF ReadDown, LatchFlags
  <2> QED
    BY <1>7, <2>1 DEF ReadDown, ReadsLatch
<1>8. ASSUME NEW b \in Inputs, ReadUp(b) PROVE PressInv'
  <2>1. LatchFlags'
    BY <1>8, Zenon DEF ReadUp, LatchFlags
  <2> QED
    BY <1>8, <2>1 DEF ReadUp, ReadsLatch
<1>9. CASE UNCHANGED gamepad
  BY <1>9 DEF gamepad, LatchFlags
<1> QED
  BY <1>1, <1>2, <1>3, <1>4, <1>5, <1>6, <1>7, <1>8, <1>9 DEF LatchNext, Publish, FrameBegin

-----------------------------------------------------------------------------
(* The counters, button by button.                                         *)
LEMMA StepCredit == LatchInv /\ [LatchNext]_gamepad => Counts' /\ CreditCovers'
<1> SUFFICES ASSUME LatchInv, [LatchNext]_gamepad PROVE Counts' /\ CreditCovers'
  OBVIOUS
<1> USE DEF LatchInv, Sets, Places, InHandIsDown, Counts, CreditCovers, Demand, InHand, N,
        shared, publisher, latches, reader, history
<1>1. CASE PublishLevel
  BY <1>1 DEF PublishLevel
<1>2. CASE PublishDown
  BY <1>2 DEF PublishDown
<1>3. CASE PublishUp
  BY <1>3 DEF PublishUp
<1>4. CASE FrameLevel
  BY <1>4 DEF FrameLevel, Credited
<1>5. CASE FrameDown
  BY <1>5 DEF FrameDown, NewEdges, Exchanged
<1>6. CASE FrameUp
  BY <1>6 DEF FrameUp
<1>7. ASSUME NEW b \in Inputs, ReadDown(b) \/ ReadUp(b) PROVE Counts' /\ CreditCovers'
  BY <1>7 DEF ReadDown, ReadUp
<1>8. CASE UNCHANGED gamepad
  BY <1>8 DEF gamepad
<1> QED
  BY <1>1, <1>2, <1>3, <1>4, <1>5, <1>6, <1>7, <1>8 DEF LatchNext, Publish, FrameBegin

(* Every reachable state satisfies the invariant.                          *)
THEOREM LatchInvariance == LatchSpec => []LatchInv
<1>1. LatchInv /\ [LatchNext]_gamepad => LatchInv'
  BY StepPress, StepCredit DEF LatchInv, PressInv
<1> QED
  BY LatchInitInv, <1>1, PTL DEF LatchSpec

(* Type correctness of the latch.                                          *)
THEOREM LatchTypeCorrect == LatchSpec => []LatchTypeOK
<1>1. LatchInv => LatchTypeOK
  BY DEF LatchInv, Sets, Places, LatchFlags, Counts, LatchTypeOK
<1> QED
  BY LatchInvariance, <1>1, PTL

(* A press the game has not read is still on its way, wherever the threads *)
(* of dt_gamepad_publish and dt_gamepad_frame_begin are.                   *)
THEOREM PressKept == LatchSpec => []NoPressLost
BY LatchInvariance, PTL DEF LatchInv

(* Every down edge is the edge of a press, or the second of one that       *)
(* overlapped dt_gamepad_frame_begin.                                      *)
THEOREM EdgesPaidFor == LatchSpec => []EdgesAccounted
<1>1. LatchInv => EdgesAccounted
  BY DEF LatchInv, Sets, Counts, CreditCovers, Demand, InHand, N, EdgesAccounted
<1> QED
  BY LatchInvariance, <1>1, PTL
-----------------------------------------------------------------------------
HIDE LatchAssumption DEF LatchAssumption

USE PaceAssumption DEF PaceAssumption, NothingApplied

-----------------------------------------------------------------------------
(* Halving a scale loses nothing. *)
LEMMA HalfOfScale ==
    ASSUME NEW s \in Scales
    PROVE  Half(s) \in Nat /\ 2 * Half(s) = s /\ Half(s) # 0 /\ Half(s) # s /\ s \in Nat /\ s # 0
BY SMT DEF Half

Modes == {"governor", "override", "off"}

PaceFlags ==
    /\ mode \in Modes /\ hook \in BOOLEAN /\ engaged \in BOOLEAN /\ paused \in BOOLEAN
    /\ mistaken \in BOOLEAN
    /\ intent \in Scales /\ override \in Overrides

(* Only the governor compensates and answers for get_timeScale.            *)
OnlyGovernor == hook \/ engaged => mode = "governor"

(* The game's scale is taken for the governor's exactly when it is         *)
(* mistaken.                                                               *)
Told == engaged => (mistaken <=> applied = intent)

(* A scale the game runs at: its own, that scale compensated and           *)
(* remembered as such, or normal play tamed.  A mistaken one is its own,   *)
(* or twice that after a pause in which the replaced getter doubled it.    *)
Meant(s) ==
    \/ s = intent
    \/ engaged /\ ~mistaken /\ s = Half(intent) /\ applied = s
    \/ mode = "override" /\ intent >= One /\ s = override
    \/ mistaken /\ s = 2 * intent

Kept == paused => raw = 0 /\ Meant(stored)
Runs == ~paused => Meant(raw)

PaceInv == /\ PaceFlags /\ OnlyGovernor /\ Told /\ (mistaken => engaged) /\ Kept /\ Runs

LEMMA PaceInitInv == Init => PaceInv
BY DEF Init, PaceInv, PaceFlags, Modes, OnlyGovernor, Told, Kept, Runs, Meant

(* What the game reads back is what it wrote, or twice that.               *)
LEMMA SeenMeant ==
    ASSUME PaceInv, ~paused
    PROVE  Meant(Seen) /\ (hook => Seen = IF mistaken THEN 2 * intent ELSE intent)
<1> USE DEF PaceInv, PaceFlags, OnlyGovernor
<1>1. 2 * Half(intent) = intent /\ Half(intent) # 0 /\ intent \in Nat /\ intent # 0
  BY HalfOfScale
<1>2. CASE hook /\ engaged /\ mistaken
  <2>1. applied = intent /\ (raw = intent \/ raw = 2 * intent)
    BY <1>2 DEF Runs, Meant, Told
  <2>2. Seen = 2 * intent
    BY <1>1, <1>2, <2>1 DEF Seen
  <2> QED
    BY <1>2, <2>2 DEF Meant
<1>3. CASE hook /\ engaged /\ ~mistaken
  <2>1. applied # intent /\ (raw = intent \/ (raw = Half(intent) /\ applied = raw))
    BY <1>3 DEF Runs, Meant, Told
  <2>2. Seen = intent
    BY <1>1, <1>3, <2>1 DEF Seen
  <2> QED
    BY <1>3, <2>2 DEF Meant
<1>4. CASE ~hook
  BY <1>4 DEF Seen, Runs
<1>5. CASE hook /\ ~engaged
  <2>1. Seen = raw
    BY <1>5 DEF Seen
  <2> QED
    BY <1>5, <2>1 DEF Runs, Meant
<1> QED
  BY <1>2, <1>3, <1>4, <1>5

(* What the frames are rendered at when the game wants to run.             *)
Due == IF mistaken THEN intent
       ELSE CASE engaged -> Half(intent)
              [] mode = "override" /\ intent >= One -> override
              [] OTHER -> intent

(* An engaged governor halves a scale it does not know.                    *)
LEMMA CompensateInv ==
    ASSUME PaceInv, TickCompensates
    PROVE  PaceInv' /\ ~paused /\ raw' = Due
<1> USE DEF TickCompensates, config, wish
<1>1. ~paused /\ raw # 0 /\ raw # applied /\ engaged /\ mode = "governor" /\ engaged'
  BY DEF PaceInv, Fresh, Frozen, Kept, OnlyGovernor
<1>2. PaceFlags' /\ OnlyGovernor' /\ (mistaken => engaged)' /\ ~paused'
  BY <1>1, Zenon DEF PaceInv, PaceFlags, OnlyGovernor
<1>3. intent \in Scales /\ mistaken \in BOOLEAN
  BY DEF PaceInv, PaceFlags
<1>4. CASE mistaken
  <2>1. raw = 2 * intent
    BY <1>1, <1>4 DEF PaceInv, Runs, Meant, Told
  <2>2. raw' = intent /\ applied' = intent
    BY <1>3, <2>1 DEF Half
  <2> QED
    BY <1>1, <1>2, <1>4, <2>2, Zenon DEF PaceInv, Told, Kept, Runs, Meant, Due
<1>5. CASE ~mistaken
  <2>1. raw = intent
    BY <1>1, <1>5 DEF PaceInv, Runs, Meant
  <2>2. raw' = Half(intent) /\ applied' = Half(intent)
    BY <2>1
  <2>3. Half(intent) # intent
    BY <1>3, HalfOfScale
  <2> QED
    BY <1>1, <1>2, <1>5, <2>2, <2>3, Zenon DEF PaceInv, Told, Kept, Runs, Meant, Due
<1> QED
  BY <1>3, <1>4, <1>5

(* A sample may engage the governor, at normal play only.                  *)
LEMMA SampleInv ==
    ASSUME PaceInv, NEW double \in BOOLEAN, Sample(double)
    PROVE  /\ PaceInv' /\ ~mistaken
           /\ paused => raw' = 0
           /\ ~paused => raw' = IF engaged' THEN Half(intent) ELSE intent
<1> USE DEF Sample, config, wish
<1>1. mode = "governor" /\ ~engaged /\ ~mistaken /\ mode' = "governor" /\ ~mistaken'
  BY DEF PaceInv
<1>2. PaceFlags' /\ OnlyGovernor' /\ (mistaken => engaged)'
  BY <1>1, Zenon DEF PaceInv, PaceFlags, OnlyGovernor, Enough
<1>3. CASE engaged'
  <2>1. Normal(raw)
    <3>1. hits' = 3
      BY <1>3, Zenon DEF Enough
    <3>2. ~(double /\ Normal(raw)) => hits' = 0
      BY Zenon
    <3> QED
      BY <3>1, <3>2, SMT
  <2>2. ~paused
    <3>1. ~Normal(0)
      BY DEF Normal
    <3> QED
      BY <2>1, <3>1 DEF PaceInv, Kept
  <2>3. raw = intent
    BY <1>1, <2>2 DEF PaceInv, Runs, Meant
  <2>4. raw' = Half(intent) /\ applied' = Half(intent)
    BY <1>3, <2>3
  <2>5. Half(intent) # intent
    BY HalfOfScale DEF PaceInv, PaceFlags
  <2> QED
    BY <1>1, <1>2, <1>3, <2>2, <2>4, <2>5, Zenon DEF PaceInv, Told, Kept, Runs, Meant
<1>4. CASE ~engaged'
  <2>1. UNCHANGED <<raw, applied>>
    BY <1>4
  <2>2. Told' /\ Kept' /\ Runs'
    BY <1>1, <1>4, <2>1 DEF PaceInv, Told, Kept, Runs, Meant
  <2> QED
    BY <1>1, <1>2, <1>4, <2>1, <2>2 DEF PaceInv, Kept, Runs, Meant
<1> QED
  BY <1>1, <1>3, <1>4

(* Between samples a tick leaves everything but untamed normal play alone. *)
LEMMA TickInv ==
    ASSUME PaceInv, Tick
    PROVE  PaceInv' /\ (paused => raw' = 0) /\ (~paused => raw' = Due)
<1> USE DEF Tick, config, wish
<1>1. PaceFlags' /\ OnlyGovernor' /\ Told' /\ (mistaken => engaged)'
  BY Zenon DEF PaceInv, PaceFlags, OnlyGovernor, Told
<1>2. CASE paused
  <2>1. raw' = 0
    BY <1>2 DEF PaceInv, Kept, Tamed
  <2> QED
    BY <1>1, <1>2, <2>1 DEF PaceInv, Kept, Runs, Meant
<1>3. CASE ~paused /\ engaged
  <2>1. raw' = raw /\ engaged'
    BY <1>3 DEF PaceInv, OnlyGovernor, Tamed
  <2>2. raw # 0
    BY <1>3, HalfOfScale DEF PaceInv, PaceFlags, Runs, Meant, OnlyGovernor
  <2>3. raw = applied
    BY <1>3, <2>1, <2>2 DEF Fresh, Frozen
  <2>4. raw = IF mistaken THEN intent ELSE Half(intent)
    BY <1>3, <2>3 DEF PaceInv, Runs, Meant, Told, OnlyGovernor
  <2>5. Meant(raw)'
    BY <1>3, <2>1, <2>3, <2>4, Zenon DEF Meant
  <2>6. raw' = Due
    BY <1>3, <2>1, <2>4 DEF PaceInv, OnlyGovernor, Due
  <2> QED
    BY <1>1, <1>3, <2>5, <2>6, Zenon DEF PaceInv, Kept, Runs
<1>4. CASE ~paused /\ ~engaged /\ mode = "override"
  <2>1. raw = intent \/ (intent >= One /\ raw = override)
    BY <1>4 DEF PaceInv, Runs, Meant
  <2>2. raw' = IF intent >= One THEN override ELSE intent
    BY <1>4, <2>1 DEF PaceInv, PaceFlags, Tamed
  <2>3. raw' = Due
    BY <1>4, <2>2 DEF PaceInv, Due
  <2>4. Meant(raw)'
    BY <1>4, <2>2, Zenon DEF Meant
  <2> QED
    BY <1>1, <1>4, <2>3, <2>4, Zenon DEF PaceInv, Kept, Runs
<1>5. CASE ~paused /\ ~engaged /\ mode # "override"
  <2>1. raw' = intent
    BY <1>5 DEF PaceInv, Runs, Meant, Tamed
  <2>2. raw' = Due
    BY <1>5, <2>1 DEF PaceInv, Due
  <2> QED
    BY <1>1, <1>5, <2>1, <2>2 DEF PaceInv, Kept, Runs, Meant
<1> QED
  BY <1>2, <1>3, <1>4, <1>5 DEF PaceInv, PaceFlags

(* The game's own steps.                                                   *)
LEMMA GameInv == ASSUME PaceInv, GameSets \/ Pause \/ Unpause PROVE PaceInv'
<1> USE DEF config, wish
<1>1. CASE GameSets
  <2>1. PICK s \in Scales : raw' = s /\ intent' = s /\ mistaken' = (engaged /\ s = applied)
    BY <1>1 DEF GameSets
  <2>2. PaceFlags' /\ OnlyGovernor' /\ (mistaken => engaged)' /\ ~paused'
    BY <1>1, <2>1, Zenon DEF GameSets, PaceInv, PaceFlags, OnlyGovernor
  <2>3. Told'
    BY <1>1, <2>1, Zenon DEF GameSets, Told
  <2> QED
    BY <2>1, <2>2, <2>3, Zenon DEF PaceInv, Kept, Runs, Meant
<1>2. CASE Pause
  <2>1. PaceFlags' /\ OnlyGovernor' /\ Told' /\ (mistaken => engaged)'
    BY <1>2, Zenon DEF Pause, PaceInv, PaceFlags, OnlyGovernor, Told
  <2>2. Meant(Seen)
    BY <1>2, SeenMeant DEF Pause
  <2>3. paused' /\ raw' = 0 /\ Meant(stored)'
    BY <1>2, <2>2, Zenon DEF Pause, Meant
  <2> QED
    BY <2>1, <2>3, Zenon DEF PaceInv, Kept, Runs
<1>3. CASE Unpause
  <2>1. PaceFlags' /\ OnlyGovernor' /\ Told' /\ (mistaken => engaged)'
    BY <1>3, Zenon DEF Unpause, PaceInv, PaceFlags, OnlyGovernor, Told
  <2>2. ~paused' /\ Meant(raw)'
    BY <1>3, Zenon DEF Unpause, PaceInv, Kept, Meant
  <2> QED
    BY <2>1, <2>2, Zenon DEF PaceInv, Kept, Runs
<1> QED
  BY <1>1, <1>2, <1>3

LEMMA PaceStepInv == ASSUME PaceInv, [Next]_vars PROVE PaceInv'
<1>1. CASE GameSets \/ Pause \/ Unpause
  BY <1>1, GameInv
<1>2. CASE AnyTick
  BY <1>2, TickInv, CompensateInv, SampleInv DEF AnyTick
<1>3. CASE UNCHANGED vars
  BY <1>3, Zenon DEF vars, config, wish, PaceInv, PaceFlags, OnlyGovernor, Told, Kept, Runs, Meant
<1> QED
  BY <1>1, <1>2, <1>3 DEF Next

-----------------------------------------------------------------------------
(* Every reachable state keeps what the game meant: in the engine's scale  *)
(* while it runs, in the stored scale during a pause.                      *)
THEOREM PaceInvariance == Spec => []PaceInv
<1>1. PaceInv /\ [Next]_vars => PaceInv'
  BY PaceStepInv
<1> QED
  BY PaceInitInv, <1>1, PTL DEF Spec

(* With get_timeScale replaced the game reads back what it set, or twice   *)
(* that while its scale is mistaken for the governor's own.                *)
THEOREM IntentSeen == Spec => []GameSeesIntent
<1>1. PaceInv => GameSeesIntent
  BY SeenMeant DEF GameSeesIntent
<1> QED
  BY PaceInvariance, <1>1, PTL

(* Every frame is rendered at the pace the game asked for, whatever it     *)
(* set, paused and resumed before, and uncompensated exactly while what it *)
(* set is mistaken for the governor's own.                                 *)
THEOREM PaceKept == Spec => PaceIsIntended
<1> DEFINE Now == IF paused THEN 0 ELSE IF mistaken THEN intent ELSE Governed(intent)
<1>1. ASSUME PaceInv, [Next]_vars
      PROVE  [AnyTick => raw' = Now]_vars
  <2> SUFFICES ASSUME AnyTick PROVE raw' = Now
    OBVIOUS
  <2>1. ASSUME engaged' = engaged PROVE Now = IF paused THEN 0 ELSE Due
    BY <2>1 DEF Governed, Due
  <2>2. CASE Tick
    <3>1. engaged' = engaged
      BY <2>2 DEF Tick
    <3>2. raw' = IF paused THEN 0 ELSE Due
      BY <1>1, <2>2, TickInv DEF PaceInv, PaceFlags
    <3> QED
      BY <2>1, <3>1, <3>2
  <2>3. CASE TickCompensates
    <3>1. engaged' = engaged
      BY <2>3 DEF TickCompensates
    <3>2. ~paused /\ raw' = Due
      BY <1>1, <2>3, CompensateInv
    <3> QED
      BY <2>1, <3>1, <3>2
  <2>4. ASSUME NEW double \in BOOLEAN, Sample(double)
        PROVE  raw' = Now
    <3>1. mode # "override"
      BY <2>4 DEF Sample
    <3>2. ~mistaken /\ (paused => raw' = 0)
          /\ (~paused => raw' = IF engaged' THEN Half(intent) ELSE intent)
      BY <1>1, <2>4, SampleInv
    <3>3. Governed(intent) = IF engaged' THEN Half(intent) ELSE intent
      BY <3>1 DEF Governed
    <3> QED
      BY <3>2, <3>3, Zenon
  <2> QED
    BY <2>2, <2>3, <2>4 DEF AnyTick
<1> QED
  BY PaceInvariance, <1>1, PTL DEF Spec, PaceIsIntended

-----------------------------------------------------------------------------
(* A reload's second write comes within the window of the first, while the *)
(* first deadline is still above the threshold.                            *)
Owed ==
    second # 0 => /\ ago < Window
                  /\ left + 2 * ago >= Short
                  /\ left <= (Short + Long) - second

BusyInv == BusyTypeOK /\ ShorterRules /\ Owed

LEMMA BusyStart == BusyInit => BusyInv
BY BusyAssumption DEF BusyAssumption, BusyInit, BusyInv, BusyTypeOK, ShorterRules, Owed

LEMMA WeaponInv == ASSUME BusyInv, Weapon PROVE BusyInv'
<1> USE BusyAssumption DEF BusyAssumption, BusyInv, BusyTypeOK, ShorterRules, Owed
<1>1. CASE Fire
  BY <1>1 DEF Fire, SetBusy, Refused
<1>2. CASE Reload
  <2>1. PICK t \in {Short, Long} : SetBusy(t) /\ ruling' = t /\ second' = (Short + Long) - t
    BY <1>2 DEF Reload
  <2>2. left <= Threshold /\ second = 0
    BY <1>2 DEF Reload
  <2>3. left' = t /\ ago' = 0
    BY <2>1, <2>2 DEF SetBusy, Refused
  <2> QED
    BY <2>1, <2>3
<1>3. CASE ReloadAgain
  <2>1. ago' = 0 /\ second' = 0 /\ ruling' = IF second < ruling THEN second ELSE ruling
    BY <1>3 DEF ReloadAgain, SetBusy
  <2>2. left > Threshold
    BY <1>3 DEF ReloadAgain
  <2>3. left' = IF second > left THEN left ELSE second
    BY <1>3, <2>2 DEF ReloadAgain, SetBusy, Refused
  <2> QED
    BY <2>1, <2>3
<1> QED
  BY <1>1, <1>2, <1>3 DEF Weapon

LEMMA WallTimeInv == ASSUME BusyInv, WallTime PROVE BusyInv'
<1>1. PICK passed \in 0 .. 2 : Elapse(passed)
  BY DEF WallTime, Advances
<1> QED
  BY <1>1, BusyAssumption
     DEF BusyAssumption, BusyInv, BusyTypeOK, ShorterRules, Owed, Elapse, Later

(* The shorter of a reload's two deadlines rules whatever the order of the *)
(* writes and the pace of the game's clock, and no shot's own is refused.  *)
THEOREM ShorterAlwaysRules == GameTimeSpec => []ShorterRules
<1>1. GameTimeInit => BusyInv
  BY BusyStart DEF GameTimeInit
<1>2. BusyInv /\ [GameTimeNext]_gameTime => BusyInv'
  <2> SUFFICES ASSUME BusyInv, [GameTimeNext]_gameTime PROVE BusyInv'
    OBVIOUS
  <2>1. CASE UNCHANGED busy
    BY <2>1 DEF busy, BusyInv, BusyTypeOK, ShorterRules, Owed
  <2> QED
    BY <2>1, WeaponInv, WallTimeInv DEF GameTimeNext, gameTime
<1>3. BusyInv => ShorterRules
  BY DEF BusyInv
<1> QED
  BY <1>1, <1>2, <1>3, PTL DEF GameTimeSpec

(* With the weapons' clock running beside it the governor is still the     *)
(* governor, so that every frame has the pace the game asked for.          *)
THEOREM TogetherPaceKept == GameTimeSpec => PaceIsIntended
<1>1. GameTimeInit => Init
  BY DEF GameTimeInit
<1>2. [GameTimeNext]_gameTime => [Next]_vars
  BY DEF GameTimeNext, gameTime
<1>3. GameTimeSpec => Spec
  BY <1>1, <1>2, PTL DEF GameTimeSpec, Spec
<1> QED
  BY <1>3, PaceKept, PTL
=============================================================================
