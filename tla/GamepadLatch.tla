----------------------------- MODULE GamepadLatch -----------------------------
(***************************************************************************)
(* How a button of the pad reaches the game: dt_gamepad_publish on the UI  *)
(* thread, dt_gamepad_frame_begin and the hooked ButtonDown / ButtonUp on  *)
(* Unity's thread, gamepad_dt.c.  The threads share three atomic words;    *)
(* each access is a step of its own.                                       *)
(***************************************************************************)
EXTENDS Naturals

CONSTANTS Inputs,     \* semantic inputs that are buttons
          FireInput,  \* DT_INPUT_FIRE
          MaxPresses  \* bound: presses of one button

ASSUME LatchAssumption == MaxPresses \in Nat

VARIABLES level,        \* g_level
          pendingDown,  \* g_pending_down
          pendingUp,    \* g_pending_up
          ui,           \* next access of dt_gamepad_publish: "level", "down", "up"
          pressed,      \* its local edges
          released,
          frame,        \* next access of dt_gamepad_frame_begin, or "game" outside it
          frameLevel,   \* g_frame_level
          previous,     \* g_previous_level
          taken,        \* its local new_down
          downLatch, upLatch,
          downRead, upRead,
          fireDelivered \* g_fire_down_delivered

VARIABLES firing,       \* the game's weapon trigger: last answer that mattered
          presses,      \* history: presses of each button
          credit,       \* history: down edges a button may still cause
          unseen,       \* history: presses the game has not read ...
          latched       \* ... and of these, the ones a frame has picked up

shared == <<level, pendingDown, pendingUp>>
publisher == <<ui, pressed, released>>
latches == <<downLatch, upLatch, downRead, upRead>>
reader == <<frame, frameLevel, previous, taken, latches, fireDelivered>>
history == <<presses, credit, unseen, latched>>
gamepad == <<shared, publisher, reader, firing, history>>

LatchTypeOK ==
    /\ level \subseteq Inputs /\ pendingDown \subseteq Inputs /\ pendingUp \subseteq Inputs
    /\ ui \in {"level", "down", "up"}
    /\ pressed \subseteq Inputs /\ released \subseteq Inputs /\ pressed \cap released = {}
    /\ frame \in {"game", "down", "up"}
    /\ frameLevel \subseteq Inputs /\ previous \subseteq Inputs /\ taken \subseteq Inputs
    /\ downLatch \subseteq Inputs /\ upLatch \subseteq Inputs
    /\ downRead \subseteq downLatch /\ upRead \subseteq upLatch
    /\ fireDelivered \in BOOLEAN /\ firing \in BOOLEAN
    /\ presses \in [Inputs -> 0 .. MaxPresses] /\ credit \in [Inputs -> Nat]
    /\ unseen \subseteq Inputs /\ latched \subseteq unseen

LatchInit ==
    /\ level = {} /\ pendingDown = {} /\ pendingUp = {}
    /\ ui = "level" /\ pressed = {} /\ released = {}
    /\ frame = "game" /\ frameLevel = {} /\ previous = {} /\ taken = {}
    /\ downLatch = {} /\ upLatch = {} /\ downRead = {} /\ upRead = {}
    /\ fireDelivered = FALSE /\ firing = FALSE
    /\ presses = [b \in Inputs |-> 0] /\ credit = [b \in Inputs |-> 0]
    /\ unseen = {} /\ latched = {}

-----------------------------------------------------------------------------
(* dt_gamepad_publish *)

(* A press that overlaps dt_gamepad_frame_begin may be picked up twice:    *)
(* once from the level and once from the pending word.                     *)
Credited(buttons) == credit' = [b \in Inputs |-> credit[b] + (IF b \in buttons THEN 1 ELSE 0)]

PublishLevel ==
    /\ ui = "level"
    /\ \E new \in SUBSET Inputs :
          /\ level' = new
          /\ pressed' = new \ level /\ released' = level \ new
    /\ \A b \in pressed' : presses[b] < MaxPresses
    /\ presses' = [b \in Inputs |-> presses[b] + (IF b \in pressed' THEN 1 ELSE 0)]
    /\ credit' = [b \in Inputs |-> credit[b] + (IF b \notin pressed' THEN 0
                                                ELSE IF frame = "down" THEN 2 ELSE 1)]
    /\ unseen' = unseen \cup pressed' /\ latched' = latched \ pressed'
    /\ ui' = "down"
    /\ UNCHANGED <<pendingDown, pendingUp, reader, firing>>

PublishDown ==
    /\ ui = "down"
    /\ pendingDown' = pendingDown \cup pressed
    /\ ui' = "up"
    /\ UNCHANGED <<level, pendingUp, pressed, released, reader, firing, history>>

PublishUp ==
    /\ ui = "up"
    /\ pendingUp' = pendingUp \cup released
    /\ ui' = "level" /\ pressed' = {} /\ released' = {}
    /\ UNCHANGED <<level, pendingDown, reader, firing, history>>

-----------------------------------------------------------------------------
(* dt_gamepad_frame_begin *)

FrameLevel ==
    /\ frame = "game"
    /\ frameLevel' = level
    /\ frame' = "down"
    /\ Credited(IF ui = "down" THEN pressed \ previous ELSE {})
    /\ UNCHANGED <<shared, publisher, previous, taken, latches, fireDelivered, firing,
                   presses, unseen, latched>>

NewEdges(pending, now, before) == pending \cup (now \ before)

(* Defect: the pending word is loaded, not exchanged. *)
StillPending(pending) == pending

Exchanged(pending) == {}

FrameDown ==
    /\ frame = "down"
    /\ taken' = NewEdges(pendingDown, frameLevel, previous)
    /\ pendingDown' = Exchanged(pendingDown)
    /\ frame' = "up"
    /\ UNCHANGED <<level, pendingUp, publisher, frameLevel, previous, latches, fireDelivered,
                   firing, history>>

(* Defect: an edge lives for one frame, read or not. *)
OneFrame(latch, read, new) == new

(* A latched edge stays until the frame after the game read it. *)
Latched(latch, read, new) == (latch \ read) \cup new

FrameUp ==
    /\ frame = "up"
    /\ downLatch' = Latched(downLatch, downRead, taken)
    /\ upLatch' = Latched(upLatch, upRead, NewEdges(pendingUp, previous, frameLevel))
    /\ downRead' = {} /\ upRead' = {}
    /\ pendingUp' = Exchanged(pendingUp)
    /\ previous' = frameLevel
    /\ taken' = {}
    /\ latched' = latched \cup (taken \cap unseen)
    /\ credit' = [b \in Inputs |-> credit[b] - (IF b \in taken THEN 1 ELSE 0)]
    /\ frame' = "game"
    /\ UNCHANGED <<level, pendingDown, publisher, frameLevel, fireDelivered, firing, presses,
                   unseen>>

-----------------------------------------------------------------------------
(* The game asks, in any order, for any button, or not at all in a frame.  *)

ReadsLatch(b, latch) == {b} \cap latch

(* hooked_button_down: Fire is also down as long as its level is. *)
ReadDown(b) ==
    /\ frame = "game"
    /\ b \in downLatch \/ (b = FireInput /\ FireInput \in frameLevel)
    /\ downRead' = downRead \cup ReadsLatch(b, downLatch)
    /\ fireDelivered' = (fireDelivered \/ b = FireInput)
    /\ firing' = (firing \/ b = FireInput)
    /\ unseen' = unseen \ (latched \cap downLatch \cap {b})
    /\ latched' = latched \ (downLatch \cap {b})
    /\ UNCHANGED <<shared, publisher, frame, frameLevel, previous, taken, downLatch, upLatch,
                   upRead, presses, credit>>

(* Defect: the release is only the latched edge. *)
NoStickyUp == FALSE

(* Fire is up as long as its level is, once a press was delivered. *)
StickyUp == fireDelivered /\ FireInput \notin frameLevel

(* hooked_button_up *)
ReadUp(b) ==
    /\ frame = "game"
    /\ b \in upLatch \/ (b = FireInput /\ StickyUp)
    /\ upRead' = upRead \cup ReadsLatch(b, upLatch)
    /\ firing' = (firing /\ b # FireInput)
    /\ UNCHANGED <<shared, publisher, frame, frameLevel, previous, taken, downLatch, upLatch,
                   downRead, fireDelivered, history>>

Publish == PublishLevel \/ PublishDown \/ PublishUp
FrameBegin == FrameLevel \/ FrameDown \/ FrameUp

LatchNext ==
    \/ Publish
    \/ FrameBegin
    \/ \E b \in Inputs : ReadDown(b) \/ ReadUp(b)

LatchSpec == LatchInit /\ [][LatchNext]_gamepad

(* Unity keeps rendering frames, publish returns, and the game does not    *)
(* ignore an input for ever.                                               *)
LatchFairSpec ==
    /\ LatchSpec
    /\ WF_gamepad(PublishDown \/ PublishUp)
    /\ WF_gamepad(FrameBegin)
    /\ \A b \in Inputs : SF_gamepad(ReadDown(b)) /\ SF_gamepad(ReadUp(b))

-----------------------------------------------------------------------------
(* Wherever the threads are, a press the game has not read is still on its *)
(* way: in the publisher's hands, pending, being picked up, visible in the *)
(* level, or latched.                                                      *)
NoPressLost ==
    \A b \in unseen :
        IF b \in latched
        THEN b \in downLatch
        ELSE \/ ui = "down" /\ b \in pressed
             \/ b \in pendingDown
             \/ frame = "up" /\ b \in taken

(* A press causes one down edge, and a second one only if it overlapped    *)
(* dt_gamepad_frame_begin.                                                 *)
EdgesAccounted == \A b \in Inputs : (frame = "up" /\ b \in taken) => credit[b] > 0

(* Every press is answered to the game by a ButtonDown.                    *)
EveryPressIsRead == \A b \in Inputs : b \in unseen ~> b \notin unseen

(* The comment in hooked_button_up: once the trigger rests, the weapon     *)
(* stops firing for good, in whatever order the game asks.                 *)
FireStops == (<>[](FireInput \notin level)) => <>[](~firing)
=============================================================================
