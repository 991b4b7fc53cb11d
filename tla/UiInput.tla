-------------------------------- MODULE UiInput --------------------------------
(***************************************************************************)
(* The input half of run_ui_loop, main.c: each turn of the UI thread polls *)
(* SDL, asks whether the game is reading its sticks, and turns presses     *)
(* into Android touches and Back keys.  Unity's thread meanwhile comes up, *)
(* plays and stops when it likes.                                          *)
(***************************************************************************)
EXTENDS Naturals

CONSTANTS Clickers,   \* the buttons that click: R3 and A
          Back,       \* the button that is Android's Back: B
          LastMove    \* stage of the last ACTION_MOVE of a click: 9

ASSUME UiAssumption == Back \notin Clickers /\ LastMove \in Nat \ {0}

Buttons == Clickers \cup {Back}

VARIABLES turn,       \* where the loop is: "poll", "context", "click", "back", "touch", "out"
          held,       \* level of each button, as merged_button reads it this turn
          was,        \* previous_*_down
          pressed,    \* *_press_pending
          released,   \* b_release_pending
          menu,       \* cursor_active
          stage,      \* cursor_touch_stage
          due,        \* now >= next_cursor_touch
          ready,      \* g_unity_ready
          quit,       \* g_quit
          playing     \* dt_gamepad_gameplay_active()

VARIABLES finger,     \* what Unity has been told: is a finger down,
          moves,      \* how often it has moved,
          backKey,    \* is Back down
          strayed     \* history: Back went down and its release may have been dropped

pad == <<held, was, pressed, released>>
touch == <<stage, due>>
lifecycle == <<ready, quit, playing>>
engine == <<finger, moves, backKey, strayed>>
vars == <<turn, pad, menu, touch, lifecycle, engine>>

TypeOK ==
    /\ turn \in {"poll", "context", "click", "back", "touch", "out"}
    /\ held \subseteq Buttons /\ was \subseteq Buttons /\ pressed \subseteq Buttons
    /\ released \subseteq {Back}
    /\ menu \in BOOLEAN /\ stage \in 0 .. LastMove + 1 /\ due \in BOOLEAN
    /\ ready \in BOOLEAN /\ quit \in BOOLEAN /\ playing \in BOOLEAN
    /\ finger \in {"up", "down"} /\ moves \in 0 .. LastMove
    /\ backKey \in {"up", "down"} /\ strayed \in BOOLEAN

Init ==
    /\ turn = "poll" /\ held = {} /\ was = {} /\ pressed = {} /\ released = {}
    /\ menu = TRUE /\ stage = 0 /\ due = FALSE
    /\ ready = FALSE /\ quit = FALSE /\ playing = FALSE
    /\ finger = "up" /\ moves = 0 /\ backKey = "up" /\ strayed = FALSE

-----------------------------------------------------------------------------
(* inject_touch and inject_android_key: Unity is told only once it is ready *)

Touch(action) ==
    IF ~ready THEN UNCHANGED <<finger, moves>>
    ELSE CASE action = "DOWN" -> finger' = "down" /\ moves' = 0
           [] action = "MOVE" -> /\ finger' = finger
                                 /\ moves' = IF finger = "down" THEN moves + 1 ELSE moves
           [] action \in {"UP", "CANCEL"} -> finger' = "up" /\ moves' = 0

(* Both key events of a turn, in the order of the source: DOWN, then UP. *)
Key(down, up) ==
    /\ backKey' = IF ready /\ up THEN "up" ELSE IF ready /\ down THEN "down" ELSE backKey
    /\ strayed' = IF ready /\ (up \/ down) THEN FALSE ELSE strayed

-----------------------------------------------------------------------------
(* One turn of the loop *)

(* SDL's queue is drained and its levels read.  A press may come without   *)
(* its event (some builds drop it); a tap too short to be seen as a level  *)
(* comes with both of its events.                                          *)
Poll ==
    /\ turn = "poll" /\ ~quit
    /\ \E levels, events \in SUBSET Buttons, ups \in SUBSET {Back} :
          /\ events \cap ({Back} \ levels) \subseteq ups
          /\ held' = levels /\ pressed' = events /\ released' = ups
    /\ turn' = "context"
    /\ UNCHANGED <<was, menu, touch, lifecycle, engine>>

(* Defect: a touch in progress is forgotten, not cancelled. *)
JustForgets(entering) == UNCHANGED <<finger, moves>>

LeaveMenu(entering) == IF entering /\ stage # 0 THEN Touch("CANCEL") ELSE UNCHANGED <<finger, moves>>

Context ==
    /\ turn = "context"
    /\ LET entering == menu /\ playing
       IN  /\ menu' = ~playing
           /\ LeaveMenu(entering)
           /\ stage' = IF entering THEN 0 ELSE stage
    /\ strayed' = (strayed \/ (playing /\ backKey = "down"))
    /\ turn' = "click"
    /\ UNCHANGED <<pad, due, lifecycle, backKey>>

Click ==
    /\ turn = "click"
    /\ IF menu /\ stage = 0 /\ Clickers \cap (pressed \cup (held \ was)) # {}
       THEN Touch("DOWN") /\ stage' = 1 /\ due' = FALSE
       ELSE UNCHANGED <<finger, moves, touch>>
    /\ was' = (held \cap Clickers) \cup (was \cap {Back})
    /\ pressed' = pressed \cap {Back}
    /\ turn' = "back"
    /\ UNCHANGED <<held, released, menu, lifecycle, backKey, strayed>>

(* Defect: only the event counts as a release. *)
EventOnly == Back \in released

BackUp == Back \in released \/ Back \in was \ held

BackStep ==
    /\ turn = "back"
    /\ IF menu
       THEN Key(Back \in pressed \/ Back \in held \ was, BackUp)
       ELSE UNCHANGED <<backKey, strayed>>
    /\ pressed' = {} /\ released' = {} /\ was' = held
    /\ turn' = "touch"
    /\ UNCHANGED <<held, menu, touch, lifecycle, finger, moves>>

(* Defect: one dispatch short. *)
EarlyUp == stage < LastMove

StillMoving == stage <= LastMove

Dispatch ==
    /\ turn = "touch"
    /\ IF stage # 0 /\ due
       THEN /\ IF StillMoving THEN Touch("MOVE") /\ stage' = stage + 1
               ELSE Touch("UP") /\ stage' = 0
            /\ due' = FALSE
       ELSE UNCHANGED <<finger, moves, touch>>
    /\ turn' = "poll"
    /\ UNCHANGED <<pad, menu, lifecycle, backKey, strayed>>

Leave ==
    /\ turn = "poll" /\ quit
    /\ turn' = "out"
    /\ UNCHANGED <<pad, menu, touch, lifecycle, engine>>

UiStep == Poll \/ Context \/ Click \/ BackStep \/ Dispatch \/ Leave

-----------------------------------------------------------------------------
(* The rest of the process *)

(* 40 ms have passed when the next turn reads the clock. *)
Tick ==
    /\ turn = "poll" /\ stage # 0 /\ ~due
    /\ due' = TRUE
    /\ UNCHANGED <<turn, pad, menu, stage, lifecycle, engine>>

BecomeReady ==
    /\ ~ready
    /\ ready' = TRUE
    /\ UNCHANGED <<turn, pad, menu, touch, quit, playing, engine>>

(* The game reads an axis, or has not for 300 ms. *)
SwitchContext ==
    /\ ready /\ playing' = ~playing
    /\ UNCHANGED <<turn, pad, menu, touch, ready, quit, engine>>

(* SDL_QUIT, the exit chord, a signal, or nativeRender returning 0. *)
Quit ==
    /\ ~quit
    /\ quit' = TRUE
    /\ UNCHANGED <<turn, pad, menu, touch, ready, playing, engine>>

Next == UiStep \/ Tick \/ BecomeReady \/ SwitchContext \/ Quit

Spec == Init /\ [][Next]_vars

(* The UI thread runs, and its clock does. *)
FairSpec == Spec /\ WF_vars(UiStep) /\ SF_vars(Tick)

-----------------------------------------------------------------------------
(* What the adapter promises *)

(* Whatever finger Unity believes is down is one the loop is still         *)
(* tracking: its stage is set, so it will be lifted, and every move Unity  *)
(* has seen is accounted for.  Once the loop has seen the game read its    *)
(* sticks there is none: the touch under way has been cancelled, and play  *)
(* starts none (main.c:605-608, 630-640, 753-767).                         *)
LiveTouchIsTracked == finger = "down" => menu /\ stage = moves + 1

(* If Unity holds Back down, the pad does too: a release reaches Unity     *)
(* from the event or from the level, unless play came in between           *)
(* (main.c:642-654).                                                       *)
BackFollowsPad == (turn = "poll" /\ backKey = "down" /\ ~strayed) => Back \in was

(* A click that Unity saw begin ends, while the menu lasts, only after     *)
(* nine dispatches with the finger down: uGUI has time to see it live      *)
(* (main.c:754-756).                                                       *)
ClickIsWhole ==
    [][finger = "down" /\ finger' = "up" /\ menu' => moves = LastMove]_vars

(* A finger that is down is lifted, unless the process is asked to stop.   *)
EveryTouchEnds == finger = "down" ~> (finger = "up" \/ quit)
=============================================================================
