---------------------------- MODULE FrameworkBridge ----------------------------
(***************************************************************************)
(* framework_bridge.c: the receipts that main, Unity's graphics and audio  *)
(* threads and the UI loop hand to the registry of nxcompat, and READY,    *)
(* which is said once all of them satisfy the requirements.  Every         *)
(* function of the file runs under g_framework_lock and is one action.     *)
(*                                                                         *)
(* nxcompat is an external library.  Of its registry the model has what    *)
(* the bridge can tell: which kinds of evidence satisfy what is required   *)
(* of them.                                                                *)
(***************************************************************************)
VARIABLES up,        \* initialized
          receipts,  \* kinds of evidence that satisfy the requirements
          input,     \* the nxinput context exists
          drawn,     \* graphics_published
          heard,     \* audio_generation is not 0
          ready,     \* ready_published
          late       \* history: the evidence became complete by a hot-plug

bridge == <<up, receipts, input, drawn, heard, ready, late>>

Kinds == {"host", "graphics", "audio", "pad"}

(* What a graphics receipt is worth: strings, sizes or GLES 2 missing, or  *)
(* refused by the registry; accepted although a capability stays missing;  *)
(* accepted with all of them.                                              *)
Evidence == {"broken", "partial", "whole"}

BridgeTypeOK ==
    /\ up \in BOOLEAN /\ input \in BOOLEAN /\ drawn \in BOOLEAN
    /\ heard \in BOOLEAN /\ ready \in BOOLEAN /\ late \in BOOLEAN
    /\ receipts \subseteq Kinds

BridgeInit ==
    /\ receipts = {}
    /\ up = FALSE /\ input = FALSE /\ drawn = FALSE
    /\ heard = FALSE /\ ready = FALSE /\ late = FALSE

-----------------------------------------------------------------------------
(* A phase asks for what is due by then; the rest is pending. *)
Due(phase) == IF phase = "preflight" THEN {"host"} ELSE {"host", "graphics"}

(* evaluate_locked without require_complete *)
Satisfied(phase) == Due(phase) \subseteq receipts'

(* Defect: this evidence is not the last one, so nobody looks. *)
NotEvaluated == ready' = ready

(* evaluate_ready_locked *)
EvaluateReady ==
    ready' = (ready \/ (input' /\ drawn' /\ heard' /\ receipts' = Kinds))

(* dt_framework_preflight: the environment, the registry with the host's   *)
(* evidence, and whether the host has what is required.                    *)
Preflight ==
    \/ up' = TRUE /\ receipts' \in {{}, {"host"}} /\ UNCHANGED <<input, drawn, heard, ready, late>>
    \/ UNCHANGED bridge

(* dt_framework_open_input: the context stays even if the registry refuses *)
(* its first receipt.                                                      *)
OpenInput(accepted, pad) ==
    /\ up
    /\ input' = TRUE
    /\ receipts' = IF accepted /\ pad THEN receipts \cup {"pad"} ELSE receipts
    /\ UNCHANGED <<up, drawn, heard, late>>
    /\ IF accepted THEN EvaluateReady ELSE UNCHANGED ready

(* dt_framework_observe_input: a pad comes, goes or is mapped anew.  The   *)
(* receipt is renewed and nothing is evaluated.                            *)
Observe(accepted, pad) ==
    /\ input
    /\ receipts' = CASE ~accepted -> receipts
                     [] pad -> receipts \cup {"pad"}
                     [] OTHER -> receipts \ {"pad"}
    /\ late' = (receipts' = Kinds /\ ~ready)
    /\ UNCHANGED <<up, input, drawn, heard, ready>>

(* dt_framework_audio_opened: the generation counts the attempt, the       *)
(* registry may refuse the receipt.                                        *)
AudioOpened(accepted) ==
    /\ up
    /\ heard' = TRUE
    /\ receipts' = IF accepted THEN receipts \cup {"audio"} ELSE receipts
    /\ UNCHANGED <<up, input, drawn, late>>
    /\ IF accepted THEN EvaluateReady ELSE UNCHANGED ready

(* dt_framework_publish_graphics: the first accepted receipt stays for     *)
(* good; after it every call succeeds, whatever the evaluation said.       *)
PublishGraphics(evidence) ==
    IF drawn \/ ~up \/ evidence = "broken" THEN UNCHANGED bridge
    ELSE /\ drawn' = TRUE
         /\ receipts' = IF evidence = "whole" THEN receipts \cup {"graphics"} ELSE receipts
         /\ UNCHANGED <<up, input, heard, late>>
         /\ EvaluateReady

(* What the call answers, in a step that makes it. *)
Published(evidence) == drawn \/ (up /\ evidence # "broken" /\ Satisfied("graphics"))

-----------------------------------------------------------------------------
(* READY is said as soon as the last of the three threads has delivered    *)
(* its evidence, in whatever order they come (52-92); only a pad that is   *)
(* plugged in after everything else leaves it unsaid.                      *)
ReadyIsAnnounced == receipts = Kinds => ready \/ late

(* READY is never said about evidence that is not there yet (77-83), and   *)
(* not again later: 76-83.                                                 *)
ReadyIsEarned == [][ready' # ready => ready' /\ receipts' = Kinds]_bridge
=============================================================================
