------------------------------ MODULE AudioQueue ------------------------------
(***************************************************************************)
(* The buffer queue of the OpenSL ES shim, opensles_dt.c.                  *)
(*                                                                         *)
(* Two threads use it.  SDL's audio thread runs audio_callback with the    *)
(* device lock held, and holds the player lock except while it calls the   *)
(* guest back for a finished buffer.  The guest thread creates, plays,     *)
(* stops and destroys the player, enqueues and clears; the guest's         *)
(* callback may enqueue and clear too, on the audio thread.                *)
(*                                                                         *)
(* Audio data is counted in units: Size[b] of them in buffer b, Period of  *)
(* them in a device period.  When the device's format differs from the     *)
(* buffers' one, data passes through an SDL audio stream.                  *)
(***************************************************************************)
EXTENDS Naturals, Sequences, FiniteSets

CONSTANTS Size,       \* units in each buffer; the guest enqueues buffers 1, 2, ...
          Slots,      \* DT_AUDIO_QUEUE_CAPACITY
          Locator,    \* buffer_count of the guest's locator; 1 if it names none
          Period,     \* units a device period asks for
          Handlers,   \* callbacks the guest registers, each with its own context
          MaxBuffers, \* bound: buffers enqueued
          MaxCreates  \* bound: players created

Buffers == 1 .. MaxBuffers

ASSUME AudioAssumption ==
    /\ MaxBuffers \in Nat /\ MaxCreates \in Nat
    /\ Size \in [Buffers -> Nat \ {0}]
    /\ Slots \in Nat \ {0} /\ Locator \in Nat \ {0} /\ Period \in Nat \ {0}
    /\ 0 \notin Handlers

NoBuffer == 0
Indices == 0 .. Slots - 1
Registration == (Handlers \cup {0}) \X (Handlers \cup {0})

VARIABLES ring,       \* player->buffers: which buffer is in each slot ...
          offset,     \* ... and how many of its units are consumed
          head,       \* player->queue_head
          count,      \* player->queue_count
          stream,     \* units in player->conversion, by the buffer they are from
          converts,   \* player->conversion exists
          device,     \* "closed", "paused" or "running"
          callback,   \* <<player->queue_callback, player->queue_context>>
          audio,      \* where the audio thread is: "idle", "loop" or "callback"
          written,    \* units put into the device's buffer in this period
          enqueued,   \* buffers the guest has enqueued
          creates,    \* players created
          heard,      \* history: units of each buffer the device got
          cleared,    \* history: buffers dropped by Clear or with their player
          finished    \* history: buffers finished since the queue was last emptied

queue == <<ring, offset, head, count, stream>>
player == <<converts, device, callback, creates>>
history == <<heard, cleared, finished>>
vars == <<queue, player, audio, written, enqueued, history>>

(* Defect: the ring wraps at the guest's buffer count. *)
WrapLocator(i) == i % Locator

Wrap(i) == i % Slots

(* What is enqueued and not finished, in playing order. *)
Pending == [i \in 1 .. count |-> ring[Wrap(head + i - 1)]]

TypeOK ==
    /\ ring \in [Indices -> Buffers \cup {NoBuffer}]
    /\ offset \in [Indices -> Nat]
    /\ head \in Indices /\ count \in 0 .. Slots
    /\ stream \in Seq(Buffers)
    /\ converts \in BOOLEAN
    /\ device \in {"closed", "paused", "running"}
    /\ callback \in Registration
    /\ audio \in {"idle", "loop", "callback"}
    /\ written \in 0 .. Period
    /\ enqueued \in 0 .. MaxBuffers
    /\ creates \in 0 .. MaxCreates
    /\ heard \in [Buffers -> Nat]
    /\ cleared \subseteq Buffers
    /\ finished \in Nat

Init ==
    /\ ring = [i \in Indices |-> NoBuffer] /\ offset = [i \in Indices |-> 0]
    /\ head = 0 /\ count = 0 /\ stream = <<>>
    /\ converts = FALSE /\ device = "closed" /\ callback = <<0, 0>> /\ creates = 0
    /\ audio = "idle" /\ written = 0 /\ enqueued = 0
    /\ heard = [b \in Buffers |-> 0] /\ cleared = {} /\ finished = 0

-----------------------------------------------------------------------------
(* The player *)

(* reset_player: closing the device waits for audio_callback to return. *)
Reset ==
    /\ audio = "idle"
    /\ ring' = [i \in Indices |-> NoBuffer] /\ offset' = [i \in Indices |-> 0]
    /\ head' = 0 /\ count' = 0 /\ stream' = <<>>
    /\ callback' = <<0, 0>>
    /\ cleared' = Buffers \cap (1 .. enqueued)
    /\ finished' = 0
    /\ UNCHANGED <<audio, written, enqueued, heard>>

(* engine_create_player: the device is opened paused, with a conversion    *)
(* stream when its format asks for one; either may fail.                   *)
CreatePlayer ==
    /\ creates < MaxCreates
    /\ creates' = creates + 1
    /\ Reset
    /\ \/ device' = "paused" /\ converts' \in BOOLEAN
       \/ device' = "closed" /\ converts' = FALSE

(* player_destroy *)
DestroyPlayer ==
    /\ device # "closed"
    /\ Reset
    /\ device' = "closed" /\ converts' = FALSE
    /\ UNCHANGED creates

(* Defect: the device is paused under a running audio_callback. *)
PauseAtOnce == TRUE

PauseWaits == audio = "idle"

(* play_set_state: SDL_PauseAudioDevice waits for audio_callback to return. *)
SetPlayState ==
    /\ device # "closed" /\ PauseWaits
    /\ callback[1] = callback[2]
    /\ device' \in {"paused", "running"}
    /\ UNCHANGED <<queue, converts, callback, creates, audio, written, enqueued, history>>

(* queue_register_callback is two plain writes; the guest registers while  *)
(* its player is stopped, as OpenSL ES demands.                            *)
RegisterCallback ==
    /\ device = "paused" /\ callback[1] = callback[2]
    /\ \E h \in Handlers : callback' = <<h, callback[2]>>
    /\ UNCHANGED <<queue, converts, device, creates, audio, written, enqueued, history>>

RegisterContext ==
    /\ callback[1] # callback[2]
    /\ callback' = <<callback[1], callback[1]>>
    /\ UNCHANGED <<queue, converts, device, creates, audio, written, enqueued, history>>

-----------------------------------------------------------------------------
(* The queue, from the guest thread or from the guest's callback.          *)

(* audio_callback holds the player lock, except during the callback. *)
LockFree == audio # "loop"

Back == Wrap(head + count)

Full == count = Slots

(* queue_enqueue; a full queue answers SL_RESULT_RESOURCE_ERROR. *)
Enqueue ==
    /\ device # "closed" /\ LockFree
    /\ enqueued < MaxBuffers /\ ~Full
    /\ ring' = [ring EXCEPT ![Back] = enqueued + 1]
    /\ offset' = [offset EXCEPT ![Back] = 0]
    /\ count' = count + 1
    /\ enqueued' = enqueued + 1
    /\ UNCHANGED <<head, stream, player, audio, written, history>>

(* Defect: the index goes on counting after Clear. *)
KeepHead == head

ClearHead == 0

(* Defect: the data already converted is not dropped. *)
KeepStream == stream

(* SDL_AudioStreamClear *)
ClearStream == <<>>

(* queue_clear also takes the device lock, which keeps the guest thread    *)
(* out until audio_callback has returned; the callback itself passes.      *)
Clear ==
    /\ device # "closed" /\ LockFree
    /\ head' = ClearHead /\ count' = 0 /\ stream' = ClearStream
    /\ cleared' = 1 .. enqueued
    /\ finished' = 0
    /\ UNCHANGED <<ring, offset, player, audio, written, enqueued, heard>>

-----------------------------------------------------------------------------
(* audio_callback *)

PeriodStart ==
    /\ device = "running" /\ audio = "idle"
    /\ audio' = "loop" /\ written' = 0
    /\ UNCHANGED <<queue, player, enqueued, history>>

AtHead == ring[head]
(* Defect: a buffer continued in the next period starts again. *)
RemainingFromStart == Size[AtHead]

Remaining == Size[AtHead] - offset[head]
Least(m, n) == IF m < n THEN m ELSE n

(* The head leaves the queue and invoke_finished_buffer drops the lock. *)
FinishHead ==
    /\ head' = Wrap(head + 1) /\ count' = count - 1
    /\ finished' = finished + 1
    /\ audio' = "callback"

(* Defect: a buffer ends with the period. *)
EndsWithPeriod(consumed, size) == TRUE

Exhausted(consumed, size) == consumed = size

(* The direct path copies what fits. *)
Copy ==
    /\ audio = "loop" /\ ~converts /\ written < Period /\ count > 0
    /\ LET amount == Least(Period - written, Remaining) IN
          /\ written' = written + amount
          /\ offset' = [offset EXCEPT ![head] = @ + amount]
          /\ heard' = [heard EXCEPT ![AtHead] = @ + amount]
          /\ IF Exhausted(offset'[head], Size[AtHead])
             THEN FinishHead
             ELSE UNCHANGED <<head, count, finished, audio>>
    /\ UNCHANGED <<ring, stream, player, enqueued, cleared>>

(* Silence fills the rest of the period. *)
EndDirect ==
    /\ audio = "loop" /\ ~converts
    /\ written = Period \/ count = 0
    /\ audio' = "idle"
    /\ UNCHANGED <<queue, player, written, enqueued, history>>

Feeding == audio = "loop" /\ converts /\ Len(stream) < Period /\ count > 0

(* SDL_AudioStreamPut takes a whole buffer. *)
PutStream ==
    /\ Feeding
    /\ stream' = stream \o [i \in 1 .. Remaining |-> AtHead]
    /\ offset' = [offset EXCEPT ![head] = Size[AtHead]]
    /\ FinishHead
    /\ UNCHANGED <<ring, player, written, enqueued, heard, cleared>>

(* SDL_AudioStreamGet *)
GetStream ==
    /\ LET got == Least(Period, Len(stream)) IN
          /\ written' = got
          /\ stream' = SubSeq(stream, got + 1, Len(stream))
          /\ heard' = [b \in Buffers |->
                         heard[b] + Cardinality({i \in 1 .. got : stream[i] = b})]
    /\ audio' = "idle"
    /\ UNCHANGED <<ring, offset, head, count, player, enqueued, cleared, finished>>

EndConverted == audio = "loop" /\ converts /\ ~Feeding /\ GetStream

PutFails == Feeding /\ GetStream

CallbackReturns ==
    /\ audio = "callback"
    /\ audio' = "loop"
    /\ UNCHANGED <<queue, player, written, enqueued, history>>

AudioThread == PeriodStart \/ Copy \/ EndDirect \/ PutStream \/ EndConverted \/ PutFails
                 \/ CallbackReturns

Guest == CreatePlayer \/ DestroyPlayer \/ SetPlayState \/ RegisterCallback \/ RegisterContext
            \/ Enqueue \/ Clear

Next == AudioThread \/ Guest

Spec == Init /\ [][Next]_vars

(* SDL keeps calling audio_callback, the guest's callback returns, and     *)
(* SDL_AudioStreamPut does not fail for ever.                              *)
FairSpec == Spec /\ WF_vars(AudioThread) /\ SF_vars(PutStream)

-----------------------------------------------------------------------------
(* The ring is a queue: opensles_dt.c 316-344 and 498-531 implement        *)
(* BufferQueue, callbacks included.                                        *)
Queue == INSTANCE BufferQueue WITH pending <- Pending, owed <- audio = "callback"
RefinesBufferQueue == Queue!Spec

UnitsInStream(b) == Cardinality({i \in 1 .. Len(stream) : stream[i] = b})
SlotOf(b) == CHOOSE s \in Indices : ring[s] = b /\ \E i \in 1 .. count : s = Wrap(head + i - 1)
UnitsInRing(b) == IF \E i \in 1 .. count : Pending[i] = b THEN Size[b] - offset[SlotOf(b)] ELSE 0

(* No unit is lost or played twice: unless it was cleared, what is not     *)
(* heard of a buffer is still in the queue or in the conversion stream.    *)
NothingLost ==
    \A b \in 1 .. enqueued :
        /\ heard[b] <= Size[b]
        /\ b \notin cleared => heard[b] + UnitsInStream(b) + UnitsInRing(b) = Size[b]

(* After Clear, nothing enqueued before it reaches the device.             *)
ClearedIsSilent == [][\A b \in cleared : heard'[b] = heard[b]]_vars

(* queue_get_state *)
Index == head % Locator

(* Whatever was cleared, destroyed and created, the index the guest is     *)
(* told is that of the buffers finished since the queue was last emptied:  *)
(* modulo its locator's count until the ring has wrapped, and from then on *)
(* counted by the ring first (523, 537).                                   *)
IndexCounts == Index = (finished % Slots) % Locator

(* A callback never gets the context of another registration.              *)
CallbackMatchesContext == audio = "callback" => callback[1] = callback[2]

(* While the player keeps playing, every enqueued buffer finishes.         *)
EveryBufferFinishes ==
    <>[](device = "running") =>
        \A b \in Buffers : [](b <= enqueued => <>(heard[b] = Size[b] \/ b \in cleared))
=============================================================================
