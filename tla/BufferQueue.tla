----------------------------- MODULE BufferQueue -----------------------------
(***************************************************************************)
(* What a guest expects of an Android simple buffer queue: buffers play    *)
(* in the order in which they were enqueued, each finished buffer is       *)
(* answered by one callback before the next one finishes, and Clear drops  *)
(* what has not finished.                                                  *)
(***************************************************************************)
EXTENDS Naturals, Sequences

CONSTANTS Buffers,  \* buffers a guest may enqueue
          Slots     \* buffers the queue can hold

VARIABLES pending,  \* buffers enqueued and not finished
          owed      \* a callback for a finished buffer is outstanding

vars == <<pending, owed>>

Init == pending = <<>> /\ owed = FALSE

Enqueue == /\ Len(pending) < Slots
           /\ \E b \in Buffers : pending' = Append(pending, b)
           /\ UNCHANGED owed

Finish == pending # <<>> /\ ~owed /\ pending' = Tail(pending) /\ owed' = TRUE

Notify == owed /\ owed' = FALSE /\ UNCHANGED pending

Clear == pending' = <<>> /\ UNCHANGED owed

Next == Enqueue \/ Finish \/ Notify \/ Clear

Spec == Init /\ [][Next]_vars
=============================================================================
