---------------------------- MODULE AtomicInstall ----------------------------
(***************************************************************************)
(* What the installer promises: whatever interrupts it, the game data a    *)
(* following start finds is either the data from before the installation   *)
(* or the complete new data, never a mixture and never a part.             *)
(***************************************************************************)
EXTENDS Naturals

CONSTANTS Paths,     \* the commit paths of the recipe (assets, lib)
          Trees,     \* what may be found at one of them
          Versions,  \* the payloads an extraction may produce
          Initial    \* the payloads a device may hold before the first run

VARIABLES payload,   \* the game data a following start ends up with
          before,    \* the game data before the transaction in progress
          meddled    \* how often somebody else changed the game data

vars == <<payload, before, meddled>>

Whole(v) == [p \in Paths |-> v]

Init == payload \in Initial /\ before = payload /\ meddled = 0

Begin == before' = payload /\ UNCHANGED <<payload, meddled>>

Replace == \E v \in Versions : payload' = Whole(v) /\ UNCHANGED <<before, meddled>>

(* An installation that could not record its success takes itself back. *)
Withdraw == payload' = before /\ UNCHANGED <<before, meddled>>

(* Nothing is promised of what somebody else does to the data. *)
Meddle == payload' \in [Paths -> Trees] /\ meddled' = meddled + 1 /\ UNCHANGED before

Next == Begin \/ Replace \/ Withdraw \/ Meddle

Spec == Init /\ [][Next]_vars
=============================================================================
