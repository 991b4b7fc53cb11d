----------------------------- MODULE DurableMap -----------------------------
(***************************************************************************)
(* What Android's SharedPreferences promises the game, and what            *)
(* prefs_dt.c has to provide: a map the game edits in memory, and an       *)
(* atomic publication of the whole map to storage.  A reader never finds a *)
(* mixture of two maps, and a failure falls back to a map that was         *)
(* published as a whole.                                                   *)
(***************************************************************************)
CONSTANTS Keys,     \* the preference keys
          Values,   \* the typed values a key may hold
          NoEntry   \* stands for "the key is not in the map"

Map == [Keys -> Values \cup {NoEntry}]
EmptyMap == [k \in Keys |-> NoEntry]

VARIABLES staged,   \* the map the game sees
          latest,   \* the map a restarted process would load
          outcomes  \* the maps a power failure may leave behind

vars == <<staged, latest, outcomes>>

Init == /\ staged = EmptyMap
        /\ latest = EmptyMap
        /\ outcomes = {EmptyMap}

(* The game edits one key, or drops them all. *)
Put(k, v) == /\ staged' = [staged EXCEPT ![k] = v]
             /\ UNCHANGED <<latest, outcomes>>

Clear == /\ staged' = EmptyMap
         /\ UNCHANGED <<latest, outcomes>>

(* The staged map replaces the stored one in a single step ... *)
Publish == /\ latest' = staged
           /\ outcomes' = outcomes \cup {staged}
           /\ UNCHANGED staged

(* ... and, once the directory has been synchronised, cannot be undone. *)
Harden == /\ outcomes' = {latest}
          /\ UNCHANGED <<staged, latest>>

(* The process dies: what was only staged is gone. *)
Restart == /\ staged' = latest
           /\ UNCHANGED <<latest, outcomes>>

(* The device dies: one of the possible outcomes becomes the stored map. *)
PowerLoss == \E m \in outcomes : /\ staged' = m
                                 /\ latest' = m
                                 /\ outcomes' = {m}

Next == \/ \E k \in Keys, v \in Values \cup {NoEntry} : Put(k, v)
        \/ Clear
        \/ Publish
        \/ Harden
        \/ Restart
        \/ PowerLoss

Spec == Init /\ [][Next]_vars
=============================================================================
