-------------------------- MODULE PrefsStoreProofs --------------------------
(***************************************************************************)
(* Proofs about the PlayerPrefs store, for any number of keys, values,     *)
(* records and flushes, on a medium that keeps what was written to it and  *)
(* on one that ruins any number of snapshots while the store is closed.    *)
(***************************************************************************)
EXTENDS PrefsStore, TLAPS

USE PrefsAssumption

-----------------------------------------------------------------------------
(* Types of the data operators *)

(* The constants of the model have the types they are used at. *)
LEMMA DataTypes ==
    /\ EmptyMap \in Map
    /\ NoEntry \notin Values
    /\ Missing \in File
    /\ Invalid \in File
BY DEF EmptyMap, Map, NoEntry, Values, Missing, Invalid, File

(* What a flush writes is a file. *)
LEMMA SnapshotType == ASSUME NEW g \in Nat, NEW m \in Map
                      PROVE  Snapshot(g, m) \in File
BY DEF Snapshot, File

(* The loader always adopts some file. *)
LEMMA RecoveredType == ASSUME NEW d \in Image PROVE Recovered(d) \in File
BY DataTypes DEF Recovered, Image

(* Every operation starts from a loaded, well-typed memory. *)
LEMMA OpenedType == TypeOK => Opened \in Memory /\ Opened.loaded
BY RecoveredType DEF TypeOK, Opened, Memory, File

(* With no flush in progress the memory an operation starts from has the   *)
(* generation on disk and, when clean, the map on disk.                    *)
LEMMA OpenedOnDisk ==
    ASSUME IInv, phase = "idle"
    PROVE  /\ Recovered(dir).result = 1 => Opened.generation = Recovered(dir).gen
           /\ ~Opened.dirty => \A k \in Keys :
                  \/ Recovered(dir).map[k] = Opened.entries[k]
                  \/ ZeroScalar(Opened.entries[k])
BY DEF IInv, GenerationOnDisk, CleanMeansSaved, Opened

-----------------------------------------------------------------------------
(* The invariant *)

(* The empty store satisfies the invariant. *)
LEMMA InitInv == Init => IInv
BY DataTypes DEF Init, IInv, TypeOK, FlushInv, GenerationOnDisk, BackupIsPrevious,
   CleanMeansSaved, FailureKeepsDirty, Image, Memory, Unloaded, Missing

(* An operation on the map touches no file and leaves the flush idle: it   *)
(* preserves the invariant if its new memory keeps the generation and is   *)
(* dirty wherever it differs from the disk.                                *)
LEMMA EditInv ==
    ASSUME IInv, phase = "idle", UNCHANGED <<files, phase>>,
           mem' \in Memory, mem'.loaded, reply' = "none",
           mem'.generation = Opened.generation,
           ~mem'.dirty => \A k \in Keys : \/ Recovered(dir).map[k] = mem'.entries[k]
                                          \/ ZeroScalar(mem'.entries[k])
    PROVE  IInv'
<1>1. Recovered(dir)' = Recovered(dir)
  BY DEF files, Recovered
<1>2. TypeOK'
  BY DEF IInv, TypeOK, files
<1>3. FlushInv' /\ BackupIsPrevious' /\ FailureKeepsDirty'
  BY DEF IInv, FlushInv, BackupIsPrevious, FailureKeepsDirty, files
<1>4. GenerationOnDisk'
  BY <1>1, OpenedOnDisk DEF GenerationOnDisk
<1>5. CleanMeansSaved'
  BY <1>1 DEF CleanMeansSaved, ZeroScalar
<1>6. QED
  BY <1>2, <1>3, <1>4, <1>5 DEF IInv

(* The process dies: with nothing in memory only the files matter, and     *)
(* they are, whatever the failure left, one of the possible directories.   *)
LEMMA GoneInv ==
    ASSUME IInv, ProcessGone, dir' \in images, images' \in SUBSET images,
           dir' \in images', temp' \in File, damage' = damage
    PROVE  IInv'
<1>1. TypeOK'
  BY DataTypes DEF IInv, TypeOK, ProcessGone, Unloaded, Memory
<1>2. FlushInv' /\ GenerationOnDisk' /\ CleanMeansSaved' /\ FailureKeepsDirty'
  BY DEF ProcessGone, Unloaded, FlushInv, GenerationOnDisk, CleanMeansSaved,
         FailureKeepsDirty
<1>3. BackupIsPrevious'
  BY DEF IInv, BackupIsPrevious
<1>4. QED
  BY <1>1, <1>2, <1>3 DEF IInv

(* Each step of the store preserves the invariant. *)
LEMMA StepInv == IInv /\ [Next \/ Damage]_vars => IInv'
<1> SUFFICES ASSUME IInv, [Next \/ Damage]_vars PROVE IInv'
  OBVIOUS
<1> USE DEF IInv
<1>o. Opened \in Memory /\ Opened.loaded
  BY OpenedType
<1>1. CASE Ready
  <2>1. mem' = Opened /\ phase = "idle" /\ reply' = "none" /\ UNCHANGED <<files, phase>>
    BY <1>1 DEF Ready
  <2>2. QED
    BY <1>o, <2>1, OpenedOnDisk, EditInv
<1>2. CASE LoadFails
  BY <1>2 DEF LoadFails, files, TypeOK, FlushInv, GenerationOnDisk, BackupIsPrevious,
     CleanMeansSaved, FailureKeepsDirty
<1>3. ASSUME NEW k \in Keys, NEW t \in ScalarTypes, NEW v \in Scalars, SetScalar(k, t, v)
      PROVE  IInv'
  <2> DEFINE new == [Opened EXCEPT !.entries[k] = [type |-> t, v |-> v],
                                   !.dirty = @ \/ Prepared(Opened.entries, k, t) # v]
  <2>1. mem' = new /\ phase = "idle" /\ reply' = "none" /\ UNCHANGED <<files, phase>>
    BY <1>3 DEF SetScalar
  <2>2. [type |-> t, v |-> v] \in Values
    BY DEF Values
  <2>3. new \in Memory /\ new.loaded /\ new.generation = Opened.generation
    BY <1>o, <2>2 DEF Memory, Map
  <2>4. /\ new.entries[k] = [type |-> t, v |-> v]
        /\ \A j \in Keys : j # k => new.entries[j] = Opened.entries[j]
        /\ new.dirty = (Opened.dirty \/ Prepared(Opened.entries, k, t) # v)
    BY <1>o DEF Memory, Map
  <2>5. ASSUME ~new.dirty
        PROVE  \A j \in Keys : \/ Recovered(dir).map[j] = new.entries[j]
                               \/ ZeroScalar(new.entries[j])
    <3>1. ~Opened.dirty /\ Prepared(Opened.entries, k, t) = v
      BY <2>4, <2>5
    <3>2. Opened.entries[k] \in Values \cup {NoEntry}
      BY <1>o DEF Memory, Map
    <3>3. new.entries[k] = Opened.entries[k] \/ ZeroScalar(new.entries[k])
      BY <2>4, <3>1, <3>2 DEF Prepared, ZeroScalar, Values, NoEntry
    <3>4. QED
      BY <2>1, <2>4, <3>1, <3>3, OpenedOnDisk
  <2>6. QED
    BY <2>1, <2>3, <2>5, EditInv
<1>4. ASSUME NEW k \in Keys, NEW s \in Strings, SetString(k, s)
      PROVE  IInv'
  <2> DEFINE e == [type |-> "string", v |-> s]
             new == [Opened EXCEPT !.entries[k] = e, !.dirty = @ \/ Opened.entries[k] # e]
  <2>1. mem' = new /\ phase = "idle" /\ reply' = "none" /\ UNCHANGED <<files, phase>>
    BY <1>4 DEF SetString
  <2>2. e \in Values
    BY DEF Values
  <2> HIDE DEF e
  <2>3. new \in Memory /\ new.loaded /\ new.generation = Opened.generation
    BY <1>o, <2>2 DEF Memory, Map
  <2>4. /\ \A j \in Keys : j # k => new.entries[j] = Opened.entries[j]
        /\ new.entries[k] = e
        /\ new.dirty = (Opened.dirty \/ Opened.entries[k] # e)
    BY <1>o DEF Memory, Map
  <2> HIDE DEF new
  <2>5. QED
    BY <2>1, <2>3, <2>4, OpenedOnDisk, EditInv
<1>5. ASSUME NEW k \in Keys, SetRefused(k)
      PROVE  IInv'
  <2>1. mem' = Opened /\ phase = "idle" /\ reply' = "none" /\ UNCHANGED <<files, phase>>
    BY <1>5 DEF SetRefused
  <2>2. QED
    BY <1>o, <2>1, OpenedOnDisk, EditInv
<1>6. ASSUME NEW k \in Keys, Remove(k)
      PROVE  IInv'
  <2> DEFINE new == [Opened EXCEPT !.entries[k] = NoEntry,
                                   !.dirty = @ \/ k \in Present(Opened.entries)]
  <2>1. mem' = new /\ phase = "idle" /\ reply' = "none" /\ UNCHANGED <<files, phase>>
    BY <1>6 DEF Remove
  <2>2. new \in Memory /\ new.loaded /\ new.generation = Opened.generation
    BY <1>o DEF Memory, Map
  <2>3. /\ \A j \in Keys : j # k => new.entries[j] = Opened.entries[j]
        /\ new.entries[k] = NoEntry
        /\ new.dirty = (Opened.dirty \/ k \in Present(Opened.entries))
    BY <1>o DEF Memory, Map
  <2>4. k \notin Present(Opened.entries) => new.entries[k] = Opened.entries[k]
    BY <2>3 DEF Present
  <2> HIDE DEF new
  <2>5. QED
    BY <2>1, <2>2, <2>3, <2>4, OpenedOnDisk, EditInv
<1>7. CASE Clear
  <2> DEFINE new == [Opened EXCEPT !.entries = EmptyMap,
                                   !.dirty = @ \/ Present(Opened.entries) # {}]
  <2>1. mem' = new /\ phase = "idle" /\ reply' = "none" /\ UNCHANGED <<files, phase>>
    BY <1>7 DEF Clear
  <2>2. new \in Memory /\ new.loaded /\ new.generation = Opened.generation
    BY <1>o, DataTypes DEF Memory
  <2>3. /\ new.entries = EmptyMap
        /\ new.dirty = (Opened.dirty \/ Present(Opened.entries) # {})
    BY <1>o DEF Memory
  <2>4. Present(Opened.entries) = {} => \A j \in Keys : new.entries[j] = Opened.entries[j]
    BY <2>3 DEF Present, EmptyMap
  <2> HIDE DEF new
  <2>5. QED
    BY <2>1, <2>2, <2>3, <2>4, OpenedOnDisk, EditInv
<1>8. CASE FlushStart
  <2>1. phase = "idle" /\ mem' = Opened /\ UNCHANGED files
    BY <1>8 DEF FlushStart
  <2>2. \/ reply' = "ok" /\ phase' = "idle" /\ ~Opened.dirty
        \/ reply' = "failed" /\ phase' = "idle" /\ Opened.dirty
        \/ reply' = "none" /\ phase' = "temp" /\ Opened.dirty
    BY <1>8 DEF FlushStart, FlushFails
  <2>3. Recovered(dir)' = Recovered(dir)
    BY <2>1 DEF files, Recovered
  <2>4. TypeOK'
    BY <1>o, <2>1, <2>2 DEF TypeOK, files
  <2>5. FlushInv' /\ BackupIsPrevious' /\ FailureKeepsDirty'
    BY <1>o, <2>1, <2>2 DEF FlushInv, BackupIsPrevious, FailureKeepsDirty,
       files
  <2>6. GenerationOnDisk' /\ CleanMeansSaved'
    BY <2>1, <2>3, OpenedOnDisk DEF GenerationOnDisk, CleanMeansSaved, ZeroScalar
  <2>7. QED
    BY <2>4, <2>5, <2>6
<1>9. CASE WriteTemp
  <2>1. phase = "temp" /\ mem.loaded /\ mem.dirty /\ UNCHANGED <<mem, dir, images, damage>>
    BY <1>9 DEF WriteTemp, FlushInv
  <2>2. \/ temp' = Snapshot(mem.generation + 1, mem.entries) /\ phase' = "rotate"
           /\ UNCHANGED reply
        \/ temp' = Missing /\ phase' = "idle" /\ reply' = "failed"
    BY <1>9 DEF WriteTemp, FlushFails, NextGeneration
  <2>3. mem.generation + 1 \in Nat /\ mem.entries \in Map
    BY DEF TypeOK, Memory
  <2>4. TypeOK'
    BY <2>1, <2>2, <2>3, SnapshotType, DataTypes DEF TypeOK
  <2>5. QED
    BY <2>1, <2>2, <2>4 DEF FlushInv, GenerationOnDisk, BackupIsPrevious,
       CleanMeansSaved, FailureKeepsDirty, Recovered
<1>10. CASE Rotate
  <2>1. /\ phase = "rotate" /\ mem.loaded /\ mem.dirty
        /\ temp = Snapshot(mem.generation + 1, mem.entries)
        /\ Recovered(dir).result = 1 => mem.generation = Recovered(dir).gen
        /\ UNCHANGED <<mem, damage>>
    BY <1>10 DEF Rotate, FlushInv, GenerationOnDisk
  <2>2. CASE dir.primary.result = 0 /\ phase' = "publish" /\ UNCHANGED <<dir, images, temp, reply>>
    BY <2>1, <2>2 DEF TypeOK, FlushInv, GenerationOnDisk, BackupIsPrevious,
       CleanMeansSaved, FailureKeepsDirty, Recovered
  <2>3. CASE /\ dir.primary.result # 0 /\ dir' = Rotated /\ images' = images \cup {Rotated}
             /\ phase' = "publish" /\ UNCHANGED <<temp, reply>>
    <3>1. Rotated \in Image /\ Rotated.primary = Missing /\ Rotated.backup = dir.primary
      BY DataTypes DEF Rotated, Image, TypeOK
    <3>2. dir.primary.result = 1 => Recovered(dir) = dir.primary
      BY DEF Recovered, TypeOK, BackupIsPrevious, Image, File
    <3>3. Recovered(Rotated) = IF dir.primary.result = 1 THEN dir.primary ELSE Missing
      BY <3>1 DEF Recovered, Missing
    <3>4. TypeOK'
      BY <2>1, <2>3, <3>1 DEF TypeOK
    <3>5. BackupIsPrevious'
      BY <2>3, <3>1 DEF BackupIsPrevious, Missing
    <3>6. GenerationOnDisk'
      BY <2>1, <2>3, <3>2, <3>3 DEF GenerationOnDisk, Missing
    <3>7. QED
      BY <2>1, <2>3, <3>1, <3>4, <3>5, <3>6 DEF FlushInv, CleanMeansSaved, FailureKeepsDirty,
         Missing
  <2>4. CASE /\ temp' = Missing /\ phase' = "idle" /\ reply' = "failed"
             /\ UNCHANGED <<dir, images>>
    BY <2>1, <2>4, DataTypes DEF TypeOK, FlushInv, GenerationOnDisk, BackupIsPrevious,
       CleanMeansSaved, FailureKeepsDirty, Recovered
  <2>5. QED
    BY <1>10, <2>2, <2>3, <2>4 DEF Rotate, FlushFails
<1>11. CASE Publish
  <2>1. /\ phase = "publish" /\ mem.loaded /\ mem.dirty
        /\ temp = Snapshot(mem.generation + 1, mem.entries)
        /\ dir.primary.result = 0
        /\ Recovered(dir).result = 1 => mem.generation = Recovered(dir).gen
        /\ UNCHANGED <<mem, damage>>
    BY <1>11 DEF Publish, FlushInv, GenerationOnDisk
  <2>2. CASE /\ dir' = Published /\ images' = images \cup {Published} /\ temp' = Missing
             /\ phase' = "sync" /\ UNCHANGED reply
    <3>1. /\ Published \in Image /\ Published.primary = temp
          /\ Published.backup = dir.backup
      BY <2>1 DEF Published, Image, TypeOK
    <3>2. dir.backup.result = 1 => dir.backup.gen = mem.generation
      BY <2>1 DEF Recovered
    <3>3. temp.gen = mem.generation + 1 /\ temp.result = 1
      BY <2>1 DEF Snapshot
    <3>4. TypeOK'
      BY <2>1, <2>2, <3>1, DataTypes DEF TypeOK
    <3>5. BackupIsPrevious'
      BY <2>2, <3>1, <3>2, <3>3 DEF BackupIsPrevious, TypeOK
    <3>6. QED
      BY <2>1, <2>2, <3>1, <3>4, <3>5 DEF FlushInv, GenerationOnDisk, CleanMeansSaved,
         FailureKeepsDirty
  <2>3. CASE /\ phase' = "idle" /\ reply' = "failed" /\ UNCHANGED <<dir, images, temp>>
    BY <2>1, <2>3 DEF TypeOK, FlushInv, GenerationOnDisk, BackupIsPrevious,
       CleanMeansSaved, FailureKeepsDirty, Recovered
  <2>4. QED
    BY <1>11, <2>2, <2>3 DEF Publish, FlushFails
<1>12. CASE Sync
  <2>1. /\ phase = "sync" /\ phase' = "idle" /\ reply' = "ok"
        /\ images' \in {{dir}, images} /\ UNCHANGED <<dir, temp, damage>>
        /\ mem' = [mem EXCEPT !.generation = mem.generation + 1, !.dirty = FALSE]
        /\ dir.primary = Snapshot(mem.generation + 1, mem.entries)
        /\ mem \in Memory /\ mem.loaded
    BY <1>12 DEF Sync, FlushInv, TypeOK, NextGeneration, SyncOutcomes
  <2>2. /\ mem' \in Memory /\ mem'.loaded /\ mem'.dirty = FALSE
        /\ mem'.generation = mem.generation + 1 /\ mem'.entries = mem.entries
    <3>1. mem.generation + 1 \in Nat
      BY <2>1 DEF Memory
    <3>2. QED
      BY <2>1, <3>1 DEF Memory
  <2>3. Recovered(dir) = dir.primary
    BY <2>1 DEF Recovered, TypeOK, BackupIsPrevious, Image, File, Snapshot, Memory
  <2>4. Recovered(dir)' = Snapshot(mem.generation + 1, mem.entries)
    BY <2>1, <2>3 DEF Recovered
  <2>5. TypeOK' /\ BackupIsPrevious'
    BY <2>1, <2>2 DEF TypeOK, BackupIsPrevious
  <2>6. GenerationOnDisk' /\ CleanMeansSaved'
    BY <2>2, <2>4 DEF GenerationOnDisk, CleanMeansSaved, Snapshot
  <2>7. FlushInv' /\ FailureKeepsDirty'
    BY <2>1 DEF FlushInv, FailureKeepsDirty
  <2>8. QED
    BY <2>5, <2>6, <2>7
<1>13. CASE Crash
  <2>1. temp' \in File
    BY <1>13, DataTypes DEF Crash, TypeOK
  <2>2. QED
    BY <1>13, <2>1, GoneInv DEF Crash, TypeOK
<1>14. CASE PowerLoss
  <2>1. temp' \in File
    BY <1>14, DataTypes DEF PowerLoss, TypeOK
  <2>2. dir' \in images /\ images' = {dir'}
    BY <1>14 DEF PowerLoss
  <2>3. QED
    BY <1>14, <2>1, <2>2, GoneInv DEF PowerLoss
<1>15. CASE UNCHANGED vars
  BY <1>15 DEF vars, TypeOK, FlushInv, GenerationOnDisk, BackupIsPrevious,
     CleanMeansSaved, FailureKeepsDirty, Recovered
<1>16. CASE Damage
  <2>1. /\ ~mem.loaded /\ phase = "idle" /\ damage' = damage + 1
        /\ images' = {dir'} /\ UNCHANGED <<mem, temp, phase, reply>>
    BY <1>16 DEF Damage
  <2>2. PICK f \in {"primary", "backup"} : dir' = [dir EXCEPT ![f] = Invalid]
    BY <1>16 DEF Damage
  <2>3. dir' \in Image /\ dir'[f] = Invalid
    BY <2>2, DataTypes DEF TypeOK, Image
  <2>4. TypeOK'
    BY <2>1, <2>3 DEF TypeOK
  <2>5. BackupIsPrevious'
    BY <2>1, <2>3 DEF BackupIsPrevious, Invalid
  <2>6. QED
    BY <2>1, <2>4, <2>5 DEF FlushInv, GenerationOnDisk, CleanMeansSaved, FailureKeepsDirty
<1>17. QED
  BY <1>1, <1>2, <1>3, <1>4, <1>5, <1>6, <1>7, <1>8, <1>9, <1>10, <1>11, <1>12, <1>13,
     <1>14, <1>15, <1>16 DEF Next, Edit, Flush

(* The inductive invariant holds of every behaviour of the store, whatever *)
(* the medium ruins.                                                       *)
THEOREM Invariance == FaultySpec => []IInv
<1>1. QED
  BY InitInv, StepInv, PTL DEF FaultySpec

(* What holds on the medium that ruins holds on the one that keeps. *)
LEMMA KeptIsFaulty == Spec => FaultySpec
<1>1. [Next]_vars => [Next \/ Damage]_vars
  OBVIOUS
<1>2. QED
  BY <1>1, PTL DEF Spec, FaultySpec

(* Type correctness. *)
THEOREM TypeCorrect == FaultySpec => []TypeOK
<1>1. IInv => TypeOK
  BY DEF IInv
<1>2. QED
  BY <1>1, Invariance, PTL

(* For any map and any number of commits, failures and ruined snapshots:   *)
(* when g_dirty is off a restart brings back the map in memory, zero       *)
(* scalars excepted.                                                       *)
THEOREM CleanIsSaved == FaultySpec => []CleanMeansSaved
<1>1. IInv => CleanMeansSaved
  BY DEF IInv
<1>2. QED
  BY <1>1, Invariance, PTL

(* In every directory a power failure may leave, the backup is the         *)
(* generation just before the primary.                                     *)
THEOREM BackupCorrect == FaultySpec => []BackupIsPrevious
<1>1. IInv => BackupIsPrevious
  BY DEF IInv
<1>2. QED
  BY <1>1, Invariance, PTL

(* A failed flush never forgets that there is something to write. *)
THEOREM FailureIsRemembered == FaultySpec => []FailureKeepsDirty
<1>1. IInv => FailureKeepsDirty
  BY DEF IInv
<1>2. QED
  BY <1>1, Invariance, PTL

-----------------------------------------------------------------------------
(* The refinement *)

DurableStaged == IF mem.loaded THEN mem.entries ELSE Recovered(dir).map
DurableLatest == Recovered(dir).map
DurableOutcomes == {Recovered(d).map : d \in images}

(* A step that leaves the mapped state alone is a stutter of DurableMap. *)
LEMMA Stutter ==
    ASSUME DurableStaged' = DurableStaged, DurableLatest' = DurableLatest,
           DurableOutcomes' = DurableOutcomes
    PROVE  [Abstract!Next]_(Abstract!vars)
BY DEF DurableStaged, DurableLatest, DurableOutcomes, Abstract!vars

(* Loading the store does not change what the game sees. *)
LEMMA OpenedStaged == Opened.entries = DurableStaged
BY DEF Opened, DurableStaged

(* An operation on the map edits one entry or clears the map. *)
LEMMA EditSteps ==
    ASSUME IInv, UNCHANGED <<dir, images>>, mem'.loaded,
           \/ mem'.entries = EmptyMap
           \/ \E k \in Keys, v \in Values \cup {NoEntry} :
                  mem'.entries = [Opened.entries EXCEPT ![k] = v]
    PROVE  [Abstract!Next]_(Abstract!vars)
<1>1. DurableStaged' = mem'.entries
  BY DEF DurableStaged
<1>2. DurableLatest' = DurableLatest /\ DurableOutcomes' = DurableOutcomes
  BY DEF DurableLatest, DurableOutcomes, Recovered
<1>3. CASE mem'.entries = EmptyMap
  <2>1. Abstract!Clear
    BY <1>1, <1>2, <1>3 DEF Abstract!Clear, DurableStaged, DurableLatest, DurableOutcomes,
       Abstract!EmptyMap, EmptyMap
  <2>2. QED
    BY <2>1 DEF Abstract!Next
<1>4. ASSUME NEW k \in Keys, NEW v \in Values \cup {NoEntry},
             mem'.entries = [Opened.entries EXCEPT ![k] = v]
      PROVE  [Abstract!Next]_(Abstract!vars)
  <2>1. Abstract!Put(k, v)
    BY <1>1, <1>2, <1>4, OpenedStaged DEF Abstract!Put, DurableStaged, DurableLatest,
       DurableOutcomes
  <2>2. QED
    BY <2>1 DEF Abstract!Next
<1>5. QED
  BY <1>3, <1>4

(* The stores start from the same empty map. *)
LEMMA InitRefines == Init => Abstract!Init
<1> SUFFICES ASSUME Init PROVE Abstract!Init
  OBVIOUS
<1>1. Recovered(dir).map = EmptyMap
  BY DEF Init, Recovered, Missing
<1>2. {Recovered(d).map : d \in images} = {EmptyMap}
  BY <1>1 DEF Init
<1>3. QED
  BY <1>1, <1>2 DEF Init, Unloaded, Abstract!Init, Abstract!EmptyMap, EmptyMap

(* Each step of the store is a step of the durable map or a stutter, but   *)
(* for the rotation of a ruined primary.                                   *)
LEMMA StepRefines ==
    IInv /\ dir.primary.result # 2 /\ [Next]_vars => [Abstract!Next]_(Abstract!vars)
<1> SUFFICES ASSUME IInv, dir.primary.result # 2, [Next]_vars
             PROVE  [Abstract!Next]_(Abstract!vars)
  OBVIOUS
<1> USE DEF IInv
<1>o. Opened \in Memory /\ Opened.loaded
  BY OpenedType
<1>1. CASE mem' = Opened /\ UNCHANGED <<dir, images>>
  BY <1>1, <1>o, OpenedStaged, Stutter DEF DurableStaged, DurableLatest, DurableOutcomes,
     Recovered
<1>2. CASE LoadFails
  BY <1>2, Stutter DEF LoadFails, files, DurableStaged, DurableLatest, DurableOutcomes,
     Recovered
<1>3. CASE Edit
  <2>1. UNCHANGED <<dir, images>>
    BY <1>3 DEF Edit, SetScalar, SetString, SetRefused, Remove, Clear, files
  <2>2. ASSUME NEW k \in Keys, NEW t \in ScalarTypes, NEW v \in Scalars, SetScalar(k, t, v)
        PROVE  [Abstract!Next]_(Abstract!vars)
    <3>1. [type |-> t, v |-> v] \in Values
      BY DEF Values
    <3>2. mem'.loaded /\ mem'.entries = [Opened.entries EXCEPT ![k] = [type |-> t, v |-> v]]
      BY <1>o, <2>2 DEF SetScalar, Memory
    <3>3. QED
      BY <2>1, <3>1, <3>2, EditSteps
  <2>3. ASSUME NEW k \in Keys, NEW s \in Strings, SetString(k, s)
        PROVE  [Abstract!Next]_(Abstract!vars)
    <3>1. [type |-> "string", v |-> s] \in Values
      BY DEF Values
    <3>2. /\ mem'.loaded
          /\ mem'.entries = [Opened.entries EXCEPT ![k] = [type |-> "string", v |-> s]]
      BY <1>o, <2>3 DEF SetString, Memory
    <3>3. QED
      BY <2>1, <3>1, <3>2, EditSteps
  <2>4. ASSUME NEW k \in Keys, SetRefused(k) \/ Remove(k)
        PROVE  [Abstract!Next]_(Abstract!vars)
    <3>1. CASE SetRefused(k)
      BY <1>1, <2>1, <3>1 DEF SetRefused
    <3>2. CASE Remove(k)
      <4>1. mem'.loaded /\ mem'.entries = [Opened.entries EXCEPT ![k] = NoEntry]
        BY <1>o, <3>2 DEF Remove, Memory
      <4>2. QED
        BY <2>1, <4>1, EditSteps
    <3>3. QED
      BY <2>4, <3>1, <3>2
  <2>5. CASE Clear
    <3>1. mem'.loaded /\ mem'.entries = EmptyMap
      BY <1>o, <2>5 DEF Clear, Memory
    <3>2. QED
      BY <2>1, <3>1, EditSteps
  <2>6. QED
    BY <1>3, <2>2, <2>3, <2>4, <2>5 DEF Edit
<1>4. CASE WriteTemp
  BY <1>4, Stutter DEF WriteTemp, DurableStaged, DurableLatest, DurableOutcomes, Recovered
<1>5. CASE Rotate
  <2>1. phase = "rotate" /\ UNCHANGED mem
    BY <1>5 DEF Rotate
  <2>2. CASE UNCHANGED <<dir, images>>
    BY <2>1, <2>2, Stutter DEF DurableStaged, DurableLatest, DurableOutcomes, Recovered
  <2>3. CASE dir.primary.result # 0 /\ dir' = Rotated /\ images' = images \cup {Rotated}
    <3>1. dir.primary.result = 1
      BY <2>3 DEF TypeOK, Image, File
    <3>2. Recovered(dir) = dir.primary
      BY <3>1 DEF Recovered, TypeOK, BackupIsPrevious, Image, File
    <3>3. Recovered(Rotated) = dir.primary
      BY <3>1 DEF Recovered, Rotated, Missing
    <3>4. DurableLatest' = DurableLatest
      BY <2>3, <3>2, <3>3 DEF DurableLatest
    <3>5. DurableOutcomes' = DurableOutcomes
      BY <2>3, <3>2, <3>3 DEF DurableOutcomes, TypeOK
    <3>6. DurableStaged' = DurableStaged
      BY <2>1, <3>4 DEF DurableStaged, DurableLatest
    <3>7. QED
      BY <3>4, <3>5, <3>6, Stutter
  <2>4. QED
    BY <1>5, <2>2, <2>3 DEF Rotate
<1>6. CASE Publish
  <2>1. /\ phase = "publish" /\ mem.loaded /\ UNCHANGED mem
        /\ temp = Snapshot(mem.generation + 1, mem.entries)
        /\ dir.primary.result = 0
        /\ Recovered(dir).result = 1 => mem.generation = Recovered(dir).gen
    BY <1>6 DEF Publish, FlushInv, GenerationOnDisk
  <2>2. CASE UNCHANGED <<dir, images>>
    BY <2>1, <2>2, Stutter DEF DurableStaged, DurableLatest, DurableOutcomes, Recovered
  <2>3. CASE dir' = Published /\ images' = images \cup {Published}
    <3>1. dir.backup.result = 1 => dir.backup.gen = mem.generation
      BY <2>1 DEF Recovered
    <3>2. Published.primary = temp /\ Published.backup = dir.backup
      BY DEF Published, TypeOK, Image
    <3>3. mem.generation \in Nat
      BY DEF TypeOK, Memory
    <3>4. Recovered(Published).map = mem.entries
      BY <2>1, <3>1, <3>2, <3>3 DEF Recovered, Snapshot
    <3>5. DurableLatest' = mem.entries
      BY <2>3, <3>4 DEF DurableLatest
    <3>6. DurableOutcomes' = DurableOutcomes \cup {mem.entries}
      BY <2>3, <3>4 DEF DurableOutcomes
    <3>7. DurableStaged = mem.entries /\ DurableStaged' = mem.entries
      BY <2>1 DEF DurableStaged
    <3>8. Abstract!Publish
      BY <3>5, <3>6, <3>7 DEF Abstract!Publish, DurableStaged, DurableLatest, DurableOutcomes
    <3>9. QED
      BY <3>8 DEF Abstract!Next
  <2>4. QED
    BY <1>6, <2>2, <2>3 DEF Publish
<1>7. CASE Sync
  <2>1. /\ mem.loaded /\ mem \in Memory /\ UNCHANGED dir
        /\ mem' = [mem EXCEPT !.generation = mem.generation + 1, !.dirty = FALSE]
        /\ images' \in {{dir}, images}
    BY <1>7 DEF Sync, FlushInv, TypeOK, NextGeneration, SyncOutcomes
  <2>2. mem'.loaded /\ mem'.entries = mem.entries
    BY <2>1 DEF Memory
  <2>3. DurableStaged' = DurableStaged /\ DurableLatest' = DurableLatest
    BY <2>1, <2>2 DEF DurableStaged, DurableLatest, Recovered
  <2>4. CASE images' = images
    BY <2>1, <2>3, <2>4, Stutter DEF DurableOutcomes
  <2>5. CASE images' = {dir}
    <3>1. DurableOutcomes' = {DurableLatest}
      BY <2>5 DEF DurableOutcomes, DurableLatest
    <3>2. Abstract!Harden
      BY <2>3, <3>1 DEF Abstract!Harden, DurableStaged, DurableLatest, DurableOutcomes
    <3>3. QED
      BY <3>2 DEF Abstract!Next
  <2>6. QED
    BY <2>1, <2>4, <2>5
<1>8. CASE Crash
  <2>1. ~mem'.loaded /\ UNCHANGED <<dir, images>>
    BY <1>8 DEF Crash, ProcessGone, Unloaded
  <2>2. Abstract!Restart
    BY <2>1 DEF Abstract!Restart, Recovered
  <2>3. QED
    BY <2>2 DEF Abstract!Next
<1>9. CASE PowerLoss
  <2>1. PICK d \in images : dir' = d /\ images' = {d}
    BY <1>9 DEF PowerLoss
  <2>2. ~mem'.loaded
    BY <1>9 DEF PowerLoss, ProcessGone, Unloaded
  <2>3. DurableLatest' = Recovered(d).map /\ DurableStaged' = Recovered(d).map
    BY <2>1, <2>2 DEF DurableLatest, DurableStaged
  <2>4. DurableOutcomes' = {Recovered(d).map} /\ Recovered(d).map \in DurableOutcomes
    BY <2>1 DEF DurableOutcomes
  <2>5. Abstract!PowerLoss
    BY <2>3, <2>4 DEF Abstract!PowerLoss, DurableStaged, DurableLatest, DurableOutcomes
  <2>6. QED
    BY <2>5 DEF Abstract!Next
<1>10. CASE UNCHANGED vars
  BY <1>10, Stutter DEF vars, DurableStaged, DurableLatest, DurableOutcomes, Recovered
<1>11. CASE Ready \/ FlushStart
  BY <1>1, <1>11 DEF Ready, FlushStart, files
<1>12. QED
  BY <1>2, <1>3, <1>4, <1>5, <1>6, <1>7, <1>8, <1>9, <1>10, <1>11 DEF Next, Flush

(* The store of prefs_dt.c implements the durable map on every medium, at  *)
(* each step but the medium's own and the rotation of a primary it ruined. *)
THEOREM DurableAnyway == FaultySpec => DurableWhateverRuined
<1>1. /\ IInv /\ [Next \/ Damage]_vars
      => [(UNCHANGED damage /\ dir.primary.result # 2) => [Abstract!Next]_(Abstract!vars)]_vars
  <2>1. Damage /\ TypeOK => ~UNCHANGED damage
    BY DEF Damage, TypeOK
  <2>2. QED
    BY <2>1, StepRefines DEF IInv
<1>2. QED
  BY <1>1, InitRefines, Invariance, PTL DEF FaultySpec, DurableWhateverRuined

(* A medium that keeps what was written never shows an invalid file. *)
LEMMA NoneRuined == Spec => []NothingRuined
<1>1. Init => NothingRuined
  BY DEF Init, NothingRuined, Missing
<1>2. IInv /\ NothingRuined /\ [Next]_vars => NothingRuined'
  <2> SUFFICES ASSUME IInv, NothingRuined, [Next]_vars PROVE NothingRuined'
    OBVIOUS
  <2>1. CASE images' \subseteq images
    BY <2>1 DEF NothingRuined
  <2>2. CASE Rotate /\ images' = images \cup {Rotated}
    BY <2>2 DEF NothingRuined, Rotated, Missing, IInv, TypeOK
  <2>3. CASE Publish /\ images' = images \cup {Published}
    <3>1. temp.result = 1 /\ dir \in images /\ Published.primary = temp
          /\ Published.backup = dir.backup
      BY <2>3 DEF Publish, IInv, FlushInv, Snapshot, Published, TypeOK, Image
    <3>2. QED
      BY <2>3, <3>1 DEF NothingRuined
  <2>4. QED
    BY <2>1, <2>2, <2>3 DEF Next, Ready, LoadFails, Edit, SetScalar, SetString,
       SetRefused, Remove,
       Clear, Flush, FlushStart, WriteTemp, Rotate, Publish, Sync, SyncOutcomes, Crash, PowerLoss,
       files, vars, IInv, TypeOK
<1>3. QED
  BY <1>1, <1>2, KeptIsFaulty, Invariance, PTL DEF Spec

(* Where nothing is ruined it implements the durable map: whatever is cut  *)
(* short, wherever, what a restart finds is a map published as a whole.    *)
THEOREM Refinement == Spec => RefinesDurableMap
<1>1. IInv /\ NothingRuined => dir.primary.result # 2
  BY DEF IInv, TypeOK, NothingRuined
<1>2. QED
  BY <1>1, InitRefines, StepRefines, KeptIsFaulty, Invariance, NoneRuined, PTL
     DEF Spec, RefinesDurableMap, Abstract!Spec
=============================================================================
