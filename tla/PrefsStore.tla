----------------------------- MODULE PrefsStore -----------------------------
(***************************************************************************)
(* The PlayerPrefs store of src/src/prefs_dt.c: a typed map in memory, a   *)
(* primary snapshot file, the previous snapshot as a backup and a          *)
(* temporary file that flush_locked turns into the new primary.            *)
(*                                                                         *)
(* Every public operation runs under g_lock, so operations are atomic with *)
(* respect to each other; a flush is split at its file-system calls        *)
(* because the process, or the device, may die between any two of them.    *)
(*                                                                         *)
(* A directory image is the pair of files a loader can find.  images holds *)
(* the ones a power failure may leave: every directory since the last      *)
(* successful sync of the parent directory.  File contents are synced      *)
(* before a rename, as the code does.  Memory allocation is taken to       *)
(* succeed, and the size of a snapshot is its number of records.           *)
(***************************************************************************)
EXTENDS Naturals, FiniteSets

CONSTANTS Keys,           \* preference keys
          ScalarTypes,    \* the int, float, bool and long kinds
          Scalars,        \* their values
          Zero,           \* what memset leaves in a fresh scalar entry
          Strings,        \* string values
          MaxRecords,     \* DT_PREFS_MAX_RECORDS
          MaxFile,        \* DT_PREFS_MAX_FILE, counted in records
          MaxGeneration,  \* bound: flushes that may publish
          MaxDamage       \* bound: snapshots the medium may ruin

ASSUME PrefsAssumption ==
    /\ Zero \in Scalars
    /\ MaxRecords \in Nat
    /\ MaxFile \in Nat
    /\ MaxGeneration \in Nat
    /\ MaxDamage \in Nat
    /\ "string" \notin ScalarTypes
    /\ "none" \notin ScalarTypes

-----------------------------------------------------------------------------
(* Data *)

NoEntry == [type |-> "none", v |-> Zero]
Values == [type : ScalarTypes, v : Scalars] \cup [type : {"string"}, v : Strings]
Map == [Keys -> Values \cup {NoEntry}]
EmptyMap == [k \in Keys |-> NoEntry]

Present(m) == {k \in Keys : m[k] # NoEntry}

(* A file as load_snapshot reports it: 0 missing, 1 valid, 2 invalid (-2). *)
File == [result : 0 .. 2, gen : Nat, map : Map]
Missing == [result |-> 0, gen |-> 0, map |-> EmptyMap]
Invalid == [result |-> 2, gen |-> 0, map |-> EmptyMap]
Snapshot(g, m) == [result |-> 1, gen |-> g, map |-> m]

Image == [primary : File, backup : File]

(* The snapshot ensure_loaded_locked adopts from a directory. *)
Recovered(d) ==
    IF d.backup.result = 1 /\ (d.primary.result # 1 \/ d.backup.gen > d.primary.gen)
    THEN d.backup
    ELSE IF d.primary.result = 1 THEN d.primary ELSE Missing

Memory == [loaded : BOOLEAN, entries : Map, generation : Nat, dirty : BOOLEAN]
Unloaded == [loaded |-> FALSE, entries |-> EmptyMap, generation |-> 0, dirty |-> FALSE]

VARIABLES mem,     \* g_loaded, g_entries, g_generation, g_dirty
          dir,     \* the directory the running system sees
          images,  \* the directories a power failure may leave
          temp,    \* the temporary file
          phase,   \* where flush_locked stands; "idle" when g_lock is free
          reply,   \* what the last flush told the editor
          damage   \* snapshots ruined so far

vars == <<mem, dir, images, temp, phase, reply, damage>>
files == <<dir, images, temp, damage>>

TypeOK ==
    /\ mem \in Memory
    /\ dir \in Image
    /\ images \in SUBSET Image
    /\ dir \in images
    /\ temp \in File
    /\ phase \in {"idle", "temp", "rotate", "publish", "sync"}
    /\ reply \in {"none", "ok", "failed"}
    /\ damage \in Nat

Init ==
    /\ mem = Unloaded
    /\ dir = [primary |-> Missing, backup |-> Missing]
    /\ images = {dir}
    /\ temp = Missing
    /\ phase = "idle"
    /\ reply = "none"
    /\ damage = 0

-----------------------------------------------------------------------------
(* Operations on the map *)

(* ensure_loaded_locked: every operation starts from this memory. *)
Opened ==
    IF mem.loaded THEN mem
    ELSE [loaded     |-> TRUE,
          entries    |-> Recovered(dir).map,
          generation |-> Recovered(dir).gen,
          dirty      |-> FALSE]

(* The first read after a start; a read of a loaded map changes nothing. *)
Ready ==
    /\ phase = "idle"
    /\ ~mem.loaded
    /\ mem' = Opened
    /\ reply' = "none"
    /\ UNCHANGED <<files, phase>>

(* A read error, unlike an invalid snapshot, leaves the store unloaded and *)
(* makes the operation that met it fail; the next one tries again.         *)
LoadFails ==
    /\ phase = "idle"
    /\ ~mem.loaded
    /\ reply' \in {"none", "failed"}
    /\ UNCHANGED <<mem, files, phase>>

(* prepare_entry refuses a new key in a full table. *)
HasRoom(m, k) == k \in Present(m) \/ Cardinality(Present(m)) < MaxRecords

(* prepare_entry: a new key, and one that changes type, starts at zero. *)
Prepared(m, k, t) == IF m[k].type = t THEN m[k].v ELSE Zero

(* The DEFINE_SETTER functions: the map counts as changed only when the    *)
(* value differs from what prepare_entry left in the entry.                *)
SetScalar(k, t, v) ==
    /\ phase = "idle"
    /\ HasRoom(Opened.entries, k)
    /\ mem' = [Opened EXCEPT !.entries[k] = [type |-> t, v |-> v],
                             !.dirty = @ \/ Prepared(Opened.entries, k, t) # v]
    /\ reply' = "none"
    /\ UNCHANGED <<files, phase>>

(* dt_prefs_set_string: a fresh string entry holds no string at all, so    *)
(* any value differs from it.                                              *)
SetString(k, s) ==
    /\ phase = "idle"
    /\ HasRoom(Opened.entries, k)
    /\ mem' = [Opened EXCEPT !.entries[k] = [type |-> "string", v |-> s],
                             !.dirty = @ \/ Opened.entries[k] # [type |-> "string", v |-> s]]
    /\ reply' = "none"
    /\ UNCHANGED <<files, phase>>

(* The table is full: the setter reports failure, which the JNI editor     *)
(* ignores.                                                                *)
SetRefused(k) ==
    /\ phase = "idle"
    /\ ~HasRoom(Opened.entries, k)
    /\ mem' = Opened
    /\ reply' = "none"
    /\ UNCHANGED <<files, phase>>

(* Defect: removal does not mark the map as changed. *)
RemoveForgetsDirty(k) ==
    /\ phase = "idle"
    /\ mem' = [Opened EXCEPT !.entries[k] = NoEntry]
    /\ reply' = "none"
    /\ UNCHANGED <<files, phase>>

Remove(k) ==
    /\ phase = "idle"
    /\ mem' = [Opened EXCEPT !.entries[k] = NoEntry,
                             !.dirty = @ \/ k \in Present(Opened.entries)]
    /\ reply' = "none"
    /\ UNCHANGED <<files, phase>>

Clear ==
    /\ phase = "idle"
    /\ mem' = [Opened EXCEPT !.entries = EmptyMap,
                             !.dirty = @ \/ Present(Opened.entries) # {}]
    /\ reply' = "none"
    /\ UNCHANGED <<files, phase>>

-----------------------------------------------------------------------------
(* flush_locked, step by step *)

FlushFails ==
    /\ phase' = "idle"
    /\ reply' = "failed"

(* Nothing to write, too much to write, or on to the temporary file. *)
FlushStart ==
    /\ phase = "idle"
    /\ mem' = Opened
    /\ UNCHANGED files
    /\ \/ /\ ~Opened.dirty
          /\ reply' = "ok"
          /\ UNCHANGED phase
       \/ /\ Opened.dirty
          /\ Cardinality(Present(Opened.entries)) > MaxFile
          /\ FlushFails
       \/ /\ Opened.dirty
          /\ Cardinality(Present(Opened.entries)) <= MaxFile
          /\ Opened.generation < MaxGeneration
          /\ phase' = "temp"
          /\ reply' = "none"

(* Defect: the number does not advance. *)
NextGenerationSame == mem.generation

(* The number of the snapshot a flush writes. *)
NextGeneration == mem.generation + 1

(* Open, write, fsync and close; a failure removes the file again. *)
WriteTemp ==
    /\ phase = "temp"
    /\ \/ /\ temp' = Snapshot(NextGeneration, mem.entries)
          /\ phase' = "rotate"
          /\ UNCHANGED reply
       \/ /\ temp' = Missing
          /\ FlushFails
    /\ UNCHANGED <<mem, dir, images, damage>>

(* Defect: the old primary is unlinked instead of renamed. *)
RotatedByDeleting == [dir EXCEPT !.primary = Missing]

Rotated == [primary |-> Missing, backup |-> dir.primary]

(* rename(primary, backup), when there is a primary. *)
Rotate ==
    /\ phase = "rotate"
    /\ \/ /\ dir.primary.result = 0
          /\ phase' = "publish"
          /\ UNCHANGED <<dir, images, temp, reply>>
       \/ /\ dir.primary.result # 0
          /\ dir' = Rotated
          /\ images' = images \cup {Rotated}
          /\ phase' = "publish"
          /\ UNCHANGED <<temp, reply>>
       \/ /\ dir.primary.result # 0
          /\ temp' = Missing
          /\ FlushFails
          /\ UNCHANGED <<dir, images>>
    /\ UNCHANGED <<mem, damage>>

Published == [dir EXCEPT !.primary = temp]

(* rename(temp, primary). *)
Publish ==
    /\ phase = "publish"
    /\ \/ /\ dir' = Published
          /\ images' = images \cup {Published}
          /\ temp' = Missing
          /\ phase' = "sync"
          /\ UNCHANGED reply
       \/ /\ FlushFails
          /\ UNCHANGED <<dir, images, temp>>
    /\ UNCHANGED <<mem, damage>>

(* sync_parent_directory: it makes the renames permanent, or it fails. *)
SyncOutcomes == {{dir}, images}

(* Nobody looks at its result: either way the generation advances and the  *)
(* flush reports success.                                                  *)
Sync ==
    /\ phase = "sync"
    /\ images' \in SyncOutcomes
    /\ mem' = [mem EXCEPT !.generation = NextGeneration, !.dirty = FALSE]
    /\ phase' = "idle"
    /\ reply' = "ok"
    /\ UNCHANGED <<dir, temp, damage>>

-----------------------------------------------------------------------------
(* Failures *)

ProcessGone ==
    /\ mem' = Unloaded
    /\ phase' = "idle"
    /\ reply' = "none"

(* The process dies; the kernel keeps what it was told.  A temporary file  *)
(* that was being written is cut short.                                    *)
Crash ==
    /\ ProcessGone
    /\ temp' \in IF phase = "temp" THEN {temp, Invalid} ELSE {temp}
    /\ UNCHANGED <<dir, images, damage>>

PowerLoss ==
    /\ ProcessGone
    /\ \E d \in images : dir' = d /\ images' = {d}
    /\ temp' \in {temp, Missing, Invalid}
    /\ UNCHANGED damage

(* The medium ruins a snapshot while no process has the store open. *)
Damage ==
    /\ ~mem.loaded
    /\ phase = "idle"
    /\ damage < MaxDamage
    /\ damage' = damage + 1
    /\ \E f \in {"primary", "backup"} :
          /\ dir[f].result = 1
          /\ dir' = [dir EXCEPT ![f] = Invalid]
    /\ images' = {dir'}
    /\ UNCHANGED <<mem, temp, phase, reply>>

-----------------------------------------------------------------------------
Edit == \/ \E k \in Keys, t \in ScalarTypes, v \in Scalars : SetScalar(k, t, v)
        \/ \E k \in Keys, s \in Strings : SetString(k, s)
        \/ \E k \in Keys : SetRefused(k) \/ Remove(k)
        \/ Clear

Flush == FlushStart \/ WriteTemp \/ Rotate \/ Publish \/ Sync

Next == Ready \/ LoadFails \/ Edit \/ Flush \/ Crash \/ PowerLoss

(* The store on a medium that keeps what was written to it ... *)
Spec == Init /\ [][Next]_vars

(* ... and on one that does not. *)
FaultySpec == Init /\ [][Next \/ Damage]_vars

-----------------------------------------------------------------------------
(* Properties *)

ZeroScalar(e) == e.type \in ScalarTypes /\ e.v = Zero

(* A clean store has everything on disk: outside a flush, when g_dirty is  *)
(* off, a restart would bring back every entry of the map in memory, the   *)
(* scalars that are zero excepted (a setter does not see those as a        *)
(* change).  Removal counts: what is not in memory is not on disk either.  *)
CleanMeansSaved ==
    (mem.loaded /\ ~mem.dirty) =>
        \A k \in Keys : \/ Recovered(dir).map[k] = mem.entries[k]
                        \/ ZeroScalar(mem.entries[k])

(* The backup is exactly one generation behind the primary, so that the    *)
(* loader's choice of the newer file never resurrects an older map and the *)
(* loss of the primary costs one commit, not more.  It is true of every    *)
(* directory a power failure may leave.                                    *)
BackupIsPrevious ==
    \A d \in images :
        (d.primary.result = 1 /\ d.backup.result = 1)
            => d.primary.gen = d.backup.gen + 1

(* A flush that reports failure has not forgotten the edits: the map stays *)
(* dirty and the next commit writes it.                                    *)
FailureKeepsDirty == (reply = "failed" /\ mem.loaded) => mem.dirty

(* What the header says of commit() and apply(): the staged map is         *)
(* published durably (prefs_dt.h, above dt_prefs_flush).                   *)
CommitIsDurable ==
    reply = "ok" => \A d \in images : Recovered(d).map = mem.entries

(* The store is a durable map: publication is atomic under process death   *)
(* and power failure, at every step of a flush.                            *)
Abstract == INSTANCE DurableMap WITH
    staged   <- IF mem.loaded THEN mem.entries ELSE Recovered(dir).map,
    latest   <- Recovered(dir).map,
    outcomes <- {Recovered(d).map : d \in images}

RefinesDurableMap == Abstract!Spec

(* On a medium that ruins snapshots no step but the medium's own leaves    *)
(* the durable map, with one exception in the code: a ruined primary is    *)
(* rotated over the backup like any other, and until the new primary is in *)
(* place nothing valid is left.                                            *)
DurableWhateverRuined ==
    /\ Abstract!Init
    /\ [][(UNCHANGED damage /\ dir.primary.result # 2)
            => [Abstract!Next]_(Abstract!vars)]_vars

-----------------------------------------------------------------------------
(* Why it works: the inductive invariant, on both mediums                  *)

(* Between the steps of a flush: the lock holder's map is loaded and dirty, *)
(* the temporary file is the snapshot to publish, and the primary has been  *)
(* moved out of its way.                                                    *)
FlushInv ==
    /\ phase # "idle" => mem.loaded /\ mem.dirty
    /\ phase \in {"rotate", "publish"} => temp = Snapshot(mem.generation + 1, mem.entries)
    /\ phase = "publish" => dir.primary.result = 0
    /\ phase = "sync" => dir.primary = Snapshot(mem.generation + 1, mem.entries)

(* The generation in memory is the one on disk, so that the next snapshot  *)
(* is newer than both files; a rotation may have left none there.          *)
GenerationOnDisk ==
    mem.loaded /\ phase # "sync" /\ Recovered(dir).result = 1
        => mem.generation = Recovered(dir).gen

IInv == /\ TypeOK
        /\ FlushInv
        /\ GenerationOnDisk
        /\ BackupIsPrevious
        /\ CleanMeansSaved
        /\ FailureKeepsDirty

(* On the medium that keeps what was written no file is ever invalid.      *)
NothingRuined == \A d \in images : d.primary.result # 2 /\ d.backup.result # 2
=============================================================================
