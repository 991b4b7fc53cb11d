------------------------------ MODULE ModuleLoader ------------------------------
(***************************************************************************)
(* The module loader of loader.c.  The ELF engine below it works on one    *)
(* set of globals; a module keeps a saved copy of them, and every load and *)
(* every symbol lookup puts a copy in place and the previous one back.     *)
(* There is no lock.  Constructors run inside a load and may load and look *)
(* up themselves, which opens a frame above that of the load.              *)
(***************************************************************************)
EXTENDS Naturals, Sequences

CONSTANTS Modules, \* the guest's libraries
          Threads, \* threads that look symbols up
          Loader,  \* the one of them that loads: the thread of the guest's start
          Depth    \* bound: frames a thread has open

ASSUME LoaderAssumption ==
    /\ Loader \in Threads /\ Depth \in Nat \ {0}
    /\ "none" \notin Modules

VARIABLES loaded,     \* g_modules
          current,    \* g_current, or "none"
          engine,     \* the module whose state the engine's globals are
          saved,      \* the state of each module: the module it is the state of
          frames,     \* the calls each thread has open, the innermost last
          overlapped, \* history: threads whose open call another thread's overlapped
          spoilt      \* history: modules that were mapped during such an overlap

loader == <<loaded, current, engine, saved, frames, overlapped, spoilt>>

Frame == [module : Modules, previous : Modules \cup {"none"},
          stage : {"mapping", "constructors", "lookup"}]

LoaderTypeOK ==
    /\ loaded \subseteq Modules /\ spoilt \subseteq Modules
    /\ current \in Modules \cup {"none"} /\ engine \in Modules \cup {"none"}
    /\ saved \in [Modules -> Modules]
    /\ frames \in [Threads -> Seq(Frame)]
    /\ overlapped \subseteq Threads

LoaderInit ==
    /\ loaded = {} /\ current = "none" /\ engine = "none"
    /\ saved = [m \in Modules |-> m]
    /\ frames = [t \in Threads |-> <<>>]
    /\ overlapped = {} /\ spoilt = {}

-----------------------------------------------------------------------------
Busy(t) == frames[t] # <<>>
Top(t) == frames[t][Len(frames[t])]
Doing(t, stage) == Busy(t) /\ Top(t).stage = stage

MayCall(t) == Busy(t) => Top(t).stage = "constructors" /\ Len(frames[t]) < Depth

Open(t, m, stage) ==
    /\ frames' = [frames EXCEPT ![t] =
                    Append(@, [module |-> m, previous |-> current, stage |-> stage])]
    /\ LET others == {u \in Threads \ {t} : Busy(u)}
       IN  overlapped' = IF others = {} THEN overlapped ELSE overlapped \cup others \cup {t}

(* The copy of the module that was current is put back; without one the    *)
(* engine keeps what it has.                                               *)
Restore(previous) ==
    IF previous = "none" THEN UNCHANGED <<current, engine>>
    ELSE current' = previous /\ engine' = saved[previous]

(* Defect: a load that failed leaves the engine as it is. *)
LeftAlone(previous) == UNCHANGED <<current, engine>>

RestoreAfterFailure(previous) == Restore(previous)

Close(t) ==
    /\ frames' = [frames EXCEPT ![t] = SubSeq(@, 1, Len(@) - 1)]
    /\ overlapped' = IF Len(frames[t]) = 1 THEN overlapped \ {t} ELSE overlapped

-----------------------------------------------------------------------------
(* dt_module_load of a module that is not there yet *)
Load(t, m) ==
    /\ t = Loader /\ MayCall(t) /\ m \notin loaded
    /\ \A i \in 1 .. Len(frames[t]) : frames[t][i].module # m
    /\ Open(t, m, "mapping")
    /\ engine' = m
    /\ UNCHANGED <<loaded, current, saved, spoilt>>

LoadFails(t) ==
    /\ Doing(t, "mapping")
    /\ RestoreAfterFailure(Top(t).previous)
    /\ Close(t)
    /\ UNCHANGED <<loaded, saved, spoilt>>

(* The module is found and saved before its constructors run. *)
Mapped(t) ==
    /\ Doing(t, "mapping")
    /\ LET m == Top(t).module
       IN  /\ loaded' = loaded \cup {m} /\ current' = m
           /\ saved' = [saved EXCEPT ![m] = engine]
           /\ spoilt' = IF t \in overlapped THEN spoilt \cup {m} ELSE spoilt
    /\ frames' = [frames EXCEPT ![t][Len(frames[t])].stage = "constructors"]
    /\ UNCHANGED <<engine, overlapped>>

LoadDone(t) ==
    /\ Doing(t, "constructors")
    /\ LET m == Top(t).module
       IN  IF Top(t).previous = "none" THEN current' = m /\ engine' = saved[m]
           ELSE Restore(Top(t).previous)
    /\ Close(t)
    /\ UNCHANGED <<loaded, saved, spoilt>>

(* dt_module_symbol *)
Lookup(t, m) ==
    /\ MayCall(t) /\ m \in loaded
    /\ Open(t, m, "lookup")
    /\ engine' = saved[m] /\ current' = m
    /\ UNCHANGED <<loaded, saved, spoilt>>

(* The engine searches the module whose state it has. *)
Searched(t) == engine

LookupDone(t) ==
    /\ Doing(t, "lookup")
    /\ Restore(Top(t).previous)
    /\ Close(t)
    /\ UNCHANGED <<loaded, saved, spoilt>>

LoaderNext == \E t \in Threads :
    \/ \E m \in Modules : Load(t, m) \/ Lookup(t, m)
    \/ LoadFails(t) \/ Mapped(t) \/ LoadDone(t) \/ LookupDone(t)

LoaderSpec == LoaderInit /\ [][LoaderNext]_loader

-----------------------------------------------------------------------------
(* A call no other thread's call overlaps works on its own module's state  *)
(* at every step: after nested loads, after nested loads that failed, after*)
(* lookups of its constructors, and whatever module an earlier overlap     *)
(* left current (the comment at 240-243).                                  *)
OwnState ==
    \A t \in Threads \ overlapped :
        Busy(t) /\ {frames[t][i].module : i \in 1 .. Len(frames[t])} \cap spoilt = {}
            => engine = Top(t).module
=============================================================================
