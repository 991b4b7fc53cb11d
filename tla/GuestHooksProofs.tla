--------------------------- MODULE GuestHooksProofs ---------------------------
(***************************************************************************)
(* Proofs about the loader and about the hooks installed through it, for   *)
(* any modules, threads, depths, groups of methods, builds and lookups of  *)
(* other threads.                                                          *)
(*                                                                         *)
(* The loader's invariant follows the frames of a thread that nobody has   *)
(* overlapped: each frame but the last is a load in its constructors, and  *)
(* is the previous of the next.  The invariant of the patches follows the  *)
(* methods that have been tried: what became of each is settled, since its *)
(* body is recorded, and a recorded body is never written again.  That of  *)
(* the intro keeps every living helper among those still to be ended.      *)
(***************************************************************************)
EXTENDS GuestHooks, FiniteSetTheorems, FunctionTheorems, SequenceTheorems, TLAPS

(* A frame above another one returns to it. *)
Chained(stack) ==
    \A i \in 1 .. Len(stack) : i > 1 =>
        stack[i].previous = stack[i - 1].module /\ stack[i - 1].stage = "constructors"

(* What a frame that is the last has in the engine and in g_current. *)
Holds(frame) ==
    IF frame.stage = "mapping" THEN current = frame.previous /\ engine = frame.module
    ELSE current = frame.module /\ engine = saved[frame.module]

Undisturbed(t) ==
    Busy(t) => /\ Chained(frames[t]) /\ Holds(Top(t))
               /\ \A u \in Threads \ {t} : ~Busy(u)

LInv ==
    /\ LoaderTypeOK
    /\ \A t \in Threads \ overlapped : Undisturbed(t)
    /\ \A m \in Modules \ spoilt : saved[m] = m
    /\ engine = "none" => \A t \in Threads : ~Busy(t)

-----------------------------------------------------------------------------
(* Frames: opening and closing one. *)
LEMMA Pushed ==
    ASSUME NEW stack \in Seq(Frame), NEW frame \in Frame
    PROVE  LET s == Append(stack, frame)
           IN  /\ s \in Seq(Frame) /\ s # <<>> /\ Len(s) = Len(stack) + 1
               /\ s[Len(s)] = frame
               /\ \A i \in 1 .. Len(stack) : s[i] = stack[i]
OBVIOUS

LEMMA Popped ==
    ASSUME NEW stack \in Seq(Frame), stack # <<>>
    PROVE  LET s == SubSeq(stack, 1, Len(stack) - 1)
           IN  /\ s \in Seq(Frame) /\ Len(s) = Len(stack) - 1
               /\ \A i \in 1 .. Len(s) : s[i] = stack[i]
<1>1. Len(stack) \in Nat /\ Len(stack) > 0
      /\ \A i \in 1 .. Len(stack) - 1 : stack[i] \in Frame
  OBVIOUS
<1>2. CASE Len(stack) = 1
  <2>1. SubSeq(stack, 1, Len(stack) - 1) = <<>>
    BY <1>2, SubSeqEmpty
  <2> QED
    BY <1>2, <2>1
<1>3. CASE Len(stack) > 1
  <2> DEFINE s == SubSeq(stack, 1, Len(stack) - 1)
  <2>1. s \in Seq(Frame) /\ Len(s) = Len(stack) - 1
    <3>1. 1 \in Int /\ Len(stack) - 1 \in Int /\ 1 <= Len(stack) - 1
      BY <1>1, <1>3
    <3> QED
      BY <1>1, <3>1, SubSeqProperties
  <2>2. \A i \in 1 .. Len(s) : s[i] = stack[i]
    <3>1. ASSUME NEW i \in 1 .. Len(stack) - 1 PROVE s[i] = stack[i]
      BY <1>1, <1>3, <3>1
    <3> QED
      BY <2>1, <3>1
  <2> QED
    BY <2>1, <2>2
<1>4. Len(stack) = 1 \/ Len(stack) > 1
  <2>1. \A k \in Nat : k > 0 => k = 1 \/ k > 1
    OBVIOUS
  <2> QED
    BY <1>1, <2>1
<1> QED
  BY <1>2, <1>3, <1>4

LEMMA TopIsFrame ==
    ASSUME LoaderTypeOK, NEW t \in Threads, Busy(t)
    PROVE  /\ Len(frames[t]) \in Nat /\ Len(frames[t]) > 0
           /\ Top(t) \in Frame /\ frames[t] \in Seq(Frame)
<1>1. frames[t] \in Seq(Frame) /\ frames[t] # <<>>
  BY DEF LoaderTypeOK, Busy
<1> QED
  BY <1>1 DEF Top

-----------------------------------------------------------------------------
(* A call opens a frame.  "made" is the engine's and g_current's part of   *)
(* the step: what the new frame is to hold.                                *)
LEMMA OpenKeeps ==
    ASSUME LInv, NEW t \in Threads, NEW m \in Modules,
           NEW stage \in {"mapping", "lookup"},
           MayCall(t), Open(t, m, stage),
           UNCHANGED <<loaded, saved, spoilt>>,
           IF stage = "mapping" THEN engine' = m /\ current' = current
           ELSE engine' = saved[m] /\ current' = m
    PROVE  LInv'
<1> DEFINE frame == [module |-> m, previous |-> current, stage |-> stage]
<1>1. frame \in Frame
  BY DEF Frame, LInv, LoaderTypeOK
<1>2. frames[t] \in Seq(Frame)
  BY DEF LInv, LoaderTypeOK
<1>3. frames' = [frames EXCEPT ![t] = Append(frames[t], frame)]
  BY DEF Open
<1>4. frames'[t] = Append(frames[t], frame) /\ \A u \in Threads \ {t} : frames'[u] = frames[u]
  BY <1>3 DEF LInv, LoaderTypeOK
<1>5. /\ frames'[t] \in Seq(Frame) /\ frames'[t] # <<>> /\ Len(frames'[t]) = Len(frames[t]) + 1
      /\ frames'[t][Len(frames'[t])] = frame
      /\ \A i \in 1 .. Len(frames[t]) : frames'[t][i] = frames[t][i]
  BY <1>1, <1>2, <1>4, Pushed
<1>6. engine' \in Modules /\ engine' # "none" /\ current' \in Modules \cup {"none"}
  BY LoaderAssumption DEF LInv, LoaderTypeOK
<1>7. LoaderTypeOK'
  <2>1. frames' \in [Threads -> Seq(Frame)]
    BY <1>3, <1>4, <1>5 DEF LInv, LoaderTypeOK
  <2>2. overlapped' \subseteq Threads
    BY DEF Open, LInv, LoaderTypeOK
  <2> QED
    BY <1>6, <2>1, <2>2 DEF LInv, LoaderTypeOK
<1>8. ASSUME NEW u \in Threads \ overlapped' PROVE Undisturbed(u)'
  <2>1. CASE u = t
    <3>1. \A v \in Threads \ {t} : ~Busy(v)
      BY <2>1, <1>8 DEF Open
    <3>2. \A v \in Threads \ {t} : ~Busy(v)'
      BY <3>1, <1>4 DEF Busy
    <3>3. t \notin overlapped
      BY <2>1, <1>8, <3>1 DEF Open
    <3>4. Top(t)' = frame
      BY <1>5 DEF Top
    <3>5. Holds(Top(t))'
      BY <3>4 DEF Holds
    <3>6. Chained(frames'[t])
      <4>1. CASE frames[t] = <<>>
        BY <4>1, <1>5 DEF Chained
      <4>2. CASE frames[t] # <<>>
        <5>1. Busy(t) /\ Undisturbed(t)
          BY <4>2, <3>3 DEF LInv, Busy
        <5>2. Top(t).stage = "constructors" /\ current = Top(t).module
          BY <5>1 DEF MayCall, Undisturbed, Holds
        <5>3. Chained(frames[t])
          BY <5>1 DEF Undisturbed
        <5>4. Len(frames[t]) \in Nat /\ Len(frames[t]) > 0
          BY <4>2, <1>2
        <5>5. ASSUME NEW i \in 1 .. Len(frames'[t]), i > 1
              PROVE  /\ frames'[t][i].previous = frames'[t][i - 1].module
                     /\ frames'[t][i - 1].stage = "constructors"
          <6>1. i - 1 \in 1 .. Len(frames[t]) /\ frames'[t][i - 1] = frames[t][i - 1]
            BY <5>4, <5>5, <1>5
          <6>2. CASE i = Len(frames[t]) + 1
            BY <6>1, <6>2, <5>2, <5>4, <1>5 DEF Top
          <6>3. CASE i # Len(frames[t]) + 1
            <7>1. i \in 1 .. Len(frames[t]) /\ frames'[t][i] = frames[t][i]
              BY <6>3, <5>4, <5>5, <1>5
            <7> QED
              BY <7>1, <6>1, <5>3, <5>5 DEF Chained
          <6> QED
            BY <6>2, <6>3
        <5> QED
          BY <5>5 DEF Chained
      <4> QED
        BY <4>1, <4>2
    <3> QED
      BY <2>1, <3>2, <3>5, <3>6 DEF Undisturbed
  <2>2. CASE u # t
    <3>1. ~Busy(u)
      BY <2>2, <1>8 DEF Open
    <3>2. ~Busy(u)'
      BY <3>1, <2>2, <1>4 DEF Busy
    <3> QED
      BY <3>2 DEF Undisturbed
  <2> QED
    BY <2>1, <2>2
<1>9. \A n \in Modules \ spoilt' : saved'[n] = n
  BY DEF LInv
<1> QED
  BY <1>6, <1>7, <1>8, <1>9 DEF LInv

-----------------------------------------------------------------------------
(* A call returns.                                                         *)
LEMMA CloseKeeps ==
    ASSUME LInv, NEW t \in Threads, Busy(t), Close(t),
           UNCHANGED <<loaded, saved, spoilt>>,
           Top(t).previous # "none" =>
               current' = Top(t).previous /\ engine' = saved[Top(t).previous],
           engine' \in Modules, current' \in Modules \cup {"none"}
    PROVE  LInv'
<1> DEFINE n == Len(frames[t])
<1>1. n \in Nat /\ n > 0 /\ Top(t) \in Frame /\ frames[t] \in Seq(Frame)
  BY TopIsFrame DEF LInv
<1>2. frames' = [frames EXCEPT ![t] = SubSeq(frames[t], 1, n - 1)]
  BY DEF Close
<1>3. frames'[t] = SubSeq(frames[t], 1, n - 1) /\ \A u \in Threads \ {t} : frames'[u] = frames[u]
  BY <1>2 DEF LInv, LoaderTypeOK
<1>4. frames'[t] \in Seq(Frame) /\ Len(frames'[t]) = n - 1
      /\ \A i \in 1 .. n - 1 : frames'[t][i] = frames[t][i]
  BY <1>1, <1>3, Popped DEF Busy
<1>5. LoaderTypeOK'
  <2>1. frames' \in [Threads -> Seq(Frame)]
    BY <1>2, <1>3, <1>4 DEF LInv, LoaderTypeOK
  <2>2. overlapped' \subseteq Threads
    BY DEF Close, LInv, LoaderTypeOK
  <2> QED
    BY <2>1, <2>2 DEF LInv, LoaderTypeOK
<1>6. engine' # "none"
  BY LoaderAssumption
<1>7. ASSUME NEW u \in Threads \ overlapped', Busy(u)' PROVE Undisturbed(u)'
  <2>1. CASE u = t
    <3>1. n > 1 /\ n # 1 /\ n - 1 \in 1 .. n /\ n \in 1 .. n
      <4>1. frames'[t] # <<>>
        BY <2>1, <1>7 DEF Busy
      <4> QED
        BY <4>1, <1>1, <1>4
    <3>2. t \notin overlapped
      <4>1. n # 1
        BY <3>1
      <4>2. overlapped' = overlapped
        BY <4>1 DEF Close
      <4> QED
        BY <4>2, <2>1, <1>7
    <3>3. Undisturbed(t)
      BY <3>2 DEF LInv
    <3>4. Chained(frames[t]) /\ \A v \in Threads \ {t} : ~Busy(v)
      BY <3>3 DEF Undisturbed
    <3>5. \A v \in Threads \ {t} : ~Busy(v)'
      BY <3>4, <1>3 DEF Busy
    <3>6. frames[t][n].previous = frames[t][n - 1].module /\ frames[t][n - 1].stage = "constructors"
      BY <3>1, <3>4 DEF Chained
    <3>7. Top(t)' = frames[t][n - 1]
      BY <1>4, <3>1 DEF Top
    <3>8. frames[t][n - 1] \in Frame
      BY <1>1, <3>1
    <3>9. Top(t).previous # "none"
      BY <3>6, <3>8, LoaderAssumption DEF Top, Frame
    <3>10. Holds(Top(t))'
      BY <3>6, <3>7, <3>9 DEF Holds, Top
    <3>11. Chained(frames'[t])
      <4>1. ASSUME NEW i \in 1 .. Len(frames'[t]), i > 1
            PROVE  /\ frames'[t][i].previous = frames'[t][i - 1].module
                   /\ frames'[t][i - 1].stage = "constructors"
        <5>1. i \in 1 .. n - 1 /\ i - 1 \in 1 .. n - 1 /\ i \in 1 .. n
          BY <4>1, <1>1, <1>4
        <5>2. frames'[t][i] = frames[t][i] /\ frames'[t][i - 1] = frames[t][i - 1]
          BY <5>1, <1>4
        <5> QED
          BY <5>1, <5>2, <4>1, <3>4 DEF Chained
      <4> QED
        BY <4>1 DEF Chained
    <3> QED
      BY <2>1, <3>5, <3>10, <3>11 DEF Undisturbed
  <2>2. CASE u # t
    <3>1. Busy(u) /\ u \notin overlapped
      BY <2>2, <1>3, <1>7 DEF Busy, Close
    <3>2. ~Busy(t)
      BY <2>2, <3>1 DEF LInv, Undisturbed
    <3> QED
      BY <3>2
  <2> QED
    BY <2>1, <2>2
<1>8. \A m \in Modules \ spoilt' : saved'[m] = m
  BY DEF LInv
<1>9. \A u \in Threads \ overlapped' : Undisturbed(u)'
  BY <1>7 DEF Undisturbed
<1> QED
  BY <1>5, <1>6, <1>8, <1>9 DEF LInv

-----------------------------------------------------------------------------
(* The module of a load that nobody overlaps is saved as what it is, and   *)
(* the load goes on to its constructors.                                   *)
LEMMA MappedKeeps == ASSUME LInv, NEW t \in Threads, Mapped(t) PROVE LInv'
<1> DEFINE n == Len(frames[t])
           m == Top(t).module
<1>1. Busy(t) /\ Top(t).stage = "mapping"
  BY DEF Mapped, Doing
<1>2. n \in Nat /\ n > 0 /\ Top(t) \in Frame /\ frames[t] \in Seq(Frame) /\ m \in Modules
  BY <1>1, TopIsFrame DEF LInv, Frame
<1>3. frames' = [frames EXCEPT ![t] = [frames[t] EXCEPT ![n] = [frames[t][n] EXCEPT !.stage = "constructors"]]]
  BY DEF Mapped
<1>4. frames'[t] = [frames[t] EXCEPT ![n] = [frames[t][n] EXCEPT !.stage = "constructors"]]
      /\ \A u \in Threads \ {t} : frames'[u] = frames[u]
  BY <1>3 DEF LInv, LoaderTypeOK
<1>5. [frames[t][n] EXCEPT !.stage = "constructors"] \in Frame
  BY <1>2 DEF Top, Frame
<1>6. frames'[t] \in Seq(Frame) /\ Len(frames'[t]) = n
  BY <1>2, <1>4, <1>5
<1>7. /\ \A i \in 1 .. n - 1 : frames'[t][i] = frames[t][i]
      /\ frames'[t][n] = [frames[t][n] EXCEPT !.stage = "constructors"]
  BY <1>2, <1>4
<1>8. frames'[t][n].previous = frames[t][n].previous /\ frames'[t][n].module = m
      /\ frames'[t][n].stage = "constructors"
  BY <1>2, <1>7 DEF Top, Frame
<1>9. engine \in Modules /\ engine' = engine /\ engine # "none"
  BY <1>1, LoaderAssumption DEF Mapped, LInv, LoaderTypeOK
<1>10. saved' = [saved EXCEPT ![m] = engine] /\ current' = m
  BY DEF Mapped
<1>11. LoaderTypeOK'
  <2>1. frames' \in [Threads -> Seq(Frame)]
    BY <1>3, <1>4, <1>6 DEF LInv, LoaderTypeOK
  <2> QED
    BY <1>2, <1>9, <1>10, <2>1 DEF Mapped, LInv, LoaderTypeOK
<1>12. ASSUME t \notin overlapped PROVE engine = m
  BY <1>1, <1>12 DEF LInv, Undisturbed, Holds
<1>13. ASSUME NEW u \in Threads \ overlapped', Busy(u)' PROVE Undisturbed(u)'
  <2>1. u \notin overlapped
    BY <1>13 DEF Mapped
  <2>2. CASE u = t
    <3>1. Undisturbed(t) /\ engine = m
      BY <2>1, <2>2, <1>12 DEF LInv
    <3>2. Chained(frames[t]) /\ \A v \in Threads \ {t} : ~Busy(v)
      BY <3>1, <1>1 DEF Undisturbed
    <3>3. \A v \in Threads \ {t} : ~Busy(v)'
      BY <3>2, <1>4 DEF Busy
    <3>4. Top(t)' = frames'[t][n]
      BY <1>6 DEF Top
    <3>5. Holds(Top(t))'
      <4>1. saved'[m] = m
        BY <3>1, <1>2, <1>10 DEF LInv, LoaderTypeOK
      <4> QED
        BY <4>1, <3>1, <3>4, <1>8, <1>9, <1>10 DEF Holds
    <3>6. Chained(frames'[t])
      <4>1. ASSUME NEW i \in 1 .. Len(frames'[t]), i > 1
            PROVE  /\ frames'[t][i].previous = frames'[t][i - 1].module
                   /\ frames'[t][i - 1].stage = "constructors"
        <5>1. i \in 1 .. n /\ i - 1 \in 1 .. n - 1
          BY <4>1, <1>2, <1>6
        <5>2. frames'[t][i].previous = frames[t][i].previous
          <6>1. CASE i = n
            BY <6>1, <1>8
          <6>2. CASE i # n
            BY <6>2, <5>1, <1>2, <1>7
          <6> QED
            BY <6>1, <6>2
        <5>3. frames'[t][i - 1] = frames[t][i - 1]
          BY <5>1, <1>7
        <5> QED
          BY <5>1, <5>2, <5>3, <4>1, <3>2 DEF Chained
      <4> QED
        BY <4>1 DEF Chained
    <3> QED
      BY <2>2, <3>3, <3>5, <3>6 DEF Undisturbed
  <2>3. CASE u # t
    <3>1. Busy(u)
      BY <2>3, <1>4, <1>13 DEF Busy
    <3>2. ~Busy(t)
      BY <2>1, <2>3, <3>1 DEF LInv, Undisturbed
    <3> QED
      BY <1>1, <3>2
  <2> QED
    BY <2>2, <2>3
<1>14. ASSUME NEW k \in Modules \ spoilt' PROVE saved'[k] = k
  <2>1. CASE k = m
    <3>1. t \notin overlapped
      BY <2>1, <1>14 DEF Mapped
    <3> QED
      BY <3>1, <2>1, <1>2, <1>10, <1>12 DEF LInv, LoaderTypeOK
  <2>2. CASE k # m
    <3>1. k \notin spoilt
      BY <1>14 DEF Mapped
    <3> QED
      BY <3>1, <2>2, <1>2, <1>10 DEF LInv, LoaderTypeOK
  <2> QED
    BY <2>1, <2>2
<1>15. \A u \in Threads \ overlapped' : Undisturbed(u)'
  BY <1>13 DEF Undisturbed
<1> QED
  BY <1>9, <1>11, <1>14, <1>15 DEF LInv

-----------------------------------------------------------------------------
(* The engine has some module's state while a call is open. *)
LEMMA EngineIsSome == ASSUME LInv, NEW t \in Threads, Busy(t) PROVE engine \in Modules
BY DEF LInv, LoaderTypeOK

THEOREM LoaderInductive == LoaderSpec => []LInv
<1>1. LoaderInit => LInv
  BY DEF LoaderInit, LInv, LoaderTypeOK, Undisturbed, Busy
<1>2. LInv /\ [LoaderNext]_loader => LInv'
  <2> SUFFICES ASSUME LInv, [LoaderNext]_loader PROVE LInv'
    OBVIOUS
  <2>1. CASE UNCHANGED loader
    BY <2>1 DEF loader, LInv, LoaderTypeOK, Undisturbed, Holds, Busy, Top
  <2>2. ASSUME NEW t \in Threads, NEW m \in Modules, Load(t, m) PROVE LInv'
    BY <2>2, OpenKeeps DEF Load
  <2>3. ASSUME NEW t \in Threads, NEW m \in Modules, Lookup(t, m) PROVE LInv'
    BY <2>3, OpenKeeps DEF Lookup
  <2>4. ASSUME NEW t \in Threads, LoadFails(t) PROVE LInv'
    <3>1. Busy(t) /\ Top(t) \in Frame /\ engine \in Modules
      BY <2>4, TopIsFrame, EngineIsSome DEF LoadFails, Doing, LInv
    <3>2. engine' \in Modules /\ current' \in Modules \cup {"none"}
      BY <2>4, <3>1 DEF LoadFails, RestoreAfterFailure, Restore, Frame, LInv, LoaderTypeOK
    <3> QED
      BY <2>4, <3>1, <3>2, CloseKeeps DEF LoadFails, RestoreAfterFailure, Restore
  <2>5. ASSUME NEW t \in Threads, Mapped(t) PROVE LInv'
    BY <2>5, MappedKeeps
  <2>6. ASSUME NEW t \in Threads, LoadDone(t) PROVE LInv'
    <3>1. Busy(t) /\ Top(t) \in Frame /\ engine \in Modules
      BY <2>6, TopIsFrame, EngineIsSome DEF LoadDone, Doing, LInv
    <3>2. engine' \in Modules /\ current' \in Modules \cup {"none"}
      BY <2>6, <3>1 DEF LoadDone, Restore, Frame, LInv, LoaderTypeOK
    <3> QED
      BY <2>6, <3>1, <3>2, CloseKeeps DEF LoadDone, Restore
  <2>7. ASSUME NEW t \in Threads, LookupDone(t) PROVE LInv'
    <3>1. Busy(t) /\ Top(t) \in Frame /\ engine \in Modules
      BY <2>7, TopIsFrame, EngineIsSome DEF LookupDone, Doing, LInv
    <3>2. engine' \in Modules /\ current' \in Modules \cup {"none"}
      BY <2>7, <3>1 DEF LookupDone, Restore, Frame, LInv, LoaderTypeOK
    <3> QED
      BY <2>7, <3>1, <3>2, CloseKeeps DEF LookupDone, Restore
  <2> QED
    BY <2>1, <2>2, <2>3, <2>4, <2>5, <2>6, <2>7 DEF LoaderNext
<1> QED
  BY <1>1, <1>2, PTL DEF LoaderSpec

(* Every variable of the loader keeps its type. *)
THEOREM LoaderTypeCorrect == LoaderSpec => []LoaderTypeOK
<1>1. LInv => LoaderTypeOK
  BY DEF LInv
<1> QED
  BY <1>1, LoaderInductive, PTL

(* A call that no other thread's call overlaps has the engine in the state *)
(* of its own module at every step, at any depth of nested loads: loader.c,*)
(* 240-243.                                                                *)
THEOREM CallsKeepTheirState == LoaderSpec => []OwnState
<1>1. LInv => OwnState
  <2> SUFFICES ASSUME LInv, NEW t \in Threads \ overlapped, Busy(t),
                      {frames[t][i].module : i \in 1 .. Len(frames[t])} \cap spoilt = {}
               PROVE  engine = Top(t).module
    BY DEF OwnState
  <2>1. Top(t) \in Frame /\ Len(frames[t]) \in 1 .. Len(frames[t])
    BY TopIsFrame DEF LInv
  <2>2. Top(t).module \in Modules \ spoilt
    BY <2>1 DEF Top, Frame
  <2>3. Holds(Top(t))
    BY DEF LInv, Undisturbed
  <2> QED
    BY <2>2, <2>3 DEF Holds, LInv
<1> QED
  BY <1>1, LoaderInductive, PTL

-----------------------------------------------------------------------------
(* MethodPatches *)

GroupAt(g) == 1 .. Len(Groups[g])
Method(g, i) == Groups[g][i]

(* The installation has got past the place i of group g. *)
Tried(g, i) ==
    \/ install = "installed"
    \/ group > g
    \/ group = g /\ queue # {} /\ i \notin queue

(* A body holds a hook only if it is recorded, and a recorded body holds   *)
(* one unless its page is shut.                                            *)
Recorded ==
    /\ \A b \in Methods : patch[b] # "none" => b \in bodies
    /\ \A b \in bodies : patch[b] # "none" \/ b \notin writable

CoreRuns ==
    \A i \in GroupAt(1) : Tried(1, i) => patch[body[Method(1, i)]] = Method(1, i)

(* Bodies that are not written any more, or never. *)
Kept == bodies \cup (Methods \ inside)

(* What became of a method that was tried, for good. *)
Settled(g, i) ==
    \/ patch[body[Method(g, i)]] # "none"
    \/ body[Method(g, i)] \notin inside \cap writable
    \/ /\ g \in Wholes
       /\ \E j \in 1 .. i - 1 : /\ body[Method(g, j)] \in Kept
                                /\ patch[body[Method(g, j)]] # Method(g, j)

OthersSettled ==
    \A g \in (2 .. Len(Groups)) \ missed : \A i \in GroupAt(g) : Tried(g, i) => Settled(g, i)

(* A method that was not tried yet has no hook of its own. *)
NotBefore ==
    \A g \in 1 .. Len(Groups) : \A i \in GroupAt(g) :
        install = "waiting" /\ ~Tried(g, i) => patch[body[Method(g, i)]] # Method(g, i)

PInv == /\ PatchTypeOK /\ Recorded /\ CoreRuns /\ OthersSettled /\ NotBefore
        /\ install # "waiting" => group = 0

-----------------------------------------------------------------------------
(* IntroFilm *)

Gone == {"none", "reaped"}

(* The helpers are spawned in their order. *)
InOrder(n) == \A i \in 1 .. 3 : helper[Spawned[i]] # "none" <=> i <= n

FInv ==
    /\ IntroTypeOK
    /\ video \in {"out", "original", "extract"} => InOrder(0)
    /\ video = "spawn" => \E n \in 0 .. 2 : InOrder(n)
    /\ video = "end" => \A h \in Helpers : helper[h] \notin Gone =>
                            \E i \in 1 .. Len(ending) : ending[i] = h
    /\ NoHelperSurvives
    /\ video \in {"spawn", "wait"} => \A h \in Helpers : helper[h] # "reaped"

-----------------------------------------------------------------------------
(* The frame *)

(* UnityMain looks methods up in a frame of its own, with a group at work. *)
Asking ==
    call # "render" /\ Busy(Unity) =>
        /\ Len(frames[Unity]) = 1
        /\ call = "gamepad" => group # 0 /\ queue = {}

GInv == LInv /\ PInv /\ FInv /\ Asking /\ TypeOK

-----------------------------------------------------------------------------
(* The methods, and the room for their bodies. *)
LEMMA GroupsAre ==
    /\ Len(Groups) \in Nat \ {0} /\ 1 \in 1 .. Len(Groups) /\ 1 \in Wholes
    /\ \A g \in 1 .. Len(Groups) :
          /\ Len(Groups[g]) \in Nat
          /\ \A i \in GroupAt(g) : Method(g, i) \in Methods
          /\ ToSet(Groups[g]) = {Method(g, i) : i \in GroupAt(g)}
    /\ \A g, h \in 1 .. Len(Groups) : \A i \in GroupAt(g) : \A j \in GroupAt(h) :
          Method(g, i) = Method(h, j) => g = h /\ i = j
    /\ Builds \subseteq [body : [Methods -> Methods], inside : SUBSET Methods, writable : SUBSET Methods]
    /\ "none" \notin Methods
<1> USE PatchAssumption DEF PatchAssumption, GroupAt, Method
<1> HIDE DEF Methods
<1>1. Len(Groups) \in Nat \ {0} /\ 1 \in 1 .. Len(Groups)
  OBVIOUS
<1>2. ASSUME NEW g \in 1 .. Len(Groups)
      PROVE  /\ Len(Groups[g]) \in Nat
             /\ \A i \in GroupAt(g) : Method(g, i) \in Methods
             /\ ToSet(Groups[g]) = {Method(g, i) : i \in GroupAt(g)}
  <2>1. Groups[g] \in Seq(Methods)
    OBVIOUS
  <2> QED
    BY <2>1 DEF ToSet
<1> QED
  BY <1>1, <1>2

LEMMA MethodsFinite == IsFiniteSet(Methods)
<1>1. ASSUME NEW g \in 1 .. Len(Groups) PROVE IsFiniteSet(ToSet(Groups[g]))
  <2> DEFINE f == [i \in GroupAt(g) |-> Method(g, i)]
  <2>1. IsFiniteSet(GroupAt(g))
    <3>1. 1 \in Int /\ Len(Groups[g]) \in Int
      BY GroupsAre
    <3> QED
      BY <3>1, FS_Interval DEF GroupAt
  <2>2. f \in Surjection(GroupAt(g), ToSet(Groups[g]))
    <3>1. ToSet(Groups[g]) = {Method(g, i) : i \in GroupAt(g)}
      BY GroupsAre
    <3>2. f \in [GroupAt(g) -> ToSet(Groups[g])]
      BY <3>1
    <3>3. \A m \in ToSet(Groups[g]) : \E i \in GroupAt(g) : f[i] = m
      BY <3>1
    <3> QED
      BY <3>2, <3>3, Fun_IsSurj
  <2> QED
    BY <2>1, <2>2, FS_Surjection
<1>2. IsFiniteSet({ToSet(Groups[g]) : g \in 1 .. Len(Groups)})
  <2> DEFINE S == {ToSet(Groups[g]) : g \in 1 .. Len(Groups)}
             f == [g \in 1 .. Len(Groups) |-> ToSet(Groups[g])]
  <2>1. IsFiniteSet(1 .. Len(Groups))
    BY GroupsAre, FS_Interval
  <2>2. f \in Surjection(1 .. Len(Groups), S)
    BY Fun_IsSurj
  <2> QED
    BY <2>1, <2>2, FS_Surjection
<1> QED
  BY <1>1, <1>2, FS_UNION DEF Methods

(* Every body finds room: more than the methods there cannot be.           *)
LEMMA Records ==
    ASSUME PatchTypeOK, NEW b \in Methods
    PROVE  Record(b) = IF b \in inside THEN bodies \cup {b} ELSE bodies
<1> SUFFICES ASSUME b \notin bodies
             PROVE  Record(b) = IF b \in inside THEN bodies \cup {b} ELSE bodies
  BY DEF Record, Taken
<1>1. bodies \in SUBSET Methods /\ bodies # Methods
  BY DEF PatchTypeOK
<1>2. Cardinality(Methods) \in Nat /\ Cardinality(bodies) \in Nat
  BY <1>1, MethodsFinite, FS_Subset, FS_CardinalityType
<1>3. Cardinality(bodies) <= Cardinality(Methods) /\ Cardinality(bodies) # Cardinality(Methods)
  BY <1>1, MethodsFinite, FS_Subset
<1>4. Slots \in Nat /\ Cardinality(Methods) <= Slots
  BY PatchAssumption DEF PatchAssumption
<1> QED
  BY <1>2, <1>3, <1>4 DEF Record, Taken

-----------------------------------------------------------------------------
(* What the group at work leaves when it is done: all of it is tried.      *)
LEMMA PatchInitInv == PatchInit => PInv
<1> SUFFICES ASSUME PatchInit PROVE PInv
  OBVIOUS
<1> USE GroupsAre DEF PatchInit
<1>1. PatchTypeOK
  <2>1. [body |-> body, inside |-> inside, writable |-> writable] \in Builds
    <3>1. PICK build \in Builds : body = build.body /\ inside = build.inside /\ writable = build.writable
      OBVIOUS
    <3>2. build \in [body : [Methods -> Methods], inside : SUBSET Methods, writable : SUBSET Methods]
      BY <3>1
    <3>3. [body |-> body, inside |-> inside, writable |-> writable] = build
      BY <3>1, <3>2
    <3> QED
      BY <3>3
  <2> QED
    BY <2>1 DEF PatchTypeOK
<1>2. \A g \in 1 .. Len(Groups) : \A i \in GroupAt(g) : ~Tried(g, i)
  BY DEF Tried
<1>3. body \in [Methods -> Methods]
  BY <1>1 DEF PatchTypeOK
<1>4. \A g \in 1 .. Len(Groups) : \A i \in GroupAt(g) :
         patch[body[Method(g, i)]] = "none" /\ Method(g, i) # "none"
  BY <1>3
<1> QED
  BY <1>1, <1>2, <1>4 DEF PInv, Recorded, CoreRuns, OthersSettled, NotBefore

(* Types: a build's bodies, and the method at a place. *)
LEMMA BodyIs ==
    ASSUME PatchTypeOK
    PROVE  /\ body \in [Methods -> Methods] /\ inside \subseteq Methods /\ writable \subseteq Methods
           /\ \A g \in 1 .. Len(Groups) : \A i \in GroupAt(g) :
                 Method(g, i) \in Methods /\ body[Method(g, i)] \in Methods
<1>1. [body |-> body, inside |-> inside, writable |-> writable]
          \in [body : [Methods -> Methods], inside : SUBSET Methods, writable : SUBSET Methods]
  BY GroupsAre DEF PatchTypeOK
<1>2. body \in [Methods -> Methods] /\ inside \subseteq Methods /\ writable \subseteq Methods
  BY <1>1
<1> QED
  BY <1>2, GroupsAre

(* The call begins, or ends, or the lookups of the first group fail. *)
LEMMA BeginKeeps ==
    ASSUME PInv, Begin
    PROVE  PInv'
<1> USE DEF PInv, Begin
<1>1. PatchTypeOK'
  BY GroupsAre DEF PatchTypeOK
<1>2. \A g \in 1 .. Len(Groups) : \A i \in GroupAt(g) : ~Tried(g, i) /\ ~Tried(g, i)'
  BY DEF Tried, PatchTypeOK
<1>3. \A g \in 1 .. Len(Groups) : \A i \in GroupAt(g) : Settled(g, i)' <=> Settled(g, i)
  BY DEF Settled, Kept
<1> QED
  BY <1>1, <1>2, GroupsAre DEF Recorded, CoreRuns, OthersSettled, NotBefore, PatchTypeOK

(* Nothing is written between two methods. *)
LEMMA IdleKeeps ==
    ASSUME PInv, PatchTypeOK', UNCHANGED <<body, inside, writable, bodies, patch>>,
           missed \subseteq missed', install' # "waiting" => group' = 0,
           \A i \in GroupAt(1) : Tried(1, i)' => Tried(1, i),
           \A g \in (2 .. Len(Groups)) \ missed' : \A i \in GroupAt(g) :
               Tried(g, i)' => Tried(g, i),
           \A g \in 1 .. Len(Groups) : \A i \in GroupAt(g) :
               install' = "waiting" /\ ~Tried(g, i)' => install = "waiting" /\ ~Tried(g, i)
    PROVE  PInv'
<1>1. Recorded'
  BY DEF PInv, Recorded
<1>2. CoreRuns'
  BY DEF PInv, CoreRuns
<1>3. OthersSettled'
  <2>1. \A g \in 1 .. Len(Groups) : \A i \in GroupAt(g) : Settled(g, i)' <=> Settled(g, i)
    BY DEF Settled, Kept
  <2>2. ASSUME NEW g \in (2 .. Len(Groups)) \ missed', NEW i \in GroupAt(g), Tried(g, i)'
        PROVE  Settled(g, i)'
    <3>1. g \in 1 .. Len(Groups) /\ g \in (2 .. Len(Groups)) \ missed
      BY GroupsAre
    <3>2. Settled(g, i)
      BY <2>2, <3>1 DEF PInv, OthersSettled
    <3> QED
      BY <2>1, <3>1, <3>2
  <2> QED
    BY <2>2 DEF OthersSettled
<1>4. NotBefore'
  BY DEF PInv, NotBefore
<1> QED
  BY <1>1, <1>2, <1>3, <1>4 DEF PInv

(* The end of a group: the next one, or the end of the call. *)
LEMMA OnwardTries ==
    ASSUME PInv, group \in 1 .. Len(Groups), install = "waiting", Onward, queue' = {}
    PROVE  /\ group' \in 0 .. Len(Groups) /\ install' \in {"waiting", "installed"}
           /\ install' # "waiting" => group' = 0
           /\ \A g \in 1 .. Len(Groups) : \A i \in GroupAt(g) : Tried(g, i)' <=> g <= group
BY GroupsAre DEF Onward, Tried, PInv

(* The lookups of a group change nothing but how far the installation is.  *)
LEMMA FoundKeeps ==
    ASSUME PInv, NEW found, group # 0, queue = {}, Found(found)
    PROVE  PInv'
<1> DEFINE all == ToSet(Groups[group])
           offered == {i \in 1 .. Len(Groups[group]) :
                         Groups[group][i] \in found /\ (found = all \/ group \notin Wholes)}
<1>1. /\ group \in 1 .. Len(Groups) /\ install = "waiting" /\ PatchTypeOK
      /\ UNCHANGED <<body, inside, writable, bodies, patch>>
  BY GroupsAre DEF PInv, PatchTypeOK, Found
<1>2. \A g \in 1 .. Len(Groups) : \A i \in GroupAt(g) : Tried(g, i) <=> group > g
  BY <1>1 DEF Tried
<1>3. CASE group' = 0 /\ install' \in {"waiting", "refused"} /\ UNCHANGED <<queue, missed>>
           /\ group = 1
  <2>1. PatchTypeOK'
    BY <1>1, <1>3 DEF PatchTypeOK
  <2>2. \A g \in 1 .. Len(Groups) : \A i \in GroupAt(g) : ~Tried(g, i)' /\ ~Tried(g, i)
    BY <1>1, <1>2, <1>3 DEF Tried
  <2> QED
    BY <1>1, <1>3, <2>1, <2>2, GroupsAre, IdleKeeps
<1>4. ASSUME queue' = offered, missed' = IF found # all THEN missed \cup {group} ELSE missed,
             group = 1 => found = all,
             IF offered = {} THEN Onward ELSE UNCHANGED <<group, install>>
      PROVE  PInv'
  <2>1. /\ missed \subseteq missed' /\ missed' \subseteq 1 .. Len(Groups)
        /\ \A g \in (2 .. Len(Groups)) \ missed' : g = group => found = all
    BY <1>1, <1>4 DEF PatchTypeOK
  <2>2. found = all => offered = GroupAt(group)
    <3>1. \A i \in GroupAt(group) : Groups[group][i] \in all
      <4>1. all = {Method(group, i) : i \in GroupAt(group)}
        BY <1>1, GroupsAre
      <4> QED
        BY <4>1 DEF Method
    <3> QED
      BY <3>1 DEF GroupAt
  <2>3. CASE offered = {}
    <3>1. /\ group' \in 0 .. Len(Groups) /\ install' \in {"waiting", "installed"}
          /\ install' # "waiting" => group' = 0
          /\ \A g \in 1 .. Len(Groups) : \A i \in GroupAt(g) : Tried(g, i)' <=> g <= group
      BY <1>1, <1>4, <2>3, OnwardTries
    <3>2. PatchTypeOK'
      BY <1>1, <1>4, <2>1, <2>3, <3>1 DEF PatchTypeOK
    <3>3. \A i \in GroupAt(1) : Tried(1, i)' => Tried(1, i)
      BY <1>1, <1>2, <1>4, <2>2, <2>3, <3>1, GroupsAre
    <3>4. \A g \in (2 .. Len(Groups)) \ missed' : \A i \in GroupAt(g) : Tried(g, i)' => Tried(g, i)
      <4>1. ASSUME NEW g \in (2 .. Len(Groups)) \ missed', NEW i \in GroupAt(g), Tried(g, i)'
            PROVE  Tried(g, i)
        <5>1. g \in 1 .. Len(Groups) /\ g <= group
          BY <3>1, <4>1, GroupsAre
        <5>2. g # group
          BY <2>1, <2>2, <2>3, <4>1
        <5> QED
          BY <1>1, <1>2, <5>1, <5>2
      <4> QED
        BY <4>1
    <3>5. \A g \in 1 .. Len(Groups) : \A i \in GroupAt(g) :
             install' = "waiting" /\ ~Tried(g, i)' => install = "waiting" /\ ~Tried(g, i)
      BY <1>1, <1>2, <3>1
    <3> QED
      BY <1>1, <2>1, <3>1, <3>2, <3>3, <3>4, <3>5, IdleKeeps
  <2>4. CASE offered # {}
    <3>1. UNCHANGED <<group, install>> /\ queue' # {}
      BY <1>4, <2>4
    <3>2. PatchTypeOK'
      BY <1>1, <1>4, <2>1, <3>1 DEF PatchTypeOK
    <3>3. \A g \in 1 .. Len(Groups) : \A i \in GroupAt(g) :
             Tried(g, i)' <=> group > g \/ (g = group /\ i \notin offered)
      BY <1>1, <1>4, <3>1 DEF Tried
    <3> HIDE DEF offered
    <3>4. \A i \in GroupAt(1) : Tried(1, i)' => Tried(1, i)
      BY <1>1, <1>2, <1>4, <2>2, <3>3, GroupsAre
    <3>5. \A g \in (2 .. Len(Groups)) \ missed' : \A i \in GroupAt(g) : Tried(g, i)' => Tried(g, i)
      <4>1. \A g \in 2 .. Len(Groups) : g \in 1 .. Len(Groups)
        BY GroupsAre
      <4> QED
        BY <1>1, <1>2, <2>1, <2>2, <3>3, <4>1
    <3>6. \A g \in 1 .. Len(Groups) : \A i \in GroupAt(g) :
             install' = "waiting" /\ ~Tried(g, i)' => install = "waiting" /\ ~Tried(g, i)
      BY <1>1, <1>2, <3>3
    <3> QED
      BY <1>1, <2>1, <3>1, <3>2, <3>4, <3>5, <3>6, IdleKeeps
  <2> QED
    BY <2>3, <2>4
<1> QED
  BY <1>1, <1>3, <1>4 DEF Found, TryAgain

(* What the replacement of one method does to the bodies. *)
LEMMA ReplaceWrites ==
    ASSUME PInv, NEW m \in Methods,
           bodies' = Record(body[m]),
           patch' = IF Replaces(m) THEN [patch EXCEPT ![body[m]] = m] ELSE patch,
           UNCHANGED <<body, inside, writable>>
    PROVE  /\ bodies \subseteq bodies' /\ bodies' \subseteq Methods /\ body[m] \in Kept'
           /\ patch' \in [Methods -> Methods \cup {"none"}]
           /\ Recorded'
           /\ \A b \in Kept : patch'[b] = patch[b]
           /\ \A b \in Methods : patch'[b] = patch[b] \/ (b = body[m] /\ patch'[b] = m)
           /\ \A b \in Methods : patch[b] # "none" => patch'[b] = patch[b]
           /\ IF Replaces(m) THEN patch'[body[m]] = m
              ELSE patch'[body[m]] # "none" \/ body[m] \notin inside \cap writable
           /\ ~Replaces(m) => patch'[body[m]] = patch[body[m]]
<1>1. /\ PatchTypeOK /\ body[m] \in Methods /\ patch \in [Methods -> Methods \cup {"none"}]
      /\ bodies \subseteq Methods
  BY BodyIs DEF PInv, PatchTypeOK
<1>2. bodies' = IF body[m] \in inside THEN bodies \cup {body[m]} ELSE bodies
  BY <1>1, Records
<1>3. patch' \in [Methods -> Methods \cup {"none"}]
  BY <1>1
<1>4. \A b \in Methods : patch'[b] = patch[b] \/ (b = body[m] /\ patch'[b] = m)
  BY <1>1
<1>5. Replaces(m) => /\ body[m] \notin Kept /\ body[m] \in inside \cap writable
                     /\ patch'[body[m]] = m
  BY <1>1 DEF Replaces, Taken, Kept
<1>6. \A b \in Kept : patch'[b] = patch[b]
  BY <1>1, <1>5
<1>7. \A b \in Methods : patch[b] # "none" => patch'[b] = patch[b]
  BY <1>6 DEF PInv, Recorded, Kept
<1>8. ~Replaces(m) => patch' = patch /\ (body[m] \in bodies \/ body[m] \notin inside \cap writable)
  BY DEF Replaces, Taken
<1>9. ~Replaces(m) => patch'[body[m]] # "none" \/ body[m] \notin inside \cap writable
  BY <1>8 DEF PInv, Recorded
<1>10. Recorded'
  <2>1. \A b \in Methods : patch'[b] # "none" => b \in bodies'
    BY <1>1, <1>2, <1>4, <1>5, <1>8 DEF PInv, Recorded
  <2>2. ASSUME NEW b \in bodies' PROVE patch'[b] # "none" \/ b \notin writable
    <3>1. CASE b \in bodies
      BY <1>6, <3>1 DEF PInv, Recorded, Kept
    <3>2. CASE b = body[m] /\ b \in inside
      <4>1. m # "none"
        BY GroupsAre
      <4> QED
        BY <1>5, <1>9, <3>2, <4>1
    <3> QED
      BY <1>2, <3>1, <3>2
  <2> QED
    BY <2>1, <2>2 DEF Recorded
<1>11. bodies \subseteq bodies' /\ bodies' \subseteq Methods /\ body[m] \in Kept'
  BY <1>1, <1>2 DEF Kept
<1> QED
  BY <1>3, <1>4, <1>5, <1>6, <1>7, <1>8, <1>9, <1>10, <1>11

(* What is settled stays settled, and the method at work is now. *)
LEMMA ReplaceKeeps == ASSUME PInv, Replace PROVE PInv'
<1>1. PICK i \in queue :
         LET m == Groups[group][i] IN
         /\ \A j \in queue : i <= j
         /\ bodies' = Record(body[m])
         /\ patch' = IF Replaces(m) THEN [patch EXCEPT ![body[m]] = m] ELSE patch
         /\ IF Fatal(m) THEN
                 queue' = {} /\ group' = 0 /\ install' = "refused"
            ELSE /\ queue' = IF Replaces(m) \/ group \notin Wholes THEN queue \ {i} ELSE {}
                 /\ IF queue' = {} THEN Onward ELSE UNCHANGED <<group, install>>
         /\ UNCHANGED <<body, inside, writable, missed>>
  BY DEF Replace
<1> DEFINE m == Groups[group][i]
<1>2. /\ group \in 1 .. Len(Groups) /\ install = "waiting" /\ PatchTypeOK
      /\ queue \subseteq GroupAt(group)
  BY <1>1, GroupsAre DEF PInv, PatchTypeOK, GroupAt
<1>3. /\ i \in GroupAt(group) /\ m = Method(group, i) /\ m \in Methods /\ body[m] \in Methods
      /\ m # "none"
  BY <1>1, <1>2, BodyIs, GroupsAre DEF Method
<1>4. /\ bodies \subseteq bodies' /\ bodies' \subseteq Methods /\ body[m] \in Kept'
      /\ patch' \in [Methods -> Methods \cup {"none"}]
      /\ Recorded'
      /\ \A b \in Kept : patch'[b] = patch[b]
      /\ \A b \in Methods : patch'[b] = patch[b] \/ (b = body[m] /\ patch'[b] = m)
      /\ \A b \in Methods : patch[b] # "none" => patch'[b] = patch[b]
      /\ IF Replaces(m) THEN patch'[body[m]] = m
         ELSE patch'[body[m]] # "none" \/ body[m] \notin inside \cap writable
      /\ ~Replaces(m) => patch'[body[m]] = patch[body[m]]
  BY <1>1, <1>3, ReplaceWrites
<1>5. ~Replaces(m) => patch'[body[m]] # m
  <2>1. ~Tried(group, i)
    BY <1>1, <1>2 DEF Tried
  <2>2. patch[body[m]] # m
    BY <1>2, <1>3, <2>1 DEF PInv, NotBefore
  <2> QED
    BY <1>4, <2>2
<1>6. /\ Fatal(m) => group = 1 /\ ~Replaces(m) /\ group' = 0 /\ install' = "refused"
      /\ ~Fatal(m) => /\ group = 1 => Replaces(m)
                      /\ queue' = IF Replaces(m) \/ group \notin Wholes THEN queue \ {i} ELSE {}
                      /\ IF queue' = {} THEN Onward ELSE UNCHANGED <<group, install>>
  BY <1>1 DEF Fatal
<1>7. UNCHANGED <<body, inside, writable, missed>> /\ \A j \in queue : i <= j
  BY <1>1
<1>8. /\ group' \in 0 .. Len(Groups) /\ install' \in {"waiting", "installed", "refused"}
      /\ install' # "waiting" => group' = 0
      /\ queue' \subseteq IF group' = 0 THEN {} ELSE 1 .. Len(Groups[group'])
  <2>1. CASE Fatal(m)
    BY <1>1, <1>6, <2>1, GroupsAre
  <2>2. CASE ~Fatal(m) /\ queue' = {}
    BY <1>2, <1>6, <2>2, OnwardTries
  <2>3. CASE ~Fatal(m) /\ queue' # {}
    <3>1. group' = group /\ install' = install /\ queue' \subseteq queue
      BY <1>6, <2>3
    <3>2. group # 0 /\ group \in 0 .. Len(Groups)
      BY <1>2, GroupsAre
    <3> QED
      BY <1>2, <3>1, <3>2 DEF GroupAt
  <2> QED
    BY <2>1, <2>2, <2>3
<1> HIDE DEF m
(* The places that are tried now and were not before. *)
<1>9. ASSUME NEW g \in 1 .. Len(Groups), NEW k \in GroupAt(g), Tried(g, k)'
      PROVE  \/ Tried(g, k)
             \/ g = group /\ k = i /\ ~Fatal(m)
             \/ g = group /\ k \in queue /\ k # i /\ g \in Wholes /\ g # 1 /\ ~Replaces(m)
  <2>1. CASE Fatal(m)
    BY <1>6, <1>9, <2>1 DEF Tried
  <2>2. CASE ~Fatal(m) /\ queue' = {}
    <3>1. g <= group
      BY <1>2, <1>6, <1>9, <2>2, OnwardTries
    <3>2. CASE g # group
      BY <1>2, <3>1, <3>2 DEF Tried
    <3>3. CASE g = group
      BY <1>1, <1>6, <2>2, <3>3, GroupsAre DEF Tried
    <3> QED
      BY <3>2, <3>3
  <2>3. CASE ~Fatal(m) /\ queue' # {}
    BY <1>1, <1>2, <1>6, <1>9, <2>3 DEF Tried
  <2> QED
    BY <2>1, <2>2, <2>3
<1>10. ASSUME NEW g \in 1 .. Len(Groups), NEW k \in GroupAt(g), install' = "waiting",
              ~Tried(g, k)'
       PROVE  ~Tried(g, k) /\ ~(g = group /\ k = i)
  <2>1. ~Fatal(m)
    BY <1>6, <1>10
  <2>2. CASE queue' = {}
    <3>1. g > group
      BY <1>2, <1>6, <1>10, <2>1, <2>2, OnwardTries
    <3> QED
      BY <1>2, <3>1 DEF Tried
  <2>3. CASE queue' # {}
    BY <1>1, <1>2, <1>6, <1>10, <2>1, <2>3 DEF Tried
  <2> QED
    BY <2>2, <2>3
<1>11. ASSUME NEW g \in 1 .. Len(Groups), NEW k \in GroupAt(g), Settled(g, k)
       PROVE  Settled(g, k)'
  <2>1. \A j \in GroupAt(g) : body[Method(g, j)] \in Methods
    BY <1>2, BodyIs
  <2>2. CASE patch[body[Method(g, k)]] # "none" \/ body[Method(g, k)] \notin inside \cap writable
    BY <1>4, <1>7, <2>1, <2>2 DEF Settled
  <2>3. ASSUME g \in Wholes, NEW j \in 1 .. k - 1, body[Method(g, j)] \in Kept,
               patch[body[Method(g, j)]] # Method(g, j)
        PROVE  Settled(g, k)'
    BY <1>4, <1>7, <2>3 DEF Settled, Kept
  <2> QED
    BY <1>11, <2>2, <2>3 DEF Settled
<1>12. CoreRuns'
  <2>1. ASSUME NEW k \in GroupAt(1), Tried(1, k)'
        PROVE  patch'[body'[Method(1, k)]] = Method(1, k)
    <3>1. Method(1, k) # "none" /\ body[Method(1, k)] \in Methods /\ 1 \in 1 .. Len(Groups)
      BY <1>2, BodyIs, GroupsAre
    <3>2. Tried(1, k) \/ (1 = group /\ k = i /\ ~Fatal(m))
      BY <1>9, <2>1, <3>1
    <3>3. CASE Tried(1, k)
      BY <1>4, <1>7, <3>1, <3>3 DEF PInv, CoreRuns
    <3>4. CASE 1 = group /\ k = i /\ ~Fatal(m)
      BY <1>3, <1>4, <1>6, <1>7, <3>4
    <3> QED
      BY <3>2, <3>3, <3>4
  <2> QED
    BY <2>1 DEF CoreRuns
<1>13. OthersSettled'
  <2>1. ASSUME NEW g \in (2 .. Len(Groups)) \ missed', NEW k \in GroupAt(g), Tried(g, k)'
        PROVE  Settled(g, k)'
    <3>1. g \in 1 .. Len(Groups) /\ g \in (2 .. Len(Groups)) \ missed
      BY <1>7, GroupsAre
    <3>2. CASE Tried(g, k)
      BY <1>11, <3>1, <3>2 DEF PInv, OthersSettled
    <3>3. CASE g = group /\ k = i
      BY <1>3, <1>4, <1>7, <3>3 DEF Settled
    <3>4. CASE g = group /\ k \in queue /\ k # i /\ g \in Wholes /\ ~Replaces(m)
      <4>1. i \in 1 .. k - 1
        BY <1>2, <1>3, <1>7, <3>4, GroupsAre DEF GroupAt
      <4>2. body'[Method(g, i)] \in Kept' /\ patch'[body'[Method(g, i)]] # Method(g, i)
        BY <1>3, <1>4, <1>5, <1>7, <3>4
      <4> QED
        BY <3>4, <4>1, <4>2 DEF Settled
    <3> QED
      BY <1>9, <2>1, <3>1, <3>2, <3>3, <3>4
  <2> QED
    BY <2>1 DEF OthersSettled
<1>14. NotBefore'
  <2>1. ASSUME NEW g \in 1 .. Len(Groups), NEW k \in GroupAt(g), install' = "waiting",
               ~Tried(g, k)'
        PROVE  patch'[body'[Method(g, k)]] # Method(g, k)
    <3>1. ~Tried(g, k) /\ ~(g = group /\ k = i)
      BY <1>10, <2>1
    <3>2. patch[body[Method(g, k)]] # Method(g, k)
      BY <1>2, <3>1 DEF PInv, NotBefore
    <3>3. m # Method(g, k)
      BY <1>2, <1>3, <3>1, GroupsAre
    <3>4. body[Method(g, k)] \in Methods
      BY <1>2, BodyIs
    <3> QED
      BY <1>4, <1>7, <3>2, <3>3, <3>4
  <2> QED
    BY <2>1 DEF NotBefore
<1>15. PatchTypeOK'
  BY <1>2, <1>3, <1>4, <1>7, <1>8 DEF PatchTypeOK
<1> QED
  BY <1>4, <1>8, <1>12, <1>13, <1>14, <1>15 DEF PInv
-----------------------------------------------------------------------------
(* The helpers, in their order. *)
LEMMA SpawnedAre ==
    /\ Len(Spawned) = 3 /\ Spawned \in Seq(Helpers)
    /\ \A i \in 1 .. 3 : Spawned[i] \in Helpers
    /\ \A h \in Helpers : \E i \in 1 .. 3 : Spawned[i] = h
    /\ \A i, j \in 1 .. 3 : Spawned[i] = Spawned[j] => i = j
BY DEF Spawned, Helpers

(* How far the spawning has got is how many helpers there are. *)
LEMMA ReachedIs == ASSUME NEW n \in 0 .. 3, InOrder(n) PROVE Reached = n
<1>1. \A i \in 1 .. 3 : helper[Spawned[i]] # "none" <=> i <= n
  BY DEF InOrder
<1>2. ASSUME NEW k \in 0 .. 3, \A i \in 1 .. 3 : helper[Spawned[i]] # "none" <=> i <= k
      PROVE  k = n
  BY <1>1, <1>2
<1> QED
  BY <1>1, <1>2, SpawnedAre DEF Reached

LEMMA FilmInitInv == IntroInit => FInv
<1> SUFFICES ASSUME IntroInit PROVE FInv
  OBVIOUS
<1>1. \A h \in Helpers : helper[h] = "none"
  BY DEF IntroInit
<1>2. InOrder(0)
  BY <1>1, SpawnedAre DEF InOrder
<1>3. IntroTypeOK
  BY DEF IntroInit, IntroTypeOK
<1> QED
  BY <1>1, <1>2, <1>3 DEF IntroInit, FInv, NoHelperSurvives, Gone

(* No helper moves, and none is to be ended. *)
LEMMA StillKeeps ==
    ASSUME FInv, UNCHANGED helper, ending' = ending, video \in {"out", "original", "extract"},
           video' \in {"out", "original", "extract", "spawn", "stop"},
           media' \in {"waiting", "installed", "refused"}
    PROVE  FInv'
<1>1. InOrder(0) /\ InOrder(0)'
  BY DEF FInv, InOrder
<1>2. \A h \in Helpers : helper[h] = "none"
  <2>1. \A i \in 1 .. 3 : helper[Spawned[i]] = "none"
    BY <1>1 DEF InOrder
  <2> QED
    BY <2>1, SpawnedAre
<1>3. IntroTypeOK'
  BY DEF FInv, IntroTypeOK
<1>4. video' = "spawn" => \E n \in 0 .. 2 : InOrder(n)'
  BY <1>1
<1> QED
  BY <1>1, <1>2, <1>3, <1>4 DEF FInv, NoHelperSurvives

LEMMA SpawnKeeps == ASSUME FInv, Spawn PROVE FInv'
<1>1. PICK n \in 0 .. 2 : InOrder(n)
  BY DEF FInv, Spawn
<1> DEFINE new == Spawned[n + 1]
<1>2. Reached = n
  BY <1>1, ReachedIs
<1>3. /\ helper' = [helper EXCEPT ![new] = "running"]
      /\ video' = IF n + 1 = 3 THEN "wait" ELSE "spawn"
      /\ UNCHANGED <<media, ending>>
  BY <1>2, SpawnedAre DEF Spawn
<1>4. n + 1 \in 1 .. 3 /\ new \in Helpers
  BY SpawnedAre
<1>5. /\ IntroTypeOK
      /\ helper'[new] = "running" /\ \A h \in Helpers \ {new} : helper'[h] = helper[h]
  BY <1>3, <1>4 DEF FInv, IntroTypeOK
<1>6. IntroTypeOK'
  BY <1>3, <1>4, <1>5 DEF IntroTypeOK
<1>7. InOrder(n + 1)'
  <2>1. ASSUME NEW i \in 1 .. 3 PROVE helper'[Spawned[i]] # "none" <=> i <= n + 1
    <3>1. CASE i = n + 1
      BY <1>5, <3>1
    <3>2. CASE i # n + 1
      <4>1. Spawned[i] # new /\ Spawned[i] \in Helpers
        BY <1>4, <3>2, SpawnedAre
      <4>2. helper[Spawned[i]] # "none" <=> i <= n
        BY <1>1 DEF InOrder
      <4> QED
        BY <1>5, <3>2, <4>1, <4>2
    <3> QED
      BY <3>1, <3>2
  <2> QED
    BY <2>1 DEF InOrder
<1>8. \A h \in Helpers : helper'[h] # "reaped"
  BY <1>5 DEF FInv, Spawn
<1>9. video' = "spawn" => n + 1 \in 0 .. 2
  BY <1>3
<1> QED
  BY <1>3, <1>6, <1>7, <1>8, <1>9 DEF FInv, NoHelperSurvives

(* The thread in the hook turns to the helpers that are there. *)
LEMMA EndKeeps ==
    ASSUME FInv, video \in {"spawn", "wait"}, video' = "end", media' = media,
           helper' \in [Helpers -> {"none", "running", "asked", "killed", "exited", "reaped"}],
           ending' \in Seq(Helpers),
           \A h \in Helpers : helper'[h] \notin Gone => \E i \in 1 .. Len(ending') : ending'[i] = h
    PROVE  FInv'
BY DEF FInv, IntroTypeOK, NoHelperSurvives

LEMMA SpawnFailsKeeps == ASSUME FInv, SpawnFails PROVE FInv'
<1>1. PICK n \in 0 .. 2 : InOrder(n)
  BY DEF FInv, SpawnFails
<1>2. Reached = n
  BY <1>1, ReachedIs
<1>3. ending' = SubSeq(Spawned, 1, n) /\ UNCHANGED <<media, helper>> /\ video = "spawn" /\ video' = "end"
  BY <1>2 DEF SpawnFails, Alive
<1>4. ending' \in Seq(Helpers) /\ Len(ending') = n /\ \A i \in 1 .. n : ending'[i] = Spawned[i]
  <2>1. CASE n = 0
    <3>1. ending' = <<>>
      BY <1>3, <2>1, SubSeqEmpty
    <3> QED
      BY <2>1, <3>1
  <2>2. CASE n # 0
    <3>1. 1 \in Int /\ n \in Int /\ 1 <= n /\ n <= 3 /\ \A i \in 1 .. n : Spawned[i] \in Helpers
      BY <2>2, SpawnedAre
    <3>2. ending' \in Seq(Helpers) /\ Len(ending') = n
      BY <1>3, <3>1, SpawnedAre, SubSeqProperties
    <3>3. ASSUME NEW i \in 1 .. n PROVE ending'[i] = Spawned[i]
      BY <1>3, <3>1, SpawnedAre
    <3> QED
      BY <3>2, <3>3
  <2> QED
    BY <2>1, <2>2
<1>5. ASSUME NEW h \in Helpers, helper'[h] \notin Gone
      PROVE  \E i \in 1 .. Len(ending') : ending'[i] = h
  <2>1. PICK i \in 1 .. 3 : Spawned[i] = h
    BY SpawnedAre
  <2>2. i <= n
    BY <1>1, <1>3, <1>5, <2>1 DEF InOrder, Gone
  <2> QED
    BY <1>4, <2>1, <2>2
<1> QED
  BY <1>3, <1>4, <1>5, EndKeeps DEF FInv, IntroTypeOK

LEMMA WaitOverKeeps == ASSUME FInv, FilmOver \/ FilmSkipped PROVE FInv'
<1>1. CASE FilmOver
  <2>1. /\ ending' = <<"film", "decoder", "player">> /\ video = "wait" /\ video' = "end" /\ media' = media
        /\ helper' = [helper EXCEPT !["film"] = "reaped"]
    BY <1>1 DEF FilmOver
  <2>2. /\ ending' \in Seq(Helpers) /\ Len(ending') = 3
        /\ ending'[2] = "decoder" /\ ending'[3] = "player"
    BY <2>1 DEF Helpers
  <2>3. helper'["film"] = "reaped"
        /\ helper' \in [Helpers -> {"none", "running", "asked", "killed", "exited", "reaped"}]
    BY <2>1 DEF FInv, IntroTypeOK, Helpers
  <2>4. \A h \in Helpers : helper'[h] \notin Gone => \E i \in 1 .. Len(ending') : ending'[i] = h
    BY <2>2, <2>3 DEF Helpers, Gone
  <2> QED
    BY <2>1, <2>2, <2>3, <2>4, EndKeeps
<1>2. CASE FilmSkipped
  <2>1. /\ ending' = <<"film", "film", "decoder", "player">> /\ video = "wait" /\ video' = "end"
        /\ UNCHANGED <<media, helper>>
    BY <1>2 DEF FilmSkipped
  <2>2. /\ ending' \in Seq(Helpers) /\ Len(ending') = 4
        /\ ending'[2] = "film" /\ ending'[3] = "decoder" /\ ending'[4] = "player"
    BY <2>1 DEF Helpers
  <2>3. \A h \in Helpers : \E i \in 1 .. Len(ending') : ending'[i] = h
    BY <2>2 DEF Helpers
  <2> QED
    BY <2>1, <2>2, <2>3, EndKeeps DEF FInv, IntroTypeOK
<1> QED
  BY <1>1, <1>2

(* One helper changes its state, and stays one to be ended. *)
LEMMA HelperKeeps ==
    ASSUME FInv, NEW h \in Helpers, NEW state \in {"asked", "killed", "exited"},
           helper[h] \in {"running", "asked", "killed"},
           helper' = [helper EXCEPT ![h] = state], UNCHANGED <<media, video, ending>>
    PROVE  FInv'
<1>1. /\ IntroTypeOK /\ helper'[h] = state
      /\ \A g \in Helpers : helper'[g] = IF g = h THEN state ELSE helper[g]
  BY DEF FInv, IntroTypeOK
<1>2. IntroTypeOK'
  BY <1>1 DEF IntroTypeOK
<1>3. \A g \in Helpers : /\ helper'[g] # "none" <=> helper[g] # "none"
                         /\ helper'[g] \in Gone => helper[g] \in Gone
                         /\ helper[g] \in Gone => helper'[g] = helper[g]
  BY <1>1 DEF Gone
<1>4. \A n \in 0 .. 3 : InOrder(n)' <=> InOrder(n)
  BY <1>3, SpawnedAre DEF InOrder
<1>5. NoHelperSurvives'
  BY <1>3 DEF FInv, NoHelperSurvives, Gone
<1>6. video' = "end" => \A g \in Helpers : helper'[g] \notin Gone =>
                            \E i \in 1 .. Len(ending') : ending'[i] = g
  BY <1>3 DEF FInv
<1>7. video' \in {"spawn", "wait"} => \A g \in Helpers : helper'[g] # "reaped"
  BY <1>1 DEF FInv
<1>8. video' \in {"out", "original", "extract"} => InOrder(0)'
  BY <1>4 DEF FInv
<1>9. video' = "spawn" => \E n \in 0 .. 2 : InOrder(n)'
  BY <1>4 DEF FInv
<1> QED
  BY <1>2, <1>5, <1>6, <1>7, <1>8, <1>9 DEF FInv

LEMMA ReapKeeps == ASSUME FInv, NEW h \in Helpers, Reap(h) PROVE FInv'
<1>1. /\ video = "end" /\ ending # <<>> /\ Head(ending) = h /\ helper[h] = "exited"
      /\ helper' = [helper EXCEPT ![h] = "reaped"] /\ ending' = Tail(ending)
      /\ UNCHANGED <<media, video>>
  BY DEF Reap, Ending
<1>2. /\ IntroTypeOK /\ ending \in Seq(Helpers)
      /\ helper'[h] = "reaped" /\ \A g \in Helpers \ {h} : helper'[g] = helper[g]
  BY <1>1 DEF FInv, IntroTypeOK
<1>3. /\ ending' \in Seq(Helpers) /\ Len(ending') = Len(ending) - 1 /\ Len(ending) \in Nat
      /\ \A i \in 2 .. Len(ending) : ending'[i - 1] = ending[i]
      /\ ending[1] = h
  BY <1>1, <1>2
<1>4. IntroTypeOK'
  BY <1>1, <1>2, <1>3 DEF IntroTypeOK
<1>5. ASSUME NEW g \in Helpers, helper'[g] \notin Gone
      PROVE  \E i \in 1 .. Len(ending') : ending'[i] = g
  <2>1. g # h /\ helper[g] \notin Gone
    BY <1>2, <1>5 DEF Gone
  <2>2. PICK i \in 1 .. Len(ending) : ending[i] = g
    BY <1>1, <2>1 DEF FInv
  <2>3. i # 1 /\ i \in 2 .. Len(ending) /\ i - 1 \in 1 .. Len(ending')
    BY <1>3, <2>1, <2>2
  <2> QED
    BY <1>3, <2>2, <2>3
<1> QED
  BY <1>1, <1>4, <1>5 DEF FInv, NoHelperSurvives

LEMMA AskGoneKeeps == ASSUME FInv, NEW h \in Helpers, AskGone(h) PROVE FInv'
<1>1. /\ video = "end" /\ ending # <<>> /\ ending[1] = h /\ helper[h] = "reaped"
      /\ ending' = Tail(ending) /\ UNCHANGED <<media, video, helper>>
  BY DEF AskGone, Ending
<1>2. ending \in Seq(Helpers) /\ IntroTypeOK
  BY DEF FInv, IntroTypeOK
<1>3. /\ ending' \in Seq(Helpers) /\ Len(ending') = Len(ending) - 1 /\ Len(ending) \in Nat
      /\ \A i \in 2 .. Len(ending) : ending'[i - 1] = ending[i]
  BY <1>1, <1>2
<1>4. ASSUME NEW g \in Helpers, helper[g] \notin Gone
      PROVE  \E i \in 1 .. Len(ending') : ending'[i] = g
  <2>1. PICK i \in 1 .. Len(ending) : ending[i] = g
    BY <1>1, <1>4 DEF FInv
  <2>2. i # 1
    BY <1>1, <1>4, <2>1 DEF Gone
  <2>3. i \in 2 .. Len(ending) /\ i - 1 \in 1 .. Len(ending')
    BY <1>3, <2>2
  <2> QED
    BY <1>3, <2>1, <2>3
<1> QED
  BY <1>1, <1>2, <1>3, <1>4 DEF FInv, IntroTypeOK, NoHelperSurvives

LEMMA EndedKeeps == ASSUME FInv, Ended PROVE FInv'
<1>1. video = "end" /\ ending = <<>> /\ video' = "stop" /\ UNCHANGED <<media, helper, ending>>
  BY DEF Ended
<1>2. \A h \in Helpers : helper[h] \in Gone
  BY <1>1 DEF FInv
<1> QED
  BY <1>1, <1>2 DEF FInv, IntroTypeOK, NoHelperSurvives, Gone

(* The intro keeps its invariant, whatever the helpers do. *)
LEMMA FilmKeeps ==
    ASSUME FInv,
           \/ UNCHANGED intro
           \/ \E hookable \in BOOLEAN : InstallFilm(hookable)
           \/ StartVideo
           \/ FilmStep
           \/ \E h \in Helpers : HelperExits(h)
    PROVE  FInv'
<1>1. CASE UNCHANGED intro
  BY <1>1 DEF intro, FInv, IntroTypeOK, InOrder, NoHelperSurvives
<1>2. ASSUME NEW hookable \in BOOLEAN, InstallFilm(hookable) PROVE FInv'
  <2>1. media' \in {"installed", "refused"} /\ UNCHANGED <<video, helper, ending>>
    BY <1>2 DEF InstallFilm
  <2> QED
    BY <2>1 DEF FInv, IntroTypeOK, InOrder, NoHelperSurvives
<1>3. CASE StartVideo
  BY <1>3, StillKeeps DEF StartVideo
<1>4. ASSUME NEW yes \in BOOLEAN, OriginalReturns(yes) \/ Extract(yes) PROVE FInv'
  BY <1>4, StillKeeps DEF OriginalReturns, Extract, FInv, IntroTypeOK
<1>5. CASE StopVideo
  BY <1>5 DEF StopVideo, FInv, IntroTypeOK, NoHelperSurvives
<1>6. ASSUME NEW h \in Helpers, Ask(h) \/ Kill(h) \/ HelperExits(h) PROVE FInv'
  BY <1>6, HelperKeeps DEF Ask, Kill, GivenUp, HelperExits
<1> QED
  BY <1>1, <1>2, <1>3, <1>4, <1>5, <1>6, SpawnKeeps, SpawnFailsKeeps, WaitOverKeeps, ReapKeeps,
     AskGoneKeeps, EndedKeeps DEF FilmStep
-----------------------------------------------------------------------------
(* The frame is one of the loader's users: what is proved of the loader    *)
(* holds of its calls, the other threads' lookups included.                *)
THEOREM LoaderIsFollowed == Spec => LoaderSpec
<1>1. Init => LoaderInit
  BY DEF Init
<1>2. [Next]_vars => [LoaderNext]_loader
  <2> USE HooksAssumption, LoaderAssumption DEF Unity
  <2>1. UNCHANGED vars => UNCHANGED loader
    BY DEF vars
  <2>2. LoaderRuns => LoaderNext
    BY DEF LoaderRuns, LoaderNext
  <2>3. (\E t \in Threads : OtherLooksUp(t)) => LoaderNext
    BY DEF OtherLooksUp, LoaderNext
  <2>4. FrameStep => LoaderNext \/ UNCHANGED loader
    BY DEF FrameStep, FrameBegins, LooksForMethods, FindsMethods, Patches, GamepadReturns,
           FindsVideo, LoaderNext
  <2>5. MetadataRegistered \/ GamePlaysIntro \/ IntroRuns \/ Elsewhere => UNCHANGED loader
    BY DEF MetadataRegistered, GamePlaysIntro, IntroRuns, Elsewhere
  <2> QED
    BY <2>1, <2>2, <2>3, <2>4, <2>5 DEF Next
<1> QED
  BY <1>1, <1>2, PTL DEF Spec, LoaderSpec

(* UnityMain's own lookups open one frame and close it. *)
LEMMA LookupOpens ==
    ASSUME LoaderTypeOK, ~Busy(Unity), Lookup(Unity, Il2cpp)
    PROVE  Len(frames'[Unity]) = 1
<1>1. Unity \in Threads /\ frames[Unity] = <<>>
  BY LoaderAssumption DEF Unity, Busy
<1>2. frames'[Unity] = Append(<<>>, [module |-> Il2cpp, previous |-> current, stage |-> "lookup"])
  BY <1>1 DEF Lookup, Open, LoaderTypeOK
<1> QED
  BY <1>2

LEMMA LookupCloses ==
    ASSUME LoaderTypeOK, Len(frames[Unity]) = 1, LookupDone(Unity)
    PROVE  ~Busy(Unity)'
<1>1. Unity \in Threads
  BY LoaderAssumption DEF Unity
<1>2. frames'[Unity] = SubSeq(frames[Unity], 1, 0)
  BY <1>1 DEF LookupDone, Close, LoaderTypeOK
<1> QED
  BY <1>2, SubSeqEmpty DEF Busy

LEMMA OthersLeaveUnity ==
    ASSUME LoaderTypeOK, NEW t \in Threads, OtherLooksUp(t)
    PROVE  frames'[Unity] = frames[Unity]
BY LoaderAssumption DEF OtherLooksUp, Lookup, LookupDone, Open, Close, LoaderTypeOK, Unity

LEMMA PatchesStay == ASSUME PInv, UNCHANGED patches PROVE PInv'
<1> USE DEF patches
<1>1. \A g \in 1 .. Len(Groups) : \A i \in GroupAt(g) :
         (Tried(g, i)' <=> Tried(g, i)) /\ (Settled(g, i)' <=> Settled(g, i))
  BY DEF Tried, Settled, Kept
<1> QED
  BY <1>1, GroupsAre DEF PInv, PatchTypeOK, Recorded, CoreRuns, OthersSettled, NotBefore

-----------------------------------------------------------------------------
(* Everything together: a group at work is what UnityMain's lookups and    *)
(* replacements belong to.                                                 *)
THEOREM Invariance == Spec => []GInv
<1>1. Init => GInv
  <2> SUFFICES ASSUME Init PROVE GInv
    OBVIOUS
  <2>1. LInv
    BY DEF Init, LoaderInit, LInv, LoaderTypeOK, Undisturbed, Busy
  <2>2. PInv /\ FInv
    BY PatchInitInv, FilmInitInv DEF Init
  <2>3. Asking
    BY DEF Init, Asking
  <2>4. TypeOK
    <3>1. LoaderTypeOK /\ PatchTypeOK /\ IntroTypeOK
      BY <2>1, <2>2 DEF LInv, PInv, FInv
    <3>2. others \in 0 .. Budget
      BY HooksAssumption DEF Init
    <3>3. metadata \in BOOLEAN /\ call \in {"gamepad", "media", "render"}
      BY DEF Init
    <3> QED
      BY <3>1, <3>2, <3>3 DEF TypeOK
  <2> QED
    BY <2>1, <2>2, <2>3, <2>4 DEF GInv
<1>2. LInv' /\ GInv /\ [Next]_vars => GInv'
  <2> SUFFICES ASSUME LInv', GInv, [Next]_vars PROVE GInv'
    OBVIOUS
  <2>1. LoaderTypeOK /\ LoaderTypeOK' /\ PInv /\ FInv /\ Asking
        /\ metadata \in BOOLEAN /\ others \in 0 .. Budget /\ call \in {"gamepad", "media", "render"}
    BY DEF GInv, LInv, TypeOK
  <2> SUFFICES PInv' /\ FInv' /\ Asking' /\ metadata' \in BOOLEAN /\ others' \in 0 .. Budget
               /\ call' \in {"gamepad", "media", "render"}
    BY DEF GInv, LInv, PInv, FInv, TypeOK
  <2>2. CASE UNCHANGED vars
    BY <2>1, <2>2, PatchesStay, FilmKeeps DEF vars, unity, loader, patches, Asking, Busy
  <2>3. CASE LoaderRuns
    BY <2>1, <2>3, PatchesStay, FilmKeeps DEF LoaderRuns, unity, Asking
  <2>4. CASE MetadataRegistered
    BY <2>1, <2>4, PatchesStay, FilmKeeps DEF MetadataRegistered, Asking
  <2>5. ASSUME NEW t \in Threads, OtherLooksUp(t)
        PROVE  PInv' /\ FInv' /\ Asking' /\ metadata' \in BOOLEAN /\ others' \in 0 .. Budget
               /\ call' \in {"gamepad", "media", "render"}
    <3>1. UNCHANGED <<patches, intro, metadata, call>> /\ others' \in 0 .. Budget
      BY <2>1, <2>5, HooksAssumption DEF OtherLooksUp
    <3>2. frames'[Unity] = frames[Unity]
      BY <2>1, <2>5, OthersLeaveUnity
    <3>3. Asking'
      BY <2>1, <3>1, <3>2 DEF Asking, Busy, patches
    <3> QED
      BY <2>1, <3>1, <3>3, PatchesStay, FilmKeeps
  <2>6. CASE FrameBegins
    <3>1. UNCHANGED <<frames, intro, metadata, others>> /\ ~Busy(Unity)
          /\ call' \in {"gamepad", "media"}
      BY <2>6 DEF FrameBegins, loader
    <3>2. PInv'
      BY <2>1, <2>6, BeginKeeps, PatchesStay DEF FrameBegins
    <3>3. Asking'
      BY <3>1 DEF Asking, Busy
    <3> QED
      BY <2>1, <3>1, <3>2, <3>3, FilmKeeps
  <2>7. CASE LooksForMethods
    <3>1. UNCHANGED <<patches, intro, unity>> /\ (call = "gamepad" => group # 0 /\ queue = {})
          /\ Len(frames'[Unity]) = 1
      BY <2>1, <2>7, LookupOpens DEF LooksForMethods
    <3>2. Asking'
      BY <3>1 DEF Asking, patches, unity
    <3> QED
      BY <2>1, <3>1, <3>2, PatchesStay, FilmKeeps DEF unity
  <2>8. CASE FindsMethods
    <3>1. /\ UNCHANGED <<intro, unity>> /\ Busy(Unity) /\ LookupDone(Unity)
          /\ group # 0 /\ queue = {} /\ Len(frames[Unity]) = 1
      BY <2>1, <2>8 DEF FindsMethods, Doing, Asking
    <3>2. PInv'
      BY <2>1, <2>8, <3>1, FoundKeeps DEF FindsMethods
    <3>3. Asking'
      BY <2>1, <3>1, LookupCloses DEF Asking
    <3> QED
      BY <2>1, <3>1, <3>2, <3>3, FilmKeeps DEF unity
  <2>9. CASE Patches
    <3>1. UNCHANGED <<loader, intro, unity>> /\ Replace /\ queue # {} /\ call = "gamepad"
      BY <2>9 DEF Patches, Replace
    <3>2. ~Busy(Unity) /\ ~Busy(Unity)'
      BY <2>1, <3>1 DEF Asking, Busy, loader
    <3> QED
      BY <2>1, <3>1, <3>2, ReplaceKeeps, FilmKeeps DEF Asking, unity
  <2>10. CASE GamepadReturns
    <3>1. UNCHANGED <<frames, patches, intro, metadata, others>> /\ ~Busy(Unity)
          /\ call' \in {"media", "render"}
      BY <2>10 DEF GamepadReturns, loader
    <3> QED
      BY <2>1, <3>1, PatchesStay, FilmKeeps DEF Asking, Busy
  <2>11. CASE FindsVideo
    <3>1. /\ UNCHANGED <<patches, metadata, others>> /\ call' = "render"
          /\ UNCHANGED intro \/ \E hookable \in BOOLEAN : InstallFilm(hookable)
      BY <2>11 DEF FindsVideo
    <3> QED
      BY <2>1, <3>1, PatchesStay, FilmKeeps DEF Asking
  <2>12. CASE GamePlaysIntro \/ IntroRuns \/ Elsewhere
    <3>1. /\ UNCHANGED <<loader, patches, unity>>
          /\ StartVideo \/ FilmStep \/ \E h \in Helpers : HelperExits(h)
      BY <2>12 DEF GamePlaysIntro, IntroRuns, Elsewhere
    <3>2. Asking'
      BY <2>1, <3>1 DEF Asking, Busy, loader, patches, unity
    <3> QED
      BY <2>1, <3>1, <3>2, PatchesStay, FilmKeeps DEF unity
  <2> QED
    BY <2>2, <2>3, <2>4, <2>5, <2>6, <2>7, <2>8, <2>9, <2>10, <2>11, <2>12 DEF Next, FrameStep
<1> QED
  BY <1>1, <1>2, LoaderIsFollowed, LoaderInductive, PTL DEF Spec

(* Every variable of the loader, the patches, the intro and the frame      *)
(* keeps its type.                                                         *)
THEOREM TypeCorrect == Spec => []TypeOK
<1>1. GInv => TypeOK
  BY DEF GInv
<1> QED
  BY <1>1, Invariance, PTL

(* In the game's frames too a call that nobody overlaps works on its own   *)
(* module's state, whatever the lookups of other threads left behind.      *)
THEOREM FramesKeepTheirState == Spec => []OwnState
BY LoaderIsFollowed, CallsKeepTheirState, PTL

(* An installed bridge runs each of its core methods' own hook, and a hook *)
(* of every other method that was found, lies in the library and whose page*)
(* opened, for any folding of bodies (gamepad_dt.c:1191-1196).             *)
THEOREM BridgeIsWhole == Spec => []InstalledIsWhole
<1>1. GInv => InstalledIsWhole
  <2> SUFFICES ASSUME GInv, install = "installed" PROVE
        /\ \A m \in ToSet(Groups[1]) : patch[body[m]] = m
        /\ \A g \in (2 .. Len(Groups)) \ missed : \A i \in 1 .. Len(Groups[g]) :
             \/ patch[body[Groups[g][i]]] # "none"
             \/ body[Groups[g][i]] \notin inside \cap writable
             \/ g \in Wholes /\ \E j \in 1 .. i - 1 : patch[body[Groups[g][j]]] # Groups[g][j]
    BY DEF InstalledIsWhole
  <2>1. CoreRuns /\ OthersSettled /\ \A g \in 1 .. Len(Groups) : \A i \in GroupAt(g) : Tried(g, i)
    BY DEF GInv, PInv, Tried
  <2>2. \A m \in ToSet(Groups[1]) : patch[body[m]] = m
    BY SMTT(30), <2>1, GroupsAre DEF CoreRuns
  <2>3. ASSUME NEW g \in (2 .. Len(Groups)) \ missed, NEW i \in GroupAt(g)
        PROVE  Settled(g, i)
    <3>1. g \in 1 .. Len(Groups)
      BY GroupsAre
    <3> QED
      BY <2>1, <3>1 DEF OthersSettled
  <2> QED
    BY <2>2, <2>3 DEF Settled, GroupAt, Method
<1> QED
  BY <1>1, Invariance, PTL

(* When the game has its StopVideo no helper of the intro runs or waits to *)
(* be reaped, however far its spawning got and however the film ended      *)
(* (media_dt.c:309-317, 336-338).                                          *)
THEOREM HelpersAreGone == Spec => []NoHelperSurvives
<1>1. GInv => NoHelperSurvives
  BY DEF GInv, FInv
<1> QED
  BY <1>1, Invariance, PTL
=============================================================================
