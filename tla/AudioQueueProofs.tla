---------------------------- MODULE AudioQueueProofs ----------------------------
(***************************************************************************)
(* The buffer queue proved for any buffers, any ring and any number of     *)
(* players.  What the guest has enqueued is cut in three: buffers that     *)
(* have left the ring, the one at its head, and those behind, of which     *)
(* nothing is consumed.                                                    *)
(***************************************************************************)
EXTENDS AudioQueue, FiniteSetTheorems, FunctionTheorems, SequenceTheorems, TLAPS

(* What the constants are.                                                 *)
LEMMA Bounds ==
    /\ MaxBuffers \in Nat /\ MaxCreates \in Nat
    /\ Size \in [1 .. MaxBuffers -> Nat \ {0}]
    /\ Slots \in Nat \ {0} /\ Locator \in Nat \ {0} /\ Period \in Nat \ {0}
    /\ 0 \notin Handlers
BY AudioAssumption DEF AudioAssumption, Buffers

USE Bounds DEF Buffers, Indices, NoBuffer

(* Buffers that have left the ring: finished or cleared. *)
Past == enqueued - count

Slot(i) == Wrap(head + i - 1)

(* The ring holds the buffers enqueued last, in their order. *)
Ordered == count <= enqueued /\ \A i \in 1 .. count : ring[Slot(i)] = Past + i

(* Only the head is consumed in part. *)
Started ==
    \A i \in 1 .. count :
        IF i = 1 THEN offset[Slot(i)] < Size[Past + i] ELSE offset[Slot(i)] = 0

(* What was cleared was enqueued before everything else. *)
Dropped == \E c \in 0 .. Past : cleared = 1 .. c

(* Conversion holds units of finished buffers that were not cleared. *)
Streamed == \A i \in 1 .. Len(stream) : stream[i] \in (1 .. Past) \ cleared

(* Units of a buffer that have left the ring. *)
Left(b) ==
    IF b <= Past THEN Size[b] ELSE IF b = Past + 1 /\ count > 0 THEN offset[head] ELSE 0

Balance ==
    \A b \in Buffers :
        /\ heard[b] + UnitsInStream(b) <= Size[b]
        /\ b \notin cleared => heard[b] + UnitsInStream(b) = Left(b)

(* audio_callback runs on a running device only, and a registration is     *)
(* completed before the device runs.                                       *)
Quiet ==
    /\ device # "running" => audio = "idle"
    /\ callback[1] # callback[2] => device = "paused"

(* The head counts the finished buffers modulo the ring's length.          *)
HeadCounts == head = finished % Slots

AInv ==
    TypeOK /\ Ordered /\ Started /\ Dropped /\ Streamed /\ Balance /\ Quiet

-----------------------------------------------------------------------------
(* The ring *)

(* An index of the ring, or one that has gone past its end once. *)
Turned(k) == IF k < Slots THEN k ELSE k - Slots

LEMMA WrapIs ==
    ASSUME NEW k \in Nat, k < 2 * Slots
    PROVE  Wrap(k) = Turned(k)
<1>1. CASE k < Slots
  <2>1. k % Slots = k
    BY <1>1, SMT
  <2> QED
    BY <1>1, <2>1 DEF Wrap, Turned
<1>2. CASE k >= Slots
  <2>1. k % Slots = k - Slots
    BY <1>2, SMT
  <2> QED
    BY <1>2, <2>1 DEF Wrap, Turned
<1> QED
  BY <1>1, <1>2

LEMMA SlotIs ==
    ASSUME NEW h \in Indices, NEW i \in 1 .. Slots
    PROVE  Wrap(h + i - 1) = Turned(h + i - 1)
<1> DEFINE k == h + i - 1
<1>1. k \in Nat /\ k < 2 * Slots
  OBVIOUS
<1> QED
  BY <1>1, WrapIs

(* The slots of the buffers in the ring and the one behind them differ. *)
LEMMA SlotsDiffer ==
    ASSUME head \in Indices, NEW i \in 1 .. Slots
    PROVE  /\ Slot(i) \in Indices /\ Slot(1) = head
           /\ \A j \in 1 .. Slots : Slot(i) = Slot(j) => i = j
<1>1. head \in 0 .. Slots - 1
  OBVIOUS
<1>2. Slot(i) = Turned(head + i - 1) /\ Slot(1) = Turned(head + 1 - 1)
  <2>1. 1 \in 1 .. Slots
    OBVIOUS
  <2> QED
    BY <2>1, SlotIs, Zenon DEF Slot
<1>3. ASSUME NEW j \in 1 .. Slots, Slot(i) = Slot(j) PROVE i = j
  <2>1. Slot(j) = Turned(head + j - 1)
    BY SlotIs DEF Slot
  <2>2. Turned(head + i - 1) = Turned(head + j - 1)
    BY <1>2, <1>3, <2>1
  <2> QED
    BY <1>1, <2>2 DEF Turned
<1> QED
  BY <1>1, <1>2, <1>3 DEF Turned

(* When the head moves on, the second buffer is the first. *)
LEMMA SlotsMove ==
    ASSUME head \in Indices, head' = Wrap(head + 1)
    PROVE  /\ head' \in Indices
           /\ \A i \in 1 .. Slots - 1 : Slot(i)' = Slot(i + 1)
<1>1. head' = Turned(head + 1)
  BY WrapIs
<1>2. head' \in Indices
  BY <1>1 DEF Turned
<1>3. ASSUME NEW i \in 1 .. Slots - 1 PROVE Slot(i)' = Slot(i + 1)
  <2>1. Slot(i)' = Turned(head' + i - 1)
    BY <1>2, SlotIs DEF Slot
  <2>2. Slot(i + 1) = Turned(head + (i + 1) - 1)
    <3>1. i + 1 \in 1 .. Slots
      OBVIOUS
    <3> QED
      BY <3>1, SlotIs DEF Slot
  <2> QED
    BY <1>1, <2>1, <2>2 DEF Turned
<1> QED
  BY <1>2, <1>3

(* Counting one further modulo m. *)
LEMMA ModStep ==
    ASSUME NEW m \in Nat \ {0}, NEW a \in Nat
    PROVE  (a + 1) % m = IF (a % m) + 1 = m THEN 0 ELSE (a % m) + 1
<1> DEFINE q == a \div m
           r == a % m
           p == (a + 1) \div m
           t == (a + 1) % m
<1>1. q \in Int /\ p \in Int /\ r \in 0 .. m - 1 /\ t \in 0 .. m - 1
  BY SMT
<1>2. a = m * q + r
  BY SMT
<1>3. a + 1 = m * p + t
  BY SMT
<1> HIDE DEF q, r, p, t
<1> SUFFICES t = IF r + 1 = m THEN 0 ELSE r + 1
  BY DEF r, t
<1>4. CASE p = q
  <2>1. m * p = m * q
    BY <1>4
  <2>2. m * q \in Int
    BY <1>1
  <2> QED
    BY <1>1, <1>2, <1>3, <2>1, <2>2
<1>5. CASE p >= q + 1
  <2>1. m * p >= m * q + m
    BY <1>1, <1>5
  <2>2. m * p \in Int /\ m * q \in Int
    BY <1>1
  <2> QED
    BY <1>1, <1>2, <1>3, <2>1, <2>2
<1>6. CASE p <= q - 1
  <2>1. m * p <= m * q - m
    BY <1>1, <1>6
  <2>2. m * p \in Int /\ m * q \in Int
    BY <1>1
  <2> QED
    BY <1>1, <1>2, <1>3, <2>1, <2>2
<1> QED
  BY <1>1, <1>4, <1>5, <1>6

LEMMA HeadStep ==
    ASSUME head \in Indices, finished \in Nat, HeadCounts
    PROVE  Wrap(head + 1) = (finished + 1) % Slots
<1>1. (finished + 1) % Slots
        = IF (finished % Slots) + 1 = Slots THEN 0 ELSE (finished % Slots) + 1
  <2>1. Slots \in Nat \ {0}
    OBVIOUS
  <2> QED
    BY <2>1, ModStep, Zenon
<1>2. Wrap(head + 1) = Turned(head + 1) /\ (head + 1 < Slots \/ head + 1 = Slots)
  BY WrapIs
<1>3. (finished + 1) % Slots = IF head + 1 = Slots THEN 0 ELSE head + 1
  BY <1>1, Zenon DEF HeadCounts
<1> QED
  BY <1>2, <1>3 DEF Turned

-----------------------------------------------------------------------------
(* Counting the units of a buffer in a sequence *)
Places(n, s, b) == {i \in 1 .. n : s[i] = b}

LEMMA SomePlaces ==
    ASSUME NEW n \in Nat, NEW s, NEW b
    PROVE  IsFiniteSet(Places(n, s, b)) /\ Cardinality(Places(n, s, b)) \in Nat
<1>1. IsFiniteSet(1 .. n)
  BY FS_Interval
<1>2. Places(n, s, b) \in SUBSET (1 .. n)
  BY DEF Places
<1> QED
  BY <1>1, <1>2, FS_Subset, FS_CardinalityType

(* The units before a place and those behind it make up the whole. *)
Continues(t, s, k, m) == \A i \in 1 .. m : t[i] = s[k + i]

LEMMA PlacesSplit ==
    ASSUME NEW n \in Nat, NEW k \in 0 .. n, NEW s, NEW t, NEW b, Continues(t, s, k, n - k)
    PROVE  Cardinality(Places(n, s, b))
             = Cardinality(Places(k, s, b)) + Cardinality(Places(n - k, t, b))
<1> DEFINE A == Places(k, s, b)
           B == {i \in k + 1 .. n : s[i] = b}
           C == Places(n - k, t, b)
           f == [i \in C |-> k + i]
<1>1. IsFiniteSet(A) /\ IsFiniteSet(C) /\ Cardinality(A) \in Nat /\ Cardinality(C) \in Nat
  <2>1. k \in Nat /\ n - k \in Nat
    OBVIOUS
  <2> QED
    BY <2>1, SomePlaces
<1>2. f \in Bijection(C, B)
  <2> USE DEF Places, Continues
  <2>1. \A i \in C : k + i \in B
    OBVIOUS
  <2>2. f \in [C -> B]
    BY <2>1
  <2>3. \A i, j \in C : f[i] = f[j] => i = j
    OBVIOUS
  <2>4. ASSUME NEW m \in B PROVE \E i \in C : f[i] = m
    <3>1. m - k \in 1 .. n - k /\ k + (m - k) = m
      OBVIOUS
    <3>2. m - k \in C
      BY <3>1
    <3>3. f[m - k] = m
      BY <3>1, <3>2
    <3> QED
      BY <3>2, <3>3
  <2> QED
    BY <2>2, <2>3, <2>4, Fun_IsBij
<1>3. IsFiniteSet(B) /\ Cardinality(B) = Cardinality(C)
  <2>1. ExistsBijection(C, B)
    BY <1>2, Zenon DEF ExistsBijection
  <2> QED
    BY <2>1, <1>1, FS_Bijection
<1>4. A \cup B = Places(n, s, b) /\ A \cap B = {}
  BY DEF Places
<1>5. Cardinality(A \cup B) = Cardinality(A) + Cardinality(B) - Cardinality(A \cap B)
  BY <1>1, <1>3, FS_Union
<1>6. Cardinality(A \cap B) = 0
  BY <1>4, FS_EmptySet
<1> HIDE DEF A, B, C
<1>7. Cardinality(A \cup B) = Cardinality(A) + Cardinality(C)
  BY <1>1, <1>3, <1>5, <1>6
<1> QED
  BY <1>4, <1>7 DEF A, C

(* In a sequence of one buffer's units every place is that buffer's. *)
AllAre(n, s, c) == \A i \in 1 .. n : s[i] = c

LEMMA PlacesAlike ==
    ASSUME NEW n \in Nat, NEW s, NEW c, NEW b, AllAre(n, s, c)
    PROVE  Cardinality(Places(n, s, b)) = IF b = c THEN n ELSE 0
<1>1. CASE b = c
  <2>1. Places(n, s, b) = 1 .. n
    BY <1>1 DEF Places, AllAre
  <2>2. Cardinality(1 .. n) = n
    BY FS_Interval
  <2> QED
    BY <1>1, <2>1, <2>2
<1>2. CASE b # c
  <2>1. Places(n, s, b) = {}
    BY <1>2 DEF Places, AllAre
  <2> QED
    BY <1>2, <2>1, FS_EmptySet
<1> QED
  BY <1>1, <1>2

LEMMA StreamUnits ==
    ASSUME stream \in Seq(1 .. MaxBuffers), NEW b
    PROVE  /\ Len(stream) \in Nat /\ \A i \in 1 .. Len(stream) : stream[i] \in 1 .. MaxBuffers
           /\ UnitsInStream(b) = Cardinality(Places(Len(stream), stream, b))
           /\ UnitsInStream(b) \in Nat
<1>1. Len(stream) \in Nat /\ \A i \in 1 .. Len(stream) : stream[i] \in 1 .. MaxBuffers
  OBVIOUS
<1>2. UnitsInStream(b) = Cardinality(Places(Len(stream), stream, b))
  BY DEF UnitsInStream, Places
<1> QED
  BY <1>1, <1>2, SomePlaces

(* SDL_AudioStreamPut adds a buffer's units behind the others. *)
LEMMA PutUnits ==
    ASSUME stream \in Seq(1 .. MaxBuffers), NEW c \in 1 .. MaxBuffers, NEW n \in Nat,
           stream' = stream \o [i \in 1 .. n |-> c]
    PROVE  /\ stream' \in Seq(1 .. MaxBuffers)
           /\ \A i \in 1 .. Len(stream') :
                IF i <= Len(stream) THEN stream'[i] = stream[i] ELSE stream'[i] = c
           /\ \A b : UnitsInStream(b)' = UnitsInStream(b) + IF b = c THEN n ELSE 0
<1> DEFINE t == [i \in 1 .. n |-> c]
<1>1. t \in Seq(1 .. MaxBuffers) /\ Len(t) = n /\ \A i \in 1 .. n : t[i] = c
  OBVIOUS
<1>2. /\ stream' \in Seq(1 .. MaxBuffers) /\ Len(stream') = Len(stream) + n
      /\ \A i \in 1 .. Len(stream) + n :
            IF i <= Len(stream) THEN stream'[i] = stream[i] ELSE stream'[i] = t[i - Len(stream)]
  BY <1>1, ConcatProperties
<1>3. Len(stream) \in Nat
  OBVIOUS
<1>4. \A i \in 1 .. Len(stream') :
         IF i <= Len(stream) THEN stream'[i] = stream[i] ELSE stream'[i] = c
  BY <1>1, <1>2, <1>3
<1>5. ASSUME NEW b PROVE UnitsInStream(b)' = UnitsInStream(b) + IF b = c THEN n ELSE 0
  <2>1. Continues(t, stream', Len(stream), Len(stream') - Len(stream))
    BY <1>1, <1>2, <1>3 DEF Continues
  <2>2. Cardinality(Places(Len(stream'), stream', b))
          = Cardinality(Places(Len(stream), stream', b))
              + Cardinality(Places(Len(stream') - Len(stream), t, b))
    <3>1. Len(stream') \in Nat /\ Len(stream) \in 0 .. Len(stream')
      BY <1>2, <1>3
    <3> HIDE DEF t
    <3> QED
      BY <2>1, <3>1, PlacesSplit
  <2>3. Places(Len(stream), stream', b) = Places(Len(stream), stream, b)
    BY <1>2, <1>3 DEF Places
  <2>4. Cardinality(Places(n, t, b)) = IF b = c THEN n ELSE 0
    <3>1. AllAre(n, t, c)
      BY <1>1, Zenon DEF AllAre
    <3> HIDE DEF t
    <3> QED
      BY <3>1, PlacesAlike
  <2>5. Len(stream') - Len(stream) = n
    BY <1>2, <1>3
  <2>6. UnitsInStream(b)' = Cardinality(Places(Len(stream'), stream', b))
    BY DEF UnitsInStream, Places
  <2> HIDE DEF t
  <2> QED
    BY <2>2, <2>3, <2>4, <2>5, <2>6, StreamUnits
<1> QED
  BY <1>2, <1>4, <1>5

(* SDL_AudioStreamGet takes units from the front. *)
LEMMA GetUnits ==
    ASSUME stream \in Seq(1 .. MaxBuffers), NEW got \in 0 .. Len(stream),
           stream' = SubSeq(stream, got + 1, Len(stream))
    PROVE  /\ stream' \in Seq(1 .. MaxBuffers)
           /\ \A i \in 1 .. Len(stream') : \E j \in 1 .. Len(stream) : stream'[i] = stream[j]
           /\ \A b : UnitsInStream(b)
                       = Cardinality({i \in 1 .. got : stream[i] = b}) + UnitsInStream(b)'
<1>1. Len(stream) \in Nat /\ got \in Nat
  OBVIOUS
<1>2. /\ stream' \in Seq(1 .. MaxBuffers) /\ Len(stream') = Len(stream) - got
      /\ \A i \in 1 .. Len(stream) - got : stream'[i] = stream[got + i]
  <2>1. CASE got = Len(stream)
    <3>1. stream' = <<>>
      BY <1>1, <2>1, SubSeqEmpty
    <3> QED
      BY <1>1, <2>1, <3>1
  <2>2. CASE got # Len(stream)
    <3>1. /\ got + 1 \in Int /\ Len(stream) \in Int /\ got + 1 <= Len(stream)
          /\ \A i \in got + 1 .. Len(stream) : stream[i] \in 1 .. MaxBuffers
      <4>1. got + 1 \in Int /\ Len(stream) \in Int /\ got + 1 <= Len(stream)
        BY <1>1, <2>2
      <4>2. ASSUME NEW i \in got + 1 .. Len(stream) PROVE stream[i] \in 1 .. MaxBuffers
        <5>1. i \in 1 .. Len(stream)
          BY <1>1
        <5> QED
          BY <5>1, StreamUnits
      <4> QED
        BY <4>1, <4>2
    <3>2. stream' \in Seq(1 .. MaxBuffers) /\ Len(stream') = Len(stream) - got
      BY <1>1, <3>1, SubSeqProperties
    <3>3. ASSUME NEW i \in 1 .. Len(stream) - got PROVE stream'[i] = stream[got + i]
      BY <1>1, <3>1, SubSeqProperties
    <3> QED
      BY <3>2, <3>3
  <2> QED
    BY <2>1, <2>2
<1>3. ASSUME NEW i \in 1 .. Len(stream')
      PROVE  \E j \in 1 .. Len(stream) : stream'[i] = stream[j]
  <2>1. got + i \in 1 .. Len(stream) /\ stream'[i] = stream[got + i]
    BY <1>1, <1>2
  <2> QED
    BY <2>1
<1>4. ASSUME NEW b
      PROVE  UnitsInStream(b)
               = Cardinality({i \in 1 .. got : stream[i] = b}) + UnitsInStream(b)'
  <2>1. Cardinality(Places(Len(stream), stream, b))
          = Cardinality(Places(got, stream, b))
              + Cardinality(Places(Len(stream) - got, stream', b))
    <3>1. Continues(stream', stream, got, Len(stream) - got)
      BY <1>2, Zenon DEF Continues
    <3> QED
      BY <1>1, <3>1, PlacesSplit
  <2>2. UnitsInStream(b)' = Cardinality(Places(Len(stream'), stream', b))
    BY DEF UnitsInStream, Places
  <2> QED
    BY <1>2, <2>1, <2>2 DEF UnitsInStream, Places
<1> QED
  BY <1>2, <1>3, <1>4

-----------------------------------------------------------------------------
LEMMA InitInv == Init => AInv
<1> SUFFICES ASSUME Init PROVE AInv
  OBVIOUS
<1> USE DEF Init
<1>1. TypeOK
  <2>1. stream \in Seq(1 .. MaxBuffers) /\ cleared \subseteq 1 .. MaxBuffers
    OBVIOUS
  <2>2. callback \in Registration
    BY DEF Registration
  <2>3. converts \in BOOLEAN
    BY Zenon
  <2> QED
    BY <2>1, <2>2, <2>3 DEF TypeOK
<1>2. Ordered /\ Started /\ Dropped /\ Streamed
  BY DEF Ordered, Started, Dropped, Streamed, Past
<1>3. Balance
  <2>1. ASSUME NEW b \in 1 .. MaxBuffers
        PROVE  heard[b] = 0 /\ UnitsInStream(b) = 0 /\ Left(b) = 0 /\ Size[b] \in Nat
    <3>1. stream \in Seq(1 .. MaxBuffers) /\ Len(stream) = 0
      OBVIOUS
    <3>2. AllAre(Len(stream), stream, 0)
      BY <3>1 DEF AllAre
    <3>3. Cardinality(Places(Len(stream), stream, b)) = 0
      BY <3>1, <3>2, PlacesAlike
    <3> QED
      BY <3>1, <3>3, StreamUnits DEF Left, Past
  <2> QED
    BY <2>1 DEF Balance
<1>4. Quiet
  BY DEF Quiet
<1> QED
  BY <1>1, <1>2, <1>3, <1>4 DEF AInv

(* The buffer at the head, while there is one. *)
LEMMA HeadIs ==
    ASSUME AInv, count > 0
    PROVE  /\ AtHead = Past + 1 /\ AtHead \in 1 .. MaxBuffers /\ AtHead \notin cleared
           /\ offset[head] \in Nat /\ Size[AtHead] \in Nat /\ offset[head] < Size[AtHead]
           /\ Remaining = Size[AtHead] - offset[head]
           /\ Past \in Nat /\ Past + 1 <= enqueued
<1> USE DEF AInv, TypeOK
<1>1. 1 \in 1 .. count /\ 1 \in 1 .. Slots
  OBVIOUS
<1>2. Slot(1) = head
  BY <1>1, SlotsDiffer
<1>3. AtHead = Past + 1
  BY <1>1, <1>2 DEF Ordered, AtHead
<1>4. Past \in Nat /\ Past + 1 <= enqueued
  BY DEF Ordered, Past
<1>5. offset[head] < Size[AtHead]
  BY <1>1, <1>2, <1>3 DEF Started
<1>6. AtHead \notin cleared
  BY <1>3, <1>4 DEF Dropped
<1> QED
  BY <1>3, <1>4, <1>5, <1>6 DEF Remaining

-----------------------------------------------------------------------------
(* The steps that change the queue, one by one.                            *)
Steady == UNCHANGED <<ring, offset, head, count, enqueued, cleared>>

Ring == Ordered /\ Started /\ Dropped

LEMMA SteadyRing == ASSUME AInv, Steady PROVE Ring'
BY DEF AInv, Steady, Ring, Ordered, Started, Dropped, Past, Slot

(* When the queue is emptied. *)
LEMMA EmptyRing ==
    ASSUME AInv, count' = 0, enqueued' = enqueued, cleared' = 1 .. enqueued
    PROVE  Ring'
<1>1. enqueued \in Nat
  BY DEF AInv, TypeOK
<1>2. Past' = enqueued
  BY <1>1 DEF Past
<1>3. Ordered' /\ Started'
  BY <1>1 DEF Ordered, Started
<1>4. Dropped'
  <2>1. enqueued \in 0 .. Past' /\ cleared' = 1 .. enqueued
    BY <1>1, <1>2
  <2> QED
    BY <2>1 DEF Dropped
<1> QED
  BY <1>3, <1>4 DEF Ring

LEMMA EnqueueRing == ASSUME AInv, Enqueue PROVE Ring'
<1> USE DEF AInv, TypeOK
<1>1. /\ count < Slots /\ head' = head /\ count' = count + 1 /\ enqueued' = enqueued + 1
      /\ cleared' = cleared /\ Past' = Past
      /\ Back = Slot(count + 1) /\ \A i \in 1 .. Slots : Slot(i)' = Slot(i)
  <2>1. head + (count + 1) - 1 = head + count
    OBVIOUS
  <2> QED
    BY <2>1 DEF Enqueue, Full, Past, Back, Slot, player, history
<1>2. ASSUME NEW i \in 1 .. count
      PROVE  Slot(i) \in Indices /\ ring'[Slot(i)] = ring[Slot(i)]
             /\ offset'[Slot(i)] = offset[Slot(i)]
  <2>1. i \in 1 .. Slots /\ count + 1 \in 1 .. Slots /\ i # count + 1
    BY <1>1
  <2>2. Slot(i) \in Indices /\ Slot(i) # Back
    BY <1>1, <2>1, SlotsDiffer
  <2> QED
    BY <2>2 DEF Enqueue
<1>3. ring'[Slot(count + 1)] = enqueued + 1 /\ offset'[Slot(count + 1)] = 0
  <2>1. count + 1 \in 1 .. Slots
    BY <1>1
  <2>2. Slot(count + 1) \in Indices
    BY <2>1, SlotsDiffer
  <2> QED
    BY <1>1, <2>2 DEF Enqueue
<1>4. ASSUME NEW i \in 1 .. count' PROVE i \in 1 .. count \/ i = count + 1
  BY <1>1
<1>5. Past + (count + 1) = enqueued + 1
  BY DEF Past
<1>6. Ordered'
  <2>1. ASSUME NEW i \in 1 .. count' PROVE ring'[Slot(i)'] = Past' + i
    <3>1. CASE i \in 1 .. count
      BY <1>1, <1>2, <3>1 DEF Ordered
    <3>2. CASE i = count + 1
      BY SMTT(30), <1>1, <1>3, <1>5, <3>2
    <3> QED
      BY <1>4, <3>1, <3>2
  <2> QED
    BY <1>1, <2>1 DEF Ordered
<1>7. Started'
  <2>1. ASSUME NEW i \in 1 .. count'
        PROVE  IF i = 1 THEN offset'[Slot(i)'] < Size[Past' + i] ELSE offset'[Slot(i)'] = 0
    <3>1. CASE i \in 1 .. count
      BY <1>1, <1>2, <3>1 DEF Started
    <3>2. CASE i = count + 1
      <4>1. Size[Past + i] \in Nat \ {0}
        BY <1>5, <3>2 DEF Enqueue
      <4>2. offset'[Slot(i)'] = 0
        BY <1>1, <1>3, <3>2
      <4>3. Past' + i = Past + i
        BY <1>1
      <4>4. 0 < Size[Past' + i]
        BY <4>1, <4>3
      <4> QED
        BY <4>2, <4>4
    <3> QED
      BY <1>4, <3>1, <3>2
  <2> QED
    BY <2>1 DEF Started
<1>8. Dropped'
  BY <1>1 DEF Dropped
<1> QED
  BY <1>6, <1>7, <1>8 DEF Ring

(* Part of the head is consumed ... *)
LEMMA ConsumeRing ==
    ASSUME AInv, count > 0, NEW amount \in Nat, offset[head] + amount < Size[AtHead],
           offset' = [offset EXCEPT ![head] = @ + amount],
           UNCHANGED <<ring, head, count, enqueued, cleared>>
    PROVE  Ring'
<1> USE DEF AInv, TypeOK
<1>1. Past' = Past /\ \A i \in 1 .. Slots : Slot(i)' = Slot(i)
  BY DEF Past, Slot
<1>2. Ordered' /\ Dropped'
  <2>1. \A i \in 1 .. count : i \in 1 .. Slots /\ Slot(i)' = Slot(i)
    BY <1>1
  <2> QED
    BY <1>1, <2>1 DEF Ordered, Dropped
<1>3. ASSUME NEW i \in 1 .. count
      PROVE  IF i = 1 THEN offset'[Slot(i)'] < Size[Past' + i] ELSE offset'[Slot(i)'] = 0
  <2>1. i \in 1 .. Slots /\ 1 \in 1 .. Slots
    OBVIOUS
  <2>2. Slot(i) \in Indices /\ Slot(1) = head /\ (Slot(i) = Slot(1) => i = 1)
    BY <2>1, SlotsDiffer
  <2>3. CASE i = 1
    <3>1. /\ offset'[head] = offset[head] + amount /\ AtHead = Past + 1
          /\ Slot(i)' = head /\ Past' + i = Past + 1
      BY <1>1, <2>1, <2>2, <2>3, HeadIs
    <3> QED
      BY <2>3, <3>1
  <2>4. CASE i # 1
    <3>1. offset'[Slot(i)] = offset[Slot(i)]
      BY <2>2, <2>4
    <3> QED
      BY <1>1, <2>1, <2>4, <3>1 DEF Started
  <2> QED
    BY <2>3, <2>4
<1> QED
  BY <1>2, <1>3 DEF Started, Ring

(* ... or all of it, and it leaves the ring. *)
LEMMA FinishRing ==
    ASSUME AInv, count > 0, FinishHead, NEW x, offset' = [offset EXCEPT ![head] = x],
           UNCHANGED <<ring, enqueued, cleared>>
    PROVE  /\ Ring' /\ Past' = Past + 1
           /\ head' \in Indices /\ count' \in 0 .. Slots
           /\ count' > 0 => offset'[head'] = 0
<1> USE DEF AInv, TypeOK
<1>1. /\ head' = Wrap(head + 1) /\ count' = count - 1 /\ Past' = Past + 1
      /\ \A i \in 1 .. Slots - 1 : Slot(i)' = Slot(i + 1)
  BY SlotsMove DEF FinishHead, Past
<1>2. ASSUME NEW i \in 1 .. count'
      PROVE  /\ i + 1 \in 1 .. count /\ i + 1 \in 1 .. Slots /\ i + 1 # 1
             /\ Slot(i)' = Slot(i + 1) /\ Past' + i = Past + (i + 1)
             /\ offset'[Slot(i)'] = 0
  <2>1. i + 1 \in 1 .. count /\ i + 1 \in 1 .. Slots /\ i + 1 # 1 /\ i \in 1 .. Slots - 1
    BY <1>1
  <2>2. Slot(i)' = Slot(i + 1)
    BY <1>1, <2>1
  <2>3. Slot(i + 1) \in Indices /\ Slot(i + 1) # head
    <3>1. 1 \in 1 .. Slots
      OBVIOUS
    <3> QED
      BY <2>1, <3>1, SlotsDiffer
  <2>4. offset'[Slot(i + 1)] = 0
    BY <2>1, <2>3 DEF Started
  <2> QED
    BY <1>1, <2>1, <2>2, <2>4 DEF Past
<1>3. Ordered'
  <2>1. count' <= enqueued'
    BY <1>1 DEF Ordered
  <2>2. ASSUME NEW i \in 1 .. count' PROVE ring'[Slot(i)'] = Past' + i
    BY <1>2, <2>2 DEF Ordered
  <2> QED
    BY <2>1, <2>2 DEF Ordered
<1>4. Started'
  <2>1. ASSUME NEW i \in 1 .. count', i = 1 PROVE 0 < Size[Past' + i]
    <3>1. Past + (i + 1) \in 1 .. MaxBuffers
      BY <1>2, <2>1 DEF Ordered, Past
    <3> QED
      BY SMTT(30), <1>2, <3>1
  <2> QED
    BY SMTT(30), <1>2, <2>1 DEF Started
<1>5. Dropped'
  <2>1. \A c \in 0 .. Past : c \in 0 .. Past'
    BY <1>1 DEF Past
  <2> QED
    BY <2>1 DEF Dropped
<1>6. head' \in Indices /\ count' \in 0 .. Slots
  BY <1>1, SlotsMove DEF FinishHead
<1>7. ASSUME count' > 0 PROVE offset'[head'] = 0
  <2>1. 1 \in 1 .. count'
    BY <1>6, <1>7
  <2>2. Slot(1)' = head'
    <3>1. Slot(1)' = Wrap(head' + 1 - 1)
      BY DEF Slot
    <3>2. head' + 1 - 1 = head'
      <4>1. \A k \in Indices : k + 1 - 1 = k
        OBVIOUS
      <4> QED
        BY <1>6, <4>1
    <3>3. Wrap(head') = Turned(head')
      BY <1>6, WrapIs
    <3> QED
      BY <1>6, <3>1, <3>2, <3>3 DEF Turned
  <2> QED
    BY <1>2, <2>1, <2>2
<1> QED
  BY <1>1, <1>3, <1>4, <1>5, <1>6, <1>7 DEF Ring

-----------------------------------------------------------------------------
(* The units of a buffer, heard or in conversion.                          *)
Total(b) == heard[b] + UnitsInStream(b)

LEMMA TotalIs ==
    ASSUME AInv, NEW b \in 1 .. MaxBuffers
    PROVE  /\ heard[b] \in Nat /\ UnitsInStream(b) \in Nat /\ Total(b) \in Nat
           /\ Size[b] \in Nat /\ Total(b) <= Size[b] /\ heard[b] <= Size[b]
           /\ b \notin cleared => Total(b) = Left(b)
<1>1. heard[b] \in Nat /\ UnitsInStream(b) \in Nat /\ Size[b] \in Nat
  <2>1. stream \in Seq(1 .. MaxBuffers)
    BY DEF AInv, TypeOK
  <2> QED
    BY <2>1, StreamUnits DEF AInv, TypeOK
<1> QED
  BY <1>1 DEF AInv, Balance, Total

(* Of a buffer behind the head nothing is consumed. *)
LEMMA Untouched ==
    ASSUME AInv, NEW b \in 1 .. MaxBuffers, b > enqueued \/ (count > 0 /\ b > Past + 1)
    PROVE  heard[b] = 0 /\ UnitsInStream(b) = 0 /\ b \notin cleared
<1>1. Past \in Nat /\ b > Past /\ (b = Past + 1 => count = 0)
  BY DEF AInv, TypeOK, Ordered, Past
<1>2. b \notin cleared
  BY <1>1 DEF AInv, Dropped
<1>3. Left(b) = 0
  BY <1>1 DEF Left
<1> QED
  BY <1>2, <1>3, TotalIs DEF Total

LEMMA EmptyUnits ==
    ASSUME AInv, count' = 0, enqueued' = enqueued, cleared' = 1 .. enqueued,
           stream' = <<>>, heard' = heard
    PROVE  Streamed' /\ Balance'
<1>1. Streamed'
  BY DEF Streamed
<1>2. ASSUME NEW b \in 1 .. MaxBuffers PROVE UnitsInStream(b)' = 0
  <2>1. Len(stream') = 0 /\ stream' \in Seq(1 .. MaxBuffers)
    OBVIOUS
  <2>2. AllAre(Len(stream'), stream', 0)
    BY <2>1 DEF AllAre
  <2>3. Cardinality(Places(Len(stream'), stream', b)) = 0
    BY <2>1, <2>2, PlacesAlike
  <2> QED
    BY <2>3 DEF UnitsInStream, Places
<1>3. enqueued \in Nat /\ Past' = enqueued
  BY DEF AInv, TypeOK, Past
<1>4. ASSUME NEW b \in 1 .. MaxBuffers
      PROVE  /\ heard'[b] + UnitsInStream(b)' <= Size[b]
             /\ b \notin cleared' => heard'[b] + UnitsInStream(b)' = Left(b)'
  <2>1. heard'[b] + UnitsInStream(b)' <= Size[b]
    BY <1>2, TotalIs
  <2>2. ASSUME b \notin cleared' PROVE heard'[b] + UnitsInStream(b)' = Left(b)'
    <3>1. b > enqueued
      BY <1>3, <2>2
    <3>2. heard[b] = 0
      BY <3>1, Untouched
    <3>3. Left(b)' = 0
      BY <1>3, <3>1 DEF Left
    <3> QED
      BY <1>2, <3>2, <3>3
  <2> QED
    BY <2>1, <2>2
<1> QED
  BY <1>1, <1>4 DEF Balance

LEMMA EnqueueUnits == ASSUME AInv, Enqueue PROVE Streamed' /\ Balance'
<1> USE DEF AInv, TypeOK
<1>1. /\ Past' = Past /\ UNCHANGED <<stream, cleared, heard, head>>
      /\ count' = count + 1 /\ Past \in Nat
  BY DEF Enqueue, Past, Ordered, history, player
<1>2. Streamed'
  BY <1>1 DEF Streamed
<1>3. \A b : UnitsInStream(b)' = UnitsInStream(b)
  BY <1>1 DEF UnitsInStream
<1>4. ASSUME NEW b \in 1 .. MaxBuffers PROVE Left(b)' = Left(b)
  <2>1. CASE b # Past + 1
    BY <1>1, <2>1 DEF Left
  <2>2. CASE b = Past + 1
    <3>1. 1 \in 1 .. Slots /\ count + 1 \in 1 .. Slots
      BY DEF Enqueue, Full
    <3>2. head + (count + 1) - 1 = head + count
      OBVIOUS
    <3>3. Back = Slot(count + 1) /\ Slot(count + 1) \in Indices
      BY <3>1, <3>2, SlotsDiffer DEF Back, Slot
    <3>4. offset' = [offset EXCEPT ![Back] = 0]
      BY DEF Enqueue
    <3>5. CASE count = 0
      <4>1. Back = head
        <5>1. Slot(count + 1) = Slot(1)
          BY <3>5
        <5> QED
          BY <3>1, <3>3, <5>1, SlotsDiffer
      <4> QED
        BY <1>1, <2>2, <3>4, <3>5, <4>1 DEF Left
    <3>6. CASE count > 0
      <4>1. Back # head
        BY <3>1, <3>3, <3>6, SlotsDiffer
      <4> QED
        BY <1>1, <2>2, <3>4, <3>6, <4>1 DEF Left
    <3> QED
      BY <3>5, <3>6
  <2> QED
    BY <2>1, <2>2
<1>5. Balance'
  BY <1>1, <1>3, <1>4 DEF Balance
<1> QED
  BY <1>2, <1>5

LEMMA GivenUnits ==
    ASSUME NEW h \in Nat, NEW u \in Nat, NEW o \in Nat, NEW n \in Nat, h + u = o
    PROVE  (h + n) + u = o + n
OBVIOUS

(* The head gives some of its units ... *)
LEMMA ConsumeUnits ==
    ASSUME AInv, count > 0, NEW amount \in Nat, offset[head] + amount < Size[AtHead],
           offset' = [offset EXCEPT ![head] = @ + amount],
           heard' = [heard EXCEPT ![AtHead] = @ + amount],
           UNCHANGED <<head, count, enqueued, cleared, stream>>
    PROVE  Streamed' /\ Balance'
<1> USE DEF AInv, TypeOK
<1>1. Past' = Past
  BY DEF Past
<1>2. Streamed' /\ \A b : UnitsInStream(b)' = UnitsInStream(b)
  BY <1>1 DEF Streamed, UnitsInStream
<1>3. /\ AtHead = Past + 1 /\ AtHead \in 1 .. MaxBuffers /\ AtHead \notin cleared
      /\ offset[head] \in Nat /\ Past \in Nat
  BY HeadIs
<1>4. ASSUME NEW b \in 1 .. MaxBuffers
      PROVE  /\ heard'[b] + UnitsInStream(b)' <= Size[b]
             /\ b \notin cleared' => heard'[b] + UnitsInStream(b)' = Left(b)'
  <2>1. /\ heard[b] \in Nat /\ UnitsInStream(b) \in Nat /\ UnitsInStream(b)' = UnitsInStream(b)
        /\ heard[b] + UnitsInStream(b) <= Size[b] /\ Size[b] \in Nat
        /\ b \notin cleared => heard[b] + UnitsInStream(b) = Left(b)
    BY <1>2, TotalIs DEF Total
  <2>2. CASE b = AtHead
    <3>1. Left(b) = offset[head] /\ Left(b)' = offset[head] + amount
      BY <1>1, <1>3, <2>2 DEF Left
    <3>2. heard'[b] = heard[b] + amount
      BY <2>2
    <3>3. b \notin cleared /\ offset[head] + amount < Size[b]
      BY <1>3, <2>2
    <3>4. heard[b] + UnitsInStream(b) = offset[head]
      BY <2>1, <3>1, <3>3
    <3>5. heard'[b] + UnitsInStream(b)' = offset[head] + amount
      <4> HIDE DEF AInv, TypeOK
      <4>1. (heard[b] + amount) + UnitsInStream(b) = offset[head] + amount
        BY <1>3, <2>1, <3>4, GivenUnits
      <4> QED
        BY <2>1, <3>2, <4>1
    <3> HIDE DEF AInv, TypeOK
    <3> QED
      BY <1>3, <2>1, <3>1, <3>3, <3>5
  <2>3. CASE b # AtHead
    <3>1. Left(b)' = Left(b) /\ heard'[b] = heard[b]
      BY <1>1, <1>3, <2>3 DEF Left
    <3> QED
      BY <2>1, <3>1
  <2> QED
    BY <2>2, <2>3
<1> QED
  BY <1>2, <1>4 DEF Balance

(* ... or the rest of them, to the device or to the conversion.            *)
LEMMA FinishUnits ==
    ASSUME AInv, count > 0, FinishHead, NEW x, offset' = [offset EXCEPT ![head] = x],
           UNCHANGED <<ring, enqueued, cleared>>,
           \A b \in 1 .. MaxBuffers :
               heard'[b] + UnitsInStream(b)'
                 = heard[b] + UnitsInStream(b) + IF b = AtHead THEN Remaining ELSE 0
    PROVE  Balance'
<1> USE DEF AInv, TypeOK
<1>1. /\ Past' = Past + 1 /\ count' \in 0 .. Slots /\ (count' > 0 => offset'[head'] = 0)
  BY FinishRing
<1>2. /\ AtHead = Past + 1 /\ AtHead \in 1 .. MaxBuffers /\ AtHead \notin cleared
      /\ offset[head] \in Nat /\ Past \in Nat /\ Size[AtHead] \in Nat
      /\ Remaining = Size[AtHead] - offset[head]
  BY HeadIs
<1>3. ASSUME NEW b \in 1 .. MaxBuffers
      PROVE  /\ heard'[b] + UnitsInStream(b)' <= Size[b]
             /\ b \notin cleared' => heard'[b] + UnitsInStream(b)' = Left(b)'
  <2>1. /\ heard[b] \in Nat /\ UnitsInStream(b) \in Nat
        /\ heard[b] + UnitsInStream(b) <= Size[b] /\ Size[b] \in Nat
        /\ b \notin cleared => heard[b] + UnitsInStream(b) = Left(b)
    BY TotalIs DEF Total
  <2>2. CASE b = AtHead
    <3>1. Left(b) = offset[head] /\ Left(b)' = Size[b]
      BY <1>1, <1>2, <2>2 DEF Left
    <3>2. /\ heard'[b] + UnitsInStream(b)' = heard[b] + UnitsInStream(b) + Remaining
          /\ b \notin cleared /\ Remaining = Size[b] - offset[head]
      BY <1>2, <2>2
    <3> HIDE DEF AInv, TypeOK
    <3> QED
      BY SMTT(30), <1>2, <2>1, <3>1, <3>2
  <2>3. CASE b # AtHead
    <3>1. heard'[b] + UnitsInStream(b)' = heard[b] + UnitsInStream(b)
      BY <2>1, <2>3
    <3>2. Left(b)' = Left(b)
      <4> HIDE DEF AInv, TypeOK
      <4>1. CASE b <= Past
        BY <1>1, <1>2, <4>1 DEF Left
      <4>2. CASE b > Past + 1
        BY <1>1, <1>2, <4>2 DEF Left
      <4> QED
        BY <1>2, <2>3, <4>1, <4>2
    <3> QED
      BY <2>1, <3>1, <3>2
  <2> QED
    BY <2>2, <2>3
<1> QED
  BY <1>3 DEF Balance

-----------------------------------------------------------------------------
(* The steps of the audio thread and of the guest *)
Contents == Ring /\ Streamed /\ Balance

LEMMA SteadyKeeps ==
    ASSUME AInv, Steady, UNCHANGED <<stream, heard>>
    PROVE  Contents'
<1>1. Ring'
  BY SteadyRing
<1>2. Streamed' /\ Balance'
  BY DEF AInv, Steady, Streamed, Balance, Left, Past, UnitsInStream
<1> QED
  BY <1>1, <1>2 DEF Contents

LEMMA EmptyKeeps ==
    ASSUME AInv, count' = 0, enqueued' = enqueued, cleared' = 1 .. enqueued,
           stream' = <<>>, heard' = heard
    PROVE  Contents'
BY EmptyRing, EmptyUnits DEF Contents

(* What a copy takes is what fits and is there. *)
LEMMA CopyAmount ==
    ASSUME AInv, Copy
    PROVE  LET amount == Least(Period - written, Remaining)
           IN  /\ amount \in Nat /\ amount <= Remaining /\ amount + written \in 0 .. Period
               /\ offset[head] + amount <= Size[AtHead] /\ offset'[head] = offset[head] + amount
               /\ Size[AtHead] - offset[head] = Remaining
<1> DEFINE amount == Least(Period - written, Remaining)
<1>1. /\ offset[head] \in Nat /\ Size[AtHead] \in Nat /\ offset[head] < Size[AtHead]
      /\ Remaining = Size[AtHead] - offset[head]
  BY HeadIs DEF Copy
<1>2. written \in Nat /\ written < Period
  BY DEF Copy, AInv, TypeOK
<1>3. amount \in Nat /\ amount <= Remaining /\ amount <= Period - written
  BY <1>1, <1>2 DEF Least
<1>4. offset'[head] = offset[head] + amount
  BY DEF Copy, AInv, TypeOK
<1> HIDE DEF amount
<1>5. amount + written \in 0 .. Period /\ offset[head] + amount <= Size[AtHead]
  BY <1>1, <1>2, <1>3
<1> QED
  BY <1>1, <1>3, <1>4, <1>5 DEF amount

LEMMA CopyKeeps == ASSUME AInv, Copy PROVE Contents'
<1> DEFINE amount == Least(Period - written, Remaining)
<1>1. /\ amount \in Nat /\ amount <= Remaining /\ Remaining = Size[AtHead] - offset[head]
      /\ offset[head] + amount <= Size[AtHead] /\ offset'[head] = offset[head] + amount
  BY CopyAmount
<1>2. /\ offset' = [offset EXCEPT ![head] = @ + amount]
      /\ heard' = [heard EXCEPT ![AtHead] = @ + amount]
      /\ UNCHANGED <<ring, stream, enqueued, cleared>> /\ count > 0
  BY DEF Copy
<1>3. IF offset[head] + amount = Size[AtHead] THEN FinishHead ELSE UNCHANGED <<head, count>>
  BY <1>1 DEF Copy, Exhausted
<1>4. /\ AtHead \in 1 .. MaxBuffers /\ offset[head] \in Nat /\ Size[AtHead] \in Nat
      /\ Past \in Nat
  BY <1>2, HeadIs
<1> HIDE DEF amount
<1>5. CASE offset[head] + amount = Size[AtHead]
  <2>1. FinishHead
    BY <1>3, <1>5
  <2>2. PICK x : offset' = [offset EXCEPT ![head] = x]
    BY <1>2
  <2>3. Ring' /\ Past' = Past + 1
    BY <1>2, <2>1, <2>2, FinishRing
  <2>4. amount = Remaining
    BY <1>1, <1>4, <1>5
  <2>5. \A b : UnitsInStream(b)' = UnitsInStream(b)
    BY <1>2 DEF UnitsInStream
  <2>6. ASSUME NEW b \in 1 .. MaxBuffers
        PROVE  heard'[b] + UnitsInStream(b)'
                 = heard[b] + UnitsInStream(b) + IF b = AtHead THEN Remaining ELSE 0
    <3>1. heard[b] \in Nat /\ UnitsInStream(b) \in Nat /\ b \in DOMAIN heard
      BY TotalIs DEF AInv, TypeOK
    <3>2. heard'[b] = IF b = AtHead THEN heard[b] + amount ELSE heard[b]
      BY <1>2, <3>1
    <3> QED
      BY <1>1, <2>4, <2>5, <3>1, <3>2
  <2>7. Balance'
    BY <1>2, <2>1, <2>2, <2>6, FinishUnits
  <2>8. Streamed'
    <3>1. 1 .. Past \subseteq 1 .. Past'
      BY <1>4, <2>3
    <3> QED
      BY <1>2, <3>1 DEF AInv, Streamed
  <2> QED
    BY <2>3, <2>7, <2>8 DEF Contents
<1>6. CASE offset[head] + amount # Size[AtHead]
  <2>1. offset[head] + amount < Size[AtHead] /\ UNCHANGED <<head, count>>
    BY <1>1, <1>3, <1>4, <1>6
  <2> QED
    BY <1>1, <1>2, <2>1, ConsumeRing, ConsumeUnits DEF Contents
<1> QED
  BY <1>5, <1>6

LEMMA PutKeeps == ASSUME AInv, PutStream PROVE Contents'
<1>1. /\ count > 0 /\ FinishHead /\ offset' = [offset EXCEPT ![head] = Size[AtHead]]
      /\ stream' = stream \o [i \in 1 .. Remaining |-> AtHead]
      /\ UNCHANGED <<ring, enqueued, cleared, heard>>
  BY DEF PutStream, Feeding
<1>2. /\ AtHead = Past + 1 /\ AtHead \in 1 .. MaxBuffers /\ AtHead \notin cleared
      /\ Remaining \in Nat /\ Past \in Nat
  BY <1>1, HeadIs
<1>3. Ring' /\ Past' = Past + 1
  BY <1>1, FinishRing
<1>4. stream \in Seq(1 .. MaxBuffers)
  BY DEF AInv, TypeOK
<1>5. /\ \A i \in 1 .. Len(stream') :
             IF i <= Len(stream) THEN stream'[i] = stream[i] ELSE stream'[i] = AtHead
      /\ \A b : UnitsInStream(b)' = UnitsInStream(b) + IF b = AtHead THEN Remaining ELSE 0
      /\ stream' \in Seq(1 .. MaxBuffers)
  BY <1>1, <1>2, <1>4, PutUnits
<1>6. ASSUME NEW b \in 1 .. MaxBuffers
      PROVE  heard'[b] + UnitsInStream(b)'
               = heard[b] + UnitsInStream(b) + IF b = AtHead THEN Remaining ELSE 0
  <2>1. heard[b] \in Nat /\ UnitsInStream(b) \in Nat /\ heard'[b] = heard[b]
    BY <1>1, TotalIs
  <2>2. UnitsInStream(b)' = UnitsInStream(b) + IF b = AtHead THEN Remaining ELSE 0
    BY <1>5
  <2> HIDE DEF AInv
  <2>3. CASE b = AtHead
    BY <1>2, <2>1, <2>2, <2>3
  <2>4. CASE b # AtHead
    BY <2>1, <2>2, <2>4
  <2> QED
    BY <2>3, <2>4
<1>7. Balance'
  BY <1>1, <1>6, FinishUnits
<1>8. Streamed'
  <2>1. ASSUME NEW i \in 1 .. Len(stream') PROVE stream'[i] \in (1 .. Past') \ cleared'
    <3>1. CASE i <= Len(stream)
      <4>1. i \in 1 .. Len(stream)
        BY <1>4, <1>5, <3>1
      <4>2. stream[i] \in (1 .. Past) \ cleared /\ stream'[i] = stream[i]
        BY <1>5, <3>1, <4>1 DEF AInv, Streamed
      <4> QED
        BY <1>1, <1>2, <1>3, <4>2
    <3>2. CASE ~(i <= Len(stream))
      BY <1>1, <1>2, <1>3, <1>5, <3>2
    <3> QED
      BY <3>1, <3>2
  <2> QED
    BY <2>1 DEF Streamed
<1> QED
  BY <1>3, <1>7, <1>8 DEF Contents

(* What the device gets from the conversion stream. *)
LEMMA GotIs ==
    ASSUME AInv, GetStream
    PROVE  LET got == Least(Period, Len(stream))
           IN  /\ got \in 0 .. Len(stream) /\ got \in 0 .. Period
               /\ stream \in Seq(1 .. MaxBuffers)
               /\ stream' = SubSeq(stream, got + 1, Len(stream))
               /\ \A b \in 1 .. MaxBuffers :
                     /\ heard'[b] = heard[b] + Cardinality({i \in 1 .. got : stream[i] = b})
                     /\ Cardinality({i \in 1 .. got : stream[i] = b}) \in Nat
<1> DEFINE got == Least(Period, Len(stream))
<1>1. stream \in Seq(1 .. MaxBuffers) /\ Len(stream) \in Nat
  BY DEF AInv, TypeOK
<1>2. got \in Nat /\ got \in 0 .. Len(stream) /\ got \in 0 .. Period
  BY <1>1 DEF Least
<1>3. stream' = SubSeq(stream, got + 1, Len(stream))
  BY DEF GetStream
<1>4. heard' = [b \in 1 .. MaxBuffers |->
                  heard[b] + Cardinality({i \in 1 .. got : stream[i] = b})]
  BY DEF GetStream
<1> HIDE DEF got
<1>5. ASSUME NEW b \in 1 .. MaxBuffers
      PROVE  Cardinality({i \in 1 .. got : stream[i] = b}) \in Nat
  <2>1. Cardinality(Places(got, stream, b)) \in Nat
    BY <1>2, SomePlaces
  <2> QED
    BY <2>1 DEF Places
<1> QED
  BY <1>1, <1>2, <1>3, <1>4, <1>5 DEF got

LEMMA GetKeeps == ASSUME AInv, GetStream PROVE Contents'
<1> DEFINE got == Least(Period, Len(stream))
<1>1. UNCHANGED <<ring, offset, head, count, enqueued, cleared>>
  BY DEF GetStream, player
<1>2. Ring' /\ Past' = Past /\ \A b : Left(b)' = Left(b)
  BY <1>1, SteadyRing DEF Steady, Past, Left
<1>3. /\ got \in 0 .. Len(stream) /\ stream \in Seq(1 .. MaxBuffers)
      /\ stream' = SubSeq(stream, got + 1, Len(stream))
      /\ \A b \in 1 .. MaxBuffers :
            heard'[b] = heard[b] + Cardinality({i \in 1 .. got : stream[i] = b})
  BY GotIs
<1> HIDE DEF got
<1>4. /\ \A i \in 1 .. Len(stream') : \E j \in 1 .. Len(stream) : stream'[i] = stream[j]
      /\ \A b : UnitsInStream(b)
                  = Cardinality({i \in 1 .. got : stream[i] = b}) + UnitsInStream(b)'
      /\ stream' \in Seq(1 .. MaxBuffers)
  BY <1>3, GetUnits
<1>5. Streamed'
  BY <1>1, <1>2, <1>4 DEF AInv, Streamed
<1>6. ASSUME NEW b \in 1 .. MaxBuffers
      PROVE  heard'[b] + UnitsInStream(b)' = heard[b] + UnitsInStream(b)
  <2> DEFINE n == Cardinality({i \in 1 .. got : stream[i] = b})
  <2>1. n \in Nat
    <3>1. got \in Nat
      BY <1>3
    <3>2. Cardinality(Places(got, stream, b)) \in Nat
      BY <3>1, SomePlaces
    <3> QED
      BY <3>2 DEF Places
  <2>2. heard'[b] = heard[b] + n /\ UnitsInStream(b) = n + UnitsInStream(b)'
    BY <1>3, <1>4
  <2>3. heard[b] \in Nat /\ UnitsInStream(b)' \in Nat
    <3>1. Len(stream') \in Nat
      BY <1>4
    <3>2. UnitsInStream(b)' = Cardinality(Places(Len(stream'), stream', b))
      BY DEF UnitsInStream, Places
    <3> QED
      BY <3>1, <3>2, SomePlaces, TotalIs
  <2> HIDE DEF n
  <2> QED
    BY <2>1, <2>2, <2>3
<1>7. Balance'
  BY <1>1, <1>2, <1>6 DEF AInv, Balance
<1> QED
  BY <1>2, <1>5, <1>7 DEF Contents

LEMMA ResetEmpties ==
    ASSUME AInv, Reset
    PROVE  /\ count' = 0 /\ enqueued' = enqueued /\ cleared' = 1 .. enqueued
           /\ stream' = <<>> /\ heard' = heard /\ head' = 0 /\ finished' = 0
<1>1. enqueued \in 0 .. MaxBuffers
  BY DEF AInv, TypeOK
<1>2. (1 .. MaxBuffers) \cap (1 .. enqueued) = 1 .. enqueued
  BY <1>1
<1> QED
  BY <1>2 DEF Reset

LEMMA StepContents == ASSUME AInv, [Next]_vars PROVE Contents'
<1> USE DEF queue, player, history
<1>1. CASE PeriodStart \/ EndDirect \/ CallbackReturns \/ SetPlayState \/ RegisterCallback
             \/ RegisterContext
  BY <1>1, SteadyKeeps
     DEF PeriodStart, EndDirect, CallbackReturns, SetPlayState, RegisterCallback,
         RegisterContext, Steady
<1>2. CASE Copy
  BY <1>2, CopyKeeps
<1>3. CASE PutStream
  BY <1>3, PutKeeps
<1>4. CASE EndConverted \/ PutFails
  BY <1>4, GetKeeps DEF EndConverted, PutFails
<1>5. CASE CreatePlayer \/ DestroyPlayer
  BY <1>5, ResetEmpties, EmptyKeeps DEF CreatePlayer, DestroyPlayer
<1>6. CASE Enqueue
  BY <1>6, EnqueueRing, EnqueueUnits DEF Contents
<1>7. CASE Clear
  BY <1>7, EmptyKeeps DEF Clear, ClearStream
<1>8. CASE UNCHANGED vars
  BY <1>8, SteadyKeeps DEF vars, Steady
<1> QED
  BY <1>1, <1>2, <1>3, <1>4, <1>5, <1>6, <1>7, <1>8 DEF Next, AudioThread, Guest

-----------------------------------------------------------------------------
(* Types, the device and the index *)
LEMMA StepQuiet == ASSUME AInv, [Next]_vars PROVE Quiet'
<1> USE DEF AInv, Quiet, queue, player, history
<1>1. CASE AudioThread
  BY <1>1 DEF AudioThread, PeriodStart, Copy, EndDirect, PutStream, EndConverted, PutFails,
              GetStream, CallbackReturns, FinishHead, Feeding
<1>2. CASE Guest
  BY <1>2 DEF Guest, CreatePlayer, DestroyPlayer, SetPlayState, PauseWaits, RegisterCallback,
              RegisterContext, Enqueue, Clear, Reset
<1>3. CASE UNCHANGED vars
  BY <1>3 DEF vars
<1> QED
  BY <1>1, <1>2, <1>3 DEF Next

LEMMA StepIndex == ASSUME TypeOK, HeadCounts, [Next]_vars PROVE HeadCounts'
<1> USE DEF queue, player, history
<1>1. head \in Indices /\ finished \in Nat /\ HeadCounts
  BY DEF TypeOK
<1>2. ASSUME FinishHead PROVE HeadCounts'
  <2>1. head' = Wrap(head + 1) /\ finished' = finished + 1
    BY <1>2 DEF FinishHead
  <2>2. Wrap(head + 1) = (finished + 1) % Slots
    BY <1>1, HeadStep
  <2> QED
    BY <2>1, <2>2, Zenon DEF HeadCounts
<1>3. ASSUME head' = 0, finished' = 0 PROVE HeadCounts'
  <2>1. 0 % Slots = 0
    BY SMT
  <2> QED
    BY <1>3, <2>1, Zenon DEF HeadCounts
<1>4. ASSUME UNCHANGED <<head, finished>> PROVE HeadCounts'
  BY <1>1, <1>4, Zenon DEF HeadCounts
<1>5. CASE AudioThread
  <2>1. FinishHead \/ UNCHANGED <<head, finished>>
    BY <1>5 DEF AudioThread, PeriodStart, Copy, EndDirect, PutStream, EndConverted, PutFails,
                GetStream, CallbackReturns
  <2> QED
    BY <1>2, <1>4, <2>1
<1>6. CASE Guest
  <2>1. (head' = 0 /\ finished' = 0) \/ UNCHANGED <<head, finished>>
    BY <1>6 DEF Guest, CreatePlayer, DestroyPlayer, SetPlayState, RegisterCallback,
                RegisterContext, Enqueue, Clear, ClearHead, Reset
  <2> QED
    BY <1>3, <1>4, <2>1
<1>7. CASE UNCHANGED vars
  BY <1>4, <1>7 DEF vars
<1> QED
  BY <1>5, <1>6, <1>7 DEF Next

LEMMA StepType == ASSUME AInv, [Next]_vars PROVE TypeOK'
<1> USE DEF queue, player, history
<1>1. TypeOK
  BY DEF AInv
<1>2. CASE PeriodStart \/ EndDirect \/ CallbackReturns
  <2>1. written' \in 0 .. Period /\ audio' \in {"idle", "loop", "callback"}
    BY SMTT(30), <1>1, <1>2 DEF TypeOK, PeriodStart, EndDirect, CallbackReturns
  <2>2. UNCHANGED <<queue, player, enqueued, history>>
    BY <1>2 DEF PeriodStart, EndDirect, CallbackReturns
  <2> QED
    BY <1>1, <2>1, <2>2 DEF TypeOK
<1>3. CASE SetPlayState
  BY <1>1, <1>3 DEF TypeOK, SetPlayState
<1>4. CASE RegisterCallback \/ RegisterContext
  <2>1. callback' \in Registration
    BY <1>1, <1>4 DEF TypeOK, RegisterCallback, RegisterContext, Registration
  <2> QED
    BY <1>1, <1>4, <2>1 DEF TypeOK, RegisterCallback, RegisterContext
<1>5. CASE CreatePlayer \/ DestroyPlayer
  <2>1. Reset /\ cleared' = 1 .. enqueued
    BY <1>5, ResetEmpties DEF CreatePlayer, DestroyPlayer
  <2>2. creates' \in 0 .. MaxCreates /\ device' \in {"closed", "paused", "running"}
    BY <1>1, <1>5 DEF TypeOK, CreatePlayer, DestroyPlayer
  <2>3. converts' \in BOOLEAN
    BY <1>5 DEF CreatePlayer, DestroyPlayer
  <2>4. callback' \in Registration /\ stream' \in Seq(1 .. MaxBuffers)
    BY <2>1 DEF Reset, Registration
  <2> QED
    BY <1>1, <2>1, <2>2, <2>3, <2>4 DEF TypeOK, Reset
<1>6. CASE Enqueue
  <2>1. count < Slots
    BY <1>1, <1>6 DEF TypeOK, Enqueue, Full
  <2>2. enqueued' \in 0 .. MaxBuffers /\ enqueued + 1 \in 1 .. MaxBuffers
        /\ count' \in 0 .. Slots
    BY <1>1, <1>6, <2>1 DEF TypeOK, Enqueue
  <2>3. /\ ring' \in [Indices -> 1 .. MaxBuffers \cup {NoBuffer}]
        /\ offset' \in [Indices -> Nat]
    BY <1>1, <1>6, <2>2 DEF TypeOK, Enqueue
  <2>4. UNCHANGED <<head, stream, player, audio, written, history>>
    BY <1>6 DEF Enqueue
  <2> QED
    BY <1>1, <2>2, <2>3, <2>4 DEF TypeOK
<1>7. CASE Clear
  <2>1. cleared' \subseteq 1 .. MaxBuffers /\ stream' \in Seq(1 .. MaxBuffers)
    BY <1>1, <1>7 DEF TypeOK, Clear, ClearStream
  <2> QED
    BY <1>1, <1>7, <2>1 DEF TypeOK, Clear, ClearHead
<1>8. ASSUME FinishHead, count > 0
      PROVE  /\ head' \in Indices /\ count' \in 0 .. Slots /\ finished' \in Nat
             /\ audio' \in {"idle", "loop", "callback"}
  BY <1>1, <1>8, SlotsMove DEF TypeOK, FinishHead
<1>9. CASE Copy
  <2> DEFINE amount == Least(Period - written, Remaining)
  <2>1. /\ amount \in Nat /\ amount + written \in 0 .. Period
        /\ written' = written + amount /\ offset' = [offset EXCEPT ![head] = @ + amount]
        /\ heard' = [heard EXCEPT ![AtHead] = @ + amount]
    BY <1>9, CopyAmount DEF Copy
  <2>2. \/ FinishHead /\ count > 0
        \/ UNCHANGED <<head, count, finished, audio>>
    BY <1>9 DEF Copy
  <2>3. AtHead \in 1 .. MaxBuffers
    BY <1>9, HeadIs DEF Copy
  <2> HIDE DEF amount
  <2>4. /\ written' \in 0 .. Period /\ offset' \in [Indices -> Nat]
        /\ heard' \in [1 .. MaxBuffers -> Nat]
    <3>1. written' \in 0 .. Period
      BY <1>1, <2>1 DEF TypeOK
    <3>2. offset \in [Indices -> Nat] /\ heard \in [1 .. MaxBuffers -> Nat]
      BY <1>1 DEF TypeOK
    <3>3. \A i \in Indices : offset[i] + amount \in Nat
      BY <2>1, <3>2
    <3>4. heard[AtHead] + amount \in Nat /\ head \in Indices
      BY <1>1, <2>1, <2>3, <3>2 DEF TypeOK
    <3> QED
      BY <2>1, <3>1, <3>2, <3>3, <3>4
  <2>5. /\ head' \in Indices /\ count' \in 0 .. Slots /\ finished' \in Nat
        /\ audio' \in {"idle", "loop", "callback"}
    BY <1>1, <1>8, <2>2 DEF TypeOK
  <2> QED
    BY <1>1, <1>9, <2>4, <2>5 DEF TypeOK, Copy
<1>10. CASE PutStream
  <2>1. /\ AtHead \in 1 .. MaxBuffers /\ Remaining \in Nat /\ Size[AtHead] \in Nat
        /\ count > 0 /\ FinishHead
    BY <1>10, HeadIs DEF PutStream, Feeding
  <2>2. stream' \in Seq(1 .. MaxBuffers)
    BY <1>1, <1>10, <2>1, PutUnits DEF TypeOK, PutStream
  <2>3. offset' \in [Indices -> Nat]
    BY <1>1, <1>10, <2>1 DEF TypeOK, PutStream
  <2> QED
    BY <1>1, <1>8, <1>10, <2>1, <2>2, <2>3 DEF TypeOK, PutStream
<1>11. CASE EndConverted \/ PutFails
  <2> DEFINE got == Least(Period, Len(stream))
  <2>1. GetStream
    BY <1>11 DEF EndConverted, PutFails
  <2>2. /\ got \in 0 .. Period /\ got \in 0 .. Len(stream)
        /\ stream \in Seq(1 .. MaxBuffers) /\ stream' = SubSeq(stream, got + 1, Len(stream))
        /\ \A b \in 1 .. MaxBuffers :
              /\ heard'[b] = heard[b] + Cardinality({i \in 1 .. got : stream[i] = b})
              /\ Cardinality({i \in 1 .. got : stream[i] = b}) \in Nat
    BY <2>1, GotIs
  <2>3. written' = got /\ heard' = [b \in 1 .. MaxBuffers |-> heard'[b]]
    BY <2>1 DEF GetStream
  <2> HIDE DEF got
  <2>4. stream' \in Seq(1 .. MaxBuffers)
    BY <2>2, GetUnits
  <2>5. heard' \in [1 .. MaxBuffers -> Nat]
    <3>1. ASSUME NEW b \in 1 .. MaxBuffers PROVE heard'[b] \in Nat
      <4> DEFINE n == Cardinality({i \in 1 .. got : stream[i] = b})
      <4>1. heard'[b] = heard[b] + n /\ n \in Nat
        BY <2>2
      <4>2. heard[b] \in Nat
        BY <1>1 DEF TypeOK
      <4> HIDE DEF n
      <4> QED
        BY <4>1, <4>2
    <3> QED
      BY <2>3, <3>1
  <2> QED
    BY <1>1, <2>1, <2>2, <2>3, <2>4, <2>5 DEF TypeOK, GetStream
<1>12. CASE UNCHANGED vars
  BY <1>1, <1>12 DEF TypeOK, vars
<1> QED
  BY <1>2, <1>3, <1>4, <1>5, <1>6, <1>7, <1>9, <1>10, <1>11, <1>12 DEF Next, AudioThread, Guest

(* Every reachable state satisfies the invariant. *)
THEOREM Invariance == Spec => []AInv
<1>1. AInv /\ [Next]_vars => AInv'
  BY StepType, StepContents, StepQuiet DEF AInv, Contents, Ring
<1> QED
  BY InitInv, <1>1, PTL DEF Spec

(* Type correctness of the queue, its device and its history. *)
THEOREM TypeCorrect == Spec => []TypeOK
<1>1. AInv => TypeOK
  BY DEF AInv
<1> QED
  BY Invariance, <1>1, PTL

(* The index queue_get_state reports counts the buffers finished since the *)
(* queue was last emptied, for every locator: modulo the ring's 64 slots,  *)
(* then modulo the locator's count.                                        *)
THEOREM IndexIsRight == Spec => []IndexCounts
<1>1. Init => HeadCounts
  <2>1. 0 % Slots = 0
    BY SMT
  <2> QED
    BY <2>1, Zenon DEF Init, HeadCounts
<1>2. TypeOK /\ HeadCounts /\ [Next]_vars => HeadCounts'
  BY StepIndex
<1>3. HeadCounts => IndexCounts
  BY Zenon DEF HeadCounts, IndexCounts, Index
<1> QED
  BY <1>1, <1>2, <1>3, TypeCorrect, PTL DEF Spec

(* The two writes of queue_register_callback are never seen half done. *)
THEOREM CallbackIsWhole == Spec => []CallbackMatchesContext
<1>1. AInv => CallbackMatchesContext
  BY DEF AInv, Quiet, CallbackMatchesContext
<1> QED
  BY Invariance, <1>1, PTL

-----------------------------------------------------------------------------
(* The pending buffers are those enqueued last. *)
LEMMA PendingIs ==
    ASSUME AInv
    PROVE  Pending = [i \in 1 .. count |-> Past + i]
<1>1. \A i \in 1 .. count : ring[Wrap(head + i - 1)] = Past + i
  BY DEF AInv, Ordered, Slot
<1> QED
  BY <1>1 DEF Pending

(* What is left in the ring of a buffer is what has not left it. *)
LEMMA RingIs ==
    ASSUME AInv, NEW b \in 1 .. enqueued
    PROVE  UnitsInRing(b) = Size[b] - Left(b) /\ Left(b) \in Nat /\ Size[b] \in Nat
<1>1. /\ Past \in Nat /\ count \in 0 .. Slots /\ enqueued = Past + count /\ b \in 1 .. MaxBuffers
      /\ head \in Indices
  BY DEF AInv, TypeOK, Ordered, Past
<1>2. Size[b] \in Nat /\ \A i \in 1 .. count : Pending[i] = Past + i
  BY <1>1, PendingIs
<1>3. CASE b <= Past
  <2>1. ~ \E i \in 1 .. count : Pending[i] = b
    BY <1>1, <1>2, <1>3
  <2> QED
    BY <1>2, <1>3, <2>1 DEF UnitsInRing, Left
<1>4. CASE b > Past
  <2> DEFINE k == b - Past
  <2>1. k \in 1 .. count /\ k \in 1 .. Slots /\ 1 \in 1 .. Slots /\ Past + k = b
    BY <1>1, <1>4
  <2>2. ring[Slot(k)] = b /\ Slot(k) \in Indices /\ Slot(1) = head
    BY <1>1, <2>1, SlotsDiffer DEF AInv, Ordered
  <2>3. SlotOf(b) = Slot(k)
    <3>1. ASSUME NEW s \in Indices, ring[s] = b, NEW i \in 1 .. count, s = Wrap(head + i - 1)
          PROVE  s = Slot(k)
      <4>1. ring[Slot(i)] = Past + i
        BY DEF AInv, Ordered
      <4>2. i = k
        BY <1>1, <2>1, <3>1, <4>1 DEF Slot
      <4> QED
        BY <3>1, <4>2 DEF Slot
    <3>2. Slot(k) = Wrap(head + k - 1)
      BY DEF Slot
    <3> HIDE DEF k
    <3> QED
      BY <2>1, <2>2, <3>1, <3>2 DEF SlotOf
  <2>4. UnitsInRing(b) = Size[b] - offset[Slot(k)]
    <3>1. \E i \in 1 .. count : Pending[i] = b
      BY <1>2, <2>1
    <3> QED
      BY <2>3, <3>1 DEF UnitsInRing
  <2>5. Left(b) = offset[Slot(k)]
    <3>1. CASE k = 1
      BY <1>1, <1>4, <2>1, <2>2, <3>1 DEF Left
    <3>2. CASE k # 1
      <4>1. offset[Slot(k)] = 0
        BY <2>1, <3>2 DEF AInv, Started
      <4> QED
        BY <1>1, <1>4, <2>1, <3>2, <4>1 DEF Left
    <3> QED
      BY <3>1, <3>2
  <2>6. offset[Slot(k)] \in Nat
    BY <2>2 DEF AInv, TypeOK
  <2> QED
    BY <1>2, <2>4, <2>5, <2>6
<1> QED
  BY <1>1, <1>3, <1>4

(* No unit is lost or played twice, in any order of enqueues, callbacks,   *)
(* clears and players, on the direct path and through the conversion.      *)
THEOREM NothingIsLost == Spec => []NothingLost
<1>1. AInv => NothingLost
  <2> SUFFICES ASSUME AInv, NEW b \in 1 .. enqueued
               PROVE  /\ heard[b] <= Size[b]
                      /\ b \notin cleared =>
                            heard[b] + UnitsInStream(b) + UnitsInRing(b) = Size[b]
    BY DEF NothingLost
  <2>1. b \in 1 .. MaxBuffers
    BY DEF AInv, TypeOK
  <2>2. /\ heard[b] \in Nat /\ UnitsInStream(b) \in Nat /\ heard[b] <= Size[b]
        /\ b \notin cleared => heard[b] + UnitsInStream(b) = Left(b)
    BY <2>1, TotalIs DEF Total
  <2>3. UnitsInRing(b) = Size[b] - Left(b) /\ Left(b) \in Nat /\ Size[b] \in Nat
    BY RingIs
  <2> QED
    BY <2>2, <2>3
<1> QED
  BY <1>1, Invariance, PTL

(* What Clear dropped, or a player took with it, is never heard again: not *)
(* from the ring and not from the conversion.                              *)
THEOREM ClearedStaysSilent == Spec => ClearedIsSilent
<1>1. ASSUME AInv, [Next]_vars, NEW c \in cleared PROVE heard'[c] = heard[c]
  <2> USE DEF queue, player, history
  <2>1. c \in 1 .. MaxBuffers
    BY <1>1 DEF AInv, TypeOK
  <2>2. CASE Copy
    <3>1. AtHead # c
      BY <1>1, <2>2, HeadIs DEF Copy
    <3> QED
      BY <1>1, <2>1, <2>2, <3>1 DEF Copy, AInv, TypeOK
  <2>3. CASE EndConverted \/ PutFails
    <3> DEFINE got == Least(Period, Len(stream))
    <3>1. /\ got \in 0 .. Len(stream) /\ stream \in Seq(1 .. MaxBuffers)
          /\ heard'[c] = heard[c] + Cardinality({i \in 1 .. got : stream[i] = c})
      BY <1>1, <2>1, <2>3, GotIs DEF EndConverted, PutFails
    <3> HIDE DEF got
    <3>2. {i \in 1 .. got : stream[i] = c} = {}
      BY <1>1, <3>1 DEF AInv, Streamed
    <3>3. Cardinality({i \in 1 .. got : stream[i] = c}) = 0
      BY <3>2, FS_EmptySet
    <3>4. heard[c] \in Nat
      BY <1>1, <2>1 DEF AInv, TypeOK
    <3> QED
      BY <3>1, <3>3, <3>4
  <2>4. CASE PeriodStart \/ EndDirect \/ CallbackReturns \/ PutStream
    BY <2>4 DEF PeriodStart, EndDirect, CallbackReturns, PutStream
  <2>5. CASE Guest
    BY <2>5 DEF Guest, CreatePlayer, DestroyPlayer, SetPlayState, RegisterCallback,
                RegisterContext, Enqueue, Clear, Reset
  <2>6. CASE UNCHANGED vars
    BY <2>6 DEF vars
  <2> QED
    BY <1>1, <2>2, <2>3, <2>4, <2>5, <2>6 DEF Next, AudioThread
<1>2. AInv /\ [Next]_vars => [\A b \in cleared : heard'[b] = heard[b]]_vars
  BY <1>1
<1> QED
  BY <1>2, Invariance, PTL DEF Spec, ClearedIsSilent

-----------------------------------------------------------------------------
(* The ring implements the queue the guest expects. *)
LEMMA QueueInit == Init => Queue!Init
<1> SUFFICES ASSUME Init PROVE Queue!Init
  OBVIOUS
<1>1. Pending = <<>>
  BY DEF Init, Pending
<1> QED
  BY <1>1 DEF Init, Queue!Init

LEMMA QueueStep ==
    ASSUME AInv, AInv', [Next]_vars
    PROVE  [Queue!Next]_Queue!vars
<1> USE DEF queue, player, history
<1>1. /\ Pending = [i \in 1 .. count |-> Past + i] /\ count \in Nat /\ Past \in Nat
      /\ enqueued = Past + count
  <2>1. Past \in Nat /\ count \in Nat /\ enqueued = Past + count
    BY DEF AInv, TypeOK, Ordered, Past
  <2> QED
    BY <2>1, PendingIs
<1>2. Pending' = [i \in 1 .. count' |-> Past' + i]
  <2>1. \A i \in 1 .. count' : ring'[Wrap(head' + i - 1)] = Past' + i
    BY DEF AInv, Ordered, Slot
  <2> QED
    BY <2>1 DEF Pending
<1>3. Pending \in Seq(Nat) /\ Len(Pending) = count
  BY <1>1
<1>4. ASSUME UNCHANGED <<count, enqueued>> PROVE Pending' = Pending
  BY <1>1, <1>2, <1>4 DEF Past
<1>5. ASSUME FinishHead, count > 0, audio = "loop", enqueued' = enqueued PROVE Queue!Finish
  <2>1. count' = count - 1 /\ Past' = Past + 1 /\ audio' = "callback"
    BY <1>1, <1>5 DEF FinishHead, Past
  <2>2. Pending # <<>>
    BY <1>3, <1>5
  <2>3. /\ Len(Tail(Pending)) = count - 1 /\ Tail(Pending) \in Seq(Nat)
        /\ \A i \in 1 .. count - 1 : Tail(Pending)[i] = Pending[i + 1]
    BY <1>3, <2>2, HeadTailProperties
  <2>4. /\ Pending' \in Seq(Nat) /\ Len(Pending') = count - 1
        /\ \A i \in 1 .. count - 1 : Pending'[i] = Tail(Pending)[i]
    BY <1>1, <1>2, <1>5, <2>1, <2>3
  <2>5. Pending' = Tail(Pending)
    BY <1>1, <1>5, <2>3, <2>4, SeqEqual
  <2> QED
    BY <1>5, <2>1, <2>2, <2>5 DEF Queue!Finish
<1>6. ASSUME count' = 0, audio' = audio PROVE Queue!Clear
  <2>1. Pending' = <<>>
    BY <1>2, <1>6
  <2> QED
    BY <1>6, <2>1 DEF Queue!Clear
<1>7. CASE Enqueue
  <2>1. /\ count < Slots /\ count' = count + 1 /\ enqueued' = enqueued + 1 /\ audio' = audio
        /\ enqueued + 1 \in 1 .. MaxBuffers
    BY <1>7 DEF Enqueue, Full, AInv, TypeOK
  <2>2. Past' = Past /\ enqueued + 1 = Past + (count + 1)
    BY <1>1, <2>1 DEF Past
  <2>3. Pending' = Append(Pending, enqueued + 1)
    <3>1. /\ Pending' \in Seq(Nat) /\ Len(Pending') = count + 1
          /\ \A i \in 1 .. count + 1 : Pending'[i] = Past + i
      BY <1>1, <1>2, <2>1, <2>2
    <3>2. /\ Append(Pending, enqueued + 1) \in Seq(Nat)
          /\ Len(Append(Pending, enqueued + 1)) = count + 1
          /\ \A i \in 1 .. count + 1 : Append(Pending, enqueued + 1)[i] = Past + i
      BY <1>1, <1>3, <2>2, AppendProperties
    <3> QED
      BY <3>1, <3>2, SeqEqual
  <2>4. Queue!Enqueue
    BY <1>3, <2>1, <2>3 DEF Queue!Enqueue
  <2> QED
    BY <2>4 DEF Queue!Next
<1>8. CASE Copy \/ PutStream
  <2>1. /\ audio = "loop" /\ count > 0 /\ enqueued' = enqueued
        /\ FinishHead \/ UNCHANGED <<count, audio>>
    BY <1>8 DEF Copy, PutStream, Feeding
  <2>2. CASE FinishHead
    BY <1>5, <2>1, <2>2 DEF Queue!Next
  <2>3. CASE UNCHANGED <<count, audio>>
    BY <1>4, <2>1, <2>3 DEF Queue!vars
  <2> QED
    BY <2>1, <2>2, <2>3
<1>9. CASE CallbackReturns
  BY <1>4, <1>9 DEF CallbackReturns, Queue!Notify, Queue!Next
<1>10. CASE PeriodStart \/ EndDirect \/ EndConverted \/ PutFails
  <2>1. UNCHANGED <<count, enqueued>> /\ audio # "callback" /\ audio' # "callback"
    BY <1>10 DEF PeriodStart, EndDirect, EndConverted, PutFails, GetStream, Feeding
  <2> QED
    BY <1>4, <2>1 DEF Queue!vars
<1>11. CASE SetPlayState \/ RegisterCallback \/ RegisterContext
  BY <1>4, <1>11 DEF SetPlayState, RegisterCallback, RegisterContext, Queue!vars
<1>12. CASE CreatePlayer \/ DestroyPlayer \/ Clear
  <2>1. count' = 0 /\ audio' = audio
    BY <1>12 DEF CreatePlayer, DestroyPlayer, Reset, Clear
  <2> QED
    BY <1>6, <2>1 DEF Queue!Next
<1>13. CASE UNCHANGED vars
  BY <1>4, <1>13 DEF vars, Queue!vars
<1> QED
  BY <1>7, <1>8, <1>9, <1>10, <1>11, <1>12, <1>13 DEF Next, AudioThread, Guest

(* opensles_dt.c implements BufferQueue: buffers finish in the order they  *)
(* were enqueued, each is answered by one callback before the next one     *)
(* finishes, and Clear drops what has not finished.                        *)
THEOREM Refinement == Spec => RefinesBufferQueue
<1>1. AInv /\ AInv' /\ [Next]_vars => [Queue!Next]_Queue!vars
  BY QueueStep
<1> QED
  BY <1>1, QueueInit, Invariance, PTL DEF Spec, RefinesBufferQueue, Queue!Spec
=============================================================================
