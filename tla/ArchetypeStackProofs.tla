------------------------ MODULE ArchetypeStackProofs ------------------------
(***************************************************************************)
(* Proofs about an Archetype whose caller gives up the entities it pushed  *)
(* last first: one check only can fail, that of a target buffer of no       *)
(* bytes, and until then each index finds its entity.                      *)
(*                                                                         *)
(* Such a caller makes the sparse buffers a stack: RemoveDenseDataBuffer   *)
(* moves the last row into the gap and leaves the slot of the moved row    *)
(* as it was, which does no harm while the rows given up are the last.     *)
(* The invariant, StackInv, says that the live slots hold the positions    *)
(* below size_, each once and in the buffer of that number (OldestFirst),  *)
(* and that the caller's handles are the live indices, each naming the     *)
(* row it leads to (Names).                                                *)
(***************************************************************************)
EXTENDS ArchetypeProofs

\* What the proofs ask of the sizes: a row fits in a full-sized data buffer, and
\* a full-sized sparse buffer has two slots.
UnitsFit ==
  DataUnit <= kMaxBufferSize /\ 2 * SparseUnit <= kMaxBufferSize

-----------------------------------------------------------------------------
(* Positions *)

\* A flat position is split by the capacity in one way.
LEMMA PositionSplits ==
  ASSUME NEW cap \in Nat \ {0}, NEW k \in Nat, NEW j \in 0 .. cap - 1
  PROVE  /\ cap * k + j \in Nat /\ (cap * k + j) \div cap = k /\ (cap * k + j) % cap = j
OBVIOUS

\* ... and put together again.
LEMMA PositionOf ==
  ASSUME NEW cap \in Nat \ {0}, NEW i \in Nat
  PROVE  /\ i \div cap \in Nat /\ i % cap \in 0 .. cap - 1
         /\ i = cap * (i \div cap) + (i % cap)
OBVIOUS

\* Where a position lies between the first ones of two buffers.
LEMMA PositionWithin ==
  ASSUME NEW cap \in Nat \ {0}, NEW k \in Nat, NEW i \in Nat
  PROVE  /\ i \div cap = k <=> cap * k <= i /\ i < cap * k + cap
         /\ i \div cap >= k <=> cap * k <= i
         /\ cap * (k + 1) = cap * k + cap /\ cap * k \in Nat
OBVIOUS

\* The slots of a buffer of that capacity.
Offsets(cap) == 0 .. cap - 1

\* The buffer with number m starts at base.
Starts(base, cap, m) == cap \in Nat \ {0} /\ m \in Nat /\ base \in Nat /\ base = cap * m

\* Every buffer starts somewhere.
LEMMA StartOf ==
  ASSUME NEW cap \in Nat \ {0}, NEW m \in Nat
  PROVE  \E base \in Nat : base = cap * m /\ Starts(base, cap, m)
BY PositionWithin DEF Starts

\* Position i is at offset j of the buffer with number m, which starts at base.
PositionAt(i, cap, m, j, base) ==
  /\ i \in Nat /\ m \in Nat /\ j \in Offsets(cap) /\ base \in Nat
  /\ i \div cap = m /\ i % cap = j /\ i = base + j
  /\ base <= i /\ i < base + cap

\* A position in a buffer.
LEMMA InBuffer ==
  ASSUME NEW cap, NEW m, NEW base, Starts(base, cap, m), NEW i \in Nat, i \div cap = m,
         NEW j, j = i % cap
  PROVE  PositionAt(i, cap, m, j, base)
<1>0. cap \in Nat \ {0} /\ m \in Nat /\ base = cap * m
  BY DEF Starts
<1>1. base \in Nat /\ base <= i /\ i < base + cap
  BY <1>0, PositionWithin
<1>2. i % cap \in Offsets(cap) /\ i = base + (i % cap)
  BY Zenon, <1>0, PositionOf DEF Offsets
<1> QED BY <1>0, <1>1, <1>2 DEF PositionAt

\* The position at an offset of a buffer.
LEMMA AtOffset ==
  ASSUME NEW cap, NEW m, NEW base, Starts(base, cap, m), NEW j \in Offsets(cap),
         NEW i, i = base + j
  PROVE  PositionAt(i, cap, m, j, base)
<1>0. cap \in Nat \ {0} /\ m \in Nat /\ base = cap * m
  BY DEF Starts
<1>1. j \in 0 .. cap - 1 /\ base \in Nat
  BY <1>0, PositionWithin DEF Offsets
<1>2. base + j \in Nat /\ (base + j) \div cap = m /\ (base + j) % cap = j
  BY <1>0, <1>1, PositionSplits
<1>3. base <= i /\ i < base + cap
  BY <1>0, <1>1
<1> QED BY <1>0, <1>1, <1>2, <1>3 DEF PositionAt

\* Two positions in a buffer at the same offset are the same.
LEMMA SameOffset ==
  ASSUME NEW cap, NEW m, NEW base, Starts(base, cap, m), NEW i \in Nat, i \div cap = m,
         NEW j \in Nat, j \div cap = m, i % cap = j % cap
  PROVE  i = j
<1>1. PositionAt(i, cap, m, i % cap, base) /\ PositionAt(j, cap, m, j % cap, base)
  BY Zenon, InBuffer
<1> QED BY Zenon, <1>1 DEF PositionAt

\* f gives each of cap places another place.
Places(f, cap) ==
  /\ cap \in Nat /\ f \in [Offsets(cap) -> Offsets(cap)]
  /\ \A i, j \in Offsets(cap) : f[i] = f[j] => i = j

Permutes(order, n) ==
  /\ n \in Nat /\ order \in [1 .. n -> 1 .. n]
  /\ \A i, j \in 1 .. n : order[i] = order[j] => i = j

\* A permutation takes every value.
LEMMA PermutesOnto ==
  ASSUME NEW n, NEW order, Permutes(order, n), NEW m \in 1 .. n
  PROVE  \E i \in 1 .. n : order[i] = m
<1>1. /\ n \in Nat /\ order \in [1 .. n -> 1 .. n]
      /\ \A i, j \in 1 .. n : order[i] = order[j] => i = j
  BY DEF Permutes
<1> QED BY ZenonT(60), <1>1, Adding!RangePermuted

\* As many numbers as places, each once: every place is taken.
LEMMA AllPlacesTaken ==
  ASSUME NEW cap, NEW f, Places(f, cap), NEW m \in Offsets(cap)
  PROVE  \E i \in Offsets(cap) : f[i] = m
<1>0. /\ cap \in Nat /\ f \in [0 .. cap - 1 -> 0 .. cap - 1] /\ m \in 0 .. cap - 1
      /\ \A i, j \in 0 .. cap - 1 : f[i] = f[j] => i = j
  BY DEF Places, Offsets
<1> DEFINE order == [i \in 1 .. cap |-> f[i - 1] + 1]
<1>1. \A i \in 1 .. cap : i - 1 \in 0 .. cap - 1 /\ order[i] = f[i - 1] + 1
  BY <1>0
<1>2. order \in [1 .. cap -> 1 .. cap]
  <2>1. \A i \in 1 .. cap : f[i - 1] + 1 \in 1 .. cap
    <3>1. \A i \in 0 .. cap - 1 : f[i] \in 0 .. cap - 1
      BY Zenon, <1>0
    <3> SUFFICES ASSUME NEW i \in 1 .. cap PROVE f[i - 1] + 1 \in 1 .. cap
      OBVIOUS
    <3>2. PICK y \in 0 .. cap - 1 : y = f[i - 1]
      BY <1>1, <3>1
    <3> QED BY SMTT(30), <1>0, <3>2
  <2> QED BY <2>1
<1>3. \A i, j \in 1 .. cap : order[i] = order[j] => i = j
  <2>1. \A i, j \in 1 .. cap : order[i] = order[j] => i - 1 = j - 1
    BY <1>0, <1>1
  <2> QED BY <1>0, <2>1
<1>4. PICK x \in 1 .. cap : x = m + 1
  BY <1>0
<1> HIDE DEF order
<1>5. PICK i \in 1 .. cap : order[i] = x
  <2>1. Permutes(order, cap)
    BY Zenon, <1>0, <1>2, <1>3 DEF Permutes
  <2> QED BY <2>1, PermutesOnto
<1> QED BY <1>0, <1>1, <1>4, <1>5 DEF Offsets

-----------------------------------------------------------------------------
(* Slots of one buffer *)

\* A buffer that counts no live slot has none.
LEMMA NoLiveSlot ==
  ASSUME NEW b \in SparseBuffers, b.size = 0, NEW j \in Offsets(b.capacity)
  PROVE  b.slot[j] = kInvalidDenseId
<1>1. SparseType(b) /\ HolesExact(b) /\ b.capacity \in Nat
  BY SparseBufferFacts
<1>2. StackPositions(b) = Offsets(b.capacity)
  BY DEF StackPositions, Offsets
<1>3. b.hole \in [Offsets(b.capacity) -> Offsets(b.capacity)]
  BY <1>1 DEF SparseType, Offsets
<1>4. \A p, q \in Offsets(b.capacity) : b.hole[p] = b.hole[q] => p = q
  BY <1>1, <1>2 DEF HolesExact
<1>5. PICK p \in Offsets(b.capacity) : b.hole[p] = j
  <2>1. Places(b.hole, b.capacity)
    BY Zenon, <1>1, <1>3, <1>4 DEF Places
  <2> QED BY <2>1, AllPlacesTaken
<1>6. j \in FreeSlots(b)
  BY <1>1, <1>2, <1>5 DEF HolesExact
<1> QED BY <1>6 DEF FreeSlots, Offsets

\* One that counts some has one.
LEMMA SomeLiveSlot ==
  ASSUME NEW b \in SparseBuffers, b.size > 0
  PROVE  \E j \in Offsets(b.capacity) : b.slot[j] # kInvalidDenseId
<1> SUFFICES ASSUME \A j \in Offsets(b.capacity) : b.slot[j] = kInvalidDenseId
             PROVE  FALSE
  OBVIOUS
<1>1. /\ SparseType(b) /\ HolesExact(b) /\ b.capacity \in Nat /\ b.size \in Nat
      /\ b.size <= b.capacity
  BY SparseBufferFacts DEF SparseType
<1>2. FreeSlots(b) = Offsets(b.capacity)
  BY DEF FreeSlots, Offsets
<1> DEFINE At(j) == CHOOSE p \in StackPositions(b) : b.hole[p] = j
           f == [j \in Offsets(b.capacity) |-> At(j)]
<1>3. \A j \in Offsets(b.capacity) : At(j) \in StackPositions(b) /\ b.hole[At(j)] = j
  <2>1. \A j \in Offsets(b.capacity) : \E p \in StackPositions(b) : b.hole[p] = j
    BY <1>1, <1>2 DEF HolesExact
  <2> QED BY <2>1
<1>4. \A p \in StackPositions(b) : p \in Offsets(b.capacity) /\ p # 0
  BY <1>1 DEF StackPositions, Offsets
<1>5. /\ f \in [Offsets(b.capacity) -> Offsets(b.capacity)]
      /\ \A i, j \in Offsets(b.capacity) : f[i] = f[j] => i = j
      /\ \A i \in Offsets(b.capacity) : f[i] # 0
  <2> HIDE DEF At
  <2>1. \A j \in Offsets(b.capacity) : f[j] = At(j)
    OBVIOUS
  <2>2. f \in [Offsets(b.capacity) -> Offsets(b.capacity)]
    BY <1>3, <1>4
  <2> HIDE DEF f
  <2> QED BY <1>3, <1>4, <2>1, <2>2
<1>6. 0 \in Offsets(b.capacity)
  BY <1>1 DEF Offsets
<1> HIDE DEF f
<1>7. \E i \in Offsets(b.capacity) : f[i] = 0
  <2>1. Places(f, b.capacity)
    BY Zenon, <1>1, <1>5 DEF Places
  <2> QED BY <1>6, <2>1, AllPlacesTaken
<1> QED BY Zenon, <1>5, <1>7

\* A buffer without a hole has every slot in use.
LEMMA EverySlotLive ==
  ASSUME NEW b \in SparseBuffers
  PROVE  b.hole_cnt = 0 <=> \A j \in Offsets(b.capacity) : b.slot[j] # kInvalidDenseId
<1>1. /\ SparseType(b) /\ HolesExact(b) /\ b.capacity \in Nat /\ b.size \in Nat
      /\ b.size <= b.capacity /\ b.hole_cnt = b.capacity - b.size
  BY SparseBufferFacts DEF SparseType
<1>2. FreeSlots(b) = {b.hole[p] : p \in StackPositions(b)}
  BY <1>1 DEF HolesExact
<1>3. b.hole_cnt = 0 <=> StackPositions(b) = {}
  <2>1. b.size < b.capacity => b.size \in b.size .. b.capacity - 1
    BY <1>1
  <2>2. b.size = b.capacity => b.size .. b.capacity - 1 = {}
    BY <1>1
  <2> QED BY <1>1, <2>1, <2>2 DEF StackPositions, Offsets
<1>4. b.hole_cnt = 0 <=> FreeSlots(b) = {}
  BY Zenon, <1>2, <1>3
<1> QED BY Zenon, <1>4 DEF FreeSlots, Offsets

-----------------------------------------------------------------------------
(* The slots of a list of buffers, by the index of the caller *)

\* The dense id an index leads to in buffers of that capacity; a buffer that
\* has been emptied has no slots.
SlotOf(s, cap, i) ==
  LET k == i \div cap + 1
  IN IF k \in DOMAIN s /\ s[k].capacity # 0 THEN s[k].slot[i % cap] ELSE kInvalidDenseId

IsLive(s, cap, i) == SlotOf(s, cap, i) # kInvalidDenseId

\* A buffer has been emptied or has the common capacity; it has full size or
\* is the only one and can grow.
SlotBuffer(b, cap, count) ==
  b.capacity # 0 =>
    /\ b.capacity = cap
    /\ b.bytes = kMaxBufferSize \/ (count = 1 /\ b.bytes + SparseUnit <= kMaxBufferSize)

\* A list of such buffers.  The last may be empty, in the middle of an operation.
SlotBuffers(s, cap) ==
  /\ s \in Seq(SparseBuffers) /\ cap \in Nat \ {0}
  /\ \A k \in 1 .. Len(s) : SlotBuffer(s[k], cap, Len(s))
  /\ Len(s) > 1 => cap = kMaxBufferSize \div SparseUnit

\* The last buffer of a list has a live slot.
Ends(s) == s # <<>> => s[Len(s)].size > 0

\* The parts of a list of buffers.
LEMMA SlotBuffersFacts ==
  ASSUME NEW s, NEW cap, SlotBuffers(s, cap)
  PROVE  /\ s \in Seq(SparseBuffers) /\ DOMAIN s = 1 .. Len(s) /\ Len(s) \in Nat
         /\ cap \in Nat \ {0}
         /\ \A k \in 1 .. Len(s) :
              /\ s[k] \in SparseBuffers
              /\ s[k].capacity = 0 \/ s[k].capacity = cap
  <1>1. s \in Seq(SparseBuffers) /\ cap \in Nat \ {0}
        /\ \A k \in 1 .. Len(s) : SlotBuffer(s[k], cap, Len(s))
    BY DEF SlotBuffers
  <1>2. \A k \in 1 .. Len(s) : s[k].capacity = 0 \/ s[k].capacity = cap
    BY Zenon, <1>1 DEF SlotBuffer
  <1> QED BY <1>1, <1>2

\* Index i leads to slot j of the buffer with number m, which is live.
LiveAt(s, cap, i, m, j) ==
  /\ m + 1 \in 1 .. Len(s) /\ m \in Nat /\ j \in Offsets(cap)
  /\ s[m + 1].capacity = cap
  /\ SlotOf(s, cap, i) = s[m + 1].slot[j] /\ SlotOf(s, cap, i) \in Nat

\* A live slot is one of a buffer.
LEMMA LiveSlotFacts ==
  ASSUME NEW s, NEW cap, SlotBuffers(s, cap), NEW i \in Nat, IsLive(s, cap, i),
         NEW m, m = i \div cap, NEW j, j = i % cap
  PROVE  LiveAt(s, cap, i, m, j)
<1>1. /\ s \in Seq(SparseBuffers) /\ DOMAIN s = 1 .. Len(s) /\ cap \in Nat \ {0}
      /\ \A k \in 1 .. Len(s) : s[k] \in SparseBuffers /\ (s[k].capacity = 0 \/ s[k].capacity = cap)
  BY SlotBuffersFacts
<1>2. m \in Nat /\ j \in Offsets(cap)
  BY Zenon, <1>1, PositionOf DEF Offsets
<1>3. PICK k : k = m + 1
  OBVIOUS
<1>4. SlotOf(s, cap, i) = IF k \in DOMAIN s /\ s[k].capacity # 0 THEN s[k].slot[j]
                          ELSE kInvalidDenseId
  BY <1>3 DEF SlotOf
<1>5. k \in 1 .. Len(s) /\ s[k].capacity # 0 /\ SlotOf(s, cap, i) = s[k].slot[j]
  BY Zenon, <1>1, <1>4 DEF IsLive
<1>6. s[k].capacity = cap /\ s[k] \in SparseBuffers
  BY <1>1, <1>5
<1>7. s[k].slot[j] \in Nat \cup {kInvalidDenseId}
  <2>1. s[k].slot \in [Offsets(cap) -> Nat \cup {kInvalidDenseId}]
    BY Zenon, <1>6, SparseBufferFacts DEF SparseType, Offsets
  <2> QED BY <1>2, <2>1
<1> QED BY <1>2, <1>3, <1>5, <1>6, <1>7 DEF IsLive, LiveAt

\* Index i leads to slot j of the buffer with number m.
SlotIs(s, cap, i, m, j) == SlotOf(s, cap, i) = s[m + 1].slot[j]

\* The slot at an offset of a buffer that has its slots.
LEMMA SlotAtOffset ==
  ASSUME NEW s, NEW cap, SlotBuffers(s, cap), NEW m, m + 1 \in 1 .. Len(s),
         s[m + 1].capacity # 0, NEW base, NEW i, NEW j, PositionAt(i, cap, m, j, base)
  PROVE  SlotIs(s, cap, i, m, j)
<1>1. DOMAIN s = 1 .. Len(s)
  BY SlotBuffersFacts
<1>2. i \div cap = m /\ i % cap = j
  BY DEF PositionAt
<1> QED BY Zenon, <1>1, <1>2 DEF SlotOf, SlotIs

\* The route of a live slot is valid, and leads to it.
LEMMA LiveRoute ==
  ASSUME NEW a \in ArchType, NEW cap, SlotBuffers(a.sparse, cap), Ends(a.sparse),
         NEW i \in Nat, IsLive(a.sparse, cap, i)
  PROVE  /\ SparseRouteValid(a, i) /\ SlotAt(a, i) = SlotOf(a.sparse, cap, i)
         /\ SparseRoute(a, i).id = i \div cap /\ SparseRoute(a, i).offset = i % cap
<1> DEFINE s == a.sparse
<1>1. /\ i \div cap + 1 \in 1 .. Len(s) /\ i \div cap \in Nat /\ i % cap \in Offsets(cap)
      /\ s[i \div cap + 1].capacity = cap
      /\ SlotOf(s, cap, i) = s[i \div cap + 1].slot[i % cap]
  BY LiveSlotFacts DEF LiveAt
<1>2. /\ s \in Seq(SparseBuffers) /\ DOMAIN s = 1 .. Len(s) /\ cap \in Nat \ {0} /\ Len(s) \in Nat
      /\ \A k \in 1 .. Len(s) : s[k] \in SparseBuffers /\ (s[k].capacity = 0 \/ s[k].capacity = cap)
  BY SlotBuffersFacts
<1>3. s # <<>> /\ 1 \in 1 .. Len(s)
  BY <1>1, <1>2
<1>4. cap = IF s[1].capacity # 0 THEN s[1].capacity ELSE kMaxBufferSize \div SparseUnit
  <2>1. CASE s[1].capacity # 0
    BY Zenon, <1>2, <1>3, <2>1
  <2>2. CASE s[1].capacity = 0
    <3>1. s[1].size = 0
      <4>1. /\ s[1].size \in Nat /\ s[1].hole_cnt \in Nat
            /\ s[1].hole_cnt = s[1].capacity - s[1].size
        BY <1>2, <1>3, SparseBufferFacts
      <4> QED BY <2>2, <4>1
    <3>2. Len(s) # 1
      BY <1>3, <3>1 DEF Ends
    <3>3. Len(s) > 1
      <4>1. \A n \in Nat : 1 \in 1 .. n /\ n # 1 => n > 1
        OBVIOUS
      <4> QED BY Zenon, <1>2, <1>3, <3>2, <4>1
    <3> QED BY <2>2, <3>3 DEF SlotBuffers
  <2> QED BY Zenon, <2>1, <2>2
<1>5. SparseRoute(a, i).id = i \div cap /\ SparseRoute(a, i).offset = i % cap
  BY <1>4 DEF SparseRoute, Route
<1>6. SlotAt(a, i) = SlotOf(s, cap, i)
  BY Zenon, <1>1, <1>5 DEF SlotAt
<1>7. SparseRouteValid(a, i)
  <2>1. i \div cap < Len(s) /\ i % cap < s[i \div cap + 1].capacity
    BY <1>1, <1>2 DEF Offsets
  <2> QED BY Zenon, <1>3, <1>5, <2>1 DEF SparseRouteValid
<1> QED BY Zenon, <1>5, <1>6, <1>7

-----------------------------------------------------------------------------
(* Between two calls: the rows in the order of their sparse buffers *)

\* The live slots have the dense ids below count, each once, and a slot is in
\* the buffer where the slots with ids of its size are.
OldestFirst(s, cap, count) ==
  /\ SlotBuffers(s, cap) /\ Ends(s) /\ count \in Nat
  /\ \A k \in 1 .. Len(s) : s[k].capacity # 0
  /\ \A i \in Nat : IsLive(s, cap, i) =>
       SlotOf(s, cap, i) < count /\ SlotOf(s, cap, i) \div cap = i \div cap
  /\ \A i, j \in Nat : IsLive(s, cap, i) /\ SlotOf(s, cap, i) = SlotOf(s, cap, j) => i = j
  /\ \A d \in Nat : d < count => \E i \in Nat : SlotOf(s, cap, i) = d

\* A buffer with as many rows at and below it as it has places is full.
LEMMA FilledBuffer ==
  ASSUME NEW s, NEW cap, NEW count, OldestFirst(s, cap, count),
         NEW m \in Nat, m + 1 \in 1 .. Len(s), cap * m + cap <= count
  PROVE  s[m + 1].hole_cnt = 0
<1>1. /\ SlotBuffers(s, cap) /\ count \in Nat /\ s[m + 1].capacity # 0
      /\ \A i \in Nat : IsLive(s, cap, i) =>
           SlotOf(s, cap, i) < count /\ SlotOf(s, cap, i) \div cap = i \div cap
      /\ \A d \in Nat : d < count => \E i \in Nat : SlotOf(s, cap, i) = d
  BY DEF OldestFirst
<1>2. /\ cap \in Nat \ {0} /\ s[m + 1] \in SparseBuffers /\ s[m + 1].capacity = cap
      /\ DOMAIN s = 1 .. Len(s)
  BY <1>1, SlotBuffersFacts
<1>3. PICK base \in Nat : base = cap * m /\ Starts(base, cap, m)
  BY <1>2, StartOf
<1> DEFINE At(e) == CHOOSE i \in Nat : SlotOf(s, cap, i) = base + e
           f == [e \in Offsets(cap) |-> At(e) % cap]
<1>4. ASSUME NEW e \in Offsets(cap)
      PROVE  /\ At(e) \in Nat /\ SlotOf(s, cap, At(e)) = base + e /\ IsLive(s, cap, At(e))
             /\ At(e) \div cap = m /\ At(e) % cap \in Offsets(cap)
  <2>1. base + e \in Nat /\ base + e < count /\ (base + e) \div cap = m
    <3>1. base + e \in Nat /\ (base + e) \div cap = m /\ base + e < base + cap
      <4>1. PositionAt(base + e, cap, m, e, base)
        BY Zenon, <1>3, AtOffset
      <4> QED BY Zenon, <4>1 DEF PositionAt
    <3>2. base + cap <= count
      BY Zenon, <1>3
    <3>3. e \in Nat
      BY <1>2 DEF Offsets
    <3> QED BY <1>1, <1>2, <1>3, <3>1, <3>2, <3>3
  <2>2. \E i \in Nat : SlotOf(s, cap, i) = base + e
    BY <1>1, <2>1
  <2>3. At(e) \in Nat /\ SlotOf(s, cap, At(e)) = base + e
    BY <2>2
  <2> HIDE DEF At
  <2>4. IsLive(s, cap, At(e))
    BY <2>1, <2>3 DEF IsLive, kInvalidDenseId
  <2>5. At(e) \div cap = m
    BY Zenon, <1>1, <2>1, <2>3, <2>4
  <2>6. At(e) % cap \in Offsets(cap)
    BY Zenon, <1>2, <2>3, PositionOf DEF Offsets
  <2> QED BY <2>3, <2>4, <2>5, <2>6
<1> HIDE DEF At
<1>5. Places(f, cap)
  <2>1. f \in [Offsets(cap) -> Offsets(cap)]
    BY <1>4
  <2>2. ASSUME NEW d \in Offsets(cap), NEW e \in Offsets(cap), f[d] = f[e] PROVE d = e
    <3>1. At(d) % cap = At(e) % cap
      BY <2>2
    <3>2. At(d) \in Nat /\ At(e) \in Nat /\ At(d) \div cap = m /\ At(e) \div cap = m
      BY Zenon, <1>4
    <3>3. At(d) = At(e)
      BY Zenon, <1>3, <3>1, <3>2, SameOffset
    <3>4. base + d = base + e
      BY Zenon, <1>4, <3>3
    <3> QED BY <1>2, <1>3, <3>4 DEF Offsets
  <2> QED BY <1>2, <2>1, <2>2 DEF Places
<1>6. ASSUME NEW j \in Offsets(cap) PROVE s[m + 1].slot[j] # kInvalidDenseId
  <2>1. PICK e \in Offsets(cap) : f[e] = j
    BY <1>5, AllPlacesTaken
  <2>2. At(e) % cap = j
    BY <2>1
  <2>3. At(e) \in Nat /\ IsLive(s, cap, At(e)) /\ At(e) \div cap = m
    BY <1>4
  <2>4. SlotOf(s, cap, At(e)) = s[m + 1].slot[j]
    <3>1. PICK i \in Nat : i = At(e)
      BY <2>3
    <3>2. m = i \div cap /\ j = i % cap /\ IsLive(s, cap, i)
      BY Zenon, <2>2, <2>3, <3>1
    <3>3. LiveAt(s, cap, i, m, j)
      BY Zenon, <1>1, <3>2, LiveSlotFacts
    <3> QED BY <3>1, <3>3 DEF LiveAt
  <2> QED BY <2>3, <2>4 DEF IsLive
<1> QED BY Zenon, <1>2, <1>6, EverySlotLive

\* A full buffer has as many rows at and below it as it has places.
LEMMA FullBuffer ==
  ASSUME NEW s, NEW cap, NEW count, OldestFirst(s, cap, count),
         NEW m \in Nat, m + 1 \in 1 .. Len(s), s[m + 1].hole_cnt = 0
  PROVE  cap * m + cap <= count
<1>1. /\ SlotBuffers(s, cap) /\ count \in Nat /\ s[m + 1].capacity # 0
      /\ \A i \in Nat : IsLive(s, cap, i) =>
           SlotOf(s, cap, i) < count /\ SlotOf(s, cap, i) \div cap = i \div cap
      /\ \A i, j \in Nat : IsLive(s, cap, i) /\ SlotOf(s, cap, i) = SlotOf(s, cap, j) => i = j
  BY DEF OldestFirst
<1>2. /\ cap \in Nat \ {0} /\ s[m + 1] \in SparseBuffers /\ s[m + 1].capacity = cap
      /\ DOMAIN s = 1 .. Len(s)
  BY <1>1, SlotBuffersFacts
<1>3. \A j \in Offsets(cap) : s[m + 1].slot[j] # kInvalidDenseId
  BY Zenon, <1>2, EverySlotLive
<1>4. PICK base \in Nat : base = cap * m /\ Starts(base, cap, m)
  BY <1>2, StartOf
<1> DEFINE D(j) == s[m + 1].slot[j]
           f == [j \in Offsets(cap) |-> D(j) % cap]
<1>5. ASSUME NEW j \in Offsets(cap)
      PROVE  /\ base + j \in Nat /\ IsLive(s, cap, base + j) /\ SlotOf(s, cap, base + j) = D(j)
             /\ D(j) \in Nat /\ D(j) < count /\ D(j) \div cap = m /\ D(j) % cap \in Offsets(cap)
  <2>1. base + j \in Nat /\ (base + j) \div cap = m /\ SlotOf(s, cap, base + j) = D(j)
    <3>1. PositionAt(base + j, cap, m, j, base)
      BY Zenon, <1>4, AtOffset
    <3>2. SlotIs(s, cap, base + j, m, j)
      BY Zenon, <1>1, <3>1, SlotAtOffset
    <3> QED BY Zenon, <3>1, <3>2 DEF PositionAt, SlotIs
  <2>2. PICK i : i = base + j
    OBVIOUS
  <2>3. i \in Nat /\ i \div cap = m /\ SlotOf(s, cap, i) = D(j)
    BY Zenon, <2>1, <2>2
  <2>4. IsLive(s, cap, i)
    BY Zenon, <1>3, <2>3 DEF IsLive
  <2> HIDE DEF D
  <2>5. D(j) \in Nat /\ D(j) < count /\ D(j) \div cap = m
    <3>1. SlotOf(s, cap, i) \in Nat
      BY Zenon, <1>1, <2>3, <2>4, LiveSlotFacts DEF LiveAt
    <3> QED BY Zenon, <1>1, <2>3, <2>4, <3>1
  <2>6. D(j) % cap \in Offsets(cap)
    BY <1>2, <2>5, PositionOf DEF Offsets
  <2> QED BY Zenon, <2>2, <2>3, <2>4, <2>5, <2>6
<1> HIDE DEF D
<1>6. Places(f, cap)
  <2>1. f \in [Offsets(cap) -> Offsets(cap)]
    BY <1>5
  <2>2. ASSUME NEW i \in Offsets(cap), NEW j \in Offsets(cap), f[i] = f[j] PROVE i = j
    <3>1. D(i) % cap = D(j) % cap
      BY <2>2
    <3>2. D(i) \in Nat /\ D(j) \in Nat /\ D(i) \div cap = m /\ D(j) \div cap = m
      BY Zenon, <1>5
    <3>3. D(i) = D(j)
      BY Zenon, <1>4, <3>1, <3>2, SameOffset
    <3>4. base + i = base + j
      BY Zenon, <1>1, <1>5, <3>3
    <3> QED BY <1>2, <1>4, <3>4 DEF Offsets
  <2> QED BY <1>2, <2>1, <2>2 DEF Places
<1>7. PICK top \in Offsets(cap) : top = cap - 1
  BY <1>2 DEF Offsets
<1>8. PICK j \in Offsets(cap) : f[j] = top
  BY <1>6, AllPlacesTaken
<1>9. D(j) \in Nat /\ D(j) < count /\ D(j) % cap = top
  BY <1>5, <1>8
<1>10. D(j) = base + (D(j) % cap)
  <2>1. PositionAt(D(j), cap, m, D(j) % cap, base)
    BY Zenon, <1>4, <1>5, InBuffer
  <2> QED BY Zenon, <2>1 DEF PositionAt
<1>11. D(j) = base + top
  BY Zenon, <1>9, <1>10
<1> QED BY <1>1, <1>2, <1>4, <1>7, <1>9, <1>11

-----------------------------------------------------------------------------
(* Taking an index out of the sparse buffers *)

\* t has the slots of s.
SameSlots(s, t, cap) == \A i \in Nat : SlotOf(t, cap, i) = SlotOf(s, cap, i)

\* ... but for the slot of index x, which is free.
Cleared(s, t, cap, x) ==
  \A i \in Nat : SlotOf(t, cap, i) = IF i = x THEN kInvalidDenseId ELSE SlotOf(s, cap, i)

\* The slots of a buffer, if it has not been emptied.
SlotIn(b, j) == IF b.capacity # 0 THEN b.slot[j] ELSE kInvalidDenseId

\* Index i leads to slot e of buffer k, if there is one.
SlotsAt(s, cap, i, k, e) ==
  /\ k \in 1 .. Len(s) => SlotOf(s, cap, i) = SlotIn(s[k], e)
  /\ k \notin 1 .. Len(s) => SlotOf(s, cap, i) = kInvalidDenseId

\* The slots are those of the buffers.
LEMMA SlotsByBuffer ==
  ASSUME NEW s, NEW cap, SlotBuffers(s, cap), NEW i \in Nat,
         NEW k, k = i \div cap + 1, NEW e, e = i % cap
  PROVE  SlotsAt(s, cap, i, k, e)
<1>1. DOMAIN s = 1 .. Len(s) /\ cap \in Nat \ {0}
  BY SlotBuffersFacts
<1> QED BY Zenon, <1>1 DEF SlotOf, SlotIn, SlotsAt

\* Buffer n of a list is replaced by new, which leaves t.
BufferReplaced(s, cap, n, new, t) ==
  /\ SlotBuffers(t, cap) /\ Len(t) = Len(s) /\ t[n] = new
  /\ \A k \in 1 .. Len(s) : k # n => t[k] = s[k]

\* One buffer of a list is replaced.
LEMMA ReplaceSlotBuffer ==
  ASSUME NEW s, NEW cap, SlotBuffers(s, cap), NEW n \in 1 .. Len(s),
         NEW new \in SparseBuffers, SlotBuffer(new, cap, Len(s)), NEW t, t = [s EXCEPT ![n] = new]
  PROVE  BufferReplaced(s, cap, n, new, t)
<1>1. /\ s \in Seq(SparseBuffers) /\ cap \in Nat \ {0}
      /\ \A k \in 1 .. Len(s) : SlotBuffer(s[k], cap, Len(s))
      /\ Len(s) > 1 => cap = kMaxBufferSize \div SparseUnit
  BY Zenon DEF SlotBuffers
<1>2. /\ t \in Seq(SparseBuffers) /\ Len(t) = Len(s) /\ t[n] = new
      /\ \A k \in 1 .. Len(s) : k # n => t[k] = s[k]
  BY <1>1, ChangeAt
<1>3. \A k \in 1 .. Len(t) : SlotBuffer(t[k], cap, Len(t))
  BY Zenon, <1>1, <1>2
<1>4. Len(t) > 1 => cap = kMaxBufferSize \div SparseUnit
  BY Zenon, <1>1, <1>2
<1> QED BY Zenon, <1>1, <1>2, <1>3, <1>4 DEF SlotBuffers, BufferReplaced

\* An emptied buffer has no slots.
LEMMA EmptiedBuffer ==
  ASSUME NEW cap, NEW count, NEW b, b = SparseNew(0)
  PROVE  b \in SparseBuffers /\ b.size = 0 /\ b.capacity = 0 /\ SlotBuffer(b, cap, count)
<1>1. 0 \div SparseUnit = 0
  BY ConstantsNat
<1>2. b \in SparseBuffers /\ b.size = 0 /\ b.capacity = 0
  BY <1>1, NewSparseBuffer
<1> QED BY Zenon, <1>2 DEF SlotBuffer

\* The buffer that is left when slot j of a buffer is vacated.
Remains(b, j, new) ==
  LET vacated == Vacate(b, j)
  IN (vacated.size > 0 /\ new = vacated) \/ (vacated.size = 0 /\ new = SparseNew(0))

\* Slot j is free, the others are as they were.
BufferVacated(b, cap, count, j, new) ==
  /\ new \in SparseBuffers /\ SlotBuffer(new, cap, count)
  /\ \A i \in Offsets(cap) :
       SlotIn(new, i) = IF i = j THEN kInvalidDenseId ELSE SlotIn(b, i)

\* Vacating does that.
LEMMA VacatedBuffer ==
  ASSUME NEW b \in SparseBuffers, NEW cap, b.capacity = cap, NEW count, SlotBuffer(b, cap, count),
         NEW j \in Offsets(cap), b.slot[j] # kInvalidDenseId, b.size > 0,
         NEW new, Remains(b, j, new)
  PROVE  BufferVacated(b, cap, count, j, new)
<1>1. PICK vacated : vacated = Vacate(b, j)
  OBVIOUS
<1>2. /\ vacated \in SparseBuffers /\ vacated.size = b.size - 1 /\ b.capacity > 0
      /\ b.capacity \in Nat
  BY <1>1, VacateSparseBuffer, SparseBufferFacts DEF Offsets
<1>3. /\ vacated.capacity = cap /\ vacated.bytes = b.bytes
      /\ vacated.slot = [b.slot EXCEPT ![j] = kInvalidDenseId]
  BY <1>1 DEF Vacate
<1>4. b.slot \in [Offsets(cap) -> Nat \cup {kInvalidDenseId}]
  BY SparseBufferFacts DEF SparseType, Offsets
<1>5. cap # 0
  BY <1>2
<1>6. \A i \in Offsets(cap) :
        SlotIn(vacated, i) = IF i = j THEN kInvalidDenseId ELSE SlotIn(b, i)
  BY <1>3, <1>4, <1>5 DEF SlotIn
<1>7. CASE vacated.size > 0 /\ new = vacated
  <2>1. SlotBuffer(vacated, cap, count)
    BY Zenon, <1>3, <1>5 DEF SlotBuffer
  <2> QED BY Zenon, <1>2, <1>6, <1>7, <2>1 DEF BufferVacated
<1>8. CASE vacated.size = 0 /\ new = SparseNew(0)
  <2>1. /\ new \in SparseBuffers /\ new.capacity = 0 /\ SlotBuffer(new, cap, count)
    BY Zenon, <1>8, EmptiedBuffer
  <2>2. ASSUME NEW i \in Offsets(cap) PROVE SlotIn(vacated, i) = kInvalidDenseId
    <3>1. vacated.slot[i] = kInvalidDenseId
      BY Zenon, <1>2, <1>3, <1>8, NoLiveSlot
    <3> QED BY Zenon, <1>3, <1>5, <3>1 DEF SlotIn
  <2>3. \A i \in Offsets(cap) : SlotIn(new, i) = kInvalidDenseId
    BY Zenon, <2>1 DEF SlotIn
  <2> QED BY Zenon, <1>6, <2>1, <2>2, <2>3 DEF BufferVacated
<1> QED BY Zenon, <1>1, <1>7, <1>8 DEF Remains

\* Buffer k is replaced by new, which frees the slot of index x.
SlotCleared(s, cap, x, k, new, t) ==
  /\ SlotBuffers(t, cap) /\ Cleared(s, t, cap, x) /\ Len(t) = Len(s)
  /\ t[k] = new /\ \A n \in 1 .. Len(s) : n # k => t[n] = s[n]

\* An index is taken out of its buffer.
LEMMA ClearSlot ==
  ASSUME NEW s, NEW cap, SlotBuffers(s, cap), NEW x \in Nat, IsLive(s, cap, x),
         NEW m, m = x \div cap, NEW j, j = x % cap,
         NEW k, k = m + 1, NEW new, Remains(s[k], j, new), NEW t, t = [s EXCEPT ![k] = new]
  PROVE  SlotCleared(s, cap, x, k, new, t)
<1>1. /\ m + 1 \in 1 .. Len(s) /\ m \in Nat /\ j \in Offsets(cap)
      /\ s[m + 1].capacity = cap
      /\ SlotOf(s, cap, x) = s[m + 1].slot[j] /\ SlotOf(s, cap, x) \in Nat
  BY LiveSlotFacts DEF LiveAt
<1>2. PICK b, n : b = s[m + 1] /\ n = k
  OBVIOUS
<1>3. /\ b \in SparseBuffers /\ b.capacity = cap /\ SlotBuffer(b, cap, Len(s))
      /\ cap \in Nat \ {0}
  BY <1>1, <1>2, SlotBuffersFacts DEF SlotBuffers
<1>4. b.slot[j] # kInvalidDenseId
  BY Zenon, <1>1, <1>2 DEF IsLive
<1>5. b.size > 0
  <2>1. b.size # 0
    BY Zenon, <1>1, <1>3, <1>4, NoLiveSlot
  <2> QED BY <1>3, <2>1, SparseBufferFacts
<1>6. /\ new \in SparseBuffers /\ SlotBuffer(new, cap, Len(s))
      /\ \A i \in Offsets(cap) :
           SlotIn(new, i) = IF i = j THEN kInvalidDenseId ELSE SlotIn(b, i)
  <2>1. Remains(b, j, new)
    BY Zenon, <1>2
  <2>2. BufferVacated(b, cap, Len(s), j, new)
    BY Zenon, <1>1, <1>3, <1>4, <1>5, <2>1, VacatedBuffer
  <2> QED BY Zenon, <2>2 DEF BufferVacated
<1>7. /\ SlotBuffers(t, cap) /\ Len(t) = Len(s) /\ t[n] = new
      /\ \A l \in 1 .. Len(s) : l # n => t[l] = s[l]
  <2>1. n \in 1 .. Len(s) /\ t = [s EXCEPT ![n] = new]
    BY Zenon, <1>1, <1>2
  <2>2. BufferReplaced(s, cap, n, new, t)
    BY Zenon, <1>6, <2>1, ReplaceSlotBuffer
  <2> QED BY Zenon, <2>2 DEF BufferReplaced
<1>8. Cleared(s, t, cap, x)
  <2>1. PICK base \in Nat : Starts(base, cap, m)
    BY Zenon, <1>1, <1>3, StartOf
  <2> SUFFICES ASSUME NEW i \in Nat
               PROVE  SlotOf(t, cap, i) = IF i = x THEN kInvalidDenseId ELSE SlotOf(s, cap, i)
    BY Zenon DEF Cleared
  <2>2. PICK l, e : l = i \div cap + 1 /\ e = i % cap
    OBVIOUS
  <2>3. /\ l \in 1 .. Len(s) => /\ SlotOf(s, cap, i) = SlotIn(s[l], e)
                                /\ SlotOf(t, cap, i) = SlotIn(t[l], e)
        /\ l \notin 1 .. Len(s) => /\ SlotOf(s, cap, i) = kInvalidDenseId
                                   /\ SlotOf(t, cap, i) = kInvalidDenseId
    <3>1. /\ l \in 1 .. Len(s) => SlotOf(s, cap, i) = SlotIn(s[l], e)
          /\ l \notin 1 .. Len(s) => SlotOf(s, cap, i) = kInvalidDenseId
      <4>1. SlotsAt(s, cap, i, l, e)
        BY Zenon, <2>2, SlotsByBuffer
      <4> QED BY Zenon, <4>1 DEF SlotsAt
    <3>2. /\ l \in 1 .. Len(t) => SlotOf(t, cap, i) = SlotIn(t[l], e)
          /\ l \notin 1 .. Len(t) => SlotOf(t, cap, i) = kInvalidDenseId
      <4>1. SlotsAt(t, cap, i, l, e)
        BY Zenon, <1>7, <2>2, SlotsByBuffer
      <4> QED BY Zenon, <4>1 DEF SlotsAt
    <3> QED BY Zenon, <1>7, <3>1, <3>2
  <2>4. i \div cap \in Nat /\ e \in Offsets(cap)
    BY Zenon, <1>3, <2>2, PositionOf DEF Offsets
  <2>5. CASE l # n
    <3>1. i # x
      BY <1>2, <2>2, <2>5
    <3> QED BY Zenon, <1>7, <2>3, <2>5, <3>1
  <2>6. CASE l = n
    <3>1. i \div cap = m
      BY <1>1, <1>2, <2>2, <2>4, <2>6
    <3>2. i = x <=> e = j
      <4>1. e = j => i = x
        <5>1. e = j => i % cap = x % cap
          BY Zenon, <2>2
        <5> QED BY Zenon, <2>1, <3>1, <5>1, SameOffset
      <4> QED BY <2>2, <4>1
    <3>3. SlotOf(s, cap, i) = SlotIn(b, e) /\ SlotOf(t, cap, i) = SlotIn(new, e)
      BY Zenon, <1>1, <1>2, <1>7, <2>3, <2>6
    <3> QED BY Zenon, <1>6, <2>4, <3>2, <3>3
  <2> QED BY Zenon, <2>5, <2>6
<1> QED BY Zenon, <1>2, <1>7, <1>8 DEF SlotCleared

\* The last buffer is dropped, and no slot is lost.
SlotBufferDropped(s, cap, t) ==
  SlotBuffers(t, cap) /\ SameSlots(s, t, cap) /\ Len(t) = Len(s) - 1

\* A last buffer without live slots is dropped.
LEMMA DropSlotBuffer ==
  ASSUME NEW s, NEW cap, SlotBuffers(s, cap), s # <<>>, s[Len(s)].size = 0,
         NEW t, t = Front(s)
  PROVE  SlotBufferDropped(s, cap, t)
<1>1. /\ s \in Seq(SparseBuffers) /\ cap \in Nat \ {0}
      /\ \A k \in 1 .. Len(s) : SlotBuffer(s[k], cap, Len(s))
      /\ Len(s) > 1 => cap = kMaxBufferSize \div SparseUnit
  BY Zenon DEF SlotBuffers
<1>2. PICK n : n = Len(s)
  OBVIOUS
<1>3. PICK p : p = n - 1
  OBVIOUS
<1>4. /\ t \in Seq(SparseBuffers) /\ Len(t) = p /\ \A k \in 1 .. p : t[k] = s[k]
      /\ n \in Nat \ {0} /\ p \in Nat
  BY <1>1, <1>2, <1>3, FrontFacts
<1>5. SlotBuffers(t, cap)
  <2>1. ASSUME NEW k \in 1 .. p PROVE SlotBuffer(t[k], cap, p)
    <3>1. SlotBuffer(s[k], cap, n) /\ k \in 1 .. n /\ n # 1
      BY <1>1, <1>2, <1>3, <1>4
    <3>2. SlotBuffer(s[k], cap, p)
      BY Zenon, <3>1 DEF SlotBuffer
    <3> QED BY Zenon, <1>4, <3>2
  <2>2. p > 1 => cap = kMaxBufferSize \div SparseUnit
    BY <1>1, <1>2, <1>3, <1>4
  <2> QED BY Zenon, <1>1, <1>4, <2>1, <2>2 DEF SlotBuffers
<1>6. ASSUME NEW i \in Nat PROVE SlotOf(t, cap, i) = SlotOf(s, cap, i)
  <2>1. PICK k, e : k = i \div cap + 1 /\ e = i % cap
    OBVIOUS
  <2>2. /\ k \in 1 .. n => SlotOf(s, cap, i) = SlotIn(s[k], e)
        /\ k \notin 1 .. n => SlotOf(s, cap, i) = kInvalidDenseId
    <3>1. SlotsAt(s, cap, i, k, e)
      BY Zenon, <2>1, SlotsByBuffer
    <3> QED BY Zenon, <1>2, <3>1 DEF SlotsAt
  <2>3. /\ k \in 1 .. p => SlotOf(t, cap, i) = SlotIn(t[k], e)
        /\ k \notin 1 .. p => SlotOf(t, cap, i) = kInvalidDenseId
    <3>1. SlotsAt(t, cap, i, k, e)
      BY Zenon, <1>5, <2>1, SlotsByBuffer
    <3> QED BY Zenon, <1>4, <3>1 DEF SlotsAt
  <2>4. /\ k \in 1 .. p => k \in 1 .. n
        /\ k \notin 1 .. p => k \notin 1 .. n \/ k = n
        /\ n \in 1 .. n
    BY <1>3, <1>4
  <2>5. SlotIn(s[n], e) = kInvalidDenseId
    <3>1. s[n] \in SparseBuffers /\ (s[n].capacity # 0 => s[n].capacity = cap)
      BY <1>1, <1>2, <2>4, SlotBuffersFacts
    <3>2. e \in Offsets(cap)
      BY <1>1, <2>1, PositionOf DEF Offsets
    <3>3. s[n].capacity = cap => s[n].slot[e] = kInvalidDenseId
      BY Zenon, <1>2, <3>1, <3>2, NoLiveSlot
    <3> QED BY Zenon, <3>1, <3>3 DEF SlotIn
  <2> QED BY Zenon, <1>4, <2>2, <2>3, <2>4, <2>5
<1> QED BY Zenon, <1>2, <1>3, <1>4, <1>5, <1>6 DEF SameSlots, SlotBufferDropped
\* b is a without some empty buffers at the end of its list; if the last has no
\* live slot, r buffers are left.
TailsFrom(a, b, cap, r) ==
  /\ {"sparse", "rv", "dcheck"} \subseteq DOMAIN b
  /\ b.rv = a.rv /\ b.dcheck = a.dcheck
  /\ SlotBuffers(b.sparse, cap) /\ SameSlots(a.sparse, b.sparse, cap)
  /\ Len(b.sparse) = r \/ Ends(b.sparse)

\* One turn of the loop.
LEMMA TailStep ==
  ASSUME NEW a, NEW b, NEW cap, NEW n \in Nat \ {0}, TailsFrom(a, b, cap, n),
         NEW c, c = DropIfEmpty(b, n), NEW r, r = n - 1
  PROVE  TailsFrom(a, c, cap, r)
<1>1. /\ {"sparse", "rv", "dcheck"} \subseteq DOMAIN b
      /\ b.rv = a.rv /\ b.dcheck = a.dcheck
      /\ SlotBuffers(b.sparse, cap) /\ SameSlots(a.sparse, b.sparse, cap)
      /\ Len(b.sparse) = n \/ Ends(b.sparse)
  BY Zenon DEF TailsFrom
<1>2. PICK s : s = b.sparse
  OBVIOUS
<1>3. s \in Seq(SparseBuffers) /\ Len(s) \in Nat
  BY <1>1, <1>2, SlotBuffersFacts
<1>4. CASE Len(s) # n \/ s[n].size # 0
  <2>1. c = b
    BY Zenon, <1>2, <1>4 DEF DropIfEmpty
  <2>2. Ends(s)
    <3>1. CASE Len(s) # n
      BY Zenon, <1>1, <1>2, <3>1
    <3>2. CASE Len(s) = n
      <4>1. s[n].size # 0 /\ n \in 1 .. Len(s)
        BY <1>4, <3>2
      <4>2. s[n].size \in Nat
        BY <1>3, <4>1, SparseBufferFacts
      <4> QED BY <3>2, <4>1, <4>2 DEF Ends
    <3> QED BY Zenon, <3>1, <3>2
  <2> QED BY Zenon, <1>1, <1>2, <2>1, <2>2 DEF TailsFrom
<1>5. CASE Len(s) = n /\ s[n].size = 0
  <2>1. PICK left : c = [b EXCEPT !.sparse = Front(s), !.available_sparse = left]
    BY Zenon, <1>2, <1>5 DEF DropIfEmpty
  <2>2. PICK t : t = Front(s)
    OBVIOUS
  <2>3. /\ {"sparse", "rv", "dcheck"} \subseteq DOMAIN c
        /\ c.sparse = t /\ c.rv = b.rv /\ c.dcheck = b.dcheck
    BY <1>1, <2>1, <2>2
  <2>4. SlotBufferDropped(s, cap, t)
    <3>1. s # <<>> /\ s[Len(s)].size = 0 /\ SlotBuffers(s, cap)
      BY <1>1, <1>2, <1>3, <1>5
    <3> QED BY Zenon, <2>2, <3>1, DropSlotBuffer
  <2>5. SlotBuffers(t, cap) /\ SameSlots(s, t, cap) /\ Len(t) = Len(s) - 1
    BY Zenon, <2>4 DEF SlotBufferDropped
  <2>6. SameSlots(a.sparse, t, cap)
    BY Zenon, <1>1, <1>2, <2>5 DEF SameSlots
  <2>7. Len(t) = r
    BY Zenon, <1>5, <2>5
  <2> QED BY Zenon, <1>1, <2>3, <2>5, <2>6, <2>7 DEF TailsFrom
<1> QED BY Zenon, <1>4, <1>5

\* b is a without the empty buffers at the end of its list.
TailsGone(a, b, cap) ==
  /\ b.rv = a.rv /\ b.dcheck = a.dcheck
  /\ SlotBuffers(b.sparse, cap) /\ SameSlots(a.sparse, b.sparse, cap) /\ Ends(b.sparse)

\* DropEmptyTails loses no slot and leaves no empty buffer at the end.
LEMMA DropTailsKeepsSlots ==
  ASSUME NEW a, {"sparse", "rv", "dcheck"} \subseteq DOMAIN a, NEW cap, SlotBuffers(a.sparse, cap),
         NEW b, b = DropEmptyTails(a)
  PROVE  TailsGone(a, b, cap)
<1>1. PICK w, n : w = FromTail(Len(a.sparse)) /\ n = Len(a.sparse)
  OBVIOUS
<1>2. n \in Nat
  BY Zenon, <1>1, SlotBuffersFacts
<1>3. /\ DOMAIN w = 1 .. n /\ \A k \in 1 .. n : w[k] = n + 1 - k
  BY <1>1, <1>2 DEF FromTail
<1>4. DropEmptyTails(a) = Dropping!Fold(a, w)
  BY ZenonT(60), <1>1 DEF DropEmptyTails, Dropping!Fold, FoldLeft, MapThenFoldSet,
    Dropping!MapThenFoldSet, Max, Dropping!Highest
<1>5. Dropping!HasLength(w, n)
  BY <1>2, <1>3 DEF Dropping!HasLength
<1>6. PICK g : Dropping!Folding(g, a, w, n)
  BY <1>5, Dropping!FoldSteps
<1>7. /\ g[0] = a /\ \A k \in 1 .. n : g[k] = DropIfEmpty(g[k - 1], w[k])
      /\ DropEmptyTails(a) = g[n]
  BY Zenon, <1>4, <1>6 DEF Dropping!Folding
<1> DEFINE S == {k \in 0 .. n : TailsFrom(a, g[k], cap, n - k)}
<1>8. 0 \in S
  <2>1. TailsFrom(a, a, cap, n)
    BY Zenon, <1>1 DEF TailsFrom, SameSlots
  <2>2. n - 0 = n /\ 0 \in 0 .. n
    BY <1>2
  <2> QED BY Zenon, <1>7, <2>1, <2>2
<1>9. ASSUME NEW k \in 1 .. n, k - 1 \in S PROVE k \in S
  <2>1. PICK i, m : i = k - 1 /\ m = w[k]
    OBVIOUS
  <2>2. m \in Nat \ {0} /\ n - i = m /\ n - k = m - 1 /\ k \in 0 .. n
    BY <1>2, <1>3, <2>1
  <2>3. TailsFrom(a, g[i], cap, m) /\ g[k] = DropIfEmpty(g[i], m)
    BY Zenon, <1>7, <1>9, <2>1, <2>2
  <2>4. TailsFrom(a, g[k], cap, n - k)
    BY Zenon, <2>2, <2>3, TailStep
  <2> QED BY Zenon, <2>2, <2>4
<1>10. 0 .. n \subseteq S
  <2> HIDE DEF S
  <2> QED BY <1>2, <1>8, <1>9, Dropping!RangeInduction
<1>11. TailsFrom(a, g[n], cap, 0)
  <2>1. n \in S /\ n - n = 0
    BY <1>2, <1>10
  <2> QED BY Zenon, <2>1
<1>12. Len(b.sparse) = 0 => Ends(b.sparse)
  <2>1. b.sparse \in Seq(SparseBuffers)
    BY Zenon, <1>7, <1>11, SlotBuffersFacts DEF TailsFrom
  <2> QED BY <2>1 DEF Ends
<1> QED BY Zenon, <1>7, <1>11, <1>12 DEF TailsFrom, TailsGone

\* b is what is left of a when the slot of index x has been taken.
TakenLive(a, b, cap, x) ==
  /\ Running(b) /\ b.rv = <<SlotOf(a.sparse, cap, x)>>
  /\ SlotBuffers(b.sparse, cap) /\ Ends(b.sparse) /\ Cleared(a.sparse, b.sparse, cap, x)

\* TakeDenseIdFromSparse of a live index fails no check, returns its dense id
\* and frees its slot only.
LEMMA TakeLive ==
  ASSUME NEW a, a \in ArchType, Running(a), NEW cap, SlotBuffers(a.sparse, cap), Ends(a.sparse),
         NEW x \in Nat, IsLive(a.sparse, cap, x), NEW b, b = TakeDenseIdFromSparse(a, x)
  PROVE  TakenLive(a, b, cap, x)
<1>1. PICK s, id, offset, k :
        /\ s = a.sparse /\ id = SparseRoute(a, x).id /\ offset = SparseRoute(a, x).offset
        /\ k = id + 1
  OBVIOUS
<1>2. /\ id = x \div cap /\ offset = x % cap
      /\ SparseRouteValid(a, x) /\ SlotAt(a, x) = SlotOf(s, cap, x)
  BY <1>1, LiveRoute
<1>3. LiveAt(s, cap, x, id, offset)
  BY Zenon, <1>1, <1>2, LiveSlotFacts
<1>4. /\ k \in 1 .. Len(s) /\ offset \in Offsets(cap) /\ s[k].capacity = cap
      /\ SlotOf(s, cap, x) = s[k].slot[offset] /\ SlotOf(s, cap, x) \in Nat
  BY Zenon, <1>1, <1>3 DEF LiveAt
<1>5. PICK buffer, vacated, listed, d :
        /\ buffer = s[k] /\ vacated = Vacate(buffer, offset)
        /\ listed = (IF buffer.hole_cnt = 0 THEN Append(a.available_sparse, id)
                     ELSE a.available_sparse)
        /\ d = SlotOf(s, cap, x)
  BY Zenon
<1>6. /\ s \in Seq(SparseBuffers) /\ Len(s) \in Nat /\ cap \in Nat \ {0}
      /\ buffer \in SparseBuffers /\ buffer.size \in Nat
  <2>1. s \in Seq(SparseBuffers) /\ Len(s) \in Nat /\ cap \in Nat \ {0} /\ buffer \in SparseBuffers
    BY <1>1, <1>4, <1>5, SlotBuffersFacts
  <2> QED BY <2>1, SparseBufferFacts
<1>7. d # kInvalidDenseId /\ buffer.slot[offset] = d
  BY Zenon, <1>1, <1>4, <1>5 DEF IsLive
<1>8. buffer.size > 0
  <2>1. buffer.size # 0
    BY Zenon, <1>4, <1>5, <1>6, <1>7, NoLiveSlot
  <2> QED BY <1>6, <2>1
<1>9. vacated \in SparseBuffers /\ vacated.size \in Nat
  <2>1. buffer.capacity = cap
    BY Zenon, <1>4, <1>5
  <2>2. offset \in 0 .. buffer.capacity - 1
    BY <1>4, <2>1 DEF Offsets
  <2>3. vacated \in SparseBuffers
    BY <1>5, <1>6, <1>7, <1>8, <2>2, VacateSparseBuffer
  <2> QED BY <2>3, SparseBufferFacts
<1>10. PICK taken :
         taken = [a EXCEPT !.available_sparse = listed, !.rv = <<d>>]
  OBVIOUS
<1>11. b = CASE vacated.size > 0 -> [taken EXCEPT !.sparse[k] = vacated]
             [] vacated.size = 0 /\ Len(s) > 1 ->
                  DropEmptyTails([taken EXCEPT !.sparse[k] = SparseNew(0)])
             [] vacated.size = 0 /\ Len(s) = 1 ->
                  [taken EXCEPT !.sparse = <<>>, !.available_sparse = <<>>]
  <2>1. b = Dcheck(a, SparseRouteValid(a, x), "GetSparseRoute",
              Dcheck(a, buffer.size > 0 /\ SlotAt(a, x) # kInvalidDenseId, "SparseBuffer::Remove",
                CASE vacated.size > 0 -> [taken EXCEPT !.sparse[k] = vacated]
                  [] vacated.size = 0 /\ Len(s) > 1 ->
                       DropEmptyTails([taken EXCEPT !.sparse[k] = SparseNew(0)])
                  [] vacated.size = 0 /\ Len(s) = 1 ->
                       [taken EXCEPT !.sparse = <<>>, !.available_sparse = <<>>]))
    BY Zenon, <1>1, <1>2, <1>5, <1>10 DEF TakeDenseIdFromSparse
  <2> QED BY Zenon, <1>2, <1>5, <1>7, <1>8, <2>1 DEF Dcheck
<1>12. ASSUME NEW new, NEW c, c = [taken EXCEPT !.sparse[k] = new]
       PROVE  /\ {"sparse", "rv", "dcheck"} \subseteq DOMAIN c
              /\ c.sparse = [s EXCEPT ![k] = new] /\ c.rv = <<d>> /\ c.dcheck = a.dcheck
  BY <1>1, <1>10, <1>12 DEF ArchType
<1>13. ASSUME NEW new, Remains(buffer, offset, new), NEW t, t = [s EXCEPT ![k] = new]
       PROVE  SlotCleared(s, cap, x, k, new, t)
  <2>1. Remains(s[k], offset, new)
    BY Zenon, <1>5, <1>13
  <2> QED BY Zenon, <1>1, <1>2, <1>13, <2>1, ClearSlot
<1>14. CASE vacated.size > 0
  <2>1. b = [taken EXCEPT !.sparse[k] = vacated]
    BY <1>11, <1>14
  <2>2. PICK t : t = [s EXCEPT ![k] = vacated]
    BY Zenon
  <2>3. b.sparse = t /\ b.rv = <<d>> /\ b.dcheck = a.dcheck
    BY Zenon, <1>12, <2>1, <2>2
  <2>4. Remains(buffer, offset, vacated)
    BY Zenon, <1>5, <1>14 DEF Remains
  <2>5. /\ SlotBuffers(t, cap) /\ Cleared(s, t, cap, x) /\ Len(t) = Len(s)
        /\ t[k] = vacated /\ \A n \in 1 .. Len(s) : n # k => t[n] = s[n]
    <3>1. SlotCleared(s, cap, x, k, vacated, t)
      BY Zenon, <1>13, <2>2, <2>4
    <3> QED BY Zenon, <3>1 DEF SlotCleared
  <2>6. Ends(t)
    <3>1. Len(s) \in 1 .. Len(s) /\ s # <<>>
      BY <1>4, <1>6
    <3>2. s[Len(s)].size > 0
      BY Zenon, <1>1, <3>1 DEF Ends
    <3> QED BY Zenon, <1>14, <2>5, <3>1, <3>2 DEF Ends
  <2> QED BY Zenon, <1>1, <1>5, <2>3, <2>5, <2>6 DEF TakenLive, Running
<1>15. CASE vacated.size = 0 /\ Len(s) > 1
  <2>1. PICK new, c : new = SparseNew(0) /\ c = [taken EXCEPT !.sparse[k] = new]
    BY Zenon
  <2>2. b = DropEmptyTails(c)
    <3>0. (\A y \in Nat : y > 1 => y # 1) /\ ~(0 > 0)
      OBVIOUS
    <3>1. ~(vacated.size > 0) /\ Len(s) # 1
      BY Zenon, <1>6, <1>15, <3>0
    <3> QED BY Zenon, <1>11, <1>15, <2>1, <3>1
  <2>3. PICK t : t = [s EXCEPT ![k] = new]
    BY Zenon
  <2>4. /\ {"sparse", "rv", "dcheck"} \subseteq DOMAIN c
        /\ c.sparse = t /\ c.rv = <<d>> /\ c.dcheck = a.dcheck
    <3>1. c = [taken EXCEPT !.sparse[k] = new]
      BY Zenon, <2>1
    <3>2. /\ {"sparse", "rv", "dcheck"} \subseteq DOMAIN c
          /\ c.sparse = [s EXCEPT ![k] = new] /\ c.rv = <<d>> /\ c.dcheck = a.dcheck
      BY <1>12, <3>1
    <3> QED BY Zenon, <2>3, <3>2
  <2>5. Remains(buffer, offset, new)
    BY Zenon, <1>5, <1>15, <2>1 DEF Remains
  <2>6. SlotBuffers(t, cap) /\ Cleared(s, t, cap, x)
    <3>1. SlotCleared(s, cap, x, k, new, t)
      BY Zenon, <1>13, <2>3, <2>5
    <3> QED BY Zenon, <3>1 DEF SlotCleared
  <2>7. TailsGone(c, b, cap)
    BY Zenon, <2>2, <2>4, <2>6, DropTailsKeepsSlots
  <2>8. /\ b.rv = c.rv /\ b.dcheck = c.dcheck
        /\ SlotBuffers(b.sparse, cap) /\ SameSlots(t, b.sparse, cap) /\ Ends(b.sparse)
    BY Zenon, <2>4, <2>7 DEF TailsGone
  <2>9. Cleared(s, b.sparse, cap, x)
    BY Zenon, <2>6, <2>8 DEF Cleared, SameSlots
  <2> QED BY Zenon, <1>1, <1>5, <2>4, <2>8, <2>9 DEF TakenLive, Running
<1>16. CASE vacated.size = 0 /\ Len(s) = 1
  <2>1. b = [taken EXCEPT !.sparse = <<>>, !.available_sparse = <<>>]
    <3>0. ~(1 > 1) /\ ~(0 > 0)
      OBVIOUS
    <3>1. ~(vacated.size > 0) /\ ~(Len(s) > 1)
      BY Zenon, <1>16, <3>0
    <3> QED BY Zenon, <1>11, <1>16, <3>1
  <2>2. b.sparse = <<>> /\ b.rv = <<d>> /\ b.dcheck = a.dcheck
    BY <1>10, <2>1 DEF ArchType
  <2>3. PICK new, t : new = SparseNew(0) /\ t = [s EXCEPT ![k] = new]
    BY Zenon
  <2>4. Remains(buffer, offset, new)
    BY Zenon, <1>5, <1>16, <2>3 DEF Remains
  <2>5. SlotBuffers(t, cap) /\ Cleared(s, t, cap, x) /\ Len(t) = 1 /\ t[k] = new /\ k = 1
    <3>1. k = 1
      BY <1>4, <1>16
    <3>2. SlotCleared(s, cap, x, k, new, t)
      BY Zenon, <1>13, <2>3, <2>4
    <3> QED BY Zenon, <1>16, <3>1, <3>2 DEF SlotCleared
  <2>6. t # <<>> /\ t[Len(t)].size = 0
    <3>1. new.size = 0
      BY Zenon, <2>3, EmptiedBuffer
    <3>2. t[Len(t)] = new
      BY Zenon, <2>5
    <3>3. t # <<>>
      <4>1. Len(<<>>) = 0 /\ 0 # 1
        OBVIOUS
      <4> QED BY Zenon, <2>5, <4>1
    <3> QED BY Zenon, <3>1, <3>2, <3>3
  <2>7. PICK left : left = Front(t)
    OBVIOUS
  <2>8. SlotBufferDropped(t, cap, left)
    BY Zenon, <2>5, <2>6, <2>7, DropSlotBuffer
  <2>9. SlotBuffers(left, cap) /\ SameSlots(t, left, cap) /\ Len(left) = 0
    <3>1. Len(left) = Len(t) - 1
      BY Zenon, <2>8 DEF SlotBufferDropped
    <3> QED BY <2>5, <2>8, <3>1 DEF SlotBufferDropped
  <2>10. left = <<>>
    <3>1. left \in Seq(SparseBuffers)
      BY Zenon, <2>9, SlotBuffersFacts
    <3> QED BY <2>9, <3>1
  <2>11. Cleared(s, left, cap, x)
    BY Zenon, <2>5, <2>9 DEF Cleared, SameSlots
  <2>12. Ends(left)
    BY Zenon, <2>10 DEF Ends
  <2> QED BY Zenon, <1>1, <1>5, <2>2, <2>9, <2>10, <2>11, <2>12 DEF TakenLive, Running
<1>17. \/ vacated.size > 0
       \/ vacated.size = 0 /\ Len(s) > 1
       \/ vacated.size = 0 /\ Len(s) = 1
  <2>1. Len(s) \in Nat \ {0}
    BY <1>4, <1>6
  <2>2. \A i \in Nat, y \in Nat \ {0} : i > 0 \/ (i = 0 /\ y > 1) \/ (i = 0 /\ y = 1)
    OBVIOUS
  <2> QED BY Zenon, <1>9, <2>1, <2>2
<1> QED BY Zenon, <1>14, <1>15, <1>16, <1>17

\* Index i is one of the first k of the list.
Among(list, k, i) == \E j \in 1 .. k : list[j] = i

\* The n live indices a caller hands back, each once.
LiveList(s, cap, list, n) ==
  /\ n \in Nat /\ list \in [1 .. n -> Nat]
  /\ \A j \in 1 .. n : IsLive(s, cap, list[j])
  /\ \A i, j \in 1 .. n : list[i] = list[j] => i = j

\* t has the slots of s but for those of the first k indices of the list.
AllCleared(s, t, cap, list, k) ==
  \A i \in Nat : SlotOf(t, cap, i) = IF Among(list, k, i) THEN kInvalidDenseId
                                     ELSE SlotOf(s, cap, i)

\* b is what is left of a when the slots of the first k indices have been taken.
TakenLives(a, b, cap, list, k) ==
  /\ Running(b) /\ b.rv \in Seq(Nat) /\ Len(b.rv) = k
  /\ \A j \in 1 .. k : b.rv[j] = SlotOf(a.sparse, cap, list[j])
  /\ SlotBuffers(b.sparse, cap) /\ Ends(b.sparse) /\ AllCleared(a.sparse, b.sparse, cap, list, k)

\* The next index of the list.
LEMMA TakeLiveStep ==
  ASSUME NEW a, NEW acc, NEW cap, NEW count, NEW list, NEW n, LiveList(a.sparse, cap, list, n),
         NEW k \in Nat, TakenBatch(a, acc, count, k), TakenLives(a, acc, cap, list, k),
         NEW m \in 1 .. n, m = k + 1, NEW b, b = TakeNext(acc, list[m])
  PROVE  TakenLives(a, b, cap, list, m)
<1>1. /\ Running(acc) /\ acc.rv \in Seq(Nat) /\ Len(acc.rv) = k
      /\ \A j \in 1 .. k : acc.rv[j] = SlotOf(a.sparse, cap, list[j])
      /\ SlotBuffers(acc.sparse, cap) /\ Ends(acc.sparse)
      /\ AllCleared(a.sparse, acc.sparse, cap, list, k)
  BY Zenon DEF TakenLives
<1>2. acc \in ArchType /\ SlotLists(acc.sparse, acc.available_sparse, count)
  BY Zenon, <1>1 DEF TakenBatch, TakenFrom
<1>3. /\ n \in Nat /\ list \in [1 .. n -> Nat]
      /\ \A j \in 1 .. n : IsLive(a.sparse, cap, list[j])
      /\ \A i, j \in 1 .. n : list[i] = list[j] => i = j
  BY Zenon DEF LiveList
<1>4. PICK x \in Nat : x = list[m]
  BY <1>3
<1>5. \A j \in 1 .. k : j \in 1 .. n /\ j # m
  BY <1>3
<1>6. ~Among(list, k, x)
  BY Zenon, <1>3, <1>4, <1>5 DEF Among
<1>7. SlotOf(acc.sparse, cap, x) = SlotOf(a.sparse, cap, x) /\ IsLive(acc.sparse, cap, x)
  <2>1. SlotOf(acc.sparse, cap, x) = SlotOf(a.sparse, cap, x)
    BY <1>1, <1>6 DEF AllCleared
  <2> QED BY Zenon, <1>3, <1>4, <2>1 DEF IsLive
<1>8. PICK taken : taken = TakeDenseIdFromSparse(acc, x)
  OBVIOUS
<1>9. TakenLive(acc, taken, cap, x)
  BY Zenon, <1>1, <1>2, <1>7, <1>8, TakeLive
<1>10. PICK d : d = SlotOf(a.sparse, cap, x)
  OBVIOUS
<1>11. /\ Running(taken) /\ taken.rv = <<d>>
       /\ SlotBuffers(taken.sparse, cap) /\ Ends(taken.sparse)
       /\ Cleared(acc.sparse, taken.sparse, cap, x)
  BY Zenon, <1>7, <1>9, <1>10 DEF TakenLive
<1>12. taken \in ArchType /\ d \in Nat
  <2>1. TakenFrom(acc, taken, count - 1) /\ (Running(taken) => \E e \in Nat : taken.rv = <<e>>)
    BY <1>1, <1>2, <1>8, TakeOne
  <2>2. PICK e \in Nat : taken.rv = <<e>>
    BY <1>11, <2>1
  <2>3. taken.rv[1] = d /\ taken.rv[1] = e
    BY <1>11, <2>2
  <2> QED BY Zenon, <2>1, <2>3 DEF TakenFrom
<1>13. PICK ids : ids = acc.rv \o <<d>>
  BY Zenon
<1>14. b = [taken EXCEPT !.rv = ids]
  BY Zenon, <1>4, <1>8, <1>11, <1>13 DEF TakeNext
<1>15. b.rv = ids /\ b.sparse = taken.sparse /\ b.dcheck = taken.dcheck
  BY <1>12, <1>14 DEF ArchType
<1>16. /\ ids \in Seq(Nat) /\ Len(ids) = m /\ ids[m] = d
       /\ \A j \in 1 .. k : ids[j] = acc.rv[j]
  <2>1. PICK r \in Seq(Nat) : r = acc.rv
    BY <1>1
  <2>2. Len(r) = k /\ ids = r \o <<d>>
    BY Zenon, <1>1, <1>13, <2>1
  <2>3. /\ ids \in Seq(Nat) /\ Len(ids) = m /\ ids[m] = d
        /\ \A j \in 1 .. k : ids[j] = r[j]
    BY <1>12, <2>2
  <2> QED BY Zenon, <2>1, <2>3
<1>17. \A j \in 1 .. m : j = m \/ j \in 1 .. k
  OBVIOUS
<1>18. \A j \in 1 .. m : ids[j] = SlotOf(a.sparse, cap, list[j])
  BY Zenon, <1>1, <1>4, <1>10, <1>16, <1>17
<1>19. AllCleared(a.sparse, taken.sparse, cap, list, m)
  <2>0. /\ \A i \in Nat : SlotOf(acc.sparse, cap, i) = IF Among(list, k, i) THEN kInvalidDenseId
                                                       ELSE SlotOf(a.sparse, cap, i)
        /\ \A i \in Nat : SlotOf(taken.sparse, cap, i) = IF i = x THEN kInvalidDenseId
                                                         ELSE SlotOf(acc.sparse, cap, i)
    BY Zenon, <1>1, <1>11 DEF AllCleared, Cleared
  <2> SUFFICES ASSUME NEW i \in Nat
               PROVE  SlotOf(taken.sparse, cap, i) = IF Among(list, m, i) THEN kInvalidDenseId
                                                     ELSE SlotOf(a.sparse, cap, i)
    BY Zenon DEF AllCleared
  <2>1. Among(list, m, i) <=> Among(list, k, i) \/ i = x
    <3>1. m \in 1 .. m /\ \A j \in 1 .. k : j \in 1 .. m
      OBVIOUS
    <3> QED BY Zenon, <1>4, <1>17, <3>1 DEF Among
  <2> QED BY Zenon, <2>0, <2>1
<1> QED BY Zenon, <1>11, <1>15, <1>16, <1>18, <1>19 DEF TakenLives, Running

\* TakeDenseIds of live indices: the dense ids of all, in the order of the list.
LEMMA TakeLives ==
  ASSUME NEW a, a \in ArchType, Running(a), NEW count \in Int,
         SlotLists(a.sparse, a.available_sparse, count),
         NEW cap, SlotBuffers(a.sparse, cap), Ends(a.sparse),
         NEW n \in Nat, NEW list, LiveList(a.sparse, cap, list, n), NEW b, b = TakeDenseIds(a, list)
  PROVE  TakenBatch(a, b, count - n, n) /\ TakenLives(a, b, cap, list, n)
<1>0. list \in [1 .. n -> Nat]
  BY Zenon DEF LiveList
<1>1. PICK start : start = [a EXCEPT !.rv = <<>>]
  BY Zenon
<1>2. b = Taking!Fold(start, list)
  BY Zenon, <1>1 DEF TakeDenseIds, Taking!Fold, FoldLeft, MapThenFoldSet,
    Taking!MapThenFoldSet, Max, Taking!Highest
<1>3. Taking!HasLength(list, n)
  BY <1>0 DEF Taking!HasLength
<1>4. PICK g : Taking!Folding(g, start, list, n)
  BY <1>3, Taking!FoldSteps
<1>5. g[0] = start /\ (\A k \in 1 .. n : g[k] = TakeNext(g[k - 1], list[k])) /\ b = g[n]
  BY Zenon, <1>2, <1>4 DEF Taking!Folding
<1> DEFINE S == {k \in 0 .. n :
                   TakenBatch(a, g[k], count - k, k) /\ TakenLives(a, g[k], cap, list, k)}
<1>6. 0 \in S
  <2>1. <<>> \in Seq(Nat) /\ <<>> \in Seq(Nat \cup Row) /\ Len(<<>>) = 0
    OBVIOUS
  <2>2. /\ start \in ArchType /\ start.sparse = a.sparse /\ start.rv = <<>>
        /\ start.available_sparse = a.available_sparse
        /\ start.dense = a.dense /\ start.data = a.data /\ start.size = a.size
        /\ start.dcheck = a.dcheck
    BY Zenon, <1>1, <2>1 DEF ArchType
  <2>3. count - 0 = count /\ 0 \in 0 .. n /\ \A j \in 1 .. 0 : FALSE
    OBVIOUS
  <2>4. TakenBatch(a, start, count, 0)
    BY Zenon, <2>1, <2>2, RunningIsFine DEF TakenBatch, TakenFrom, SameRows, SlotLists, Running
  <2>5. AllCleared(a.sparse, a.sparse, cap, list, 0)
    BY Zenon, <2>3 DEF AllCleared, Among
  <2>6. TakenLives(a, start, cap, list, 0)
    BY Zenon, <2>1, <2>2, <2>3, <2>5 DEF TakenLives, Running
  <2> QED BY Zenon, <1>5, <2>3, <2>4, <2>6
<1>7. ASSUME NEW k \in 1 .. n, k - 1 \in S PROVE k \in S
  <2>1. /\ TakenBatch(a, g[k - 1], count - (k - 1), k - 1)
        /\ TakenLives(a, g[k - 1], cap, list, k - 1) /\ list[k] \in Nat
    BY Zenon, <1>0, <1>7
  <2>2. k \in 0 .. n /\ k - 1 \in Nat /\ count - (k - 1) - 1 = count - k /\ (k - 1) + 1 = k
    OBVIOUS
  <2>3. PICK i, c : i = k - 1 /\ c = count - (k - 1)
    OBVIOUS
  <2>4. /\ TakenBatch(a, g[i], c, i) /\ TakenLives(a, g[i], cap, list, i)
        /\ g[k] = TakeNext(g[i], list[k]) /\ i \in Nat /\ k = i + 1
    BY Zenon, <1>5, <2>1, <2>2, <2>3
  <2>5. TakenBatch(a, g[k], c - 1, i + 1)
    BY Zenon, <2>1, <2>4, TakeStep
  <2>6. TakenBatch(a, g[k], count - k, k)
    BY Zenon, <2>2, <2>3, <2>5
  <2>7. TakenLives(a, g[k], cap, list, k)
    BY Zenon, <2>4, TakeLiveStep
  <2> QED BY Zenon, <2>2, <2>6, <2>7
<1>8. 0 .. n \subseteq S
  <2> HIDE DEF S
  <2> QED BY <1>6, <1>7, Taking!RangeInduction
<1>9. n \in S
  <2> HIDE DEF S
  <2> QED BY <1>8
<1> QED BY Zenon, <1>5, <1>9

-----------------------------------------------------------------------------
(* The newest rows *)

\* The n numbers of a list are those from low, each once.
InBlock(list, n, low) ==
  /\ list \in [1 .. n -> Nat]
  /\ \A k \in 1 .. n : low <= list[k] /\ list[k] < low + n
  /\ \A i, j \in 1 .. n : list[i] = list[j] => i = j

\* ... in order, the highest first.
CountsDown(w, n, low) == w \in [1 .. n -> Nat] /\ \A k \in 1 .. n : w[k] = low + n - k

\* Such a list in the order of removal.
LEMMA BlockFromHighest ==
  ASSUME NEW n \in Nat, NEW low \in Nat, NEW list, InBlock(list, n, low),
         NEW w, w = FromHighest(list)
  PROVE  CountsDown(w, n, low)
<1>0. /\ list \in [1 .. n -> Nat] /\ DOMAIN list = 1 .. n
      /\ \A k \in 1 .. n : low <= list[k] /\ list[k] < low + n
      /\ \A i, j \in 1 .. n : list[i] = list[j] => i = j
  BY DEF InBlock
<1> DEFINE order == CHOOSE order \in HighestFirst(list) : TRUE
<1>1. w = [k \in DOMAIN list |-> list[order[k]]]
  BY DEF FromHighest
<1>2. Sorts(order, list, n)
  <2>1. PICK other : Sorts(other, list, n)
    BY <1>0, SortExists
  <2>2. other \in HighestFirst(list)
    BY Zenon, <1>0, <2>1 DEF Sorts, HighestFirst
  <2>3. order \in HighestFirst(list)
    BY Zenon, <2>2
  <2> HIDE DEF order
  <2> QED BY Zenon, <1>0, <2>3 DEF Sorts, HighestFirst
<1> HIDE DEF order
<1>3. /\ order \in [1 .. n -> 1 .. n] /\ \A i, j \in 1 .. n : order[i] = order[j] => i = j
      /\ \A i, j \in 1 .. n : i < j => list[order[i]] >= list[order[j]]
  BY <1>2 DEF Sorts, IsInjective
<1>4. /\ w \in [1 .. n -> Nat] /\ \A i \in 1 .. n : w[i] = list[order[i]]
  BY <1>0, <1>1, <1>3
<1>5. \A i \in 1 .. n : w[i] \in Nat /\ low <= w[i] /\ w[i] < low + n
  BY <1>0, <1>3, <1>4
<1>6. ASSUME NEW i \in 1 .. n, NEW j \in 1 .. n, i < j PROVE w[i] > w[j]
  <2>1. w[i] >= w[j]
    BY Zenon, <1>3, <1>4, <1>6
  <2>2. w[i] # w[j]
    <3>1. order[i] # order[j]
      BY <1>3, <1>6
    <3>2. order[i] \in 1 .. n /\ order[j] \in 1 .. n
      BY <1>3
    <3> QED BY Zenon, <1>0, <1>4, <3>1, <3>2
  <2> QED BY <1>5, <2>1, <2>2
<1> DEFINE S == {k \in 0 .. n : k = 0 \/ w[k] <= low + n - k}
           T == {k \in 0 .. n : k = 0 \/ w[n + 1 - k] >= low + k - 1}
<1>7. 0 .. n \subseteq S
  <2>1. 0 \in S
    OBVIOUS
  <2>2. ASSUME NEW k \in 1 .. n, k - 1 \in S PROVE k \in S
    <3>1. CASE k = 1
      BY <1>5, <3>1
    <3>2. CASE k # 1
      <4>1. PICK i \in 1 .. n : i = k - 1 /\ i < k
        BY <3>2
      <4>2. w[i] <= low + n - i
        BY <2>2, <4>1
      <4>3. w[i] > w[k]
        BY <1>6, <4>1
      <4>4. w[k] <= low + n - k
        BY <1>5, <4>1, <4>2, <4>3
      <4> QED BY <4>4
    <3> QED BY <3>1, <3>2
  <2> HIDE DEF S
  <2> QED BY <2>1, <2>2, Removing!RangeInduction
<1>8. 0 .. n \subseteq T
  <2>1. 0 \in T
    OBVIOUS
  <2>2. ASSUME NEW k \in 1 .. n, k - 1 \in T PROVE k \in T
    <3>1. PICK j \in 1 .. n : j = n + 1 - k
      OBVIOUS
    <3>2. CASE k = 1
      <4>1. w[j] >= low
        BY <1>5
      <4> QED BY <3>1, <3>2, <4>1
    <3>3. CASE k # 1
      <4>1. PICK i \in 1 .. n : i = n + 1 - (k - 1) /\ j < i
        BY <3>1, <3>3
      <4>2. w[i] >= low + (k - 1) - 1
        BY <2>2, <3>3, <4>1
      <4>3. w[j] > w[i]
        BY <1>6, <4>1
      <4>4. w[j] >= low + k - 1
        BY <1>5, <4>2, <4>3
      <4> QED BY <3>1, <4>4
    <3> QED BY <3>2, <3>3
  <2> HIDE DEF T
  <2> QED BY <2>1, <2>2, Removing!RangeInduction
<1>9. ASSUME NEW k \in 1 .. n PROVE w[k] = low + n - k
  <2>1. w[k] <= low + n - k
    BY <1>7
  <2>2. PICK i \in 1 .. n : i = n + 1 - k
    OBVIOUS
  <2>3. w[k] >= low + i - 1
    <3>1. i \in T /\ n + 1 - i = k /\ i # 0
      BY <1>8, <2>2
    <3> QED BY <3>1
  <2> QED BY <1>5, <2>1, <2>2, <2>3
<1> QED BY <1>4, <1>9 DEF CountsDown

\* The caller hands back n of its indices, and keeps none that is newer.
Newest(s, cap, list, n) ==
  \A k \in 1 .. n, j \in Nat :
    IsLive(s, cap, j) /\ ~Among(list, n, j) => SlotOf(s, cap, list[k]) > SlotOf(s, cap, j)

\* The dense ids of the indices, in order.
IdsOf(ids, s, cap, list, n) ==
  ids \in [1 .. n -> Nat] /\ \A k \in 1 .. n : ids[k] = SlotOf(s, cap, list[k])

\* Their rows are the last ones.
LEMMA NewestAreLast ==
  ASSUME NEW s, NEW cap, NEW count, OldestFirst(s, cap, count),
         NEW list, NEW n, LiveList(s, cap, list, n), Newest(s, cap, list, n),
         NEW low \in Nat, count = low + n, NEW ids, IdsOf(ids, s, cap, list, n)
  PROVE  InBlock(ids, n, low)
<1> USE DEF IdsOf
<1>0. /\ n \in Nat /\ list \in [1 .. n -> Nat]
      /\ \A j \in 1 .. n : IsLive(s, cap, list[j]) /\ list[j] \in Nat
      /\ \A i, j \in 1 .. n : list[i] = list[j] => i = j
  BY DEF LiveList
<1>1. /\ count \in Nat
      /\ \A i \in Nat : IsLive(s, cap, i) => SlotOf(s, cap, i) < count
      /\ \A i, j \in Nat : IsLive(s, cap, i) /\ SlotOf(s, cap, i) = SlotOf(s, cap, j) => i = j
      /\ \A d \in Nat : d < count => \E i \in Nat : SlotOf(s, cap, i) = d
  BY Zenon DEF OldestFirst
<1>2. \A k \in 1 .. n : ids[k] \in Nat /\ ids[k] < low + n
  <2>1. \A k \in 1 .. n : ids[k] < count
    <3> SUFFICES ASSUME NEW k \in 1 .. n PROVE ids[k] < count
      OBVIOUS
    <3>1. PICK x \in Nat : x = list[k] /\ IsLive(s, cap, x)
      BY Zenon, <1>0
    <3>2. SlotOf(s, cap, x) < count
      BY Zenon, <1>1, <3>1
    <3>3. ids[k] = SlotOf(s, cap, x)
      BY Zenon, <3>1
    <3> QED BY <3>2, <3>3
  <2> QED BY <2>1
<1>3. \A i, j \in 1 .. n : ids[i] = ids[j] => i = j
  BY ZenonT(60), <1>0, <1>1
<1>4. ASSUME NEW k \in 1 .. n, ids[k] < low PROVE FALSE
  <2>1. PICK d \in Nat : d = ids[k]
    BY <1>2
  <2>2. ASSUME NEW e \in Offsets(n + 1) PROVE \E m \in 1 .. n : ids[m] = d + e
    <3>1. e \in Nat /\ d + e \in Nat /\ d + e < count /\ ~(d > d + e)
      BY <1>0, <1>4, <2>1 DEF Offsets
    <3>2. PICK i \in Nat : SlotOf(s, cap, i) = d + e
      BY <1>1, <3>1
    <3>3. IsLive(s, cap, i)
      BY <3>1, <3>2 DEF IsLive, kInvalidDenseId
    <3>4. Among(list, n, i)
      BY Zenon, <2>1, <3>1, <3>2, <3>3 DEF Newest
    <3>5. PICK m \in 1 .. n : list[m] = i
      BY Zenon, <3>4 DEF Among
    <3> QED BY Zenon, <3>2, <3>5
  <2> DEFINE At(e) == CHOOSE m \in 1 .. n : ids[m] = d + e
             f == [e \in Offsets(n + 1) |-> At(e) - 1]
  <2>3. \A e \in Offsets(n + 1) : At(e) \in 1 .. n /\ ids[At(e)] = d + e
    BY <2>2
  <2> HIDE DEF At
  <2>4. \A e \in Offsets(n + 1) : f[e] = At(e) - 1 /\ f[e] \in Offsets(n + 1) /\ f[e] # n
    <3>1. \A e \in Offsets(n + 1) : f[e] = At(e) - 1
      OBVIOUS
    <3>2. \A m \in 1 .. n : m - 1 \in Offsets(n + 1) /\ m - 1 # n
      BY <1>0 DEF Offsets
    <3> QED BY Zenon, <2>3, <3>1, <3>2
  <2>5. Places(f, n + 1)
    <3>1. f \in [Offsets(n + 1) -> Offsets(n + 1)]
      BY <2>4
    <3>2. ASSUME NEW i \in Offsets(n + 1), NEW j \in Offsets(n + 1), f[i] = f[j] PROVE i = j
      <4>1. At(i) = At(j)
        BY <2>3, <2>4, <3>2
      <4>2. d + i = d + j
        BY Zenon, <2>3, <4>1
      <4> QED BY <1>0, <4>2 DEF Offsets
    <3>3. n + 1 \in Nat
      BY <1>0
    <3> HIDE DEF f
    <3> QED BY Zenon, <3>1, <3>2, <3>3 DEF Places
  <2>6. n \in Offsets(n + 1)
    BY <1>0 DEF Offsets
  <2> HIDE DEF f
  <2>7. PICK e \in Offsets(n + 1) : f[e] = n
    BY <2>5, <2>6, AllPlacesTaken
  <2> QED BY Zenon, <2>4, <2>7
<1>5. \A k \in 1 .. n : low <= ids[k]
  BY <1>2, <1>4
<1> QED BY Zenon, <1>2, <1>3, <1>5 DEF InBlock

-----------------------------------------------------------------------------
(* Rows by their position *)

\* The rows of a list are those of its full buffers and of the last one.
LEMMA RowsCounted ==
  ASSUME NEW R, NEW u, NEW s \in Seq(PackedBuffers(R)), s # <<>>, Shaped(s, u),
         NEW cap, cap = s[1].capacity, NEW m, m = Len(s) - 1, NEW base, Starts(base, cap, m)
  PROVE  RowsIn(s) = base + Len(s[Len(s)].rows)
<1>0. cap \in Nat \ {0} /\ m \in Nat /\ base \in Nat /\ base = cap * m
  BY Zenon DEF Starts
<1>1. PICK n \in Nat : n = Len(s) /\ m = n - 1 /\ DOMAIN s = 1 .. n /\ n \in 1 .. n
  <2>1. Len(s) \in Nat \ {0} /\ DOMAIN s = 1 .. Len(s)
    OBVIOUS
  <2> QED BY <2>1
<1>2. PICK w : w = [k \in DOMAIN s |-> Len(s[k].rows)]
  BY Zenon
<1>3. DOMAIN w = 1 .. n /\ \A k \in 1 .. n : w[k] = Len(s[k].rows)
  BY <1>1, <1>2
<1>4. RowsIn(s) = Total(w)
  BY Zenon, <1>2 DEF RowsIn
<1>5. PICK g : /\ g[0] = 0 /\ \A k \in 1 .. n : g[k] = g[k - 1] + w[k]
               /\ Total(w) = g[n]
  BY Zenon, <1>3, TotalSteps
<1>6. ASSUME NEW k \in 1 .. m PROVE w[k] = cap /\ k \in 1 .. n
  <2>1. k \in 1 .. n /\ k < n
    BY <1>1
  <2>2. s[k].capacity = cap /\ IsFull(s[k])
    BY Zenon, <1>1, <2>1 DEF Shaped
  <2> QED BY Zenon, <1>3, <2>1, <2>2 DEF IsFull
<1> DEFINE S == {k \in 0 .. m : g[k] = cap * k}
<1>7. 0 \in S
  BY <1>0, <1>5
<1>8. ASSUME NEW k \in 1 .. m, k - 1 \in S PROVE k \in S
  <2>1. g[k - 1] = cap * (k - 1) /\ k \in 0 .. m
    BY <1>8
  <2>2. g[k] = g[k - 1] + cap
    BY Zenon, <1>5, <1>6
  <2>3. cap * (k - 1) + cap = cap * k
    BY <1>0
  <2> QED BY Zenon, <2>1, <2>2, <2>3
<1>9. 0 .. m \subseteq S
  <2> HIDE DEF S
  <2> QED BY Zenon, <1>0, <1>7, <1>8, Adding!RangeInduction
<1>10. g[m] = base
  <2>1. m \in 0 .. m
    BY <1>0
  <2> QED BY Zenon, <1>0, <1>9, <2>1
<1>11. g[n] = g[m] + w[n]
  BY Zenon, <1>1, <1>5
<1> QED BY Zenon, <1>1, <1>3, <1>4, <1>5, <1>10, <1>11

\* Position d of a list is row j of buffer n.
RowPosition(s, d, n, j) ==
  /\ n \in 1 .. Len(s) /\ j \in 1 .. Len(s[n].rows) /\ RouteIs(s, d, n, j)
  /\ RowAt(s, d) = s[n].rows[j]

\* Every position below the number of rows is one.
LEMMA RowsPlaced ==
  ASSUME NEW R, NEW u, NEW s, NEW count, Holds(R, u, s, count), NEW d \in Nat, d < count
  PROVE  PackedRouteValid(s, d) /\ \E n, j : RowPosition(s, d, n, j)
<1>1. /\ s \in Seq(PackedBuffers(R)) /\ Shaped(s, u) /\ RowsIn(s) = count
  BY Zenon DEF Holds
<1>2. s # <<>>
  BY <1>1, RowsInNone
<1>3. PICK n \in Nat \ {0} : n = Len(s)
  BY <1>1, <1>2
<1>4. PICK cap \in Nat \ {0} : cap = s[1].capacity
  <2>1. 1 \in 1 .. Len(s)
    BY <1>3
  <2> QED BY Zenon, <2>1, HoldsFacts
<1>5. PICK m \in Nat : m = n - 1
  BY <1>3
<1>6. PICK base \in Nat : base = cap * m /\ Starts(base, cap, m)
  BY StartOf
<1>7. PICK last \in Nat \ {0} : last = Len(s[n].rows) /\ last <= cap
  <2>1. n \in 1 .. Len(s)
    BY <1>3
  <2>2. Len(s[n].rows) \in Nat \ {0} /\ Len(s[n].rows) <= s[1].capacity
    BY Zenon, <2>1, HoldsFacts
  <2> QED BY <1>4, <2>2
<1>8. count = base + last
  <2>1. m = Len(s) - 1
    BY Zenon, <1>3, <1>5
  <2> QED BY Zenon, <1>1, <1>2, <1>3, <1>4, <1>6, <1>7, <2>1, RowsCounted
<1>9. PICK id, offset : id = d \div cap /\ offset = d % cap
  OBVIOUS
<1>10. id \in Nat /\ offset \in Nat /\ offset < cap /\ d = cap * id + offset
  <2>1. (d \div cap) \in Nat /\ (d % cap) \in Nat /\ (d % cap) < cap
    BY DivFacts
  <2>2. d = cap * (d \div cap) + (d % cap)
    BY DivFacts
  <2> QED BY Zenon, <1>9, <2>1, <2>2
<1>11. id <= m
  <2>1. d < base + cap
    BY <1>7, <1>8
  <2>2. id >= m => cap * m <= d
    BY <1>9, PositionWithin
  <2>3. cap * (m + 1) = base + cap /\ m + 1 \in Nat
    BY <1>6, PositionWithin
  <2>4. \A x \in Nat : id >= x <=> cap * x <= d
    BY <1>9, PositionWithin
  <2>5. ~(id >= m + 1)
    <3>1. PICK x \in Nat : x = m + 1
      OBVIOUS
    <3>0. PICK top \in Nat : top = base + cap
      BY <1>6
    <3>2. top = cap * x /\ top = base + cap
      BY Zenon, <2>3, <3>0, <3>1
    <3>3. ~(top <= d)
      BY <2>1, <3>2
    <3> QED BY Zenon, <2>4, <3>1, <3>2, <3>3
  <2> QED BY <1>10, <2>5
<1>12. offset < Len(s[id + 1].rows) /\ id + 1 \in 1 .. Len(s) /\ id < Len(s)
  <2>1. CASE id = m
    <3>1. d = base + offset
      BY Zenon, <1>6, <1>10, <2>1
    <3>2. offset < last /\ id + 1 = n
      BY <1>5, <1>8, <1>10, <2>1, <3>1
    <3> QED BY <1>3, <1>5, <1>7, <2>1, <3>2
  <2>2. CASE id # m
    <3>1. PICK k \in 1 .. n : k = id + 1 /\ k < n
      BY <1>5, <1>10, <1>11, <2>2
    <3>2. s[k].capacity = cap /\ IsFull(s[k])
      <4>1. k \in DOMAIN s
        BY <1>1, <1>3
      <4> QED BY Zenon, <1>1, <1>3, <1>4, <3>1, <4>1 DEF Shaped
    <3>3. Len(s[k].rows) = cap
      BY Zenon, <3>2 DEF IsFull
    <3> QED BY <1>3, <1>5, <1>10, <3>1, <3>3
  <2> QED BY Zenon, <2>1, <2>2
<1>13. Route(d, s[1].capacity).id = id /\ Route(d, s[1].capacity).offset = offset
  BY <1>4, <1>9 DEF Route
<1>14. PackedRouteValid(s, d)
  BY Zenon, <1>2, <1>12, <1>13 DEF PackedRouteValid
<1>15. PICK k, j : k = id + 1 /\ j = offset + 1
  OBVIOUS
<1>16. RouteIs(s, d, k, j)
  <2>1. id = k - 1 /\ offset = j - 1
    BY <1>10, <1>15
  <2> QED BY Zenon, <1>13, <1>15, <2>1 DEF RouteIs
<1>17. RowAt(s, d) = s[k].rows[j]
  BY Zenon, <1>13, <1>15 DEF RowAt
<1>18. k \in 1 .. Len(s) /\ j \in 1 .. Len(s[k].rows)
  <2>1. PICK len : len = Len(s[k].rows)
    BY Zenon
  <2>2. len \in Nat /\ k \in 1 .. Len(s)
    BY Zenon, <1>12, <1>15, <2>1, HoldsFacts
  <2>3. offset < len
    BY Zenon, <1>12, <1>15, <2>1
  <2> QED BY <1>10, <1>15, <2>1, <2>2, <2>3
<1> QED BY Zenon, <1>14, <1>16, <1>17, <1>18 DEF RowPosition

\* Row j of buffer n is at position d.
RowIs(s, d, n, j) == RowAt(s, d) = s[n].rows[j]

\* The route of a position depends on the capacity only.
LEMMA RouteElsewhere ==
  ASSUME NEW s, NEW t, t[1].capacity = s[1].capacity, NEW d, NEW n, NEW j, RouteIs(s, d, n, j)
  PROVE  RouteIs(t, d, n, j) /\ RowIs(t, d, n, j)
<1>1. PICK route : route = Route(d, s[1].capacity)
  OBVIOUS
<1>2. route.id + 1 = n /\ route.offset + 1 = j /\ route.id = n - 1 /\ route.offset = j - 1
  BY Zenon, <1>1 DEF RouteIs
<1>3. route = Route(d, t[1].capacity)
  BY Zenon, <1>1
<1> QED BY Zenon, <1>2, <1>3 DEF RouteIs, RowIs, RowAt

\* Two positions have different routes.
LEMMA OneRoute ==
  ASSUME NEW s, s[1].capacity \in Nat \ {0}, NEW d \in Nat, NEW e \in Nat,
         NEW n, NEW j, RouteIs(s, d, n, j), RouteIs(s, e, n, j)
  PROVE  d = e
<1>1. PICK cap \in Nat \ {0} : cap = s[1].capacity
  OBVIOUS
<1>2. d \div cap = n - 1 /\ d % cap = j - 1 /\ e \div cap = n - 1 /\ e % cap = j - 1
  BY <1>1 DEF RouteIs, Route
<1>3. PICK m \in Nat : m = d \div cap
  BY Zenon, PositionOf
<1>4. PICK base : Starts(base, cap, m)
  BY Zenon, StartOf
<1> QED BY <1>2, <1>3, <1>4, SameOffset

\* t has the rows of s at the positions below count.
RowsKept(s, t, count) == \A d \in Nat : d < count => RowAt(t, d) = RowAt(s, d)

\* t is s with another row at position d.
RowSet(R, u, s, t, count, d, row) ==
  /\ Holds(R, u, t, count) /\ RowAt(t, d) = row
  /\ \A e \in Nat : e < count /\ e # d => RowAt(t, e) = RowAt(s, e)

\* SetRow leaves the other rows alone.
LEMMA SetOneRow ==
  ASSUME NEW R, NEW u, NEW s, NEW count, Holds(R, u, s, count), NEW d \in Nat, d < count,
         NEW row \in R, NEW t, t = SetRow(s, d, row)
  PROVE  RowSet(R, u, s, t, count, d, row)
<1>1. PICK n, j : RowPosition(s, d, n, j)
  BY Zenon, RowsPlaced
<1>2. n \in 1 .. Len(s) /\ j \in 1 .. Len(s[n].rows) /\ RouteIs(s, d, n, j)
  BY Zenon, <1>1 DEF RowPosition
<1>3. t = RowReplaced(s, n, j, row)
  BY Zenon, <1>2 DEF SetRow, RowReplaced, RouteIs
<1>4. Holds(R, u, t, count) /\ RowDiffers(s, t, n, j, row)
  BY Zenon, <1>2, <1>3, ReplaceRow
<1>5. /\ t[1].capacity = s[1].capacity /\ t[n].rows[j] = row
      /\ \A i \in 1 .. Len(s[n].rows) : i # j => t[n].rows[i] = s[n].rows[i]
      /\ \A k \in 1 .. Len(s) : k # n => t[k] = s[k]
  BY Zenon, <1>4 DEF RowDiffers
<1>6. RowAt(t, d) = row
  <2>1. RowIs(t, d, n, j)
    BY Zenon, <1>2, <1>5, RouteElsewhere
  <2> QED BY Zenon, <1>5, <2>1 DEF RowIs
<1>7. s[1].capacity \in Nat \ {0}
  BY Zenon, <1>2, HoldsFacts
<1>8. ASSUME NEW e \in Nat, e < count, e # d PROVE RowAt(t, e) = RowAt(s, e)
  <2>1. PICK m, i : RowPosition(s, e, m, i)
    BY Zenon, <1>8, RowsPlaced
  <2>2. /\ m \in 1 .. Len(s) /\ i \in 1 .. Len(s[m].rows) /\ RouteIs(s, e, m, i)
        /\ RowAt(s, e) = s[m].rows[i]
    BY Zenon, <2>1 DEF RowPosition
  <2>3. RowAt(t, e) = t[m].rows[i]
    <3>1. RowIs(t, e, m, i)
      BY Zenon, <1>5, <2>2, RouteElsewhere
    <3> QED BY Zenon, <3>1 DEF RowIs
  <2>4. ~(m = n /\ i = j)
    <3> SUFFICES ASSUME m = n, i = j PROVE FALSE
      OBVIOUS
    <3>1. RouteIs(s, e, n, j)
      BY Zenon, <2>2
    <3>2. d = e
      BY Zenon, <1>2, <1>7, <3>1, OneRoute
    <3> QED BY Zenon, <1>8, <3>2
  <2>5. t[m].rows[i] = s[m].rows[i]
    <3>1. CASE m # n
      BY Zenon, <1>5, <2>2, <3>1
    <3>2. CASE m = n
      BY Zenon, <1>5, <2>2, <2>4, <3>2
    <3> QED BY Zenon, <3>1, <3>2
  <2> QED BY Zenon, <2>2, <2>3, <2>5
<1> QED BY Zenon, <1>4, <1>6, <1>8 DEF RowSet

\* The tail row goes.
LEMMA DropTailKeeps ==
  ASSUME NEW R, NEW u \in Nat \ {0}, NEW s, NEW count, Holds(R, u, s, count),
         NEW left \in Nat, left = count - 1, NEW t, t = DropTailRow(s)
  PROVE  Holds(R, u, t, left) /\ RowsKept(s, t, left)
<1>1. s # <<>>
  BY RowsInNone DEF Holds
<1>2. Holds(R, u, t, left) /\ Without(s, t)
  <2>1. Holds(R, u, t, count - 1) /\ Without(s, t)
    BY Zenon, <1>1, DropTailFacts
  <2> QED BY Zenon, <2>1
<1>3. ASSUME NEW d \in Nat, d < left PROVE RowAt(t, d) = RowAt(s, d)
  <2>1. PICK n, j : RowPosition(t, d, n, j)
    BY Zenon, <1>2, <1>3, RowsPlaced
  <2>2. /\ n \in 1 .. Len(t) /\ j \in 1 .. Len(t[n].rows) /\ RouteIs(t, d, n, j)
        /\ RowAt(t, d) = t[n].rows[j]
    BY Zenon, <2>1 DEF RowPosition
  <2>3. t # <<>>
    <3>1. Len(<<>>) = 0 /\ ~(n \in 1 .. 0)
      OBVIOUS
    <3> QED BY Zenon, <2>2, <3>1
  <2>4. t[1].capacity = s[1].capacity /\ t[n].rows[j] = s[n].rows[j]
    BY Zenon, <1>2, <2>2, <2>3 DEF Without
  <2>5. RowAt(s, d) = s[n].rows[j]
    <3>1. RowIs(s, d, n, j)
      <4>1. s[1].capacity = t[1].capacity
        BY Zenon, <2>4
      <4> QED BY Zenon, <2>2, <4>1, RouteElsewhere
    <3> QED BY Zenon, <3>1 DEF RowIs
  <2> QED BY Zenon, <2>2, <2>4, <2>5
<1> QED BY Zenon, <1>2, <1>3 DEF RowsKept

\* The last row goes; the others stay where they are.
LEMMA RemoveLastRow ==
  ASSUME NEW R, NEW u \in Nat \ {0}, NEW s, NEW count, Holds(R, u, s, count),
         NEW d \in Nat, count = d + 1, NEW t, t = RemovedRow(s, d)
  PROVE  Holds(R, u, t, d) /\ RowsKept(s, t, d)
<1>1. PICK row : row = TailRow(s)
  OBVIOUS
<1>2. row \in R
  <2>1. s # <<>> /\ s \in Seq(PackedBuffers(R))
    BY RowsInNone DEF Holds
  <2>2. PICK n : n = Len(s) /\ n \in 1 .. Len(s) /\ row = s[n].rows[Len(s[n].rows)]
    BY <1>1, <2>1 DEF TailRow, Last
  <2>3. s[n].rows \in Seq(R) /\ Len(s[n].rows) \in Nat \ {0}
    BY <2>2, HoldsFacts
  <2> QED BY <2>2, <2>3
<1>3. PICK w : w = SetRow(s, d, row)
  OBVIOUS
<1>4. d < count /\ d = count - 1
  OBVIOUS
<1>5. RowSet(R, u, s, w, count, d, row)
  BY Zenon, <1>2, <1>3, <1>4, SetOneRow
<1>6. t = DropTailRow(w)
  BY Zenon, <1>1, <1>3 DEF RemovedRow
<1>7. Holds(R, u, t, d) /\ RowsKept(w, t, d)
  BY Zenon, <1>4, <1>5, <1>6, DropTailKeeps DEF RowSet
<1>8. ASSUME NEW e \in Nat, e < d PROVE RowAt(t, e) = RowAt(s, e)
  <2>1. e < count /\ e # d
    BY <1>8
  <2>2. RowAt(w, e) = RowAt(s, e)
    BY Zenon, <1>5, <2>1 DEF RowSet
  <2> QED BY Zenon, <1>7, <1>8, <2>2 DEF RowsKept
<1> QED BY Zenon, <1>7, <1>8 DEF RowsKept

-----------------------------------------------------------------------------
(* Removing the newest rows *)

\* b is a with its first count rows left.
Remaining(a, b, count) ==
  /\ LeftRows(a, b, count, Offsets(count)) /\ Running(b) /\ b.rv = a.rv
  /\ RowsKept(a.data, b.data, count)

\* RemoveDenseDataBuffer of the last row fails no check and keeps the others.
LEMMA RemoveNewest ==
  ASSUME NEW a, NEW b, NEW count \in Nat, Remaining(a, b, count),
         NEW d \in Nat, count = d + 1, NEW c, c = RemoveDenseDataBuffer(b, d)
  PROVE  Remaining(a, c, d)
<1>1. /\ LeftRows(a, b, count, Offsets(count)) /\ Running(b) /\ b.rv = a.rv
      /\ RowsKept(a.data, b.data, count)
  BY Zenon DEF Remaining
<1>2. b \in ArchType /\ Holds(Nat, DenseUnit, b.dense, count) /\ Holds(Row, DataUnit, b.data, count)
  BY Zenon, <1>1 DEF LeftRows, RowsHeld
<1>3. d < count /\ count - 1 = d
  OBVIOUS
<1>4. PackedRouteValid(b.dense, d) /\ PackedRouteValid(b.data, d)
  BY Zenon, <1>2, <1>3, RowsPlaced
<1>5. LeftRows(a, c, d, Offsets(d))
  <2>1. PICK D \in SUBSET Nat : D = Offsets(count)
    BY DEF Offsets
  <2>2. (\A e \in D : e <= d) /\ D \ {d} = Offsets(d)
    BY <1>3, <2>1 DEF Offsets
  <2>3. LeftRows(a, b, count, D)
    BY Zenon, <1>1, <2>1
  <2>4. LeftRows(a, c, count - 1, D \ {d})
    BY Zenon, <2>2, <2>3, RemoveStep
  <2> QED BY Zenon, <1>3, <2>2, <2>4
<1>6. PICK dense, data : dense = RemovedRow(b.dense, d) /\ data = RemovedRow(b.data, d)
  OBVIOUS
<1>7. PICK shrunk : shrunk = [b EXCEPT !.size = @ - 1]
  BY Zenon
<1>8. PICK left : left = [shrunk EXCEPT !.dense = dense, !.data = data]
  OBVIOUS
<1>9. /\ shrunk.dcheck = b.dcheck /\ left.dcheck = b.dcheck /\ left.rv = b.rv
      /\ left.data = data
  BY <1>2, <1>7, <1>8 DEF ArchType
<1>10. c = left
  <2>1. c = Dcheck(shrunk, PackedRouteValid(b.dense, d), "GetDenseRoute",
            Dcheck(shrunk, PackedRouteValid(b.data, d), "GetDataRoute", left))
    BY Zenon, <1>6, <1>7, <1>8 DEF RemoveDenseDataBuffer, RemovedRow
  <2> QED BY Zenon, <1>1, <1>4, <1>9, <2>1 DEF Dcheck, Running
<1>11. RowsKept(b.data, data, d)
  <2>1. DataUnit \in Nat \ {0}
    BY ConstantsNat
  <2> QED BY Zenon, <1>2, <1>6, <2>1, RemoveLastRow
<1>12. ASSUME NEW e \in Nat, e < d PROVE RowAt(c.data, e) = RowAt(a.data, e)
  <2>1. e < count
    BY <1>3, <1>12
  <2>2. RowAt(b.data, e) = RowAt(a.data, e) /\ RowAt(data, e) = RowAt(b.data, e)
    BY Zenon, <1>1, <1>11, <1>12, <2>1 DEF RowsKept
  <2> QED BY Zenon, <1>9, <1>10, <2>2
<1>13. RowsKept(a.data, c.data, d)
  BY Zenon, <1>12 DEF RowsKept
<1>14. Running(c) /\ c.rv = a.rv
  BY Zenon, <1>1, <1>9, <1>10 DEF Running
<1> QED BY Zenon, <1>5, <1>13, <1>14 DEF Remaining

\* RemoveManyDenseDataBuffer of the last rows, in any order.
LEMMA RemoveNewestRows ==
  ASSUME NEW a, NEW low \in Nat, NEW n \in Nat, NEW count, count = low + n,
         Remaining(a, a, count), NEW list, InBlock(list, n, low),
         NEW c, c = RemoveManyDenseDataBuffer(a, list)
  PROVE  Remaining(a, c, low)
<1>1. PICK w : w = FromHighest(list)
  OBVIOUS
<1>2. w \in [1 .. n -> Nat] /\ \A k \in 1 .. n : w[k] = low + n - k
  BY ZenonT(60), <1>1, BlockFromHighest DEF CountsDown
<1>3. c = Removing!Fold(a, w)
  <2>1. c = FoldLeft(RemoveDenseDataBuffer, a, w)
    BY ZenonT(60), <1>1 DEF RemoveManyDenseDataBuffer, FoldLeft, MapThenFoldSet, Max
  <2> QED BY Zenon, <2>1 DEF Removing!Fold, FoldLeft, MapThenFoldSet,
        Removing!MapThenFoldSet, Max, Removing!Highest
<1>4. Removing!HasLength(w, n)
  BY <1>2 DEF Removing!HasLength
<1>5. PICK g : Removing!Folding(g, a, w, n)
  BY <1>4, Removing!FoldSteps
<1>6. g[0] = a /\ (\A k \in 1 .. n : g[k] = RemoveDenseDataBuffer(g[k - 1], w[k])) /\ c = g[n]
  BY Zenon, <1>3, <1>5 DEF Removing!Folding
<1> DEFINE S == {k \in 0 .. n : Remaining(a, g[k], low + n - k)}
<1>7. 0 \in S
  <2>1. 0 \in 0 .. n /\ low + n - 0 = count
    OBVIOUS
  <2> QED BY Zenon, <1>6, <2>1
<1>8. ASSUME NEW k \in 1 .. n, k - 1 \in S PROVE k \in S
  <2>1. Remaining(a, g[k - 1], low + n - (k - 1)) /\ g[k] = RemoveDenseDataBuffer(g[k - 1], w[k])
    BY Zenon, <1>6, <1>8
  <2>2. PICK d \in Nat : d = w[k]
    BY <1>2
  <2>3. PICK left \in Nat : left = d + 1
    OBVIOUS
  <2>4. low + n - (k - 1) = left /\ low + n - k = d /\ k \in 0 .. n
    BY <1>2, <2>2, <2>3
  <2>5. Remaining(a, g[k - 1], left)
    BY Zenon, <2>1, <2>4
  <2>6. Remaining(a, g[k], d)
    BY Zenon, <2>1, <2>2, <2>3, <2>5, RemoveNewest
  <2> QED BY Zenon, <2>4, <2>6
<1>9. 0 .. n \subseteq S
  <2> HIDE DEF S
  <2> QED BY <1>7, <1>8, Removing!RangeInduction
<1>10. n \in 0 .. n /\ low + n - n = low
  OBVIOUS
<1>11. Remaining(a, g[n], low + n - n)
  BY Zenon, <1>9, <1>10
<1> QED BY Zenon, <1>6, <1>10, <1>11

-----------------------------------------------------------------------------
(* Moving rows out, in order *)

\* b is a with the rows of the first k positions of a list moved to rv.
MovedOut(a, b, count, list, k) ==
  /\ LeftRows(a, b, count, Offsets(count)) /\ Running(b)
  /\ b.rv \in Seq(Row) /\ Len(b.rv) = k
  /\ \A j \in 1 .. k : b.rv[j] = RowAt(a.data, list[j])
  /\ \A d \in Nat : d < count /\ ~Among(list, k, d) => RowAt(b.data, d) = RowAt(a.data, d)

\* The next row of the list.
LEMMA MoveNextRow ==
  ASSUME NEW a, NEW b, NEW count \in Nat, NEW n \in Nat, NEW list \in [1 .. n -> Nat],
         \A i, j \in 1 .. n : list[i] = list[j] => i = j,
         NEW k \in Nat, MovedOut(a, b, count, list, k), NEW m \in 1 .. n, m = k + 1,
         list[m] < count, NEW c, c = MoveRow(b, list[m])
  PROVE  MovedOut(a, c, count, list, m)
<1>1. /\ LeftRows(a, b, count, Offsets(count)) /\ Running(b)
      /\ b.rv \in Seq(Row) /\ Len(b.rv) = k
      /\ \A j \in 1 .. k : b.rv[j] = RowAt(a.data, list[j])
      /\ \A d \in Nat : d < count /\ ~Among(list, k, d) => RowAt(b.data, d) = RowAt(a.data, d)
  BY Zenon DEF MovedOut
<1>2. b \in ArchType /\ Holds(Row, DataUnit, b.data, count)
  BY Zenon, <1>1 DEF LeftRows, RowsHeld
<1>3. PICK x \in Nat : x = list[m]
  OBVIOUS
<1>4. x < count /\ c = MoveRow(b, x)
  BY Zenon, <1>3
<1>5. LeftRows(a, c, count, Offsets(count))
  <2>1. x \in Offsets(count)
    BY <1>4 DEF Offsets
  <2> QED BY Zenon, <1>1, <1>4, <2>1, MoveStep
<1>6. PICK data, row : data = SetRow(b.data, x, NoEntity) /\ row = RowAt(b.data, x)
  OBVIOUS
<1>7. PICK rv : rv = Append(b.rv, row)
  BY Zenon
<1>8. PICK left : left = [b EXCEPT !.data = data, !.rv = rv]
  OBVIOUS
<1>9. left.dcheck = b.dcheck /\ left.rv = rv /\ left.data = data
  BY <1>2, <1>8 DEF ArchType
<1>10. c = left /\ Running(c)
  <2>1. left = [b EXCEPT !.data = data, !.rv = Append(@, row)]
    BY <1>7, <1>8
  <2>2. c = Dcheck(b, PackedRouteValid(b.data, x), "GetDataRoute", left)
    BY Zenon, <1>4, <1>6, <2>1 DEF MoveRow
  <2>3. PackedRouteValid(b.data, x)
    BY Zenon, <1>2, <1>4, RowsPlaced
  <2> QED BY Zenon, <1>1, <1>9, <2>2, <2>3 DEF Dcheck, Running
<1>11. row \in Row
  <2>1. PICK r, j : RowPosition(b.data, x, r, j)
    BY Zenon, <1>2, <1>4, RowsPlaced
  <2>2. r \in 1 .. Len(b.data) /\ j \in 1 .. Len(b.data[r].rows) /\ row = b.data[r].rows[j]
    BY Zenon, <1>6, <2>1 DEF RowPosition
  <2>3. b.data[r].rows \in Seq(Row)
    BY Zenon, <1>2, <2>2, HoldsFacts
  <2> QED BY <2>2, <2>3
<1>12. RowSet(Row, DataUnit, b.data, data, count, x, NoEntity)
  <2>1. NoEntity \in Row
    BY DEF Row
  <2> QED BY Zenon, <1>2, <1>4, <1>6, <2>1, SetOneRow
<1>13. /\ rv \in Seq(Row) /\ Len(rv) = m /\ rv[m] = row
       /\ \A j \in 1 .. k : rv[j] = b.rv[j]
  <2>1. PICK old \in Seq(Row) : old = b.rv /\ Len(old) = k
    BY <1>1
  <2>2. rv = Append(old, row)
    BY Zenon, <1>7, <2>1
  <2>3. rv \in Seq(Row) /\ Len(rv) = m /\ rv[m] = row /\ \A j \in 1 .. k : rv[j] = old[j]
    <3>1. k \in Nat /\ Len(old) = k /\ m = Len(old) + 1
      BY <2>1
    <3> QED BY <1>11, <2>2, <3>1
  <2> QED BY Zenon, <2>1, <2>3
<1>14. row = RowAt(a.data, x)
  <2>1. ~Among(list, k, x)
    <3>1. \A j \in 1 .. k : j \in 1 .. n /\ j # m
      OBVIOUS
    <3> QED BY Zenon, <1>3, <3>1 DEF Among
  <2> QED BY Zenon, <1>1, <1>4, <1>6, <2>1
<1>15. ASSUME NEW j \in 1 .. m PROVE rv[j] = RowAt(a.data, list[j])
  <2>1. CASE j = m
    BY Zenon, <1>3, <1>13, <1>14, <2>1
  <2>2. CASE j # m
    <3>1. j \in 1 .. k
      BY <2>2
    <3> QED BY Zenon, <1>1, <1>13, <3>1
  <2> QED BY Zenon, <2>1, <2>2
<1>16. ASSUME NEW d \in Nat, d < count, ~Among(list, m, d)
       PROVE  RowAt(data, d) = RowAt(a.data, d)
  <2>1. d # x
    <3>1. m \in 1 .. m
      OBVIOUS
    <3> QED BY Zenon, <1>3, <1>16, <3>1 DEF Among
  <2>2. ~Among(list, k, d)
    <3>1. \A j \in 1 .. k : j \in 1 .. m
      OBVIOUS
    <3> QED BY Zenon, <1>16, <3>1 DEF Among
  <2>3. RowAt(data, d) = RowAt(b.data, d)
    BY Zenon, <1>12, <1>16, <2>1 DEF RowSet
  <2> QED BY Zenon, <1>1, <1>16, <2>2, <2>3
<1> QED BY Zenon, <1>5, <1>9, <1>10, <1>13, <1>15, <1>16 DEF MovedOut

\* MoveRows of positions that hold rows: the rows, in the order of the list.
LEMMA MoveRowsOut ==
  ASSUME NEW a, NEW count \in Nat, NEW n \in Nat, NEW list \in [1 .. n -> Nat],
         \A i, j \in 1 .. n : list[i] = list[j] => i = j,
         \A j \in 1 .. n : list[j] < count,
         MovedOut(a, a, count, list, 0), NEW c, c = MoveRows(a, list)
  PROVE  MovedOut(a, c, count, list, n)
<1>1. c = Moving!Fold(a, list)
  BY Zenon DEF MoveRows, Moving!Fold, FoldLeft, MapThenFoldSet,
    Moving!MapThenFoldSet, Max, Moving!Highest
<1>2. Moving!HasLength(list, n)
  BY DEF Moving!HasLength
<1>3. PICK g : Moving!Folding(g, a, list, n)
  BY <1>2, Moving!FoldSteps
<1>4. g[0] = a /\ (\A k \in 1 .. n : g[k] = MoveRow(g[k - 1], list[k])) /\ c = g[n]
  BY Zenon, <1>1, <1>3 DEF Moving!Folding
<1> DEFINE S == {k \in 0 .. n : MovedOut(a, g[k], count, list, k)}
<1>5. 0 \in S
  <2>1. 0 \in 0 .. n
    OBVIOUS
  <2> QED BY Zenon, <1>4, <2>1
<1>6. ASSUME NEW k \in 1 .. n, k - 1 \in S PROVE k \in S
  <2>1. MovedOut(a, g[k - 1], count, list, k - 1) /\ g[k] = MoveRow(g[k - 1], list[k])
    BY Zenon, <1>4, <1>6
  <2>2. PICK p \in Nat : p = k - 1 /\ k = p + 1
    OBVIOUS
  <2>3. k \in 0 .. n
    OBVIOUS
  <2>4. MovedOut(a, g[p], count, list, p) /\ g[k] = MoveRow(g[p], list[k]) /\ list[k] < count
    BY Zenon, <2>1, <2>2
  <2>5. MovedOut(a, g[k], count, list, k)
    BY Zenon, <2>2, <2>4, MoveNextRow
  <2> QED BY Zenon, <2>3, <2>5
<1>7. 0 .. n \subseteq S
  <2> HIDE DEF S
  <2> QED BY Zenon, <1>5, <1>6, Moving!RangeInduction
<1>8. n \in 0 .. n
  OBVIOUS
<1> QED BY Zenon, <1>4, <1>7, <1>8

-----------------------------------------------------------------------------
(* The sparse buffers after the newest indices have been taken *)

\* The numbers of a block are all there.
LEMMA BlockIsWhole ==
  ASSUME NEW n \in Nat, NEW low \in Nat, NEW list, InBlock(list, n, low),
         NEW d \in Nat, low <= d, d < low + n
  PROVE  \E k \in 1 .. n : list[k] = d
<1>1. /\ list \in [1 .. n -> Nat]
      /\ \A k \in 1 .. n : low <= list[k] /\ list[k] < low + n
      /\ \A i, j \in 1 .. n : list[i] = list[j] => i = j
  BY DEF InBlock
<1>2. PICK order : order = [k \in 1 .. n |-> list[k] - low + 1]
  BY Zenon
<1>3. \A k \in 1 .. n : order[k] = list[k] - low + 1 /\ order[k] \in 1 .. n
  BY <1>1, <1>2
<1>4. Permutes(order, n)
  <2>1. order \in [1 .. n -> 1 .. n]
    BY <1>2, <1>3
  <2>2. ASSUME NEW i \in 1 .. n, NEW j \in 1 .. n, order[i] = order[j] PROVE i = j
    <3>1. list[i] \in Nat /\ list[j] \in Nat
      BY <1>1
    <3>2. list[i] = list[j]
      BY <1>3, <2>2, <3>1
    <3> QED BY <1>1, <3>2
  <2> QED BY Zenon, <2>1, <2>2 DEF Permutes
<1>5. PICK m \in 1 .. n : m = d - low + 1
  OBVIOUS
<1>6. PICK k \in 1 .. n : order[k] = m
  BY <1>4, PermutesOnto
<1>7. list[k] \in Nat
  BY <1>1
<1> QED BY <1>3, <1>5, <1>6, <1>7

\* What is left of the slots.
LEMMA OldestLeft ==
  ASSUME NEW s, NEW cap, NEW count, OldestFirst(s, cap, count),
         NEW list, NEW n, LiveList(s, cap, list, n), NEW low \in Nat, count = low + n,
         NEW ids, InBlock(ids, n, low), \A k \in 1 .. n : ids[k] = SlotOf(s, cap, list[k]),
         NEW t, SlotBuffers(t, cap), Ends(t), AllCleared(s, t, cap, list, n)
  PROVE  OldestFirst(t, cap, low)
<1>1. /\ SlotBuffers(s, cap) /\ count \in Nat
      /\ \A i \in Nat : IsLive(s, cap, i) =>
           SlotOf(s, cap, i) < count /\ SlotOf(s, cap, i) \div cap = i \div cap
      /\ \A i, j \in Nat : IsLive(s, cap, i) /\ SlotOf(s, cap, i) = SlotOf(s, cap, j) => i = j
      /\ \A d \in Nat : d < count => \E i \in Nat : SlotOf(s, cap, i) = d
  BY Zenon DEF OldestFirst
<1>2. n \in Nat /\ list \in [1 .. n -> Nat] /\ \A j \in 1 .. n : IsLive(s, cap, list[j])
  BY Zenon DEF LiveList
<1>3. cap \in Nat \ {0}
  BY Zenon, SlotBuffersFacts
<1>4. ASSUME NEW i \in Nat, IsLive(t, cap, i)
      PROVE  /\ SlotOf(t, cap, i) = SlotOf(s, cap, i) /\ IsLive(s, cap, i)
             /\ SlotOf(t, cap, i) \in Nat /\ ~Among(list, n, i)
  <2>1. SlotOf(t, cap, i) # kInvalidDenseId
    BY Zenon, <1>4 DEF IsLive
  <2>2. ~Among(list, n, i) /\ SlotOf(t, cap, i) = SlotOf(s, cap, i)
    BY Zenon, <2>1 DEF AllCleared
  <2>3. PICK m, j : m = i \div cap /\ j = i % cap
    OBVIOUS
  <2>4. LiveAt(t, cap, i, m, j)
    BY Zenon, <1>4, <2>3, LiveSlotFacts
  <2> QED BY Zenon, <2>1, <2>2, <2>4 DEF LiveAt, IsLive
<1>5. ASSUME NEW i \in Nat, IsLive(t, cap, i)
      PROVE  SlotOf(t, cap, i) < low
  <2>1. PICK d \in Nat : d = SlotOf(t, cap, i)
    BY Zenon, <1>4, <1>5
  <2>2. d < low + n
    BY Zenon, <1>1, <1>4, <1>5, <2>1
  <2>3. ~(low <= d)
    <3> SUFFICES ASSUME low <= d PROVE FALSE
      OBVIOUS
    <3>1. PICK k \in 1 .. n : ids[k] = d
      BY <1>2, <2>2, BlockIsWhole
    <3>2. SlotOf(s, cap, list[k]) = SlotOf(s, cap, i) /\ list[k] \in Nat /\ IsLive(s, cap, list[k])
      BY <1>2, <1>4, <1>5, <2>1, <3>1
    <3>3. list[k] = i
      BY Zenon, <1>1, <3>2
    <3> QED BY Zenon, <1>4, <1>5, <3>1, <3>3 DEF Among
  <2> QED BY <2>1, <2>3
<1>6. ASSUME NEW d \in Nat, d < low PROVE \E i \in Nat : SlotOf(t, cap, i) = d
  <2>1. d < count
    BY <1>2, <1>6
  <2>2. PICK i \in Nat : SlotOf(s, cap, i) = d
    BY Zenon, <1>1, <2>1
  <2>3. ~Among(list, n, i)
    <3> SUFFICES ASSUME Among(list, n, i) PROVE FALSE
      OBVIOUS
    <3>1. PICK k \in 1 .. n : list[k] = i
      BY Zenon DEF Among
    <3>2. ids[k] = d
      BY Zenon, <2>2, <3>1
    <3>3. low <= ids[k]
      BY Zenon DEF InBlock
    <3> QED BY <1>6, <3>2, <3>3
  <2>4. SlotOf(t, cap, i) = d
    BY Zenon, <2>2, <2>3 DEF AllCleared
  <2> QED BY Zenon, <2>4
<1>7. ASSUME NEW i \in Nat, IsLive(t, cap, i)
      PROVE  SlotOf(t, cap, i) \div cap = i \div cap
  BY Zenon, <1>1, <1>4, <1>7
<1>8. ASSUME NEW i \in Nat, NEW j \in Nat, IsLive(t, cap, i),
             SlotOf(t, cap, i) = SlotOf(t, cap, j)
      PROVE  i = j
  <2>1. IsLive(t, cap, j)
    BY Zenon, <1>8 DEF IsLive
  <2> QED BY Zenon, <1>1, <1>4, <1>8, <2>1
<1>9. t \in Seq(SparseBuffers) /\ Len(t) \in Nat
  BY Zenon, SlotBuffersFacts
<1>10. ASSUME NEW k \in 1 .. Len(t) PROVE t[k].capacity # 0
  <2>1. PICK last \in Nat : last + 1 = Len(t) /\ last + 1 \in 1 .. Len(t)
    <3>1. PICK len \in Nat : len = Len(t) /\ k \in 1 .. len
      BY <1>9
    <3>2. len - 1 \in Nat /\ (len - 1) + 1 = len /\ len \in 1 .. len
      BY <3>1
    <3> QED BY Zenon, <3>1, <3>2
  <2>2. PICK b \in SparseBuffers : b = t[last + 1] /\ b.size > 0
    <3>1. t # <<>>
      BY <2>1
    <3>2. t[last + 1].size > 0
      BY Zenon, <2>1, <3>1 DEF Ends
    <3>3. t[last + 1] \in SparseBuffers
      BY Zenon, <2>1, SlotBuffersFacts
    <3> QED BY Zenon, <3>2, <3>3
  <2>3. PICK j \in Offsets(b.capacity) : b.slot[j] # kInvalidDenseId
    BY Zenon, <2>2, SomeLiveSlot
  <2>4. b.capacity # 0
    BY <2>3 DEF Offsets
  <2>5. b.capacity = cap /\ j \in Offsets(cap)
    <3>1. t[last + 1].capacity = 0 \/ t[last + 1].capacity = cap
      BY Zenon, <2>1, SlotBuffersFacts
    <3> QED BY Zenon, <2>2, <2>3, <2>4, <3>1
  <2>6. PICK base \in Nat : base = cap * last /\ Starts(base, cap, last)
    BY <1>3, StartOf
  <2>7. PICK i : i = base + j
    OBVIOUS
  <2>8. PositionAt(i, cap, last, j, base)
    BY Zenon, <2>5, <2>6, <2>7, AtOffset
  <2>9. i \in Nat /\ i \div cap = last
    BY Zenon, <2>8 DEF PositionAt
  <2>10. SlotOf(t, cap, i) = b.slot[j]
    <3>1. SlotIs(t, cap, i, last, j)
      BY Zenon, <2>1, <2>2, <2>4, <2>8, SlotAtOffset
    <3> QED BY Zenon, <2>2, <3>1 DEF SlotIs
  <2>11. IsLive(t, cap, i)
    BY Zenon, <2>3, <2>10 DEF IsLive
  <2>12. PICK d \in Nat : d = SlotOf(t, cap, i) /\ d < low /\ d \div cap = last
    BY Zenon, <1>4, <1>5, <1>7, <2>9, <2>11
  <2>13. cap * last <= d
    BY <1>3, <2>12, PositionWithin
  <2>14. PICK m \in Nat : m + 1 = k /\ m <= last
    <3>1. k - 1 \in Nat /\ (k - 1) + 1 = k /\ k - 1 <= last
      BY <1>9, <2>1
    <3> QED BY <3>1
  <2>15. PICK start \in Nat : start = cap * m /\ Starts(start, cap, m)
    BY <1>3, StartOf
  <2>16. start < low /\ start \div cap = m
    <3>1. cap * m <= cap * last
      BY <1>3, <2>14
    <3>2. start \div cap = m
      BY <1>3, <2>15, PositionWithin
    <3> QED BY <2>6, <2>12, <2>13, <2>15, <3>1, <3>2
  <2>17. PICK e \in Nat : SlotOf(t, cap, e) = start
    BY Zenon, <1>6, <2>16
  <2>18. IsLive(t, cap, e)
    <3>1. start # kInvalidDenseId
      BY DEF kInvalidDenseId
    <3> QED BY Zenon, <2>17, <3>1 DEF IsLive
  <2>19. e \div cap = m
    BY Zenon, <1>7, <2>16, <2>17, <2>18
  <2>20. PICK f : f = e % cap
    OBVIOUS
  <2>21. LiveAt(t, cap, e, m, f)
    BY Zenon, <2>18, <2>19, <2>20, LiveSlotFacts
  <2>22. t[k].capacity = cap
    BY Zenon, <2>14, <2>21 DEF LiveAt
  <2> QED BY <1>3, <2>22
<1> QED BY Zenon, <1>5, <1>6, <1>7, <1>8, <1>10 DEF OldestFirst

-----------------------------------------------------------------------------
(* Filling a slot for a new row *)

\* The rows below count have a slot each, in the sparse buffer of their number.
SlotsHold(s, cap, count) ==
  /\ \A i \in Nat : IsLive(s, cap, i) =>
       SlotOf(s, cap, i) < count /\ SlotOf(s, cap, i) \div cap = i \div cap
  /\ \A i, j \in Nat : IsLive(s, cap, i) /\ SlotOf(s, cap, i) = SlotOf(s, cap, j) => i = j
  /\ \A d \in Nat : d < count => \E i \in Nat : SlotOf(s, cap, i) = d

\* The last buffer, of number x, has a hole for row number count.
Ready(s, cap, count, x) ==
  /\ SlotBuffers(s, cap) /\ SlotsHold(s, cap, count) /\ count \in Nat /\ x \in Nat
  /\ Len(s) = x + 1 /\ s[x + 1].hole_cnt > 0 /\ count \div cap = x
  /\ \A k \in 1 .. Len(s) : s[k].capacity # 0

\* t is s with row number count, of which m is the next, at index i.
Filled(s, t, cap, count, m, i) ==
  /\ OldestFirst(t, cap, m) /\ i \in Nat /\ ~IsLive(s, cap, i)
  /\ \A j \in Nat : SlotOf(t, cap, j) = IF j = i THEN count ELSE SlotOf(s, cap, j)

\* The buffer with a slot filled.
BufferFilled(b, new, cap, count, h) ==
  /\ new \in SparseBuffers /\ new.capacity = cap /\ new.bytes = b.bytes /\ new.size > 0
  /\ h \in Offsets(cap) /\ b.slot[h] = kInvalidDenseId
  /\ \A e \in Offsets(cap) : new.slot[e] = IF e = h THEN count ELSE b.slot[e]

\* FillHole.
LEMMA FilledHole ==
  ASSUME NEW b \in SparseBuffers, b.hole_cnt > 0, NEW cap, b.capacity = cap,
         NEW count \in Nat, NEW new, new = FillHole(b, count), NEW h, h = NextHole(b)
  PROVE  BufferFilled(b, new, cap, count, h)
<1>1. /\ SparseType(b) /\ HolesExact(b) /\ b.size \in Nat /\ cap \in Nat
  BY SparseBufferFacts
<1>2. h \in FreeSlots(b)
  BY <1>1, FillIsExact
<1>3. new \in SparseBuffers /\ new.size = b.size + 1
  BY FillSparseBuffer
<1>4. b.slot \in [0 .. cap - 1 -> Nat \cup {kInvalidDenseId}]
  BY <1>1 DEF SparseType
<1>5. /\ new.capacity = cap /\ new.bytes = b.bytes
      /\ new.slot = [b.slot EXCEPT ![h] = count]
  BY DEF FillHole
<1>6. h \in 0 .. cap - 1 /\ b.slot[h] = kInvalidDenseId
  BY <1>2 DEF FreeSlots
<1>7. \A e \in 0 .. cap - 1 : new.slot[e] = IF e = h THEN count ELSE b.slot[e]
  BY Zenon, <1>4, <1>5
<1>8. new.size > 0
  BY <1>1, <1>3
<1> QED BY Zenon, <1>3, <1>5, <1>6, <1>7, <1>8 DEF BufferFilled, Offsets

\* A push fills the slot of the new row and no other.
LEMMA FillNewest ==
  ASSUME NEW s, NEW cap, NEW count, NEW x, Ready(s, cap, count, x),
         NEW b, b = s[x + 1], NEW t, t = [s EXCEPT ![x + 1] = FillHole(b, count)],
         NEW base, Starts(base, cap, x), NEW i, i = base + NextHole(b), NEW m, m = count + 1
  PROVE  Filled(s, t, cap, count, m, i)
<1>1. /\ SlotBuffers(s, cap) /\ count \in Nat /\ x \in Nat
      /\ Len(s) = x + 1 /\ b.hole_cnt > 0 /\ count \div cap = x
      /\ \A k \in 1 .. Len(s) : s[k].capacity # 0
  BY Zenon DEF Ready
<1>2. /\ \A j \in Nat : IsLive(s, cap, j) =>
           SlotOf(s, cap, j) < count /\ SlotOf(s, cap, j) \div cap = j \div cap
      /\ \A j, l \in Nat : IsLive(s, cap, j) /\ SlotOf(s, cap, j) = SlotOf(s, cap, l) => j = l
      /\ \A d \in Nat : d < count => \E j \in Nat : SlotOf(s, cap, j) = d
  BY Zenon DEF Ready, SlotsHold
<1>3. PICK n \in 1 .. Len(s) : n = x + 1
  BY <1>1
<1>4. b \in SparseBuffers /\ b.capacity = cap /\ b = s[n]
  BY Zenon, <1>1, <1>3, SlotBuffersFacts
<1>5. PICK new, h : new = FillHole(b, count) /\ h = NextHole(b)
  OBVIOUS
<1>6. /\ new \in SparseBuffers /\ new.capacity = cap /\ new.bytes = b.bytes /\ new.size > 0
      /\ h \in Offsets(cap) /\ b.slot[h] = kInvalidDenseId
      /\ \A e \in Offsets(cap) : new.slot[e] = IF e = h THEN count ELSE b.slot[e]
  <2>1. BufferFilled(b, new, cap, count, h)
    BY Zenon, <1>1, <1>4, <1>5, FilledHole
  <2> QED BY Zenon, <2>1 DEF BufferFilled
<1>7. SlotBuffer(new, cap, Len(s))
  <2>1. SlotBuffer(b, cap, Len(s))
    BY Zenon, <1>1, <1>3, <1>4 DEF SlotBuffers
  <2> QED BY Zenon, <1>4, <1>6, <2>1 DEF SlotBuffer
<1>8. SlotBuffers(t, cap) /\ Len(t) = Len(s) /\ t[n] = new
      /\ \A k \in 1 .. Len(s) : k # n => t[k] = s[k]
  <2>1. t = [s EXCEPT ![n] = new]
    BY Zenon, <1>3, <1>5
  <2>2. BufferReplaced(s, cap, n, new, t)
    BY Zenon, <1>1, <1>6, <1>7, <2>1, ReplaceSlotBuffer
  <2> QED BY Zenon, <2>2 DEF BufferReplaced
<1>9. cap \in Nat \ {0} /\ Len(s) \in Nat
  BY Zenon, <1>1, SlotBuffersFacts
<1>10. i \in Nat /\ i \div cap = x /\ i % cap = h
  <2>1. PositionAt(i, cap, x, h, base)
    BY Zenon, <1>5, <1>6, AtOffset
  <2> QED BY Zenon, <2>1 DEF PositionAt
<1>11. ASSUME NEW j \in Nat
       PROVE  /\ SlotOf(t, cap, j) = IF j = i THEN count ELSE SlotOf(s, cap, j)
              /\ j = i => SlotOf(s, cap, j) = kInvalidDenseId
  <2>1. PICK k, e : k = j \div cap + 1 /\ e = j % cap
    OBVIOUS
  <2>2. e \in Offsets(cap)
    BY <1>9, <2>1, PositionOf DEF Offsets
  <2>3. SlotsAt(s, cap, j, k, e) /\ SlotsAt(t, cap, j, k, e)
    BY Zenon, <1>1, <1>8, <2>1, SlotsByBuffer
  <2>4. CASE k = n
    <3>1. k \in 1 .. Len(s) /\ k \in 1 .. Len(t)
      BY Zenon, <1>3, <1>8, <2>4
    <3>2. SlotOf(s, cap, j) = SlotIn(b, e) /\ SlotOf(t, cap, j) = SlotIn(new, e)
      BY Zenon, <1>4, <1>8, <2>3, <2>4, <3>1 DEF SlotsAt
    <3>3. cap # 0
      BY <1>9
    <3>4. SlotOf(s, cap, j) = b.slot[e] /\ SlotOf(t, cap, j) = new.slot[e]
      BY Zenon, <1>4, <1>6, <3>2, <3>3 DEF SlotIn
    <3>5. e = h <=> j = i
      <4>1. j \div cap = x
        BY <1>1, <1>3, <1>9, <2>1, <2>4, PositionOf
      <4>2. e = h => j = i
        <5> SUFFICES ASSUME e = h PROVE j = i
          OBVIOUS
        <5>1. j % cap = i % cap
          BY Zenon, <1>10, <2>1
        <5> QED BY Zenon, <1>10, <4>1, <5>1, SameOffset
      <4> QED BY Zenon, <1>10, <2>1, <4>2
    <3> QED BY Zenon, <1>6, <2>2, <3>4, <3>5
  <2>5. CASE k # n
    <3>1. j # i
      <4>1. i \div cap + 1 = n
        BY <1>3, <1>10
      <4> QED BY Zenon, <2>1, <2>5, <4>1
    <3>2. SlotOf(t, cap, j) = SlotOf(s, cap, j)
      <4>1. CASE k \in 1 .. Len(s)
        <5>1. t[k] = s[k] /\ k \in 1 .. Len(t)
          BY Zenon, <1>8, <2>5, <4>1
        <5> QED BY Zenon, <2>3, <4>1, <5>1 DEF SlotsAt
      <4>2. CASE k \notin 1 .. Len(s)
        <5>1. k \notin 1 .. Len(t)
          BY Zenon, <1>8, <4>2
        <5> QED BY Zenon, <2>3, <4>2, <5>1 DEF SlotsAt
      <4> QED BY Zenon, <4>1, <4>2
    <3> QED BY Zenon, <3>1, <3>2
  <2> QED BY Zenon, <2>4, <2>5
<1>12. ~IsLive(s, cap, i)
  BY Zenon, <1>10, <1>11 DEF IsLive
<1>13. count # kInvalidDenseId /\ count < m /\ m \in Nat /\ ~(count < count)
  BY <1>1 DEF kInvalidDenseId
<1>14. ASSUME NEW j \in Nat, IsLive(t, cap, j)
       PROVE  SlotOf(t, cap, j) < m /\ SlotOf(t, cap, j) \div cap = j \div cap
  <2>1. CASE j = i
    <3>1. SlotOf(t, cap, j) = count
      BY Zenon, <1>11, <2>1
    <3> QED BY Zenon, <1>1, <1>10, <1>13, <2>1, <3>1
  <2>2. CASE j # i
    <3>1. SlotOf(t, cap, j) = SlotOf(s, cap, j) /\ IsLive(s, cap, j)
      BY Zenon, <1>11, <1>14, <2>2 DEF IsLive
    <3>2. PICK d \in Nat : d = SlotOf(s, cap, j)
      BY Zenon, <1>1, <3>1, LiveSlotFacts DEF LiveAt
    <3>3. d < count /\ d \div cap = j \div cap
      BY Zenon, <1>2, <3>1, <3>2
    <3>4. d < m
      BY <1>1, <3>3
    <3> QED BY Zenon, <3>1, <3>2, <3>3, <3>4
  <2> QED BY Zenon, <2>1, <2>2
<1>15. ASSUME NEW j \in Nat PROVE SlotOf(s, cap, j) # count
  <2> SUFFICES ASSUME SlotOf(s, cap, j) = count PROVE FALSE
    OBVIOUS
  <2>1. IsLive(s, cap, j)
    BY Zenon, <1>13 DEF IsLive
  <2> QED BY Zenon, <1>2, <1>13, <2>1
<1>16. ASSUME NEW j \in Nat, NEW l \in Nat, IsLive(t, cap, j),
              SlotOf(t, cap, j) = SlotOf(t, cap, l)
       PROVE  j = l
  <2>1. CASE j = i /\ l # i
    BY Zenon, <1>11, <1>15, <1>16, <2>1
  <2>2. CASE j # i /\ l = i
    BY Zenon, <1>11, <1>15, <1>16, <2>2
  <2>3. CASE j # i /\ l # i
    <3>1. SlotOf(s, cap, j) = SlotOf(s, cap, l) /\ IsLive(s, cap, j)
      BY Zenon, <1>11, <1>16, <2>3 DEF IsLive
    <3> QED BY Zenon, <1>2, <3>1
  <2> QED BY Zenon, <2>1, <2>2, <2>3
<1>17. ASSUME NEW d \in Nat, d < m PROVE \E j \in Nat : SlotOf(t, cap, j) = d
  <2>1. CASE d = count
    BY Zenon, <1>10, <1>11, <2>1
  <2>2. CASE d # count
    <3>1. d < count
      BY <1>1, <1>17, <2>2
    <3>2. PICK j \in Nat : SlotOf(s, cap, j) = d
      BY Zenon, <1>2, <3>1
    <3>3. j # i
      <4>1. d # kInvalidDenseId
        BY DEF kInvalidDenseId
      <4> QED BY Zenon, <1>11, <3>2, <4>1
    <3>4. SlotOf(t, cap, j) = d
      BY Zenon, <1>11, <3>2, <3>3
    <3> QED BY Zenon, <3>4
  <2> QED BY Zenon, <2>1, <2>2
<1>18. Ends(t) /\ \A k \in 1 .. Len(t) : t[k].capacity # 0
  <2>1. Len(t) = n
    BY Zenon, <1>1, <1>3, <1>8
  <2>2. Ends(t)
    BY Zenon, <1>6, <1>8, <2>1 DEF Ends
  <2>3. cap # 0
    BY <1>9
  <2>4. ASSUME NEW k \in 1 .. Len(t) PROVE t[k].capacity # 0
    <3>1. k \in 1 .. Len(s)
      BY Zenon, <1>8
    <3>2. CASE k = n
      BY Zenon, <1>6, <1>8, <2>3, <3>2
    <3>3. CASE k # n
      BY Zenon, <1>1, <1>8, <3>1, <3>3
    <3> QED BY Zenon, <3>2, <3>3
  <2> QED BY Zenon, <2>2, <2>4
<1>19. OldestFirst(t, cap, m)
  BY Zenon, <1>8, <1>13, <1>14, <1>16, <1>17, <1>18 DEF OldestFirst
<1> QED BY Zenon, <1>10, <1>11, <1>12, <1>19 DEF Filled

-----------------------------------------------------------------------------
(* Room for a new row in the sparse buffers *)

\* The positions in the first buffer.
LEMMA FirstPositions ==
  ASSUME NEW cap \in Nat \ {0}, NEW i \in Nat
  PROVE  /\ i < cap => i \div cap = 0 /\ i % cap = i
         /\ ~(i < cap) => i \div cap # 0 /\ i \div cap >= 1
OBVIOUS

\* There are more rows than fit below the last buffer.
LEMMA LastBufferStarted ==
  ASSUME NEW s, NEW cap, NEW count, OldestFirst(s, cap, count), NEW m \in Nat, Len(s) = m + 1,
         NEW base, Starts(base, cap, m)
  PROVE  base < count
<1>1. /\ SlotBuffers(s, cap) /\ Ends(s) /\ count \in Nat
      /\ \A i \in Nat : IsLive(s, cap, i) =>
           SlotOf(s, cap, i) < count /\ SlotOf(s, cap, i) \div cap = i \div cap
  BY Zenon DEF OldestFirst
<1>2. cap \in Nat \ {0} /\ base \in Nat /\ base = cap * m
  BY Zenon DEF Starts
<1>3. m + 1 \in 1 .. Len(s) /\ s # <<>>
  BY <1>1, SlotBuffersFacts
<1>4. PICK b \in SparseBuffers : b = s[m + 1]
  BY Zenon, <1>1, <1>3, SlotBuffersFacts
<1>5. b.size > 0
  BY Zenon, <1>1, <1>3, <1>4 DEF Ends
<1>6. PICK j \in Offsets(b.capacity) : b.slot[j] # kInvalidDenseId
  BY Zenon, <1>5, SomeLiveSlot
<1>7. b.capacity # 0 /\ b.capacity = cap
  <2>1. b.capacity # 0
    BY <1>6 DEF Offsets
  <2> QED BY Zenon, <1>1, <1>3, <1>4, <2>1, SlotBuffersFacts
<1>8. PICK i : i = base + j
  OBVIOUS
<1>9. PositionAt(i, cap, m, j, base)
  BY Zenon, <1>6, <1>7, <1>8, AtOffset
<1>10. SlotOf(s, cap, i) = b.slot[j]
  <2>1. SlotIs(s, cap, i, m, j)
    BY Zenon, <1>1, <1>3, <1>4, <1>7, <1>9, SlotAtOffset
  <2> QED BY Zenon, <1>4, <2>1 DEF SlotIs
<1>11. i \in Nat /\ i \div cap = m /\ IsLive(s, cap, i)
  BY Zenon, <1>6, <1>9, <1>10 DEF PositionAt, IsLive
<1>12. PICK d \in Nat : d = SlotOf(s, cap, i)
  BY Zenon, <1>1, <1>11, LiveSlotFacts DEF LiveAt
<1>13. d < count /\ d \div cap = m
  BY Zenon, <1>1, <1>11, <1>12
<1>14. cap * m <= d
  BY <1>2, <1>13, PositionWithin
<1> QED BY <1>1, <1>2, <1>13, <1>14

\* There are no more than fit in the buffers.
LEMMA RowsInBuffers ==
  ASSUME NEW s, NEW cap, NEW count, OldestFirst(s, cap, count), NEW n \in Nat, Len(s) = n,
         NEW base, Starts(base, cap, n)
  PROVE  count <= base
<1>1. /\ SlotBuffers(s, cap) /\ count \in Nat
      /\ \A i \in Nat : IsLive(s, cap, i) => SlotOf(s, cap, i) \div cap = i \div cap
      /\ \A d \in Nat : d < count => \E i \in Nat : SlotOf(s, cap, i) = d
  BY Zenon DEF OldestFirst
<1>2. cap \in Nat \ {0} /\ base \in Nat /\ base = cap * n
  BY Zenon DEF Starts
<1>3. ~(base < count)
  <2> SUFFICES ASSUME base < count PROVE FALSE
    OBVIOUS
  <2>1. PICK i \in Nat : SlotOf(s, cap, i) = base
    BY Zenon, <1>1, <1>2
  <2>2. base # kInvalidDenseId
    BY <1>2 DEF kInvalidDenseId
  <2>3. IsLive(s, cap, i)
    BY Zenon, <2>1, <2>2 DEF IsLive
  <2>4. base \div cap = n
    BY <1>2, PositionWithin
  <2>5. i \div cap = n
    BY Zenon, <1>1, <2>1, <2>3, <2>4
  <2>6. PICK j : j = i % cap
    OBVIOUS
  <2>7. LiveAt(s, cap, i, n, j)
    BY Zenon, <1>1, <2>3, <2>5, <2>6, LiveSlotFacts
  <2>8. n + 1 \in 1 .. Len(s)
    BY Zenon, <2>7 DEF LiveAt
  <2> QED BY <2>8
<1> QED BY <1>1, <1>2, <1>3

\* The only buffer with a hole is the last one, and it is for the next row.
LEMMA HoleIsLast ==
  ASSUME NEW s, NEW cap, NEW count, OldestFirst(s, cap, count),
         NEW x \in Nat, x + 1 \in 1 .. Len(s), s[x + 1].hole_cnt > 0
  PROVE  Ready(s, cap, count, x)
<1>1. /\ SlotBuffers(s, cap) /\ count \in Nat /\ SlotsHold(s, cap, count)
      /\ \A k \in 1 .. Len(s) : s[k].capacity # 0
  BY Zenon DEF OldestFirst, SlotsHold
<1>2. cap \in Nat \ {0} /\ Len(s) \in Nat
  BY Zenon, <1>1, SlotBuffersFacts
<1>3. PICK last \in Nat : Len(s) = last + 1 /\ x <= last
  <2>1. Len(s) - 1 \in Nat /\ Len(s) = (Len(s) - 1) + 1 /\ x <= Len(s) - 1
    BY <1>2
  <2> QED BY Zenon, <2>1
<1>4. PICK base \in Nat : base = cap * last /\ Starts(base, cap, last)
  BY <1>2, StartOf
<1>5. base < count
  BY Zenon, <1>3, <1>4, LastBufferStarted
<1>6. ~(cap * x + cap <= count)
  <2> SUFFICES ASSUME cap * x + cap <= count PROVE FALSE
    OBVIOUS
  <2>1. s[x + 1].hole_cnt = 0
    BY FilledBuffer
  <2> QED BY <2>1
<1>7. x = last
  <2> SUFFICES ASSUME x # last PROVE FALSE
    OBVIOUS
  <2>1. cap * (x + 1) = cap * x + cap
    BY <1>2, PositionWithin
  <2>2. x + 1 <= last
    BY <1>3
  <2>3. cap * (x + 1) <= cap * last
    BY <1>2, <1>3, <2>2
  <2>4. cap * x + cap <= base
    BY Zenon, <1>4, <2>1, <2>3
  <2>5. cap * x \in Nat
    BY <1>2
  <2> QED BY SMTT(30), <1>1, <1>2, <1>4, <1>5, <1>6, <2>4, <2>5
<1>8. count \div cap = x
  <2>1. cap * x = base
    BY Zenon, <1>4, <1>7
  <2>2. cap * x <= count /\ count < cap * x + cap
    BY <1>1, <1>2, <1>4, <1>5, <1>6, <2>1
  <2> QED BY Zenon, <1>1, <1>2, <2>2, PositionWithin
<1>9. Len(s) = x + 1
  BY Zenon, <1>3, <1>7
<1> QED BY Zenon, <1>1, <1>8, <1>9 DEF Ready

\* t, with a capacity of its own, has the slots of s.
Refit(s, t, cap, to) == \A i \in Nat : SlotOf(t, to, i) = SlotOf(s, cap, i)

\* The first sparse buffer.
LEMMA FirstSlotBuffer ==
  ASSUME UnitsFit, NEW s, NEW cap, NEW count, OldestFirst(s, cap, count), s = <<>>,
         NEW t, t = <<SparseNew(SparseUnit)>>
  PROVE  Ready(t, 1, count, 0) /\ Refit(s, t, cap, 1)
<1> DEFINE b == SparseNew(SparseUnit)
<1>1. /\ SlotBuffers(s, cap) /\ count \in Nat
      /\ \A d \in Nat : d < count => \E i \in Nat : SlotOf(s, cap, i) = d
  BY Zenon DEF OldestFirst
<1>2. \A i \in Nat : SlotOf(s, cap, i) = kInvalidDenseId
  BY DEF SlotOf
<1>3. count = 0
  <2> SUFFICES ASSUME 0 < count PROVE FALSE
    BY <1>1
  <2>1. PICK i \in Nat : SlotOf(s, cap, i) = 0
    BY <1>1
  <2> QED BY <1>2, <2>1 DEF kInvalidDenseId
<1>4. SparseUnit \in Nat \ {0} /\ SparseUnit \div SparseUnit = 1
  BY ConstantsNat, DivFacts
<1>5. /\ b \in SparseBuffers /\ b.capacity = 1 /\ b.hole_cnt = 1 /\ b.size = 0
      /\ b.bytes = SparseUnit
  <2>1. b.bytes = SparseUnit
    BY DEF SparseNew
  <2> QED BY <1>4, <2>1, NewSparseBuffer
<1> HIDE DEF b
<1>6. t \in Seq(SparseBuffers) /\ Len(t) = 1 /\ t[1] = b
  BY <1>5 DEF b
<1>7. SlotBuffers(t, 1)
  <2>1. b.bytes + SparseUnit <= kMaxBufferSize
    BY <1>4, <1>5, ConstantsNat DEF UnitsFit
  <2>2. SlotBuffer(b, 1, 1)
    BY Zenon, <1>5, <2>1 DEF SlotBuffer
  <2>3. \A k \in 1 .. 1 : k = 1
    OBVIOUS
  <2>4. 1 \in Nat \ {0} /\ ~(1 > 1)
    OBVIOUS
  <2> QED BY Zenon, <1>6, <2>2, <2>3, <2>4 DEF SlotBuffers
<1>8. ASSUME NEW i \in Nat PROVE SlotOf(t, 1, i) = kInvalidDenseId
  <2>1. PICK k, e : k = i \div 1 + 1 /\ e = i % 1
    OBVIOUS
  <2>2. SlotsAt(t, 1, i, k, e)
    BY Zenon, <1>7, <2>1, SlotsByBuffer
  <2>3. e \in Offsets(b.capacity)
    BY <1>5, <2>1, PositionOf DEF Offsets
  <2>4. b.slot[e] = kInvalidDenseId
    BY Zenon, <1>5, <2>3, NoLiveSlot
  <2>5. SlotIn(b, e) = kInvalidDenseId
    BY Zenon, <2>4 DEF SlotIn
  <2>6. k \in 1 .. Len(t) => k = 1
    BY <1>6
  <2> QED BY Zenon, <1>6, <2>2, <2>5, <2>6 DEF SlotsAt
<1>9. SlotsHold(t, 1, count)
  BY <1>3, <1>8 DEF SlotsHold, IsLive
<1>10. Refit(s, t, cap, 1)
  BY Zenon, <1>2, <1>8 DEF Refit
<1>11. count \div 1 = 0 /\ 0 + 1 = 1 /\ 0 \in Nat /\ 1 > 0 /\ 1 # 0 /\ \A k \in 1 .. 1 : k = 1
  BY <1>3
<1>12. Ready(t, 1, count, 0)
  BY Zenon, <1>1, <1>5, <1>6, <1>7, <1>9, <1>11 DEF Ready
<1> QED BY Zenon, <1>10, <1>12

\* GrownBytes makes room for a slot at least, and leaves the buffer full-sized
\* or with room to grow by another unit.
LEMMA GrownSlots ==
  ASSUME NEW b \in SparseBuffers, NEW cap, b.capacity = cap, cap # 0,
         SlotBuffer(b, cap, 1), b.bytes < kMaxBufferSize,
         NEW g, g = GrownBytes(b, SparseUnit)
  PROVE  /\ g \in Nat /\ b.bytes < g /\ g \div SparseUnit > cap
         /\ g = kMaxBufferSize \/ g + SparseUnit <= kMaxBufferSize
<1>1. PICK u \in Nat \ {0} : u = SparseUnit
  BY ConstantsNat
<1>2. PICK max \in Nat : max = kMaxBufferSize
  BY ConstantsNat
<1>3. PICK bytes \in Nat : bytes = b.bytes /\ cap = bytes \div u
  BY Zenon, <1>1, SparseBufferFacts DEF SparseType
<1>4. bytes >= u
  <2>1. bytes < u => bytes \div u = 0
    BY DivFacts
  <2> QED BY <1>3, <2>1
<1>5. bytes + u <= max /\ bytes < max
  <2>1. b.bytes = kMaxBufferSize \/ b.bytes + SparseUnit <= kMaxBufferSize
    BY Zenon DEF SlotBuffer
  <2> QED BY <1>1, <1>2, <1>3, <2>1
<1>6. \/ g = 2 * bytes /\ 2 * bytes + u <= max
      \/ g = max
  BY <1>1, <1>2, <1>3 DEF GrownBytes
<1>7. CASE g = 2 * bytes /\ 2 * bytes + u <= max
  <2>1. (2 * bytes) \div u >= bytes \div u + 1 /\ bytes \div u \in Nat /\ (2 * bytes) \div u \in Nat
    BY <1>4, DivDoubled, DivNat
  <2> QED BY <1>1, <1>2, <1>3, <1>4, <1>7, <2>1
<1>8. CASE g = max
  <2>1. (bytes + u) \div u = bytes \div u + 1 /\ bytes \div u \in Nat
    OBVIOUS
  <2>2. (bytes + u) \div u <= max \div u /\ max \div u \in Nat
    BY <1>5, DivMonotone, DivNat
  <2> QED BY <1>1, <1>2, <1>3, <1>5, <1>8, <2>1, <2>2
<1> QED BY <1>6, <1>7, <1>8

\* c has the slots of b and free ones after them.
BufferExtended(b, c, cap, to) ==
  /\ c \in SparseBuffers /\ c.capacity = to /\ to \in Nat /\ cap < to /\ c.hole_cnt > 0
  /\ SlotBuffer(c, to, 1)
  /\ \A j \in Offsets(cap) : c.slot[j] = b.slot[j]
  /\ \A j \in Offsets(to) : j \notin Offsets(cap) => c.slot[j] = kInvalidDenseId

\* A lone sparse buffer grows.
LEMMA GrowSlotBuffer ==
  ASSUME NEW b \in SparseBuffers, NEW cap, b.capacity = cap, cap # 0,
         SlotBuffer(b, cap, 1), b.bytes < kMaxBufferSize,
         NEW c, c = SparseReserve(b, GrownBytes(b, SparseUnit)), NEW to, to = c.capacity
  PROVE  BufferExtended(b, c, cap, to)
<1>1. PICK g : g = GrownBytes(b, SparseUnit)
  OBVIOUS
<1>2. /\ g \in Nat /\ b.bytes < g /\ g \div SparseUnit > cap
      /\ g = kMaxBufferSize \/ g + SparseUnit <= kMaxBufferSize
  BY <1>1, GrownSlots
<1>3. SparseType(b) /\ HolesExact(b) /\ b.bytes \in Nat /\ b.capacity \in Nat
  BY SparseBufferFacts
<1>4. c \in SparseBuffers
  BY <1>1, <1>2, ReserveSparseBuffer
<1>5. /\ c.size = b.size
      /\ FreeSlots(c) = FreeSlots(b) \cup (cap .. to - 1)
      /\ \A j \in 0 .. cap - 1 : c.slot[j] = b.slot[j]
  BY Zenon, <1>1, <1>2, <1>3, ReserveIsExact
<1>6. c.bytes = g /\ to = g \div SparseUnit
  <2>1. ~(g <= b.bytes)
    BY <1>2, <1>3
  <2> QED BY <1>1, <2>1 DEF SparseReserve
<1>7. to \in Nat /\ cap \in Nat /\ cap < to
  BY Zenon, <1>2, <1>3, <1>4, <1>6, SparseBufferFacts
<1>8. c.hole_cnt > 0
  <2>1. c.hole_cnt = to - c.size /\ b.size <= cap /\ b.size \in Nat
    BY <1>3, <1>4, SparseBufferFacts DEF SparseType
  <2> QED BY <1>5, <1>7, <2>1
<1>9. SlotBuffer(c, to, 1)
  BY <1>2, <1>6 DEF SlotBuffer
<1>10. \A j \in Offsets(to) : j \notin Offsets(cap) => c.slot[j] = kInvalidDenseId
  BY <1>5, <1>7 DEF Offsets, FreeSlots
<1>11. \A j \in Offsets(cap) : c.slot[j] = b.slot[j]
  BY <1>5 DEF Offsets
<1> QED BY Zenon, <1>4, <1>7, <1>8, <1>9, <1>10, <1>11 DEF BufferExtended

\* The lone sparse buffer is full: it grows, and the slots keep their indices.
LEMMA GrowLoneBuffer ==
  ASSUME NEW s, NEW cap, NEW count, OldestFirst(s, cap, count), Len(s) = 1,
         s[1].hole_cnt = 0, s[1].bytes < kMaxBufferSize,
         NEW c, c = SparseReserve(s[1], GrownBytes(s[1], SparseUnit)), NEW to, to = c.capacity,
         NEW t, t = [s EXCEPT ![1] = c]
  PROVE  Ready(t, to, count, 0) /\ Refit(s, t, cap, to)
<1>1. /\ SlotBuffers(s, cap) /\ count \in Nat /\ SlotsHold(s, cap, count)
      /\ \A k \in 1 .. Len(s) : s[k].capacity # 0
  BY Zenon DEF OldestFirst, SlotsHold
<1>2. /\ \A i \in Nat : IsLive(s, cap, i) =>
           SlotOf(s, cap, i) < count /\ SlotOf(s, cap, i) \div cap = i \div cap
      /\ \A i, j \in Nat : IsLive(s, cap, i) /\ SlotOf(s, cap, i) = SlotOf(s, cap, j) => i = j
      /\ \A d \in Nat : d < count => \E i \in Nat : SlotOf(s, cap, i) = d
  BY Zenon, <1>1 DEF SlotsHold
<1>3. cap \in Nat \ {0} /\ s \in Seq(SparseBuffers) /\ 1 \in 1 .. Len(s)
  BY <1>1, SlotBuffersFacts
<1>4. PICK b \in SparseBuffers : b = s[1]
  BY <1>3
<1>5. b.capacity = cap /\ SlotBuffer(b, cap, 1) /\ cap # 0
  <2>1. SlotBuffer(b, cap, 1)
    BY Zenon, <1>1, <1>3, <1>4 DEF SlotBuffers
  <2> QED BY Zenon, <1>1, <1>3, <1>4, <2>1 DEF SlotBuffer
<1>6. /\ c \in SparseBuffers /\ c.capacity = to /\ to \in Nat /\ cap < to /\ c.hole_cnt > 0
      /\ SlotBuffer(c, to, 1)
      /\ \A j \in Offsets(cap) : c.slot[j] = b.slot[j]
      /\ \A j \in Offsets(to) : j \notin Offsets(cap) => c.slot[j] = kInvalidDenseId
  <2>1. b.bytes < kMaxBufferSize /\ c = SparseReserve(b, GrownBytes(b, SparseUnit))
    BY Zenon, <1>4
  <2>2. BufferExtended(b, c, cap, to)
    BY Zenon, <1>5, <2>1, GrowSlotBuffer
  <2> QED BY Zenon, <2>2 DEF BufferExtended
<1>7. to \in Nat \ {0}
  BY <1>3, <1>6
<1>8. t \in Seq(SparseBuffers) /\ Len(t) = 1 /\ t[1] = c
  BY <1>3, <1>6
<1>9. SlotBuffers(t, to)
  <2>1. (\A k \in 1 .. 1 : k = 1) /\ ~(1 > 1)
    OBVIOUS
  <2> QED BY Zenon, <1>6, <1>7, <1>8, <2>1 DEF SlotBuffers
<1>10. count <= cap
  <2>1. PICK base : base = cap * 1 /\ Starts(base, cap, 1)
    BY <1>3, StartOf
  <2>2. count <= base
    BY Zenon, <2>1, RowsInBuffers
  <2> QED BY <1>3, <2>1, <2>2
<1>11. c.capacity # 0 /\ b.capacity # 0
  BY <1>3, <1>5, <1>6, <1>7
<1>12. ASSUME NEW i \in Nat
       PROVE  /\ SlotOf(t, to, i) = SlotOf(s, cap, i)
              /\ IsLive(s, cap, i) => i \div to = 0
  <2>1. PICK k, e : k = i \div cap + 1 /\ e = i % cap
    OBVIOUS
  <2>2. PICK l, f : l = i \div to + 1 /\ f = i % to
    OBVIOUS
  <2>3. SlotsAt(s, cap, i, k, e) /\ SlotsAt(t, to, i, l, f)
    BY Zenon, <1>1, <1>9, <2>1, <2>2, SlotsByBuffer
  <2>4. /\ i < cap => k = 1 /\ e = i
        /\ ~(i < cap) => k \notin 1 .. Len(s)
    <3>1. /\ i < cap => i \div cap = 0 /\ e = i
          /\ ~(i < cap) => i \div cap >= 1
      BY <1>3, <2>1, FirstPositions
    <3>2. i \div cap \in Nat
      BY Zenon, <1>3, PositionOf
    <3> QED BY <1>3, <2>1, <3>1, <3>2
  <2>5. /\ i < to => l = 1 /\ f = i /\ i \div to = 0
        /\ ~(i < to) => l \notin 1 .. Len(t)
    <3>1. /\ i < to => i \div to = 0 /\ f = i
          /\ ~(i < to) => i \div to >= 1
      BY <1>7, <2>2, FirstPositions
    <3>2. PICK q \in Nat : q = i \div to
      BY <1>7, PositionOf
    <3>3. (q = 0 => l = 1) /\ (q >= 1 => l \notin 1 .. 1)
      BY <2>2, <3>2
    <3> QED BY Zenon, <1>8, <3>1, <3>2, <3>3
  <2>6. /\ i < cap => SlotOf(s, cap, i) = b.slot[i]
        /\ ~(i < cap) => SlotOf(s, cap, i) = kInvalidDenseId
    BY Zenon, <1>3, <1>4, <1>11, <2>3, <2>4 DEF SlotsAt, SlotIn
  <2>7. /\ i < to => SlotOf(t, to, i) = c.slot[i]
        /\ ~(i < to) => SlotOf(t, to, i) = kInvalidDenseId
    <3>1. 1 \in 1 .. Len(t)
      BY <1>8
    <3> QED BY Zenon, <1>8, <1>11, <2>3, <2>5, <3>1 DEF SlotsAt, SlotIn
  <2>8. i < cap <=> i \in Offsets(cap)
    BY <1>3 DEF Offsets
  <2>9. i < to <=> i \in Offsets(to)
    BY <1>7 DEF Offsets
  <2>10. i < cap => i < to
    BY <1>3, <1>6
  <2> QED BY Zenon, <1>6, <2>5, <2>6, <2>7, <2>8, <2>9, <2>10 DEF IsLive
<1>13. Refit(s, t, cap, to)
  BY Zenon, <1>12 DEF Refit
<1>14. SlotsHold(t, to, count)
  <2>1. ASSUME NEW i \in Nat, IsLive(t, to, i)
        PROVE  SlotOf(t, to, i) < count /\ SlotOf(t, to, i) \div to = i \div to
    <3>1. IsLive(s, cap, i) /\ SlotOf(t, to, i) = SlotOf(s, cap, i)
      BY Zenon, <1>12, <2>1 DEF IsLive
    <3>2. PICK d \in Nat : d = SlotOf(s, cap, i)
      BY Zenon, <1>1, <3>1, LiveSlotFacts DEF LiveAt
    <3>3. d < count /\ i \div to = 0
      BY Zenon, <1>2, <1>12, <3>1, <3>2
    <3>4. d < to
      BY <1>1, <1>3, <1>6, <1>10, <3>3
    <3>5. d \div to = 0
      BY <1>7, <3>4, FirstPositions
    <3> QED BY Zenon, <3>1, <3>2, <3>3, <3>5
  <2>2. ASSUME NEW i \in Nat, NEW j \in Nat, IsLive(t, to, i),
               SlotOf(t, to, i) = SlotOf(t, to, j)
        PROVE  i = j
    <3>1. IsLive(s, cap, i) /\ SlotOf(s, cap, i) = SlotOf(s, cap, j)
      BY Zenon, <1>12, <2>2 DEF IsLive
    <3> QED BY Zenon, <1>2, <3>1
  <2>3. ASSUME NEW d \in Nat, d < count PROVE \E i \in Nat : SlotOf(t, to, i) = d
    <3>1. PICK i \in Nat : SlotOf(s, cap, i) = d
      BY Zenon, <1>2, <2>3
    <3>2. SlotOf(t, to, i) = d
      BY Zenon, <1>12, <3>1
    <3> QED BY Zenon, <3>2
  <2> QED BY Zenon, <2>1, <2>2, <2>3 DEF SlotsHold
<1>15. count \div to = 0
  <2>1. count < to
    BY <1>1, <1>3, <1>6, <1>10
  <2> QED BY <1>1, <1>7, <2>1, FirstPositions
<1>16. Len(t) = 0 + 1 /\ 0 \in Nat /\ \A k \in 1 .. 1 : k = 1
  BY <1>8
<1>17. t[0 + 1].hole_cnt > 0
  BY <1>6, <1>8
<1>18. Ready(t, to, count, 0)
  BY Zenon, <1>1, <1>8, <1>9, <1>11, <1>14, <1>15, <1>16, <1>17 DEF Ready
<1> QED BY Zenon, <1>13, <1>18

\* All sparse buffers are full: another one follows them.
LEMMA AppendSlotBuffer ==
  ASSUME NEW s, NEW cap, NEW count, OldestFirst(s, cap, count),
         NEW n \in Nat \ {0}, Len(s) = n, s[n].hole_cnt = 0,
         ~(n = 1 /\ s[1].bytes < kMaxBufferSize),
         NEW t, t = Append(s, SparseNew(kMaxBufferSize))
  PROVE  Ready(t, cap, count, n) /\ Refit(s, t, cap, cap)
<1>1. /\ SlotBuffers(s, cap) /\ count \in Nat /\ SlotsHold(s, cap, count)
      /\ \A k \in 1 .. Len(s) : s[k].capacity # 0
  BY Zenon DEF OldestFirst, SlotsHold
<1>2. cap \in Nat \ {0} /\ s \in Seq(SparseBuffers) /\ n \in 1 .. n /\ 1 \in 1 .. n
  BY <1>1, SlotBuffersFacts
<1>3. PICK new : new = SparseNew(kMaxBufferSize)
  OBVIOUS
<1>4. PICK u \in Nat \ {0} : u = SparseUnit
  BY ConstantsNat
<1>5. PICK max \in Nat : max = kMaxBufferSize
  BY ConstantsNat
<1>6. /\ new \in SparseBuffers /\ new.capacity = max \div u /\ new.hole_cnt = max \div u
      /\ new.size = 0 /\ new.bytes = max
  <2>1. new.bytes = max
    BY <1>3, <1>5 DEF SparseNew
  <2> QED BY Zenon, <1>3, <1>4, <1>5, <2>1, NewSparseBuffer
<1>7. n = 1 => s[1].bytes = max /\ cap = max \div u
  <2> SUFFICES ASSUME n = 1 PROVE s[1].bytes = max /\ cap = max \div u
    OBVIOUS
  <2>1. PICK b \in SparseBuffers : b = s[1] /\ b.capacity = cap
    <3>1. 1 \in 1 .. Len(s)
      BY <1>2
    <3>2. s[1] \in SparseBuffers /\ s[1].capacity = cap
      BY ZenonT(60), <1>1, <3>1, SlotBuffersFacts
    <3> QED BY Zenon, <3>2
  <2>2. SlotBuffer(b, cap, 1)
    BY Zenon, <1>1, <1>2, <2>1 DEF SlotBuffers
  <2>3. b.bytes = max \/ b.bytes + u <= max
    BY Zenon, <1>1, <1>2, <1>4, <1>5, <2>1, <2>2 DEF SlotBuffer
  <2>4. b.bytes \in Nat /\ b.capacity = b.bytes \div u
    BY <1>4, <2>1, SparseBufferFacts DEF SparseType
  <2>5. ~(b.bytes < max)
    BY Zenon, <1>5, <2>1
  <2> QED BY <1>4, <1>5, <2>1, <2>3, <2>4, <2>5
<1>8. cap = max \div u /\ \A k \in 1 .. n : s[k].bytes = max
  <2>1. CASE n = 1
    <3>1. \A k \in 1 .. n : k = 1
      BY <2>1
    <3> QED BY Zenon, <1>7, <2>1, <3>1
  <2>2. CASE n # 1
    <3>1. n > 1
      BY <2>2
    <3> QED BY Zenon, <1>1, <1>4, <1>5, <2>2, <3>1 DEF SlotBuffers, SlotBuffer
  <2> QED BY Zenon, <2>1, <2>2
<1>9. PICK l \in Nat : l = n + 1 /\ l > 1 /\ l # n /\ l \in 1 .. l
                       /\ (\A k \in 1 .. l : (k = l \/ k \in 1 .. n))
                       /\ \A k \in 1 .. n : k \in 1 .. l /\ k # l
  <2>1. /\ n + 1 > 1 /\ n + 1 # n /\ n + 1 \in 1 .. n + 1 /\ n + 1 \in Nat
        /\ \A k \in 1 .. n + 1 : (k = n + 1 \/ k \in 1 .. n)
        /\ \A k \in 1 .. n : k \in 1 .. n + 1 /\ k # n + 1
    OBVIOUS
  <2> QED BY Zenon, <2>1
<1>10. /\ t \in Seq(SparseBuffers) /\ Len(t) = l /\ t[l] = new
       /\ \A k \in 1 .. n : t[k] = s[k]
  BY <1>2, <1>3, <1>6, <1>9
<1>11. SlotBuffers(t, cap)
  <2>1. ASSUME NEW k \in 1 .. l PROVE SlotBuffer(t[k], cap, l)
    <3>1. CASE k = l
      BY Zenon, <1>5, <1>6, <1>8, <1>10, <3>1 DEF SlotBuffer
    <3>2. CASE k \in 1 .. n
      <4>1. SlotBuffer(s[k], cap, n)
        BY Zenon, <1>1, <3>2 DEF SlotBuffers
      <4> QED BY Zenon, <1>5, <1>8, <1>10, <3>2, <4>1 DEF SlotBuffer
    <3> QED BY Zenon, <1>9, <3>1, <3>2
  <2> QED BY Zenon, <1>2, <1>4, <1>5, <1>8, <1>10, <2>1 DEF SlotBuffers
<1>12. ASSUME NEW i \in Nat PROVE SlotOf(t, cap, i) = SlotOf(s, cap, i)
  <2>1. PICK k, e : k = i \div cap + 1 /\ e = i % cap
    OBVIOUS
  <2>2. SlotsAt(s, cap, i, k, e) /\ SlotsAt(t, cap, i, k, e)
    BY Zenon, <1>1, <1>11, <2>1, SlotsByBuffer
  <2>3. CASE k \in 1 .. n
    <3>1. t[k] = s[k] /\ k \in 1 .. Len(t) /\ k \in 1 .. Len(s)
      BY Zenon, <1>9, <1>10, <2>3
    <3> QED BY Zenon, <2>2, <3>1 DEF SlotsAt
  <2>4. CASE k = l
    <3>1. k \notin 1 .. Len(s) /\ k \in 1 .. Len(t)
      BY Zenon, <1>9, <1>10, <2>4
    <3>2. e \in Offsets(new.capacity)
      BY Zenon, <1>2, <1>6, <1>8, <2>1, PositionOf DEF Offsets
    <3>3. new.slot[e] = kInvalidDenseId
      BY Zenon, <1>6, <3>2, NoLiveSlot
    <3>4. SlotIn(t[k], e) = kInvalidDenseId
      BY Zenon, <1>10, <2>4, <3>3 DEF SlotIn
    <3> QED BY Zenon, <2>2, <3>1, <3>4 DEF SlotsAt
  <2>5. CASE k \notin 1 .. n /\ k # l
    <3>1. k \notin 1 .. Len(s) /\ k \notin 1 .. Len(t)
      BY Zenon, <1>9, <1>10, <2>5
    <3> QED BY Zenon, <2>2, <3>1 DEF SlotsAt
  <2> QED BY Zenon, <2>3, <2>4, <2>5
<1>13. count \div cap = n
  <2>1. PICK m \in Nat : m + 1 = n
    <3>1. n - 1 \in Nat /\ (n - 1) + 1 = n
      OBVIOUS
    <3> QED BY Zenon, <3>1
  <2>2. cap * m + cap <= count
    <3>1. m + 1 \in 1 .. Len(s) /\ s[m + 1].hole_cnt = 0
      BY <1>2, <2>1
    <3> QED BY <3>1, FullBuffer
  <2>3. PICK base \in Nat : base = cap * n /\ Starts(base, cap, n)
    BY <1>2, StartOf
  <2>4. count <= base
    BY Zenon, <2>3, RowsInBuffers
  <2>5. cap * (m + 1) = cap * m + cap
    BY <1>2, <2>1, PositionWithin
  <2>6. base = cap * m + cap
    BY Zenon, <2>1, <2>3, <2>5
  <2>7. count = base
    <3>1. base <= count
      BY Zenon, <2>2, <2>6
    <3> QED BY <1>1, <2>3, <2>4, <3>1
  <2>8. cap * n <= count /\ count < cap * n + cap
    BY <1>1, <1>2, <2>3, <2>7
  <2> QED BY Zenon, <1>1, <1>2, <2>8, PositionWithin
<1>14. SlotsHold(t, cap, count)
  <2>1. /\ \A i \in Nat : IsLive(s, cap, i) =>
             SlotOf(s, cap, i) < count /\ SlotOf(s, cap, i) \div cap = i \div cap
        /\ \A i, j \in Nat : IsLive(s, cap, i) /\ SlotOf(s, cap, i) = SlotOf(s, cap, j) => i = j
        /\ \A d \in Nat : d < count => \E i \in Nat : SlotOf(s, cap, i) = d
    BY Zenon, <1>1 DEF SlotsHold
  <2>2. \A i \in Nat : IsLive(t, cap, i) <=> IsLive(s, cap, i)
    BY Zenon, <1>12 DEF IsLive
  <2>3. ASSUME NEW i \in Nat, IsLive(t, cap, i)
        PROVE  SlotOf(t, cap, i) < count /\ SlotOf(t, cap, i) \div cap = i \div cap
    BY Zenon, <1>12, <2>1, <2>2, <2>3
  <2>4. ASSUME NEW i \in Nat, NEW j \in Nat, IsLive(t, cap, i),
               SlotOf(t, cap, i) = SlotOf(t, cap, j)
        PROVE  i = j
    <3>1. IsLive(s, cap, i) /\ SlotOf(s, cap, i) = SlotOf(s, cap, j)
      BY Zenon, <1>12, <2>2, <2>4
    <3> QED BY Zenon, <2>1, <3>1
  <2>5. ASSUME NEW d \in Nat, d < count PROVE \E i \in Nat : SlotOf(t, cap, i) = d
    <3>1. PICK i \in Nat : SlotOf(s, cap, i) = d
      BY Zenon, <2>1, <2>5
    <3>2. SlotOf(t, cap, i) = d
      BY Zenon, <1>12, <3>1
    <3> QED BY Zenon, <3>2
  <2> QED BY Zenon, <2>3, <2>4, <2>5 DEF SlotsHold
<1>15. new.hole_cnt > 0 /\ new.capacity # 0
  BY <1>2, <1>6, <1>8
<1>16. \A k \in 1 .. Len(t) : t[k].capacity # 0
  BY Zenon, <1>1, <1>9, <1>10, <1>15
<1>17. Refit(s, t, cap, cap)
  BY Zenon, <1>12 DEF Refit
<1>18. Ready(t, cap, count, n)
  BY Zenon, <1>1, <1>9, <1>10, <1>11, <1>13, <1>14, <1>15, <1>16 DEF Ready
<1> QED BY Zenon, <1>17, <1>18

\* r is a with room for a slot in sparse buffer x.
MadeReady(a, r, cap, to, count, x) ==
  /\ Ready(r.sparse, to, count, x) /\ Refit(a.sparse, r.sparse, cap, to)
  /\ r.available_sparse[1] = x

\* EnsureNotFullSparse.
LEMMA EnsureReady ==
  ASSUME UnitsFit, NEW a \in ArchType, Listed(a.sparse, a.available_sparse),
         NEW cap, NEW count, OldestFirst(a.sparse, cap, count), NEW r, r = EnsureNotFullSparse(a)
  PROVE  \E to, x : MadeReady(a, r, cap, to, count, x)
<1>1. PICK s, available : s = a.sparse /\ available = a.available_sparse
  OBVIOUS
<1>2. /\ SlotBuffers(s, cap) /\ OldestFirst(s, cap, count)
      /\ \A k \in 1 .. Len(s) : s[k].capacity # 0
  BY Zenon, <1>1 DEF OldestFirst
<1>3. /\ s \in Seq(SparseBuffers) /\ DOMAIN s = 1 .. Len(s) /\ Len(s) \in Nat
      /\ available \in Seq(Nat)
  BY <1>1 DEF ArchType
<1>4. /\ \A x \in ToSet(available) : x + 1 \in DOMAIN s
      /\ \A n \in DOMAIN s : n - 1 \in ToSet(available) <=> Usable(s[n])
  BY Zenon, <1>1 DEF Listed, ListedBut
<1>5. \A i \in Nat : SlotOf(s, cap, i) = SlotOf(s, cap, i)
  OBVIOUS
<1>6. CASE available # <<>>
  <2>1. r = a
    BY <1>1, <1>6 DEF EnsureNotFullSparse
  <2>2. PICK x \in Nat : x = available[1] /\ x \in ToSet(available)
    BY <1>3, <1>6 DEF ToSet
  <2>3. PICK n : n = x + 1 /\ n - 1 = x
    BY <2>2
  <2>4. n \in 1 .. Len(s) /\ Usable(s[n])
    BY Zenon, <1>3, <1>4, <2>2, <2>3
  <2>5. s[x + 1].hole_cnt > 0 /\ x + 1 \in 1 .. Len(s)
    BY Zenon, <1>2, <2>3, <2>4 DEF Usable
  <2>6. Ready(s, cap, count, x)
    BY Zenon, <1>2, <2>5, HoleIsLast
  <2>7. MadeReady(a, r, cap, cap, count, x)
    BY Zenon, <1>1, <2>1, <2>2, <2>6 DEF MadeReady, Refit
  <2> QED BY Zenon, <2>7
<1>7. ASSUME available = <<>>, NEW n \in 1 .. Len(s) PROVE s[n].hole_cnt = 0
  <2>1. ToSet(available) = {}
    BY <1>7 DEF ToSet
  <2>2. ~Usable(s[n])
    BY Zenon, <1>3, <1>4, <2>1
  <2>3. s[n].hole_cnt \in Nat
    BY <1>3, SparseBufferFacts
  <2>4. ~(s[n].hole_cnt > 0)
    BY Zenon, <2>2 DEF Usable
  <2> QED BY <2>3, <2>4
<1>8. CASE available = <<>> /\ s = <<>>
  <2>1. PICK t : t = <<SparseNew(SparseUnit)>>
    BY Zenon
  <2>2. r = [a EXCEPT !.sparse = t, !.available_sparse = <<0>>]
    BY <1>1, <1>8, <2>1 DEF EnsureNotFullSparse
  <2>3. r.sparse = t /\ r.available_sparse[1] = 0
    BY <2>2 DEF ArchType
  <2>4. Ready(t, 1, count, 0) /\ Refit(s, t, cap, 1)
    BY Zenon, <1>2, <1>8, <2>1, FirstSlotBuffer
  <2>5. MadeReady(a, r, cap, 1, count, 0)
    BY Zenon, <1>1, <2>3, <2>4 DEF MadeReady
  <2> QED BY Zenon, <2>5
<1>9. CASE available = <<>> /\ Len(s) = 1 /\ s[1].bytes < kMaxBufferSize
  <2>1. PICK c : c = SparseReserve(s[1], GrownBytes(s[1], SparseUnit))
    OBVIOUS
  <2>2. PICK t : t = [s EXCEPT ![1] = c]
    BY Zenon
  <2>3. r = [a EXCEPT !.sparse = t, !.available_sparse = <<0>>]
    <3>1. s # <<>>
      BY SMTT(30), <1>9
    <3>2. r = [a EXCEPT !.sparse[1] = SparseReserve(@, GrownBytes(@, SparseUnit)),
                        !.available_sparse = <<0>>]
      BY Zenon, <1>1, <1>9, <3>1 DEF EnsureNotFullSparse
    <3> QED BY <1>1, <2>1, <2>2, <3>2
  <2>4. r.sparse = t /\ r.available_sparse[1] = 0
    BY <2>3 DEF ArchType
  <2>5. s[1].hole_cnt = 0
    <3>1. 1 \in 1 .. Len(s)
      BY <1>9
    <3> QED BY Zenon, <1>7, <1>9, <3>1
  <2>6. PICK to : to = c.capacity
    OBVIOUS
  <2>7. Ready(t, to, count, 0) /\ Refit(s, t, cap, to)
    BY Zenon, <1>2, <1>9, <2>1, <2>2, <2>5, <2>6, GrowLoneBuffer
  <2>8. MadeReady(a, r, cap, to, count, 0)
    BY Zenon, <1>1, <2>4, <2>7 DEF MadeReady
  <2> QED BY Zenon, <2>8
<1>10. CASE available = <<>> /\ s # <<>> /\ ~(Len(s) = 1 /\ s[1].bytes < kMaxBufferSize)
  <2>1. PICK n \in Nat \ {0} : n = Len(s) /\ n \in 1 .. Len(s)
    <3>1. Len(s) \in Nat \ {0} /\ Len(s) \in 1 .. Len(s)
      BY <1>3, <1>10
    <3> QED BY Zenon, <3>1
  <2>2. PICK t : t = Append(s, SparseNew(kMaxBufferSize))
    BY Zenon
  <2>3. r = [a EXCEPT !.sparse = t, !.available_sparse = <<n>>]
    BY <1>1, <1>10, <2>1, <2>2 DEF EnsureNotFullSparse
  <2>4. r.sparse = t /\ r.available_sparse[1] = n
    BY <2>3 DEF ArchType
  <2>5. s[n].hole_cnt = 0
    BY Zenon, <1>7, <1>10, <2>1
  <2>6. Ready(t, cap, count, n) /\ Refit(s, t, cap, cap)
    <3>1. ~(n = 1 /\ s[1].bytes < kMaxBufferSize) /\ Len(s) = n
      BY Zenon, <1>10, <2>1
    <3> QED BY Zenon, <1>2, <2>1, <2>2, <2>5, <3>1, AppendSlotBuffer
  <2>7. MadeReady(a, r, cap, cap, count, n)
    BY Zenon, <1>1, <2>4, <2>6 DEF MadeReady
  <2> QED BY Zenon, <2>7
<1> QED BY Zenon, <1>6, <1>8, <1>9, <1>10

-----------------------------------------------------------------------------
(* Push: the sparse buffers *)

\* As many rows as that.
CountsRows(s, d) == RowsIn(s) = d

\* The position of the next row is the number of rows.
LEMMA NextPosition ==
  ASSUME NEW R, NEW u, NEW s \in Seq(PackedBuffers(R)), s # <<>>, Shaped(s, u),
         ~IsFull(Last(s)),
         NEW d, d = s[1].capacity * (Len(s) - 1) + Len(Last(s).rows)
  PROVE  CountsRows(s, d)
<1>1. PICK n \in Nat \ {0} : n = Len(s) /\ n \in 1 .. n /\ 1 \in 1 .. n
  <2>1. Len(s) \in Nat \ {0} /\ Len(s) \in 1 .. Len(s) /\ 1 \in 1 .. Len(s)
    OBVIOUS
  <2> QED BY Zenon, <2>1
<1>2. PICK last \in PackedBuffers(R) : last = Last(s) /\ last = s[n]
  BY Zenon, <1>1, FrontFacts
<1>3. last.capacity \in Nat \ {0} /\ Len(last.rows) \in Nat
  BY <1>2, PackedBufferFacts DEF IsFull
<1>4. last.capacity = s[1].capacity
  <2>1. n \in DOMAIN s
    BY <1>1
  <2> QED BY Zenon, <1>2, <2>1 DEF Shaped
<1>5. PICK cap \in Nat \ {0} : cap = s[1].capacity
  BY Zenon, <1>3, <1>4
<1>6. PICK m \in Nat : m = Len(s) - 1
  BY <1>1
<1>7. PICK base \in Nat : base = cap * m /\ Starts(base, cap, m)
  BY StartOf
<1>8. RowsIn(s) = base + Len(s[Len(s)].rows)
  BY Zenon, <1>5, <1>6, <1>7, RowsCounted
<1>9. d = base + Len(last.rows)
  BY Zenon, <1>2, <1>5, <1>6, <1>7
<1> QED BY Zenon, <1>1, <1>2, <1>8, <1>9 DEF CountsRows

\* b is a with row number count, of which m is the next, at index i.
SlotPushed(a, b, cap, count, m, i) ==
  Running(b) /\ b.rv = <<i>> /\ Filled(a.sparse, b.sparse, cap, count, m, i)

\* PushSparseDenseBuffer, in a sparse buffer made ready for it.
LEMMA PushSlot ==
  ASSUME NEW a \in ArchType, Running(a), NEW cap, NEW count, NEW x,
         Ready(a.sparse, cap, count, x), a.available_sparse[1] = x,
         Shaped(a.dense, DenseUnit), a.dense # <<>>, ~IsFull(Last(a.dense)),
         RowsIn(a.dense) = count, NEW m, m = count + 1,
         NEW b, b = PushSparseDenseBuffer(a)
  PROVE  \E i : SlotPushed(a, b, cap, count, m, i)
<1>1. PICK s, old : s = a.sparse /\ old = s[x + 1]
  OBVIOUS
<1>2. /\ SlotBuffers(s, cap) /\ count \in Nat /\ x \in Nat /\ Len(s) = x + 1
      /\ old.hole_cnt > 0 /\ \A k \in 1 .. Len(s) : s[k].capacity # 0
  BY Zenon, <1>1 DEF Ready
<1>3. /\ s \in Seq(SparseBuffers) /\ cap \in Nat \ {0}
      /\ x + 1 \in 1 .. Len(s) /\ 1 \in 1 .. Len(s)
  <2>1. s \in Seq(SparseBuffers) /\ cap \in Nat \ {0}
    BY Zenon, <1>2, SlotBuffersFacts
  <2> QED BY <1>2, <2>1
<1>4. s[1].capacity = cap /\ old.capacity # 0
  BY Zenon, <1>1, <1>2, <1>3, SlotBuffersFacts
<1>5. PICK base \in Nat : base = cap * x /\ Starts(base, cap, x)
  BY <1>2, <1>3, StartOf
<1>6. PICK d : d = a.dense[1].capacity * (Len(a.dense) - 1) + Len(Last(a.dense).rows)
  OBVIOUS
<1>7. d = count
  <2>1. PICK q : q = a.dense
    OBVIOUS
  <2>2. q \in Seq(PackedBuffers(Nat))
    BY <2>1 DEF ArchType
  <2>3. q # <<>> /\ Shaped(q, DenseUnit) /\ ~IsFull(Last(q)) /\ RowsIn(q) = count
    BY Zenon, <2>1
  <2>4. d = q[1].capacity * (Len(q) - 1) + Len(Last(q).rows)
    BY Zenon, <1>6, <2>1
  <2>5. CountsRows(q, d)
    BY Zenon, <2>2, <2>3, <2>4, NextPosition
  <2> QED BY Zenon, <2>3, <2>5 DEF CountsRows
<1>8. PICK buffer : buffer = IF s[x + 1].capacity # 0 THEN s[x + 1]
                ELSE SparseNew(IF Len(s) = 1 THEN SparseUnit ELSE kMaxBufferSize)
  OBVIOUS
<1>9. buffer = old
  BY Zenon, <1>1, <1>4, <1>8
<1>10. PICK sparse : sparse = [s EXCEPT ![x + 1] = buffer]
  BY Zenon
<1>11. sparse = s
  BY <1>1, <1>3, <1>9, <1>10
<1>12. PICK i : i = sparse[1].capacity * x + NextHole(buffer)
  OBVIOUS
<1>13. i = base + NextHole(old)
  BY Zenon, <1>4, <1>5, <1>9, <1>11, <1>12
<1>14. PICK t : t = [sparse EXCEPT ![x + 1] = FillHole(buffer, d)]
  BY Zenon
<1>15. PICK left : left = IF buffer.hole_cnt = 1 THEN SwapRemove(a.available_sparse, 1)
                          ELSE a.available_sparse
  OBVIOUS
<1>16. PICK dense : dense = [a.dense EXCEPT ![Len(a.dense)] = PushRow(@, i)]
  BY Zenon
<1>17. b = [a EXCEPT !.sparse = t, !.available_sparse = left, !.dense = dense, !.rv = <<i>>]
  <2>1. b = Dcheck(a, buffer.hole_cnt > 0, "PushSparseDenseBuffer",
       [a EXCEPT !.sparse = t,
                 !.available_sparse = IF buffer.hole_cnt = 1 THEN SwapRemove(@, 1) ELSE @,
                 !.dense[Len(a.dense)] = PushRow(@, i),
                 !.rv = <<i>>])
    BY Zenon, <1>1, <1>6, <1>8, <1>10, <1>12, <1>14 DEF PushSparseDenseBuffer
  <2>2. buffer.hole_cnt > 0
    BY Zenon, <1>2, <1>9
  <2>3. b =
       [a EXCEPT !.sparse = t,
                 !.available_sparse = IF buffer.hole_cnt = 1 THEN SwapRemove(@, 1) ELSE @,
                 !.dense[Len(a.dense)] = PushRow(@, i),
                 !.rv = <<i>>]
    BY Zenon, <2>1, <2>2 DEF Dcheck
  <2> QED BY <1>15, <1>16, <2>3
<1>18. b.sparse = t /\ b.rv = <<i>> /\ Running(b)
  BY <1>17 DEF ArchType, Running
<1>19. t = [s EXCEPT ![x + 1] = FillHole(old, count)]
  BY Zenon, <1>7, <1>9, <1>11, <1>14
<1>20. Filled(s, t, cap, count, m, i)
  BY Zenon, <1>1, <1>5, <1>13, <1>19, FillNewest
<1>21. SlotPushed(a, b, cap, count, m, i)
  BY Zenon, <1>1, <1>18, <1>20 DEF SlotPushed
<1> QED BY Zenon, <1>21

\* b is a with entity pushed: its row, number count, is at index i.
PushedLive(a, b, cap, to, count, m, i) ==
  /\ Running(b) /\ b.rv = <<i>> /\ i \in Nat
  /\ OldestFirst(b.sparse, to, m) /\ ~IsLive(a.sparse, cap, i)
  /\ \A j \in Nat : SlotOf(b.sparse, to, j) = IF j = i THEN count ELSE SlotOf(a.sparse, cap, j)

\* Push.
LEMMA PushLives ==
  ASSUME UnitsFit, NEW a, Sound(a), Running(a), NEW cap, NEW count, a.size = count,
         OldestFirst(a.sparse, cap, count), NEW m, m = count + 1,
         NEW entity \in Entity, NEW b, b = PushEntity(a, entity)
  PROVE  \E to, i : PushedLive(a, b, cap, to, count, m, i)
<1>1. PICK room : room = [EnsureNotFull(a) EXCEPT !.size = @ + 1]
  BY Zenon
<1> DEFINE tail == Len(room.data)
           pushed == [room.data EXCEPT ![tail] = PushRow(@, entity)]
           p == [room EXCEPT !.data = pushed]
<1>2. /\ a \in ArchType /\ Listed(a.sparse, a.available_sparse)
      /\ RowsIn(a.dense) = count
  BY Zenon DEF Sound, RowsHeld, Holds
<1>3. /\ room \in ArchType /\ Running(room)
      /\ HasRoom(Nat, DenseUnit, a.dense, room.dense)
      /\ HasRoom(Row, DataUnit, a.data, room.data)
  BY Zenon, <1>1, EnsureNotFullFacts
<1>4. /\ room.dense \in Seq(PackedBuffers(Nat)) /\ room.dense # <<>>
      /\ ~IsFull(Last(room.dense)) /\ ~IsFull(room.data[tail])
      /\ Shaped(room.dense, DenseUnit) /\ RowsIn(room.dense) = count
  <2>1. DenseUnit <= kMaxBufferSize /\ DataUnit <= kMaxBufferSize
    BY Zenon, ConstantsNat, ArchetypeAssumption DEF UnitsFit
  <2>2. /\ room.dense \in Seq(PackedBuffers(Nat)) /\ room.dense # <<>>
        /\ ~IsFull(Last(room.dense)) /\ ~IsFull(Last(room.data))
        /\ Shaped(room.dense, DenseUnit) /\ RowsIn(room.dense) = RowsIn(a.dense)
    BY Zenon, <1>3, <2>1 DEF HasRoom
  <2>3. Last(room.data) = room.data[tail]
    BY DEF Last
  <2> QED BY Zenon, <1>2, <2>2, <2>3
<1>5. b = PushSparseDenseBuffer(p)
  <2>1. b = Dcheck(room, ~IsFull(room.data[tail]), "ArchetypeDataBuffer::Push",
                   PushSparseDenseBuffer([room EXCEPT !.data[tail] = PushRow(@, entity)]))
    BY <1>1 DEF PushEntity
  <2>2. [room EXCEPT !.data[tail] = PushRow(@, entity)] = p
    BY <1>3 DEF ArchType
  <2> QED BY Zenon, <1>3, <1>4, <2>1, <2>2 DEF Dcheck
<1>6. PICK r : r = EnsureNotFullSparse(a)
  OBVIOUS
<1>7. PICK to, x : MadeReady(a, r, cap, to, count, x)
  BY Zenon, <1>2, <1>6, EnsureReady
<1>8. room.sparse = r.sparse /\ room.available_sparse = r.available_sparse
  <2>1. room = [[r EXCEPT !.dense = EnsureNotFullPacked(@, DenseUnit),
                          !.data = EnsureNotFullPacked(@, DataUnit)] EXCEPT !.size = @ + 1]
    BY Zenon, <1>1, <1>6 DEF EnsureNotFull
  <2>2. r \in ArchType
    BY Zenon, <1>2, <1>6, EnsureSparseFacts DEF Sound
  <2> QED BY <2>1, <2>2 DEF ArchType
<1>9. /\ p \in ArchType /\ Running(p) /\ p.dense = room.dense
      /\ p.sparse = room.sparse /\ p.available_sparse = room.available_sparse
  <2>1. pushed \in Seq(PackedBuffers(Row))
    <3>1. room.data \in Seq(PackedBuffers(Row)) /\ room.data # <<>>
      BY Zenon, <1>3 DEF HasRoom
    <3>2. room.data[tail] \in PackedBuffers(Row) /\ tail \in 1 .. Len(room.data)
      BY <3>1
    <3>3. entity \in Row
      BY DEF Row
    <3>4. PushRow(room.data[tail], entity) \in PackedBuffers(Row)
      BY Zenon, <1>4, <3>2, <3>3, PushRowFacts
    <3> QED BY <3>1, <3>2, <3>4
  <2> HIDE DEF pushed
  <2> QED BY Zenon, <1>3, <2>1 DEF ArchType, Running
<1> HIDE DEF p
<1>10. PICK i : SlotPushed(p, b, to, count, m, i)
  <2>1. Ready(p.sparse, to, count, x) /\ p.available_sparse[1] = x
    BY Zenon, <1>7, <1>8, <1>9 DEF MadeReady
  <2>2. /\ Shaped(p.dense, DenseUnit) /\ p.dense # <<>> /\ ~IsFull(Last(p.dense))
        /\ RowsIn(p.dense) = count
    BY Zenon, <1>4, <1>9
  <2> QED BY Zenon, <1>5, <1>9, <2>1, <2>2, PushSlot
<1>11. /\ Running(b) /\ b.rv = <<i>> /\ i \in Nat /\ OldestFirst(b.sparse, to, m)
       /\ ~IsLive(p.sparse, to, i)
       /\ \A j \in Nat : SlotOf(b.sparse, to, j) = IF j = i THEN count ELSE SlotOf(p.sparse, to, j)
  BY Zenon, <1>10 DEF SlotPushed, Filled
<1>12. \A j \in Nat : SlotOf(p.sparse, to, j) = SlotOf(a.sparse, cap, j)
  BY Zenon, <1>7, <1>8, <1>9 DEF MadeReady, Refit
<1>13. PushedLive(a, b, cap, to, count, m, i)
  BY Zenon, <1>11, <1>12 DEF PushedLive, IsLive
<1> QED BY Zenon, <1>13

-----------------------------------------------------------------------------
(* Push: the data buffers *)

\* Row j of buffer n is the last one.
IsTail(s, n, j) == n = Len(s) /\ j = Len(s[n].rows)

\* ... if and only if the row at position d is.
NewestIs(s, n, j, d, count) == IsTail(s, n, j) <=> d + 1 = count

\* The last row of the last buffer is the newest.
LEMMA TailPosition ==
  ASSUME NEW R, NEW u, NEW s, NEW count, Holds(R, u, s, count), NEW d \in Nat,
         NEW n, NEW j, RowPosition(s, d, n, j)
  PROVE  NewestIs(s, n, j, d, count)
<1>1. /\ s \in Seq(PackedBuffers(R)) /\ Shaped(s, u) /\ RowsIn(s) = count
      /\ n \in 1 .. Len(s) /\ j \in 1 .. Len(s[n].rows) /\ RouteIs(s, d, n, j)
  BY Zenon DEF Holds, RowPosition
<1>2. PICK len \in Nat \ {0} : len = Len(s) /\ len \in 1 .. Len(s)
  <2>1. Len(s) \in Nat \ {0} /\ Len(s) \in 1 .. Len(s)
    BY <1>1
  <2> QED BY Zenon, <2>1
<1>3. PICK cap \in Nat \ {0} : cap = s[1].capacity
  BY Zenon, <1>1, HoldsFacts
<1>4. PICK m \in Nat : m = len - 1
  BY <1>2
<1>5. PICK base \in Nat : base = cap * m /\ Starts(base, cap, m)
  BY StartOf
<1>6. PICK last \in Nat \ {0} : last = Len(s[len].rows) /\ last <= cap
  <2>1. Len(s[len].rows) \in Nat \ {0} /\ Len(s[len].rows) <= s[1].capacity
    BY Zenon, <1>2, HoldsFacts
  <2> QED BY <1>3, <2>1
<1>7. count = base + last
  <2>1. m = Len(s) - 1 /\ s # <<>>
    BY <1>1, <1>2, <1>4
  <2> QED BY Zenon, <1>1, <1>2, <1>3, <1>5, <1>6, <2>1, RowsCounted
<1>8. d \div cap = n - 1 /\ d % cap = j - 1
  BY Zenon, <1>1, <1>3 DEF RouteIs, Route
<1>9. n \in Nat /\ j \in Nat
  <2>1. Len(s[n].rows) \in Nat
    BY Zenon, <1>1, HoldsFacts
  <2> QED BY <1>1, <1>2, <2>1
<1>10. ASSUME n = len, j = last PROVE d + 1 = count
  <2>1. d \div cap = m
    BY Zenon, <1>4, <1>8, <1>10
  <2>2. PICK e : e = d % cap
    OBVIOUS
  <2>3. PositionAt(d, cap, m, e, base)
    BY Zenon, <1>5, <2>1, <2>2, InBuffer
  <2>4. d = base + e
    BY Zenon, <2>3 DEF PositionAt
  <2>5. e = last - 1
    BY Zenon, <1>8, <1>10, <2>2
  <2> QED BY <1>6, <1>7, <2>4, <2>5
<1>11. ASSUME d + 1 = count PROVE n = len /\ j = last
  <2>1. PICK e \in Offsets(cap) : e = last - 1
    <3>1. last - 1 \in 0 .. cap - 1
      BY <1>6
    <3> QED BY Zenon, <3>1 DEF Offsets
  <2>2. d = base + e
    BY <1>6, <1>7, <1>11, <2>1 DEF Offsets
  <2>3. PositionAt(d, cap, m, e, base)
    BY Zenon, <1>5, <2>2, AtOffset
  <2>4. d \div cap = m /\ d % cap = e
    BY Zenon, <2>3 DEF PositionAt
  <2>5. n - 1 = len - 1 /\ j - 1 = last - 1
    BY Zenon, <1>4, <1>8, <2>1, <2>4
  <2> QED BY <1>9, <2>5
<1> QED BY Zenon, <1>2, <1>6, <1>10, <1>11 DEF NewestIs, IsTail

\* t is s with a row added at position count.
RowAdded(s, t, count, row) == RowsKept(s, t, count) /\ RowAt(t, count) = row

\* A row appended to others.
LEMMA OneMore ==
  ASSUME NEW R, NEW rows \in Seq(R), NEW row \in R, NEW more, more = Append(rows, row),
         NEW len, len = Len(rows)
  PROVE  /\ Len(more) = len + 1 /\ more[len + 1] = row
         /\ \A j \in 1 .. len + 1 : j # len + 1 => more[j] = rows[j]
OBVIOUS

\* A row pushed to a last buffer with room.
LEMMA TailAdded ==
  ASSUME NEW R, NEW u \in Nat \ {0}, NEW s \in Seq(PackedBuffers(R)), s # <<>>,
         Shaped(s, u), ~IsFull(Last(s)), NEW count, RowsIn(s) = count, NEW row \in R,
         NEW t, t = [s EXCEPT ![Len(s)] = PushRow(@, row)]
  PROVE  RowAdded(s, t, count, row)
<1>1. PICK n \in Nat \ {0} : n = Len(s) /\ n \in 1 .. Len(s) /\ 1 \in 1 .. Len(s)
  <2>1. Len(s) \in Nat \ {0} /\ Len(s) \in 1 .. Len(s) /\ 1 \in 1 .. Len(s)
    OBVIOUS
  <2> QED BY Zenon, <2>1
<1>2. PICK old, new : old = s[n] /\ new = PushRow(old, row)
  OBVIOUS
<1>3. old \in PackedBuffers(R) /\ old = Last(s)
  BY Zenon, <1>1, <1>2, FrontFacts
<1>4. /\ new \in PackedBuffers(R) /\ new.rows = Append(old.rows, row)
      /\ new.capacity = old.capacity
  BY ZenonT(60), <1>2, <1>3, PushRowFacts
<1>5. t = [s EXCEPT ![n] = new]
  BY Zenon, <1>1, <1>2
<1>6. Len(t) = Len(s) /\ t[n] = new /\ \A k \in 1 .. Len(s) : k # n => t[k] = s[k]
  BY <1>1, <1>4, <1>5
<1>7. PICK m \in Nat : m = count + 1 /\ Holds(R, u, t, m) /\ count \in Nat
  <2>1. RowsIn(s) \in Nat
    BY RowsNat
  <2>2. RowsIn(s) + 1 \in Nat
    BY <2>1
  <2>3. Holds(R, u, t, RowsIn(s) + 1)
    BY Zenon, PushTail
  <2> QED BY Zenon, <2>1, <2>2, <2>3
<1>8. s[1].capacity = t[1].capacity
  BY Zenon, <1>1, <1>2, <1>4, <1>6
<1>9. PICK len \in Nat : len = Len(old.rows)
  BY Zenon, <1>3, PackedBufferFacts
<1>10. /\ Len(new.rows) = len + 1 /\ new.rows[len + 1] = row
       /\ \A j \in 1 .. len + 1 : j # len + 1 => new.rows[j] = old.rows[j]
  <2>1. PICK rs \in Seq(R) : rs = old.rows /\ len = Len(rs)
    BY <1>3, <1>9, PackedBufferFacts
  <2>2. PICK more : more = Append(rs, row)
    BY Zenon
  <2>3. /\ Len(more) = len + 1 /\ more[len + 1] = row
        /\ \A j \in 1 .. len + 1 : j # len + 1 => more[j] = rs[j]
    BY SMTT(30), <2>1, <2>2, OneMore
  <2> QED BY Zenon, <1>4, <2>1, <2>2, <2>3
<1>11. ASSUME NEW d \in Nat, d < count PROVE RowAt(t, d) = RowAt(s, d)
  <2>1. d < m /\ ~(d + 1 = m)
    BY <1>7, <1>11
  <2>2. PICK k, j : RowPosition(t, d, k, j)
    BY Zenon, <1>7, <2>1, RowsPlaced
  <2>3. /\ k \in 1 .. Len(t) /\ j \in 1 .. Len(t[k].rows) /\ RouteIs(t, d, k, j)
        /\ RowAt(t, d) = t[k].rows[j]
    BY Zenon, <2>2 DEF RowPosition
  <2>4. ~(k = Len(t) /\ j = Len(t[k].rows))
    <3>1. NewestIs(t, k, j, d, m)
      BY Zenon, <1>7, <2>2, TailPosition
    <3> QED BY Zenon, <2>1, <3>1 DEF NewestIs, IsTail
  <2>5. RowAt(s, d) = s[k].rows[j]
    <3>1. RowIs(s, d, k, j)
      BY Zenon, <1>8, <2>3, RouteElsewhere
    <3> QED BY Zenon, <3>1 DEF RowIs
  <2>6. t[k].rows[j] = s[k].rows[j]
    <3>1. CASE k = n
      <4>1. j \in 1 .. len + 1 /\ j # len + 1
        BY Zenon, <1>1, <1>6, <1>10, <2>3, <2>4, <3>1
      <4> QED BY ZenonT(60), <1>2, <1>6, <1>10, <3>1, <4>1
    <3>2. CASE k # n
      BY Zenon, <1>6, <2>3, <3>2
    <3> QED BY Zenon, <3>1, <3>2
  <2> QED BY Zenon, <2>3, <2>5, <2>6
<1>12. RowAt(t, count) = row
  <2>1. count < m /\ count + 1 = m
    BY <1>7
  <2>2. PICK k, j : RowPosition(t, count, k, j)
    BY Zenon, <1>7, <2>1, RowsPlaced
  <2>3. RowAt(t, count) = t[k].rows[j]
    BY Zenon, <2>2 DEF RowPosition
  <2>4. k = Len(t) /\ j = Len(t[k].rows)
    <3>1. NewestIs(t, k, j, count, m)
      BY Zenon, <1>7, <2>2, TailPosition
    <3> QED BY Zenon, <2>1, <3>1 DEF NewestIs, IsTail
  <2> QED BY Zenon, <1>1, <1>6, <1>10, <2>3, <2>4
<1> QED BY Zenon, <1>11, <1>12 DEF RowAdded, RowsKept

\* A lone buffer that grows keeps its rows.
LEMMA GrownLone ==
  ASSUME NEW R, NEW b \in PackedBuffers(R), NEW r \in PackedBuffers(R), r.rows = b.rows,
         NEW count, count = Len(b.rows), NEW s, s = <<b>>, NEW t, t = <<r>>
  PROVE  RowsKept(s, t, count)
<1>1. ASSUME NEW c \in PackedBuffers(R), NEW d \in Nat, d < Len(c.rows),
             NEW w, w = <<c>>
      PROVE  RowAt(w, d) = c.rows[d + 1]
  <2>1. PICK cap \in Nat \ {0} : cap = c.capacity /\ d < cap
    <3>1. c.capacity \in Nat /\ Len(c.rows) \in Nat /\ Len(c.rows) <= c.capacity
      BY PackedBufferFacts
    <3>2. c.capacity \in Nat \ {0} /\ d < c.capacity
      BY <1>1, <3>1
    <3> QED BY Zenon, <3>2
  <2>2. d \div cap = 0 /\ d % cap = d
    <3>1. d = cap * 0 + d /\ d \in 0 .. cap - 1 /\ 0 \in Nat
      BY <2>1
    <3> QED BY SMTT(30), <3>1, PositionSplits
  <2>3. w[1] = c
    BY <1>1
  <2>4. PICK route : route = Route(d, w[1].capacity)
    OBVIOUS
  <2>5. route.id = 0 /\ route.offset = d
    BY <2>1, <2>2, <2>3, <2>4 DEF Route
  <2>6. RowAt(w, d) = w[route.id + 1].rows[route.offset + 1]
    BY Zenon, <2>4 DEF RowAt
  <2>7. route.id + 1 = 1
    BY <2>5
  <2> QED BY Zenon, <2>3, <2>5, <2>6, <2>7
<1>2. ASSUME NEW d \in Nat, d < count PROVE RowAt(t, d) = RowAt(s, d)
  <2>1. d < Len(b.rows) /\ d < Len(r.rows)
    BY Zenon, <1>2
  <2>2. RowAt(s, d) = b.rows[d + 1]
    BY <1>1, <2>1
  <2>3. RowAt(t, d) = r.rows[d + 1]
    BY <1>1, <2>1
  <2> QED BY Zenon, <2>2, <2>3
<1> QED BY Zenon, <1>2 DEF RowsKept

\* A new buffer after the others leaves the rows where they are.
LEMMA AppendKeeps ==
  ASSUME NEW R, NEW u, NEW s, NEW count, Holds(R, u, s, count), NEW new, NEW t, t = Append(s, new)
  PROVE  RowsKept(s, t, count)
<1>1. s \in Seq(PackedBuffers(R)) /\ \A k \in 1 .. Len(s) : t[k] = s[k]
  BY DEF Holds
<1>2. ASSUME NEW d \in Nat, d < count PROVE RowAt(t, d) = RowAt(s, d)
  <2>1. PICK n, j : RowPosition(s, d, n, j)
    BY Zenon, <1>2, RowsPlaced
  <2>2. n \in 1 .. Len(s) /\ RouteIs(s, d, n, j) /\ RowAt(s, d) = s[n].rows[j]
    BY Zenon, <2>1 DEF RowPosition
  <2>3. 1 \in 1 .. Len(s)
    BY <1>1, <2>2
  <2>4. t[1].capacity = s[1].capacity /\ t[n] = s[n]
    BY Zenon, <1>1, <2>2, <2>3
  <2>5. RowIs(t, d, n, j)
    BY Zenon, <2>2, <2>4, RouteElsewhere
  <2> QED BY Zenon, <2>2, <2>4, <2>5 DEF RowIs
<1> QED BY Zenon, <1>2 DEF RowsKept

\* EnsureNotFullData leaves the rows where they are.
LEMMA RoomKeeps ==
  ASSUME NEW R, NEW u \in Nat \ {0}, NEW s, NEW count, Holds(R, u, s, count),
         NEW t, t = EnsureNotFullPacked(s, u)
  PROVE  RowsKept(s, t, count)
<1>1. s \in Seq(PackedBuffers(R)) /\ RowsIn(s) = count
  BY DEF Holds
<1>2. CASE s # <<>> => ~IsFull(Last(s))
  <2>1. CASE s = <<>>
    <3>1. \A d \in Nat : ~(d < count)
      <4>1. count = 0
        BY Zenon, <1>1, <2>1, RowsInNone
      <4> QED BY <4>1
    <3> QED BY Zenon, <3>1 DEF RowsKept
  <2>2. CASE s # <<>>
    <3>1. t = s
      BY Zenon, <1>2, <2>2 DEF EnsureNotFullPacked
    <3> QED BY Zenon, <3>1 DEF RowsKept
  <2> QED BY Zenon, <2>1, <2>2
<1>3. CASE s # <<>> /\ IsFull(Last(s))
  <2>1. Len(s) > 1 \/ Len(s) = 1
    <3>1. Len(s) \in Nat \ {0}
      BY <1>1, <1>3
    <3>2. \A n \in Nat \ {0} : n > 1 \/ n = 1
      OBVIOUS
    <3> QED BY Zenon, <3>1, <3>2
  <2>2. CASE Len(s) > 1
    <3>1. t = Append(s, PackedNew(kMaxBufferSize, u))
      BY <1>3, <2>2 DEF EnsureNotFullPacked
    <3> QED BY Zenon, <3>1, AppendKeeps
  <2>3. CASE Len(s) = 1
    <3>1. PICK b : b = s[1]
      OBVIOUS
    <3>2. 1 \in 1 .. Len(s) /\ s = <<b>>
      BY <1>1, <2>3, <3>1
    <3>3. b \in PackedBuffers(R) /\ b.rows # <<>> /\ b.capacity = b.bytes \div u
      <4>1. s[1] \in PackedBuffers(R) /\ s[1].rows # <<>> /\ s[1].capacity = s[1].bytes \div u
        BY SMTT(30), <3>2, HoldsFacts
      <4> QED BY Zenon, <3>1, <4>1
    <3>4. b.bytes <= kMaxBufferSize \/ b.bytes = u
      <4>1. s[1].bytes <= kMaxBufferSize \/ s[1].bytes = u
        BY <3>2, HoldsFacts
      <4> QED BY Zenon, <3>1, <4>1
    <3>5. PICK r : r = PackedReserve(b, GrownBytes(b, u), u)
      OBVIOUS
    <3>6. IsFull(b)
      BY <1>3, <3>2 DEF Last
    <3>7. /\ r \in PackedBuffers(R) /\ r.rows = b.rows /\ r.capacity = r.bytes \div u
          /\ r.bytes <= kMaxBufferSize \/ r.bytes = u
      BY <3>3, <3>4, <3>5, <3>6, GrowPackedBuffer
    <3>8. PICK w : w = <<r>>
      BY Zenon
    <3>9. w \in Seq(PackedBuffers(R)) /\ Shaped(w, u) /\ RowsIn(w) = Len(r.rows)
      BY <3>7, <3>8, OneBuffer
    <3>10. RowsIn(s) = Len(b.rows)
      BY <3>2, <3>3, <3>4, OneBuffer
    <3>11. RowsKept(s, w, count)
      <4>1. count = Len(b.rows)
        BY Zenon, <1>1, <3>10
      <4> QED BY Zenon, <3>2, <3>3, <3>7, <3>8, <4>1, GrownLone
    <3>12. t = IF ~IsFull(Last(w)) THEN w ELSE Append(w, PackedNew(kMaxBufferSize, u))
      <4>1. ~(Len(s) > 1)
        BY <2>3
      <4> QED BY Zenon, <1>3, <3>1, <3>5, <3>8, <4>1 DEF EnsureNotFullPacked
    <3>13. Holds(R, u, w, count)
      <4>1. Packed(w)
        BY <3>3, <3>7, <3>8 DEF Packed
      <4> QED BY Zenon, <1>1, <3>7, <3>9, <3>10, <4>1 DEF Holds
    <3>14. CASE t = w
      BY Zenon, <3>11, <3>14
    <3>15. CASE t = Append(w, PackedNew(kMaxBufferSize, u))
      <4>1. RowsKept(w, t, count)
        BY Zenon, <3>13, <3>15, AppendKeeps
      <4> QED BY Zenon, <3>11, <4>1 DEF RowsKept
    <3> QED BY Zenon, <3>12, <3>14, <3>15
  <2> QED BY Zenon, <2>1, <2>2, <2>3
<1> QED BY Zenon, <1>2, <1>3

\* The data buffers after a push.
LEMMA PushAdds ==
  ASSUME DataUnit <= kMaxBufferSize, NEW s, NEW count, Holds(Row, DataUnit, s, count),
         NEW row \in Row, NEW t, PushedTo(s, t, row)
  PROVE  RowAdded(s, t, count, row)
<1>1. DataUnit \in Nat \ {0}
  BY ConstantsNat
<1>2. PICK room : room = EnsureNotFullPacked(s, DataUnit)
  OBVIOUS
<1>3. ~IsFull(Last(room)) /\ t = [room EXCEPT ![Len(room)] = PushRow(@, row)]
  BY Zenon, <1>2 DEF PushedTo
<1>4. /\ s \in Seq(PackedBuffers(Row)) /\ Shaped(s, DataUnit) /\ Packed(s)
      /\ RowsIn(s) = count
  BY Zenon DEF Holds
<1>5. HasRoom(Row, DataUnit, s, room)
  BY Zenon, <1>1, <1>2, <1>4, EnsurePackedFacts
<1>6. /\ room \in Seq(PackedBuffers(Row)) /\ room # <<>>
      /\ Shaped(room, DataUnit) /\ RowsIn(room) = count
  BY Zenon, <1>3, <1>4, <1>5 DEF HasRoom
<1>7. RowAdded(room, t, count, row)
  BY Zenon, <1>1, <1>3, <1>6, TailAdded
<1>8. RowsKept(s, room, count)
  BY Zenon, <1>1, <1>2, RoomKeeps
<1> QED BY Zenon, <1>7, <1>8 DEF RowAdded, RowsKept

-----------------------------------------------------------------------------
(* Removing and taking entities *)

\* An object between two calls, with count rows.
Stacked(a, cap, count) ==
  Whole(a) /\ Running(a) /\ a.size = count /\ OldestFirst(a.sparse, cap, count)

\* What an object between two calls holds.
LEMMA StackedFacts ==
  ASSUME NEW a, NEW cap, NEW count, Stacked(a, cap, count)
  PROVE  /\ Whole(a) /\ Sound(a) /\ Running(a) /\ a \in ArchType /\ count \in Nat /\ a.size = count
         /\ SlotLists(a.sparse, a.available_sparse, count) /\ RowsHeld(a)
         /\ OldestFirst(a.sparse, cap, count) /\ SlotBuffers(a.sparse, cap) /\ Ends(a.sparse)
         /\ Holds(Row, DataUnit, a.data, count)
<1>1. Whole(a) /\ Running(a) /\ a.size = count /\ OldestFirst(a.sparse, cap, count)
  BY Zenon DEF Stacked
<1>2. /\ Sound(a) /\ a \in ArchType /\ IsInjective(a.available_sparse)
      /\ Listed(a.sparse, a.available_sparse) /\ RowsHeld(a) /\ a.size = LiveSlots(a.sparse)
  BY Zenon, <1>1 DEF Whole, Sound
<1>3. a.sparse \in Seq(SparseBuffers) /\ a.available_sparse \in Seq(Nat)
  BY <1>2 DEF ArchType
<1>4. SlotLists(a.sparse, a.available_sparse, count)
  BY Zenon, <1>1, <1>2, <1>3 DEF SlotLists
<1>5. count \in Nat /\ SlotBuffers(a.sparse, cap) /\ Ends(a.sparse)
  BY Zenon, <1>1 DEF OldestFirst
<1> QED BY Zenon, <1>1, <1>2, <1>4, <1>5 DEF RowsHeld

\* b is a whose n newest indices have been taken from the sparse buffers.
TakenNewest(a, b, cap, list, n, low) ==
  /\ Running(b) /\ b \in ArchType /\ RowsHeld(b) /\ MarkedOnly(b.data, {})
  /\ b.size = low + n /\ b.data = a.data /\ n \in Nat /\ low \in Nat
  /\ b.rv \in [1 .. n -> Nat] /\ InBlock(b.rv, n, low)
  /\ \A k \in 1 .. n : b.rv[k] = SlotOf(a.sparse, cap, list[k])
  /\ OldestFirst(b.sparse, cap, low) /\ AllCleared(a.sparse, b.sparse, cap, list, n)

\* TakeDenseIds.
LEMMA TakeNewest ==
  ASSUME NEW a, NEW cap, NEW count, Stacked(a, cap, count),
         NEW list, NEW n, LiveList(a.sparse, cap, list, n), Newest(a.sparse, cap, list, n),
         NEW b, b = TakeDenseIds(a, list)
  PROVE  \E low : TakenNewest(a, b, cap, list, n, low)
<1>1. /\ Whole(a) /\ Running(a) /\ a \in ArchType /\ count \in Nat /\ a.size = count
      /\ SlotLists(a.sparse, a.available_sparse, count)
      /\ OldestFirst(a.sparse, cap, count) /\ SlotBuffers(a.sparse, cap) /\ Ends(a.sparse)
  BY Zenon, StackedFacts
<1>2. n \in Nat /\ list \in [1 .. n -> Nat] /\ IndexList(list, n)
  BY Zenon DEF LiveList, IndexList
<1>3. TakenBatch(a, b, count - n, n) /\ TakenLives(a, b, cap, list, n)
  <2>1. count \in Int
    BY <1>1
  <2> QED BY Zenon, <1>1, <1>2, <2>1, TakeLives
<1>4. /\ Running(b) /\ \A k \in 1 .. n : b.rv[k] = SlotOf(a.sparse, cap, list[k])
      /\ SlotBuffers(b.sparse, cap) /\ Ends(b.sparse)
      /\ AllCleared(a.sparse, b.sparse, cap, list, n)
  BY Zenon, <1>3 DEF TakenLives
<1>5. /\ b \in ArchType /\ a.size - n \in Nat /\ b.size = a.size /\ RowsHeld(b)
      /\ MarkedOnly(b.data, {}) /\ b.rv \in [1 .. n -> Nat]
  BY Zenon, <1>1, <1>2, <1>4, AfterTaking DEF IndexList
<1>6. b.data = a.data
  BY Zenon, <1>3 DEF TakenBatch, TakenFrom, SameRows
<1>7. PICK low \in Nat : count = low + n
  <2>1. count - n \in Nat /\ count = (count - n) + n
    BY <1>1, <1>2, <1>5
  <2> QED BY Zenon, <2>1
<1>8. PICK ids : ids = b.rv
  OBVIOUS
<1>9. ids \in [1 .. n -> Nat] /\ \A k \in 1 .. n : ids[k] = SlotOf(a.sparse, cap, list[k])
  BY Zenon, <1>4, <1>5, <1>8
<1>10. InBlock(ids, n, low)
  <2>1. PICK s : s = a.sparse
    OBVIOUS
  <2>2. OldestFirst(s, cap, count) /\ LiveList(s, cap, list, n) /\ Newest(s, cap, list, n)
    BY Zenon, <1>1, <2>1
  <2>3. IdsOf(ids, s, cap, list, n)
    BY Zenon, <1>9, <2>1 DEF IdsOf
  <2> QED BY Zenon, <1>7, <2>2, <2>3, NewestAreLast
<1>11. OldestFirst(b.sparse, cap, low)
  BY Zenon, <1>1, <1>4, <1>7, <1>9, <1>10, OldestLeft
<1>12. TakenNewest(a, b, cap, list, n, low)
  BY Zenon, <1>1, <1>2, <1>4, <1>5, <1>6, <1>7, <1>8, <1>9, <1>10, <1>11 DEF TakenNewest
<1> QED BY Zenon, <1>12

\* b is a without the indices of the list and their rows; low rows are left.
Reduced(a, b, cap, list, n, low) ==
  /\ Running(b) /\ OldestFirst(b.sparse, cap, low) /\ b.size = low
  /\ AllCleared(a.sparse, b.sparse, cap, list, n) /\ RowsKept(a.data, b.data, low)

\* All rows are in place, whichever may have been moved out.
LEMMA AllRemain ==
  ASSUME NEW a \in ArchType, Running(a), RowsHeld(a), NEW count, a.size = count,
         MarkedOnly(a.data, Offsets(count))
  PROVE  LeftRows(a, a, count, Offsets(count)) /\ Remaining(a, a, count)
<1>1. ~PushFails(a)
  BY Zenon, RunningIsFine
<1>2. LeftRows(a, a, count, Offsets(count))
  BY Zenon, <1>1 DEF LeftRows
<1> QED BY Zenon, <1>2 DEF Remaining, RowsKept

\* The object with no returned value.
LEMMA NoValue ==
  ASSUME NEW a \in ArchType, NEW b, b = [a EXCEPT !.rv = <<>>]
  PROVE  OnlyValue(a, b) /\ b.rv = <<>>
<1>1. PICK none : none = <<>>
  OBVIOUS
<1>2. none \in Seq(Nat \cup Row)
  BY <1>1
<1>3. b = [a EXCEPT !.rv = none]
  BY Zenon, <1>1
<1>4. OnlyValue(a, b)
  BY Zenon, <1>2, <1>3, OtherValue
<1>5. b.rv = none
  BY <1>3 DEF ArchType
<1> QED BY Zenon, <1>1, <1>4, <1>5

\* c is the taken object b with the dense ids set aside, and all rows of a.
AsideOf(a, b, c, count) ==
  /\ c \in ArchType /\ Running(c) /\ c.rv = <<>> /\ c.sparse = b.sparse /\ c.data = a.data
  /\ LeftRows(c, c, count, Offsets(count)) /\ Remaining(c, c, count)

\* The dense ids set aside, no row has been moved out yet.
LEMMA SetAside ==
  ASSUME NEW a, NEW b, NEW cap, NEW list, NEW n, NEW low, TakenNewest(a, b, cap, list, n, low),
         NEW count, count = low + n, NEW c, c = [b EXCEPT !.rv = <<>>]
  PROVE  AsideOf(a, b, c, count)
<1>1. /\ Running(b) /\ b \in ArchType /\ RowsHeld(b) /\ MarkedOnly(b.data, {})
      /\ b.size = low + n /\ b.data = a.data
  BY Zenon DEF TakenNewest
<1>2. OnlyValue(b, c) /\ c.rv = <<>>
  BY Zenon, <1>1, NoValue
<1>3. /\ c \in ArchType /\ c.sparse = b.sparse /\ c.dense = b.dense /\ c.data = b.data
      /\ c.size = b.size /\ c.dcheck = b.dcheck
  BY Zenon, <1>2 DEF OnlyValue
<1>4. Running(c) /\ RowsHeld(c) /\ c.size = count
  BY Zenon, <1>1, <1>3 DEF Running, RowsHeld
<1>5. MarkedOnly(c.data, Offsets(count))
  BY <1>1, <1>3 DEF MarkedOnly
<1>6. LeftRows(c, c, count, Offsets(count)) /\ Remaining(c, c, count)
  BY Zenon, <1>3, <1>4, <1>5, AllRemain
<1> QED BY Zenon, <1>1, <1>2, <1>3, <1>4, <1>6 DEF AsideOf

\* RemoveMany of the newest entities.
LEMMA RemoveLives ==
  ASSUME NEW a, NEW cap, NEW count, Stacked(a, cap, count),
         NEW list, NEW n, LiveList(a.sparse, cap, list, n), Newest(a.sparse, cap, list, n),
         NEW b, b = RemoveIndices(a, list)
  PROVE  b.rv = <<>> /\ \E low : Reduced(a, b, cap, list, n, low)
<1>1. PICK taken : taken = TakeDenseIds(a, list)
  OBVIOUS
<1>2. PICK low : TakenNewest(a, taken, cap, list, n, low)
  BY Zenon, <1>1, TakeNewest
<1>3. /\ Running(taken) /\ n \in Nat /\ low \in Nat
      /\ InBlock(taken.rv, n, low) /\ OldestFirst(taken.sparse, cap, low)
      /\ AllCleared(a.sparse, taken.sparse, cap, list, n)
  BY Zenon, <1>2 DEF TakenNewest
<1>4. PICK start : start = [taken EXCEPT !.rv = <<>>]
  BY Zenon
<1>5. PICK ids : ids = taken.rv
  OBVIOUS
<1>6. b = RemoveManyDenseDataBuffer(start, ids)
  BY Zenon, <1>1, <1>3, <1>4, <1>5 DEF RemoveIndices
<1>7. PICK total \in Nat : total = low + n
  BY <1>3
<1>8. start.rv = <<>> /\ start.sparse = taken.sparse /\ start.data = a.data
      /\ Remaining(start, start, total)
  <2>1. AsideOf(a, taken, start, total)
    BY Zenon, <1>2, <1>4, <1>7, SetAside
  <2> QED BY Zenon, <2>1 DEF AsideOf
<1>9. Remaining(start, b, low)
  BY Zenon, <1>3, <1>5, <1>6, <1>7, <1>8, RemoveNewestRows
<1>10. /\ Running(b) /\ b.rv = start.rv /\ b.sparse = start.sparse /\ b.size = low
       /\ RowsKept(start.data, b.data, low)
  BY Zenon, <1>9 DEF Remaining, LeftRows
<1>11. Reduced(a, b, cap, list, n, low)
  BY Zenon, <1>3, <1>8, <1>10 DEF Reduced
<1> QED BY Zenon, <1>8, <1>10, <1>11

\* No buffer of size zero is allocated for the rows taken, but where they fill
\* two or more buffers exactly.
LEMMA BytesPositive ==
  ASSUME NEW n \in Nat \ {0}, ~FillsExactly(n)
  PROVE  \A bytes \in ToSet(TargetBytes(n)) : bytes > 0
<1>1. PICK u \in Nat \ {0} : u = TargetUnit
  BY ConstantsNat
<1>2. PICK max \in Nat : max = kMaxBufferSize
  BY ConstantsNat
<1>3. PICK cap \in Nat : cap = max \div u
  BY DivNat
<1>4. n \in Nat \ {0}
  OBVIOUS
<1>5. PICK seq : seq = TargetBytes(n)
  OBVIOUS
<1>6. \A x, y \in Nat \ {0} : x * y \in Nat \ {0}
  OBVIOUS
<1>7. CASE cap = 0
  <2>1. seq = [k \in 1 .. n |-> u]
    BY Zenon, <1>1, <1>2, <1>3, <1>5, <1>7 DEF TargetBytes
  <2>2. \A k \in DOMAIN seq : seq[k] > 0
    BY <2>1
  <2> QED BY <1>5, <2>2 DEF ToSet
<1>8. CASE cap # 0 /\ ~(cap < n)
  <2>1. seq = <<u * n>>
    BY Zenon, <1>1, <1>2, <1>3, <1>5, <1>8 DEF TargetBytes
  <2>2. PICK bytes \in Nat \ {0} : bytes = u * n
    BY <1>4, <1>6
  <2>3. ToSet(seq) = {bytes}
    BY Zenon, <2>1, <2>2, OneElement
  <2> QED BY <1>5, <2>2, <2>3
<1>9. CASE cap # 0 /\ cap < n
  <2>1. PICK full : full = n \div cap
    OBVIOUS
  <2>2. seq = [k \in 1 .. full |-> max] \o <<u * (n - full * cap)>>
    BY Zenon, <1>1, <1>2, <1>3, <1>5, <1>9, <2>1 DEF TargetBytes
  <2>3. n % cap # 0
    <3>1. cap > 0 /\ n > cap
      BY <1>9
    <3> QED BY Zenon, <1>1, <1>2, <1>3, <3>1 DEF FillsExactly
  <2>4. full \in Nat /\ n - full * cap \in Nat \ {0}
    <3>1. cap \in Nat \ {0}
      BY <1>9
    <3>2. /\ full \in Nat /\ n % cap \in 0 .. cap - 1
          /\ n = cap * full + (n % cap)
      BY <1>4, <2>1, <3>1, PositionOf
    <3>3. cap * full = full * cap /\ full * cap \in Nat
      BY <3>1, <3>2
    <3> QED BY <1>4, <2>3, <3>1, <3>2, <3>3
  <2>5. PICK bytes \in Nat \ {0} : bytes = u * (n - full * cap)
    BY <1>6, <2>4
  <2>6. max > 0
    <3>1. max = 0 => max \div u = 0
      BY <1>1
    <3> QED BY <1>2, <1>3, <1>9, <3>1
  <2>7. seq = [k \in 1 .. full |-> max] \o <<bytes>>
    BY Zenon, <2>2, <2>5
  <2>8. \A k \in DOMAIN seq : seq[k] > 0
    BY <2>4, <2>5, <2>6, <2>7
  <2> QED BY <1>5, <2>8 DEF ToSet
<1> QED BY Zenon, <1>7, <1>8, <1>9

\* The returned value is the rows of the n indices of the list, in order.
RowsReturned(a, b, cap, list, n) ==
  /\ b.rv \in Seq(Row) /\ Len(b.rv) = n
  /\ \A k \in 1 .. n : b.rv[k] = RowAt(a.data, SlotOf(a.sparse, cap, list[k]))

\* TakeMany of the newest entities, where all its buffers have some bytes.
LEMMA TakeLivesOut ==
  ASSUME NEW a, NEW cap, NEW count, Stacked(a, cap, count),
         NEW n, NEW list, LiveList(a.sparse, cap, list, n), Newest(a.sparse, cap, list, n),
         \A bytes \in ToSet(TargetBytes(n)) : bytes > 0,
         NEW b, b = TakeEntities(a, list)
  PROVE  RowsReturned(a, b, cap, list, n) /\ \E low : Reduced(a, b, cap, list, n, low)
<1>1. PICK taken : taken = TakeDenseIds(a, list)
  OBVIOUS
<1>2. PICK low : TakenNewest(a, taken, cap, list, n, low)
  BY Zenon, <1>1, TakeNewest
<1>3. /\ Running(taken) /\ n \in Nat /\ low \in Nat /\ taken.rv \in [1 .. n -> Nat]
      /\ InBlock(taken.rv, n, low) /\ OldestFirst(taken.sparse, cap, low)
      /\ AllCleared(a.sparse, taken.sparse, cap, list, n)
      /\ \A k \in 1 .. n : taken.rv[k] = SlotOf(a.sparse, cap, list[k])
  BY Zenon, <1>2 DEF TakenNewest
<1>4. PICK start : start = [taken EXCEPT !.rv = <<>>]
  BY Zenon
<1>5. PICK ids : ids = taken.rv
  OBVIOUS
<1>6. PICK total \in Nat : total = low + n
  BY <1>3
<1>7. /\ start \in ArchType /\ Running(start) /\ start.rv = <<>> /\ start.sparse = taken.sparse
      /\ start.data = a.data /\ LeftRows(start, start, total, Offsets(total))
  <2>1. AsideOf(a, taken, start, total)
    BY Zenon, <1>2, <1>4, <1>6, SetAside
  <2> QED BY Zenon, <2>1 DEF AsideOf
<1>8. Len(list) = n /\ ids \in [1 .. n -> Nat]
  <2>1. list \in [1 .. n -> Nat]
    BY Zenon DEF LiveList
  <2> QED BY <1>3, <1>5, <2>1
<1>9. PICK fitting : fitting = SubSeq(taken.rv, 1, TargetRoom(Len(list)))
  BY Zenon
<1>10. fitting = ids
  <2>1. TargetRoom(n) = n
    BY <1>3, TargetRoomExact
  <2>2. fitting = SubSeq(ids, 1, n)
    BY Zenon, <1>5, <1>8, <1>9, <2>1
  <2>3. SubSeq(ids, 1, n) = ids
    BY <1>3, <1>8
  <2> QED BY Zenon, <2>2, <2>3
<1>11. PICK moved : moved = MoveRows(start, ids)
  OBVIOUS
<1>12. MovedOut(start, moved, total, ids, n)
  <2>1. /\ \A i, j \in 1 .. n : ids[i] = ids[j] => i = j
        /\ \A j \in 1 .. n : ids[j] < total
    BY Zenon, <1>3, <1>5, <1>6 DEF InBlock
  <2>2. MovedOut(start, start, total, ids, 0)
    <3>1. <<>> \in Seq(Row) /\ Len(<<>>) = 0 /\ \A j \in 1 .. 0 : FALSE
      OBVIOUS
    <3> QED BY Zenon, <1>7, <3>1 DEF MovedOut
  <2> QED BY Zenon, <1>3, <1>8, <1>11, <2>1, <2>2, MoveRowsOut
<1>13. /\ LeftRows(start, moved, total, Offsets(total)) /\ Running(moved)
       /\ moved.rv \in Seq(Row) /\ Len(moved.rv) = n
       /\ \A j \in 1 .. n : moved.rv[j] = RowAt(start.data, ids[j])
       /\ \A d \in Nat : d < total /\ ~Among(ids, n, d) =>
            RowAt(moved.data, d) = RowAt(start.data, d)
  BY Zenon, <1>12 DEF MovedOut
<1>14. b = RemoveManyDenseDataBuffer(moved, ids)
  <2>1. PICK allocated : allocated = \A bytes \in ToSet(TargetBytes(Len(list))) : bytes > 0
    BY Zenon
  <2>2. allocated
    BY Zenon, <1>8, <2>1
  <2>3. PICK out : out = Dcheck(taken, allocated, "AlignedBuffer", MoveRows(start, fitting))
    OBVIOUS
  <2>4. out = moved
    BY Zenon, <1>3, <1>10, <1>11, <2>2, <2>3 DEF Dcheck
  <2>5. b = IF ~Running(out) THEN out ELSE RemoveManyDenseDataBuffer(out, taken.rv)
    BY Zenon, <1>1, <1>4, <1>9, <2>1, <2>3 DEF TakeEntities
  <2> QED BY Zenon, <1>5, <1>13, <2>4, <2>5
<1>15. Remaining(moved, moved, total)
  <2>1. /\ moved \in ArchType /\ moved.size = total /\ RowsHeld(moved)
        /\ MarkedOnly(moved.data, Offsets(total))
    BY Zenon, <1>13 DEF LeftRows
  <2> QED BY Zenon, <1>13, <2>1, AllRemain
<1>16. Remaining(moved, b, low)
  BY Zenon, <1>3, <1>5, <1>6, <1>14, <1>15, RemoveNewestRows
<1>17. /\ Running(b) /\ b.rv = moved.rv /\ b.sparse = start.sparse /\ b.size = low
       /\ RowsKept(moved.data, b.data, low)
  <2>1. /\ Running(b) /\ b.rv = moved.rv /\ b.sparse = moved.sparse /\ b.size = low
        /\ RowsKept(moved.data, b.data, low)
    BY Zenon, <1>16 DEF Remaining, LeftRows
  <2>2. moved.sparse = start.sparse
    BY Zenon, <1>13 DEF LeftRows
  <2> QED BY Zenon, <2>1, <2>2
<1>18. ASSUME NEW d \in Nat, d < low PROVE RowAt(b.data, d) = RowAt(a.data, d)
  <2>1. d < total /\ ~Among(ids, n, d)
    <3>1. d < total /\ \A e \in Nat : low <= e => e # d
      BY <1>3, <1>6, <1>18
    <3>2. \A k \in 1 .. n : ids[k] \in Nat /\ low <= ids[k]
      BY <1>3, <1>5 DEF InBlock
    <3> QED BY Zenon, <3>1, <3>2 DEF Among
  <2>2. RowAt(moved.data, d) = RowAt(start.data, d)
    BY Zenon, <1>13, <2>1
  <2>3. RowAt(b.data, d) = RowAt(moved.data, d)
    BY Zenon, <1>17, <1>18 DEF RowsKept
  <2> QED BY Zenon, <1>7, <2>2, <2>3
<1>19. RowsReturned(a, b, cap, list, n)
  BY Zenon, <1>3, <1>5, <1>7, <1>13, <1>17 DEF RowsReturned
<1>20. Reduced(a, b, cap, list, n, low)
  BY Zenon, <1>3, <1>7, <1>17, <1>18 DEF Reduced, RowsKept
<1> QED BY Zenon, <1>19, <1>20

\* TakeMany of the newest entities, where one of its buffers has none.
LEMMA TakeStops ==
  ASSUME NEW a, NEW cap, NEW count, Stacked(a, cap, count),
         NEW n, NEW list, LiveList(a.sparse, cap, list, n), Newest(a.sparse, cap, list, n),
         ~ \A bytes \in ToSet(TargetBytes(n)) : bytes > 0,
         NEW b, b = TakeEntities(a, list)
  PROVE  b.dcheck = "AlignedBuffer" /\ ~Running(b)
<1>1. PICK taken : taken = TakeDenseIds(a, list)
  OBVIOUS
<1>2. PICK low : TakenNewest(a, taken, cap, list, n, low)
  BY Zenon, <1>1, TakeNewest
<1>3. Running(taken) /\ taken \in ArchType /\ n \in Nat
  BY Zenon, <1>2 DEF TakenNewest
<1>4. Len(list) = n
  <2>1. list \in [1 .. n -> Nat]
    BY Zenon DEF LiveList
  <2> QED BY <1>3, <2>1
<1>5. PICK start, fitting : /\ start = [taken EXCEPT !.rv = <<>>]
                            /\ fitting = SubSeq(taken.rv, 1, TargetRoom(Len(list)))
  BY Zenon
<1>6. PICK allocated : allocated = \A bytes \in ToSet(TargetBytes(Len(list))) : bytes > 0
  BY Zenon
<1>7. PICK out : out = Dcheck(taken, allocated, "AlignedBuffer", MoveRows(start, fitting))
  OBVIOUS
<1>8. b = IF ~Running(out) THEN out ELSE RemoveManyDenseDataBuffer(out, taken.rv)
  BY Zenon, <1>1, <1>5, <1>6, <1>7 DEF TakeEntities
<1>9. ~allocated
  BY Zenon, <1>4, <1>6
<1>10. out = [taken EXCEPT !.dcheck = "AlignedBuffer"]
  BY Zenon, <1>3, <1>7, <1>9 DEF Dcheck
<1>11. out.dcheck = "AlignedBuffer"
  BY <1>3, <1>10 DEF ArchType
<1>12. ~Running(out)
  BY <1>11 DEF Running
<1> QED BY Zenon, <1>8, <1>11, <1>12

-----------------------------------------------------------------------------
(* The caller's handles *)

\* f names the entity of each live index and of no other.
Names(f, a, cap) ==
  /\ \A i \in DOMAIN f : i \in Nat /\ f[i] = RowAt(a.data, SlotOf(a.sparse, cap, i))
  /\ \A i \in Nat : (i \in DOMAIN f) = IsLive(a.sparse, cap, i)

\* An object between two calls, and its caller's handles.
TrackedAt(a, f, cap, count) == Stacked(a, cap, count) /\ Names(f, a, cap)

Tracked(a, f) == \E cap, count : TrackedAt(a, f, cap, count)

\* The value returned by the last call does not matter.
LEMMA SameTracked ==
  ASSUME NEW a, NEW f, NEW cap, NEW count, TrackedAt(a, f, cap, count),
         NEW b, OnlyValue(a, b)
  PROVE  TrackedAt(b, f, cap, count)
<1>1. /\ Whole(a) /\ Running(a) /\ a.size = count /\ OldestFirst(a.sparse, cap, count)
      /\ Names(f, a, cap)
  BY Zenon DEF TrackedAt, Stacked
<1>2. /\ b \in ArchType /\ b.sparse = a.sparse /\ b.available_sparse = a.available_sparse
      /\ b.dense = a.dense /\ b.data = a.data /\ b.size = a.size /\ b.dcheck = a.dcheck
  BY Zenon DEF OnlyValue
<1>3. Whole(b) /\ Running(b)
  BY Zenon, <1>1, <1>2 DEF Whole, Sound, RowsHeld, Running, PushFails
<1>4. OldestFirst(b.sparse, cap, count) /\ b.size = count
  BY Zenon, <1>1, <1>2
<1>5. Names(f, b, cap)
  BY Zenon, <1>1, <1>2 DEF Names
<1> QED BY Zenon, <1>3, <1>4, <1>5 DEF TrackedAt, Stacked

\* The dense id of a live index is that of a row.
RowOf(s, cap, i, count, d) == d \in Nat /\ d = SlotOf(s, cap, i) /\ d < count

\* Every live index has a row.
LEMMA LiveRow ==
  ASSUME NEW s, NEW cap, NEW count, OldestFirst(s, cap, count), NEW i \in Nat, IsLive(s, cap, i)
  PROVE  \E d : RowOf(s, cap, i, count, d)
<1>1. SlotBuffers(s, cap) /\ SlotOf(s, cap, i) < count
  BY Zenon DEF OldestFirst
<1>2. PICK m, j : m = i \div cap /\ j = i % cap
  OBVIOUS
<1>3. LiveAt(s, cap, i, m, j)
  BY Zenon, <1>1, <1>2, LiveSlotFacts
<1>4. SlotOf(s, cap, i) \in Nat
  BY Zenon, <1>3 DEF LiveAt
<1> QED BY Zenon, <1>1, <1>4 DEF RowOf

\* b returns an index that f does not name.
NewIndex(b, f, i) == i \in Nat /\ b.rv = <<i>> /\ i \notin DOMAIN f

\* f, and the entity of that index.
WithNew(f, i, entity) == [j \in DOMAIN f \cup {i} |-> IF j = i THEN entity ELSE f[j]]

\* Push.
LEMMA PushTracked ==
  ASSUME UnitsFit, NEW a, NEW f, NEW cap, NEW count, TrackedAt(a, f, cap, count),
         NEW entity \in Entity, NEW b, b = PushEntity(a, entity)
  PROVE  \E i : NewIndex(b, f, i) /\ Tracked(b, WithNew(f, i, entity))
<1>1. Stacked(a, cap, count) /\ Names(f, a, cap)
  BY Zenon DEF TrackedAt
<1>2. /\ Whole(a) /\ Sound(a) /\ Running(a) /\ count \in Nat /\ a.size = count
      /\ OldestFirst(a.sparse, cap, count) /\ Holds(Row, DataUnit, a.data, count)
  <2>1. /\ Whole(a) /\ Sound(a) /\ Running(a) /\ count \in Nat /\ a.size = count
        /\ OldestFirst(a.sparse, cap, count) /\ RowsHeld(a)
    BY Zenon, <1>1, StackedFacts
  <2> QED BY Zenon, <2>1 DEF RowsHeld
<1>3. PICK m \in Nat : m = count + 1
  BY <1>2
<1>4. PICK to, i : PushedLive(a, b, cap, to, count, m, i)
  BY Zenon, <1>2, <1>3, PushLives
<1>5. /\ Running(b) /\ b.rv = <<i>> /\ i \in Nat
      /\ OldestFirst(b.sparse, to, m) /\ ~IsLive(a.sparse, cap, i)
      /\ \A j \in Nat : SlotOf(b.sparse, to, j) = IF j = i THEN count ELSE SlotOf(a.sparse, cap, j)
  BY Zenon, <1>4 DEF PushedLive
<1>6. Whole(b)
  BY Zenon, <1>2, PushEntityFacts
<1>7. b.size = m /\ PushedTo(a.data, b.data, entity)
  BY <1>2, <1>3, <1>5, PushKeeps
<1>8. RowAdded(a.data, b.data, count, entity)
  <2>1. PICK s, t : s = a.data /\ t = b.data
    OBVIOUS
  <2>2. DataUnit <= kMaxBufferSize
    BY DEF UnitsFit
  <2>3. entity \in Row
    BY DEF Row
  <2>4. Holds(Row, DataUnit, s, count) /\ PushedTo(s, t, entity)
    BY Zenon, <1>2, <1>7, <2>1
  <2> QED BY Zenon, <2>1, <2>2, <2>3, <2>4, PushAdds
<1>9. /\ RowAt(b.data, count) = entity
      /\ \A d \in Nat : d < count => RowAt(b.data, d) = RowAt(a.data, d)
  BY Zenon, <1>8 DEF RowAdded, RowsKept
<1>10. Stacked(b, to, m)
  BY Zenon, <1>5, <1>6, <1>7 DEF Stacked
<1>11. i \notin DOMAIN f
  BY Zenon, <1>1, <1>5 DEF Names
<1>12. PICK g : g = WithNew(f, i, entity)
  OBVIOUS
<1>13. /\ DOMAIN g = DOMAIN f \cup {i}
       /\ \A j \in DOMAIN g : g[j] = IF j = i THEN entity ELSE f[j]
  BY <1>12 DEF WithNew
<1>14. ASSUME NEW j \in DOMAIN g
       PROVE  j \in Nat /\ g[j] = RowAt(b.data, SlotOf(b.sparse, to, j))
  <2>1. CASE j = i
    BY Zenon, <1>5, <1>9, <1>13, <1>14, <2>1
  <2>2. CASE j # i
    <3>1. j \in DOMAIN f /\ j \in Nat
      BY Zenon, <1>1, <1>13, <1>14, <2>2 DEF Names
    <3>2. SlotOf(b.sparse, to, j) = SlotOf(a.sparse, cap, j)
      BY Zenon, <1>5, <2>2, <3>1
    <3>3. IsLive(a.sparse, cap, j)
      BY Zenon, <1>1, <3>1 DEF Names
    <3>4. PICK d \in Nat : d = SlotOf(a.sparse, cap, j) /\ d < count
      <4>1. PICK d : RowOf(a.sparse, cap, j, count, d)
        BY Zenon, <1>2, <3>1, <3>3, LiveRow
      <4> QED BY Zenon, <4>1 DEF RowOf
    <3>5. g[j] = f[j] /\ f[j] = RowAt(a.data, d)
      BY Zenon, <1>1, <1>13, <1>14, <2>2, <3>1, <3>4 DEF Names
    <3> QED BY Zenon, <1>9, <3>1, <3>2, <3>4, <3>5
  <2> QED BY <2>1, <2>2
<1>15. ASSUME NEW j \in Nat PROVE (j \in DOMAIN g) = IsLive(b.sparse, to, j)
  <2>1. CASE j = i
    <3>1. count # kInvalidDenseId
      BY <1>2 DEF kInvalidDenseId
    <3>2. IsLive(b.sparse, to, j)
      BY Zenon, <1>5, <2>1, <3>1 DEF IsLive
    <3>3. j \in DOMAIN g
      BY Zenon, <1>13, <2>1
    <3> QED BY Zenon, <3>2, <3>3
  <2>2. CASE j # i
    <3>1. (j \in DOMAIN g) = (j \in DOMAIN f)
      BY <1>13, <2>2
    <3>2. IsLive(b.sparse, to, j) = IsLive(a.sparse, cap, j)
      BY Zenon, <1>5, <2>2 DEF IsLive
    <3> QED BY Zenon, <1>1, <3>1, <3>2 DEF Names
  <2> QED BY <2>1, <2>2
<1>16. Names(g, b, to)
  BY Zenon, <1>14, <1>15 DEF Names
<1>17. Tracked(b, g)
  BY Zenon, <1>10, <1>16 DEF Tracked, TrackedAt
<1>18. NewIndex(b, f, i)
  BY Zenon, <1>5, <1>11 DEF NewIndex
<1> QED BY Zenon, <1>12, <1>17, <1>18

\* b is a, and returns that entity.
Found(a, b, entity) == OnlyValue(a, b) /\ b.rv = <<entity>>

\* Each handle finds its entity, and no check fails.
LEMMA LookupFinds ==
  ASSUME NEW a, NEW f, NEW cap, NEW count, TrackedAt(a, f, cap, count),
         NEW i \in DOMAIN f, NEW entity, entity = f[i], NEW b, b = LookupEntity(a, i)
  PROVE  Found(a, b, entity)
<1>1. Stacked(a, cap, count) /\ Names(f, a, cap)
  BY Zenon DEF TrackedAt
<1>2. /\ a \in ArchType /\ Running(a) /\ OldestFirst(a.sparse, cap, count)
      /\ SlotBuffers(a.sparse, cap) /\ Ends(a.sparse) /\ RowsHeld(a) /\ a.size = count
  BY Zenon, <1>1, StackedFacts
<1>3. i \in Nat /\ entity = RowAt(a.data, SlotOf(a.sparse, cap, i)) /\ IsLive(a.sparse, cap, i)
  BY Zenon, <1>1 DEF Names
<1>4. PICK d : RowOf(a.sparse, cap, i, count, d)
  BY Zenon, <1>2, <1>3, LiveRow
<1>5. d \in Nat /\ d = SlotOf(a.sparse, cap, i) /\ d < count
  BY Zenon, <1>4 DEF RowOf
<1>6. SparseRouteValid(a, i) /\ SlotAt(a, i) = d
  <2>1. SparseRouteValid(a, i) /\ SlotAt(a, i) = SlotOf(a.sparse, cap, i)
    BY <1>2, <1>3, LiveRoute
  <2> QED BY Zenon, <1>5, <2>1
<1>7. PICK s : s = a.data
  OBVIOUS
<1>8. Holds(Row, DataUnit, s, count)
  BY Zenon, <1>2, <1>7 DEF RowsHeld
<1>9. PackedRouteValid(s, d) /\ \E n, j : RowPosition(s, d, n, j)
  BY Zenon, <1>5, <1>8, RowsPlaced
<1>10. entity \in Row
  <2>1. PICK n, j : RowPosition(s, d, n, j)
    BY Zenon, <1>9
  <2>2. /\ n \in 1 .. Len(s) /\ j \in 1 .. Len(s[n].rows)
        /\ RowAt(s, d) = s[n].rows[j]
    BY Zenon, <2>1 DEF RowPosition
  <2>3. s \in Seq(PackedBuffers(Row))
    BY Zenon, <1>8 DEF Holds
  <2>4. PICK buffer \in PackedBuffers(Row) : buffer = s[n]
    BY <2>2, <2>3
  <2>5. buffer.rows \in Seq(Row)
    BY Zenon, <2>4, PackedBufferFacts
  <2>6. buffer.rows[j] \in Row
    BY <2>2, <2>4, <2>5
  <2> QED BY Zenon, <1>3, <1>5, <1>7, <2>2, <2>4, <2>6
<1>11. b = [a EXCEPT !.rv = <<entity>>]
  <2>1. b = Dcheck(a, SparseRouteValid(a, i), "GetSparseRoute",
            Dcheck(a, SlotAt(a, i) # kInvalidDenseId, "operator[]",
            Dcheck(a, PackedRouteValid(a.data, SlotAt(a, i)), "GetDataRoute",
              [a EXCEPT !.rv = <<RowAt(a.data, SlotAt(a, i))>>])))
    BY Zenon DEF LookupEntity
  <2>2. SlotAt(a, i) # kInvalidDenseId
    BY Zenon, <1>3, <1>5, <1>6 DEF IsLive
  <2>3. PackedRouteValid(a.data, SlotAt(a, i))
    BY Zenon, <1>6, <1>7, <1>9
  <2>4. RowAt(a.data, SlotAt(a, i)) = entity
    BY Zenon, <1>3, <1>5, <1>6
  <2>5. PICK left : left = [a EXCEPT !.rv = <<RowAt(a.data, SlotAt(a, i))>>]
    BY Zenon
  <2>6. b = left
    BY Zenon, <1>2, <1>6, <2>1, <2>2, <2>3, <2>5 DEF Dcheck
  <2> QED BY Zenon, <2>4, <2>5, <2>6
<1>12. PICK rv : rv = <<entity>>
  BY Zenon
<1>13. rv \in Seq(Nat \cup Row)
  BY <1>10, <1>12
<1>14. OnlyValue(a, b)
  <2>1. b = [a EXCEPT !.rv = rv]
    BY Zenon, <1>11, <1>12
  <2> QED BY Zenon, <1>2, <1>13, <2>1, OtherValue
<1>15. b.rv = <<entity>>
  BY <1>2, <1>11 DEF ArchType
<1> QED BY Zenon, <1>14, <1>15 DEF Found

\* The handles without those of a list.
WithoutList(f, list) == [i \in DOMAIN f \ ToSet(list) |-> f[i]]

\* RemoveMany and TakeMany.
LEMMA ReducedTracked ==
  ASSUME NEW a, NEW f, NEW cap, NEW count, TrackedAt(a, f, cap, count),
         NEW list, NEW n, LiveList(a.sparse, cap, list, n),
         NEW b, NEW low, Reduced(a, b, cap, list, n, low), Whole(b)
  PROVE  Tracked(b, WithoutList(f, list))
<1>1. Names(f, a, cap)
  BY Zenon DEF TrackedAt
<1>2. /\ Running(b) /\ OldestFirst(b.sparse, cap, low) /\ b.size = low
      /\ AllCleared(a.sparse, b.sparse, cap, list, n) /\ RowsKept(a.data, b.data, low)
  BY Zenon DEF Reduced
<1>3. n \in Nat /\ list \in [1 .. n -> Nat]
  BY Zenon DEF LiveList
<1>4. \A i \in Nat : /\ i \in ToSet(list) => Among(list, n, i)
                     /\ Among(list, n, i) => i \in ToSet(list)
  <2>1. DOMAIN list = 1 .. n
    BY <1>3
  <2>2. \A i \in ToSet(list) : Among(list, n, i)
    BY <2>1 DEF ToSet, Among
  <2>3. ASSUME NEW i, Among(list, n, i) PROVE i \in ToSet(list)
    <3>1. PICK j \in 1 .. n : list[j] = i
      BY <2>3 DEF Among
    <3> QED BY <2>1, <3>1 DEF ToSet
  <2> QED BY Zenon, <2>2, <2>3
<1>5. PICK g : g = WithoutList(f, list)
  OBVIOUS
<1>6. DOMAIN g = DOMAIN f \ ToSet(list) /\ \A i \in DOMAIN g : g[i] = f[i]
  BY <1>5 DEF WithoutList
<1>7. ASSUME NEW i \in Nat PROVE (i \in DOMAIN g) = IsLive(b.sparse, cap, i)
  <2>1. (i \in DOMAIN f) = IsLive(a.sparse, cap, i)
    BY Zenon, <1>1 DEF Names
  <2>2. SlotOf(b.sparse, cap, i) = IF Among(list, n, i) THEN kInvalidDenseId
                                   ELSE SlotOf(a.sparse, cap, i)
    BY Zenon, <1>2 DEF AllCleared
  <2>3. IsLive(b.sparse, cap, i) = (~Among(list, n, i) /\ IsLive(a.sparse, cap, i))
    BY Zenon, <2>2 DEF IsLive
  <2>4. (i \in DOMAIN g) = (i \in DOMAIN f /\ i \notin ToSet(list))
    BY <1>6
  <2>5. (i \in ToSet(list) => Among(list, n, i)) /\ (Among(list, n, i) => i \in ToSet(list))
    BY Zenon, <1>4
  <2> QED BY Zenon, <2>1, <2>3, <2>4, <2>5
<1>8. ASSUME NEW i \in DOMAIN g
      PROVE  i \in Nat /\ g[i] = RowAt(b.data, SlotOf(b.sparse, cap, i))
  <2>1. i \in DOMAIN f /\ i \notin ToSet(list) /\ g[i] = f[i]
    BY Zenon, <1>6
  <2>2. i \in Nat /\ f[i] = RowAt(a.data, SlotOf(a.sparse, cap, i))
    BY Zenon, <1>1, <2>1 DEF Names
  <2>3. IsLive(b.sparse, cap, i)
    BY Zenon, <1>7, <2>2
  <2>4. PICK d : RowOf(b.sparse, cap, i, low, d)
    BY Zenon, <1>2, <2>2, <2>3, LiveRow
  <2>5. d \in Nat /\ d = SlotOf(b.sparse, cap, i) /\ d < low
    BY Zenon, <2>4 DEF RowOf
  <2>6. SlotOf(b.sparse, cap, i) = SlotOf(a.sparse, cap, i)
    BY Zenon, <1>2, <1>4, <2>1, <2>2 DEF AllCleared
  <2>7. RowAt(b.data, d) = RowAt(a.data, d)
    BY Zenon, <1>2, <2>5 DEF RowsKept
  <2> QED BY Zenon, <2>1, <2>2, <2>5, <2>6, <2>7
<1>9. Names(g, b, cap)
  BY Zenon, <1>7, <1>8 DEF Names
<1>10. Stacked(b, cap, low)
  BY Zenon, <1>2 DEF Stacked
<1> QED BY Zenon, <1>5, <1>9, <1>10 DEF Tracked, TrackedAt

\* A batch of n handles, none older than one the caller keeps.
NewestHandles(a, f, cap, list, n) ==
  /\ n \in 1 .. MaxBatch /\ list \in [1 .. n -> DOMAIN f]
  /\ LiveList(a.sparse, cap, list, n) /\ Newest(a.sparse, cap, list, n)

\* The batches of StackNext are such.
LEMMA HandedNewest ==
  ASSUME NEW cap, NEW count, TrackedAt(arch, issued, cap, count),
         NEW list \in HandedOut, NewestFirst(list)
  PROVE  \E n : NewestHandles(arch, issued, cap, list, n)
<1>1. Stacked(arch, cap, count) /\ Names(issued, arch, cap)
  BY Zenon DEF TrackedAt
<1>2. PICK a, f : a = arch /\ f = issued
  OBVIOUS
<1>3. /\ a \in ArchType /\ SlotBuffers(a.sparse, cap) /\ Ends(a.sparse)
  <2>1. Stacked(a, cap, count)
    BY Zenon, <1>1, <1>2
  <2> QED BY Zenon, <2>1, StackedFacts
<1>4. PICK n \in 1 .. MaxBatch : list \in [1 .. n -> DOMAIN f] /\ IsInjective(list)
  BY <1>2 DEF HandedOut
<1>5. /\ \A i \in DOMAIN f : i \in Nat
      /\ \A i \in Nat : (i \in DOMAIN f) = IsLive(a.sparse, cap, i)
  BY Zenon, <1>1, <1>2 DEF Names
<1>6. n \in Nat /\ DOMAIN list = 1 .. n /\ \A k \in 1 .. n : list[k] \in DOMAIN f
  BY <1>4
<1>7. list \in [1 .. n -> Nat]
  BY <1>4, <1>5, <1>6
<1>8. \A i, j \in 1 .. n : list[i] = list[j] => i = j
  BY <1>4, <1>6 DEF IsInjective
<1>9. LiveList(a.sparse, cap, list, n)
  BY Zenon, <1>5, <1>6, <1>7, <1>8 DEF LiveList
<1>10. ASSUME NEW k \in 1 .. n, NEW j \in Nat, IsLive(a.sparse, cap, j), ~Among(list, n, j)
       PROVE  SlotOf(a.sparse, cap, list[k]) > SlotOf(a.sparse, cap, j)
  <2>1. PICK i \in Nat : i = list[k] /\ i \in DOMAIN f
    BY Zenon, <1>5, <1>6
  <2>2. IsLive(a.sparse, cap, i) /\ j \in DOMAIN f
    BY Zenon, <1>5, <1>10, <2>1
  <2>3. i \in ToSet(list) /\ j \notin ToSet(list)
    BY <1>6, <1>10, <2>1 DEF ToSet, Among
  <2>4. SlotAt(a, i) > SlotAt(a, j)
    BY Zenon, <1>2, <2>2, <2>3 DEF NewestFirst
  <2>5. SlotAt(a, i) = SlotOf(a.sparse, cap, i)
    BY <1>3, <2>2, LiveRoute
  <2>6. SlotAt(a, j) = SlotOf(a.sparse, cap, j)
    BY <1>3, <1>10, LiveRoute
  <2> QED BY Zenon, <2>1, <2>4, <2>5, <2>6
<1>11. Newest(a.sparse, cap, list, n)
  BY Zenon, <1>10 DEF Newest
<1> QED BY Zenon, <1>2, <1>4, <1>9, <1>11 DEF NewestHandles

-----------------------------------------------------------------------------
(* The invariant of an archetype used newest-first *)

\* The object and the handles between two calls that failed no check,
Steady == HandlesType(issued) /\ Tracked(arch, issued)

\* and at any time.
StackInv ==
  /\ HandlesType(issued)
  /\ Running(arch) => Tracked(arch, issued)
  /\ OnlyEmptyBufferFails

\* The two agree while the program runs.
LEMMA SteadyIsRunning == Steady <=> StackInv /\ Running(arch)
<1>1. Tracked(arch, issued) => Running(arch)
  BY Zenon DEF Tracked, TrackedAt, Stacked
<1> QED BY Zenon, <1>1 DEF Steady, StackInv, OnlyEmptyBufferFails


\* An empty archetype, of no buffers.
LEMMA InitTracked == Init => Steady
<1> SUFFICES ASSUME Init PROVE Steady
  OBVIOUS
<1>1. Whole(arch) /\ HandlesType(issued)
  BY InitWhole DEF IInv
<1>2. /\ arch.sparse = <<>> /\ arch.size = 0 /\ arch.dcheck = "ok" /\ issued = <<>>
  BY DEF Init, EmptyArchetype
<1>3. PICK none : none = <<>>
  OBVIOUS
<1>4. /\ none \in Seq(SparseBuffers) /\ Len(none) = 0 /\ DOMAIN none = {}
      /\ 1 .. Len(none) = {} /\ 1 \in Nat \ {0} /\ 0 \in Nat
  BY <1>3
<1>5. \A i \in Nat : ~IsLive(none, 1, i)
  BY Zenon, <1>4 DEF IsLive, SlotOf
<1>6. SlotBuffers(none, 1) /\ Ends(none)
  BY <1>3, <1>4 DEF SlotBuffers, Ends
<1>7. OldestFirst(none, 1, 0)
  <2>1. \A d \in Nat : ~(d < 0)
    OBVIOUS
  <2>2. \A k \in 1 .. Len(none) : none[k].capacity # 0
    BY <1>4
  <2> QED BY Zenon, <1>4, <1>5, <1>6, <2>1, <2>2 DEF OldestFirst
<1>8. Stacked(arch, 1, 0)
  BY Zenon, <1>1, <1>2, <1>3, <1>7 DEF Stacked, Running
<1>9. Names(issued, arch, 1)
  <2>1. DOMAIN issued = {} /\ arch.sparse = none
    BY Zenon, <1>2, <1>3, <1>4
  <2>2. ASSUME NEW i \in Nat PROVE (i \in DOMAIN issued) = IsLive(arch.sparse, 1, i)
    <3>1. ~IsLive(arch.sparse, 1, i) /\ i \notin DOMAIN issued
      BY Zenon, <1>5, <2>1
    <3> QED BY <3>1 DEF IsLive
  <2> QED BY Zenon, <2>1, <2>2 DEF Names
<1> QED BY Zenon, <1>1, <1>8, <1>9 DEF Steady, Tracked, TrackedAt

\* The index returned by Push, if it is one, is not in use.
Pushed(entity, i) ==
  NewIndex(arch', issued, i) /\ issued' = WithNew(issued, i, entity) /\ Steady'

\* Push.
LEMMA PushStep ==
  ASSUME UnitsFit, Steady, NEW entity \in Entity, Push(entity)
  PROVE  \E i : Pushed(entity, i)
<1>1. PICK cap, count : TrackedAt(arch, issued, cap, count)
  BY Zenon DEF Steady, Tracked
<1>2. PICK a : a = arch
  OBVIOUS
<1>3. PICK start : start = [a EXCEPT !.rv = <<>>]
  BY Zenon
<1>4. /\ arch' = PushEntity(start, entity)
      /\ issued' = IF ~Running(arch') THEN issued
                   ELSE [i \in DOMAIN issued \cup {arch'.rv[1]} |->
                           IF i = arch'.rv[1] THEN entity ELSE issued[i]]
  BY Zenon, <1>2, <1>3 DEF Push
<1>5. TrackedAt(start, issued, cap, count)
  <2>1. Stacked(a, cap, count)
    BY Zenon, <1>1, <1>2 DEF TrackedAt
  <2>2. a \in ArchType
    BY Zenon, <2>1, StackedFacts
  <2>3. OnlyValue(a, start)
    BY Zenon, <1>3, <2>2, NoValue
  <2> QED BY Zenon, <1>1, <1>2, <2>3, SameTracked
<1>6. PICK b : b = arch'
  OBVIOUS
<1>7. PICK i : NewIndex(b, issued, i) /\ Tracked(b, WithNew(issued, i, entity))
  <2>1. b = PushEntity(start, entity)
    BY Zenon, <1>4, <1>6
  <2> QED BY Zenon, <1>5, <2>1, PushTracked
<1>8. Running(b)
  BY Zenon, <1>7 DEF Tracked, TrackedAt, Stacked
<1>9. b.rv[1] = i /\ i \in Nat
  <2>1. b.rv = <<i>> /\ i \in Nat
    BY Zenon, <1>7 DEF NewIndex
  <2> QED BY <2>1
<1>10. issued' = WithNew(issued, i, entity)
  BY Zenon, <1>4, <1>6, <1>8, <1>9 DEF WithNew
<1>11. HandlesType(issued')
  BY <1>9, <1>10 DEF Steady, HandlesType, WithNew
<1>12. Tracked(arch', issued')
  BY Zenon, <1>6, <1>7, <1>10
<1>13. Steady'
  BY <1>11, <1>12 DEF Steady, HandlesType, Tracked, TrackedAt, Stacked, Names
<1>14. NewIndex(arch', issued, i)
  BY Zenon, <1>6, <1>7
<1> QED BY Zenon, <1>10, <1>13, <1>14 DEF Pushed

\* Lookup returns the entity of the index.
LookedUp(index) ==
  arch'.rv = <<issued[index]>> /\ issued' = issued /\ Steady'

\* Lookup, of a handle the caller holds.
LEMMA LookupStep ==
  ASSUME Steady, NEW index \in DOMAIN issued, Lookup(index)
  PROVE  LookedUp(index)
<1>1. PICK cap, count : TrackedAt(arch, issued, cap, count)
  BY Zenon DEF Steady, Tracked
<1>2. PICK b : b = arch'
  OBVIOUS
<1>3. b = LookupEntity(arch, index) /\ issued' = issued
  BY Zenon, <1>2 DEF Lookup
<1>4. PICK entity : entity = issued[index]
  OBVIOUS
<1>5. Found(arch, b, entity)
  BY Zenon, <1>1, <1>3, <1>4, LookupFinds
<1>6. TrackedAt(b, issued, cap, count)
  BY Zenon, <1>1, <1>5, SameTracked DEF Found
<1>7. Tracked(arch', issued') /\ HandlesType(issued')
  BY Zenon, <1>2, <1>3, <1>6 DEF Tracked, Steady
<1>8. Steady'
  BY <1>7 DEF Steady, HandlesType, Tracked, TrackedAt, Stacked, Names
<1> QED BY Zenon, <1>2, <1>3, <1>4, <1>5, <1>8 DEF Found, LookedUp

\* The handles of a batch are given up; its length is within the bound.
GivenUp(list, n) ==
  /\ n \in 1 .. MaxBatch /\ list \in [1 .. n -> DOMAIN issued]
  /\ issued' = WithoutList(issued, list) /\ Steady'

\* RemoveMany.
LEMMA RemoveStepNewest ==
  ASSUME Steady, NEW list \in HandedOut, NewestFirst(list), RemoveMany(list)
  PROVE  arch'.rv = <<>> /\ \E n : GivenUp(list, n)
<1>1. PICK cap, count : TrackedAt(arch, issued, cap, count)
  BY Zenon DEF Steady, Tracked
<1>2. PICK n : NewestHandles(arch, issued, cap, list, n)
  BY Zenon, <1>1, HandedNewest
<1>3. /\ n \in 1 .. MaxBatch /\ list \in [1 .. n -> DOMAIN issued]
      /\ LiveList(arch.sparse, cap, list, n) /\ Newest(arch.sparse, cap, list, n)
  BY Zenon, <1>2 DEF NewestHandles
<1>4. PICK b : b = arch'
  OBVIOUS
<1>5. b = RemoveIndices(arch, list) /\ HandBack(list)
  BY Zenon, <1>4 DEF RemoveMany
<1>6. issued' = WithoutList(issued, list)
  BY Zenon, <1>5 DEF HandBack, WithoutList
<1>7. Stacked(arch, cap, count)
  BY Zenon, <1>1 DEF TrackedAt
<1>8. b.rv = <<>> /\ \E low : Reduced(arch, b, cap, list, n, low)
  BY Zenon, <1>3, <1>5, <1>7, RemoveLives
<1>9. Whole(b)
  <2>1. Whole(arch) /\ Running(arch)
    BY Zenon, <1>7 DEF Stacked
  <2>2. IndexList(list, n)
    BY Zenon, <1>3 DEF LiveList, IndexList
  <2> QED BY Zenon, <1>5, <2>1, <2>2, RemoveIndicesFacts
<1>10. Tracked(b, WithoutList(issued, list))
  <2>1. PICK low : Reduced(arch, b, cap, list, n, low)
    BY Zenon, <1>8
  <2> QED BY Zenon, <1>1, <1>3, <1>9, <2>1, ReducedTracked
<1>11. Tracked(arch', issued')
  BY Zenon, <1>4, <1>6, <1>10
<1>12. HandlesType(issued')
  BY <1>5, HandBackFacts DEF Steady
<1>13. Steady'
  BY <1>11, <1>12 DEF Steady, HandlesType, Tracked, TrackedAt, Stacked, Names
<1>14. GivenUp(list, n)
  BY Zenon, <1>3, <1>6, <1>13 DEF GivenUp
<1> QED BY Zenon, <1>4, <1>8, <1>14

\* The entities of a batch are returned, in the order of the list.
TakenOut(list) ==
  /\ arch'.rv = [k \in DOMAIN list |-> issued[list[k]]]
  /\ \E n : GivenUp(list, n)

\* TakeMany returns them, or fails to allocate a last buffer of no bytes.
LEMMA TakeStepNewest ==
  ASSUME Steady, NEW list \in HandedOut, NewestFirst(list), TakeMany(list)
  PROVE  \/ TakenOut(list)
         \/ ~Running(arch') /\ StackInv'
<1>1. PICK cap, count : TrackedAt(arch, issued, cap, count)
  BY Zenon DEF Steady, Tracked
<1>2. PICK n : NewestHandles(arch, issued, cap, list, n)
  BY Zenon, <1>1, HandedNewest
<1>3. /\ n \in 1 .. MaxBatch /\ list \in [1 .. n -> DOMAIN issued]
      /\ LiveList(arch.sparse, cap, list, n) /\ Newest(arch.sparse, cap, list, n)
  BY Zenon, <1>2 DEF NewestHandles
<1>4. PICK b : b = arch'
  OBVIOUS
<1>5. b = TakeEntities(arch, list) /\ HandBack(list)
  BY Zenon, <1>4 DEF TakeMany
<1>6. issued' = WithoutList(issued, list)
  BY Zenon, <1>5 DEF HandBack, WithoutList
<1>7. Stacked(arch, cap, count) /\ Names(issued, arch, cap)
  BY Zenon, <1>1 DEF TrackedAt
<1>0. HandlesType(issued')
  BY <1>5, HandBackFacts DEF Steady
<1> SUFFICES ASSUME \A bytes \in ToSet(TargetBytes(n)) : bytes > 0
             PROVE  TakenOut(list)
  <2> SUFFICES ASSUME ~ \A bytes \in ToSet(TargetBytes(n)) : bytes > 0
               PROVE  ~Running(arch') /\ StackInv'
    OBVIOUS
  <2>1. b.dcheck = "AlignedBuffer" /\ ~Running(b)
    BY Zenon, <1>3, <1>5, <1>7, TakeStops
  <2>2. FillsExactly(n)
    <3>1. n \in Nat \ {0}
      BY <1>3
    <3> QED BY Zenon, <3>1, BytesPositive
  <2>3. asked' = list /\ Len(list) = n
    BY <1>3, <1>5 DEF HandBack
  <2>4. OnlyEmptyBufferFails'
    BY <1>4, <2>1, <2>2, <2>3 DEF OnlyEmptyBufferFails, FillsExactly
  <2>5. StackInv'
    BY <1>0, <1>4, <2>1, <2>4
       DEF StackInv, HandlesType, Running
  <2> QED BY Zenon, <1>4, <2>1, <2>5
<1>8. /\ RowsReturned(arch, b, cap, list, n)
      /\ \E low : Reduced(arch, b, cap, list, n, low)
  BY Zenon, <1>3, <1>5, <1>7, TakeLivesOut
<1>9. Whole(b)
  <2>1. Whole(arch) /\ Running(arch)
    BY Zenon, <1>7 DEF Stacked
  <2>2. IndexList(list, n)
    BY Zenon, <1>3 DEF LiveList, IndexList
  <2> QED BY Zenon, <1>5, <2>1, <2>2, TakeEntitiesFacts
<1>10. Tracked(b, WithoutList(issued, list))
  <2>1. PICK low : Reduced(arch, b, cap, list, n, low)
    BY Zenon, <1>8
  <2> QED BY Zenon, <1>1, <1>3, <1>9, <2>1, ReducedTracked
<1>11. Tracked(arch', issued')
  BY Zenon, <1>4, <1>6, <1>10
<1>12. HandlesType(issued')
  BY <1>0
<1>13. Steady'
  BY <1>11, <1>12 DEF Steady, HandlesType, Tracked, TrackedAt, Stacked, Names
<1>14. GivenUp(list, n)
  BY Zenon, <1>3, <1>6, <1>13 DEF GivenUp
<1>15. PICK rows : rows = b.rv
  OBVIOUS
<1>16. /\ rows \in Seq(Row) /\ Len(rows) = n
       /\ \A k \in 1 .. n : rows[k] = RowAt(arch.data, SlotOf(arch.sparse, cap, list[k]))
  BY Zenon, <1>8, <1>15 DEF RowsReturned
<1>17. DOMAIN list = 1 .. n /\ DOMAIN rows = 1 .. n /\ rows \in [1 .. n -> Row]
  BY <1>3, <1>16
<1>18. \A k \in 1 .. n : rows[k] = issued[list[k]]
  <2> SUFFICES ASSUME NEW k \in 1 .. n PROVE rows[k] = issued[list[k]]
    OBVIOUS
  <2>1. PICK x : x = list[k]
    OBVIOUS
  <2>2. x \in DOMAIN issued
    BY <1>3, <2>1
  <2>3. issued[x] = RowAt(arch.data, SlotOf(arch.sparse, cap, x))
    BY Zenon, <1>7, <2>2 DEF Names
  <2> QED BY Zenon, <1>16, <2>1, <2>3
<1>19. rows = [k \in DOMAIN list |-> issued[list[k]]]
  BY <1>17, <1>18
<1> QED BY Zenon, <1>4, <1>14, <1>15, <1>19 DEF TakenOut

\* Every call of such a caller preserves the invariant.
LEMMA StackStepHolds ==
  ASSUME UnitsFit
  PROVE  StackInv /\ [StackNext]_vars => StackInv'
<1> SUFFICES ASSUME StackInv, [StackNext]_vars PROVE StackInv'
  OBVIOUS
<1>1. Running(arch) => Steady
  BY Zenon, SteadyIsRunning
<1>2. Steady' => StackInv'
  BY SteadyIsRunning, PTL
<1>3. ASSUME NEW entity \in Entity, Push(entity) PROVE Steady'
  <2>1. Steady
    BY Zenon, <1>1, <1>3 DEF Push
  <2>2. PICK i : Pushed(entity, i)
    BY Zenon, <1>3, <2>1, PushStep
  <2> QED BY Zenon, <2>2 DEF Pushed
<1>4. ASSUME NEW index \in DOMAIN issued, Lookup(index) PROVE Steady'
  <2>1. Steady
    BY Zenon, <1>1, <1>4 DEF Lookup
  <2> QED BY Zenon, <1>4, <2>1, LookupStep DEF LookedUp
<1>5. ASSUME NEW list \in HandedOut, NewestFirst(list), RemoveMany(list) PROVE Steady'
  <2>1. Steady
    BY Zenon, <1>1, <1>5 DEF RemoveMany
  <2>2. PICK n : GivenUp(list, n)
    BY Zenon, <1>5, <2>1, RemoveStepNewest
  <2> QED BY Zenon, <2>2 DEF GivenUp
<1>6. ASSUME NEW list \in HandedOut, NewestFirst(list), TakeMany(list)
      PROVE  StackInv'
  <2>1. Steady
    BY Zenon, <1>1, <1>6 DEF TakeMany
  <2>2. CASE TakenOut(list)
    <3>1. PICK n : GivenUp(list, n)
      BY Zenon, <2>2 DEF TakenOut
    <3> QED BY Zenon, <1>2, <3>1 DEF GivenUp
  <2> QED BY Zenon, <1>6, <2>1, <2>2, TakeStepNewest
<1>7. CASE UNCHANGED vars
  BY <1>7 DEF vars, StackInv, HandlesType, Tracked, TrackedAt, Stacked, Names,
              OnlyEmptyBufferFails
<1> QED BY Zenon, <1>2, <1>3, <1>4, <1>5, <1>6, <1>7 DEF StackNext

\* The invariant holds in every state of every behaviour of such a caller.
LEMMA StackSafe ==
  ASSUME UnitsFit
  PROVE  StackSpec => []StackInv
<1>1. Init => StackInv
  BY Zenon, InitTracked, SteadyIsRunning
<1>2. StackInv /\ [StackNext]_vars => StackInv'
  BY StackStepHolds
<1> QED BY <1>1, <1>2, PTL DEF StackSpec

\* While the caller gives up the entities it pushed last first, no check of the
\* routes, the slots and the buffers fails, and that of an allocation only in a
\* TakeMany of a batch, however long, that fills several target buffers exactly.
THEOREM NewestFirstFailsOnly ==
  ASSUME UnitsFit
  PROVE  StackSpec => []OnlyEmptyBufferFails
<1>1. StackInv => OnlyEmptyBufferFails
  BY DEF StackInv
<1> QED BY <1>1, StackSafe, PTL

\* Every handle of such a caller finds the entity it was issued for.
THEOREM NewestFirstFinds ==
  ASSUME UnitsFit
  PROVE  StackSpec => []IndexFindsEntity
<1>1. StackInv => IndexFindsEntity
  <2> SUFFICES ASSUME StackInv, Running(arch), NEW index \in DOMAIN issued
               PROVE  LookupEntity(arch, index).rv = <<issued[index]>>
    BY DEF IndexFindsEntity
  <2>1. PICK cap, count : TrackedAt(arch, issued, cap, count)
    BY Zenon DEF StackInv, Tracked
  <2>2. PICK b, entity : b = LookupEntity(arch, index) /\ entity = issued[index]
    OBVIOUS
  <2>3. Found(arch, b, entity)
    BY Zenon, <2>1, <2>2, LookupFinds
  <2> QED BY Zenon, <2>2, <2>3 DEF Found
<1> QED BY <1>1, StackSafe, PTL

-----------------------------------------------------------------------------
(* It is the container its caller sees *)

\* What each handle finds.
Table(a, f) == [index \in DOMAIN f |-> LookupEntity(a, index).rv[1]]

SameTable(t, f) == DOMAIN t = DOMAIN f /\ \A i \in DOMAIN f : t[i] = f[i]

\* It is what the handle was issued for.
LEMMA TableNames ==
  ASSUME NEW a, NEW f, Tracked(a, f)
  PROVE  SameTable(Table(a, f), f)
<1>1. PICK cap, count : TrackedAt(a, f, cap, count)
  BY Zenon DEF Tracked
<1>2. ASSUME NEW i \in DOMAIN f PROVE LookupEntity(a, i).rv[1] = f[i]
  <2>1. PICK b, entity : b = LookupEntity(a, i) /\ entity = f[i]
    OBVIOUS
  <2>2. Found(a, b, entity)
    BY Zenon, <1>1, <2>1, LookupFinds
  <2>3. b.rv = <<entity>>
    BY Zenon, <2>2 DEF Found
  <2> QED BY <2>1, <2>3
<1> QED BY <1>2 DEF Table, SameTable

\* Each call that fails no check is one of the container EntityStore.
LEMMA CallImplements ==
  ASSUME UnitsFit, Steady, StackNext, Running(arch')
  PROVE  Promised!StoreNext
<1>1. PICK t : t = Table(arch, issued)
  OBVIOUS
<1>2. PICK u : u = Table(arch', issued')
  OBVIOUS
<1>3. DOMAIN t = DOMAIN issued /\ \A i \in DOMAIN issued : t[i] = issued[i]
  <2>1. Tracked(arch, issued)
    BY Zenon DEF Steady
  <2>2. SameTable(t, issued)
    BY Zenon, <1>1, <2>1, TableNames
  <2> QED BY Zenon, <2>2 DEF SameTable
<1>4. Steady' => DOMAIN u = DOMAIN issued' /\ \A i \in DOMAIN issued' : u[i] = issued'[i]
  <2> SUFFICES ASSUME Steady'
               PROVE  DOMAIN u = DOMAIN issued' /\ \A i \in DOMAIN issued' : u[i] = issued'[i]
    OBVIOUS
  <2>1. Tracked(arch', issued')
    BY DEF Steady, Tracked, TrackedAt, Stacked, Names
  <2>2. PICK f : f = issued'
    OBVIOUS
  <2>3. SameTable(u, f)
    BY Zenon, <1>2, <2>1, <2>2, TableNames
  <2> QED BY Zenon, <2>2, <2>3 DEF SameTable
<1>5. t = [index \in DOMAIN issued |-> LookupEntity(arch, index).rv[1]]
  BY Zenon, <1>1 DEF Table
<1>6. u = [index \in DOMAIN issued' |-> LookupEntity(arch', index).rv[1]]
  BY Zenon, <1>2 DEF Table
<1>7. ASSUME NEW entity \in Entity, Push(entity) PROVE Promised!StorePush(entity)
  <2>1. PICK i : Pushed(entity, i)
    BY Zenon, <1>7, PushStep
  <2>2. /\ i \in Nat /\ arch'.rv = <<i>> /\ i \notin DOMAIN issued /\ asked' = <<entity>>
        /\ issued' = WithNew(issued, i, entity) /\ Steady'
    BY Zenon, <1>7, <2>1 DEF Pushed, NewIndex, Push
  <2>3. PICK new : new = arch'.rv
    OBVIOUS
  <2>4. Len(new) = 1 /\ new[1] = i
    BY <2>2, <2>3
  <2>5. new[1] \in Nat \ DOMAIN t
    BY <1>3, <2>2, <2>4
  <2>6. u = [j \in DOMAIN t \cup {new[1]} |-> IF j = new[1] THEN entity ELSE t[j]]
    <3>1. DOMAIN u = DOMAIN issued' /\ \A j \in DOMAIN issued' : u[j] = issued'[j]
      BY Zenon, <1>4, <2>2
    <3>2. u = [j \in DOMAIN u |-> u[j]]
      BY <1>6
    <3> QED BY <1>3, <2>2, <2>4, <3>1, <3>2 DEF WithNew
  <2> QED BY Zenon, <1>5, <1>6, <2>2, <2>3, <2>4, <2>5, <2>6 DEF Promised!StorePush
<1>8. ASSUME NEW index \in DOMAIN issued, Lookup(index) PROVE Promised!StoreLookup(index)
  <2>1. /\ arch'.rv = <<issued[index]>> /\ issued' = issued /\ Steady' /\ asked' = <<index>>
    BY Zenon, <1>8, LookupStep DEF LookedUp, Lookup
  <2>2. u = t
    BY <1>3, <1>4, <1>5, <1>6, <2>1
  <2>3. arch'.rv = <<t[index]>>
    BY Zenon, <1>3, <2>1
  <2> QED BY Zenon, <1>5, <1>6, <2>1, <2>2, <2>3 DEF Promised!StoreLookup
<1>9. ASSUME NEW list, NEW n, GivenUp(list, n), HandBack(list)
      PROVE  Promised!StoreDrop(list) /\ n \in 1 .. MaxBatch /\ list \in [1 .. n -> DOMAIN t]
  <2>1. /\ n \in 1 .. MaxBatch /\ list \in [1 .. n -> DOMAIN issued]
        /\ issued' = WithoutList(issued, list) /\ Steady' /\ asked' = list
    BY Zenon, <1>9 DEF GivenUp, HandBack
  <2>2. list \in [1 .. n -> DOMAIN t]
    BY <1>3, <2>1
  <2>3. u = [j \in DOMAIN t \ ToSet(list) |-> t[j]]
    <3>1. DOMAIN u = DOMAIN issued' /\ \A j \in DOMAIN issued' : u[j] = issued'[j]
      BY Zenon, <1>4, <2>1
    <3>2. u = [j \in DOMAIN u |-> u[j]]
      BY <1>6
    <3> QED BY <1>3, <2>1, <3>1, <3>2 DEF WithoutList
  <2> QED BY Zenon, <1>5, <1>6, <2>1, <2>2, <2>3
          DEF Promised!StoreDrop, Promised!ToSet, ToSet
<1>10. ASSUME NEW list \in HandedOut, NewestFirst(list), RemoveMany(list)
       PROVE  Promised!StoreNext
  <2>1. arch'.rv = <<>> /\ \E n : GivenUp(list, n)
    BY Zenon, <1>10, RemoveStepNewest
  <2>2. PICK n : GivenUp(list, n)
    BY Zenon, <2>1
  <2>3. HandBack(list)
    BY Zenon, <1>10 DEF RemoveMany
  <2>4. Promised!StoreDrop(list) /\ n \in 1 .. MaxBatch /\ list \in [1 .. n -> DOMAIN t]
    BY Zenon, <1>9, <2>2, <2>3
  <2>5. Promised!StoreRemove(list)
    BY Zenon, <2>1, <2>4 DEF Promised!StoreRemove
  <2> QED BY Zenon, <1>5, <2>4, <2>5 DEF Promised!StoreNext
<1>11. ASSUME NEW list \in HandedOut, NewestFirst(list), TakeMany(list)
       PROVE  Promised!StoreNext
  <2>1. arch'.rv = [k \in DOMAIN list |-> issued[list[k]]] /\ \E n : GivenUp(list, n)
    BY Zenon, <1>11, TakeStepNewest DEF TakenOut
  <2>2. PICK n : GivenUp(list, n)
    BY Zenon, <2>1
  <2>3. HandBack(list)
    BY Zenon, <1>11 DEF TakeMany
  <2>4. Promised!StoreDrop(list) /\ n \in 1 .. MaxBatch /\ list \in [1 .. n -> DOMAIN t]
    BY Zenon, <1>9, <2>2, <2>3
  <2>5. arch'.rv = [k \in DOMAIN list |-> t[list[k]]]
    <3>1. \A k \in DOMAIN list : list[k] \in DOMAIN issued
      BY <1>3, <2>4
    <3>2. \A k \in DOMAIN list : t[list[k]] = issued[list[k]]
      BY Zenon, <1>3, <3>1
    <3> QED BY <2>1, <3>2
  <2>6. Promised!StoreTake(list)
    BY Zenon, <1>5, <2>4, <2>5 DEF Promised!StoreTake
  <2> QED BY Zenon, <1>5, <2>4, <2>6 DEF Promised!StoreNext
<1>12. ASSUME NEW entity \in Entity, Push(entity) PROVE Promised!StoreNext
  BY Zenon, <1>7, <1>12 DEF Promised!StoreNext
<1>13. ASSUME NEW index \in DOMAIN issued, Lookup(index) PROVE Promised!StoreNext
  <2>1. index \in DOMAIN t
    BY Zenon, <1>3
  <2>2. Promised!StoreLookup(index)
    BY Zenon, <1>8, <1>13
  <2> QED BY Zenon, <1>5, <2>1, <2>2 DEF Promised!StoreNext
<1> QED BY Zenon, <1>10, <1>11, <1>12, <1>13 DEF StackNext

\* So every step but the last of a call that fails is one of the container.
LEMMA StackImplements ==
  ASSUME UnitsFit
  PROVE  StackInv /\ [StackNext]_vars =>
           [Running(arch') => Promised!StoreNext]_(Promised!storeVars)
<1> SUFFICES ASSUME StackInv, [StackNext]_vars
             PROVE  [Running(arch') => Promised!StoreNext]_(Promised!storeVars)
  OBVIOUS
<1>1. CASE StackNext
  <2>1. Running(arch)
    BY Zenon, <1>1 DEF StackNext, Push, Lookup, RemoveMany, TakeMany
  <2>2. Steady
    BY Zenon, <2>1, SteadyIsRunning
  <2> QED BY Zenon, <1>1, <2>2, CallImplements
<1>2. CASE UNCHANGED vars
  <2>1. UNCHANGED Promised!storeVars
    BY <1>2 DEF vars, Promised!storeVars
  <2> QED BY <2>1
<1> QED BY Zenon, <1>1, <1>2

\* An archetype whose caller gives up the entities it pushed last first is the
\* container of EntityStore, in all its calls that fail no check: an index names
\* its entity until it is given up.
THEOREM NewestFirstImplements ==
  ASSUME UnitsFit
  PROVE  StackSpec => ImplementsStore
<1>1. Init => Promised!StoreInit
  <2> SUFFICES ASSUME Init PROVE Promised!StoreInit
    OBVIOUS
  <2>1. issued = <<>> /\ asked = <<>> /\ arch.rv = <<>>
    BY DEF Init, EmptyArchetype
  <2>2. [index \in DOMAIN issued |-> LookupEntity(arch, index).rv[1]] = <<>>
    BY <2>1
  <2> QED BY Zenon, <2>1, <2>2 DEF Promised!StoreInit
<1>2. StackInv /\ [StackNext]_vars =>
        [Running(arch') => Promised!StoreNext]_(Promised!storeVars)
  BY StackImplements
<1> QED BY <1>1, <1>2, StackSafe, PTL DEF StackSpec, ImplementsStore

=============================================================================
