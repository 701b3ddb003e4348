-------------------------- MODULE ArchetypeProofs ---------------------------
(***************************************************************************)
(* Proofs about a sparse buffer and its owner, and with their lemmas about *)
(* Archetype: for every size of the units and the buffers, every set of    *)
(* entities and every order in which the caller gives its indices back.    *)
(***************************************************************************)
EXTENDS Archetype, SparseBufferUse, FiniteSetTheorems, TLAPS

-----------------------------------------------------------------------------
(* A sparse buffer: what the operations do when its hole stack is exact.    *)

\* A buffer's capacity, bytes over slot size, is a natural number.
LEMMA DivNat ==
  ASSUME NEW a \in Nat, NEW u \in Nat \ {0}
  PROVE  a \div u \in Nat
  OBVIOUS

\* More bytes never hold fewer slots: Reserve does not lose capacity.
LEMMA DivMonotone ==
  ASSUME NEW a \in Nat, NEW c \in Nat, NEW u \in Nat \ {0}, a <= c
  PROVE  a \div u <= c \div u
  OBVIOUS

\* An allocation of a slot or more, doubled, holds more slots.
LEMMA DivDoubled ==
  ASSUME NEW u \in Nat \ {0}, NEW a \in Nat, a >= u
  PROVE  (2 * a) \div u >= a \div u + 1
  OBVIOUS

\* A new buffer has every slot on its hole stack.
LEMMA NewIsExact ==
  ASSUME NEW bytes \in Nat
  PROVE  SparseType(SparseNew(bytes)) /\ HolesExact(SparseNew(bytes))
  <1> USE SparseUnitAssumption
  <1>1. bytes \div SparseUnit \in Nat
    BY DivNat
  <1>2. SparseType(SparseNew(bytes))
    BY <1>1 DEF SparseType, SparseNew, kInvalidDenseId
  <1>3. HolesExact(SparseNew(bytes))
    <2> DEFINE c == SparseNew(bytes)
    <2>1. /\ c.capacity \in Nat /\ c.size = 0 /\ c.hole_cnt = c.capacity
          /\ c.slot = [i \in 0 .. c.capacity - 1 |-> kInvalidDenseId]
          /\ c.hole = [i \in 0 .. c.capacity - 1 |-> i]
      BY <1>1 DEF SparseNew
    <2> HIDE DEF c
    <2>2. FreeSlots(c) = 0 .. c.capacity - 1 /\ StackPositions(c) = 0 .. c.capacity - 1
      BY <2>1 DEF FreeSlots, StackPositions
    <2>3. \A p \in 0 .. c.capacity - 1 : c.hole[p] = p
      BY <2>1
    <2>4. HolesExact(c)
      BY <2>1, <2>2, <2>3 DEF HolesExact
    <2>5. QED
      BY <2>4 DEF c
  <1>4. QED
    BY <1>2, <1>3

\* FillHole takes a free slot and leaves the others on the stack.
LEMMA FillIsExact ==
  ASSUME NEW b, SparseType(b), HolesExact(b), b.hole_cnt > 0, NEW d \in Nat
  PROVE  /\ NextHole(b) \in FreeSlots(b)
         /\ SparseType(FillHole(b, d))
         /\ HolesExact(FillHole(b, d))
         /\ FreeSlots(FillHole(b, d)) = FreeSlots(b) \ {NextHole(b)}
  <1> DEFINE c == FillHole(b, d)
  <1>1. b.size \in StackPositions(b) /\ b.capacity \in Nat /\ b.size \in Nat
    <2>1. b.capacity \in Nat /\ b.size \in Nat
      BY DEF SparseType
    <2>2. b.hole_cnt = b.capacity - b.size
      BY DEF HolesExact
    <2>3. QED BY <2>1, <2>2 DEF StackPositions
  <1>2. NextHole(b) \in FreeSlots(b)
    BY <1>1 DEF HolesExact, NextHole
  <1>3. /\ c.bytes = b.bytes /\ c.capacity = b.capacity /\ c.size = b.size + 1
        /\ c.hole_cnt = b.hole_cnt - 1 /\ c.hole = b.hole
        /\ c.slot = [b.slot EXCEPT ![NextHole(b)] = d]
    BY DEF SparseType, FillHole
  <1>4. SparseType(c)
    <2>2. [b.slot EXCEPT ![NextHole(b)] = d] \in [0 .. b.capacity - 1 -> Nat \cup {kInvalidDenseId}]
      BY DEF SparseType
    <2>3. b.hole_cnt - 1 \in Nat /\ b.size + 1 \in Nat /\ b.size + 1 <= b.capacity
      BY DEF SparseType, HolesExact
    <2>4. QED
      BY <2>2, <2>3 DEF SparseType, FillHole
  <1>5. FreeSlots(c) = FreeSlots(b) \ {NextHole(b)}
    BY <1>1, <1>2, <1>3 DEF SparseType, FreeSlots, kInvalidDenseId
  <1>6. StackPositions(c) = StackPositions(b) \ {b.size}
    BY <1>1, <1>3 DEF StackPositions
  <1>7. HolesExact(c)
    BY <1>1, <1>3, <1>5, <1>6 DEF HolesExact, NextHole, SparseType
  <1>8. QED
    BY <1>2, <1>4, <1>5, <1>7

\* Vacate puts a slot in use on the stack and disturbs no other.
LEMMA VacateIsExact ==
  ASSUME NEW b, SparseType(b), HolesExact(b), b.size > 0,
         NEW i \in 0 .. b.capacity - 1, b.slot[i] # kInvalidDenseId
  PROVE  /\ SparseType(Vacate(b, i))
         /\ HolesExact(Vacate(b, i))
         /\ FreeSlots(Vacate(b, i)) = FreeSlots(b) \cup {i}
  <1> DEFINE c == Vacate(b, i)
  <1>1. b.capacity \in Nat /\ b.size \in Nat /\ b.size - 1 \in 0 .. b.capacity - 1
    BY DEF SparseType
  <1>2. /\ c.bytes = b.bytes /\ c.capacity = b.capacity /\ c.size = b.size - 1
        /\ c.hole_cnt = b.hole_cnt + 1
        /\ c.hole = [b.hole EXCEPT ![b.size - 1] = i]
        /\ c.slot = [b.slot EXCEPT ![i] = kInvalidDenseId]
    BY DEF SparseType, Vacate
  <1>3. SparseType(c)
    <2>2. /\ [b.slot EXCEPT ![i] = kInvalidDenseId] \in [0 .. b.capacity - 1 -> Nat \cup {kInvalidDenseId}]
          /\ [b.hole EXCEPT ![b.size - 1] = i] \in [0 .. b.capacity - 1 -> 0 .. b.capacity - 1]
      BY DEF SparseType
    <2>3. b.hole_cnt + 1 \in Nat /\ b.size - 1 \in Nat /\ b.size - 1 <= b.capacity
      BY DEF SparseType
    <2>4. QED
      BY <2>2, <2>3 DEF SparseType, Vacate
  <1>4. FreeSlots(c) = FreeSlots(b) \cup {i}
    BY <1>2 DEF SparseType, FreeSlots
  <1>5. StackPositions(c) = StackPositions(b) \cup {b.size - 1} /\ b.size - 1 \notin StackPositions(b)
    BY <1>1, <1>2 DEF StackPositions
  <1>6. i \notin FreeSlots(b) /\ c.hole[b.size - 1] = i
    BY <1>1, <1>2 DEF FreeSlots, SparseType
  <1>7. \A p \in StackPositions(b) : c.hole[p] = b.hole[p] /\ c.hole[p] # i
    <2>1. ASSUME NEW p \in StackPositions(b) PROVE c.hole[p] = b.hole[p] /\ b.hole[p] \in FreeSlots(b)
      BY <1>1, <1>2, <1>5 DEF HolesExact, SparseType, StackPositions
    <2>2. QED
      BY <1>6, <2>1
  <1>8. \A p, q \in StackPositions(c) : c.hole[p] = c.hole[q] => p = q
    BY <1>5, <1>6, <1>7 DEF HolesExact
  <1>9. FreeSlots(c) = {c.hole[p] : p \in StackPositions(c)}
    BY <1>4, <1>5, <1>6, <1>7 DEF HolesExact
  <1>10. c.hole_cnt = c.capacity - c.size
    BY <1>1, <1>2 DEF HolesExact
  <1>11. QED
    BY <1>3, <1>4, <1>8, <1>9, <1>10 DEF HolesExact

\* Reserve adds the new slots to the stack.
LEMMA ReserveIsExact ==
  ASSUME NEW b, SparseType(b), HolesExact(b), NEW bytes \in Nat
  PROVE  /\ SparseType(SparseReserve(b, bytes))
         /\ HolesExact(SparseReserve(b, bytes))
         /\ SparseReserve(b, bytes).size = b.size
         /\ b.capacity <= SparseReserve(b, bytes).capacity
         /\ FreeSlots(SparseReserve(b, bytes)) =
              FreeSlots(b) \cup (b.capacity .. SparseReserve(b, bytes).capacity - 1)
         /\ \A i \in 0 .. b.capacity - 1 : SparseReserve(b, bytes).slot[i] = b.slot[i]
  <1> DEFINE c == SparseReserve(b, bytes)
  <1>1. b.capacity \in Nat /\ b.size \in Nat /\ b.size <= b.capacity
    BY SparseUnitAssumption, DivNat DEF SparseType
  <1>2. CASE bytes <= b.bytes
    <2>1. c = b
      BY <1>2 DEF SparseReserve
    <2>2. b.capacity .. b.capacity - 1 = {}
      BY <1>1
    <2>3. QED
      BY <1>1, <2>1, <2>2
  <1>3. CASE ~(bytes <= b.bytes)
    <2> DEFINE cap == bytes \div SparseUnit
    <2>1. /\ c.bytes = bytes /\ c.capacity = cap /\ c.size = b.size
          /\ c.hole_cnt = cap - b.size
          /\ c.slot = [i \in 0 .. cap - 1 |-> IF i < b.capacity THEN b.slot[i] ELSE kInvalidDenseId]
          /\ c.hole = [i \in 0 .. cap - 1 |-> IF i < b.capacity THEN b.hole[i] ELSE i]
      BY <1>3 DEF SparseReserve
    <2>2. cap \in Nat /\ b.capacity <= cap
      <3>1. b.bytes \in Nat /\ b.bytes <= bytes /\ b.capacity = b.bytes \div SparseUnit
        BY <1>3 DEF SparseType
      <3>2. cap \in Nat
        BY SparseUnitAssumption, DivNat
      <3>3. b.bytes \div SparseUnit <= cap
        BY <3>1, SparseUnitAssumption, DivMonotone
      <3>4. QED BY <3>1, <3>2, <3>3
    <2> HIDE DEF cap
    <2>3. /\ c.slot \in [0 .. cap - 1 -> Nat \cup {kInvalidDenseId}]
          /\ c.hole \in [0 .. cap - 1 -> 0 .. cap - 1]
      BY SMTT(30), <1>1, <2>1, <2>2 DEF SparseType
    <2>4. SparseType(c)
      BY <1>1, <1>3, <2>2, <2>3 DEF SparseType, SparseReserve, cap
    <2>5. FreeSlots(c) = FreeSlots(b) \cup (b.capacity .. cap - 1)
      BY <1>1, <2>1, <2>2 DEF FreeSlots
    <2>6. StackPositions(c) = StackPositions(b) \cup (b.capacity .. cap - 1)
      BY <1>1, <2>1, <2>2 DEF StackPositions
    <2>7. /\ \A p \in StackPositions(b) : c.hole[p] = b.hole[p] /\ b.hole[p] \in 0 .. b.capacity - 1
          /\ \A p \in b.capacity .. cap - 1 : c.hole[p] = p
      <3>1. \A p \in StackPositions(b) : p \in 0 .. b.capacity - 1 /\ p \in 0 .. cap - 1
        BY <1>1, <2>2 DEF StackPositions
      <3>2. \A p \in 0 .. b.capacity - 1 : b.hole[p] \in 0 .. b.capacity - 1
        BY DEF SparseType
      <3>3. \A p \in 0 .. cap - 1 : c.hole[p] = IF p < b.capacity THEN b.hole[p] ELSE p
        BY <2>1
      <3> HIDE DEF c
      <3>4. \A p \in 0 .. b.capacity - 1 : p < b.capacity
        BY <1>1
      <3>5. \A p \in b.capacity .. cap - 1 : p \in 0 .. cap - 1 /\ ~(p < b.capacity)
        BY <1>1, <2>2
      <3>6. QED
        BY <3>1, <3>2, <3>3, <3>4, <3>5
    <2>8. \A p, q \in StackPositions(c) : c.hole[p] = c.hole[q] => p = q
      BY <1>1, <2>2, <2>6, <2>7 DEF HolesExact
    <2>9. FreeSlots(c) = {c.hole[p] : p \in StackPositions(c)}
      BY <2>5, <2>6, <2>7 DEF HolesExact
    <2>10. HolesExact(c)
      BY <2>1, <2>8, <2>9 DEF HolesExact
    <2>11. \A i \in 0 .. b.capacity - 1 : c.slot[i] = b.slot[i]
      BY <1>1, <2>1, <2>2
    <2>12. QED
      BY <2>1, <2>2, <2>4, <2>5, <2>10, <2>11
  <1>4. QED
    BY <1>2, <1>3

-----------------------------------------------------------------------------
(* The invariant of a buffer and its owner.  HolesAreFree and              *)
(* SlotsMatchOwner need each other: what a fill takes is not the owner's   *)
(* because it is on the stack, and the stack stays exact because the owner *)
(* only removes slots in use.                                              *)

\* The inductive invariant: all the state properties together.
OwnerInv == OwnerTypeOK /\ HolesAreFree /\ SlotsMatchOwner /\ SizeIsLiveCount

\* SparseBuffer's constructor: a new buffer satisfies the invariant.
LEMMA InitOwner == OwnerInit => OwnerInv
  <1> SUFFICES ASSUME OwnerInit PROVE OwnerInv
    OBVIOUS
  <1> PICK bytes \in 0 .. MaxBytes : buf = SparseNew(bytes)
    BY DEF OwnerInit
  <1>1. bytes \in Nat
    BY UseAssumption
  <1>2. SparseType(buf) /\ HolesExact(buf)
    BY <1>1, NewIsExact
  <1>3. buf.size = 0 /\ \A i \in 0 .. buf.capacity - 1 : buf.slot[i] = kInvalidDenseId
    BY DEF SparseNew
  <1>4. DOMAIN given = {}
    BY DEF OwnerInit
  <1>5. given \in [DOMAIN given -> DenseIds]
    BY <1>4 DEF OwnerInit
  <1>6. IsFiniteSet(DOMAIN given) /\ Cardinality(DOMAIN given) = 0
    BY <1>4, FS_EmptySet
  <1>7. QED
    BY <1>2, <1>3, <1>4, <1>5, <1>6
    DEF OwnerInv, OwnerTypeOK, HolesAreFree, SlotsMatchOwner, SizeIsLiveCount

\* The slots the owner holds are the ones not free.
LEMMA OwnerHoldsRest ==
  ASSUME OwnerInv
  PROVE  /\ DOMAIN given = (0 .. buf.capacity - 1) \ FreeSlots(buf)
         /\ buf.capacity \in Nat
  BY DEF OwnerInv, OwnerTypeOK, SlotsMatchOwner, FreeSlots, SparseType

\* FillHole, Remove and Reserve keep the invariant.
LEMMA NextOwner == OwnerInv /\ [OwnerNext]_ownerVars => OwnerInv'
  <1> SUFFICES ASSUME OwnerInv, [OwnerNext]_ownerVars PROVE OwnerInv'
    OBVIOUS
  <1> USE DEF OwnerInv, OwnerTypeOK, HolesAreFree, SlotsMatchOwner, SizeIsLiveCount
  <1>1. ASSUME NEW d \in DenseIds, OwnerFill(d) PROVE OwnerInv'
    <2> DEFINE slot == NextHole(buf)
    <2>1. d \in Nat /\ d # kInvalidDenseId
      BY UseAssumption DEF kInvalidDenseId
    <2>2. /\ slot \in FreeSlots(buf)
          /\ SparseType(buf') /\ HolesExact(buf')
          /\ FreeSlots(buf') = FreeSlots(buf) \ {slot}
      BY <1>1, <2>1, FillIsExact DEF OwnerFill
    <2>3. slot \notin DOMAIN given /\ slot \in 0 .. buf.capacity - 1
      BY <2>2 DEF FreeSlots
    <2>4. /\ buf'.capacity = buf.capacity /\ buf'.size = buf.size + 1
          /\ buf'.slot = [buf.slot EXCEPT ![slot] = d]
      BY <1>1 DEF OwnerFill, FillHole
    <2>5. given' = [s \in DOMAIN given \cup {slot} |-> IF s = slot THEN d ELSE given[s]]
      BY <1>1 DEF OwnerFill
    <2>6. DOMAIN given' = DOMAIN given \cup {slot}
      BY <2>5
    <2>7. given' \in [DOMAIN given' -> DenseIds]
      BY <2>5, <2>6
    <2>8. DOMAIN given' = {i \in 0 .. buf'.capacity - 1 : buf'.slot[i] # kInvalidDenseId}
      BY <2>1, <2>3, <2>4, <2>6 DEF SparseType
    <2>9. \A i \in DOMAIN given' : buf'.slot[i] = given'[i]
      BY <2>3, <2>4, <2>5, <2>6 DEF SparseType
    <2>10. IsFiniteSet(DOMAIN given') /\ buf'.size = Cardinality(DOMAIN given')
      <3>1. IsFiniteSet(DOMAIN given \cup {slot}) /\
            Cardinality(DOMAIN given \cup {slot}) = Cardinality(DOMAIN given) + 1
        <4> HIDE DEF slot
        <4>1. IsFiniteSet(DOMAIN given)
          OBVIOUS
        <4>2. QED
          BY <2>3, <4>1, FS_AddElement
      <3>2. QED
        BY <2>4, <2>6, <3>1
    <2>11. QED
      BY <2>2, <2>7, <2>8, <2>9, <2>10
  <1>2. ASSUME NEW slot \in DOMAIN given, OwnerRemove(slot) PROVE OwnerInv'
    <2>1. slot \in 0 .. buf.capacity - 1 /\ buf.slot[slot] # kInvalidDenseId
      OBVIOUS
    <2>2. buf.size > 0
      <3>1. Cardinality(DOMAIN given) \in Nat /\ Cardinality(DOMAIN given) # 0
        BY FS_CardinalityType, FS_EmptySet
      <3>2. QED
        BY <3>1
    <2>3. SparseType(buf') /\ HolesExact(buf')
      BY <1>2, <2>1, <2>2, VacateIsExact DEF OwnerRemove
    <2>4. /\ buf'.capacity = buf.capacity /\ buf'.size = buf.size - 1
          /\ buf'.slot = [buf.slot EXCEPT ![slot] = kInvalidDenseId]
      BY <1>2 DEF OwnerRemove, Vacate
    <2>5. given' = [s \in DOMAIN given \ {slot} |-> given[s]]
      BY <1>2 DEF OwnerRemove
    <2>6. DOMAIN given' = DOMAIN given \ {slot}
      BY <2>5
    <2>7. given' \in [DOMAIN given' -> DenseIds]
      BY <2>5, <2>6
    <2>8. DOMAIN given' = {i \in 0 .. buf'.capacity - 1 : buf'.slot[i] # kInvalidDenseId}
      BY <2>1, <2>4, <2>6 DEF SparseType
    <2>9. \A i \in DOMAIN given' : buf'.slot[i] = given'[i]
      BY <2>4, <2>5, <2>6 DEF SparseType
    <2>10. IsFiniteSet(DOMAIN given') /\ buf'.size = Cardinality(DOMAIN given')
      BY <2>4, <2>6, FS_RemoveElement
    <2>11. QED
      BY <2>3, <2>7, <2>8, <2>9, <2>10
  <1>3. ASSUME NEW bytes \in 0 .. MaxBytes, OwnerReserve(bytes) PROVE OwnerInv'
    <2>1. bytes \in Nat
      BY UseAssumption
    <2>2. /\ SparseType(buf') /\ HolesExact(buf')
          /\ buf'.size = buf.size /\ buf.capacity <= buf'.capacity
          /\ FreeSlots(buf') = FreeSlots(buf) \cup (buf.capacity .. buf'.capacity - 1)
          /\ \A i \in 0 .. buf.capacity - 1 : buf'.slot[i] = buf.slot[i]
      BY <1>3, <2>1, ReserveIsExact DEF OwnerReserve
    <2>3. given' = given
      BY <1>3 DEF OwnerReserve
    <2>4. buf.capacity \in Nat /\ buf'.capacity \in Nat
      BY <2>2 DEF SparseType
    <2>5. DOMAIN given = (0 .. buf'.capacity - 1) \ FreeSlots(buf')
      BY <2>2, <2>4, OwnerHoldsRest
    <2>6. DOMAIN given' = {i \in 0 .. buf'.capacity - 1 : buf'.slot[i] # kInvalidDenseId}
      BY <2>3, <2>5 DEF FreeSlots
    <2>7. \A i \in DOMAIN given' : buf'.slot[i] = given'[i]
      BY <2>2, <2>3
    <2>8. QED
      BY <2>2, <2>3, <2>6, <2>7
  <1>4. CASE UNCHANGED ownerVars
    BY <1>4 DEF ownerVars
  <1>5. QED
    BY <1>1, <1>2, <1>3, <1>4 DEF OwnerNext

\* The invariant holds in every state a buffer's owner can bring it to.
LEMMA AlwaysOwner == OwnerSpec => []OwnerInv
  BY InitOwner, NextOwner, PTL DEF OwnerSpec

\* A sparse buffer keeps its shape through every fill, removal and growth.
THEOREM SparseTypeCorrect == OwnerSpec => []OwnerTypeOK
  <1>1. OwnerInv => OwnerTypeOK
    BY DEF OwnerInv
  <1>2. QED
    BY <1>1, AlwaysOwner, PTL

\* Its hole stack always holds exactly the free slots, each once.
THEOREM HoleStackExact == OwnerSpec => []HolesAreFree
  <1>1. OwnerInv => HolesAreFree
    BY DEF OwnerInv
  <1>2. QED
    BY <1>1, AlwaysOwner, PTL

\* The owner's dense ids stay in the slots it was given, whatever is filled,
\* removed or grown in between.
THEOREM OwnerKeepsSlots == OwnerSpec => []SlotsMatchOwner
  <1>1. OwnerInv => SlotsMatchOwner
    BY DEF OwnerInv
  <1>2. QED
    BY <1>1, AlwaysOwner, PTL

\* size_ counts the slots in use, so Remove of a slot the owner holds never
\* finds an empty buffer.
THEOREM SizeCountsLive == OwnerSpec => []SizeIsLiveCount
  <1>1. OwnerInv => SizeIsLiveCount
    BY DEF OwnerInv
  <1>2. QED
    BY <1>1, AlwaysOwner, PTL

-----------------------------------------------------------------------------
(* The archetype *)

\* Induction over the folds of the operations.
Adding   == INSTANCE DataFacts WITH Op <- Plus
Dropping == INSTANCE DataFacts WITH Op <- DropIfEmpty
Taking   == INSTANCE DataFacts WITH Op <- TakeNext
Moving   == INSTANCE DataFacts WITH Op <- MoveRow
Removing == INSTANCE DataFacts WITH Op <- RemoveDenseDataBuffer
Fitting  == INSTANCE DataFacts WITH Op <- RoomWith

-----------------------------------------------------------------------------
(* Sums *)

\* Sizes are numbers.
LEMMA ConstantsNat ==
  /\ kMaxBufferSize \in Nat /\ SparseUnit \in Nat \ {0} /\ DenseUnit \in Nat \ {0}
  /\ DataUnit \in Nat \ {0} /\ TargetUnit \in Nat \ {0}
  /\ SparseUnit <= kMaxBufferSize /\ DenseUnit <= kMaxBufferSize
  /\ NoEntity \notin Entity
BY SparseUnitAssumption, ArchetypeAssumption

\* Total adds the numbers one after the other.
LEMMA TotalSteps ==
  ASSUME NEW w, NEW n \in Nat, DOMAIN w = 1 .. n
  PROVE  \E g : /\ g[0] = 0 /\ \A k \in 1 .. n : g[k] = g[k - 1] + w[k]
                /\ Total(w) = g[n]
<1>1. Total(w) = Adding!Fold(0, w)
  BY Zenon DEF Total, Adding!Fold, FoldLeft, MapThenFoldSet,
    Adding!MapThenFoldSet, Max, Adding!Highest
<1>2. Adding!HasLength(w, n)
  BY DEF Adding!HasLength
<1>3. PICK g : Adding!Folding(g, 0, w, n)
  BY <1>2, Adding!FoldSteps
<1> QED BY <1>1, <1>3 DEF Adding!Folding, Plus

\* A total of natural numbers is one, and no less than any of them.
LEMMA TotalNat ==
  ASSUME NEW n \in Nat, NEW w \in [1 .. n -> Nat]
  PROVE  Total(w) \in Nat /\ \A i \in 1 .. n : w[i] <= Total(w)
<1>1. PICK g : /\ g[0] = 0 /\ \A k \in 1 .. n : g[k] = g[k - 1] + w[k]
               /\ Total(w) = g[n]
  BY TotalSteps
<1> DEFINE S == {k \in 0 .. n : g[k] \in Nat /\ \A i \in 1 .. k : w[i] <= g[k]}
<1>2. 0 \in S
  BY <1>1
<1>3. ASSUME NEW k \in 1 .. n, k - 1 \in S PROVE k \in S
  <2>1. g[k] = g[k - 1] + w[k] /\ w[k] \in Nat /\ g[k - 1] \in Nat
    BY <1>1, <1>3
  <2>2. \A i \in 1 .. k : i = k \/ i \in 1 .. k - 1
    OBVIOUS
  <2>3. \A i \in 1 .. k - 1 : w[i] <= g[k - 1] /\ w[i] \in Nat
    BY <1>3
  <2> QED BY <2>1, <2>2, <2>3
<1>4. 0 .. n \subseteq S
  <2> HIDE DEF S
  <2> QED BY <1>2, <1>3, Adding!RangeInduction
<1> QED BY <1>1, <1>4

\* Two lists of numbers that differ at one place.
LEMMA TotalChange ==
  ASSUME NEW n \in Nat, NEW v \in [1 .. n -> Nat], NEW w \in [1 .. n -> Nat],
         NEW i \in 1 .. n, \A k \in 1 .. n : k # i => v[k] = w[k]
  PROVE  Total(v) = Total(w) + v[i] - w[i]
<1>1. PICK g : /\ g[0] = 0 /\ \A k \in 1 .. n : g[k] = g[k - 1] + v[k]
               /\ Total(v) = g[n]
  BY TotalSteps
<1>2. PICK h : /\ h[0] = 0 /\ \A k \in 1 .. n : h[k] = h[k - 1] + w[k]
               /\ Total(w) = h[n]
  BY TotalSteps
<1> DEFINE S == {k \in 0 .. n : /\ g[k] \in Int /\ h[k] \in Int
                                /\ k < i => g[k] = h[k]
                                /\ k >= i => g[k] = h[k] + v[i] - w[i]}
<1>3. 0 \in S
  BY <1>1, <1>2
<1>4. ASSUME NEW k \in 1 .. n, k - 1 \in S PROVE k \in S
  <2>1. /\ g[k] = g[k - 1] + v[k] /\ h[k] = h[k - 1] + w[k]
        /\ v[k] \in Int /\ w[k] \in Int /\ v[i] \in Int /\ w[i] \in Int
    BY <1>1, <1>2
  <2>2. g[k - 1] \in Int /\ h[k - 1] \in Int
    BY <1>4
  <2>3. g[k] \in Int /\ h[k] \in Int
    <3>1. \A x, y \in Int : x + y \in Int
      OBVIOUS
    <3> QED BY Zenon, <2>1, <2>2, <3>1
  <2>4. k < i => g[k] = h[k]
    <3>1. k < i => g[k - 1] = h[k - 1] /\ v[k] = w[k]
      BY <1>4
    <3> QED BY <2>1, <3>1
  <2>5. k = i => g[k] = h[k] + v[i] - w[i]
    <3>1. k = i => g[k - 1] = h[k - 1]
      BY <1>4
    <3>2. k = i => g[k] = h[k - 1] + v[k]
      BY <2>1, <3>1
    <3>3. h[k - 1] + v[k] = h[k] + v[k] - w[k]
      BY SMTT(30), <2>1, <2>2
    <3> QED BY <3>2, <3>3
  <2>6. k > i => g[k] = h[k] + v[i] - w[i]
    <3>1. k > i => g[k - 1] = h[k - 1] + v[i] - w[i] /\ v[k] = w[k]
      BY <1>4
    <3>2. k > i => g[k] = (h[k - 1] + v[i] - w[i]) + w[k]
      BY <2>1, <3>1
    <3>3. (h[k - 1] + v[i] - w[i]) + w[k] = h[k] + v[i] - w[i]
      BY SMTT(30), <2>1, <2>2
    <3> QED BY <3>2, <3>3
  <2>7. k \in 0 .. n /\ (k >= i => k = i \/ k > i)
    OBVIOUS
  <2> QED BY <2>3, <2>4, <2>5, <2>6, <2>7
<1>5. 0 .. n \subseteq S
  <2> HIDE DEF S
  <2> QED BY <1>3, <1>4, Adding!RangeInduction
<1>6. n \in S /\ n >= i
  BY <1>5
<1> QED BY <1>1, <1>2, <1>6

\* A list with one number more.
LEMMA TotalLonger ==
  ASSUME NEW n \in Nat, NEW v \in [1 .. n + 1 -> Nat], NEW w \in [1 .. n -> Nat],
         \A k \in 1 .. n : v[k] = w[k]
  PROVE  Total(v) = Total(w) + v[n + 1]
<1>1. PICK g : /\ g[0] = 0 /\ \A k \in 1 .. n + 1 : g[k] = g[k - 1] + v[k]
               /\ Total(v) = g[n + 1]
  <2>1. PICK m \in Nat : m = n + 1
    OBVIOUS
  <2>2. DOMAIN v = 1 .. m
    BY <2>1
  <2>3. \E g : /\ g[0] = 0 /\ \A k \in 1 .. m : g[k] = g[k - 1] + v[k]
               /\ Total(v) = g[m]
    BY Zenon, <2>2, TotalSteps
  <2> QED BY <2>1, <2>3
<1>2. PICK h : /\ h[0] = 0 /\ \A k \in 1 .. n : h[k] = h[k - 1] + w[k]
               /\ Total(w) = h[n]
  BY TotalSteps
<1> DEFINE S == {k \in 0 .. n : g[k] = h[k]}
<1>3. 0 \in S
  BY <1>1, <1>2
<1>4. ASSUME NEW k \in 1 .. n, k - 1 \in S PROVE k \in S
  <2>1. g[k] = g[k - 1] + v[k] /\ h[k] = h[k - 1] + w[k] /\ v[k] = w[k]
    BY <1>1, <1>2
  <2> QED BY <1>4, <2>1
<1>5. 0 .. n \subseteq S
  <2> HIDE DEF S
  <2> QED BY <1>3, <1>4, Adding!RangeInduction
<1>6. g[n + 1] = g[n] + v[n + 1]
  <2>1. n + 1 \in 1 .. n + 1 /\ (n + 1) - 1 = n
    OBVIOUS
  <2> QED BY <1>1, <2>1
<1> QED BY <1>1, <1>2, <1>5, <1>6

-----------------------------------------------------------------------------
(* Sequences *)

\* Front drops the last element.
LEMMA FrontFacts ==
  ASSUME NEW R, NEW s \in Seq(R), s # <<>>
  PROVE  /\ Front(s) \in Seq(R) /\ Len(Front(s)) = Len(s) - 1
         /\ \A k \in 1 .. Len(s) - 1 : Front(s)[k] = s[k]
         /\ Len(s) \in Nat \ {0} /\ Last(s) = s[Len(s)] /\ Last(s) \in R
<1> DEFINE m == Len(s) - 1
<1>1. Len(s) \in Nat \ {0} /\ m \in Nat /\ s[Len(s)] \in R
  OBVIOUS
<1>2. Front(s) = SubSeq(s, 1, m)
  BY DEF Front
<1>3. Front(s) = [k \in 1 .. m |-> s[k]]
  BY <1>1, <1>2
<1>4. \A k \in 1 .. m : s[k] \in R
  BY <1>1
<1> HIDE DEF m
<1>5. Front(s) \in Seq(R) /\ Len(Front(s)) = m /\ \A k \in 1 .. m : Front(s)[k] = s[k]
  BY <1>1, <1>3, <1>4
<1> QED BY <1>1, <1>5 DEF m, Last

\* Array::SwapRemove takes one element out of a list without duplicates.
LEMMA SwapRemoveFacts ==
  ASSUME NEW R, NEW s \in Seq(R), IsInjective(s), NEW n \in 1 .. Len(s)
  PROVE  /\ SwapRemove(s, n) \in Seq(R) /\ IsInjective(SwapRemove(s, n))
         /\ ToSet(SwapRemove(s, n)) = ToSet(s) \ {s[n]}
<1> DEFINE m == Len(s)
           t == SwapRemove(s, n)
<1>1. m \in Nat \ {0} /\ s[m] \in R
  OBVIOUS
<1>2. ReplaceAt(s, n, Last(s)) \in Seq(R) /\ ReplaceAt(s, n, Last(s)) # <<>>
      /\ Len(ReplaceAt(s, n, Last(s))) = m
      /\ \A k \in 1 .. m : ReplaceAt(s, n, Last(s))[k] = IF k = n THEN s[m] ELSE s[k]
  BY <1>1 DEF ReplaceAt, Last
<1>3. /\ t \in Seq(R) /\ Len(t) = m - 1
      /\ \A k \in 1 .. m - 1 : t[k] = IF k = n THEN s[m] ELSE s[k]
  <2>1. /\ t \in Seq(R) /\ Len(t) = m - 1
        /\ \A k \in 1 .. m - 1 : t[k] = ReplaceAt(s, n, Last(s))[k]
    BY <1>2, FrontFacts DEF SwapRemove
  <2> QED BY <2>1, <1>1, <1>2
<1> HIDE DEF t
<1>4. DOMAIN t = 1 .. m - 1 /\ DOMAIN s = 1 .. m
  BY <1>3, <1>1
<1>5. IsInjective(t)
  BY <1>1, <1>3, <1>4 DEF IsInjective
<1>6. ToSet(t) \subseteq ToSet(s) \ {s[n]}
  BY <1>1, <1>3, <1>4 DEF IsInjective, ToSet
<1>7. ASSUME NEW k \in 1 .. m, s[k] # s[n] PROVE s[k] \in ToSet(t)
  <2>1. CASE k # m
    <3>1. k \in 1 .. m - 1 /\ t[k] = s[k]
      BY <1>1, <1>3, <1>7, <2>1
    <3> QED BY <3>1, <1>4 DEF ToSet
  <2>2. CASE k = m
    <3>1. n \in 1 .. m - 1 /\ t[n] = s[k]
      BY <1>1, <1>3, <1>7, <2>2
    <3> QED BY <3>1, <1>4 DEF ToSet
  <2> QED BY <2>1, <2>2
<1>8. ToSet(s) \ {s[n]} \subseteq ToSet(t)
  BY <1>4, <1>7 DEF ToSet
<1> QED BY <1>3, <1>5, <1>6, <1>8 DEF t

\* An element that is not in the list may be appended to it.
LEMMA AppendNew ==
  ASSUME NEW R, NEW s \in Seq(R), IsInjective(s), NEW x \in R, x \notin ToSet(s)
  PROVE  /\ Append(s, x) \in Seq(R) /\ IsInjective(Append(s, x))
         /\ ToSet(Append(s, x)) = ToSet(s) \cup {x}
<1> DEFINE m == Len(s)
           t == Append(s, x)
<1>1. /\ t \in Seq(R) /\ m \in Nat /\ DOMAIN t = 1 .. m + 1 /\ DOMAIN s = 1 .. m
      /\ t[m + 1] = x /\ \A k \in 1 .. m : t[k] = s[k]
  OBVIOUS
<1> HIDE DEF t
<1>2. \A k \in 1 .. m : s[k] # x
  BY <1>1 DEF ToSet
<1>3. IsInjective(t)
  BY <1>1, <1>2 DEF IsInjective
<1>4. ToSet(t) = ToSet(s) \cup {x}
  <2>1. 1 .. m + 1 = (1 .. m) \cup {m + 1}
    BY <1>1
  <2> QED BY <1>1, <2>1 DEF ToSet
<1> QED BY <1>1, <1>3, <1>4 DEF t

-----------------------------------------------------------------------------
(* The shape of the object *)

\* A sparse buffer whose hole stack is exact.
SparseBuffers ==
  {b \in [bytes : Nat, capacity : Nat, size : Nat, hole_cnt : Nat,
          slot : UNION {[0 .. c - 1 -> Nat \cup {kInvalidDenseId}] : c \in Nat},
          hole : UNION {[0 .. c - 1 -> 0 .. c - 1] : c \in Nat}] :
     SparseType(b) /\ HolesExact(b)}

PackedBuffers(Row) ==
  {b \in [bytes : Nat, capacity : Nat, rows : Seq(Row)] : Len(b.rows) <= b.capacity}

Row == Entity \cup {NoEntity}

FailedChecks ==
  {"GetSparseRoute", "GetDenseRoute", "GetDataRoute", "operator[]", "AlignedBuffer",
   "PushSparseDenseBuffer", "ArchetypeDataBuffer::Push", "SparseBuffer::Remove"}

ArchType ==
  [sparse : Seq(SparseBuffers), available_sparse : Seq(Nat),
   dense : Seq(PackedBuffers(Nat)), data : Seq(PackedBuffers(Row)),
   size : Int, rv : Seq(Nat \cup Row), dcheck : {"ok"} \cup FailedChecks]

\* A buffer of the shape of SparseBuffer is one of SparseBuffers.
LEMMA IsSparseBuffer ==
  ASSUME NEW b, SparseType(b), HolesExact(b)
  PROVE  b \in SparseBuffers
<1>1. b.capacity \in Nat
  BY DEF SparseType
<1>2. /\ [0 .. b.capacity - 1 -> Nat \cup {kInvalidDenseId}] \in
           {[0 .. c - 1 -> Nat \cup {kInvalidDenseId}] : c \in Nat}
      /\ [0 .. b.capacity - 1 -> 0 .. b.capacity - 1] \in
           {[0 .. c - 1 -> 0 .. c - 1] : c \in Nat}
  BY <1>1
<1>3. /\ b.slot \in UNION {[0 .. c - 1 -> Nat \cup {kInvalidDenseId}] : c \in Nat}
      /\ b.hole \in UNION {[0 .. c - 1 -> 0 .. c - 1] : c \in Nat}
  <2>1. /\ b.slot \in [0 .. b.capacity - 1 -> Nat \cup {kInvalidDenseId}]
        /\ b.hole \in [0 .. b.capacity - 1 -> 0 .. b.capacity - 1]
    BY DEF SparseType
  <2> QED BY Zenon, <1>2, <2>1
<1>4. b \in [bytes : Nat, capacity : Nat, size : Nat, hole_cnt : Nat,
             slot : UNION {[0 .. c - 1 -> Nat \cup {kInvalidDenseId}] : c \in Nat},
             hole : UNION {[0 .. c - 1 -> 0 .. c - 1] : c \in Nat}]
  <2> DEFINE X == UNION {[0 .. c - 1 -> Nat \cup {kInvalidDenseId}] : c \in Nat}
             Y == UNION {[0 .. c - 1 -> 0 .. c - 1] : c \in Nat}
  <2>1. b.slot \in X /\ b.hole \in Y
    BY <1>3
  <2> HIDE DEF X, Y
  <2>2. b \in [bytes : Nat, capacity : Nat, size : Nat, hole_cnt : Nat, slot : X, hole : Y]
    BY <2>1 DEF SparseType
  <2> QED BY <2>2 DEF X, Y
<1> QED BY <1>4 DEF SparseBuffers

\* What is known of one.
LEMMA SparseBufferFacts ==
  ASSUME NEW b \in SparseBuffers
  PROVE  /\ SparseType(b) /\ HolesExact(b)
         /\ b.size \in Nat /\ b.capacity \in Nat /\ b.hole_cnt \in Nat /\ b.bytes \in Nat
         /\ b.hole_cnt = b.capacity - b.size
BY DEF SparseBuffers, SparseType, HolesExact

\* A new buffer, of any size.
LEMMA NewSparseBuffer ==
  ASSUME NEW bytes \in Nat
  PROVE  /\ SparseNew(bytes) \in SparseBuffers /\ SparseNew(bytes).size = 0
         /\ SparseNew(bytes).capacity = bytes \div SparseUnit
         /\ SparseNew(bytes).hole_cnt = bytes \div SparseUnit
<1>1. SparseNew(bytes) \in SparseBuffers
  BY NewIsExact, IsSparseBuffer
<1> QED BY <1>1 DEF SparseNew

\* The live slots of a list in which one buffer changes.
LEMMA LiveSlotsChange ==
  ASSUME NEW s \in Seq(SparseBuffers), NEW t \in Seq(SparseBuffers), Len(t) = Len(s),
         NEW i \in 1 .. Len(s), \A k \in 1 .. Len(s) : k # i => t[k] = s[k]
  PROVE  LiveSlots(t) = LiveSlots(s) + t[i].size - s[i].size
<1> DEFINE n == Len(s)
           v == [k \in DOMAIN t |-> t[k].size]
           w == [k \in DOMAIN s |-> s[k].size]
<1>1. n \in Nat /\ DOMAIN s = 1 .. n /\ DOMAIN t = 1 .. n
  OBVIOUS
<1>2. \A k \in 1 .. n : t[k].size \in Nat /\ s[k].size \in Nat
  <2>1. \A k \in 1 .. n : t[k] \in SparseBuffers /\ s[k] \in SparseBuffers
    BY <1>1
  <2> QED BY <2>1, SparseBufferFacts
<1>3. v \in [1 .. n -> Nat] /\ w \in [1 .. n -> Nat]
  BY <1>1, <1>2
<1>4. \A k \in 1 .. n : v[k] = t[k].size /\ w[k] = s[k].size
  BY <1>1
<1>5. LiveSlots(t) = Total(v) /\ LiveSlots(s) = Total(w)
  BY DEF LiveSlots
<1>6. i \in 1 .. n /\ \A k \in 1 .. n : k # i => v[k] = w[k]
  BY <1>4
<1> HIDE DEF v, w, n
<1>7. Total(v) = Total(w) + v[i] - w[i]
  BY <1>1, <1>3, <1>6, TotalChange
<1> QED BY <1>4, <1>5, <1>6, <1>7

\* ... and of one with one buffer more.
LEMMA LiveSlotsLonger ==
  ASSUME NEW s \in Seq(SparseBuffers), NEW t \in Seq(SparseBuffers),
         Len(t) = Len(s) + 1, \A k \in 1 .. Len(s) : t[k] = s[k]
  PROVE  LiveSlots(t) = LiveSlots(s) + t[Len(t)].size
<1> DEFINE n == Len(s)
           v == [k \in DOMAIN t |-> t[k].size]
           w == [k \in DOMAIN s |-> s[k].size]
<1>1. n \in Nat /\ DOMAIN s = 1 .. n /\ DOMAIN t = 1 .. n + 1
  OBVIOUS
<1>2. /\ \A k \in 1 .. n + 1 : t[k].size \in Nat
      /\ \A k \in 1 .. n : s[k].size \in Nat
  <2>1. /\ \A k \in 1 .. n + 1 : t[k] \in SparseBuffers
        /\ \A k \in 1 .. n : s[k] \in SparseBuffers
    BY <1>1
  <2> QED BY <2>1, SparseBufferFacts
<1>3. v \in [1 .. n + 1 -> Nat] /\ w \in [1 .. n -> Nat]
  BY <1>1, <1>2
<1>4. /\ \A k \in 1 .. n + 1 : v[k] = t[k].size
      /\ \A k \in 1 .. n : w[k] = s[k].size /\ k \in 1 .. n + 1
  BY <1>1
<1>5. LiveSlots(t) = Total(v) /\ LiveSlots(s) = Total(w)
  BY DEF LiveSlots
<1> HIDE DEF v, w
<1>6. Total(v) = Total(w) + v[n + 1]
  <2>1. \A k \in 1 .. n : v[k] = w[k]
    BY <1>4
  <2> HIDE DEF n
  <2> QED BY <1>1, <1>3, <2>1, TotalLonger
<1>7. v[n + 1] = t[Len(t)].size
  BY <1>1, <1>4
<1> QED BY <1>5, <1>6, <1>7

\* The live slots are a number, no less than those of any buffer.
LEMMA LiveSlotsNat ==
  ASSUME NEW s \in Seq(SparseBuffers)
  PROVE  LiveSlots(s) \in Nat /\ \A i \in 1 .. Len(s) : s[i].size <= LiveSlots(s)
<1> DEFINE n == Len(s)
           w == [k \in DOMAIN s |-> s[k].size]
<1>1. n \in Nat /\ DOMAIN s = 1 .. n
  OBVIOUS
<1>2. \A k \in 1 .. n : s[k].size \in Nat
  <2>1. \A k \in 1 .. n : s[k] \in SparseBuffers
    BY <1>1
  <2> QED BY <2>1, SparseBufferFacts
<1>3. w \in [1 .. n -> Nat] /\ \A k \in 1 .. n : w[k] = s[k].size
  BY <1>1, <1>2
<1>4. LiveSlots(s) = Total(w)
  BY DEF LiveSlots
<1> HIDE DEF w, n
<1>5. Total(w) \in Nat /\ \A i \in 1 .. n : w[i] <= Total(w)
  BY <1>1, <1>3, TotalNat
<1> QED BY <1>3, <1>4, <1>5 DEF n

\* What is known of a packed buffer.
LEMMA PackedBufferFacts ==
  ASSUME NEW R, NEW b \in PackedBuffers(R)
  PROVE  /\ b.rows \in Seq(R) /\ Len(b.rows) \in Nat /\ b.capacity \in Nat
         /\ b.bytes \in Nat /\ Len(b.rows) <= b.capacity
         /\ b = [bytes |-> b.bytes, capacity |-> b.capacity, rows |-> b.rows]
<1>1. b \in [bytes : Nat, capacity : Nat, rows : Seq(R)] /\ Len(b.rows) <= b.capacity
  BY DEF PackedBuffers
<1> QED BY <1>1

\* A packed buffer from its parts.
LEMMA IsPackedBuffer ==
  ASSUME NEW R, NEW bytes \in Nat, NEW capacity \in Nat, NEW rows \in Seq(R),
         Len(rows) <= capacity
  PROVE  [bytes |-> bytes, capacity |-> capacity, rows |-> rows] \in PackedBuffers(R)
BY DEF PackedBuffers

\* The rows of a list in which one buffer changes.
LEMMA RowsChange ==
  ASSUME NEW R, NEW s \in Seq(PackedBuffers(R)), NEW t \in Seq(PackedBuffers(R)), Len(t) = Len(s),
         NEW i \in 1 .. Len(s), \A k \in 1 .. Len(s) : k # i => t[k] = s[k]
  PROVE  RowsIn(t) = RowsIn(s) + Len(t[i].rows) - Len(s[i].rows)
<1> DEFINE n == Len(s)
           v == [k \in DOMAIN t |-> Len(t[k].rows)]
           w == [k \in DOMAIN s |-> Len(s[k].rows)]
<1>1. n \in Nat /\ DOMAIN s = 1 .. n /\ DOMAIN t = 1 .. n
  OBVIOUS
<1>2. \A k \in 1 .. n : Len(t[k].rows) \in Nat /\ Len(s[k].rows) \in Nat
  <2>1. \A k \in 1 .. n : t[k] \in PackedBuffers(R) /\ s[k] \in PackedBuffers(R)
    BY <1>1
  <2> QED BY <2>1, PackedBufferFacts
<1>3. v \in [1 .. n -> Nat] /\ w \in [1 .. n -> Nat]
  BY <1>1, <1>2
<1>4. \A k \in 1 .. n : v[k] = Len(t[k].rows) /\ w[k] = Len(s[k].rows)
  BY <1>1
<1>5. RowsIn(t) = Total(v) /\ RowsIn(s) = Total(w)
  BY DEF RowsIn
<1>6. i \in 1 .. n /\ \A k \in 1 .. n : k # i => v[k] = w[k]
  BY <1>4
<1> HIDE DEF v, w, n
<1>7. Total(v) = Total(w) + v[i] - w[i]
  BY <1>1, <1>3, <1>6, TotalChange
<1> QED BY <1>4, <1>5, <1>6, <1>7

\* ... and of one with one buffer more.
LEMMA RowsLonger ==
  ASSUME NEW R, NEW s \in Seq(PackedBuffers(R)), NEW t \in Seq(PackedBuffers(R)),
         Len(t) = Len(s) + 1, \A k \in 1 .. Len(s) : t[k] = s[k]
  PROVE  RowsIn(t) = RowsIn(s) + Len(t[Len(t)].rows)
<1> DEFINE n == Len(s)
           v == [k \in DOMAIN t |-> Len(t[k].rows)]
           w == [k \in DOMAIN s |-> Len(s[k].rows)]
<1>1. n \in Nat /\ DOMAIN s = 1 .. n /\ DOMAIN t = 1 .. n + 1
  OBVIOUS
<1>2. /\ \A k \in 1 .. n + 1 : Len(t[k].rows) \in Nat
      /\ \A k \in 1 .. n : Len(s[k].rows) \in Nat
  <2>1. /\ \A k \in 1 .. n + 1 : t[k] \in PackedBuffers(R)
        /\ \A k \in 1 .. n : s[k] \in PackedBuffers(R)
    BY <1>1
  <2> QED BY <2>1, PackedBufferFacts
<1>3. v \in [1 .. n + 1 -> Nat] /\ w \in [1 .. n -> Nat]
  BY <1>1, <1>2
<1>4. /\ \A k \in 1 .. n + 1 : v[k] = Len(t[k].rows)
      /\ \A k \in 1 .. n : w[k] = Len(s[k].rows) /\ k \in 1 .. n + 1
  BY <1>1
<1>5. RowsIn(t) = Total(v) /\ RowsIn(s) = Total(w)
  BY DEF RowsIn
<1> HIDE DEF v, w
<1>6. Total(v) = Total(w) + v[n + 1]
  <2>1. \A k \in 1 .. n : v[k] = w[k]
    BY <1>4
  <2> HIDE DEF n
  <2> QED BY <1>1, <1>3, <2>1, TotalLonger
<1>7. v[n + 1] = Len(t[Len(t)].rows)
  BY <1>1, <1>4
<1> QED BY <1>5, <1>6, <1>7

\* The rows are a number, no less than those of any buffer.
LEMMA RowsNat ==
  ASSUME NEW R, NEW s \in Seq(PackedBuffers(R))
  PROVE  RowsIn(s) \in Nat /\ \A i \in 1 .. Len(s) : Len(s[i].rows) <= RowsIn(s)
<1> DEFINE n == Len(s)
           w == [k \in DOMAIN s |-> Len(s[k].rows)]
<1>1. n \in Nat /\ DOMAIN s = 1 .. n
  OBVIOUS
<1>2. \A k \in 1 .. n : Len(s[k].rows) \in Nat
  <2>1. \A k \in 1 .. n : s[k] \in PackedBuffers(R)
    BY <1>1
  <2> QED BY <2>1, PackedBufferFacts
<1>3. w \in [1 .. n -> Nat] /\ \A k \in 1 .. n : w[k] = Len(s[k].rows)
  BY <1>1, <1>2
<1>4. RowsIn(s) = Total(w)
  BY DEF RowsIn
<1> HIDE DEF w, n
<1>5. Total(w) \in Nat /\ \A i \in 1 .. n : w[i] <= Total(w)
  BY <1>1, <1>3, TotalNat
<1> QED BY <1>3, <1>4, <1>5 DEF n

-----------------------------------------------------------------------------
(* The list of available sparse buffers *)

\* A push can take a hole of the buffer, or allocate it again.
Usable(b) == b.hole_cnt > 0 \/ b.capacity = 0

\* available_sparse_ lists the usable buffers, but for the numbers in open,
\* of which nothing is known.
ListedBut(open, sparse, available) ==
  /\ \A x \in ToSet(available) : x + 1 \in DOMAIN sparse
  /\ \A n \in DOMAIN sparse : n - 1 \notin open =>
       (n - 1 \in ToSet(available) <=> Usable(sparse[n]))

Listed(sparse, available) == ListedBut({}, sparse, available)

\* The parts of an archetype the sparse buffers do not concern.
SameRows(a, b) == b.dense = a.dense /\ b.data = a.data /\ b.size = a.size

\* Reserve keeps the live slots.
LEMMA ReserveSparseBuffer ==
  ASSUME NEW b \in SparseBuffers, NEW bytes \in Nat
  PROVE  SparseReserve(b, bytes) \in SparseBuffers /\ SparseReserve(b, bytes).size = b.size
<1>1. /\ SparseType(SparseReserve(b, bytes)) /\ HolesExact(SparseReserve(b, bytes))
      /\ SparseReserve(b, bytes).size = b.size
  BY SparseBufferFacts, ReserveIsExact
<1> QED BY <1>1, IsSparseBuffer

\* Numbers of list positions and of buffers.
LEMMA OneElement ==
  ASSUME NEW R, NEW x \in R
  PROVE  /\ <<x>> \in Seq(R) /\ Len(<<x>>) = 1 /\ <<x>>[1] = x /\ <<x>> # <<>>
         /\ IsInjective(<<x>>) /\ ToSet(<<x>>) = {x} /\ DOMAIN <<x>> = {1}
<1>1. <<x>> \in Seq(R) /\ Len(<<x>>) = 1 /\ <<x>>[1] = x /\ DOMAIN <<x>> = {1}
  OBVIOUS
<1> QED BY <1>1 DEF IsInjective, ToSet

\* EnsureNotFullSparse leaves a buffer a push can take, first in the list.
LEMMA EnsureSparseFacts ==
  ASSUME NEW a \in ArchType, Listed(a.sparse, a.available_sparse),
         IsInjective(a.available_sparse), NEW b, b = EnsureNotFullSparse(a)
  PROVE  /\ b \in ArchType /\ SameRows(a, b) /\ b.dcheck = a.dcheck
         /\ IsInjective(b.available_sparse) /\ b.available_sparse # <<>>
         /\ ListedBut({b.available_sparse[1]}, b.sparse, b.available_sparse)
         /\ LiveSlots(b.sparse) = LiveSlots(a.sparse)
<1> DEFINE s == a.sparse
           n == Len(s)
<1> USE SparseUnitAssumption, ArchetypeAssumption
<1>1. /\ s \in Seq(SparseBuffers) /\ n \in Nat /\ DOMAIN s = 1 .. n
      /\ a.available_sparse \in Seq(Nat)
  BY DEF ArchType
<1>2. 0 \in Nat /\ IsInjective(<<0>>) /\ <<0>> \in Seq(Nat) /\ <<0>> # <<>> /\ <<0>>[1] = 0
      /\ ToSet(<<0>>) = {0}
  BY OneElement
<1>3. CASE a.available_sparse # <<>>
  <2>1. b = a
    BY <1>3 DEF EnsureNotFullSparse
  <2> QED BY <2>1, <1>3 DEF Listed, ListedBut, SameRows
<1>4. CASE a.available_sparse = <<>> /\ s = <<>>
  <2> DEFINE new == SparseNew(SparseUnit)
  <2>1. new \in SparseBuffers /\ new.size = 0
    BY NewSparseBuffer
  <2>2. b = [a EXCEPT !.sparse = <<new>>, !.available_sparse = <<0>>]
    BY <1>4 DEF EnsureNotFullSparse
  <2> HIDE DEF new
  <2>3. <<new>> \in Seq(SparseBuffers) /\ Len(<<new>>) = 1 /\ <<new>>[1] = new
        /\ DOMAIN <<new>> = {1}
    BY <2>1, OneElement
  <2>4. b \in ArchType /\ b.sparse = <<new>> /\ b.available_sparse = <<0>> /\ SameRows(a, b)
        /\ b.dcheck = a.dcheck
    BY <1>2, <2>2, <2>3 DEF ArchType, SameRows
  <2>5. ListedBut({0}, <<new>>, <<0>>)
    BY <1>2, <2>3 DEF ListedBut
  <2>6. LiveSlots(<<new>>) = LiveSlots(s)
    <3>1. Len(s) = 0 /\ n = 0 /\ LiveSlots(s) \in Nat
      BY <1>4, <1>1, LiveSlotsNat
    <3>2. Len(<<new>>) = Len(s) + 1 /\ \A k \in 1 .. Len(s) : <<new>>[k] = s[k]
      BY <2>3, <3>1
    <3>3. LiveSlots(<<new>>) = LiveSlots(s) + <<new>>[Len(<<new>>)].size
      BY <1>1, <2>3, <3>2, LiveSlotsLonger
    <3> QED BY <2>1, <2>3, <3>1, <3>3
  <2> QED BY <1>2, <2>4, <2>5, <2>6
<1>5. CASE a.available_sparse = <<>> /\ n = 1 /\ s[1].bytes < kMaxBufferSize
  <2> DEFINE grown == SparseReserve(s[1], GrownBytes(s[1], SparseUnit))
             t == [s EXCEPT ![1] = grown]
  <2>1. s[1] \in SparseBuffers /\ s # <<>>
    BY <1>1, <1>5
  <2>2. GrownBytes(s[1], SparseUnit) \in Nat
    <3>1. s[1].bytes \in Nat
      BY <2>1, SparseBufferFacts
    <3> QED BY <3>1 DEF GrownBytes
  <2>3. grown \in SparseBuffers /\ grown.size = s[1].size
    BY <2>1, <2>2, ReserveSparseBuffer
  <2>4. b = [a EXCEPT !.sparse[1] = grown, !.available_sparse = <<0>>]
    BY <1>5, <2>1 DEF EnsureNotFullSparse
  <2> HIDE DEF grown
  <2>5. t \in Seq(SparseBuffers) /\ Len(t) = 1 /\ DOMAIN t = {1} /\ t[1] = grown
    BY <1>1, <1>5, <2>3
  <2>6. b \in ArchType /\ b.sparse = t /\ b.available_sparse = <<0>> /\ SameRows(a, b)
        /\ b.dcheck = a.dcheck
    BY <1>2, <2>4, <2>5 DEF ArchType, SameRows
  <2>7. ListedBut({0}, t, <<0>>)
    BY <1>2, <2>5 DEF ListedBut
  <2>8. LiveSlots(t) = LiveSlots(s)
    <3>1. 1 \in 1 .. Len(s) /\ Len(t) = Len(s) /\ \A k \in 1 .. Len(s) : k # 1 => t[k] = s[k]
      BY <1>5, <2>5
    <3>2. LiveSlots(t) = LiveSlots(s) + t[1].size - s[1].size
      BY <1>1, <2>5, <3>1, LiveSlotsChange
    <3>3. LiveSlots(s) \in Nat /\ s[1].size \in Nat
      BY <1>1, <2>1, LiveSlotsNat, SparseBufferFacts
    <3> QED BY <2>3, <2>5, <3>2, <3>3
  <2> HIDE DEF t
  <2> QED BY <1>2, <2>6, <2>7, <2>8
<1>6. CASE a.available_sparse = <<>> /\ s # <<>> /\ ~(n = 1 /\ s[1].bytes < kMaxBufferSize)
  <2> DEFINE new == SparseNew(kMaxBufferSize)
             t == Append(s, new)
  <2>1. new \in SparseBuffers /\ new.size = 0
    BY NewSparseBuffer
  <2>2. new.hole_cnt > 0
    <3>1. new.hole_cnt = kMaxBufferSize \div SparseUnit
      BY NewSparseBuffer
    <3>2. SparseUnit \div SparseUnit <= kMaxBufferSize \div SparseUnit
      BY DivMonotone
    <3>3. SparseUnit \div SparseUnit = 1 /\ kMaxBufferSize \div SparseUnit \in Nat
      BY DivNat
    <3> QED BY <3>1, <3>2, <3>3
  <2>3. b = [a EXCEPT !.sparse = t, !.available_sparse = <<n>>]
    BY <1>6 DEF EnsureNotFullSparse
  <2> HIDE DEF new
  <2>4. t \in Seq(SparseBuffers) /\ Len(t) = n + 1 /\ DOMAIN t = 1 .. n + 1
        /\ t[n + 1] = new /\ \A k \in 1 .. n : t[k] = s[k]
    BY <1>1, <2>1
  <2>5. IsInjective(<<n>>) /\ <<n>> \in Seq(Nat) /\ <<n>> # <<>> /\ <<n>>[1] = n
        /\ ToSet(<<n>>) = {n}
    BY <1>1, OneElement
  <2>6. b \in ArchType /\ b.sparse = t /\ b.available_sparse = <<n>> /\ SameRows(a, b)
        /\ b.dcheck = a.dcheck
    BY <2>3, <2>4, <2>5 DEF ArchType, SameRows
  <2> HIDE DEF t
  <2>7. ListedBut({n}, t, <<n>>)
    <3>1. ASSUME NEW k \in 1 .. n PROVE ~Usable(t[k])
      <4>1. k - 1 \notin ToSet(a.available_sparse)
        BY <1>6 DEF ToSet
      <4> QED BY <1>1, <2>4, <4>1 DEF Listed, ListedBut
    <3>2. ASSUME NEW k \in 1 .. n + 1, k - 1 \notin {n} PROVE k \in 1 .. n
      <4>1. PICK m \in Nat : m = n
        BY <1>1
      <4>2. k \in 1 .. m + 1 /\ k - 1 # m
        BY Zenon, <3>2, <4>1
      <4>3. k \in 1 .. m
        BY <4>2
      <4> QED BY Zenon, <4>1, <4>3
    <3>3. ASSUME NEW k \in 1 .. n + 1, k - 1 \notin {n}
          PROVE  k - 1 \in ToSet(<<n>>) <=> Usable(t[k])
      BY Zenon, <2>5, <3>1, <3>2, <3>3
    <3>4. \A x \in ToSet(<<n>>) : x + 1 \in DOMAIN t
      <4>1. n + 1 \in DOMAIN t
        BY <1>1, <2>4
      <4> QED BY Zenon, <2>5, <4>1
    <3> QED BY Zenon, <2>4, <3>3, <3>4 DEF ListedBut
  <2>8. LiveSlots(t) = LiveSlots(s)
    <3>1. LiveSlots(t) = LiveSlots(s) + t[Len(t)].size
      BY <1>1, <2>4, LiveSlotsLonger
    <3>2. LiveSlots(s) \in Nat /\ t[Len(t)].size = 0
      BY <1>1, <2>1, <2>4, LiveSlotsNat
    <3>3. LiveSlots(s) + 0 = LiveSlots(s)
      BY <3>2
    <3> QED BY <3>1, <3>2, <3>3
  <2> QED BY <2>5, <2>6, <2>7, <2>8
<1> QED BY <1>3, <1>4, <1>5, <1>6

-----------------------------------------------------------------------------
(* Push: the sparse and the dense buffers *)

\* Positions are natural numbers.
LEMMA PositionNat ==
  ASSUME NEW x \in Nat, NEW y \in Nat, NEW z \in Nat
  PROVE  x * y + z \in Nat
<1>1. x * y \in Nat
  OBVIOUS
<1> QED BY <1>1

\* FillHole takes one hole.
LEMMA FillSparseBuffer ==
  ASSUME NEW b \in SparseBuffers, b.hole_cnt > 0, NEW d \in Nat
  PROVE  /\ FillHole(b, d) \in SparseBuffers /\ FillHole(b, d).size = b.size + 1
         /\ NextHole(b) \in Nat /\ b.capacity > 0
         /\ Usable(FillHole(b, d)) <=> b.hole_cnt # 1
<1>1. /\ SparseType(b) /\ HolesExact(b) /\ b.size \in Nat /\ b.capacity \in Nat
      /\ b.hole_cnt \in Nat /\ b.hole_cnt = b.capacity - b.size
  BY SparseBufferFacts
<1>2. /\ NextHole(b) \in FreeSlots(b)
      /\ SparseType(FillHole(b, d)) /\ HolesExact(FillHole(b, d))
  BY <1>1, FillIsExact
<1>3. FillHole(b, d) \in SparseBuffers
  BY <1>2, IsSparseBuffer
<1>4. NextHole(b) \in 0 .. b.capacity - 1
  BY <1>2 DEF FreeSlots
<1>5. /\ FillHole(b, d).size = b.size + 1 /\ FillHole(b, d).hole_cnt = b.hole_cnt - 1
      /\ FillHole(b, d).capacity = b.capacity
  BY DEF FillHole
<1>6. b.capacity > 0 /\ NextHole(b) \in Nat
  BY <1>1, <1>4
<1>7. Usable(FillHole(b, d)) <=> b.hole_cnt # 1
  BY <1>1, <1>5, <1>6 DEF Usable
<1> QED BY <1>3, <1>5, <1>6, <1>7

\* Pushing a row to a packed buffer with room.
LEMMA PushRowFacts ==
  ASSUME NEW R, NEW b \in PackedBuffers(R), ~IsFull(b), NEW row \in R
  PROVE  /\ PushRow(b, row) \in PackedBuffers(R)
         /\ PushRow(b, row).rows = Append(b.rows, row)
         /\ Len(PushRow(b, row).rows) = Len(b.rows) + 1
         /\ PushRow(b, row).capacity = b.capacity /\ PushRow(b, row).bytes = b.bytes
<1>1. /\ b.rows \in Seq(R) /\ Len(b.rows) \in Nat /\ b.capacity \in Nat
      /\ b.bytes \in Nat /\ Len(b.rows) <= b.capacity
      /\ b = [bytes |-> b.bytes, capacity |-> b.capacity, rows |-> b.rows]
  BY PackedBufferFacts
<1>2. PushRow(b, row) =
        [bytes |-> b.bytes, capacity |-> b.capacity, rows |-> Append(b.rows, row)]
  <2>1. \A r : [b EXCEPT !.rows = r] = [bytes |-> b.bytes, capacity |-> b.capacity, rows |-> r]
    BY <1>1
  <2> QED BY <2>1 DEF PushRow
<1>3. Append(b.rows, row) \in Seq(R) /\ Len(Append(b.rows, row)) = Len(b.rows) + 1
  BY <1>1
<1>4. Len(b.rows) + 1 <= b.capacity
  BY <1>1 DEF IsFull
<1>5. PushRow(b, row) \in PackedBuffers(R)
  BY <1>1, <1>2, <1>3, <1>4, IsPackedBuffer
<1> QED BY <1>2, <1>3, <1>5

\* A list in which one element changes.
LEMMA ChangeAt ==
  ASSUME NEW R, NEW s \in Seq(R), NEW i \in 1 .. Len(s), NEW x \in R
  PROVE  /\ [s EXCEPT ![i] = x] \in Seq(R) /\ Len([s EXCEPT ![i] = x]) = Len(s)
         /\ [s EXCEPT ![i] = x][i] = x
         /\ \A k \in 1 .. Len(s) : k # i => [s EXCEPT ![i] = x][k] = s[k]
OBVIOUS

\* A failed check changes nothing but dcheck.
LEMMA DcheckFails ==
  ASSUME NEW a \in ArchType, NEW name \in FailedChecks,
         NEW b, b = [a EXCEPT !.dcheck = name]
  PROVE  /\ b \in ArchType /\ ~Running(b) /\ b.dcheck = name /\ SameRows(a, b)
         /\ b.sparse = a.sparse /\ b.available_sparse = a.available_sparse /\ b.rv = a.rv
BY DEF ArchType, Running, SameRows, FailedChecks

\* The check that a row has room, which a push alone makes.
PushFails(a) == a.dcheck = "ArchetypeDataBuffer::Push"

\* It has not failed where no check has.
LEMMA RunningIsFine ==
  ASSUME NEW a, Running(a)
  PROVE  ~PushFails(a)
BY DEF Running, PushFails

\* PushSparseDenseBuffer takes a hole of the first available buffer.
LEMMA PushSparseFacts ==
  ASSUME NEW a \in ArchType, Running(a), IsInjective(a.available_sparse),
         a.available_sparse # <<>>,
         ListedBut({a.available_sparse[1]}, a.sparse, a.available_sparse),
         a.dense # <<>>, ~IsFull(Last(a.dense)),
         NEW b, b = PushSparseDenseBuffer(a)
  PROVE  /\ b \in ArchType /\ IsInjective(b.available_sparse)
         /\ b.data = a.data /\ b.size = a.size
         /\ b.dcheck \in {"ok", "PushSparseDenseBuffer"}
         /\ Running(b) =>
              /\ Listed(b.sparse, b.available_sparse)
              /\ LiveSlots(b.sparse) = LiveSlots(a.sparse) + 1
              /\ b.rv[1] \in Nat
              /\ \E id \in Nat : b.dense = [a.dense EXCEPT ![Len(a.dense)] = PushRow(@, id)]
<1> DEFINE s == a.sparse
           id == a.available_sparse[1]
           buffer == IF s[id + 1].capacity # 0 THEN s[id + 1]
                     ELSE SparseNew(IF Len(s) = 1 THEN SparseUnit ELSE kMaxBufferSize)
           sparse == [s EXCEPT ![id + 1] = buffer]
           dense_id == a.dense[1].capacity * (Len(a.dense) - 1) + Len(Last(a.dense).rows)
           sparse_id == sparse[1].capacity * id + NextHole(buffer)
           filled == FillHole(buffer, dense_id)
           t == [sparse EXCEPT ![id + 1] = filled]
           left == IF buffer.hole_cnt = 1 THEN SwapRemove(a.available_sparse, 1)
                   ELSE a.available_sparse
           dense == [a.dense EXCEPT ![Len(a.dense)] = PushRow(@, sparse_id)]
<1> USE SparseUnitAssumption, ArchetypeAssumption
<1>1. /\ s \in Seq(SparseBuffers) /\ a.available_sparse \in Seq(Nat)
      /\ a.dense \in Seq(PackedBuffers(Nat))
  BY DEF ArchType
<1>2. /\ id \in Nat /\ 1 \in 1 .. Len(a.available_sparse) /\ id \in ToSet(a.available_sparse)
  <2>1. 1 \in 1 .. Len(a.available_sparse) /\ 1 \in DOMAIN a.available_sparse /\ id \in Nat
    BY SMTT(30), <1>1
  <2> QED BY <2>1 DEF ToSet
<1>3. id + 1 \in 1 .. Len(s) /\ 1 \in 1 .. Len(s)
  <2>1. id + 1 \in DOMAIN s
    BY <1>2 DEF ListedBut
  <2> HIDE DEF id
  <2>2. DOMAIN s = 1 .. Len(s) /\ Len(s) \in Nat
    BY <1>1
  <2> QED BY <2>1, <2>2
<1>4. buffer \in SparseBuffers /\ buffer.size = s[id + 1].size
  <2>1. s[id + 1] \in SparseBuffers
    <3>1. \A k \in 1 .. Len(s) : s[k] \in SparseBuffers
      BY <1>1
    <3> QED BY Zenon, <1>3, <3>1
  <2>2. s[id + 1].capacity = 0 => s[id + 1].size = 0
    <3>1. \A c \in SparseBuffers : c.capacity = 0 => c.size = 0
      BY SparseBufferFacts
    <3> QED BY Zenon, <2>1, <3>1
  <2>3. \A bytes \in Nat : SparseNew(bytes) \in SparseBuffers /\ SparseNew(bytes).size = 0
    BY NewSparseBuffer
  <2>4. SparseUnit \in Nat /\ kMaxBufferSize \in Nat
    OBVIOUS
  <2> QED BY Zenon, <2>1, <2>2, <2>3, <2>4
<1>5. /\ sparse \in Seq(SparseBuffers) /\ Len(sparse) = Len(s) /\ sparse[id + 1] = buffer
      /\ \A k \in 1 .. Len(s) : k # id + 1 => sparse[k] = s[k]
  <2> HIDE DEF buffer, id
  <2> QED BY <1>1, <1>3, <1>4, ChangeAt
<1>6. dense_id \in Nat
  <2>1. /\ a.dense[1] \in PackedBuffers(Nat) /\ Last(a.dense) \in PackedBuffers(Nat)
        /\ Len(a.dense) - 1 \in Nat
    BY <1>1, FrontFacts
  <2>2. a.dense[1].capacity \in Nat /\ Len(Last(a.dense).rows) \in Nat
    BY <2>1, PackedBufferFacts
  <2> QED BY <2>1, <2>2, PositionNat
<1>7. CASE ~(buffer.hole_cnt > 0)
  <2>1. b = [a EXCEPT !.dcheck = "PushSparseDenseBuffer"]
    BY <1>7 DEF PushSparseDenseBuffer, Dcheck
  <2>2. b \in ArchType /\ b.dcheck = "PushSparseDenseBuffer"
        /\ b.available_sparse = a.available_sparse /\ b.data = a.data /\ b.size = a.size
        /\ ~Running(b)
    <3>1. "PushSparseDenseBuffer" \in FailedChecks
      BY DEF FailedChecks
    <3>2. /\ b \in ArchType /\ ~Running(b) /\ b.dcheck = "PushSparseDenseBuffer" /\ SameRows(a, b)
          /\ b.sparse = a.sparse /\ b.available_sparse = a.available_sparse
      BY <2>1, <3>1, DcheckFails
    <3> QED BY Zenon, <3>2 DEF SameRows
  <2> QED BY SMTT(30), <2>2
<1>8. CASE buffer.hole_cnt > 0
  <2> HIDE DEF buffer, sparse, dense_id, id
  <2>1. /\ filled \in SparseBuffers /\ filled.size = s[id + 1].size + 1
        /\ NextHole(buffer) \in Nat
        /\ Usable(filled) <=> buffer.hole_cnt # 1
    BY <1>4, <1>6, <1>8, FillSparseBuffer
  <2>2. sparse_id \in Nat
    <3>1. sparse[1].capacity \in Nat
      <4>1. sparse[1] \in SparseBuffers
        BY <1>3, <1>5
      <4> QED BY <4>1, SparseBufferFacts
    <3> QED BY <1>2, <2>1, <3>1, PositionNat
  <2> HIDE DEF sparse_id, filled
  <2>3. /\ t \in Seq(SparseBuffers) /\ Len(t) = Len(s) /\ t[id + 1] = filled
        /\ \A k \in 1 .. Len(s) : k # id + 1 => t[k] = s[k]
    <3>1. /\ t \in Seq(SparseBuffers) /\ Len(t) = Len(sparse) /\ t[id + 1] = filled
          /\ \A k \in 1 .. Len(sparse) : k # id + 1 => t[k] = sparse[k]
      BY <1>3, <1>5, <2>1, ChangeAt
    <3> QED BY <1>5, <3>1
  <2>4. LiveSlots(t) = LiveSlots(s) + 1
    <3> HIDE DEF t
    <3>1. LiveSlots(t) = LiveSlots(s) + t[id + 1].size - s[id + 1].size
      BY <1>1, <1>3, <2>3, LiveSlotsChange
    <3>2. s[id + 1].size \in Nat /\ LiveSlots(s) \in Nat
      <4>1. s[id + 1] \in SparseBuffers
        BY <1>1, <1>3
      <4> QED BY <1>1, <4>1, SparseBufferFacts, LiveSlotsNat
    <3> QED BY SMTT(30), <2>1, <2>3, <3>1, <3>2
  <2>5. /\ left \in Seq(Nat) /\ IsInjective(left)
        /\ ToSet(left) = IF buffer.hole_cnt = 1 THEN ToSet(a.available_sparse) \ {id}
                         ELSE ToSet(a.available_sparse)
    BY <1>1, <1>2, SwapRemoveFacts DEF id
  <2>6. Listed(t, left)
    <3> HIDE DEF t, left
    <3>1. DOMAIN t = DOMAIN s /\ DOMAIN s = 1 .. Len(s)
      BY <1>1, <2>3
    <3>2. ASSUME NEW x \in ToSet(left) PROVE x + 1 \in DOMAIN t
      BY Zenon, <2>5, <3>1, <3>2 DEF ListedBut
    <3>3. ASSUME NEW n \in DOMAIN t PROVE n - 1 \in ToSet(left) <=> Usable(t[n])
      <4>1. n \in 1 .. Len(s) /\ (n = id + 1 <=> n - 1 = id)
        BY <1>2, <3>1
      <4>2. CASE n = id + 1
        BY <1>2, <2>1, <2>3, <2>5, <4>1, <4>2
      <4>3. CASE n # id + 1
        <5>1. n - 1 \in ToSet(a.available_sparse) <=> Usable(s[n])
          BY <3>1, <4>1, <4>3 DEF ListedBut, id
        <5> QED BY <2>3, <2>5, <4>1, <4>3, <5>1
      <4> QED BY <4>2, <4>3
    <3> QED BY <3>2, <3>3 DEF Listed, ListedBut
  <2>7. dense \in Seq(PackedBuffers(Nat))
    <3>1. Last(a.dense) \in PackedBuffers(Nat) /\ Last(a.dense) = a.dense[Len(a.dense)]
      BY <1>1, FrontFacts
    <3>2. PushRow(a.dense[Len(a.dense)], sparse_id) \in PackedBuffers(Nat)
      BY <2>2, <3>1, PushRowFacts
    <3>3. Len(a.dense) \in 1 .. Len(a.dense)
      BY <1>1
    <3> QED BY <1>1, <3>2, <3>3, ChangeAt
  <2>8. b = [a EXCEPT !.sparse = t, !.available_sparse = left, !.dense = dense,
                      !.rv = <<sparse_id>>]
    <3>1. b = [a EXCEPT !.sparse = t,
                 !.available_sparse = IF buffer.hole_cnt = 1 THEN SwapRemove(@, 1) ELSE @,
                 !.dense[Len(a.dense)] = PushRow(@, sparse_id),
                 !.rv = <<sparse_id>>]
      BY Zenon, <1>8 DEF PushSparseDenseBuffer, Dcheck, buffer, sparse, dense_id, id, sparse_id, filled
    <3> HIDE DEF t
    <3> QED BY <3>1
  <2>9. <<sparse_id>> \in Seq(Nat \cup Row) /\ <<sparse_id>>[1] = sparse_id
    BY <2>2, OneElement
  <2> HIDE DEF t, left, dense
  <2>10. /\ b \in ArchType /\ b.sparse = t /\ b.available_sparse = left /\ b.dense = dense
         /\ b.rv = <<sparse_id>> /\ b.data = a.data /\ b.size = a.size /\ b.dcheck = a.dcheck
    BY <2>3, <2>5, <2>7, <2>8, <2>9 DEF ArchType
  <2>11. b.dcheck = "ok"
    BY <2>10 DEF Running
  <2> QED BY <2>2, <2>4, <2>5, <2>6, <2>9, <2>10, <2>11 DEF dense
<1> QED BY <1>7, <1>8

-----------------------------------------------------------------------------
(* The lists of packed buffers *)

\* The shape of a list of buffers for rows of unit bytes: a flat position can
\* be split by the capacity of the first buffer.  A list of several buffers
\* has grown its first buffer to full size, which keeps the capacities equal.
Shaped(buffers, unit) ==
  /\ \A n \in DOMAIN buffers :
       /\ buffers[n].capacity = buffers[n].bytes \div unit
       /\ buffers[n].bytes <= kMaxBufferSize \/ buffers[n].bytes = unit
       /\ buffers[n].capacity = buffers[1].capacity
       /\ n < Len(buffers) => IsFull(buffers[n]) /\ buffers[n].rows # <<>>
  /\ Len(buffers) > 1 => buffers[1].capacity = kMaxBufferSize \div unit

\* Buffers that hold a row have at least its bytes.
LEMMA DivFacts ==
  ASSUME NEW u \in Nat \ {0}, NEW a \in Nat
  PROVE  /\ a \div u \in Nat /\ u \div u = 1
         /\ a < u => a \div u = 0
         /\ a >= u => a \div u >= 1
OBVIOUS

\* A new packed buffer.
LEMMA NewPackedBuffer ==
  ASSUME NEW R, NEW u \in Nat \ {0}, NEW bytes \in Nat
  PROVE  /\ PackedNew(bytes, u) \in PackedBuffers(R)
         /\ PackedNew(bytes, u).rows = <<>> /\ Len(PackedNew(bytes, u).rows) = 0
         /\ PackedNew(bytes, u).bytes = bytes /\ PackedNew(bytes, u).capacity = bytes \div u
         /\ IsFull(PackedNew(bytes, u)) <=> bytes \div u = 0
<1>1. bytes \div u \in Nat /\ <<>> \in Seq(R) /\ Len(<<>>) = 0
  <2>1. bytes \div u \in Nat
    BY DivNat
  <2>2. <<>> \in Seq(R) /\ Len(<<>>) = 0
    OBVIOUS
  <2> QED BY <2>1, <2>2
<1>2. PackedNew(bytes, u) = [bytes |-> bytes, capacity |-> bytes \div u, rows |-> <<>>]
  BY DEF PackedNew
<1>3. PackedNew(bytes, u) \in PackedBuffers(R)
  <2>1. PICK cap \in Nat : cap = bytes \div u
    BY <1>1
  <2>2. Len(<<>>) <= cap
    BY <1>1
  <2>3. [bytes |-> bytes, capacity |-> cap, rows |-> <<>>] \in PackedBuffers(R)
    BY <1>1, <2>2, IsPackedBuffer
  <2> QED BY Zenon, <1>2, <2>1, <2>3
<1> QED BY <1>1, <1>2, <1>3 DEF IsFull

\* Reserve keeps the rows.
LEMMA ReservePackedBuffer ==
  ASSUME NEW R, NEW u \in Nat \ {0}, NEW b \in PackedBuffers(R),
         b.capacity = b.bytes \div u, NEW bytes \in Nat
  PROVE  LET c == PackedReserve(b, bytes, u)
         IN /\ c \in PackedBuffers(R) /\ c.rows = b.rows /\ c.capacity = c.bytes \div u
            /\ c.bytes \in {b.bytes, bytes} /\ c.bytes >= bytes /\ c.bytes >= b.bytes
<1> SUFFICES ASSUME NEW c, c = PackedReserve(b, bytes, u)
             PROVE  /\ c \in PackedBuffers(R) /\ c.rows = b.rows
                    /\ c.capacity = c.bytes \div u
                    /\ c.bytes \in {b.bytes, bytes} /\ c.bytes >= bytes /\ c.bytes >= b.bytes
  OBVIOUS
<1>1. CASE bytes <= b.bytes
  <2>1. b.bytes \in Nat
    BY PackedBufferFacts
  <2> QED BY <1>1, <2>1 DEF PackedReserve
<1>2. CASE ~(bytes <= b.bytes)
  <2>1. /\ b.rows \in Seq(R) /\ Len(b.rows) \in Nat /\ b.bytes \in Nat
        /\ Len(b.rows) <= b.bytes \div u
    <3>1. /\ b.rows \in Seq(R) /\ Len(b.rows) \in Nat /\ b.bytes \in Nat
          /\ Len(b.rows) <= b.capacity
      BY PackedBufferFacts
    <3> QED BY Zenon, <3>1
  <2>2. b.bytes \div u <= bytes \div u /\ bytes \div u \in Nat /\ b.bytes \div u \in Nat
    BY <1>2, <2>1, DivMonotone, DivNat
  <2>3. c = [bytes |-> bytes, capacity |-> bytes \div u, rows |-> b.rows]
    BY <1>2 DEF PackedReserve, PackedNew
  <2>4. Len(b.rows) <= bytes \div u
    BY <2>1, <2>2
  <2>5. c \in PackedBuffers(R)
    BY <2>1, <2>2, <2>3, <2>4, IsPackedBuffer
  <2>6. c.rows = b.rows /\ c.capacity = c.bytes \div u /\ c.bytes = bytes
    BY <2>3
  <2> QED BY <1>2, <2>1, <2>5, <2>6
<1> QED BY <1>1, <1>2

\* A list of one buffer.
LEMMA OneBuffer ==
  ASSUME NEW R, NEW u \in Nat \ {0}, NEW b \in PackedBuffers(R),
         b.capacity = b.bytes \div u, b.bytes <= kMaxBufferSize \/ b.bytes = u
  PROVE  /\ <<b>> \in Seq(PackedBuffers(R)) /\ <<b>> # <<>> /\ Last(<<b>>) = b
         /\ Shaped(<<b>>, u) /\ RowsIn(<<b>>) = Len(b.rows)
<1>1. /\ <<b>> \in Seq(PackedBuffers(R)) /\ Len(<<b>>) = 1 /\ <<b>>[1] = b /\ <<b>> # <<>>
      /\ DOMAIN <<b>> = {1}
  BY OneElement
<1>2. Last(<<b>>) = b
  BY <1>1 DEF Last
<1>3. Shaped(<<b>>, u)
  BY <1>1 DEF Shaped
<1>4. RowsIn(<<b>>) = Len(b.rows)
  <2>1. <<>> \in Seq(PackedBuffers(R)) /\ Len(<<>>) = 0
    OBVIOUS
  <2>2. RowsIn(<<>>) = 0
    <3>1. RowsIn(<<>>) = Total([n \in DOMAIN <<>> |-> Len(<<>>[n].rows)])
      BY DEF RowsIn
    <3>2. PICK w : w = [n \in DOMAIN <<>> |-> Len(<<>>[n].rows)]
      OBVIOUS
    <3>3. DOMAIN w = 1 .. 0
      BY <3>2
    <3>4. \E g : g[0] = 0 /\ Total(w) = g[0]
      <4>1. PICK g : /\ g[0] = 0 /\ \A k \in 1 .. 0 : g[k] = g[k - 1] + w[k]
                     /\ Total(w) = g[0]
        BY Zenon, <3>3, TotalSteps
      <4> QED BY <4>1
    <3> QED BY <3>1, <3>2, <3>4
  <2>3. RowsIn(<<b>>) = RowsIn(<<>>) + Len(<<b>>[Len(<<b>>)].rows)
    <3>1. Len(<<b>>) = Len(<<>>) + 1 /\ \A k \in 1 .. Len(<<>>) : <<b>>[k] = <<>>[k]
      BY <1>1, <2>1
    <3> QED BY <1>1, <2>1, <3>1, RowsLonger
  <2>4. Len(b.rows) \in Nat
    BY PackedBufferFacts
  <2> QED BY <1>1, <2>2, <2>3, <2>4
<1> QED BY <1>1, <1>2, <1>3, <1>4

\* A full buffer may be followed by a new one of full size.
LEMMA NextBuffer ==
  ASSUME NEW R, NEW u \in Nat \ {0}, NEW s \in Seq(PackedBuffers(R)), s # <<>>,
         Shaped(s, u), IsFull(Last(s)), Last(s).rows # <<>>
  PROVE  LET t == Append(s, PackedNew(kMaxBufferSize, u))
         IN /\ t \in Seq(PackedBuffers(R)) /\ t # <<>>
            /\ Last(t) = PackedNew(kMaxBufferSize, u)
            /\ s[1].capacity = kMaxBufferSize \div u => Shaped(t, u)
            /\ RowsIn(t) = RowsIn(s)
<1> SUFFICES ASSUME NEW t, t = Append(s, PackedNew(kMaxBufferSize, u))
             PROVE  /\ t \in Seq(PackedBuffers(R)) /\ t # <<>>
                    /\ Last(t) = PackedNew(kMaxBufferSize, u)
                    /\ s[1].capacity = kMaxBufferSize \div u => Shaped(t, u)
                    /\ RowsIn(t) = RowsIn(s)
  OBVIOUS
<1> DEFINE new == PackedNew(kMaxBufferSize, u)
           n == Len(s)
<1> USE ArchetypeAssumption
<1>1. new \in PackedBuffers(R) /\ new.rows = <<>> /\ new.bytes = kMaxBufferSize
      /\ new.capacity = kMaxBufferSize \div u /\ Len(new.rows) = 0
  BY NewPackedBuffer
<1> HIDE DEF new
<1>2. /\ t \in Seq(PackedBuffers(R)) /\ n \in Nat \ {0} /\ Len(t) = n + 1 /\ DOMAIN t = 1 .. n + 1
      /\ t[n + 1] = new /\ \A k \in 1 .. n : t[k] = s[k] /\ k \in DOMAIN s
  BY <1>1 DEF new
<1>3. t # <<>> /\ Last(t) = new /\ Last(s) = s[n] /\ t[1] = s[1]
  BY <1>2 DEF Last
<1>4. RowsIn(t) = RowsIn(s)
  <2>1. RowsIn(t) = RowsIn(s) + Len(t[Len(t)].rows)
    BY <1>2, RowsLonger
  <2>2. RowsIn(s) \in Nat /\ Len(t[Len(t)].rows) = 0
    BY <1>1, <1>2, RowsNat
  <2>3. RowsIn(s) + 0 = RowsIn(s)
    BY <2>2
  <2> QED BY <2>1, <2>2, <2>3
<1>5. ASSUME s[1].capacity = kMaxBufferSize \div u PROVE Shaped(t, u)
  <2>1. ASSUME NEW k \in 1 .. n
        PROVE  /\ t[k].capacity = t[k].bytes \div u
               /\ t[k].bytes <= kMaxBufferSize \/ t[k].bytes = u
               /\ t[k].capacity = t[1].capacity
               /\ IsFull(t[k]) /\ t[k].rows # <<>>
    <3>1. t[k] = s[k] /\ k \in DOMAIN s /\ (k = n \/ k < Len(s))
      BY <1>2
    <3> QED BY Zenon, <1>3, <3>1 DEF Shaped
  <2>2. /\ t[n + 1].capacity = t[n + 1].bytes \div u
        /\ t[n + 1].bytes <= kMaxBufferSize
        /\ t[n + 1].capacity = t[1].capacity
    BY SMTT(30), <1>1, <1>2, <1>3, <1>5
  <2>3. ASSUME NEW k \in DOMAIN t
        PROVE  (k \in 1 .. n /\ k < Len(t)) \/ (k = n + 1 /\ ~(k < Len(t)))
    BY <1>2
  <2> QED BY Zenon, <1>3, <1>5, <2>1, <2>2, <2>3 DEF Shaped
<1> QED BY <1>2, <1>3, <1>4, <1>5 DEF new

\* A lone full buffer that grows either has room then or is of full size.
LEMMA GrowPackedBuffer ==
  ASSUME NEW R, NEW u \in Nat \ {0}, NEW b \in PackedBuffers(R),
         b.capacity = b.bytes \div u, b.bytes <= kMaxBufferSize \/ b.bytes = u,
         IsFull(b), b.rows # <<>>, NEW r, r = PackedReserve(b, GrownBytes(b, u), u)
  PROVE  /\ r \in PackedBuffers(R) /\ r.rows = b.rows /\ r.capacity = r.bytes \div u
         /\ r.bytes <= kMaxBufferSize \/ r.bytes = u
         /\ IsFull(r) /\ u <= kMaxBufferSize => r.capacity = kMaxBufferSize \div u
<1> DEFINE g == GrownBytes(b, u)
<1>1. /\ b.rows \in Seq(R) /\ b.bytes \in Nat /\ Len(b.rows) = b.capacity
      /\ Len(b.rows) \in Nat \ {0}
  BY PackedBufferFacts DEF IsFull
<1>2. u \in Nat /\ kMaxBufferSize \in Nat
  BY ConstantsNat
<1>3. b.bytes >= u
  <2>1. b.bytes < u => b.bytes \div u = 0
    BY <1>1, DivFacts
  <2>2. b.bytes \div u # 0
    BY Zenon, <1>1
  <2> QED BY <1>1, <1>2, <2>1, <2>2
<1>4. g \in Nat /\ g <= kMaxBufferSize /\ (g # kMaxBufferSize => g = 2 * b.bytes)
  BY <1>1, <1>2 DEF GrownBytes
<1> HIDE DEF g
<1>5. /\ r \in PackedBuffers(R) /\ r.rows = b.rows /\ r.capacity = r.bytes \div u
      /\ r.bytes \in {b.bytes, g} /\ r.bytes >= g /\ r.bytes >= b.bytes
  BY <1>4, ReservePackedBuffer DEF g
<1>6. r.bytes <= kMaxBufferSize \/ r.bytes = u
  <2>1. r.bytes = b.bytes \/ r.bytes = g
    BY <1>5
  <2> QED BY Zenon, <1>4, <2>1
<1>7. ASSUME IsFull(r), u <= kMaxBufferSize PROVE r.capacity = kMaxBufferSize \div u
  <2>1. r.capacity = b.capacity
    BY Zenon, <1>1, <1>5, <1>7 DEF IsFull
  <2>2. g = kMaxBufferSize
    <3> SUFFICES ASSUME g # kMaxBufferSize PROVE FALSE
      OBVIOUS
    <3>1. g = 2 * b.bytes /\ ~(b.bytes >= 2 * b.bytes)
      BY <1>1, <1>2, <1>3, <1>4
    <3>2. r.bytes = 2 * b.bytes
      BY Zenon, <1>5, <3>1
    <3>3. (2 * b.bytes) \div u >= b.bytes \div u + 1
      BY <1>1, <1>3, DivDoubled
    <3>4. b.capacity >= b.capacity + 1
      BY Zenon, <1>5, <2>1, <3>2, <3>3
    <3> QED BY <1>1, <3>4
  <2>3. r.bytes = kMaxBufferSize
    <3>1. r.bytes = b.bytes \/ r.bytes = kMaxBufferSize
      BY <1>5, <2>2
    <3>2. b.bytes >= kMaxBufferSize => b.bytes = kMaxBufferSize
      BY <1>1, <1>2, <1>7
    <3> QED BY Zenon, <1>5, <2>2, <3>1, <3>2
  <2> QED BY Zenon, <1>5, <2>3
<1> QED BY Zenon, <1>5, <1>6, <1>7

\* No rows are in no buffers.
LEMMA RowsInNone == RowsIn(<<>>) = 0
<1>1. PICK w : w = [n \in DOMAIN <<>> |-> Len(<<>>[n].rows)]
  OBVIOUS
<1>2. DOMAIN w = 1 .. 0
  BY <1>1
<1>3. PICK g : /\ g[0] = 0 /\ \A k \in 1 .. 0 : g[k] = g[k - 1] + w[k]
               /\ Total(w) = g[0]
  BY Zenon, <1>2, TotalSteps
<1>4. RowsIn(<<>>) = Total(w)
  BY Zenon, <1>1 DEF RowsIn
<1> QED BY <1>3, <1>4

\* What EnsureNotFullDense and EnsureNotFullData make of a list: the last
\* buffer has room, unless a row is larger than a full-sized buffer.
HasRoom(R, unit, before, after) ==
  /\ after \in Seq(PackedBuffers(R)) /\ after # <<>>
  /\ unit <= kMaxBufferSize => ~IsFull(Last(after))
  /\ ~IsFull(Last(after)) => Shaped(after, unit) /\ RowsIn(after) = RowsIn(before)

\* The first buffer has room for one row.
LEMMA EnsureFirst ==
  ASSUME NEW R, NEW u \in Nat \ {0}
  PROVE  HasRoom(R, u, <<>>, EnsureNotFullPacked(<<>>, u))
<1> DEFINE new == PackedNew(u, u)
<1>1. u \div u = 1 /\ u \in Nat
  BY DivFacts
<1>2. u \div u # 0
  BY <1>1
<1>3. /\ new \in PackedBuffers(R) /\ Len(new.rows) = 0 /\ new.bytes = u
      /\ new.capacity = new.bytes \div u /\ ~IsFull(new)
  BY Zenon, <1>1, <1>2, NewPackedBuffer
<1>4. EnsureNotFullPacked(<<>>, u) = <<new>>
  BY DEF EnsureNotFullPacked
<1> HIDE DEF new
<1>5. /\ <<new>> \in Seq(PackedBuffers(R)) /\ <<new>> # <<>> /\ Last(<<new>>) = new
      /\ Shaped(<<new>>, u) /\ RowsIn(<<new>>) = 0
  BY <1>3, OneBuffer
<1> QED BY Zenon, <1>3, <1>4, <1>5, RowsInNone DEF HasRoom

\* A full list gets a new buffer of full size, unless it is a lone buffer
\* that grew and has room now.
LEMMA EnsureNext ==
  ASSUME NEW R, NEW u \in Nat \ {0}, NEW s \in Seq(PackedBuffers(R)), s # <<>>,
         Shaped(s, u), IsFull(Last(s)), Last(s).rows # <<>>,
         u <= kMaxBufferSize => s[1].capacity = kMaxBufferSize \div u
  PROVE  HasRoom(R, u, s, Append(s, PackedNew(kMaxBufferSize, u)))
<1> DEFINE t == Append(s, PackedNew(kMaxBufferSize, u))
<1>1. /\ t \in Seq(PackedBuffers(R)) /\ t # <<>>
      /\ Last(t) = PackedNew(kMaxBufferSize, u)
      /\ s[1].capacity = kMaxBufferSize \div u => Shaped(t, u)
      /\ RowsIn(t) = RowsIn(s)
  BY NextBuffer
<1>2. IsFull(PackedNew(kMaxBufferSize, u)) <=> kMaxBufferSize \div u = 0
  BY ConstantsNat, NewPackedBuffer
<1>3. u <= kMaxBufferSize \/ kMaxBufferSize < u
  BY ConstantsNat
<1>4. u <= kMaxBufferSize => kMaxBufferSize \div u # 0
  <2>1. u <= kMaxBufferSize => kMaxBufferSize \div u >= 1
    BY ConstantsNat, DivFacts
  <2>2. kMaxBufferSize \div u \in Nat
    BY ConstantsNat, DivFacts
  <2> QED BY <2>1, <2>2
<1>5. kMaxBufferSize < u => kMaxBufferSize \div u = 0
  BY ConstantsNat, DivFacts
<1> HIDE DEF t
<1>6. u <= kMaxBufferSize => ~IsFull(Last(t))
  BY Zenon, <1>1, <1>2, <1>4
<1>7. ~IsFull(Last(t)) => u <= kMaxBufferSize
  BY Zenon, <1>1, <1>2, <1>3, <1>5
<1> QED BY Zenon, <1>1, <1>6, <1>7 DEF HasRoom, t

\* EnsureNotFullDense and EnsureNotFullData make room.
LEMMA EnsurePackedFacts ==
  ASSUME NEW R, NEW u \in Nat \ {0}, NEW s \in Seq(PackedBuffers(R)),
         Shaped(s, u), Packed(s)
  PROVE  HasRoom(R, u, s, EnsureNotFullPacked(s, u))
<1>1. CASE s = <<>>
  BY Zenon, <1>1, EnsureFirst
<1>2. CASE s # <<>> /\ ~IsFull(Last(s))
  <2>1. EnsureNotFullPacked(s, u) = s
    BY <1>2 DEF EnsureNotFullPacked
  <2> QED BY Zenon, <1>2, <2>1 DEF HasRoom
<1>3. CASE s # <<>> /\ IsFull(Last(s))
  <2>1. /\ Len(s) \in Nat \ {0} /\ Last(s) = s[Len(s)] /\ Len(s) \in DOMAIN s /\ 1 \in DOMAIN s
        /\ s[1] \in PackedBuffers(R)
    BY <1>3 DEF Last
  <2>2. Last(s).rows # <<>> /\ s[1].rows # <<>>
    BY Zenon, <2>1 DEF Packed
  <2>3. /\ s[1].capacity = s[1].bytes \div u
        /\ s[1].bytes <= kMaxBufferSize \/ s[1].bytes = u
    BY Zenon, <2>1 DEF Shaped
  <2>4. CASE Len(s) > 1
    <3>1. EnsureNotFullPacked(s, u) = Append(s, PackedNew(kMaxBufferSize, u))
      BY <1>3, <2>4 DEF EnsureNotFullPacked
    <3>2. s[1].capacity = kMaxBufferSize \div u
      BY <2>4 DEF Shaped
    <3> QED BY <1>3, <2>2, <3>1, <3>2, EnsureNext
  <2>5. CASE Len(s) = 1
    <3> DEFINE r == PackedReserve(s[1], GrownBytes(s[1], u), u)
    <3>1. IsFull(s[1])
      BY <1>3, <2>1, <2>5
    <3>3. /\ EnsureNotFullPacked(s, u) =
               IF ~IsFull(Last(<<r>>)) THEN <<r>>
               ELSE Append(<<r>>, PackedNew(kMaxBufferSize, u))
      BY <1>3, <2>5 DEF EnsureNotFullPacked
    <3>0. r = PackedReserve(s[1], GrownBytes(s[1], u), u)
      OBVIOUS
    <3> HIDE DEF r
    <3>2. /\ r \in PackedBuffers(R) /\ r.rows = s[1].rows /\ r.capacity = r.bytes \div u
          /\ r.bytes <= kMaxBufferSize \/ r.bytes = u
          /\ IsFull(r) /\ u <= kMaxBufferSize => r.capacity = kMaxBufferSize \div u
      <4>1. PICK b \in PackedBuffers(R) : b = s[1]
        BY <2>1
      <4>2. b.rows # <<>> /\ IsFull(b)
        BY Zenon, <2>2, <3>1, <4>1
      <4>3. b.capacity = b.bytes \div u
        BY Zenon, <2>3, <4>1
      <4>4. b.bytes <= kMaxBufferSize \/ b.bytes = u
        BY Zenon, <2>3, <4>1
      <4>5. r = PackedReserve(b, GrownBytes(b, u), u)
        BY Zenon, <3>0, <4>1
      <4>6. /\ r \in PackedBuffers(R) /\ r.rows = b.rows /\ r.capacity = r.bytes \div u
            /\ r.bytes <= kMaxBufferSize \/ r.bytes = u
            /\ IsFull(r) /\ u <= kMaxBufferSize => r.capacity = kMaxBufferSize \div u
        BY <4>2, <4>3, <4>4, <4>5, GrowPackedBuffer
      <4> QED BY Zenon, <4>1, <4>6
    <3>4. /\ <<r>> \in Seq(PackedBuffers(R)) /\ <<r>> # <<>> /\ Last(<<r>>) = r
          /\ Shaped(<<r>>, u) /\ RowsIn(<<r>>) = Len(s[1].rows)
      BY <3>2, OneBuffer
    <3>5. RowsIn(s) = RowsIn(<<r>>)
      <4>1. s = <<s[1]>>
        BY <2>5
      <4>2. RowsIn(<<s[1]>>) = Len(s[1].rows)
        BY <2>1, <2>3, OneBuffer
      <4> QED BY Zenon, <3>4, <4>1, <4>2
    <3>6. CASE ~IsFull(r)
      <4>1. EnsureNotFullPacked(s, u) = <<r>> /\ ~IsFull(Last(<<r>>))
        BY Zenon, <3>3, <3>4, <3>6
      <4>2. HasRoom(R, u, s, <<r>>)
        BY Zenon, <3>4, <3>5, <4>1 DEF HasRoom
      <4> QED BY Zenon, <4>1, <4>2
    <3>7. CASE IsFull(r)
      <4>1. EnsureNotFullPacked(s, u) = Append(<<r>>, PackedNew(kMaxBufferSize, u))
        BY Zenon, <3>3, <3>4, <3>7
      <4>2. IsFull(Last(<<r>>)) /\ Last(<<r>>).rows # <<>> /\ <<r>>[1] = r
        BY <2>2, <3>2, <3>4, <3>7
      <4>3. HasRoom(R, u, <<r>>, Append(<<r>>, PackedNew(kMaxBufferSize, u)))
        BY <3>2, <3>4, <3>7, <4>2, EnsureNext
      <4> QED BY Zenon, <3>5, <4>1, <4>3 DEF HasRoom
    <3> QED BY <3>6, <3>7
  <2>6. Len(s) > 1 \/ Len(s) = 1
    <3>1. Len(s) \in Nat \ {0}
      BY Zenon, <2>1
    <3>2. \A n \in Nat \ {0} : n > 1 \/ n = 1
      OBVIOUS
    <3> QED BY Zenon, <3>1, <3>2
  <2> QED BY Zenon, <2>4, <2>5, <2>6
<1> QED BY Zenon, <1>1, <1>2, <1>3

\* A list in which the last element changes.
LEMMA ChangeLast ==
  ASSUME NEW R, NEW s \in Seq(R), s # <<>>, NEW x \in R
  PROVE  /\ Len(s) \in Nat \ {0} /\ Len(s) \in 1 .. Len(s) /\ 1 \in 1 .. Len(s)
         /\ DOMAIN s = 1 .. Len(s) /\ Last(s) = s[Len(s)] /\ Last(s) \in R
         /\ [s EXCEPT ![Len(s)] = x] \in Seq(R)
         /\ Len([s EXCEPT ![Len(s)] = x]) = Len(s)
         /\ [s EXCEPT ![Len(s)] = x][Len(s)] = x
         /\ \A k \in 1 .. Len(s) : k # Len(s) => [s EXCEPT ![Len(s)] = x][k] = s[k]
<1>1. Len(s) \in Nat \ {0} /\ Len(s) \in 1 .. Len(s) /\ 1 \in 1 .. Len(s)
      /\ DOMAIN s = 1 .. Len(s)
  OBVIOUS
<1>2. Last(s) = s[Len(s)] /\ Last(s) \in R
  BY FrontFacts
<1>3. /\ [s EXCEPT ![Len(s)] = x] \in Seq(R)
      /\ Len([s EXCEPT ![Len(s)] = x]) = Len(s)
      /\ [s EXCEPT ![Len(s)] = x][Len(s)] = x
      /\ \A k \in 1 .. Len(s) : k # Len(s) => [s EXCEPT ![Len(s)] = x][k] = s[k]
  <2>1. PICK i \in 1 .. Len(s) : i = Len(s)
    BY <1>1
  <2>2. /\ [s EXCEPT ![i] = x] \in Seq(R)
        /\ Len([s EXCEPT ![i] = x]) = Len(s)
        /\ [s EXCEPT ![i] = x][i] = x
        /\ \A k \in 1 .. Len(s) : k # i => [s EXCEPT ![i] = x][k] = s[k]
    BY <2>1, ChangeAt
  <2> QED BY Zenon, <2>1, <2>2
<1> QED BY Zenon, <1>1, <1>2, <1>3

\* A list of buffers with count rows in all, none of them empty.
Holds(R, unit, buffers, count) ==
  /\ buffers \in Seq(PackedBuffers(R)) /\ Shaped(buffers, unit) /\ Packed(buffers)
  /\ RowsIn(buffers) = count

\* Two lists of n buffers that differ in the rows of the last buffer only.
LastDiffers(s, t, n) ==
  /\ n \in Nat \ {0} /\ n = Len(s) /\ n = Len(t)
  /\ \A k \in 1 .. n : k # n => t[k] = s[k]
  /\ t[n].bytes = s[n].bytes /\ t[n].capacity = s[n].capacity /\ t[n].rows # <<>>

\* Only the rows of the last buffer change, and some are left.
LEMMA ReshapeLast ==
  ASSUME NEW R, NEW u \in Nat \ {0}, NEW s \in Seq(PackedBuffers(R)),
         NEW t \in Seq(PackedBuffers(R)), Shaped(s, u), NEW n, LastDiffers(s, t, n)
  PROVE  Holds(R, u, t, RowsIn(s) + Len(t[n].rows) - Len(s[n].rows))
<1>0. /\ n \in Nat \ {0} /\ n = Len(s) /\ n = Len(t)
      /\ \A k \in 1 .. n : k # n => t[k] = s[k]
      /\ t[n].bytes = s[n].bytes /\ t[n].capacity = s[n].capacity /\ t[n].rows # <<>>
  BY DEF LastDiffers
<1>1. /\ DOMAIN s = 1 .. n /\ DOMAIN t = 1 .. n /\ 1 \in 1 .. n /\ n \in 1 .. n
      /\ \A k \in 1 .. n : k < n \/ (k = n /\ ~(k < n))
  <2>1. \A w : w \in Seq(PackedBuffers(R)) => DOMAIN w = 1 .. Len(w)
    OBVIOUS
  <2>2. 1 \in 1 .. n /\ n \in 1 .. n /\ \A k \in 1 .. n : k < n \/ (k = n /\ ~(k < n))
    BY <1>0
  <2> QED BY Zenon, <1>0, <2>1, <2>2
<1>2. RowsIn(t) = RowsIn(s) + Len(t[n].rows) - Len(s[n].rows)
  <2>1. Len(t) = Len(s) /\ Len(s) \in 1 .. Len(s)
        /\ \A k \in 1 .. Len(s) : k # Len(s) => t[k] = s[k]
    BY Zenon, <1>0, <1>1
  <2>2. RowsIn(t) = RowsIn(s) + Len(t[Len(s)].rows) - Len(s[Len(s)].rows)
    BY Zenon, <2>1, RowsChange
  <2> QED BY Zenon, <1>0, <2>2
<1>3. t[1].capacity = s[1].capacity
  BY Zenon, <1>0, <1>1
<1>4. ASSUME NEW k \in 1 .. n
      PROVE  /\ t[k].capacity = t[k].bytes \div u
             /\ t[k].bytes <= kMaxBufferSize \/ t[k].bytes = u
             /\ t[k].capacity = t[1].capacity
             /\ k < n => IsFull(t[k]) /\ t[k].rows # <<>>
             /\ t[k].rows # <<>>
  <2>1. /\ s[k].capacity = s[k].bytes \div u
        /\ s[k].bytes <= kMaxBufferSize \/ s[k].bytes = u
        /\ s[k].capacity = s[1].capacity
        /\ k < n => IsFull(s[k]) /\ s[k].rows # <<>>
    BY Zenon, <1>0, <1>1 DEF Shaped
  <2>2. CASE k < n
    <3>1. t[k] = s[k]
      BY <1>0, <2>2
    <3> QED BY Zenon, <1>3, <2>1, <2>2, <3>1
  <2>3. CASE k = n /\ ~(k < n)
    BY Zenon, <1>0, <1>3, <2>1, <2>3
  <2> QED BY Zenon, <1>1, <2>2, <2>3
<1>5. n > 1 => t[1].capacity = kMaxBufferSize \div u
  BY Zenon, <1>0, <1>3 DEF Shaped
<1>6. Shaped(t, u) /\ Packed(t)
  BY Zenon, <1>0, <1>1, <1>4, <1>5 DEF Shaped, Packed
<1> QED BY Zenon, <1>2, <1>6 DEF Holds

\* A row pushed to the last buffer of a list.
LEMMA PushTail ==
  ASSUME NEW R, NEW u \in Nat \ {0}, NEW s \in Seq(PackedBuffers(R)), s # <<>>,
         Shaped(s, u), ~IsFull(Last(s)), NEW row \in R,
         NEW t, t = [s EXCEPT ![Len(s)] = PushRow(@, row)]
  PROVE  Holds(R, u, t, RowsIn(s) + 1)
<1>1. PICK n \in Nat \ {0} : n = Len(s)
  BY ChangeLast
<1>2. PICK new : new = PushRow(s[n], row)
  OBVIOUS
<1>3. s[n] \in PackedBuffers(R) /\ s[n] = Last(s)
  BY <1>1, FrontFacts
<1>4. /\ new \in PackedBuffers(R) /\ new.rows = Append(s[n].rows, row)
      /\ Len(new.rows) = Len(s[n].rows) + 1
      /\ new.capacity = s[n].capacity /\ new.bytes = s[n].bytes
  BY ZenonT(60), <1>2, <1>3, PushRowFacts
<1>5. s[n].rows \in Seq(R) /\ Len(s[n].rows) \in Nat
  BY <1>3, PackedBufferFacts
<1>6. new.rows # <<>>
  <2>1. \A x \in Nat : x + 1 # 0
    OBVIOUS
  <2>2. Len(<<>>) = 0
    OBVIOUS
  <2> QED BY Zenon, <1>4, <1>5, <2>1, <2>2
<1>7. t = [s EXCEPT ![Len(s)] = new]
  BY Zenon, <1>1, <1>2
<1>8. /\ t \in Seq(PackedBuffers(R)) /\ Len(t) = n /\ t[n] = new
      /\ \A k \in 1 .. n : k # n => t[k] = s[k]
  <2>1. /\ t \in Seq(PackedBuffers(R)) /\ Len(t) = Len(s) /\ t[Len(s)] = new
        /\ \A k \in 1 .. Len(s) : k # Len(s) => t[k] = s[k]
    BY <1>4, <1>7, ChangeLast
  <2> QED BY Zenon, <1>1, <2>1
<1>9. Holds(R, u, t, RowsIn(s) + Len(t[n].rows) - Len(s[n].rows))
  <2>1. t[n].bytes = s[n].bytes /\ t[n].capacity = s[n].capacity /\ t[n].rows # <<>>
    BY Zenon, <1>4, <1>6, <1>8
  <2>2. LastDiffers(s, t, n)
    BY Zenon, <1>1, <1>8, <2>1 DEF LastDiffers
  <2> QED BY Zenon, <1>8, <2>2, ReshapeLast
<1>10. RowsIn(s) + Len(t[n].rows) - Len(s[n].rows) = RowsIn(s) + 1
  <2>1. RowsIn(s) \in Nat
    BY RowsNat
  <2>2. \A x, y \in Nat : x + (y + 1) - y = x + 1
    OBVIOUS
  <2> QED BY Zenon, <1>4, <1>5, <1>8, <2>1, <2>2
<1> QED BY Zenon, <1>9, <1>10

-----------------------------------------------------------------------------
(* The invariant of the object *)

\* Both lists of packed buffers keep their shape and as many rows as size_.
RowsHeld(a) ==
  Holds(Nat, DenseUnit, a.dense, a.size) /\ Holds(Row, DataUnit, a.data, a.size)

Sound(a) ==
  /\ a \in ArchType /\ IsInjective(a.available_sparse)
  /\ Running(a) =>
       /\ Listed(a.sparse, a.available_sparse) /\ RowsHeld(a)
       /\ a.size = LiveSlots(a.sparse)

\* EnsureNotFull makes room in all three lists.
LEMMA EnsureNotFullFacts ==
  ASSUME NEW a, Sound(a), Running(a), NEW b, b = [EnsureNotFull(a) EXCEPT !.size = @ + 1]
  PROVE  /\ b \in ArchType /\ Running(b) /\ b.size = a.size + 1
         /\ IsInjective(b.available_sparse) /\ b.available_sparse # <<>>
         /\ ListedBut({b.available_sparse[1]}, b.sparse, b.available_sparse)
         /\ LiveSlots(b.sparse) = a.size
         /\ HasRoom(Nat, DenseUnit, a.dense, b.dense)
         /\ HasRoom(Row, DataUnit, a.data, b.data)
         /\ b.data = EnsureNotFullPacked(a.data, DataUnit)
<1> DEFINE dense == EnsureNotFullPacked(a.dense, DenseUnit)
           data == EnsureNotFullPacked(a.data, DataUnit)
<1>1. /\ a \in ArchType /\ IsInjective(a.available_sparse)
      /\ Listed(a.sparse, a.available_sparse) /\ a.size = LiveSlots(a.sparse)
      /\ Shaped(a.dense, DenseUnit) /\ Packed(a.dense)
      /\ Shaped(a.data, DataUnit) /\ Packed(a.data)
  BY Zenon DEF Sound, RowsHeld, Holds
<1>2. PICK e : e = EnsureNotFullSparse(a)
  OBVIOUS
<1>3. /\ e \in ArchType /\ SameRows(a, e) /\ e.dcheck = a.dcheck
      /\ IsInjective(e.available_sparse) /\ e.available_sparse # <<>>
      /\ ListedBut({e.available_sparse[1]}, e.sparse, e.available_sparse)
      /\ LiveSlots(e.sparse) = LiveSlots(a.sparse)
  BY Zenon, <1>1, <1>2, EnsureSparseFacts
<1>4. /\ a.dense \in Seq(PackedBuffers(Nat)) /\ a.data \in Seq(PackedBuffers(Row))
      /\ a.size \in Int
  BY <1>1 DEF ArchType
<1>5. HasRoom(Nat, DenseUnit, a.dense, dense) /\ HasRoom(Row, DataUnit, a.data, data)
  <2>1. DenseUnit \in Nat \ {0} /\ DataUnit \in Nat \ {0}
    BY ConstantsNat
  <2>2. HasRoom(Nat, DenseUnit, a.dense, dense)
    BY Zenon, <1>1, <1>4, <2>1, EnsurePackedFacts
  <2>3. HasRoom(Row, DataUnit, a.data, data)
    BY Zenon, <1>1, <1>4, <2>1, EnsurePackedFacts
  <2> QED BY <2>2, <2>3
<1>6. dense \in Seq(PackedBuffers(Nat)) /\ data \in Seq(PackedBuffers(Row))
  BY Zenon, <1>5 DEF HasRoom
<1>7. b = [e EXCEPT !.dense = dense, !.data = data, !.size = e.size + 1]
  <2>1. e.dense = a.dense /\ e.data = a.data
    BY <1>3 DEF SameRows
  <2>2. b = [[e EXCEPT !.dense = dense, !.data = data] EXCEPT !.size = @ + 1]
    BY Zenon, <1>2, <2>1 DEF EnsureNotFull
  <2> HIDE DEF dense, data
  <2> QED BY <2>2, <1>3 DEF ArchType
<1> HIDE DEF dense, data
<1>8. e.size = a.size /\ data = EnsureNotFullPacked(a.data, DataUnit)
  BY <1>3 DEF SameRows, data
<1>9. a.size + 1 \in Int
  BY <1>4
<1>10. /\ b \in ArchType /\ b.dense = dense /\ b.data = data /\ b.size = a.size + 1
       /\ b.sparse = e.sparse /\ b.available_sparse = e.available_sparse /\ b.dcheck = e.dcheck
  BY ZenonT(60), <1>3, <1>6, <1>7, <1>8, <1>9 DEF ArchType
<1> QED BY Zenon, <1>1, <1>3, <1>5, <1>8, <1>10 DEF Running

\* The data buffers with one more row.
PushedTo(before, after, row) ==
  LET room == EnsureNotFullPacked(before, DataUnit)
  IN ~IsFull(Last(room)) /\ after = [room EXCEPT ![Len(room)] = PushRow(@, row)]

\* Push adds a row to the dense and data buffers and an id to a sparse one,
\* or fails where the data buffers can not hold a row at all.
LEMMA PushKeeps ==
  ASSUME NEW a, Sound(a), Running(a), NEW entity \in Entity, NEW b, b = PushEntity(a, entity)
  PROVE  /\ Sound(b) /\ b.size = a.size + 1 /\ (Running(b) => b.rv[1] \in Nat)
         /\ Running(b) => PushedTo(a.data, b.data, entity)
         /\ DataUnit <= kMaxBufferSize => b.dcheck # "ArchetypeDataBuffer::Push"
<1>1. PICK room : room = [EnsureNotFull(a) EXCEPT !.size = @ + 1]
  OBVIOUS
<1> DEFINE tail == Len(room.data)
           pushed == [room.data EXCEPT ![tail] = PushRow(@, entity)]
           p == [room EXCEPT !.data = pushed]
<1>2. /\ room \in ArchType /\ Running(room) /\ room.size = a.size + 1
      /\ IsInjective(room.available_sparse) /\ room.available_sparse # <<>>
      /\ ListedBut({room.available_sparse[1]}, room.sparse, room.available_sparse)
      /\ LiveSlots(room.sparse) = a.size
      /\ HasRoom(Nat, DenseUnit, a.dense, room.dense)
      /\ HasRoom(Row, DataUnit, a.data, room.data)
      /\ room.data = EnsureNotFullPacked(a.data, DataUnit)
  BY Zenon, <1>1, EnsureNotFullFacts
<1>3. /\ room.dense \in Seq(PackedBuffers(Nat)) /\ room.dense # <<>>
      /\ room.data \in Seq(PackedBuffers(Row)) /\ room.data # <<>>
      /\ ~IsFull(Last(room.dense))
      /\ Shaped(room.dense, DenseUnit) /\ RowsIn(room.dense) = RowsIn(a.dense)
      /\ DataUnit <= kMaxBufferSize => ~IsFull(Last(room.data))
      /\ ~IsFull(Last(room.data)) =>
           Shaped(room.data, DataUnit) /\ RowsIn(room.data) = RowsIn(a.data)
  BY Zenon, <1>2, ConstantsNat DEF HasRoom
<1>4. Last(room.data) = room.data[tail]
  BY DEF Last
<1>5. b = Dcheck(room, ~IsFull(room.data[tail]), "ArchetypeDataBuffer::Push",
                 PushSparseDenseBuffer(p))
  <2>1. b = Dcheck(room, ~IsFull(room.data[tail]), "ArchetypeDataBuffer::Push",
                   PushSparseDenseBuffer([room EXCEPT !.data[tail] = PushRow(@, entity)]))
    BY <1>1 DEF PushEntity
  <2>2. [room EXCEPT !.data[tail] = PushRow(@, entity)] = p
    BY <1>2 DEF ArchType
  <2> QED BY Zenon, <2>1, <2>2
<1>6. CASE IsFull(room.data[tail])
  <2>1. b = [room EXCEPT !.dcheck = "ArchetypeDataBuffer::Push"]
    BY Zenon, <1>2, <1>5, <1>6 DEF Dcheck
  <2>2. "ArchetypeDataBuffer::Push" \in FailedChecks
    BY DEF FailedChecks
  <2>3. /\ b \in ArchType /\ ~Running(b) /\ b.available_sparse = room.available_sparse
        /\ b.size = room.size
    BY <1>2, <2>1, <2>2, DcheckFails DEF SameRows
  <2> QED BY Zenon, <1>2, <1>3, <1>4, <1>6, <2>3 DEF Sound
<1>7. CASE ~IsFull(room.data[tail])
  <2>1. b = PushSparseDenseBuffer(p)
    BY Zenon, <1>2, <1>5, <1>7 DEF Dcheck
  <2>2. Holds(Row, DataUnit, pushed, RowsIn(a.data) + 1)
    <3>1. entity \in Row /\ DataUnit \in Nat \ {0}
      BY ConstantsNat DEF Row
    <3>2. pushed = [room.data EXCEPT ![Len(room.data)] = PushRow(@, entity)]
      OBVIOUS
    <3> HIDE DEF pushed
    <3>3. Holds(Row, DataUnit, pushed, RowsIn(room.data) + 1)
      BY <1>3, <1>4, <1>7, <3>1, <3>2, PushTail
    <3> QED BY Zenon, <1>3, <1>4, <1>7, <3>3
  <2> HIDE DEF pushed
  <2>3. /\ p \in ArchType /\ p.data = pushed /\ p.size = room.size /\ p.dense = room.dense
        /\ p.sparse = room.sparse /\ p.available_sparse = room.available_sparse
        /\ p.dcheck = room.dcheck
    <3>1. pushed \in Seq(PackedBuffers(Row))
      BY <2>2 DEF Holds
    <3> QED BY <1>2, <3>1 DEF ArchType
  <2> HIDE DEF p
  <2>4. /\ b \in ArchType /\ IsInjective(b.available_sparse)
        /\ b.data = p.data /\ b.size = p.size
        /\ b.dcheck \in {"ok", "PushSparseDenseBuffer"}
        /\ Running(b) =>
             /\ Listed(b.sparse, b.available_sparse)
             /\ LiveSlots(b.sparse) = LiveSlots(p.sparse) + 1
             /\ b.rv[1] \in Nat
             /\ \E id \in Nat : b.dense = [p.dense EXCEPT ![Len(p.dense)] = PushRow(@, id)]
    <3>1. Running(p) /\ ListedBut({p.available_sparse[1]}, p.sparse, p.available_sparse)
      BY Zenon, <1>2, <2>3 DEF Running
    <3>2. p.dense # <<>> /\ ~IsFull(Last(p.dense)) /\ p.available_sparse # <<>>
          /\ IsInjective(p.available_sparse)
      BY Zenon, <1>2, <1>3, <2>3
    <3> QED BY <2>1, <2>3, <3>1, <3>2, PushSparseFacts
  <2>5. ASSUME Running(b)
        PROVE  Holds(Nat, DenseUnit, b.dense, RowsIn(a.dense) + 1)
    <3>1. PICK id \in Nat : b.dense = [room.dense EXCEPT ![Len(room.dense)] = PushRow(@, id)]
      BY Zenon, <2>3, <2>4, <2>5
    <3>2. DenseUnit \in Nat \ {0}
      BY ConstantsNat
    <3>3. Holds(Nat, DenseUnit, b.dense, RowsIn(room.dense) + 1)
      BY Zenon, <1>3, <3>1, <3>2, PushTail
    <3> QED BY Zenon, <1>3, <3>3
  <2>6. /\ a.size = RowsIn(a.dense) /\ a.size = RowsIn(a.data)
    BY Zenon DEF Sound, RowsHeld, Holds
  <2>7. Sound(b)
    BY Zenon, <1>2, <2>2, <2>3, <2>4, <2>5, <2>6 DEF Sound, RowsHeld
  <2>8. b.dcheck # "ArchetypeDataBuffer::Push"
    BY <2>4
  <2>9. PushedTo(a.data, pushed, entity)
    BY Zenon, <1>2, <1>4, <1>7 DEF PushedTo, pushed
  <2> QED BY Zenon, <1>2, <2>3, <2>4, <2>7, <2>8, <2>9
<1> QED BY Zenon, <1>6, <1>7

-----------------------------------------------------------------------------
(* Taking dense ids out of the sparse buffers *)

\* The sparse buffers with the list of those a push can use, count slots of
\* them in use.
SlotLists(sparse, available, count) ==
  /\ sparse \in Seq(SparseBuffers) /\ available \in Seq(Nat) /\ IsInjective(available)
  /\ Listed(sparse, available) /\ LiveSlots(sparse) = count

\* The buffer with number i - 1 becomes usable.
LEMMA FreeSlot ==
  ASSUME NEW s, NEW available, NEW count, SlotLists(s, available, count),
         NEW i \in 1 .. Len(s), s[i].capacity > 0,
         NEW new \in SparseBuffers, Usable(new), NEW t, t = [s EXCEPT ![i] = new],
         NEW listed, listed = IF s[i].hole_cnt = 0 THEN Append(available, i - 1) ELSE available
  PROVE  SlotLists(t, listed, count + new.size - s[i].size)
<1>1. /\ s \in Seq(SparseBuffers) /\ available \in Seq(Nat) /\ IsInjective(available)
      /\ Listed(s, available) /\ LiveSlots(s) = count
  BY DEF SlotLists
<1>2. /\ t \in Seq(SparseBuffers) /\ Len(t) = Len(s) /\ t[i] = new
      /\ \A k \in 1 .. Len(s) : k # i => t[k] = s[k]
  BY <1>1, ChangeAt
<1>3. LiveSlots(t) = count + new.size - s[i].size
  <2>1. LiveSlots(t) = LiveSlots(s) + t[i].size - s[i].size
    BY Zenon, <1>1, <1>2, LiveSlotsChange
  <2> QED BY Zenon, <1>1, <1>2, <2>1
<1>4. DOMAIN s = 1 .. Len(s) /\ DOMAIN t = 1 .. Len(s) /\ i - 1 \in Nat /\ (i - 1) + 1 = i
      /\ i \in DOMAIN s
  <2>1. \A w \in Seq(SparseBuffers) : DOMAIN w = 1 .. Len(w)
    OBVIOUS
  <2>2. i - 1 \in Nat /\ (i - 1) + 1 = i
    BY <1>1
  <2> QED BY Zenon, <1>1, <1>2, <2>1, <2>2
<1>5. /\ \A x \in ToSet(available) : x + 1 \in DOMAIN s
      /\ \A n \in DOMAIN s : n - 1 \in ToSet(available) <=> Usable(s[n])
  BY <1>1 DEF Listed, ListedBut
<1>6. s[i].hole_cnt \in Nat /\ s[i].capacity \in Nat
  <2>1. s[i] \in SparseBuffers
    BY <1>1
  <2> QED BY <2>1, SparseBufferFacts
<1>7. Usable(s[i]) <=> s[i].hole_cnt # 0
  BY <1>6 DEF Usable
<1>8. /\ listed \in Seq(Nat) /\ IsInjective(listed)
      /\ ToSet(listed) = ToSet(available) \cup {i - 1}
  <2>1. CASE s[i].hole_cnt = 0
    <3>1. i - 1 \notin ToSet(available)
      BY Zenon, <1>4, <1>5, <1>7, <2>1
    <3>2. listed = Append(available, i - 1)
      BY <2>1
    <3>3. PICK x \in Nat : x = i - 1
      BY Zenon, <1>4
    <3>4. /\ Append(available, x) \in Seq(Nat) /\ IsInjective(Append(available, x))
          /\ ToSet(Append(available, x)) = ToSet(available) \cup {x}
      BY ZenonT(60), <1>1, <3>1, <3>3, AppendNew
    <3> QED BY Zenon, <3>2, <3>3, <3>4
  <2>2. CASE s[i].hole_cnt # 0
    <3>1. i - 1 \in ToSet(available)
      BY Zenon, <1>4, <1>5, <1>7, <2>2
    <3>2. listed = available
      BY <2>2
    <3> QED BY <1>1, <3>1, <3>2
  <2> QED BY Zenon, <2>1, <2>2
<1>9. ASSUME NEW n \in DOMAIN t PROVE n - 1 \in ToSet(listed) <=> Usable(t[n])
  <2>1. CASE n = i
    BY Zenon, <1>2, <1>8, <2>1
  <2>2. CASE n # i
    <3>1. n \in DOMAIN s /\ n \in 1 .. Len(s)
      BY Zenon, <1>4
    <3>2. n - 1 # i - 1
      BY <1>1, <2>2, <3>1
    <3>3. n - 1 \in ToSet(listed) <=> n - 1 \in ToSet(available)
      BY Zenon, <1>8, <3>2
    <3> QED BY Zenon, <1>2, <1>5, <2>2, <3>1, <3>3
  <2> QED BY Zenon, <2>1, <2>2
<1>10. ASSUME NEW x \in ToSet(listed) PROVE x + 1 \in DOMAIN t
  BY Zenon, <1>4, <1>5, <1>8
<1>11. Listed(t, listed)
  BY Zenon, <1>9, <1>10 DEF Listed, ListedBut
<1> QED BY Zenon, <1>2, <1>3, <1>8, <1>11 DEF SlotLists

\* An empty last buffer goes, and its number with it.
LEMMA DropLast ==
  ASSUME NEW s, NEW available, NEW count, SlotLists(s, available, count),
         NEW n \in Nat \ {0}, n = Len(s), s[n].size = 0,
         NEW at, at = {k \in DOMAIN available : available[k] = n - 1},
         NEW left, left = IF at = {} THEN available ELSE SwapRemove(available, Min(at))
  PROVE  SlotLists(Front(s), left, count)
<1>1. /\ s \in Seq(SparseBuffers) /\ available \in Seq(Nat) /\ IsInjective(available)
      /\ Listed(s, available) /\ LiveSlots(s) = count
  BY DEF SlotLists
<1>2. PICK t : t = Front(s)
  OBVIOUS
<1>3. /\ t \in Seq(SparseBuffers) /\ Len(t) = n - 1 /\ \A k \in 1 .. n - 1 : t[k] = s[k]
  <2>1. s # <<>>
    BY <1>1
  <2> QED BY ZenonT(60), <1>1, <1>2, <2>1, FrontFacts
<1>4. LiveSlots(t) = count
  <2>1. Len(s) = Len(t) + 1 /\ \A k \in 1 .. Len(t) : s[k] = t[k]
    BY <1>3
  <2>2. LiveSlots(s) = LiveSlots(t) + s[Len(s)].size
    BY <1>1, <1>3, <2>1, LiveSlotsLonger
  <2>3. LiveSlots(t) \in Nat
    BY <1>3, LiveSlotsNat
  <2>4. \A x \in Nat : x + 0 = x
    OBVIOUS
  <2> QED BY Zenon, <1>1, <2>2, <2>3, <2>4
<1>5. DOMAIN s = 1 .. n /\ DOMAIN t = 1 .. n - 1 /\ n - 1 \in Nat
  BY <1>1, <1>3
<1>6. /\ \A x \in ToSet(available) : x + 1 \in DOMAIN s /\ x \in Nat
      /\ \A k \in DOMAIN s : k - 1 \in ToSet(available) <=> Usable(s[k])
  <2>1. \A x \in ToSet(available) : x \in Nat
    BY <1>1 DEF ToSet
  <2> QED BY <1>1, <2>1 DEF Listed, ListedBut
<1>7. /\ left \in Seq(Nat) /\ IsInjective(left) /\ ToSet(left) = ToSet(available) \ {n - 1}
  <2>1. CASE at = {}
    <3>1. n - 1 \notin ToSet(available)
      BY <2>1 DEF ToSet
    <3> QED BY Zenon, <1>1, <2>1, <3>1
  <2>2. CASE at # {}
    <3>1. at \subseteq Nat
      BY <1>1
    <3>2. \E x \in at : \A y \in at : x <= y
      BY <2>2, <3>1, Adding!NatLeast
    <3>3. Min(at) \in at
      BY <3>2 DEF Min
    <3>4. PICK k \in 1 .. Len(available) : k = Min(at) /\ available[k] = n - 1
      <4>1. DOMAIN available = 1 .. Len(available)
        BY <1>1
      <4> QED BY Zenon, <3>3, <4>1
    <3>5. left = SwapRemove(available, k)
      BY Zenon, <2>2, <3>4
    <3>6. /\ SwapRemove(available, k) \in Seq(Nat) /\ IsInjective(SwapRemove(available, k))
          /\ ToSet(SwapRemove(available, k)) = ToSet(available) \ {available[k]}
      BY <1>1, SwapRemoveFacts
    <3> QED BY Zenon, <3>4, <3>5, <3>6
  <2> QED BY Zenon, <2>1, <2>2
<1>8. ASSUME NEW k \in DOMAIN t PROVE k - 1 \in ToSet(left) <=> Usable(t[k])
  <2>1. k \in DOMAIN s /\ k - 1 # n - 1 /\ k \in 1 .. n - 1
    BY <1>5
  <2>2. t[k] = s[k]
    BY Zenon, <1>3, <2>1
  <2> QED BY Zenon, <1>6, <1>7, <2>1, <2>2
<1>9. ASSUME NEW x \in ToSet(left) PROVE x + 1 \in DOMAIN t
  <2>1. x \in Nat /\ x + 1 \in 1 .. n /\ x # n - 1
    BY Zenon, <1>5, <1>6, <1>7
  <2> QED BY <1>5, <2>1
<1>10. Listed(t, left)
  BY Zenon, <1>8, <1>9 DEF Listed, ListedBut
<1> QED BY Zenon, <1>2, <1>3, <1>4, <1>7, <1>10 DEF SlotLists

\* b differs from a in its sparse buffers only, count slots of them in use.
OnlySlots(a, b, count) ==
  /\ b \in ArchType /\ SameRows(a, b) /\ b.rv = a.rv /\ b.dcheck = a.dcheck
  /\ SlotLists(b.sparse, b.available_sparse, count)

\* An object with other sparse buffers.
LEMMA OtherSlots ==
  ASSUME NEW a \in ArchType, NEW sparse, NEW available, NEW count,
         SlotLists(sparse, available, count),
         NEW b, b = [a EXCEPT !.sparse = sparse, !.available_sparse = available]
  PROVE  OnlySlots(a, b, count)
<1>1. sparse \in Seq(SparseBuffers) /\ available \in Seq(Nat)
  BY DEF SlotLists
<1>2. /\ b \in ArchType /\ b.sparse = sparse /\ b.available_sparse = available
      /\ b.dense = a.dense /\ b.data = a.data /\ b.size = a.size /\ b.rv = a.rv
      /\ b.dcheck = a.dcheck
  BY <1>1 DEF ArchType
<1> QED BY Zenon, <1>2 DEF OnlySlots, SameRows

\* One round of the loop that drops empty sparse buffers.
LEMMA DropOne ==
  ASSUME NEW a, NEW b, NEW count, OnlySlots(a, b, count), NEW n \in Nat \ {0},
         NEW c, c = DropIfEmpty(b, n)
  PROVE  OnlySlots(a, c, count)
<1>1. /\ b \in ArchType /\ SameRows(a, b) /\ b.rv = a.rv /\ b.dcheck = a.dcheck
      /\ SlotLists(b.sparse, b.available_sparse, count)
  BY DEF OnlySlots
<1>2. CASE Len(b.sparse) # n \/ b.sparse[n].size # 0
  <2>1. c = b
    BY Zenon, <1>2 DEF DropIfEmpty
  <2> QED BY Zenon, <2>1
<1>3. CASE ~(Len(b.sparse) # n \/ b.sparse[n].size # 0)
  <2> DEFINE at == {k \in DOMAIN b.available_sparse : b.available_sparse[k] = n - 1}
             left == IF at = {} THEN b.available_sparse
                     ELSE SwapRemove(b.available_sparse, Min(at))
  <2>1. c = [b EXCEPT !.sparse = Front(b.sparse), !.available_sparse = left]
    BY Zenon, <1>3 DEF DropIfEmpty
  <2>2. SlotLists(Front(b.sparse), left, count)
    <3>1. n = Len(b.sparse) /\ b.sparse[n].size = 0
      BY Zenon, <1>3
    <3> QED BY Zenon, <1>1, <3>1, DropLast
  <2> HIDE DEF left
  <2>3. OnlySlots(b, c, count)
    BY Zenon, <1>1, <2>1, <2>2, OtherSlots
  <2> QED BY Zenon, <1>1, <2>3 DEF OnlySlots, SameRows
<1> QED BY Zenon, <1>2, <1>3

\* The loop.
LEMMA DropEmptyTailsFacts ==
  ASSUME NEW a, a \in ArchType, NEW count, SlotLists(a.sparse, a.available_sparse, count)
  PROVE  OnlySlots(a, DropEmptyTails(a), count)
<1>1. PICK w, n : w = FromTail(Len(a.sparse)) /\ n = Len(a.sparse)
  OBVIOUS
<1>2. n \in Nat
  BY <1>1 DEF ArchType
<1>3. /\ DOMAIN w = 1 .. n /\ \A k \in 1 .. n : w[k] \in Nat \ {0}
  BY <1>1, <1>2 DEF FromTail
<1>4. DropEmptyTails(a) = Dropping!Fold(a, w)
  BY ZenonT(60), <1>1 DEF DropEmptyTails, Dropping!Fold, FoldLeft, MapThenFoldSet,
    Dropping!MapThenFoldSet, Max, Dropping!Highest
<1>5. Dropping!HasLength(w, n)
  BY <1>2, <1>3 DEF Dropping!HasLength
<1>6. PICK g : Dropping!Folding(g, a, w, n)
  BY <1>5, Dropping!FoldSteps
<1>7. /\ g[0] = a /\ \A k \in 1 .. n : g[k] = DropIfEmpty(g[k - 1], w[k])
      /\ DropEmptyTails(a) = g[n]
  BY Zenon, <1>4, <1>6 DEF Dropping!Folding
<1> DEFINE S == {k \in 0 .. n : OnlySlots(a, g[k], count)}
<1>8. 0 \in S
  <2>1. OnlySlots(a, a, count)
    BY Zenon DEF OnlySlots, SameRows
  <2> QED BY <1>2, <1>7, <2>1
<1>9. ASSUME NEW k \in 1 .. n, k - 1 \in S PROVE k \in S
  <2>1. OnlySlots(a, g[k - 1], count) /\ w[k] \in Nat \ {0}
    BY Zenon, <1>3, <1>9
  <2>2. OnlySlots(a, g[k], count)
    BY Zenon, <1>7, <2>1, DropOne
  <2>3. k \in 0 .. n
    BY <1>2
  <2> QED BY Zenon, <2>2, <2>3
<1>10. 0 .. n \subseteq S
  <2> HIDE DEF S
  <2> QED BY <1>2, <1>8, <1>9, Dropping!RangeInduction
<1>11. n \in S
  BY <1>2, <1>10
<1> QED BY Zenon, <1>7, <1>11

\* The route of an index is a pair of numbers.
LEMMA SparseRouteNat ==
  ASSUME NEW a \in ArchType, NEW index \in Nat, SparseRouteValid(a, index),
         NEW id, id = SparseRoute(a, index).id, NEW offset, offset = SparseRoute(a, index).offset
  PROVE  /\ id + 1 \in 1 .. Len(a.sparse) /\ id \in Nat
         /\ offset \in 0 .. a.sparse[id + 1].capacity - 1
<1>1. a.sparse \in Seq(SparseBuffers) /\ a.sparse # <<>> /\ a.sparse[1] \in SparseBuffers
      /\ Len(a.sparse) \in Nat
  BY DEF SparseRouteValid, ArchType
<1>2. PICK cap : cap = IF a.sparse[1].capacity # 0 THEN a.sparse[1].capacity
                       ELSE kMaxBufferSize \div SparseUnit
  OBVIOUS
<1>3. cap \in Nat \ {0}
  <2>1. a.sparse[1].capacity \in Nat
    BY <1>1, SparseBufferFacts
  <2>2. kMaxBufferSize \div SparseUnit >= 1 /\ kMaxBufferSize \div SparseUnit \in Nat
    BY ConstantsNat, DivFacts
  <2> QED BY <1>2, <2>1, <2>2
<1>4. id = index \div cap /\ offset = index % cap
  BY Zenon, <1>2 DEF SparseRoute, Route
<1>5. id \in Nat /\ offset \in Nat
  BY <1>3, <1>4
<1>6. id < Len(a.sparse) /\ offset < a.sparse[id + 1].capacity
  BY DEF SparseRouteValid
<1>7. id + 1 \in 1 .. Len(a.sparse)
  BY <1>1, <1>5, <1>6
<1>8. a.sparse[id + 1].capacity \in Nat
  <2>1. a.sparse[id + 1] \in SparseBuffers
    BY <1>1, <1>7
  <2> QED BY <2>1, SparseBufferFacts
<1> QED BY <1>5, <1>6, <1>7, <1>8

\* b differs from a in its sparse buffers and in what it returns; count slots
\* are in use, unless a check failed.
TakenFrom(a, b, count) ==
  /\ b \in ArchType /\ SameRows(a, b) /\ IsInjective(b.available_sparse) /\ ~PushFails(b)
  /\ Running(b) => SlotLists(b.sparse, b.available_sparse, count)

\* A check of TakeDenseIdFromSparse fails.
LEMMA TakingFails ==
  ASSUME NEW a, a \in ArchType, IsInjective(a.available_sparse),
         NEW name \in {"GetSparseRoute", "SparseBuffer::Remove"},
         NEW b, b = [a EXCEPT !.dcheck = name], NEW count
  PROVE  TakenFrom(a, b, count) /\ ~Running(b)
<1>1. /\ b \in ArchType /\ ~Running(b) /\ SameRows(a, b)
      /\ b.available_sparse = a.available_sparse /\ ~PushFails(b)
  <2>1. name \in FailedChecks
    BY DEF FailedChecks
  <2> QED BY <2>1, DcheckFails DEF PushFails
<1> QED BY Zenon, <1>1 DEF TakenFrom

\* A slot in use of a sparse buffer is vacated.
LEMMA VacateSparseBuffer ==
  ASSUME NEW b \in SparseBuffers, b.size > 0, NEW offset \in 0 .. b.capacity - 1,
         b.slot[offset] # kInvalidDenseId
  PROVE  /\ Vacate(b, offset) \in SparseBuffers /\ Vacate(b, offset).size = b.size - 1
         /\ Usable(Vacate(b, offset)) /\ b.capacity > 0 /\ b.slot[offset] \in Nat
<1>1. /\ SparseType(b) /\ HolesExact(b) /\ b.hole_cnt \in Nat /\ b.capacity \in Nat
      /\ b.size \in Nat
  BY SparseBufferFacts
<1>2. SparseType(Vacate(b, offset)) /\ HolesExact(Vacate(b, offset))
  BY <1>1, VacateIsExact
<1>3. Vacate(b, offset).size = b.size - 1 /\ Vacate(b, offset).hole_cnt = b.hole_cnt + 1
  BY DEF Vacate
<1>4. Vacate(b, offset) \in SparseBuffers
  BY <1>2, IsSparseBuffer
<1>5. b.slot[offset] \in Nat /\ b.capacity > 0
  BY <1>1 DEF SparseType
<1> QED BY <1>1, <1>3, <1>4, <1>5 DEF Usable

\* TakeDenseIdFromSparse frees one slot and returns the dense id in it.
LEMMA TakeOne ==
  ASSUME NEW a, a \in ArchType, Running(a), NEW count,
         SlotLists(a.sparse, a.available_sparse, count), NEW index \in Nat,
         NEW b, b = TakeDenseIdFromSparse(a, index)
  PROVE  /\ TakenFrom(a, b, count - 1)
         /\ Running(b) => \E d \in Nat : b.rv = <<d>>
<1>1. PICK id, offset : id = SparseRoute(a, index).id /\ offset = SparseRoute(a, index).offset
  OBVIOUS
<1>2. PICK buffer, vacated, listed, d :
        /\ buffer = a.sparse[id + 1] /\ vacated = Vacate(buffer, offset)
        /\ listed = (IF buffer.hole_cnt = 0 THEN Append(a.available_sparse, id)
                     ELSE a.available_sparse)
        /\ d = buffer.slot[offset]
  OBVIOUS
<1>3. SlotAt(a, index) = d
  BY Zenon, <1>1, <1>2 DEF SlotAt
<1>4. PICK taken, next :
        /\ taken = [a EXCEPT !.available_sparse = listed, !.rv = <<d>>]
        /\ next = CASE vacated.size > 0 -> [taken EXCEPT !.sparse[id + 1] = vacated]
                    [] vacated.size = 0 /\ Len(a.sparse) > 1 ->
                         DropEmptyTails([taken EXCEPT !.sparse[id + 1] = SparseNew(0)])
                    [] vacated.size = 0 /\ Len(a.sparse) = 1 ->
                         [taken EXCEPT !.sparse = <<>>, !.available_sparse = <<>>]
  OBVIOUS
<1>5. b = Dcheck(a, SparseRouteValid(a, index), "GetSparseRoute",
            Dcheck(a, buffer.size > 0 /\ d # kInvalidDenseId, "SparseBuffer::Remove", next))
  BY Zenon, <1>1, <1>2, <1>3, <1>4 DEF TakeDenseIdFromSparse
<1>6. /\ a.sparse \in Seq(SparseBuffers) /\ a.available_sparse \in Seq(Nat)
      /\ IsInjective(a.available_sparse) /\ LiveSlots(a.sparse) = count
  BY DEF SlotLists
<1>7. CASE ~SparseRouteValid(a, index)
  <2>1. b = [a EXCEPT !.dcheck = "GetSparseRoute"]
    BY Zenon, <1>5, <1>7 DEF Dcheck
  <2>2. "GetSparseRoute" \in {"GetSparseRoute", "SparseBuffer::Remove"}
    OBVIOUS
  <2> QED BY Zenon, <1>6, <2>1, <2>2, TakingFails
<1>8. CASE SparseRouteValid(a, index) /\ ~(buffer.size > 0 /\ d # kInvalidDenseId)
  <2>1. b = [a EXCEPT !.dcheck = "SparseBuffer::Remove"]
    BY Zenon, <1>5, <1>8 DEF Dcheck
  <2>2. "SparseBuffer::Remove" \in {"GetSparseRoute", "SparseBuffer::Remove"}
    OBVIOUS
  <2> QED BY Zenon, <1>6, <2>1, <2>2, TakingFails
<1>9. CASE SparseRouteValid(a, index) /\ buffer.size > 0 /\ d # kInvalidDenseId
  <2>1. b = next
    BY Zenon, <1>5, <1>9 DEF Dcheck
  <2>2. /\ id + 1 \in 1 .. Len(a.sparse) /\ id \in Nat
        /\ offset \in 0 .. a.sparse[id + 1].capacity - 1
    BY <1>1, <1>9, SparseRouteNat
  <2>3. buffer \in SparseBuffers
    BY <1>2, <1>6, <2>2
  <2>4. /\ vacated \in SparseBuffers /\ vacated.size = buffer.size - 1
        /\ Usable(vacated) /\ buffer.capacity > 0 /\ d \in Nat
    BY <1>2, <1>9, <2>2, <2>3, VacateSparseBuffer
  <2>5. buffer.size \in Nat /\ count \in Nat
    BY <1>6, <2>3, SparseBufferFacts, LiveSlotsNat
  <2>6. ASSUME NEW new \in SparseBuffers, Usable(new), new.size = buffer.size - 1
        PROVE  SlotLists([a.sparse EXCEPT ![id + 1] = new], listed, count - 1)
    <3>1. PICK i \in 1 .. Len(a.sparse) : i = id + 1 /\ i - 1 = id
      BY <2>2
    <3>2. listed = (IF a.sparse[i].hole_cnt = 0 THEN Append(a.available_sparse, i - 1)
                    ELSE a.available_sparse)
      BY Zenon, <1>2, <3>1
    <3>3. a.sparse[i].capacity > 0 /\ a.sparse[i].size = buffer.size
      BY Zenon, <1>2, <2>4, <3>1
    <3>4. PICK t : t = [a.sparse EXCEPT ![i] = new]
      OBVIOUS
    <3>5. SlotLists(t, listed, count + new.size - a.sparse[i].size)
      BY <2>6, <3>2, <3>3, <3>4, FreeSlot
    <3>6. \A x, y \in Nat : x + (y - 1) - y = x - 1
      OBVIOUS
    <3>7. count + new.size - a.sparse[i].size = count - 1
      BY Zenon, <2>5, <2>6, <3>3, <3>6
    <3> QED BY Zenon, <3>1, <3>4, <3>5, <3>7
  <2>7. <<d>> \in Seq(Nat \cup Row)
    BY <2>4, OneElement
  <2>8. ASSUME NEW sparse, NEW available, SlotLists(sparse, available, count - 1),
               NEW c, c = [taken EXCEPT !.sparse = sparse, !.available_sparse = available]
        PROVE  /\ c \in ArchType /\ SlotLists(c.sparse, c.available_sparse, count - 1)
               /\ SameRows(a, c) /\ c.dcheck = a.dcheck /\ c.rv = <<d>>
    <3>1. sparse \in Seq(SparseBuffers) /\ available \in Seq(Nat)
      BY <2>8 DEF SlotLists
    <3>2. c = [a EXCEPT !.sparse = sparse, !.available_sparse = available, !.rv = <<d>>]
      BY <1>4, <2>8 DEF ArchType
    <3>3. /\ c \in ArchType /\ c.sparse = sparse /\ c.available_sparse = available
          /\ c.dense = a.dense /\ c.data = a.data /\ c.size = a.size /\ c.dcheck = a.dcheck
          /\ c.rv = <<d>>
      BY <2>7, <3>1, <3>2 DEF ArchType
    <3> QED BY Zenon, <2>8, <3>3 DEF SameRows
  <2>9. ASSUME NEW new
        PROVE  [taken EXCEPT !.sparse[id + 1] = new] =
                 [taken EXCEPT !.sparse = [a.sparse EXCEPT ![id + 1] = new],
                               !.available_sparse = listed]
    BY <1>4 DEF ArchType
  <2>10. CASE vacated.size > 0
    <3>1. next = [taken EXCEPT !.sparse[id + 1] = vacated]
      BY <1>4, <2>10
    <3>2. next = [taken EXCEPT !.sparse = [a.sparse EXCEPT ![id + 1] = vacated],
                               !.available_sparse = listed]
      BY Zenon, <2>9, <3>1
    <3>3. SlotLists([a.sparse EXCEPT ![id + 1] = vacated], listed, count - 1)
      BY Zenon, <2>4, <2>6
    <3>4. /\ next \in ArchType /\ SlotLists(next.sparse, next.available_sparse, count - 1)
          /\ SameRows(a, next) /\ next.dcheck = a.dcheck /\ next.rv = <<d>>
      BY Zenon, <2>8, <3>2, <3>3
    <3> QED BY Zenon, <2>1, <2>4, <3>4, RunningIsFine DEF TakenFrom, SlotLists, Running
  <2>11. CASE vacated.size = 0 /\ Len(a.sparse) > 1
    <3>1. PICK new, c : new = SparseNew(0) /\ c = [taken EXCEPT !.sparse[id + 1] = new]
      OBVIOUS
    <3>2. next = DropEmptyTails(c)
      <4>1. next = DropEmptyTails([taken EXCEPT !.sparse[id + 1] = SparseNew(0)])
        <5>1. vacated.size = 0 /\ ~(vacated.size > 0) /\ Len(a.sparse) > 1 /\ Len(a.sparse) # 1
          <6>1. Len(a.sparse) \in Nat
            BY <1>6
          <6>2. (\A y \in Nat : y > 1 => y # 1) /\ ~(0 > 0)
            OBVIOUS
          <6> QED BY Zenon, <2>11, <6>1, <6>2
        <5> QED BY Zenon, <1>4, <5>1
      <4> QED BY Zenon, <3>1, <4>1
    <3>3. new \in SparseBuffers /\ new.size = buffer.size - 1 /\ Usable(new)
      <4>1. 0 \div SparseUnit = 0
        BY ConstantsNat
      <4>2. new \in SparseBuffers /\ new.size = 0 /\ new.capacity = 0
        BY <3>1, <4>1, NewSparseBuffer
      <4> QED BY Zenon, <2>4, <2>11, <4>2 DEF Usable
    <3>4. c = [taken EXCEPT !.sparse = [a.sparse EXCEPT ![id + 1] = new],
                            !.available_sparse = listed]
      BY Zenon, <2>9, <3>1
    <3>5. SlotLists([a.sparse EXCEPT ![id + 1] = new], listed, count - 1)
      BY Zenon, <2>6, <3>3
    <3>6. /\ c \in ArchType /\ SlotLists(c.sparse, c.available_sparse, count - 1)
          /\ SameRows(a, c) /\ c.dcheck = a.dcheck /\ c.rv = <<d>>
      BY Zenon, <2>8, <3>4, <3>5
    <3>7. OnlySlots(c, next, count - 1)
      BY Zenon, <3>2, <3>6, DropEmptyTailsFacts
    <3> QED BY Zenon, <2>1, <2>4, <3>6, <3>7, RunningIsFine
            DEF OnlySlots, TakenFrom, SlotLists, SameRows, Running
  <2>12. CASE vacated.size = 0 /\ Len(a.sparse) = 1
    <3>1. next = [taken EXCEPT !.sparse = <<>>, !.available_sparse = <<>>]
      BY <1>4, <2>12
    <3>2. SlotLists(<<>>, <<>>, count - 1)
      <4>1. /\ <<>> \in Seq(SparseBuffers) /\ <<>> \in Seq(Nat) /\ IsInjective(<<>>)
            /\ Listed(<<>>, <<>>)
        BY DEF IsInjective, Listed, ListedBut, ToSet
      <4>2. LiveSlots(<<>>) = 0
        <5>1. PICK w : w = [n \in DOMAIN <<>> |-> <<>>[n].size]
          OBVIOUS
        <5>2. DOMAIN w = 1 .. 0
          BY <5>1
        <5>3. PICK g : /\ g[0] = 0 /\ \A k \in 1 .. 0 : g[k] = g[k - 1] + w[k]
                       /\ Total(w) = g[0]
          BY Zenon, <5>2, TotalSteps
        <5>4. LiveSlots(<<>>) = Total(w)
          BY Zenon, <5>1 DEF LiveSlots
        <5> QED BY <5>3, <5>4
      <4>3. count = 1
        <5>0. <<>> \in Seq(SparseBuffers) /\ Len(<<>>) = 0
          OBVIOUS
        <5>1. PICK none : none = <<>> /\ none \in Seq(SparseBuffers) /\ Len(none) = 0
          BY Zenon, <5>0
        <5>2. Len(a.sparse) = Len(none) + 1 /\ \A k \in 1 .. Len(none) : a.sparse[k] = none[k]
          BY <2>12, <5>1
        <5>3. LiveSlots(a.sparse) = LiveSlots(none) + a.sparse[Len(a.sparse)].size
          BY <1>6, <5>1, <5>2, LiveSlotsLonger
        <5>4. a.sparse[Len(a.sparse)] = buffer /\ buffer.size = 1
          <6>1. Len(a.sparse) = id + 1
            BY <2>2, <2>12
          <6>2. buffer.size - 1 = 0
            BY Zenon, <2>4, <2>12
          <6> QED BY <1>2, <2>5, <6>1, <6>2
        <5> QED BY <1>6, <4>2, <5>1, <5>3, <5>4
      <4> QED BY <4>1, <4>2, <4>3 DEF SlotLists
    <3>3. /\ next \in ArchType /\ SlotLists(next.sparse, next.available_sparse, count - 1)
          /\ SameRows(a, next) /\ next.dcheck = a.dcheck /\ next.rv = <<d>>
      BY Zenon, <2>8, <3>1, <3>2
    <3> QED BY Zenon, <2>1, <2>4, <3>3, RunningIsFine DEF TakenFrom, SlotLists, Running
  <2>13. \/ vacated.size > 0
         \/ vacated.size = 0 /\ Len(a.sparse) > 1
         \/ vacated.size = 0 /\ Len(a.sparse) = 1
    <3>1. vacated.size \in Nat
      BY <2>4, SparseBufferFacts
    <3>2. Len(a.sparse) \in Nat \ {0}
      BY <1>6, <2>2
    <3>3. \A x \in Nat, y \in Nat \ {0} : x > 0 \/ (x = 0 /\ y > 1) \/ (x = 0 /\ y = 1)
      OBVIOUS
    <3> QED BY Zenon, <3>1, <3>2, <3>3
  <2> QED BY Zenon, <2>10, <2>11, <2>12, <2>13
<1> QED BY Zenon, <1>7, <1>8, <1>9

\* ... and so far returned k dense ids.
TakenBatch(a, b, count, k) ==
  /\ TakenFrom(a, b, count)
  /\ Running(b) => b.rv \in Seq(Nat) /\ Len(b.rv) = k

\* One index of the list.
LEMMA TakeStep ==
  ASSUME NEW a, NEW acc, NEW count, NEW k \in Nat, TakenBatch(a, acc, count, k),
         NEW index \in Nat, NEW b, b = TakeNext(acc, index)
  PROVE  TakenBatch(a, b, count - 1, k + 1)
<1>1. PICK taken : taken = TakeDenseIdFromSparse(acc, index)
  OBVIOUS
<1>2. b = (IF Running(taken) THEN [taken EXCEPT !.rv = acc.rv \o @] ELSE taken)
  BY Zenon, <1>1 DEF TakeNext
<1>3. /\ acc \in ArchType /\ SameRows(a, acc) /\ IsInjective(acc.available_sparse)
      /\ ~PushFails(acc)
      /\ Running(acc) => SlotLists(acc.sparse, acc.available_sparse, count)
      /\ Running(acc) => acc.rv \in Seq(Nat) /\ Len(acc.rv) = k
  BY DEF TakenBatch, TakenFrom
<1>4. CASE ~Running(acc)
  <2>1. taken = acc
    BY Zenon, <1>1, <1>4 DEF TakeDenseIdFromSparse, Dcheck
  <2> QED BY Zenon, <1>2, <1>3, <1>4, <2>1 DEF TakenBatch, TakenFrom
<1>5. CASE Running(acc)
  <2>1. TakenFrom(acc, taken, count - 1) /\ (Running(taken) => \E d \in Nat : taken.rv = <<d>>)
    BY <1>1, <1>3, <1>5, TakeOne
  <2>2. /\ taken \in ArchType /\ SameRows(a, taken) /\ IsInjective(taken.available_sparse)
        /\ ~PushFails(taken)
        /\ Running(taken) => SlotLists(taken.sparse, taken.available_sparse, count - 1)
    BY Zenon, <1>3, <2>1 DEF TakenFrom, SameRows
  <2>3. CASE ~Running(taken)
    BY Zenon, <1>2, <2>2, <2>3 DEF TakenBatch, TakenFrom
  <2>4. CASE Running(taken)
    <3>1. PICK d \in Nat : taken.rv = <<d>>
      BY <2>1, <2>4
    <3>2. PICK ids : ids = acc.rv \o <<d>>
      OBVIOUS
    <3>3. acc.rv \in Seq(Nat) /\ Len(acc.rv) = k
      BY <1>3, <1>5
    <3>4. ids \in Seq(Nat) /\ Len(ids) = k + 1
      BY <3>2, <3>3
    <3>5. ids \in Seq(Nat \cup Row)
      BY <3>4
    <3>6. b = [taken EXCEPT !.rv = ids]
      BY Zenon, <1>2, <2>4, <3>1, <3>2
    <3>7. /\ b \in ArchType /\ b.sparse = taken.sparse /\ b.rv = ids
          /\ b.available_sparse = taken.available_sparse
          /\ b.dense = taken.dense /\ b.data = taken.data /\ b.size = taken.size
          /\ b.dcheck = taken.dcheck
      BY <2>2, <3>5, <3>6 DEF ArchType
    <3> QED BY Zenon, <2>2, <2>4, <3>4, <3>7 DEF TakenBatch, TakenFrom, SameRows, Running, PushFails
  <2> QED BY Zenon, <2>3, <2>4
<1> QED BY Zenon, <1>4, <1>5

\* TakeDenseIds frees as many slots as there are indices in the list, and
\* returns their dense ids.
LEMMA TakeAll ==
  ASSUME NEW a, a \in ArchType, Running(a), NEW count \in Int,
         SlotLists(a.sparse, a.available_sparse, count),
         NEW n \in Nat, NEW list \in [1 .. n -> Nat], NEW b, b = TakeDenseIds(a, list)
  PROVE  TakenBatch(a, b, count - n, n)
<1>1. PICK start : start = [a EXCEPT !.rv = <<>>]
  OBVIOUS
<1>2. b = Taking!Fold(start, list)
  BY Zenon, <1>1 DEF TakeDenseIds, Taking!Fold, FoldLeft, MapThenFoldSet,
    Taking!MapThenFoldSet, Max, Taking!Highest
<1>3. Taking!HasLength(list, n)
  BY DEF Taking!HasLength
<1>4. PICK g : Taking!Folding(g, start, list, n)
  BY <1>3, Taking!FoldSteps
<1>5. g[0] = start /\ (\A k \in 1 .. n : g[k] = TakeNext(g[k - 1], list[k])) /\ b = g[n]
  BY Zenon, <1>2, <1>4 DEF Taking!Folding
<1> DEFINE S == {k \in 0 .. n : TakenBatch(a, g[k], count - k, k)}
<1>6. 0 \in S
  <2>1. <<>> \in Seq(Nat) /\ <<>> \in Seq(Nat \cup Row) /\ Len(<<>>) = 0
    OBVIOUS
  <2>2. /\ start \in ArchType /\ start.sparse = a.sparse /\ start.rv = <<>>
        /\ start.available_sparse = a.available_sparse
        /\ start.dense = a.dense /\ start.data = a.data /\ start.size = a.size
        /\ start.dcheck = a.dcheck
    BY <1>1, <2>1 DEF ArchType
  <2>3. count - 0 = count /\ 0 \in 0 .. n
    OBVIOUS
  <2>4. TakenBatch(a, start, count, 0)
    BY Zenon, <2>1, <2>2, RunningIsFine DEF TakenBatch, TakenFrom, SameRows, SlotLists, Running
  <2> QED BY Zenon, <1>5, <2>3, <2>4
<1>7. ASSUME NEW k \in 1 .. n, k - 1 \in S PROVE k \in S
  <2>1. TakenBatch(a, g[k - 1], count - (k - 1), k - 1) /\ list[k] \in Nat
    BY Zenon, <1>7
  <2>2. k \in 0 .. n /\ k - 1 \in Nat /\ count - (k - 1) - 1 = count - k /\ (k - 1) + 1 = k
    OBVIOUS
  <2>3. PICK i, c : i = k - 1 /\ c = count - (k - 1)
    OBVIOUS
  <2>4. TakenBatch(a, g[k], c - 1, i + 1)
    <3>1. TakenBatch(a, g[k - 1], c, i) /\ g[k] = TakeNext(g[k - 1], list[k])
      BY Zenon, <1>5, <2>1, <2>3
    <3>2. i \in Nat
      BY Zenon, <2>2, <2>3
    <3> QED BY Zenon, <2>1, <3>1, <3>2, TakeStep
  <2>5. TakenBatch(a, g[k], count - k, k)
    BY Zenon, <2>2, <2>3, <2>4
  <2> QED BY Zenon, <2>2, <2>5
<1>8. 0 .. n \subseteq S
  <2> HIDE DEF S
  <2> QED BY <1>6, <1>7, Taking!RangeInduction
<1>9. n \in S
  <2> HIDE DEF S
  <2> QED BY <1>8
<1> QED BY Zenon, <1>5, <1>9

-----------------------------------------------------------------------------
(* The order of removal *)

\* w is ordered by the positions in order, the highest number first.
Sorts(order, w, n) ==
  /\ order \in [1 .. n -> 1 .. n] /\ IsInjective(order)
  /\ \A i, j \in 1 .. n : i < j => w[order[i]] >= w[order[j]]

\* A list of one number more can be ordered: its least number goes last.
LEMMA SortLonger ==
  ASSUME NEW n \in Nat, \A v \in [1 .. n -> Nat] : \E order : Sorts(order, v, n),
         NEW w \in [1 .. n + 1 -> Nat]
  PROVE  \E order : Sorts(order, w, n + 1)
<1>1. PICK m \in 1 .. n + 1 : \A i \in 1 .. n + 1 : w[m] <= w[i]
  <2>1. PICK T : T = {w[i] : i \in 1 .. n + 1}
    OBVIOUS
  <2>2. T \subseteq Nat /\ T # {}
    <3>1. w[1] \in T /\ \A i \in 1 .. n + 1 : w[i] \in Nat
      BY <2>1
    <3> QED BY <2>1, <3>1
  <2>3. PICK x \in T : \A y \in T : x <= y
    BY <2>2, Adding!NatLeast
  <2> QED BY Zenon, <2>1, <2>3
<1>2. PICK v : v = [i \in 1 .. n |-> IF i = m THEN w[n + 1] ELSE w[i]]
  OBVIOUS
<1>3. v \in [1 .. n -> Nat]
  BY <1>2
<1>4. PICK prev : Sorts(prev, v, n)
  BY <1>3
<1>5. /\ prev \in [1 .. n -> 1 .. n]
      /\ \A i, j \in 1 .. n : prev[i] = prev[j] => i = j
      /\ \A i, j \in 1 .. n : i < j => v[prev[i]] >= v[prev[j]]
  BY <1>4 DEF Sorts, IsInjective
<1>6. PICK order :
        order = [i \in 1 .. n + 1 |->
                   IF i = n + 1 THEN m ELSE IF prev[i] = m THEN n + 1 ELSE prev[i]]
  OBVIOUS
<1>7. /\ order \in [1 .. n + 1 -> 1 .. n + 1] /\ order[n + 1] = m
      /\ \A i \in 1 .. n : order[i] = IF prev[i] = m THEN n + 1 ELSE prev[i]
  <2>1. ASSUME NEW i \in 1 .. n + 1
        PROVE  /\ order[i] = IF i = n + 1 THEN m ELSE IF prev[i] = m THEN n + 1 ELSE prev[i]
               /\ order[i] \in 1 .. n + 1
    <3>1. order[i] = IF i = n + 1 THEN m ELSE IF prev[i] = m THEN n + 1 ELSE prev[i]
      BY <1>6
    <3>2. i = n + 1 \/ prev[i] \in 1 .. n + 1
      <4>1. i = n + 1 \/ i \in 1 .. n
        OBVIOUS
      <4>2. \A x \in 1 .. n : prev[x] \in 1 .. n
        BY <1>5
      <4>3. \A x \in 1 .. n : x \in 1 .. n + 1
        OBVIOUS
      <4> QED BY Zenon, <4>1, <4>2, <4>3
    <3>3. n + 1 \in 1 .. n + 1
      OBVIOUS
    <3> QED BY Zenon, <3>1, <3>2, <3>3
  <2>2. order \in [1 .. n + 1 -> 1 .. n + 1]
    BY Zenon, <1>6, <2>1
  <2>3. n + 1 \in 1 .. n + 1 /\ \A i \in 1 .. n : i \in 1 .. n + 1 /\ i # n + 1
    OBVIOUS
  <2> QED BY Zenon, <2>1, <2>2, <2>3
<1>8. ASSUME NEW i \in 1 .. n
      PROVE  w[order[i]] = v[prev[i]] /\ order[i] # m /\ prev[i] \in 1 .. n
  <2>1. prev[i] \in 1 .. n
    BY <1>5
  <2>2. order[i] = IF prev[i] = m THEN n + 1 ELSE prev[i]
    BY <1>7
  <2>3. v[prev[i]] = IF prev[i] = m THEN w[n + 1] ELSE w[prev[i]]
    BY <1>2, <2>1
  <2> QED BY <2>1, <2>2, <2>3
<1>9. ASSUME NEW i \in 1 .. n + 1, NEW j \in 1 .. n + 1, order[i] = order[j]
      PROVE  i = j
  <2>1. (i = n + 1 \/ i \in 1 .. n) /\ (j = n + 1 \/ j \in 1 .. n)
    OBVIOUS
  <2>2. CASE i \in 1 .. n /\ j \in 1 .. n
    <3>1. prev[i] = prev[j]
      BY <1>7, <1>8, <1>9, <2>2
    <3> QED BY <1>5, <2>2, <3>1
  <2>3. CASE i = n + 1 \/ j = n + 1
    BY <1>7, <1>8, <1>9, <2>1, <2>3
  <2> QED BY <2>1, <2>2, <2>3
<1>10. ASSUME NEW i \in 1 .. n + 1, NEW j \in 1 .. n + 1, i < j
       PROVE  w[order[i]] >= w[order[j]]
  <2>1. i \in 1 .. n /\ (j = n + 1 \/ j \in 1 .. n)
    BY <1>10
  <2>2. CASE j \in 1 .. n
    <3>1. v[prev[i]] >= v[prev[j]]
      BY <1>5, <1>10, <2>1, <2>2
    <3> QED BY Zenon, <1>8, <2>1, <2>2, <3>1
  <2>3. CASE j = n + 1
    <3>1. w[m] <= w[order[i]] /\ w[order[i]] \in Nat /\ w[m] \in Nat
      BY <1>1, <1>7
    <3> QED BY <1>7, <2>3, <3>1
  <2> QED BY <2>1, <2>2, <2>3
<1>11. Sorts(order, w, n + 1)
  BY <1>7, <1>9, <1>10 DEF Sorts, IsInjective
<1> QED BY <1>11

\* Every list of numbers can be ordered.
LEMMA SortExists ==
  ASSUME NEW n \in Nat, NEW w \in [1 .. n -> Nat]
  PROVE  \E order : Sorts(order, w, n)
<1> DEFINE S == {k \in Nat : \A v \in [1 .. k -> Nat] : \E order : Sorts(order, v, k)}
<1>1. 0 \in S
  <2>1. ASSUME NEW v \in [1 .. 0 -> Nat] PROVE Sorts(v, v, 0)
    <3>1. 1 .. 0 = {}
      OBVIOUS
    <3> QED BY <3>1 DEF Sorts, IsInjective
  <2> QED BY <2>1
<1>2. ASSUME NEW k \in Nat, k \in S PROVE k + 1 \in S
  <2>1. ASSUME NEW v \in [1 .. k + 1 -> Nat] PROVE \E order : Sorts(order, v, k + 1)
    BY <1>2, SortLonger
  <2> QED BY <2>1
<1>3. Nat \subseteq S
  <2> HIDE DEF S
  <2> QED BY <1>1, <1>2, Adding!NatSetInduction
<1> QED BY <1>3

-----------------------------------------------------------------------------
(* Removing rows *)

\* Every buffer of a list that holds its rows has one.
LEMMA HoldsFacts ==
  ASSUME NEW R, NEW u, NEW s, NEW count, Holds(R, u, s, count), NEW k \in 1 .. Len(s)
  PROVE  /\ s[k] \in PackedBuffers(R) /\ s[k].rows \in Seq(R) /\ Len(s[k].rows) \in Nat \ {0}
         /\ s[k].capacity = s[1].capacity /\ s[1].capacity \in Nat \ {0}
         /\ Len(s[k].rows) <= s[1].capacity /\ s[k].capacity = s[k].bytes \div u
         /\ s[k].bytes <= kMaxBufferSize \/ s[k].bytes = u
         /\ k < Len(s) => IsFull(s[k])
         /\ s[k].rows # <<>>
<1>1. s \in Seq(PackedBuffers(R)) /\ Shaped(s, u) /\ Packed(s)
  BY DEF Holds
<1>2. s[k] \in PackedBuffers(R) /\ k \in DOMAIN s
  BY <1>1
<1>3. /\ s[k].rows \in Seq(R) /\ Len(s[k].rows) \in Nat /\ s[k].capacity \in Nat
      /\ Len(s[k].rows) <= s[k].capacity
  BY <1>2, PackedBufferFacts
<1>4. /\ s[k].capacity = s[1].capacity /\ s[k].rows # <<>>
      /\ s[k].capacity = s[k].bytes \div u
      /\ s[k].bytes <= kMaxBufferSize \/ s[k].bytes = u
      /\ k < Len(s) => IsFull(s[k])
  BY Zenon, <1>1, <1>2 DEF Shaped, Packed
<1>5. Len(s[k].rows) # 0
  BY <1>3, <1>4
<1>6. \A x, y \in Nat : x # 0 /\ x <= y => x \in Nat \ {0} /\ y \in Nat \ {0}
  OBVIOUS
<1> QED BY Zenon, <1>2, <1>3, <1>4, <1>5, <1>6

\* The row with the flat position d is row j of buffer n, counting from 1.
RouteIs(s, d, n, j) ==
  LET route == Route(d, s[1].capacity)
  IN route.id + 1 = n /\ route.offset + 1 = j /\ route.id = n - 1 /\ route.offset = j - 1

\* The route of a flat position that passes the checks is one of a row.
LEMMA PackedRouteFacts ==
  ASSUME NEW R, NEW u, NEW s, NEW count, Holds(R, u, s, count), NEW d \in Nat,
         PackedRouteValid(s, d)
  PROVE  s # <<>> /\ \E n \in 1 .. Len(s) : \E j \in 1 .. Len(s[n].rows) : RouteIs(s, d, n, j)
<1>1. s \in Seq(PackedBuffers(R)) /\ s # <<>>
  BY DEF Holds, PackedRouteValid
<1>2. Len(s) \in Nat \ {0} /\ 1 \in 1 .. Len(s)
  BY <1>1
<1>3. PICK cap \in Nat \ {0} : cap = s[1].capacity
  BY Zenon, <1>2, HoldsFacts
<1>4. PICK id, offset : id = Route(d, s[1].capacity).id /\ offset = Route(d, s[1].capacity).offset
  OBVIOUS
<1>5. id = d \div cap /\ offset = d % cap
  BY Zenon, <1>3, <1>4 DEF Route
<1>6. id \in Nat /\ offset \in Nat
  BY <1>3, <1>5
<1>7. id < Len(s) /\ offset < Len(s[id + 1].rows)
  BY Zenon, <1>4 DEF PackedRouteValid
<1>8. PICK n, j : n = id + 1 /\ j = offset + 1
  OBVIOUS
<1>9. n \in 1 .. Len(s)
  BY <1>2, <1>6, <1>7, <1>8
<1>10. Len(s[n].rows) \in Nat
  BY <1>9, HoldsFacts
<1>11. offset < Len(s[n].rows)
  BY Zenon, <1>7, <1>8
<1>12. j \in 1 .. Len(s[n].rows)
  BY <1>6, <1>8, <1>10, <1>11
<1>13. id = n - 1 /\ offset = j - 1
  BY <1>6, <1>8
<1>14. RouteIs(s, d, n, j)
  BY Zenon, <1>4, <1>8, <1>13 DEF RouteIs
<1> QED BY Zenon, <1>1, <1>9, <1>12, <1>14

\* Row j of buffer n is replaced.
RowReplaced(s, n, j, row) == [s EXCEPT ![n].rows[j] = row]

\* t differs from s in that row only.
RowDiffers(s, t, n, j, row) ==
  /\ Len(t) = Len(s) /\ t[1].capacity = s[1].capacity
  /\ t[n].rows[j] = row
  /\ \A i \in 1 .. Len(s[n].rows) : i # j => t[n].rows[i] = s[n].rows[i]
  /\ \A k \in 1 .. Len(s) : Len(t[k].rows) = Len(s[k].rows) /\ (k # n => t[k] = s[k])

\* One row is replaced.
LEMMA ReplaceRow ==
  ASSUME NEW R, NEW u, NEW s, NEW count, Holds(R, u, s, count),
         NEW n \in 1 .. Len(s), NEW j \in 1 .. Len(s[n].rows), NEW row \in R,
         NEW t, t = RowReplaced(s, n, j, row)
  PROVE  Holds(R, u, t, count) /\ RowDiffers(s, t, n, j, row)
<1>1. /\ s \in Seq(PackedBuffers(R)) /\ Shaped(s, u) /\ Packed(s) /\ RowsIn(s) = count
  BY DEF Holds
<1>2. /\ s[n] \in PackedBuffers(R) /\ s[n].rows \in Seq(R) /\ Len(s[n].rows) \in Nat
  BY HoldsFacts
<1>3. PICK rows : rows = [s[n].rows EXCEPT ![j] = row]
  OBVIOUS
<1>4. rows \in Seq(R) /\ Len(rows) = Len(s[n].rows)
  BY <1>2, <1>3
<1>5. PICK new : new = [s[n] EXCEPT !.rows = rows]
  OBVIOUS
<1>6. /\ s[n] = [bytes |-> s[n].bytes, capacity |-> s[n].capacity, rows |-> s[n].rows]
      /\ s[n].bytes \in Nat /\ s[n].capacity \in Nat /\ Len(s[n].rows) <= s[n].capacity
  BY Zenon, <1>2, PackedBufferFacts
<1>7. new = [bytes |-> s[n].bytes, capacity |-> s[n].capacity, rows |-> rows]
  BY <1>5, <1>6
<1>8. /\ new \in PackedBuffers(R) /\ new.bytes = s[n].bytes /\ new.capacity = s[n].capacity
      /\ new.rows = rows
  <2>1. Len(rows) <= s[n].capacity
    BY Zenon, <1>4, <1>6
  <2>2. new \in PackedBuffers(R)
    BY Zenon, <1>4, <1>6, <1>7, <2>1, IsPackedBuffer
  <2> QED BY <1>7, <2>2
<1>9. t = [s EXCEPT ![n] = new]
  BY Zenon, <1>3, <1>5 DEF RowReplaced
<1>10. /\ t \in Seq(PackedBuffers(R)) /\ Len(t) = Len(s) /\ t[n] = new
       /\ \A k \in 1 .. Len(s) : k # n => t[k] = s[k]
  <2>1. PICK list, x : list = [s EXCEPT ![n] = x] /\ x = new
    OBVIOUS
  <2>2. x \in PackedBuffers(R)
    BY Zenon, <1>8, <2>1
  <2>3. /\ list \in Seq(PackedBuffers(R)) /\ Len(list) = Len(s) /\ list[n] = x
        /\ \A k \in 1 .. Len(s) : k # n => list[k] = s[k]
    BY <1>1, <2>1, <2>2, ChangeAt
  <2> QED BY Zenon, <1>9, <2>1, <2>3
<1>11. ASSUME NEW k \in 1 .. Len(s)
       PROVE  /\ t[k].bytes = s[k].bytes /\ t[k].capacity = s[k].capacity
              /\ Len(t[k].rows) = Len(s[k].rows)
  BY Zenon, <1>4, <1>8, <1>10
<1>12. DOMAIN t = 1 .. Len(s) /\ 1 \in 1 .. Len(s)
  <2>1. \A w \in Seq(PackedBuffers(R)) : DOMAIN w = 1 .. Len(w)
    OBVIOUS
  <2>2. 1 \in 1 .. Len(s)
    BY <1>1
  <2> QED BY Zenon, <1>10, <2>1, <2>2
<1>13. ASSUME NEW k \in 1 .. Len(s)
       PROVE  /\ t[k].capacity = t[k].bytes \div u
              /\ t[k].bytes <= kMaxBufferSize \/ t[k].bytes = u
              /\ t[k].capacity = t[1].capacity
              /\ k < Len(s) => IsFull(t[k])
              /\ t[k].rows # <<>>
  <2>1. /\ s[k].capacity = s[1].capacity /\ s[k].capacity = s[k].bytes \div u
        /\ s[k].bytes <= kMaxBufferSize \/ s[k].bytes = u
        /\ k < Len(s) => IsFull(s[k])
        /\ Len(s[k].rows) \in Nat \ {0}
    BY HoldsFacts
  <2>2. t[k].rows # <<>>
    <3>1. Len(t[k].rows) # 0
      BY <1>11, <2>1
    <3>2. Len(<<>>) = 0
      OBVIOUS
    <3> QED BY Zenon, <3>1, <3>2
  <2>3. t[k].capacity = t[1].capacity
    BY Zenon, <1>11, <1>12, <2>1
  <2>4. k < Len(s) => IsFull(t[k])
    BY Zenon, <1>11, <2>1 DEF IsFull
  <2> QED BY Zenon, <1>11, <2>1, <2>2, <2>3, <2>4
<1>14. Len(s) > 1 => t[1].capacity = kMaxBufferSize \div u
  BY Zenon, <1>1, <1>11, <1>12 DEF Shaped
<1>15. Shaped(t, u) /\ Packed(t)
  BY Zenon, <1>10, <1>12, <1>13, <1>14 DEF Shaped, Packed
<1>16. RowsIn(t) = count
  <2>1. RowsIn(t) = RowsIn(s) + Len(t[n].rows) - Len(s[n].rows)
    <3>1. PICK list : list = t
      OBVIOUS
    <3>2. /\ list \in Seq(PackedBuffers(R)) /\ Len(list) = Len(s)
          /\ \A k \in 1 .. Len(s) : k # n => list[k] = s[k]
      BY Zenon, <1>10, <3>1
    <3>3. RowsIn(list) = RowsIn(s) + Len(list[n].rows) - Len(s[n].rows)
      BY <1>1, <3>2, RowsChange
    <3> QED BY Zenon, <3>1, <3>3
  <2>2. RowsIn(s) \in Nat
    BY Zenon, <1>1, RowsNat
  <2>3. \A x, y \in Nat : x + y - y = x
    OBVIOUS
  <2> QED BY Zenon, <1>1, <1>2, <1>11, <2>1, <2>2, <2>3
<1>17. t[1].capacity = s[1].capacity
  BY Zenon, <1>11, <1>12
<1>18. /\ t[n].rows[j] = row
       /\ \A i \in 1 .. Len(s[n].rows) : i # j => t[n].rows[i] = s[n].rows[i]
  <2>1. t[n].rows = rows
    BY Zenon, <1>8, <1>10
  <2>2. rows[j] = row /\ \A i \in 1 .. Len(s[n].rows) : i # j => rows[i] = s[n].rows[i]
    BY <1>2, <1>3
  <2> QED BY Zenon, <2>1, <2>2
<1>19. Holds(R, u, t, count)
  BY Zenon, <1>10, <1>15, <1>16 DEF Holds
<1>20. RowDiffers(s, t, n, j, row)
  BY Zenon, <1>10, <1>11, <1>17, <1>18 DEF RowDiffers
<1> QED BY Zenon, <1>19, <1>20

\* t is a list whose rows are at the same positions in s, but for the last
\* row of s.
Without(s, t) ==
  /\ t # <<>> => t[1].capacity = s[1].capacity
  /\ \A k \in 1 .. Len(t) :
       /\ k \in 1 .. Len(s)
       /\ \A j \in 1 .. Len(t[k].rows) :
            /\ j \in 1 .. Len(s[k].rows) /\ t[k].rows[j] = s[k].rows[j]
            /\ k = Len(s) => j # Len(s[k].rows)

\* The last row goes, the only one of its buffer.
LEMMA DropBuffer ==
  ASSUME NEW R, NEW u, NEW s, NEW count, Holds(R, u, s, count), s # <<>>,
         Len(Last(s).rows) = 1, NEW t, t = Front(s)
  PROVE  Holds(R, u, t, count - 1) /\ Without(s, t)
<1>1. /\ s \in Seq(PackedBuffers(R)) /\ Shaped(s, u) /\ Packed(s) /\ RowsIn(s) = count
  BY DEF Holds
<1>2. PICK n \in Nat : n = Len(s) - 1 /\ Len(s) = n + 1
  BY <1>1
<1>3. /\ t \in Seq(PackedBuffers(R)) /\ Len(t) = n /\ \A k \in 1 .. n : t[k] = s[k]
      /\ Last(s) = s[n + 1]
  BY <1>1, <1>2, FrontFacts
<1>4. DOMAIN t = 1 .. n
  BY <1>3
<1>5. /\ \A k \in 1 .. n : k \in 1 .. Len(s) /\ k # Len(s) /\ k < Len(s) /\ 1 \in 1 .. n
      /\ n > 1 => Len(s) > 1 /\ 1 \in 1 .. n
  BY <1>2
<1>6. ASSUME NEW k \in 1 .. n
      PROVE  /\ t[k].capacity = t[k].bytes \div u
             /\ t[k].bytes <= kMaxBufferSize \/ t[k].bytes = u
             /\ t[k].capacity = t[1].capacity
             /\ IsFull(t[k])
             /\ t[k].rows # <<>>
  <2>1. /\ s[k].capacity = s[1].capacity /\ s[k].capacity = s[k].bytes \div u
        /\ s[k].bytes <= kMaxBufferSize \/ s[k].bytes = u
        /\ k < Len(s) => IsFull(s[k])
        /\ s[k].rows # <<>>
    BY <1>5, HoldsFacts
  <2> QED BY Zenon, <1>3, <1>5, <2>1
<1>7. n > 1 => t[1].capacity = kMaxBufferSize \div u
  BY Zenon, <1>1, <1>3, <1>5 DEF Shaped
<1>8. Shaped(t, u) /\ Packed(t)
  BY Zenon, <1>3, <1>4, <1>6, <1>7 DEF Shaped, Packed
<1>9. RowsIn(t) = count - 1
  <2>1. Len(s) = Len(t) + 1 /\ \A k \in 1 .. Len(t) : s[k] = t[k]
    BY Zenon, <1>2, <1>3
  <2>2. RowsIn(s) = RowsIn(t) + Len(s[Len(s)].rows)
    BY Zenon, <1>1, <1>3, <2>1, RowsLonger
  <2>3. RowsIn(s) = RowsIn(t) + 1
    BY Zenon, <1>2, <1>3, <2>2
  <2>4. RowsIn(t) \in Nat
    BY Zenon, <1>3, RowsNat
  <2> QED BY <1>1, <2>3, <2>4
<1>10. t # <<>> => t[1].capacity = s[1].capacity
  <2>1. t # <<>> => 1 \in 1 .. n
    BY <1>3
  <2> QED BY Zenon, <1>3, <2>1
<1>11. Without(s, t)
  BY Zenon, <1>3, <1>5, <1>10 DEF Without
<1> QED BY Zenon, <1>3, <1>8, <1>9, <1>11 DEF Holds

\* The last row goes, and its buffer keeps others.
LEMMA ShortenBuffer ==
  ASSUME NEW R, NEW u \in Nat \ {0}, NEW s, NEW count, Holds(R, u, s, count), s # <<>>,
         NEW tail, tail = RemoveTailRow(Last(s)), tail.rows # <<>>,
         NEW t, t = Append(Front(s), tail)
  PROVE  Holds(R, u, t, count - 1) /\ Without(s, t)
<1>1. /\ s \in Seq(PackedBuffers(R)) /\ Shaped(s, u) /\ Packed(s) /\ RowsIn(s) = count
  BY DEF Holds
<1>2. PICK n \in Nat \ {0} : n = Len(s)
  BY <1>1
<1>3. /\ Front(s) \in Seq(PackedBuffers(R)) /\ Len(Front(s)) = n - 1
      /\ \A k \in 1 .. n - 1 : Front(s)[k] = s[k]
      /\ Last(s) = s[n]
  BY <1>1, <1>2, FrontFacts
<1>4. /\ s[n] \in PackedBuffers(R) /\ s[n].rows \in Seq(R) /\ Len(s[n].rows) \in Nat \ {0}
  <2>1. n \in 1 .. Len(s)
    BY <1>2
  <2> QED BY Zenon, <2>1, HoldsFacts
<1>5. PICK m \in Nat : m = Len(s[n].rows) - 1 /\ Len(s[n].rows) = m + 1
  <2>1. \A x \in Nat \ {0} : x - 1 \in Nat /\ x = (x - 1) + 1
    OBVIOUS
  <2> QED BY Zenon, <1>4, <2>1
<1>6. PICK rows : rows = SubSeq(s[n].rows, 1, m)
  OBVIOUS
<1>7. /\ rows \in Seq(R) /\ Len(rows) = m /\ \A j \in 1 .. m : rows[j] = s[n].rows[j]
  BY SMTT(30), <1>4, <1>5, <1>6
<1>8. /\ s[n] = [bytes |-> s[n].bytes, capacity |-> s[n].capacity, rows |-> s[n].rows]
      /\ s[n].bytes \in Nat /\ s[n].capacity \in Nat /\ Len(s[n].rows) <= s[n].capacity
  BY Zenon, <1>4, PackedBufferFacts
<1>9. tail = [bytes |-> s[n].bytes, capacity |-> s[n].capacity, rows |-> rows]
  <2>1. tail = [s[n] EXCEPT !.rows = rows]
    BY Zenon, <1>3, <1>5, <1>6 DEF RemoveTailRow
  <2>2. \A r : [s[n] EXCEPT !.rows = r] =
                 [bytes |-> s[n].bytes, capacity |-> s[n].capacity, rows |-> r]
    BY <1>8
  <2> QED BY Zenon, <2>1, <2>2
<1>10. /\ tail \in PackedBuffers(R) /\ tail.bytes = s[n].bytes /\ tail.capacity = s[n].capacity
       /\ tail.rows = rows
  <2>1. Len(rows) <= s[n].capacity
    BY <1>5, <1>7, <1>8
  <2>2. tail \in PackedBuffers(R)
    BY Zenon, <1>7, <1>8, <1>9, <2>1, IsPackedBuffer
  <2> QED BY <1>9, <2>2
<1>11. /\ t \in Seq(PackedBuffers(R)) /\ Len(t) = n /\ t[n] = tail
       /\ \A k \in 1 .. n : k # n => t[k] = s[k]
  <2>1. PICK front : front = Front(s)
    OBVIOUS
  <2>2. /\ front \in Seq(PackedBuffers(R)) /\ Len(front) = n - 1
        /\ \A k \in 1 .. n - 1 : front[k] = s[k]
    BY Zenon, <1>3, <2>1
  <2>3. t = Append(front, tail)
    BY Zenon, <2>1
  <2>4. /\ t \in Seq(PackedBuffers(R)) /\ Len(t) = n /\ t[n] = tail
        /\ \A k \in 1 .. n - 1 : t[k] = front[k]
    BY <1>10, <2>2, <2>3
  <2>5. \A k \in 1 .. n : k # n => k \in 1 .. n - 1
    OBVIOUS
  <2> QED BY Zenon, <2>2, <2>4, <2>5
<1>12. LastDiffers(s, t, n)
  BY Zenon, <1>2, <1>10, <1>11 DEF LastDiffers
<1>13. Holds(R, u, t, RowsIn(s) + Len(t[n].rows) - Len(s[n].rows))
  BY Zenon, <1>1, <1>11, <1>12, ReshapeLast
<1>14. RowsIn(s) + Len(t[n].rows) - Len(s[n].rows) = count - 1
  <2>1. RowsIn(s) \in Nat
    BY Zenon, <1>1, RowsNat
  <2>2. RowsIn(s) + m - (m + 1) = RowsIn(s) - 1
    BY <2>1
  <2> QED BY Zenon, <1>1, <1>5, <1>7, <1>10, <1>11, <2>2
<1>15. t[1].capacity = s[1].capacity
  <2>1. 1 = n \/ (1 \in 1 .. n /\ 1 # n)
    BY <1>2
  <2> QED BY Zenon, <1>10, <1>11, <2>1
<1>16. ASSUME NEW k \in 1 .. Len(t)
       PROVE  /\ k \in 1 .. Len(s)
              /\ \A j \in 1 .. Len(t[k].rows) :
                   /\ j \in 1 .. Len(s[k].rows) /\ t[k].rows[j] = s[k].rows[j]
                   /\ k = Len(s) => j # Len(s[k].rows)
  <2>1. k \in 1 .. n
    BY Zenon, <1>11
  <2>2. CASE k # n
    <3>1. t[k] = s[k]
      BY Zenon, <1>11, <2>1, <2>2
    <3> QED BY Zenon, <1>2, <2>1, <2>2, <3>1
  <2>3. CASE k = n
    <3>1. \A j \in 1 .. m : j \in 1 .. m + 1 /\ j # m + 1
      OBVIOUS
    <3> QED BY ZenonT(60), <1>2, <1>5, <1>7, <1>10, <1>11, <2>1, <2>3, <3>1
  <2> QED BY Zenon, <2>2, <2>3
<1>17. Without(s, t)
  BY Zenon, <1>15, <1>16 DEF Without
<1> QED BY Zenon, <1>13, <1>14, <1>17

\* DropTailRow takes the last row of the last buffer.
LEMMA DropTailFacts ==
  ASSUME NEW R, NEW u \in Nat \ {0}, NEW s, NEW count, Holds(R, u, s, count), s # <<>>,
         NEW t, t = DropTailRow(s)
  PROVE  Holds(R, u, t, count - 1) /\ Without(s, t)
<1>1. PICK tail : tail = RemoveTailRow(Last(s))
  OBVIOUS
<1>2. t = IF tail.rows = <<>> THEN Front(s) ELSE Append(Front(s), tail)
  BY Zenon, <1>1 DEF DropTailRow
<1>3. CASE tail.rows # <<>>
  BY Zenon, <1>1, <1>2, <1>3, ShortenBuffer
<1>4. CASE tail.rows = <<>>
  <2>1. s \in Seq(PackedBuffers(R))
    BY DEF Holds
  <2>2. Len(s) \in 1 .. Len(s) /\ Last(s) = s[Len(s)]
    <3>1. Len(s) \in 1 .. Len(s)
      BY <2>1
    <3> QED BY Zenon, <3>1 DEF Last
  <2>3. /\ Last(s) \in PackedBuffers(R) /\ Last(s).rows \in Seq(R)
        /\ Len(Last(s).rows) \in Nat \ {0}
    <3>1. PICK k \in 1 .. Len(s) : k = Len(s)
      BY Zenon, <2>2
    <3>2. s[k] \in PackedBuffers(R) /\ s[k].rows \in Seq(R) /\ Len(s[k].rows) \in Nat \ {0}
      BY HoldsFacts
    <3> QED BY Zenon, <2>2, <3>1, <3>2
  <2>4. PICK rows : rows = Last(s).rows
    OBVIOUS
  <2>5. tail.rows = SubSeq(rows, 1, Len(rows) - 1)
    <3>1. Last(s) \in [bytes : Nat, capacity : Nat, rows : Seq(R)]
      BY <2>3 DEF PackedBuffers
    <3> QED BY <1>1, <2>4, <3>1 DEF RemoveTailRow
  <2>6. rows \in Seq(R) /\ Len(rows) \in Nat \ {0}
    BY Zenon, <2>3, <2>4
  <2>7. Len(rows) = 1
    <3>1. Len(SubSeq(rows, 1, Len(rows) - 1)) = Len(rows) - 1
      <4>1. PICK m \in Nat : m = Len(rows) - 1
        BY <2>6
      <4>2. Len(SubSeq(rows, 1, m)) = m
        BY <2>6, <4>1
      <4> QED BY Zenon, <4>1, <4>2
    <3>2. Len(SubSeq(rows, 1, Len(rows) - 1)) = 0
      <4>1. Len(<<>>) = 0
        OBVIOUS
      <4> QED BY Zenon, <1>4, <2>5, <4>1
    <3> QED BY <2>6, <3>1, <3>2
  <2>8. t = Front(s) /\ Len(Last(s).rows) = 1
    BY Zenon, <1>2, <1>4, <2>4, <2>7
  <2> QED BY Zenon, <2>8, DropBuffer
<1> QED BY Zenon, <1>3, <1>4

\* Positions are routed in order.
LEMMA RouteOrder ==
  ASSUME NEW cap \in Nat \ {0}, NEW d \in Nat, NEW e \in Nat, e <= d
  PROVE  /\ Route(e, cap).id \in Nat /\ Route(d, cap).id \in Nat
         /\ Route(e, cap).offset \in Nat /\ Route(d, cap).offset \in Nat
         /\ Route(e, cap).id <= Route(d, cap).id
         /\ Route(e, cap).id = Route(d, cap).id => Route(e, cap).offset <= Route(d, cap).offset
<1>1. e \div cap <= d \div cap /\ e \div cap \in Nat /\ d \div cap \in Nat
  BY DivMonotone, DivNat
<1>2. e % cap \in Nat /\ d % cap \in Nat
  OBVIOUS
<1>3. e \div cap = d \div cap => e % cap <= d % cap
  OBVIOUS
<1> QED BY <1>1, <1>2, <1>3 DEF Route

\* Each row that has been moved out of a list is at a position of D.
MarkedOnly(s, D) ==
  \A k \in 1 .. Len(s) : \A i \in 1 .. Len(s[k].rows) :
    s[k].rows[i] = NoEntity =>
      \E d \in D : Route(d, s[1].capacity) = [id |-> k - 1, offset |-> i - 1]

\* The row that RemoveDenseDataBuffer writes and the list it leaves.
RemovedRow(s, d) == DropTailRow(SetRow(s, d, TailRow(s)))

\* One row fewer.
LEMMA RemoveRow ==
  ASSUME NEW R, NEW u \in Nat \ {0}, NEW s, NEW count, Holds(R, u, s, count),
         NEW d \in Nat, PackedRouteValid(s, d), NEW t, t = RemovedRow(s, d)
  PROVE  /\ Holds(R, u, t, count - 1)
         /\ \A D \in SUBSET Nat :
              (\A e \in D : e <= d) /\ MarkedOnly(s, D) => MarkedOnly(t, D \ {d})
<1>0. PICK n \in 1 .. Len(s) : \E j \in 1 .. Len(s[n].rows) : RouteIs(s, d, n, j)
  BY Zenon, PackedRouteFacts
<1>1. PICK j \in 1 .. Len(s[n].rows) : RouteIs(s, d, n, j)
  BY Zenon, <1>0
<1>2. /\ n \in 1 .. Len(s) /\ j \in 1 .. Len(s[n].rows) /\ s # <<>>
      /\ Route(d, s[1].capacity).id = n - 1 /\ Route(d, s[1].capacity).offset = j - 1
  BY Zenon, <1>0, <1>1, PackedRouteFacts DEF RouteIs
<1>3. /\ s \in Seq(PackedBuffers(R)) /\ Len(s) \in 1 .. Len(s) /\ 1 \in 1 .. Len(s)
      /\ Len(s) \in Nat
  BY <1>2 DEF Holds
<1>4. PICK N \in 1 .. Len(s) : N = Len(s)
  BY Zenon, <1>3
<1>5. s[N].rows \in Seq(R) /\ Len(s[N].rows) \in Nat \ {0}
  BY HoldsFacts
<1>6. PICK L \in 1 .. Len(s[N].rows) : L = Len(s[N].rows)
  <2>1. Len(s[N].rows) \in 1 .. Len(s[N].rows)
    BY <1>5
  <2> QED BY Zenon, <2>1
<1>7. PICK row : row = TailRow(s)
  OBVIOUS
<1>8. row = s[N].rows[L] /\ row \in R
  <2>1. row = s[N].rows[L]
    BY Zenon, <1>4, <1>6, <1>7 DEF TailRow, Last
  <2> QED BY <1>5, <2>1
<1>9. PICK w : w = RowReplaced(s, n, j, row)
  OBVIOUS
<1>10. t = DropTailRow(w)
  BY Zenon, <1>1, <1>7, <1>9 DEF RemovedRow, SetRow, RowReplaced, RouteIs
<1>11. /\ Holds(R, u, w, count) /\ Len(w) = Len(s) /\ w[1].capacity = s[1].capacity
       /\ w[n].rows[j] = row
       /\ \A i \in 1 .. Len(s[n].rows) : i # j => w[n].rows[i] = s[n].rows[i]
       /\ \A k \in 1 .. Len(s) : /\ Len(w[k].rows) = Len(s[k].rows)
                                 /\ k # n => w[k] = s[k]
  <2>1. n \in 1 .. Len(s) /\ j \in 1 .. Len(s[n].rows)
    BY Zenon, <1>2
  <2>2. row \in R
    BY Zenon, <1>8
  <2>3. Holds(R, u, w, count) /\ RowDiffers(s, w, n, j, row)
    BY Zenon, <1>9, <2>1, <2>2, ReplaceRow
  <2> QED BY Zenon, <2>3 DEF RowDiffers
<1>12. w # <<>>
  <2>1. Len(<<>>) = 0 /\ ~(0 \in 1 .. Len(s))
    OBVIOUS
  <2> QED BY Zenon, <1>3, <1>11, <2>1
<1>13. Holds(R, u, t, count - 1) /\ Without(w, t)
  BY Zenon, <1>10, <1>11, <1>12, DropTailFacts
<1>14. ASSUME NEW D \in SUBSET Nat, \A e \in D : e <= d, MarkedOnly(s, D),
              NEW k \in 1 .. Len(t), NEW i \in 1 .. Len(t[k].rows), t[k].rows[i] = NoEntity
       PROVE  \E e \in D \ {d} : Route(e, t[1].capacity) = [id |-> k - 1, offset |-> i - 1]
  <2>1. /\ k \in 1 .. Len(s) /\ i \in 1 .. Len(s[k].rows) /\ w[k].rows[i] = NoEntity
        /\ k = Len(s) => i # Len(s[k].rows)
    <3>1. k \in 1 .. Len(w)
      BY Zenon, <1>13 DEF Without
    <3>2. /\ i \in 1 .. Len(w[k].rows) /\ t[k].rows[i] = w[k].rows[i]
          /\ k = Len(w) => i # Len(w[k].rows)
      BY Zenon, <1>13 DEF Without
    <3>3. Len(w[k].rows) = Len(s[k].rows)
      BY Zenon, <1>11, <3>1
    <3> QED BY Zenon, <1>11, <1>14, <3>1, <3>2, <3>3
  <2>2. t[1].capacity = s[1].capacity
    <3>1. t # <<>>
      <4>1. Len(<<>>) = 0 /\ ~(k \in 1 .. 0)
        OBVIOUS
      <4> QED BY Zenon, <4>1
    <3> QED BY Zenon, <1>11, <1>13, <3>1 DEF Without
  <2>3. PICK cap \in Nat \ {0} : cap = s[1].capacity
    BY Zenon, <1>3, HoldsFacts
  <2>4. CASE k = n /\ i = j
    <3>1. row = NoEntity
      BY Zenon, <1>11, <2>1, <2>4
    <3>2. PICK e \in D : Route(e, cap) = [id |-> N - 1, offset |-> L - 1]
      BY Zenon, <1>8, <1>14, <2>3, <3>1 DEF MarkedOnly
    <3>3. Route(e, cap).id = N - 1 /\ Route(e, cap).offset = L - 1
      BY <3>2
    <3>4. /\ N - 1 <= n - 1
          /\ N - 1 = n - 1 => L - 1 <= j - 1
      <4>1. e \in Nat /\ e <= d
        BY <1>14
      <4>2. /\ Route(e, cap).id <= Route(d, cap).id
            /\ Route(e, cap).id = Route(d, cap).id =>
                 Route(e, cap).offset <= Route(d, cap).offset
        BY <4>1, RouteOrder
      <4> QED BY Zenon, <1>2, <2>3, <3>3, <4>2
    <3>5. n = N
      BY <1>2, <1>4, <3>4
    <3>6. L - 1 <= j - 1 /\ j \in 1 .. L
      BY Zenon, <1>2, <1>6, <3>4, <3>5
    <3>7. j = L
      BY <1>5, <1>6, <3>6
    <3> QED BY Zenon, <1>4, <1>6, <2>1, <2>4, <3>5, <3>7
  <2>5. CASE ~(k = n /\ i = j)
    <3>1. s[k].rows[i] = NoEntity
      <4>1. CASE k # n
        BY Zenon, <1>11, <2>1, <4>1
      <4>2. CASE k = n
        <5>1. i # j /\ i \in 1 .. Len(s[n].rows) /\ w[n].rows[i] = NoEntity
          BY Zenon, <2>1, <2>5, <4>2
        <5> QED BY Zenon, <1>11, <4>2, <5>1
      <4> QED BY Zenon, <4>1, <4>2
    <3>2. PICK e \in D : Route(e, cap) = [id |-> k - 1, offset |-> i - 1]
      BY Zenon, <1>14, <2>1, <2>3, <3>1 DEF MarkedOnly
    <3>3. Route(e, cap).id = k - 1 /\ Route(e, cap).offset = i - 1
      BY <3>2
    <3>4. e # d
      <4> SUFFICES ASSUME e = d PROVE FALSE
        OBVIOUS
      <4>1. k - 1 = n - 1 /\ i - 1 = j - 1
        BY Zenon, <1>2, <2>3, <3>3
      <4>2. k = n /\ i = j
        BY <1>2, <2>1, <4>1
      <4> QED BY Zenon, <2>5, <4>2
    <3> QED BY Zenon, <2>2, <2>3, <3>2, <3>4
  <2> QED BY Zenon, <2>4, <2>5
<1>15. ASSUME NEW D \in SUBSET Nat, \A e \in D : e <= d, MarkedOnly(s, D)
       PROVE  MarkedOnly(t, D \ {d})
  BY Zenon, <1>14, <1>15 DEF MarkedOnly
<1> QED BY Zenon, <1>13, <1>15

\* More positions may be marked than are.
LEMMA MarkedMonotone ==
  ASSUME NEW s, NEW D, MarkedOnly(s, D), NEW E, D \subseteq E
  PROVE  MarkedOnly(s, E)
BY DEF MarkedOnly

\* b differs from a in its rows and in what it returns; count rows are left,
\* and only those at D have been moved out, unless a check failed.
LeftRows(a, b, count, D) ==
  /\ b \in ArchType /\ b.sparse = a.sparse /\ b.available_sparse = a.available_sparse
  /\ b.size = count /\ ~PushFails(b)
  /\ Running(b) => RowsHeld(b) /\ MarkedOnly(b.data, D)

\* RemoveDenseDataBuffer takes the highest of the rows that have been moved
\* out, or one that has not.
LEMMA RemoveStep ==
  ASSUME NEW a, NEW b, NEW count, NEW D \in SUBSET Nat, LeftRows(a, b, count, D),
         NEW d \in Nat, \A e \in D : e <= d, NEW c, c = RemoveDenseDataBuffer(b, d)
  PROVE  LeftRows(a, c, count - 1, D \ {d})
<1>1. /\ b \in ArchType /\ b.sparse = a.sparse /\ b.available_sparse = a.available_sparse
      /\ b.size = count /\ ~PushFails(b)
      /\ Running(b) => RowsHeld(b) /\ MarkedOnly(b.data, D)
  BY DEF LeftRows
<1>2. PICK shrunk : shrunk = [b EXCEPT !.size = @ - 1]
  OBVIOUS
<1>3. /\ shrunk \in ArchType /\ shrunk.sparse = b.sparse /\ shrunk.dense = b.dense
      /\ shrunk.available_sparse = b.available_sparse /\ shrunk.data = b.data
      /\ shrunk.size = b.size - 1 /\ shrunk.dcheck = b.dcheck
  BY <1>1, <1>2 DEF ArchType
<1>4. PICK dense, data : dense = RemovedRow(b.dense, d) /\ data = RemovedRow(b.data, d)
  OBVIOUS
<1>5. PICK left : left = [shrunk EXCEPT !.dense = dense, !.data = data]
  OBVIOUS
<1>6. c = Dcheck(shrunk, PackedRouteValid(b.dense, d), "GetDenseRoute",
          Dcheck(shrunk, PackedRouteValid(b.data, d), "GetDataRoute", left))
  BY Zenon, <1>2, <1>4, <1>5 DEF RemoveDenseDataBuffer, RemovedRow
<1>7. ASSUME NEW name \in {"GetDenseRoute", "GetDataRoute"},
             c = [shrunk EXCEPT !.dcheck = name]
      PROVE  LeftRows(a, c, count - 1, D \ {d})
  <2>1. name \in FailedChecks
    BY <1>7 DEF FailedChecks
  <2>2. /\ c \in ArchType /\ ~Running(c) /\ c.sparse = shrunk.sparse
        /\ c.available_sparse = shrunk.available_sparse /\ c.size = shrunk.size
        /\ ~PushFails(c)
    <3>1. c \in ArchType /\ ~Running(c) /\ ~PushFails(c)
      BY <1>3, <1>7, <2>1, DcheckFails DEF PushFails
    <3> QED BY <1>3, <1>7, <3>1 DEF ArchType
  <2> QED BY Zenon, <1>1, <1>3, <2>2 DEF LeftRows
<1>8. CASE ~Running(b)
  <2>1. c = shrunk /\ ~Running(shrunk) /\ ~PushFails(shrunk)
    BY Zenon, <1>1, <1>3, <1>6, <1>8 DEF Dcheck, Running, PushFails
  <2> QED BY Zenon, <1>1, <1>3, <2>1 DEF LeftRows
<1>9. CASE Running(b) /\ ~(PackedRouteValid(b.dense, d) /\ PackedRouteValid(b.data, d))
  <2>1. Running(shrunk)
    BY Zenon, <1>3, <1>9 DEF Running
  <2>2. \/ c = [shrunk EXCEPT !.dcheck = "GetDenseRoute"]
        \/ c = [shrunk EXCEPT !.dcheck = "GetDataRoute"]
    BY Zenon, <1>6, <1>9, <2>1 DEF Dcheck
  <2>3. /\ "GetDenseRoute" \in {"GetDenseRoute", "GetDataRoute"}
        /\ "GetDataRoute" \in {"GetDenseRoute", "GetDataRoute"}
    OBVIOUS
  <2> QED BY Zenon, <1>7, <2>2, <2>3
<1>10. CASE Running(b) /\ PackedRouteValid(b.dense, d) /\ PackedRouteValid(b.data, d)
  <2>1. c = left /\ Running(shrunk)
    BY Zenon, <1>3, <1>6, <1>10 DEF Dcheck, Running
  <2>2. Holds(Nat, DenseUnit, b.dense, count) /\ Holds(Row, DataUnit, b.data, count)
    BY Zenon, <1>1, <1>10 DEF RowsHeld
  <2>3. DenseUnit \in Nat \ {0} /\ DataUnit \in Nat \ {0}
    BY ConstantsNat
  <2>4. Holds(Nat, DenseUnit, dense, count - 1)
    BY Zenon, <1>4, <1>10, <2>2, <2>3, RemoveRow
  <2>5. Holds(Row, DataUnit, data, count - 1) /\ MarkedOnly(data, D \ {d})
    <3>1. /\ Holds(Row, DataUnit, data, count - 1)
          /\ \A E \in SUBSET Nat :
               (\A e \in E : e <= d) /\ MarkedOnly(b.data, E) => MarkedOnly(data, E \ {d})
      BY Zenon, <1>4, <1>10, <2>2, <2>3, RemoveRow
    <3> QED BY Zenon, <1>1, <1>10, <3>1
  <2>6. /\ left \in ArchType /\ left.dense = dense /\ left.data = data
        /\ left.sparse = shrunk.sparse /\ left.available_sparse = shrunk.available_sparse
        /\ left.size = shrunk.size /\ left.dcheck = shrunk.dcheck
    <3>1. dense \in Seq(PackedBuffers(Nat)) /\ data \in Seq(PackedBuffers(Row))
      BY Zenon, <2>4, <2>5 DEF Holds
    <3> QED BY <1>3, <1>5, <3>1 DEF ArchType
  <2>7. ~PushFails(left)
    BY Zenon, <2>1, <2>6, RunningIsFine DEF Running
  <2> QED BY Zenon, <1>1, <1>3, <2>1, <2>4, <2>5, <2>6, <2>7 DEF LeftRows, RowsHeld
<1> QED BY Zenon, <1>8, <1>9, <1>10

\* w has every number of a list of n, the highest first.
Descends(w, list, n) ==
  /\ w \in [1 .. n -> Nat] /\ \A i, j \in 1 .. n : i < j => w[i] >= w[j]
  /\ \A m \in 1 .. n : \E i \in 1 .. n : w[i] = list[m]

\* A list in the order of removal has the same numbers, the highest first.
LEMMA FromHighestFacts ==
  ASSUME NEW n \in Nat, NEW list \in [1 .. n -> Nat], NEW w, w = FromHighest(list)
  PROVE  Descends(w, list, n)
<1> DEFINE order == CHOOSE order \in HighestFirst(list) : TRUE
<1>1. w = [k \in DOMAIN list |-> list[order[k]]]
  BY DEF FromHighest
<1>2. DOMAIN list = 1 .. n
  OBVIOUS
<1>3. Sorts(order, list, n)
  <2>1. PICK other : Sorts(other, list, n)
    BY SortExists
  <2>2. other \in HighestFirst(list)
    BY Zenon, <1>2, <2>1 DEF Sorts, HighestFirst
  <2>3. order \in HighestFirst(list)
    BY Zenon, <2>2
  <2> HIDE DEF order
  <2> QED BY Zenon, <1>2, <2>3 DEF Sorts, HighestFirst
<1> HIDE DEF order
<1>4. /\ order \in [1 .. n -> 1 .. n] /\ \A i, j \in 1 .. n : order[i] = order[j] => i = j
      /\ \A i, j \in 1 .. n : i < j => list[order[i]] >= list[order[j]]
  BY <1>3 DEF Sorts, IsInjective
<1>5. /\ w \in [1 .. n -> Nat] /\ \A i \in 1 .. n : w[i] = list[order[i]]
      /\ \A i, j \in 1 .. n : i < j => w[i] >= w[j]
  BY <1>1, <1>2, <1>4
<1>6. ASSUME NEW m \in 1 .. n PROVE \E i \in 1 .. n : w[i] = list[m]
  <2>1. PICK i \in 1 .. n : order[i] = m
    BY ZenonT(60), <1>4, Removing!RangePermuted
  <2> QED BY Zenon, <1>5, <2>1
<1> QED BY Zenon, <1>5, <1>6 DEF Descends

\* RemoveManyDenseDataBuffer, of all rows that have been moved out.
LEMMA RemoveAll ==
  ASSUME NEW a, NEW b, NEW count \in Int, NEW n \in Nat, NEW list \in [1 .. n -> Nat],
         LeftRows(a, b, count, {list[i] : i \in 1 .. n}),
         NEW c, c = RemoveManyDenseDataBuffer(b, list)
  PROVE  LeftRows(a, c, count - n, {})
<1>1. PICK w : w = FromHighest(list)
  OBVIOUS
<1>6. /\ w \in [1 .. n -> Nat] /\ \A i, j \in 1 .. n : i < j => w[i] >= w[j]
      /\ \A m \in 1 .. n : \E i \in 1 .. n : w[i] = list[m]
  <2>1. Descends(w, list, n)
    BY Zenon, <1>1, FromHighestFacts
  <2> QED BY Zenon, <2>1 DEF Descends
<1>7. c = Removing!Fold(b, w)
  <2>1. c = FoldLeft(RemoveDenseDataBuffer, b, w)
    BY ZenonT(60), <1>1 DEF RemoveManyDenseDataBuffer, FoldLeft, MapThenFoldSet, Max
  <2> QED BY Zenon, <2>1 DEF Removing!Fold, FoldLeft, MapThenFoldSet,
        Removing!MapThenFoldSet, Max, Removing!Highest
<1>8. Removing!HasLength(w, n)
  BY <1>6 DEF Removing!HasLength
<1>9. PICK g : Removing!Folding(g, b, w, n)
  BY <1>8, Removing!FoldSteps
<1>10. g[0] = b /\ (\A k \in 1 .. n : g[k] = RemoveDenseDataBuffer(g[k - 1], w[k])) /\ c = g[n]
  BY Zenon, <1>7, <1>9 DEF Removing!Folding
<1> DEFINE D(k) == {w[i] : i \in k + 1 .. n}
           S == {k \in 0 .. n : LeftRows(a, g[k], count - k, D(k))}
<1>11. 0 \in S
  <2>1. {list[i] : i \in 1 .. n} \subseteq D(0)
    <3>1. ASSUME NEW m \in 1 .. n PROVE list[m] \in D(0)
      <4>1. PICK i \in 1 .. n : w[i] = list[m]
        BY <1>6
      <4>2. 0 + 1 .. n = 1 .. n
        OBVIOUS
      <4> QED BY Zenon, <4>1, <4>2
    <3> HIDE DEF D
    <3> QED BY Zenon, <3>1
  <2>2. LeftRows(a, b, count, D(0))
    <3> HIDE DEF D
    <3> QED BY Zenon, <2>1, MarkedMonotone DEF LeftRows
  <2>3. count - 0 = count /\ 0 \in 0 .. n
    OBVIOUS
  <2> HIDE DEF D
  <2> QED BY Zenon, <1>10, <2>2, <2>3
<1>12. ASSUME NEW k \in 1 .. n, k - 1 \in S PROVE k \in S
  <2>1. LeftRows(a, g[k - 1], count - (k - 1), D(k - 1)) /\ w[k] \in Nat
    BY Zenon, <1>6, <1>12
  <2>2. k \in 0 .. n /\ count - (k - 1) - 1 = count - k
    OBVIOUS
  <2>3. /\ D(k - 1) \in SUBSET Nat /\ (\A e \in D(k - 1) : e <= w[k])
        /\ D(k - 1) \ {w[k]} \subseteq D(k)
    <3>1. \A i \in k .. n : i \in 1 .. n /\ w[i] \in Nat /\ w[i] <= w[k]
      BY <1>6
    <3>2. (k - 1) + 1 = k /\ \A i \in k .. n : i = k \/ i \in k + 1 .. n
      OBVIOUS
    <3> QED BY <3>1, <3>2
  <2>4. LeftRows(a, g[k], count - (k - 1) - 1, D(k - 1) \ {w[k]})
    <3>1. PICK E \in SUBSET Nat : E = D(k - 1)
      BY <2>3
    <3>2. PICK m : m = count - (k - 1)
      OBVIOUS
    <3>3. LeftRows(a, g[k - 1], m, E) /\ \A e \in E : e <= w[k]
      BY <2>1, <2>3, <3>1, <3>2
    <3>4. g[k] = RemoveDenseDataBuffer(g[k - 1], w[k])
      BY <1>10
    <3>5. LeftRows(a, g[k], m - 1, E \ {w[k]})
      BY Zenon, <2>1, <3>3, <3>4, RemoveStep
    <3> QED BY <3>1, <3>2, <3>5
  <2>5. LeftRows(a, g[k], count - k, D(k))
    <3> HIDE DEF D
    <3> QED BY Zenon, <2>2, <2>3, <2>4, MarkedMonotone DEF LeftRows
  <2> QED BY Zenon, <2>2, <2>5
<1>13. 0 .. n \subseteq S
  <2> HIDE DEF S
  <2> QED BY <1>11, <1>12, Removing!RangeInduction
<1>14. LeftRows(a, g[n], count - n, D(n))
  <2>1. n \in 0 .. n
    OBVIOUS
  <2> QED BY Zenon, <1>13, <2>1
<1>15. D(n) = {}
  OBVIOUS
<1> QED BY <1>10, <1>14, <1>15

-----------------------------------------------------------------------------
(* Moving rows out *)

\* Buffers of the same size have room for the same number of rows.
LEMMA RoomOfEqual ==
  ASSUME NEW seq, NEW m \in Nat, Fitting!HasLength(seq, m), NEW n \in 0 .. m, NEW x \in Nat,
         \A k \in 1 .. n : seq[k] \div TargetUnit = x
  PROVE  /\ n = m => Fitting!Fold(0, seq) = n * x
         /\ n + 1 = m => Fitting!Fold(0, seq) = n * x + seq[m] \div TargetUnit
<1>1. PICK g : Fitting!Folding(g, 0, seq, m)
  BY Fitting!FoldSteps
<1>2. /\ g[0] = 0 /\ Fitting!Fold(0, seq) = g[m]
      /\ \A k \in 1 .. m : g[k] = g[k - 1] + seq[k] \div TargetUnit
  BY Zenon, <1>1 DEF Fitting!Folding, RoomWith
<1> DEFINE S == {k \in 0 .. n : g[k] = k * x}
<1>3. 0 \in S
  BY <1>2
<1>4. ASSUME NEW k \in 1 .. n, k - 1 \in S PROVE k \in S
  <2>1. g[k - 1] = (k - 1) * x /\ k \in 1 .. m /\ k \in 0 .. n /\ k - 1 \in Nat
    BY <1>4
  <2>2. g[k] = g[k - 1] + x
    BY Zenon, <1>2, <2>1
  <2>3. (k - 1) * x + x = k * x
    OBVIOUS
  <2> QED BY Zenon, <2>1, <2>2, <2>3
<1>5. 0 .. n \subseteq S
  <2> HIDE DEF S
  <2> QED BY <1>3, <1>4, Fitting!RangeInduction
<1>6. g[n] = n * x
  <2>1. n \in 0 .. n
    OBVIOUS
  <2> QED BY Zenon, <1>5, <2>1
<1>7. ASSUME n + 1 = m PROVE Fitting!Fold(0, seq) = n * x + seq[m] \div TargetUnit
  <2>1. m \in 1 .. m /\ m - 1 = n
    BY <1>7
  <2>2. g[m] = g[m - 1] + seq[m] \div TargetUnit
    BY Zenon, <1>2, <2>1
  <2> QED BY Zenon, <1>2, <1>6, <2>1, <2>2
<1> QED BY Zenon, <1>2, <1>6, <1>7

\* A number of units has room for as many rows.
LEMMA UnitsDivide ==
  ASSUME NEW u \in Nat \ {0}, NEW n \in Nat
  PROVE  (u * n) \div u = n
OBVIOUS

\* What is left of n after taking full capacities.
LEMMA WholeParts ==
  ASSUME NEW cap \in Nat \ {0}, NEW n \in Nat
  PROVE  n \div cap \in Nat /\ n - (n \div cap) * cap \in Nat
OBVIOUS

\* The buffers TakeMany allocates for n rows have room for n rows, also where
\* a row is wider than a full-sized buffer.
THEOREM TargetRoomExact ==
  ASSUME NEW n \in Nat
  PROVE  TargetRoom(n) = n
<1>1. PICK seq : seq = TargetBytes(n)
  OBVIOUS
<1>2. TargetRoom(n) = Fitting!Fold(0, seq)
  BY ZenonT(60), <1>1 DEF TargetRoom, Fitting!Fold, FoldLeft, MapThenFoldSet,
    Fitting!MapThenFoldSet, Max, Fitting!Highest
<1>3. PICK u \in Nat \ {0} : u = TargetUnit
  BY ConstantsNat
<1>4. PICK cap \in Nat : cap = kMaxBufferSize \div u
  BY ConstantsNat, DivNat
<1>5. PICK full : full = n \div cap
  OBVIOUS
<1>6. seq = IF cap = 0 THEN [k \in 1 .. n |-> u]
            ELSE IF cap < n THEN [k \in 1 .. full |-> kMaxBufferSize] \o <<u * (n - full * cap)>>
            ELSE <<u * n>>
  BY Zenon, <1>1, <1>3, <1>4, <1>5 DEF TargetBytes
<1>7. CASE cap = 0
  <2>1. seq = [k \in 1 .. n |-> u]
    BY Zenon, <1>6, <1>7
  <2>2. Fitting!HasLength(seq, n)
    BY <2>1 DEF Fitting!HasLength
  <2>3. \A k \in 1 .. n : seq[k] \div TargetUnit = 1
    <3>1. u \div u = 1
      BY DivFacts
    <3> QED BY <1>3, <2>1, <3>1
  <2>4. n \in 0 .. n /\ n * 1 = n
    OBVIOUS
  <2> QED BY <1>2, <2>2, <2>3, <2>4, RoomOfEqual
<1>8. CASE cap # 0 /\ cap < n
  <2>1. seq = [k \in 1 .. full |-> kMaxBufferSize] \o <<u * (n - full * cap)>>
    BY Zenon, <1>6, <1>8
  <2>2. PICK rest \in Nat : rest = n - full * cap /\ full \in Nat
    BY <1>5, <1>8, WholeParts
  <2>3. PICK last : last = u * rest
    OBVIOUS
  <2>4. seq = [k \in 1 .. full |-> kMaxBufferSize] \o <<last>>
    BY Zenon, <2>1, <2>2, <2>3
  <2>5. /\ DOMAIN seq = 1 .. full + 1 /\ \A k \in 1 .. full : seq[k] = kMaxBufferSize
        /\ seq[full + 1] = last
    BY <2>2, <2>4
  <2>6. PICK m \in Nat : m = full + 1
    BY <2>2
  <2>7. Fitting!HasLength(seq, m) /\ full \in 0 .. m /\ full + 1 = m
    <3>1. full \in 0 .. m
      BY <2>2, <2>6
    <3> QED BY Zenon, <2>5, <2>6, <3>1 DEF Fitting!HasLength
  <2>8. \A k \in 1 .. full : seq[k] \div TargetUnit = cap
    BY Zenon, <1>3, <1>4, <2>5
  <2>9. Fitting!Fold(0, seq) = full * cap + seq[m] \div TargetUnit
    BY Zenon, <2>7, <2>8, RoomOfEqual
  <2>10. seq[m] \div TargetUnit = rest
    BY Zenon, <1>3, <2>3, <2>5, <2>6, UnitsDivide
  <2>11. full * cap + (n - full * cap) = n
    <3>1. full * cap \in Nat
      BY <2>2
    <3> QED BY <3>1
  <2> QED BY Zenon, <1>2, <2>2, <2>9, <2>10, <2>11
<1>9. CASE cap # 0 /\ ~(cap < n)
  <2>1. PICK last : last = u * n
    OBVIOUS
  <2>2. seq = <<last>>
    BY Zenon, <1>6, <1>9, <2>1
  <2>3. DOMAIN seq = 1 .. 1 /\ seq[1] = last
    BY <2>2
  <2>4. Fitting!HasLength(seq, 1) /\ 0 \in 0 .. 1 /\ 0 + 1 = 1 /\ 1 \in Nat /\ 0 * 0 = 0 /\ 0 \in Nat
        /\ 1 .. 0 = {}
    BY <2>3 DEF Fitting!HasLength
  <2>5. Fitting!Fold(0, seq) = 0 * 0 + seq[1] \div TargetUnit
    BY <2>4, RoomOfEqual
  <2>6. seq[1] \div TargetUnit = n
    BY Zenon, <1>3, <2>1, <2>3, UnitsDivide
  <2> QED BY <1>2, <2>5, <2>6
<1> QED BY Zenon, <1>7, <1>8, <1>9

\* MoveRow moves a row out of one of the positions in D.
LEMMA MoveStep ==
  ASSUME NEW a, NEW b, NEW count, NEW D, LeftRows(a, b, count, D),
         NEW d \in Nat, d \in D, NEW c, c = MoveRow(b, d)
  PROVE  LeftRows(a, c, count, D)
<1>1. /\ b \in ArchType /\ b.sparse = a.sparse /\ b.available_sparse = a.available_sparse
      /\ b.size = count /\ ~PushFails(b)
      /\ Running(b) => RowsHeld(b) /\ MarkedOnly(b.data, D)
  BY DEF LeftRows
<1>2. PICK data, row : data = SetRow(b.data, d, NoEntity) /\ row = RowAt(b.data, d)
  OBVIOUS
<1>3. PICK left : left = [b EXCEPT !.data = data, !.rv = Append(@, row)]
  OBVIOUS
<1>4. c = Dcheck(b, PackedRouteValid(b.data, d), "GetDataRoute", left)
  BY Zenon, <1>2, <1>3 DEF MoveRow
<1>5. CASE ~Running(b)
  <2>1. c = b
    BY Zenon, <1>4, <1>5 DEF Dcheck
  <2> QED BY Zenon, <2>1
<1>6. CASE Running(b) /\ ~PackedRouteValid(b.data, d)
  <2>1. c = [b EXCEPT !.dcheck = "GetDataRoute"]
    BY Zenon, <1>4, <1>6 DEF Dcheck
  <2>2. "GetDataRoute" \in FailedChecks
    BY DEF FailedChecks
  <2>3. /\ c \in ArchType /\ ~Running(c) /\ c.sparse = b.sparse
        /\ c.available_sparse = b.available_sparse /\ c.size = b.size /\ ~PushFails(c)
    <3>1. c \in ArchType /\ ~Running(c) /\ ~PushFails(c)
      BY <1>1, <2>1, <2>2, DcheckFails DEF PushFails
    <3> QED BY <1>1, <2>1, <3>1 DEF ArchType
  <2> QED BY Zenon, <1>1, <2>3 DEF LeftRows
<1>7. CASE Running(b) /\ PackedRouteValid(b.data, d)
  <2>1. c = left
    BY Zenon, <1>4, <1>7 DEF Dcheck
  <2>2. Holds(Nat, DenseUnit, b.dense, count) /\ Holds(Row, DataUnit, b.data, count)
    BY Zenon, <1>1, <1>7 DEF RowsHeld
  <2>3. PICK n \in 1 .. Len(b.data) :
          \E j \in 1 .. Len(b.data[n].rows) : RouteIs(b.data, d, n, j)
    BY Zenon, <1>7, <2>2, PackedRouteFacts
  <2>4. PICK j \in 1 .. Len(b.data[n].rows) : RouteIs(b.data, d, n, j)
    BY Zenon, <2>3
  <2>5. data = RowReplaced(b.data, n, j, NoEntity)
    BY Zenon, <1>2, <2>4 DEF SetRow, RowReplaced, RouteIs
  <2>6. NoEntity \in Row
    BY DEF Row
  <2>7. /\ Holds(Row, DataUnit, data, count) /\ Len(data) = Len(b.data)
        /\ data[1].capacity = b.data[1].capacity
        /\ data[n].rows[j] = NoEntity
        /\ \A i \in 1 .. Len(b.data[n].rows) : i # j => data[n].rows[i] = b.data[n].rows[i]
        /\ \A k \in 1 .. Len(b.data) : /\ Len(data[k].rows) = Len(b.data[k].rows)
                                       /\ k # n => data[k] = b.data[k]
    <3>1. n \in 1 .. Len(b.data) /\ j \in 1 .. Len(b.data[n].rows)
      BY <2>3, <2>4
    <3>2. Holds(Row, DataUnit, b.data, count)
      BY Zenon, <2>2
    <3>3. Holds(Row, DataUnit, data, count) /\ RowDiffers(b.data, data, n, j, NoEntity)
      BY Zenon, <2>5, <2>6, <3>1, <3>2, ReplaceRow
    <3> QED BY Zenon, <3>3 DEF RowDiffers
  <2>8. b.data[n].rows \in Seq(Row)
    BY Zenon, <2>2, HoldsFacts
  <2>9. ASSUME NEW k \in 1 .. Len(data), NEW i \in 1 .. Len(data[k].rows),
               data[k].rows[i] = NoEntity
        PROVE  \E e \in D : Route(e, data[1].capacity) = [id |-> k - 1, offset |-> i - 1]
    <3>1. CASE k = n /\ i = j
      <4>1. Route(d, data[1].capacity).id = n - 1 /\ Route(d, data[1].capacity).offset = j - 1
        BY Zenon, <2>4, <2>7 DEF RouteIs
      <4>2. Route(d, data[1].capacity) = [id |-> n - 1, offset |-> j - 1]
        BY <4>1 DEF Route
      <4> QED BY Zenon, <3>1, <4>2
    <3>2. CASE ~(k = n /\ i = j)
      <4>1. k \in 1 .. Len(b.data) /\ i \in 1 .. Len(b.data[k].rows)
        BY Zenon, <2>7
      <4>2. b.data[k].rows[i] = NoEntity
        <5>1. CASE k # n
          BY Zenon, <2>7, <2>9, <4>1, <5>1
        <5>2. CASE k = n
          <6>1. i # j /\ i \in 1 .. Len(b.data[n].rows) /\ data[n].rows[i] = NoEntity
            BY Zenon, <2>9, <3>2, <4>1, <5>2
          <6> QED BY Zenon, <2>7, <5>2, <6>1
        <5> QED BY Zenon, <5>1, <5>2
      <4>3. PICK e \in D : Route(e, b.data[1].capacity) = [id |-> k - 1, offset |-> i - 1]
        BY Zenon, <1>1, <1>7, <4>1, <4>2 DEF MarkedOnly
      <4> QED BY Zenon, <2>7, <4>3
    <3> QED BY Zenon, <3>1, <3>2
  <2>10. MarkedOnly(data, D)
    BY Zenon, <2>9 DEF MarkedOnly
  <2>11. row \in Row
    <3>1. row = b.data[n].rows[j]
      BY Zenon, <1>2, <2>4 DEF RowAt, RouteIs
    <3> QED BY <2>8, <3>1
  <2>12. /\ left \in ArchType /\ left.dense = b.dense /\ left.data = data
         /\ left.sparse = b.sparse /\ left.available_sparse = b.available_sparse
         /\ left.size = b.size /\ left.dcheck = b.dcheck
    <3>1. data \in Seq(PackedBuffers(Row))
      BY Zenon, <2>7 DEF Holds
    <3>2. Append(b.rv, row) \in Seq(Nat \cup Row)
      <4>1. b.rv \in Seq(Nat \cup Row) /\ row \in Nat \cup Row
        BY <1>1, <2>11 DEF ArchType
      <4> QED BY <4>1
    <3> QED BY <1>1, <1>3, <3>1, <3>2 DEF ArchType
  <2>13. ~PushFails(left)
    BY Zenon, <1>7, <2>12, RunningIsFine DEF Running
  <2> QED BY Zenon, <1>1, <2>1, <2>2, <2>7, <2>10, <2>12, <2>13 DEF LeftRows, RowsHeld
<1> QED BY Zenon, <1>5, <1>6, <1>7

\* All rows of a list of positions are moved out.
LEMMA MoveAll ==
  ASSUME NEW a, NEW b, NEW count, NEW n \in Nat, NEW list \in [1 .. n -> Nat],
         NEW D, D = {list[i] : i \in 1 .. n}, LeftRows(a, b, count, D),
         NEW c, c = MoveRows(b, list)
  PROVE  LeftRows(a, c, count, D)
<1>1. c = Moving!Fold(b, list)
  BY Zenon DEF MoveRows, Moving!Fold, FoldLeft, MapThenFoldSet,
    Moving!MapThenFoldSet, Max, Moving!Highest
<1>2. Moving!HasLength(list, n)
  BY DEF Moving!HasLength
<1>3. PICK g : Moving!Folding(g, b, list, n)
  BY <1>2, Moving!FoldSteps
<1>4. g[0] = b /\ (\A k \in 1 .. n : g[k] = MoveRow(g[k - 1], list[k])) /\ c = g[n]
  BY Zenon, <1>1, <1>3 DEF Moving!Folding
<1> DEFINE S == {k \in 0 .. n : LeftRows(a, g[k], count, D)}
<1>5. 0 \in S
  <2>1. 0 \in 0 .. n
    OBVIOUS
  <2> QED BY Zenon, <1>4, <2>1
<1>6. ASSUME NEW k \in 1 .. n, k - 1 \in S PROVE k \in S
  <2>1. LeftRows(a, g[k - 1], count, D) /\ g[k] = MoveRow(g[k - 1], list[k])
    BY Zenon, <1>4, <1>6
  <2>2. list[k] \in Nat /\ list[k] \in D /\ k \in 0 .. n
    OBVIOUS
  <2> QED BY Zenon, <2>1, <2>2, MoveStep
<1>7. 0 .. n \subseteq S
  <2> HIDE DEF S
  <2> QED BY <1>5, <1>6, Moving!RangeInduction
<1>8. n \in 0 .. n
  OBVIOUS
<1> QED BY Zenon, <1>4, <1>7, <1>8

-----------------------------------------------------------------------------
(* The operations *)

\* The state of the object between two calls: no row is moved out.
Whole(a) ==
  /\ Sound(a) /\ a.size \in Nat /\ (Running(a) => MarkedOnly(a.data, {}))
  /\ DataUnit <= kMaxBufferSize => ~PushFails(a)

\* The handles that have been issued are numbers.
HandlesType(handles) == \A index \in DOMAIN handles : index \in Nat /\ handles[index] \in Entity

\* Batches of indices, of as many as n.
IndexList(list, n) == n \in Nat /\ list \in [1 .. n -> Nat]

\* An object whose rows are left as LeftRows says.
LEMMA WholeAgain ==
  ASSUME NEW a, NEW b, NEW count \in Nat, LeftRows(a, b, count, {}),
         SlotLists(a.sparse, a.available_sparse, count)
  PROVE  Whole(b)
<1>1. /\ b \in ArchType /\ b.sparse = a.sparse /\ b.available_sparse = a.available_sparse
      /\ b.size = count /\ (Running(b) => RowsHeld(b) /\ MarkedOnly(b.data, {}))
      /\ ~PushFails(b)
  BY DEF LeftRows
<1>2. /\ IsInjective(a.available_sparse) /\ Listed(a.sparse, a.available_sparse)
      /\ LiveSlots(a.sparse) = count
  BY DEF SlotLists
<1> QED BY Zenon, <1>1, <1>2 DEF Whole, Sound

\* The dense ids have been taken, or a check failed.
LEMMA AfterTaking ==
  ASSUME NEW a, Whole(a), Running(a), NEW n, NEW list, IndexList(list, n),
         NEW b, b = TakeDenseIds(a, list)
  PROVE  /\ ~Running(b) => Whole(b)
         /\ Running(b) =>
              /\ b \in ArchType /\ a.size - n \in Nat /\ b.size = a.size /\ RowsHeld(b)
              /\ SlotLists(b.sparse, b.available_sparse, a.size - n)
              /\ MarkedOnly(b.data, {}) /\ IndexList(b.rv, n)
<1>1. /\ a \in ArchType /\ IsInjective(a.available_sparse) /\ a.size \in Nat
      /\ Listed(a.sparse, a.available_sparse) /\ RowsHeld(a) /\ a.size = LiveSlots(a.sparse)
      /\ MarkedOnly(a.data, {})
  BY DEF Whole, Sound
<1>2. PICK count \in Nat : count = a.size
  BY <1>1
<1>3. SlotLists(a.sparse, a.available_sparse, count)
  <2>1. a.sparse \in Seq(SparseBuffers) /\ a.available_sparse \in Seq(Nat)
    BY <1>1 DEF ArchType
  <2> QED BY Zenon, <1>1, <1>2, <2>1 DEF SlotLists
<1>4. TakenBatch(a, b, count - n, n)
  <2>1. n \in Nat /\ list \in [1 .. n -> Nat] /\ count \in Int
    BY <1>2 DEF IndexList
  <2> QED BY <1>1, <1>3, <2>1, TakeAll
<1>5. /\ b \in ArchType /\ SameRows(a, b) /\ IsInjective(b.available_sparse)
      /\ ~PushFails(b)
      /\ Running(b) => SlotLists(b.sparse, b.available_sparse, count - n)
      /\ Running(b) => b.rv \in Seq(Nat) /\ Len(b.rv) = n
  BY Zenon, <1>4 DEF TakenBatch, TakenFrom
<1>6. b.dense = a.dense /\ b.data = a.data /\ b.size = a.size
  BY Zenon, <1>5 DEF SameRows
<1>7. ASSUME Running(b)
      PROVE  count - n \in Nat /\ IndexList(b.rv, n)
  <2>1. b.sparse \in Seq(SparseBuffers) /\ LiveSlots(b.sparse) = count - n
    BY Zenon, <1>5, <1>7 DEF SlotLists
  <2>2. count - n \in Nat
    BY Zenon, <2>1, LiveSlotsNat
  <2>3. n \in Nat
    BY DEF IndexList
  <2>4. b.rv \in [1 .. n -> Nat]
    BY <1>5, <1>7, <2>3
  <2> QED BY Zenon, <2>2, <2>3, <2>4 DEF IndexList
<1> QED BY Zenon, <1>1, <1>2, <1>5, <1>6, <1>7 DEF Whole, Sound, RowsHeld

\* b differs from a in what it returns only.
OnlyValue(a, b) ==
  /\ b \in ArchType /\ b.sparse = a.sparse /\ b.available_sparse = a.available_sparse
  /\ b.dense = a.dense /\ b.data = a.data /\ b.size = a.size /\ b.dcheck = a.dcheck

\* The object with another returned value.
LEMMA OtherValue ==
  ASSUME NEW a, a \in ArchType, NEW rv \in Seq(Nat \cup Row), NEW b, b = [a EXCEPT !.rv = rv]
  PROVE  OnlyValue(a, b)
BY DEF ArchType, OnlyValue

\* RemoveMany.
LEMMA RemoveIndicesFacts ==
  ASSUME NEW a, Whole(a), Running(a), NEW n, NEW list, IndexList(list, n),
         NEW b, b = RemoveIndices(a, list)
  PROVE  Whole(b)
<1>1. PICK taken : taken = TakeDenseIds(a, list)
  OBVIOUS
<1>2. b = IF ~Running(taken) THEN taken
          ELSE RemoveManyDenseDataBuffer([taken EXCEPT !.rv = <<>>], taken.rv)
  BY Zenon, <1>1 DEF RemoveIndices
<1>3. /\ ~Running(taken) => Whole(taken)
      /\ Running(taken) =>
           /\ taken \in ArchType /\ a.size - n \in Nat /\ taken.size = a.size /\ RowsHeld(taken)
           /\ SlotLists(taken.sparse, taken.available_sparse, a.size - n)
           /\ MarkedOnly(taken.data, {}) /\ IndexList(taken.rv, n)
  BY Zenon, <1>1, AfterTaking
<1>4. CASE Running(taken)
  <2>1. PICK start : start = [taken EXCEPT !.rv = <<>>]
    OBVIOUS
  <2>2. PICK none : none = <<>>
    OBVIOUS
  <2>3. /\ start \in ArchType /\ start.sparse = taken.sparse
        /\ start.available_sparse = taken.available_sparse
        /\ start.dense = taken.dense /\ start.data = taken.data /\ start.size = taken.size
        /\ start.dcheck = taken.dcheck
    <3>1. start = [taken EXCEPT !.rv = none]
      BY Zenon, <2>1, <2>2
    <3>2. none \in Seq(Nat \cup Row)
      BY <2>2
    <3>3. taken \in ArchType
      BY Zenon, <1>3, <1>4
    <3>4. OnlyValue(taken, start)
      BY Zenon, <3>1, <3>2, <3>3, OtherValue
    <3> QED BY Zenon, <3>4 DEF OnlyValue
  <2>4. PICK ids : ids = taken.rv
    OBVIOUS
  <2>5. n \in Nat /\ ids \in [1 .. n -> Nat]
    BY Zenon, <1>3, <1>4, <2>4 DEF IndexList
  <2>6. PICK D : D = {ids[i] : i \in 1 .. n}
    OBVIOUS
  <2>7. LeftRows(start, start, a.size, D)
    <3>1. MarkedOnly(start.data, {}) /\ {} \subseteq D
      BY <1>3, <1>4, <2>3
    <3>2. MarkedOnly(start.data, D)
      BY <3>1, MarkedMonotone
    <3>3. ~PushFails(start)
      BY Zenon, <1>4, <2>3, RunningIsFine DEF Running
    <3> QED BY Zenon, <1>3, <1>4, <2>3, <3>2, <3>3 DEF LeftRows, RowsHeld
  <2>8. a.size \in Int
    BY DEF Whole
  <2>9. LeftRows(start, b, a.size - n, {})
    <3>1. b = RemoveManyDenseDataBuffer(start, ids)
      BY Zenon, <1>2, <1>4, <2>1, <2>4
    <3>2. PICK count \in Int : count = a.size
      BY <2>8
    <3>3. LeftRows(start, start, count, {ids[i] : i \in 1 .. n})
      BY Zenon, <2>6, <2>7, <3>2
    <3>4. LeftRows(start, b, count - n, {})
      BY <2>5, <3>1, <3>3, RemoveAll
    <3> QED BY Zenon, <3>2, <3>4
  <2>10. a.size - n \in Nat /\ SlotLists(start.sparse, start.available_sparse, a.size - n)
    BY Zenon, <1>3, <1>4, <2>3
  <2> QED BY Zenon, <2>9, <2>10, WholeAgain
<1> QED BY Zenon, <1>2, <1>3, <1>4

\* TakeMany.
LEMMA TakeEntitiesFacts ==
  ASSUME NEW a, Whole(a), Running(a), NEW n, NEW list, IndexList(list, n),
         NEW b, b = TakeEntities(a, list)
  PROVE  Whole(b)
<1>1. PICK taken : taken = TakeDenseIds(a, list)
  OBVIOUS
<1>2. PICK fitting : fitting = SubSeq(taken.rv, 1, TargetRoom(Len(list)))
  OBVIOUS
<1>3. PICK allocated : allocated = \A bytes \in ToSet(TargetBytes(Len(list))) : bytes > 0
  OBVIOUS
<1>4. PICK start : start = [taken EXCEPT !.rv = <<>>]
  OBVIOUS
<1>5. PICK moved : moved = Dcheck(taken, allocated, "AlignedBuffer", MoveRows(start, fitting))
  OBVIOUS
<1>6. b = IF ~Running(moved) THEN moved ELSE RemoveManyDenseDataBuffer(moved, taken.rv)
  BY Zenon, <1>1, <1>2, <1>3, <1>4, <1>5 DEF TakeEntities
<1>7. /\ ~Running(taken) => Whole(taken)
      /\ Running(taken) =>
           /\ taken \in ArchType /\ a.size - n \in Nat /\ taken.size = a.size /\ RowsHeld(taken)
           /\ SlotLists(taken.sparse, taken.available_sparse, a.size - n)
           /\ MarkedOnly(taken.data, {}) /\ IndexList(taken.rv, n)
  BY Zenon, <1>1, AfterTaking
<1>8. CASE ~Running(taken)
  <2>1. moved = taken
    BY Zenon, <1>5, <1>8 DEF Dcheck
  <2> QED BY Zenon, <1>6, <1>7, <1>8, <2>1
<1>9. CASE Running(taken) /\ ~allocated
  <2>1. moved = [taken EXCEPT !.dcheck = "AlignedBuffer"]
    BY Zenon, <1>5, <1>9 DEF Dcheck
  <2>2. "AlignedBuffer" \in FailedChecks
    BY DEF FailedChecks
  <2>3. /\ moved \in ArchType /\ ~Running(moved) /\ moved.size = taken.size
        /\ moved.available_sparse = taken.available_sparse /\ ~PushFails(moved)
    <3>1. moved \in ArchType /\ ~Running(moved) /\ ~PushFails(moved)
      BY <1>7, <1>9, <2>1, <2>2, DcheckFails DEF PushFails
    <3> QED BY <1>7, <1>9, <2>1, <3>1 DEF ArchType
  <2>4. IsInjective(taken.available_sparse) /\ a.size \in Nat
    BY Zenon, <1>7, <1>9 DEF SlotLists, Whole
  <2> QED BY Zenon, <1>6, <1>7, <1>9, <2>3, <2>4 DEF Whole, Sound
<1>10. CASE Running(taken) /\ allocated
  <2>1. moved = MoveRows(start, fitting)
    BY Zenon, <1>5, <1>10 DEF Dcheck
  <2>2. PICK none : none = <<>>
    OBVIOUS
  <2>3. /\ start \in ArchType /\ start.sparse = taken.sparse
        /\ start.available_sparse = taken.available_sparse
        /\ start.dense = taken.dense /\ start.data = taken.data /\ start.size = taken.size
        /\ start.dcheck = taken.dcheck
    <3>1. start = [taken EXCEPT !.rv = none]
      BY Zenon, <1>4, <2>2
    <3>2. none \in Seq(Nat \cup Row)
      BY <2>2
    <3>3. taken \in ArchType
      BY Zenon, <1>7, <1>10
    <3>4. OnlyValue(taken, start)
      BY Zenon, <3>1, <3>2, <3>3, OtherValue
    <3> QED BY Zenon, <3>4 DEF OnlyValue
  <2>4. PICK ids : ids = taken.rv
    OBVIOUS
  <2>5. n \in Nat /\ ids \in [1 .. n -> Nat]
    BY Zenon, <1>7, <1>10, <2>4 DEF IndexList
  <2>6. fitting \in [1 .. n -> Nat] /\ fitting = ids
    <3>1. list \in [1 .. n -> Nat]
      BY DEF IndexList
    <3>2. Len(list) = n
      BY <2>5, <3>1
    <3>3. TargetRoom(n) = n
      BY <2>5, TargetRoomExact
    <3>4. fitting = SubSeq(ids, 1, n)
      BY Zenon, <1>2, <2>4, <3>2, <3>3
    <3>5. SubSeq(ids, 1, n) = ids
      BY <2>5
    <3> QED BY Zenon, <2>5, <3>4, <3>5
  <2>7. PICK D : D = {ids[i] : i \in 1 .. n}
    OBVIOUS
  <2>8. LeftRows(start, start, a.size, D)
    <3>1. MarkedOnly(start.data, {}) /\ {} \subseteq D
      BY <1>7, <1>10, <2>3
    <3>2. MarkedOnly(start.data, D)
      BY <3>1, MarkedMonotone
    <3>3. ~PushFails(start)
      BY Zenon, <1>10, <2>3, RunningIsFine DEF Running
    <3> QED BY Zenon, <1>7, <1>10, <2>3, <3>2, <3>3 DEF LeftRows, RowsHeld
  <2>9. LeftRows(start, moved, a.size, D)
    <3>1. moved = MoveRows(start, ids)
      BY <2>1, <2>6
    <3> QED BY Zenon, <2>5, <2>7, <2>8, <3>1, MoveAll
  <2>10. a.size - n \in Nat /\ SlotLists(start.sparse, start.available_sparse, a.size - n)
         /\ IsInjective(taken.available_sparse)
    BY Zenon, <1>7, <1>10, <2>3 DEF SlotLists
  <2>11. a.size \in Nat
    BY DEF Whole
  <2>12. CASE ~Running(moved)
    <3>1. /\ moved \in ArchType /\ moved.available_sparse = start.available_sparse
          /\ moved.size = a.size /\ ~PushFails(moved)
      BY Zenon, <2>9 DEF LeftRows
    <3> QED BY Zenon, <1>6, <2>3, <2>10, <2>11, <2>12, <3>1 DEF Whole, Sound
  <2>13. CASE Running(moved)
    <3>1. b = RemoveManyDenseDataBuffer(moved, ids)
      BY Zenon, <1>6, <2>4, <2>13
    <3>2. PICK count \in Int : count = a.size
      BY <2>11
    <3>3. LeftRows(start, moved, count, {ids[i] : i \in 1 .. n})
      BY Zenon, <2>7, <2>9, <3>2
    <3>4. LeftRows(start, b, count - n, {})
      BY <2>5, <3>1, <3>3, RemoveAll
    <3>5. LeftRows(start, b, a.size - n, {})
      BY Zenon, <3>2, <3>4
    <3> QED BY Zenon, <2>10, <3>5, WholeAgain
  <2> QED BY Zenon, <2>12, <2>13
<1> QED BY Zenon, <1>8, <1>9, <1>10

\* A list with no row moved out holds entities.
LEMMA NoneMoved ==
  ASSUME NEW s \in Seq(PackedBuffers(Row))
  PROVE  MarkedOnly(s, {}) <=> s \in Seq(PackedBuffers(Entity))
<1>1. NoEntity \notin Entity
  BY ConstantsNat
<1>2. DOMAIN s = 1 .. Len(s) /\ Len(s) \in Nat /\ \A k \in 1 .. Len(s) : s[k] \in PackedBuffers(Row)
  OBVIOUS
<1>3. ASSUME MarkedOnly(s, {}) PROVE s \in Seq(PackedBuffers(Entity))
  <2>1. ASSUME NEW k \in 1 .. Len(s) PROVE s[k] \in PackedBuffers(Entity)
    <3>1. /\ s[k].rows \in Seq(Row) /\ Len(s[k].rows) \in Nat /\ s[k].capacity \in Nat
          /\ s[k].bytes \in Nat /\ Len(s[k].rows) <= s[k].capacity
          /\ s[k] = [bytes |-> s[k].bytes, capacity |-> s[k].capacity, rows |-> s[k].rows]
      BY Zenon, <1>2, PackedBufferFacts
    <3>2. \A i \in 1 .. Len(s[k].rows) : s[k].rows[i] # NoEntity
      BY Zenon, <1>3 DEF MarkedOnly
    <3>3. s[k].rows \in Seq(Entity)
      <4>1. PICK rows : rows = s[k].rows
        OBVIOUS
      <4>2. rows \in Seq(Row) /\ \A i \in 1 .. Len(rows) : rows[i] # NoEntity
        BY Zenon, <3>1, <3>2, <4>1
      <4>3. rows \in Seq(Entity)
        BY <4>2 DEF Row
      <4> QED BY Zenon, <4>1, <4>3
    <3>4. [bytes |-> s[k].bytes, capacity |-> s[k].capacity, rows |-> s[k].rows]
            \in PackedBuffers(Entity)
      BY Zenon, <3>1, <3>3, IsPackedBuffer
    <3> QED BY Zenon, <3>1, <3>4
  <2> QED BY <1>2, <2>1
<1>4. ASSUME s \in Seq(PackedBuffers(Entity)) PROVE MarkedOnly(s, {})
  <2>1. ASSUME NEW k \in 1 .. Len(s), NEW i \in 1 .. Len(s[k].rows)
        PROVE  s[k].rows[i] # NoEntity
    <3>1. s[k] \in PackedBuffers(Entity)
      BY <1>4
    <3>2. s[k].rows \in Seq(Entity)
      BY <3>1, PackedBufferFacts
    <3> QED BY <1>1, <3>2
  <2> QED BY <2>1 DEF MarkedOnly
<1> QED BY <1>3, <1>4

\* Push.
LEMMA PushEntityFacts ==
  ASSUME NEW a, Whole(a), Running(a), NEW entity \in Entity, NEW b, b = PushEntity(a, entity)
  PROVE  Whole(b) /\ (Running(b) => b.rv[1] \in Nat)
<1>1. /\ Sound(b) /\ b.size = a.size + 1 /\ (Running(b) => b.rv[1] \in Nat)
      /\ Running(b) => PushedTo(a.data, b.data, entity)
      /\ DataUnit <= kMaxBufferSize => b.dcheck # "ArchetypeDataBuffer::Push"
  BY PushKeeps DEF Whole
<1>2. b.size \in Nat
  BY <1>1 DEF Whole
<1>3. ASSUME Running(b) PROVE MarkedOnly(b.data, {})
  <2>1. /\ a.data \in Seq(PackedBuffers(Row)) /\ MarkedOnly(a.data, {})
        /\ Shaped(a.data, DataUnit) /\ Packed(a.data)
    BY Zenon DEF Whole, Sound, RowsHeld, Holds
  <2>2. a.data \in Seq(PackedBuffers(Entity)) /\ DataUnit \in Nat \ {0}
    BY <2>1, NoneMoved, ConstantsNat
  <2>3. PICK room : room = EnsureNotFullPacked(a.data, DataUnit)
    OBVIOUS
  <2>4. HasRoom(Entity, DataUnit, a.data, room)
    BY Zenon, <2>1, <2>2, <2>3, EnsurePackedFacts
  <2>5. /\ ~IsFull(Last(room))
        /\ b.data = [room EXCEPT ![Len(room)] = PushRow(@, entity)]
    BY Zenon, <1>1, <1>3, <2>3 DEF PushedTo
  <2>6. /\ room \in Seq(PackedBuffers(Entity)) /\ room # <<>> /\ Shaped(room, DataUnit)
    BY Zenon, <2>4, <2>5 DEF HasRoom
  <2>7. Holds(Entity, DataUnit, b.data, RowsIn(room) + 1)
    BY Zenon, <2>2, <2>5, <2>6, PushTail
  <2>8. b.data \in Seq(PackedBuffers(Entity)) /\ b.data \in Seq(PackedBuffers(Row))
    BY Zenon, <1>1, <1>3, <2>7 DEF Sound, RowsHeld, Holds
  <2> QED BY <2>8, NoneMoved
<1> QED BY Zenon, <1>1, <1>2, <1>3 DEF Whole, PushFails

\* operator[] changes nothing but what it returns, or a check of it fails.
LEMMA LookupEntityFacts ==
  ASSUME NEW a, Whole(a), Running(a), NEW index \in Nat, NEW b, b = LookupEntity(a, index)
  PROVE  Whole(b)
<1>1. PICK row : row = RowAt(a.data, SlotAt(a, index))
  OBVIOUS
<1>2. PICK left : left = [a EXCEPT !.rv = <<row>>]
  OBVIOUS
<1>3. b = Dcheck(a, SparseRouteValid(a, index), "GetSparseRoute",
          Dcheck(a, SlotAt(a, index) # kInvalidDenseId, "operator[]",
          Dcheck(a, PackedRouteValid(a.data, SlotAt(a, index)), "GetDataRoute", left)))
  BY Zenon, <1>1, <1>2 DEF LookupEntity
<1>4. /\ a \in ArchType /\ IsInjective(a.available_sparse) /\ a.size \in Nat
      /\ Listed(a.sparse, a.available_sparse) /\ RowsHeld(a) /\ a.size = LiveSlots(a.sparse)
      /\ MarkedOnly(a.data, {})
  BY DEF Whole, Sound
<1>5. ASSUME NEW name \in {"GetSparseRoute", "operator[]", "GetDataRoute"},
             b = [a EXCEPT !.dcheck = name]
      PROVE  Whole(b)
  <2>1. name \in FailedChecks
    BY DEF FailedChecks
  <2>2. /\ b \in ArchType /\ ~Running(b) /\ SameRows(a, b) /\ ~PushFails(b)
        /\ b.available_sparse = a.available_sparse
    BY <1>4, <1>5, <2>1, DcheckFails DEF PushFails
  <2> QED BY Zenon, <1>4, <2>2 DEF Whole, Sound, SameRows
<1>6. \/ b = [a EXCEPT !.dcheck = "GetSparseRoute"]
      \/ b = [a EXCEPT !.dcheck = "operator[]"]
      \/ b = [a EXCEPT !.dcheck = "GetDataRoute"]
      \/ b = left /\ SlotAt(a, index) # kInvalidDenseId /\ SparseRouteValid(a, index)
         /\ PackedRouteValid(a.data, SlotAt(a, index))
  BY Zenon, <1>3 DEF Dcheck
<1>7. CASE b = left /\ SlotAt(a, index) # kInvalidDenseId /\ SparseRouteValid(a, index)
           /\ PackedRouteValid(a.data, SlotAt(a, index))
  <2>1. PICK id, offset : id = SparseRoute(a, index).id /\ offset = SparseRoute(a, index).offset
    OBVIOUS
  <2>2. a.sparse \in Seq(SparseBuffers)
    BY <1>4 DEF ArchType
  <2>3. id + 1 \in 1 .. Len(a.sparse) /\ offset \in 0 .. a.sparse[id + 1].capacity - 1
    BY <1>4, <1>7, <2>1, SparseRouteNat
  <2>4. PICK buffer \in SparseBuffers : buffer = a.sparse[id + 1]
    BY <2>2, <2>3
  <2>5. SparseType(buffer) /\ offset \in 0 .. buffer.capacity - 1
    BY <2>3, <2>4, SparseBufferFacts
  <2>6. buffer.slot[offset] \in Nat \cup {kInvalidDenseId}
    BY <2>5 DEF SparseType
  <2>7. PICK d \in Nat : d = SlotAt(a, index)
    <3>1. SlotAt(a, index) = buffer.slot[offset]
      BY Zenon, <2>1, <2>4 DEF SlotAt
    <3> QED BY <1>7, <2>6, <3>1
  <2>8. row \in Row
    <3>1. Holds(Row, DataUnit, a.data, a.size) /\ PackedRouteValid(a.data, d)
      BY Zenon, <1>4, <1>7, <2>7 DEF RowsHeld
    <3>2. PICK n \in 1 .. Len(a.data) :
            \E j \in 1 .. Len(a.data[n].rows) : RouteIs(a.data, d, n, j)
      BY Zenon, <3>1, PackedRouteFacts
    <3>3. PICK j \in 1 .. Len(a.data[n].rows) : RouteIs(a.data, d, n, j)
      BY Zenon, <3>2
    <3>4. row = a.data[n].rows[j]
      BY Zenon, <1>1, <2>7, <3>3 DEF RowAt, RouteIs
    <3>5. a.data[n].rows \in Seq(Row)
      BY Zenon, <3>1, HoldsFacts
    <3> QED BY <3>4, <3>5
  <2>9. PICK rv : rv = <<row>>
    OBVIOUS
  <2>10. /\ b \in ArchType /\ b.sparse = a.sparse /\ b.available_sparse = a.available_sparse
         /\ b.dense = a.dense /\ b.data = a.data /\ b.size = a.size /\ b.dcheck = a.dcheck
    <3>1. b = [a EXCEPT !.rv = rv]
      BY Zenon, <1>2, <1>7, <2>9
    <3>2. rv \in Seq(Nat \cup Row)
      BY <2>8, <2>9
    <3>3. a \in ArchType
      BY Zenon, <1>4
    <3>4. OnlyValue(a, b)
      BY Zenon, <3>1, <3>2, <3>3, OtherValue
    <3> QED BY Zenon, <3>4 DEF OnlyValue
  <2>11. ~PushFails(b) /\ Running(b)
    BY Zenon, <2>10, RunningIsFine DEF Running
  <2> QED BY Zenon, <1>4, <2>10, <2>11 DEF Whole, Sound, RowsHeld
<1>8. /\ "GetSparseRoute" \in {"GetSparseRoute", "operator[]", "GetDataRoute"}
      /\ "operator[]" \in {"GetSparseRoute", "operator[]", "GetDataRoute"}
      /\ "GetDataRoute" \in {"GetSparseRoute", "operator[]", "GetDataRoute"}
  OBVIOUS
<1> QED BY Zenon, <1>5, <1>6, <1>7, <1>8

-----------------------------------------------------------------------------
(* The invariant *)

\* What every call preserves: the object is whole, and the handles are numbers
\* issued for entities.
IInv == Whole(arch) /\ HandlesType(issued)

\* The empty archetype is whole.
LEMMA InitWhole == Init => IInv
<1> SUFFICES ASSUME Init PROVE IInv
  OBVIOUS
<1>1. /\ arch = [sparse |-> <<>>, available_sparse |-> <<>>, dense |-> <<>>, data |-> <<>>,
                 size |-> 0, rv |-> <<>>, dcheck |-> "ok"]
      /\ issued = <<>>
  BY DEF Init, EmptyArchetype
<1>2. /\ arch.sparse = <<>> /\ arch.available_sparse = <<>> /\ arch.dense = <<>>
      /\ arch.data = <<>> /\ arch.size = 0 /\ arch.dcheck = "ok"
  BY <1>1
<1>3. /\ <<>> \in Seq(SparseBuffers) /\ <<>> \in Seq(Nat) /\ <<>> \in Seq(PackedBuffers(Nat))
      /\ <<>> \in Seq(PackedBuffers(Row)) /\ <<>> \in Seq(Nat \cup Row)
      /\ <<>> \in Seq(PackedBuffers(Entity)) /\ Len(<<>>) = 0 /\ DOMAIN <<>> = {}
  OBVIOUS
<1>4. arch \in ArchType
  BY <1>1, <1>3 DEF ArchType
<1>5. IsInjective(<<>>) /\ Listed(<<>>, <<>>)
  BY <1>3 DEF IsInjective, Listed, ListedBut, ToSet
<1>6. LiveSlots(<<>>) = 0
  <2>1. PICK w : w = [n \in DOMAIN <<>> |-> <<>>[n].size]
    OBVIOUS
  <2>2. DOMAIN w = 1 .. 0
    BY <2>1
  <2>3. PICK g : /\ g[0] = 0 /\ \A k \in 1 .. 0 : g[k] = g[k - 1] + w[k]
                 /\ Total(w) = g[0]
    BY Zenon, <2>2, TotalSteps
  <2>4. LiveSlots(<<>>) = Total(w)
    BY Zenon, <2>1 DEF LiveSlots
  <2> QED BY <2>3, <2>4
<1>7. ASSUME NEW u PROVE Shaped(<<>>, u) /\ Packed(<<>>)
  <2>1. ~(0 > 1)
    OBVIOUS
  <2> QED BY Zenon, <1>3, <2>1 DEF Shaped, Packed
<1>8. RowsHeld(arch)
  BY Zenon, <1>2, <1>3, <1>7, RowsInNone DEF RowsHeld, Holds
<1>9. MarkedOnly(<<>>, {})
  BY <1>3, NoneMoved
<1>10. ~PushFails(arch) /\ Running(arch) /\ 0 \in Nat
  BY <1>2 DEF PushFails, Running
<1>11. Whole(arch)
  BY Zenon, <1>2, <1>4, <1>5, <1>6, <1>8, <1>9, <1>10 DEF Whole, Sound
<1>12. HandlesType(issued)
  BY <1>1, <1>3 DEF HandlesType
<1> QED BY <1>11, <1>12 DEF IInv

\* The handles that are left are some of those issued.
LEMMA HandBackFacts ==
  ASSUME HandlesType(issued), NEW list, HandBack(list)
  PROVE  HandlesType(issued')
BY DEF HandlesType, HandBack

\* The lists a caller hands back are lists of indices.
LEMMA HandedOutFacts ==
  ASSUME HandlesType(issued), NEW list \in HandedOut
  PROVE  \E n : IndexList(list, n)
<1>1. PICK n \in 1 .. MaxBatch : list \in [1 .. n -> DOMAIN issued]
  BY DEF HandedOut
<1>2. n \in Nat /\ list \in [1 .. n -> Nat]
  BY <1>1 DEF HandlesType
<1> QED BY <1>2 DEF IndexList

\* Every call preserves the invariant.
LEMMA NextWhole == IInv /\ [Next]_vars => IInv'
<1> SUFFICES ASSUME IInv, [Next]_vars PROVE IInv'
  OBVIOUS
<1>0. Whole(arch) /\ HandlesType(issued)
  BY DEF IInv
<1>1. ASSUME NEW entity \in Entity, Push(entity) PROVE IInv'
  <2>1. PICK start : start = [arch EXCEPT !.rv = <<>>]
    OBVIOUS
  <2>2. /\ Running(arch) /\ arch' = PushEntity(start, entity)
        /\ issued' = IF ~Running(arch') THEN issued
                     ELSE [i \in DOMAIN issued \cup {arch'.rv[1]} |->
                             IF i = arch'.rv[1] THEN entity ELSE issued[i]]
    BY Zenon, <1>1, <2>1 DEF Push
  <2>3. Whole(start) /\ Running(start)
    <3>1. arch \in ArchType
      BY <1>0 DEF Whole, Sound
    <3>0. PICK none : none = <<>>
      OBVIOUS
    <3>4. none \in Seq(Nat \cup Row)
      BY <3>0
    <3>3. start = [arch EXCEPT !.rv = none]
      BY Zenon, <2>1, <3>0
    <3>2. /\ start \in ArchType /\ start.sparse = arch.sparse /\ start.dcheck = arch.dcheck
          /\ start.available_sparse = arch.available_sparse
          /\ start.dense = arch.dense /\ start.data = arch.data /\ start.size = arch.size
      <4>1. OnlyValue(arch, start)
        BY Zenon, <3>1, <3>3, <3>4, OtherValue
      <4> QED BY Zenon, <4>1 DEF OnlyValue
    <3> QED BY Zenon, <1>0, <2>2, <3>2 DEF Whole, Sound, RowsHeld, Running, PushFails
  <2>4. Whole(arch') /\ (Running(arch') => arch'.rv[1] \in Nat)
    BY Zenon, <2>2, <2>3, PushEntityFacts
  <2>5. HandlesType(issued')
    <3>1. CASE ~Running(arch')
      BY Zenon, <1>0, <2>2, <3>1
    <3>2. CASE Running(arch')
      <4>1. PICK new \in Nat : new = arch'.rv[1]
        BY <2>4, <3>2
      <4>2. issued' = [i \in DOMAIN issued \cup {new} |-> IF i = new THEN entity ELSE issued[i]]
        BY Zenon, <2>2, <3>2, <4>1
      <4> QED BY <1>0, <4>2 DEF HandlesType
    <3> QED BY <3>1, <3>2
  <2> QED BY <2>4, <2>5 DEF IInv, HandlesType
<1>2. ASSUME NEW index \in DOMAIN issued, Lookup(index) PROVE IInv'
  <2>1. Running(arch) /\ arch' = LookupEntity(arch, index) /\ issued' = issued
    BY Zenon, <1>2 DEF Lookup
  <2>2. index \in Nat
    BY <1>0 DEF HandlesType
  <2>3. Whole(arch')
    BY Zenon, <1>0, <2>1, <2>2, LookupEntityFacts
  <2> QED BY <1>0, <2>1, <2>3 DEF IInv, HandlesType
<1>3. ASSUME NEW list \in HandedOut, RemoveMany(list) PROVE IInv'
  <2>1. Running(arch) /\ arch' = RemoveIndices(arch, list) /\ HandBack(list)
    BY Zenon, <1>3 DEF RemoveMany
  <2>2. PICK n : IndexList(list, n)
    BY <1>0, HandedOutFacts
  <2>3. Whole(arch')
    BY Zenon, <1>0, <2>1, <2>2, RemoveIndicesFacts
  <2>4. HandlesType(issued')
    BY <1>0, <2>1, HandBackFacts
  <2> QED BY <2>3, <2>4 DEF IInv, HandlesType
<1>4. ASSUME NEW list \in HandedOut, TakeMany(list) PROVE IInv'
  <2>1. Running(arch) /\ arch' = TakeEntities(arch, list) /\ HandBack(list)
    BY Zenon, <1>4 DEF TakeMany
  <2>2. PICK n : IndexList(list, n)
    BY <1>0, HandedOutFacts
  <2>3. Whole(arch')
    BY Zenon, <1>0, <2>1, <2>2, TakeEntitiesFacts
  <2>4. HandlesType(issued')
    BY <1>0, <2>1, HandBackFacts
  <2> QED BY <2>3, <2>4 DEF IInv, HandlesType
<1>5. CASE UNCHANGED vars
  BY <1>0, <1>5 DEF vars, IInv, Whole, HandlesType
<1> QED BY Zenon, <1>1, <1>2, <1>3, <1>4, <1>5 DEF Next

\* The invariant holds in every state of every behaviour.
THEOREM AlwaysWhole == Spec => []IInv
<1>1. Init => IInv
  BY InitWhole
<1>2. IInv /\ [Next]_vars => IInv'
  BY NextWhole
<1> QED BY <1>1, <1>2, PTL DEF Spec

\* Every list of packed buffers has the shape of one.
LEMMA PackedListType ==
  ASSUME NEW R, NEW s \in Seq(PackedBuffers(R))
  PROVE  IsPackedList(s, R)
<1>1. ASSUME NEW n \in DOMAIN s
      PROVE  /\ s[n].capacity \in Nat /\ s[n].bytes \in Nat
             /\ s[n].rows \in Seq(R) /\ Len(s[n].rows) <= s[n].capacity
  <2>1. s[n] \in PackedBuffers(R)
    OBVIOUS
  <2> QED BY Zenon, <2>1, PackedBufferFacts
<1> QED BY Zenon, <1>1 DEF IsPackedList

\* The object and the handles keep their shape, whatever is pushed, looked
\* up, removed or taken, and after a check that failed.
THEOREM TypeCorrect == Spec => []TypeOK
<1>1. IInv => TypeOK
  <2> SUFFICES ASSUME IInv PROVE TypeOK
    OBVIOUS
  <2>1. /\ arch \in ArchType /\ arch.size \in Nat /\ HandlesType(issued)
        /\ Running(arch) => MarkedOnly(arch.data, {})
    BY Zenon DEF IInv, Whole, Sound
  <2>2. /\ arch.sparse \in Seq(SparseBuffers) /\ arch.available_sparse \in Seq(Nat)
        /\ arch.dense \in Seq(PackedBuffers(Nat)) /\ arch.data \in Seq(PackedBuffers(Row))
    BY <2>1 DEF ArchType
  <2>3. \A n \in DOMAIN arch.sparse : SparseType(arch.sparse[n])
    <3>1. \A n \in DOMAIN arch.sparse : arch.sparse[n] \in SparseBuffers
      BY <2>2
    <3> QED BY <3>1, SparseBufferFacts
  <2>4. \A n \in DOMAIN arch.available_sparse : arch.available_sparse[n] \in Nat
    BY <2>2
  <2>5. IsPackedList(arch.dense, Nat)
    BY Zenon, <2>2, PackedListType
  <2>6. IsPackedList(arch.data, IF Running(arch) THEN Entity ELSE Entity \cup {NoEntity})
    <3>1. CASE Running(arch)
      <4>1. arch.data \in Seq(PackedBuffers(Entity))
        BY <2>1, <2>2, <3>1, NoneMoved
      <4> QED BY Zenon, <3>1, <4>1, PackedListType
    <3>2. CASE ~Running(arch)
      BY Zenon, <2>2, <3>2, PackedListType DEF Row
    <3> QED BY Zenon, <3>1, <3>2
  <2> QED BY Zenon, <2>1, <2>3, <2>4, <2>5, <2>6 DEF TypeOK, HandlesType
<1> QED BY <1>1, AlwaysWhole, PTL

\* In every sparse buffer the hole stack holds each free slot once, through
\* every order of pushing and removing and every growth of the buffer.
THEOREM HoleStacksAlwaysExact == Spec => []HoleStacksExact
<1>1. IInv => HoleStacksExact
  <2> SUFFICES ASSUME IInv PROVE HoleStacksExact
    OBVIOUS
  <2>1. arch.sparse \in Seq(SparseBuffers)
    BY DEF IInv, Whole, Sound, ArchType
  <2>2. \A n \in DOMAIN arch.sparse : arch.sparse[n] \in SparseBuffers
    BY <2>1
  <2> QED BY <2>2, SparseBufferFacts DEF HoleStacksExact
<1> QED BY <1>1, AlwaysWhole, PTL

\* available_sparse_ lists exactly the sparse buffers a push can use, each
\* once, through every order of filling, emptying and dropping buffers.
THEOREM AvailableAlwaysExact == Spec => []AvailableExact
<1>1. IInv => AvailableExact
  <2> SUFFICES ASSUME IInv PROVE AvailableExact
    OBVIOUS
  <2>1. arch \in ArchType /\ IsInjective(arch.available_sparse)
    BY DEF IInv, Whole, Sound
  <2>2. /\ arch.sparse \in Seq(SparseBuffers) /\ arch.available_sparse \in Seq(Nat)
    BY <2>1 DEF ArchType
  <2>3. ASSUME Running(arch)
        PROVE  ToSet(arch.available_sparse) =
                 {n - 1 : n \in {k \in DOMAIN arch.sparse :
                                   arch.sparse[k].hole_cnt > 0 \/ arch.sparse[k].capacity = 0}}
    <3>1. /\ \A x \in ToSet(arch.available_sparse) : x + 1 \in DOMAIN arch.sparse
          /\ \A n \in DOMAIN arch.sparse :
               (n - 1 \in ToSet(arch.available_sparse) <=> Usable(arch.sparse[n]))
      BY <2>3 DEF IInv, Whole, Sound, Listed, ListedBut
    <3>2. \A x \in ToSet(arch.available_sparse) : x \in Nat /\ (x + 1) - 1 = x
      BY <2>2 DEF ToSet
    <3>3. \A n \in DOMAIN arch.sparse :
            Usable(arch.sparse[n]) <=>
              arch.sparse[n].hole_cnt > 0 \/ arch.sparse[n].capacity = 0
      BY DEF Usable
    <3> QED BY <3>1, <3>2, <3>3
  <2> QED BY Zenon, <2>1, <2>3 DEF AvailableExact
<1> QED BY <1>1, AlwaysWhole, PTL

\* No buffer of rows is empty, all but the last are full and all have the
\* capacity of the first, so that a flat dense id finds its row.
THEOREM RowsAlwaysPacked == Spec => []RowsPacked
<1>1. IInv => RowsPacked
  BY DEF IInv, Whole, Sound, RowsHeld, Holds, RowsPacked
<1> QED BY <1>1, AlwaysWhole, PTL

\* size_, the rows of the dense buffers, those of the data buffers and the
\* live slots of the sparse buffers agree after every call.
THEOREM CountsAlwaysAgree == Spec => []CountsAgree
<1>1. IInv => CountsAgree
  BY DEF IInv, Whole, Sound, RowsHeld, Holds, CountsAgree
<1> QED BY <1>1, AlwaysWhole, PTL

\* A data buffer has room for the row pushed to it, where a row is no wider
\* than a full-sized buffer.
THEOREM PushAlwaysHasRoom ==
  ASSUME DataUnit <= kMaxBufferSize
  PROVE  Spec => []PushHasRoom
<1>1. IInv => PushHasRoom
  BY DEF IInv, Whole, PushFails, PushHasRoom
<1> QED BY <1>1, AlwaysWhole, PTL
=============================================================================
