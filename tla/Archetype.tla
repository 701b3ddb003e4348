----------------------------- MODULE Archetype ------------------------------
(***************************************************************************)
(* mirage::ecs::Archetype (mirage_ecs/entity/archetype): the storage of    *)
(* all entities with one set of components.  Rows live in a list of packed *)
(* data buffers; a list of dense buffers, in step with them, names the     *)
(* sparse id of each row; a list of sparse buffers maps a sparse id, the   *)
(* Index the caller holds, to the position of the row.  Buffers are        *)
(* numbered from 0 in the code and from 1 in the sequences here.           *)
(*                                                                         *)
(* The object is one record, a, so that the operations compose as in the   *)
(* code.  Besides the code's fields it has rv, the value the operation     *)
(* returns, and dcheck, the first MIRAGE_DCHECK that failed: a failed      *)
(* check ends the program (a debug build), so nothing after it runs.       *)
(***************************************************************************)
EXTENDS Integers, Sequences, SequencesExt, SparseBuffer, PackedBuffer

CONSTANTS Entity,          \* entity ids the caller may push
          NoEntity,        \* an entity id after Reset()
          kMaxBufferSize,  \* bytes of a full-sized buffer
          DenseUnit,       \* DenseBuffer::kUnitSize
          DataUnit,        \* ArchetypeDataBuffer::unit_size of this archetype
          TargetUnit,      \* the same of the archetype TakeMany takes for
          MaxBatch,        \* bound: longest list the caller hands back
          MaxRows          \* bound: rows the archetype may hold

ASSUME ArchetypeAssumption ==
  /\ NoEntity \notin Entity
  /\ {DenseUnit, DataUnit, TargetUnit} \subseteq Nat \ {0}
  /\ kMaxBufferSize \in Nat /\ {MaxBatch, MaxRows} \subseteq Nat
  /\ SparseUnit <= kMaxBufferSize /\ DenseUnit <= kMaxBufferSize

VARIABLES arch,    \* the Archetype object
          issued,  \* the caller's handles: the entity it got each index for
          asked    \* the argument of the caller's last call

vars == <<arch, issued, asked>>

EmptyArchetype ==
  [sparse |-> <<>>, available_sparse |-> <<>>, dense |-> <<>>, data |-> <<>>,
   size |-> 0, rv |-> <<>>, dcheck |-> "ok"]

Running(a) == a.dcheck = "ok"

\* MIRAGE_DCHECK(condition) at the head of the step that leads to next.
Dcheck(a, condition, name, next) ==
  IF ~Running(a) THEN a
  ELSE IF condition THEN next
  ELSE [a EXCEPT !.dcheck = name]

\* Array::SwapRemove
SwapRemove(s, n) == Front(ReplaceAt(s, n, Last(s)))

-----------------------------------------------------------------------------
(* Room for one more row: EnsureNotFull. *)

\* A lone buffer doubles until another doubling would waste a unit or more.
GrownBytes(b, unit) ==
  LET doubled == 2 * b.bytes
  IN IF doubled <= kMaxBufferSize /\ kMaxBufferSize - doubled >= unit
     THEN doubled ELSE kMaxBufferSize

EnsureNotFullSparse(a) ==
  CASE a.available_sparse # <<>> -> a
    [] a.available_sparse = <<>> /\ a.sparse = <<>> ->
         [a EXCEPT !.sparse = <<SparseNew(SparseUnit)>>, !.available_sparse = <<0>>]
    [] a.available_sparse = <<>> /\ Len(a.sparse) = 1 /\ a.sparse[1].bytes < kMaxBufferSize ->
         [a EXCEPT !.sparse[1] = SparseReserve(@, GrownBytes(@, SparseUnit)),
                   !.available_sparse = <<0>>]
    [] OTHER ->
         [a EXCEPT !.sparse = Append(@, SparseNew(kMaxBufferSize)),
                   !.available_sparse = <<Len(a.sparse)>>]

\* EnsureNotFullDense and EnsureNotFullData are the same on their lists.
EnsureNotFullPacked(buffers, unit) ==
  IF buffers = <<>> THEN <<PackedNew(unit, unit)>>
  ELSE IF ~IsFull(Last(buffers)) THEN buffers
  ELSE LET kept == IF Len(buffers) > 1 THEN buffers
                   ELSE <<PackedReserve(buffers[1], GrownBytes(buffers[1], unit), unit)>>
       IN IF ~IsFull(Last(kept)) THEN kept
          ELSE Append(kept, PackedNew(kMaxBufferSize, unit))

EnsureNotFull(a) ==
  [EnsureNotFullSparse(a) EXCEPT !.dense = EnsureNotFullPacked(@, DenseUnit),
                                 !.data = EnsureNotFullPacked(@, DataUnit)]

-----------------------------------------------------------------------------
(* Push *)

\* PushSparseDenseBuffer: the new row gets a hole of the first available
\* sparse buffer, which is allocated first if it had been emptied.
PushSparseDenseBuffer(a) ==
  LET id     == a.available_sparse[1]
      buffer == IF a.sparse[id + 1].capacity # 0 THEN a.sparse[id + 1]
                ELSE SparseNew(IF Len(a.sparse) = 1 THEN SparseUnit ELSE kMaxBufferSize)
      sparse == [a.sparse EXCEPT ![id + 1] = buffer]
      dense_id  == a.dense[1].capacity * (Len(a.dense) - 1) + Len(Last(a.dense).rows)
      sparse_id == sparse[1].capacity * id + NextHole(buffer)
  IN Dcheck(a, buffer.hole_cnt > 0, "PushSparseDenseBuffer",
       [a EXCEPT !.sparse = [sparse EXCEPT ![id + 1] = FillHole(buffer, dense_id)],
                 !.available_sparse = IF buffer.hole_cnt = 1 THEN SwapRemove(@, 1) ELSE @,
                 !.dense[Len(a.dense)] = PushRow(@, sparse_id),
                 !.rv = <<sparse_id>>])

\* Archetype::Push, of a bundle or of a view taken from another archetype.
PushEntity(a, entity) ==
  LET room == [EnsureNotFull(a) EXCEPT !.size = @ + 1]
      tail == Len(room.data)
  IN Dcheck(room, ~IsFull(room.data[tail]), "ArchetypeDataBuffer::Push",
       PushSparseDenseBuffer([room EXCEPT !.data[tail] = PushRow(@, entity)]))

-----------------------------------------------------------------------------
(* From an index to a row. *)

Route(flat, capacity) == [id |-> flat \div capacity, offset |-> flat % capacity]

\* GetSparseRoute; an emptied first buffer has lost its capacity.
SparseRoute(a, index) ==
  Route(index, IF a.sparse[1].capacity # 0 THEN a.sparse[1].capacity
               ELSE kMaxBufferSize \div SparseUnit)

SparseRouteValid(a, index) ==
  /\ a.sparse # <<>>
  /\ LET route == SparseRoute(a, index)
     IN /\ route.id < Len(a.sparse)
        /\ route.offset < a.sparse[route.id + 1].capacity

SlotAt(a, index) ==
  LET route == SparseRoute(a, index) IN a.sparse[route.id + 1].slot[route.offset]

\* GetDenseRoute and GetDataRoute.
PackedRouteValid(buffers, dense_id) ==
  /\ buffers # <<>>
  /\ LET route == Route(dense_id, buffers[1].capacity)
     IN /\ route.id < Len(buffers)
        /\ route.offset < Len(buffers[route.id + 1].rows)

RowAt(buffers, dense_id) ==
  LET route == Route(dense_id, buffers[1].capacity)
  IN buffers[route.id + 1].rows[route.offset + 1]

SetRow(buffers, dense_id, row) ==
  LET route == Route(dense_id, buffers[1].capacity)
  IN [buffers EXCEPT ![route.id + 1].rows[route.offset + 1] = row]

\* operator[]
LookupEntity(a, index) ==
  Dcheck(a, SparseRouteValid(a, index), "GetSparseRoute",
  Dcheck(a, SlotAt(a, index) # kInvalidDenseId, "operator[]",
  Dcheck(a, PackedRouteValid(a.data, SlotAt(a, index)), "GetDataRoute",
    [a EXCEPT !.rv = <<RowAt(a.data, SlotAt(a, index))>>])))

-----------------------------------------------------------------------------
(* Removing rows. *)

\* Fault: the numbers of dropped buffers stay in available_sparse_.
DropTailsOnly(a) ==
  LET DropBuffer(sparse, n) ==
        IF Len(sparse) # n \/ sparse[n].size # 0 THEN sparse ELSE Front(sparse)
      count == Len(a.sparse)
  IN [a EXCEPT !.sparse = FoldLeft(DropBuffer, @, [n \in 1 .. count |-> count + 1 - n])]

\* The loop at the end of TakeDenseIdFromSparse: empty sparse buffers at the
\* tail are dropped, and their numbers with them.
DropIfEmpty(a, n) ==
  IF Len(a.sparse) # n \/ a.sparse[n].size # 0 THEN a
  ELSE LET at == {k \in DOMAIN a.available_sparse : a.available_sparse[k] = n - 1}
       IN [a EXCEPT !.sparse = Front(@),
                    !.available_sparse = IF at = {} THEN @ ELSE SwapRemove(@, Min(at))]

FromTail(count) == [n \in 1 .. count |-> count + 1 - n]

DropEmptyTails(a) == FoldLeft(DropIfEmpty, a, FromTail(Len(a.sparse)))

\* TakeDenseIdFromSparse: free the slot of an index, return its dense id.
TakeDenseIdFromSparse(a, index) ==
  LET route  == SparseRoute(a, index)
      buffer == a.sparse[route.id + 1]
      vacated == Vacate(buffer, route.offset)
      listed == IF buffer.hole_cnt = 0 THEN Append(a.available_sparse, route.id)
                ELSE a.available_sparse
      taken  == [a EXCEPT !.available_sparse = listed, !.rv = <<SlotAt(a, index)>>]
  IN Dcheck(a, SparseRouteValid(a, index), "GetSparseRoute",
     Dcheck(a, buffer.size > 0 /\ SlotAt(a, index) # kInvalidDenseId, "SparseBuffer::Remove",
       CASE vacated.size > 0 -> [taken EXCEPT !.sparse[route.id + 1] = vacated]
         [] vacated.size = 0 /\ Len(a.sparse) > 1 ->
              DropEmptyTails([taken EXCEPT !.sparse[route.id + 1] = SparseNew(0)])
         [] vacated.size = 0 /\ Len(a.sparse) = 1 ->
              [taken EXCEPT !.sparse = <<>>, !.available_sparse = <<>>]))

\* Fault: the dense ids are collected in the opposite order.
TakeDenseIdsBackwards(a, index_list) ==
  LET TakeInFront(acc, index) ==
        LET taken == TakeDenseIdFromSparse(acc, index)
        IN IF Running(taken) THEN [taken EXCEPT !.rv = @ \o acc.rv] ELSE taken
  IN FoldLeft(TakeInFront, [a EXCEPT !.rv = <<>>], index_list)

\* ... of each index of a list in turn; rv is the list of dense ids.
TakeNext(a, index) ==
  LET taken == TakeDenseIdFromSparse(a, index)
  IN IF Running(taken) THEN [taken EXCEPT !.rv = a.rv \o @] ELSE taken

TakeDenseIds(a, index_list) == FoldLeft(TakeNext, [a EXCEPT !.rv = <<>>], index_list)

\* Fault: an emptied buffer stays at the end of the list.
DropRowOnly(buffers) == Append(Front(buffers), RemoveTailRow(Last(buffers)))

\* The tail row of the last buffer goes, and the buffer with its last row.
DropTailRow(buffers) ==
  LET tail == RemoveTailRow(Last(buffers))
  IN IF tail.rows = <<>> THEN Front(buffers) ELSE Append(Front(buffers), tail)

TailRow(buffers) == Last(Last(buffers).rows)

\* Fault: size_ is not counted down.
RemoveRowUncounted(a, dense_id) ==
  [a EXCEPT !.dense = DropTailRow(SetRow(@, dense_id, TailRow(@))),
            !.data = DropTailRow(SetRow(@, dense_id, TailRow(@)))]

\* RemoveDenseDataBuffer: the tail row takes the place of the removed one, in
\* the dense and in the data buffers.
RemoveDenseDataBuffer(a, dense_id) ==
  LET shrunk == [a EXCEPT !.size = @ - 1]
      dense  == DropTailRow(SetRow(a.dense, dense_id, TailRow(a.dense)))
      data   == DropTailRow(SetRow(a.data, dense_id, TailRow(a.data)))
  IN Dcheck(shrunk, PackedRouteValid(a.dense, dense_id), "GetDenseRoute",
     Dcheck(shrunk, PackedRouteValid(a.data, dense_id), "GetDataRoute",
       [shrunk EXCEPT !.dense = dense, !.data = data]))

\* The orders of the positions of a list that put the highest number first.
HighestFirst(list) ==
  {order \in [DOMAIN list -> DOMAIN list] :
     /\ IsInjective(order)
     /\ \A i, j \in DOMAIN list : i < j => list[order[i]] >= list[order[j]]}

FromHighest(list) ==
  LET order == CHOOSE order \in HighestFirst(list) : TRUE
  IN [k \in DOMAIN list |-> list[order[k]]]

\* RemoveManyDenseDataBuffer: from the highest dense id down.
RemoveManyDenseDataBuffer(a, dense_list) ==
  FoldLeft(RemoveDenseDataBuffer, a, FromHighest(dense_list))

\* RemoveMany; Remove is the case of one index.
RemoveIndices(a, index_list) ==
  LET taken == TakeDenseIds(a, index_list)
  IN IF ~Running(taken) THEN taken
     ELSE RemoveManyDenseDataBuffer([taken EXCEPT !.rv = <<>>], taken.rv)

\* Fault: rows that fill one buffer exactly are split over two.
TargetBytesSplit(n) ==
  LET capacity == kMaxBufferSize \div TargetUnit
      full     == n \div capacity
  IN IF capacity <= n
     THEN [k \in 1 .. full |-> kMaxBufferSize] \o <<TargetUnit * (n - full * capacity)>>
     ELSE <<TargetUnit * n>>

\* The sizes of the buffers TakeMany allocates for n rows.
TargetBytes(n) ==
  LET capacity == kMaxBufferSize \div TargetUnit
      full     == n \div capacity
  IN IF capacity = 0 THEN [k \in 1 .. n |-> TargetUnit]
     ELSE IF capacity < n
     THEN [k \in 1 .. full |-> kMaxBufferSize] \o <<TargetUnit * (n - full * capacity)>>
     ELSE <<TargetUnit * n>>

\* The rows that fit in them.
RoomWith(rows, bytes) == rows + bytes \div TargetUnit
TargetRoom(n) == FoldLeft(RoomWith, 0, TargetBytes(n))

\* A row is moved to the target's buffers: rv is the rows moved so far.
MoveRow(a, dense_id) ==
  Dcheck(a, PackedRouteValid(a.data, dense_id), "GetDataRoute",
    [a EXCEPT !.data = SetRow(@, dense_id, NoEntity),
              !.rv = Append(@, RowAt(a.data, dense_id))])

MoveRows(a, dense_list) == FoldLeft(MoveRow, a, dense_list)

\* TakeMany: the rows are moved, in the order of the indices, to buffers for
\* the target archetype, then removed here; rv is the moved rows.
TakeEntities(a, index_list) ==
  LET taken == TakeDenseIds(a, index_list)
      fitting == SubSeq(taken.rv, 1, TargetRoom(Len(index_list)))
      moved == Dcheck(taken, \A bytes \in ToSet(TargetBytes(Len(index_list))) : bytes > 0,
                      "AlignedBuffer", MoveRows([taken EXCEPT !.rv = <<>>], fitting))
  IN IF ~Running(moved) THEN moved ELSE RemoveManyDenseDataBuffer(moved, taken.rv)

-----------------------------------------------------------------------------
(* The caller holds an index for each entity it pushed and did not remove. *)

Init ==
  /\ arch = EmptyArchetype
  /\ issued = <<>>
  /\ asked = <<>>

Push(entity) ==
  /\ Running(arch) /\ arch.size < MaxRows
  /\ \A i \in DOMAIN issued : issued[i] # entity
  /\ asked' = <<entity>>
  /\ arch' = PushEntity([arch EXCEPT !.rv = <<>>], entity)
  /\ issued' = IF ~Running(arch') THEN issued
               ELSE [i \in DOMAIN issued \cup {arch'.rv[1]} |->
                       IF i = arch'.rv[1] THEN entity ELSE issued[i]]

Lookup(index) ==
  /\ Running(arch) /\ arch' = LookupEntity(arch, index)
  /\ asked' = <<index>>
  /\ UNCHANGED issued

HandBack(index_list) ==
  /\ asked' = index_list
  /\ issued' = [i \in DOMAIN issued \ ToSet(index_list) |-> issued[i]]

RemoveMany(index_list) ==
  /\ Running(arch) /\ arch' = RemoveIndices(arch, index_list)
  /\ HandBack(index_list)

TakeMany(index_list) ==
  /\ Running(arch) /\ arch' = TakeEntities(arch, index_list)
  /\ HandBack(index_list)

HandedOut ==
  UNION {{list \in [1 .. n -> DOMAIN issued] : IsInjective(list)} : n \in 1 .. MaxBatch}

Next ==
  \/ \E entity \in Entity : Push(entity)
  \/ \E index \in DOMAIN issued : Lookup(index)
  \/ \E index_list \in HandedOut : RemoveMany(index_list)
  \/ \E index_list \in HandedOut : TakeMany(index_list)

Spec == Init /\ [][Next]_vars

\* A caller that gives up the entities it pushed last first, in any order
\* within one call.
NewestFirst(index_list) ==
  \A i \in ToSet(index_list), j \in DOMAIN issued \ ToSet(index_list) :
    SlotAt(arch, i) > SlotAt(arch, j)

StackNext ==
  \/ \E entity \in Entity : Push(entity)
  \/ \E index \in DOMAIN issued : Lookup(index)
  \/ \E index_list \in HandedOut : NewestFirst(index_list) /\ RemoveMany(index_list)
  \/ \E index_list \in HandedOut : NewestFirst(index_list) /\ TakeMany(index_list)

StackSpec == Init /\ [][StackNext]_vars

-----------------------------------------------------------------------------
(* Properties. *)

IsPackedList(buffers, Row) ==
  \A n \in DOMAIN buffers :
    /\ buffers[n].capacity \in Nat /\ buffers[n].bytes \in Nat
    /\ buffers[n].rows \in Seq(Row) /\ Len(buffers[n].rows) <= buffers[n].capacity

\* The shape of the object and of the caller's handles.
TypeOK ==
  /\ \A n \in DOMAIN arch.sparse : SparseType(arch.sparse[n])
  /\ \A n \in DOMAIN arch.available_sparse : arch.available_sparse[n] \in Nat
  /\ IsPackedList(arch.dense, Nat)
  /\ IsPackedList(arch.data, IF Running(arch) THEN Entity ELSE Entity \cup {NoEntity})
  /\ arch.size \in Nat
  /\ \A index \in DOMAIN issued : index \in Nat /\ issued[index] \in Entity

Plus(m, n) == m + n
Total(numbers) == FoldLeft(Plus, 0, numbers)
RowsIn(buffers) == Total([n \in DOMAIN buffers |-> Len(buffers[n].rows)])
LiveSlots(buffers) == Total([n \in DOMAIN buffers |-> buffers[n].size])

\* The four counts the archetype keeps of its entities agree after every
\* call: size_, the rows of the dense and of the data buffers, and the live
\* slots of the sparse buffers.
CountsAgree ==
  Running(arch) =>
    /\ arch.size = RowsIn(arch.dense)
    /\ arch.size = RowsIn(arch.data)
    /\ arch.size = LiveSlots(arch.sparse)

\* available_sparse_ lists exactly the sparse buffers a push can use: those
\* with a hole and those emptied and waiting to be allocated again, each once,
\* through every order of filling, emptying and dropping buffers.
AvailableExact ==
  /\ IsInjective(arch.available_sparse)
  /\ Running(arch) =>
       ToSet(arch.available_sparse) =
         {n - 1 : n \in {k \in DOMAIN arch.sparse :
                           arch.sparse[k].hole_cnt > 0 \/ arch.sparse[k].capacity = 0}}

\* In every sparse buffer the hole stack holds each free slot once.
HoleStacksExact ==
  \A n \in DOMAIN arch.sparse : HolesExact(arch.sparse[n])

\* A flat dense id can be split by the capacity of the first buffer: all
\* buffers of a list but the last are full, all have that capacity, and no
\* buffer is empty.
Packed(buffers) ==
  \A n \in DOMAIN buffers :
    /\ buffers[n].rows # <<>>
    /\ buffers[n].capacity = buffers[1].capacity
    /\ n < Len(buffers) => IsFull(buffers[n])

RowsPacked == Running(arch) => Packed(arch.dense) /\ Packed(arch.data)

\* Every index the caller holds finds the entity it was issued for.
IndexFindsEntity ==
  Running(arch) =>
    \A index \in DOMAIN issued : LookupEntity(arch, index).rv = <<issued[index]>>

\* n rows fill two or more of the target's buffers exactly.
FillsExactly(n) ==
  LET capacity == kMaxBufferSize \div TargetUnit
  IN capacity > 0 /\ n > capacity /\ n % capacity = 0

\* A caller that goes newest-first fails one check only, and with one kind of
\* call: TakeMany of a batch that fills two or more of the target's buffers
\* exactly also allocates a last buffer, of no bytes.
OnlyEmptyBufferFails ==
  ~Running(arch) => arch.dcheck = "AlignedBuffer" /\ FillsExactly(Len(asked))

\* The checks of the code, each as the claim it makes of every legal call:
\* an index the caller holds lies in a sparse buffer and its slot is in use,
SparseSlotInUse == arch.dcheck \notin {"GetSparseRoute", "SparseBuffer::Remove"}

\* no buffer of size zero is allocated,
AllocationsNonEmpty == arch.dcheck # "AlignedBuffer"

\* and the data buffer a row is pushed to has room for it.
PushHasRoom == arch.dcheck # "ArchetypeDataBuffer::Push"

\* What the caller sees: the entity that each index it holds finds.
Promised == INSTANCE EntityStore WITH
  Index <- Nat,
  store <- [index \in DOMAIN issued |-> LookupEntity(arch, index).rv[1]],
  reply <- arch.rv

\* The archetype used newest-first implements the container EntityStore: what a
\* call that fails no check returns and changes is what the container does.
ImplementsStore ==
  Promised!StoreInit /\ [][Running(arch') => Promised!StoreNext]_(Promised!storeVars)
=============================================================================
