---------------------------- MODULE SparseBuffer ----------------------------
(***************************************************************************)
(* The SparseBuffer of mirage_ecs (entity/buffer/sparse_dense_buffer): one *)
(* aligned allocation that holds, from its front, an array of dense ids    *)
(* and, from its back, a stack of the free positions ("holes") of that     *)
(* array.  The stack entry used by the n-th live id is the n-th uint16_t   *)
(* counted from the end of the allocation, so the number of live ids is    *)
(* also the stack pointer.                                                 *)
(*                                                                         *)
(* A buffer is a record:                                                   *)
(*   bytes    buffer_.size()                                               *)
(*   capacity capacity_, the number of slots that fit in the bytes         *)
(*   size     size_, live ids;  hole_cnt  hole_cnt_, free slots            *)
(*   slot     the id array;     hole      the hole stack, hole[n] being    *)
(*            the entry n places from the end of the allocation            *)
(***************************************************************************)
EXTENDS Integers

CONSTANT SparseUnit   \* SparseBuffer::kUnitSize, bytes of one slot and one hole

ASSUME SparseUnitAssumption == SparseUnit \in Nat \ {0}

\* kInvalidDenseId is SIZE_MAX, a value no dense id takes.
kInvalidDenseId == -1

\* SparseBuffer(Buffer&&): every slot is free, hole n is slot n.
SparseNew(bytes) ==
  LET capacity == bytes \div SparseUnit
  IN [bytes    |-> bytes,
      capacity |-> capacity,
      size     |-> 0,
      hole_cnt |-> capacity,
      slot     |-> [i \in 0 .. capacity - 1 |-> kInvalidDenseId],
      hole     |-> [i \in 0 .. capacity - 1 |-> i]]

\* The slot FillHole takes: the top of the hole stack.
NextHole(b) == b.hole[b.size]

\* FillHole stores the id in that slot and pops the stack.
FillHole(b, dense_id) ==
  [bytes    |-> b.bytes,
   capacity |-> b.capacity,
   size     |-> b.size + 1,
   hole_cnt |-> b.hole_cnt - 1,
   slot     |-> [b.slot EXCEPT ![NextHole(b)] = dense_id],
   hole     |-> b.hole]

\* Fault: the removed slot is stored one entry off the top of the stack.
VacateOffTop(b, index) ==
  [b EXCEPT !.size = @ - 1, !.hole_cnt = @ + 1,
            !.slot[index] = kInvalidDenseId,
            !.hole = [p \in DOMAIN b.hole |-> IF p = b.size THEN index ELSE b.hole[p]]]

\* Remove pushes the slot on the hole stack and marks it free.
Vacate(b, index) ==
  [bytes    |-> b.bytes,
   capacity |-> b.capacity,
   size     |-> b.size - 1,
   hole_cnt |-> b.hole_cnt + 1,
   slot     |-> [b.slot EXCEPT ![index] = kInvalidDenseId],
   hole     |-> [b.hole EXCEPT ![b.size - 1] = index]]

\* Fault: the ids are not copied.
ReserveForgetsIds(b, bytes) ==
  LET fresh == SparseNew(bytes)
  IN IF bytes <= b.bytes THEN b
     ELSE [fresh EXCEPT !.size = b.size, !.hole_cnt = @ - b.size,
                        !.hole = [p \in DOMAIN @ |-> IF p < b.capacity THEN b.hole[p] ELSE p]]

\* Fault: the size is that of a new buffer.
ReserveForgetsSize(b, bytes) ==
  LET fresh == SparseNew(bytes)
  IN IF bytes <= b.bytes THEN b
     ELSE [fresh EXCEPT !.slot = [i \in DOMAIN @ |-> IF i < b.capacity THEN b.slot[i] ELSE @[i]],
                        !.hole = [p \in DOMAIN @ |-> IF p < b.capacity THEN b.hole[p] ELSE p]]

\* Reserve copies ids and the whole stack to a larger allocation and pushes
\* the new slots under it.
SparseReserve(b, bytes) ==
  LET capacity == bytes \div SparseUnit
  IN IF bytes <= b.bytes THEN b
     ELSE [bytes    |-> bytes,
           capacity |-> capacity,
           size     |-> b.size,
           hole_cnt |-> capacity - b.size,
           slot     |-> [i \in 0 .. capacity - 1 |->
                           IF i < b.capacity THEN b.slot[i] ELSE kInvalidDenseId],
           hole     |-> [i \in 0 .. capacity - 1 |->
                           IF i < b.capacity THEN b.hole[i] ELSE i]]

-----------------------------------------------------------------------------
\* The buffers the operations can produce.
SparseType(b) ==
  /\ b \in [bytes : Nat, capacity : Nat, size : Nat, hole_cnt : Nat,
            slot : [0 .. b.capacity - 1 -> Nat \cup {kInvalidDenseId}],
            hole : [0 .. b.capacity - 1 -> 0 .. b.capacity - 1]]
  /\ b.capacity = b.bytes \div SparseUnit
  /\ b.size <= b.capacity

FreeSlots(b) == {i \in 0 .. b.capacity - 1 : b.slot[i] = kInvalidDenseId}

\* Positions of the hole stack above the stack pointer.
StackPositions(b) == b.size .. b.capacity - 1

\* The stack holds every free slot exactly once.
HolesExact(b) ==
  /\ b.hole_cnt = b.capacity - b.size
  /\ \A p, q \in StackPositions(b) : b.hole[p] = b.hole[q] => p = q
  /\ FreeSlots(b) = {b.hole[p] : p \in StackPositions(b)}
=============================================================================
