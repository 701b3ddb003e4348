---------------------------- MODULE PackedBuffer ----------------------------
(***************************************************************************)
(* The two gap-free buffers an archetype keeps in step: DenseBuffer (the   *)
(* sparse id of each row) and ArchetypeDataBuffer (the entity id and the   *)
(* components of each row).  Rows are pushed and removed at the tail only. *)
(* A row of a data buffer stands for the entity id together with its       *)
(* components, which the code always moves together.                       *)
(***************************************************************************)
EXTENDS Integers, Sequences

\* DenseBuffer(Buffer&&), ArchetypeDataBuffer(Buffer&&, descriptor): as many
\* rows of unit bytes as fit.
PackedNew(bytes, unit) ==
  [bytes |-> bytes, capacity |-> bytes \div unit, rows |-> <<>>]

\* is_full
IsFull(b) == Len(b.rows) = b.capacity

\* Push and RemoveTail; the callers state their MIRAGE_DCHECKs.
PushRow(b, row) == [b EXCEPT !.rows = Append(@, row)]
RemoveTailRow(b) == [b EXCEPT !.rows = SubSeq(@, 1, Len(@) - 1)]

\* Reserve moves the rows, in order, to a larger allocation.
PackedReserve(b, bytes, unit) ==
  IF bytes <= b.bytes THEN b
  ELSE [PackedNew(bytes, unit) EXCEPT !.rows = b.rows]
=============================================================================
