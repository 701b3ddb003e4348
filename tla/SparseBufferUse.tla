-------------------------- MODULE SparseBufferUse ---------------------------
(***************************************************************************)
(* A SparseBuffer and its owner.  The owner fills a hole for a dense id,   *)
(* keeps the slot it got, removes slots it holds in any order, and         *)
(* reserves a larger allocation at any time (as Archetype does).           *)
(***************************************************************************)
EXTENDS SparseBuffer, FiniteSets

CONSTANTS DenseIds,  \* dense ids the owner stores
          MaxBytes   \* bound: largest allocation

ASSUME UseAssumption == DenseIds \subseteq Nat /\ MaxBytes \in Nat

VARIABLES buf,    \* the SparseBuffer
          given   \* the owner's slots and the dense id stored for each

ownerVars == <<buf, given>>

OwnerInit ==
  /\ \E bytes \in 0 .. MaxBytes : buf = SparseNew(bytes)
  /\ given = [slot \in {} |-> kInvalidDenseId]

\* FillHole checks that there is a hole; it returns the slot.
OwnerFill(dense_id) ==
  /\ buf.hole_cnt > 0
  /\ buf' = FillHole(buf, dense_id)
  /\ given' = [slot \in DOMAIN given \cup {NextHole(buf)} |->
                 IF slot = NextHole(buf) THEN dense_id ELSE given[slot]]

OwnerRemove(slot) ==
  /\ buf' = Vacate(buf, slot)
  /\ given' = [s \in DOMAIN given \ {slot} |-> given[s]]

OwnerReserve(bytes) ==
  /\ buf' = SparseReserve(buf, bytes)
  /\ UNCHANGED given

OwnerNext ==
  \/ \E dense_id \in DenseIds : OwnerFill(dense_id)
  \/ \E slot \in DOMAIN given : OwnerRemove(slot)
  \/ \E bytes \in 0 .. MaxBytes : OwnerReserve(bytes)

OwnerSpec == OwnerInit /\ [][OwnerNext]_ownerVars

-----------------------------------------------------------------------------
\* The shape of the buffer and of the owner's slots.
OwnerTypeOK ==
  /\ SparseType(buf)
  /\ given \in [DOMAIN given -> DenseIds]

\* The hole stack holds every free slot exactly once, so a fill never takes a
\* slot in use and no slot is lost, in any order of fills, removals and growth.
HolesAreFree == HolesExact(buf)

\* Each slot the owner holds still has the dense id stored for it, and every
\* other slot is free.
SlotsMatchOwner ==
  /\ DOMAIN given = {i \in 0 .. buf.capacity - 1 : buf.slot[i] # kInvalidDenseId}
  /\ \A i \in DOMAIN given : buf.slot[i] = given[i]

\* size_ counts the slots the owner holds.  It is what the checks of Remove
\* (size_ > 0 and a slot in use) rely on.
SizeIsLiveCount ==
  /\ IsFiniteSet(DOMAIN given)
  /\ buf.size = Cardinality(DOMAIN given)
=============================================================================
