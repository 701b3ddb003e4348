---------------------------- MODULE MCArchetype -----------------------------
(***************************************************************************)
(* Instances of Archetype and of a SparseBuffer by itself for TLC.  A step *)
(* is of one of them, while the other is empty.                            *)
(***************************************************************************)
EXTENDS Archetype, SparseBufferUse, TLC

\* Entity ids are never compared but for equality.
EntitySymmetry == Permutations(Entity)

NoBuffer == buf = SparseNew(0) /\ given = <<>>

ArchetypeInit == Init /\ NoBuffer

mcVars == <<vars, ownerVars>>

\* An archetype, and calls in any order.
AnySpec == ArchetypeInit /\ [][Next /\ UNCHANGED ownerVars]_mcVars

\* An archetype used newest-first.
NewestFirstSpec == ArchetypeInit /\ [][StackNext /\ UNCHANGED ownerVars]_mcVars

\* An archetype, or a sparse buffer and its owner.
EitherInit == Init /\ (NoBuffer \/ OwnerInit)

EitherNext ==
  \/ buf = SparseNew(0) /\ Next /\ UNCHANGED ownerVars
  \/ arch = EmptyArchetype /\ OwnerNext /\ UNCHANGED vars

EitherSpec == EitherInit /\ [][EitherNext]_mcVars
=============================================================================
