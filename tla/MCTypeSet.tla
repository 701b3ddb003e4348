----------------------------- MODULE MCTypeSet ------------------------------
(***************************************************************************)
(* Instances of TypeSet and ArchetypeDescriptor for TLC: seven types that  *)
(* share three mask bits, five of them components, of which two have the   *)
(* same size and alignment.                                                *)
(***************************************************************************)
EXTENDS ArchetypeDescriptor

ThreeFlags(type) == type % 3

Sizes(type)  == <<12, 4, 1, 8, 4, 3, 2>>[type]
Aligns(type) == <<4, 4, 1, 8, 4, 1, 2>>[type]

OwnDescriptorSpec ==
  DescriptorInit /\ [][OwnNext /\ UNCHANGED descriptor_vars]_<<vars, descriptor_vars>>
=============================================================================
