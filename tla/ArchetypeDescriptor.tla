------------------------ MODULE ArchetypeDescriptor -------------------------
(***************************************************************************)
(* mirage::ecs::ArchetypeDescriptor (mirage_ecs/entity) and the addresses  *)
(* ArchetypeDataBuffer computes from it.  The constructor makes a TypeSet  *)
(* of a list of components, one element at a time, removing from the list  *)
(* the components it has already met, and lays the rest out in a row.  The *)
(* buffer has its rows at the front and their entity ids at the back.      *)
(***************************************************************************)
EXTENDS TypeSet

CONSTANTS Component,              \* the types that are components
          SizeOf(_), AlignOf(_),  \* sizeof and alignof of a component
          MaxListed,              \* bound: length of the list
          MaxBytes                \* kMaxBufferSize

IdSize  == 16  \* sizeof(EntityId)
IdAlign == 8   \* alignof(EntityId)

ASSUME DescriptorAssumption ==
  /\ Component \subseteq Type /\ MaxListed \in Nat /\ MaxBytes \in Nat
  /\ \A t \in Component :
       AlignOf(t) \in Nat \ {0} /\ SizeOf(t) \in Nat \ {0} /\ SizeOf(t) % AlignOf(t) = 0
  \* All alignments are powers of 2.
  /\ \A s, t \in Component : AlignOf(s) <= AlignOf(t) => AlignOf(t) % AlignOf(s) = 0

VARIABLES component_id_array,  \* the list given to the constructor
          iter,                \* its loop variable, 0 where no constructor runs
          layout,              \* <<>>, or align_, offset_map_ and size_
          bytes,               \* the size of the archetype's first buffer, or 0
          listed               \* the components the list had when it was given

descriptor_vars == <<component_id_array, iter, layout, bytes, listed>>

NoDescriptor ==
  component_id_array = <<>> /\ iter = 0 /\ layout = <<>> /\ bytes = 0 /\ listed = {}

DescriptorInit == Init /\ NoDescriptor

\* The constructor is called; its type set is a new one.
Describe(list) ==
  /\ iter = 0 /\ type_array = <<>>
  /\ component_id_array' = list /\ iter' = 1 /\ listed' = ToSet(list)
  /\ UNCHANGED <<vars, layout, bytes>>

\* Array::SwapRemove
SwapRemoved(array, n) ==
  SubSeq([array EXCEPT ![n] = Last(array)], 1, Len(array) - 1)

\* One turn of the loop that builds the type set and removes duplicates.
Visit ==
  /\ iter \in DOMAIN component_id_array
  /\ AddTypeId(component_id_array[iter])
  /\ \/ /\ Len(type_array') = Len(type_array)
        /\ component_id_array' = SwapRemoved(component_id_array, iter)
        /\ UNCHANGED iter
     \/ /\ Len(type_array') # Len(type_array)
        /\ iter' = iter + 1 /\ UNCHANGED component_id_array
  /\ UNCHANGED <<layout, bytes, listed>>

RoundedUp(n, align) == IF n % align # 0 THEN n + align - (n % align) ELSE n

\* The comparison the components are sorted with.
Precedes(s, t) ==
  \/ AlignOf(s) > AlignOf(t)
  \/ AlignOf(s) = AlignOf(t) /\ SizeOf(s) > SizeOf(t)

\* What std::ranges::sort may make of the list: it is not stable.
Sorted(array) ==
  {[n \in DOMAIN array |-> array[order[n]]] : order \in
     {p \in SetToSeqs(DOMAIN array) :
        \A m, n \in DOMAIN array : m < n => ~Precedes(array[p[n]], array[p[m]])}}

\* The offset of one more component, and where it ends.
Place(placed, type) ==
  LET offset == RoundedUp(placed.end, AlignOf(type))
  IN [end |-> offset + SizeOf(type),
      map |-> [t \in DOMAIN placed.map \cup {type} |->
                 IF t = type THEN offset ELSE placed.map[t]]]

\* The offsets of components laid out in this order, and where they end.
Placed(order) == FoldLeft(Place, [end |-> 0, map |-> <<>>], order)

\* Fault: the end of a row is not aligned.
LayOutOpenEnd ==
  /\ iter = Len(component_id_array) + 1 /\ layout = <<>>
  /\ \E order \in Sorted(component_id_array) :
       /\ component_id_array' = order
       /\ layout' = [align |-> Max({AlignOf(t) : t \in ToSet(type_array)}),
                     offset_map |-> Placed(order).map, size |-> Placed(order).end]
  /\ UNCHANGED <<vars, iter, bytes, listed>>

\* The rest of the constructor.
LayOut ==
  /\ iter = Len(component_id_array) + 1 /\ layout = <<>>
  /\ LET align == Max({AlignOf(t) : t \in ToSet(type_array)})
     IN \E order \in Sorted(component_id_array) :
          /\ component_id_array' = order
          /\ layout' = [align |-> align, offset_map |-> Placed(order).map,
                        size |-> RoundedUp(Placed(order).end, align)]
  /\ UNCHANGED <<vars, iter, bytes, listed>>

-----------------------------------------------------------------------------
(* The buffer of an archetype with this descriptor. *)

UnitSize == layout.size + IdSize

\* The first buffer of EnsureNotFullData: room for one entity.
Allocate ==
  /\ layout # <<>> /\ bytes = 0
  /\ bytes' = UnitSize
  /\ UNCHANGED <<vars, component_id_array, iter, layout, listed>>

\* EnsureNotFullData where the first buffer is full: twice its size, or the
\* greatest size where less than one more entity would be left.
Grow ==
  /\ bytes # 0
  /\ LET doubled == bytes * 2
         wanted  == IF doubled <= MaxBytes /\ MaxBytes - doubled >= UnitSize
                    THEN doubled ELSE MaxBytes
     IN bytes' = IF wanted <= bytes THEN bytes ELSE wanted
  /\ UNCHANGED <<vars, component_id_array, iter, layout, listed>>

\* The number of rows, and where a row, a component of it and its entity id
\* begin; rows count from 0.
Capacity == bytes \div UnitSize
RowAt(row) == row * layout.size
IdAt(row) == bytes - (Capacity - row) * IdSize

\* The descriptor and its buffers go.
Destroy ==
  /\ layout # <<>>
  /\ type_array' = <<>> /\ mask' = {} /\ types' = {}
  /\ component_id_array' = <<>> /\ iter' = 0 /\ layout' = <<>> /\ bytes' = 0
  /\ listed' = {}

DescriptorNext ==
  \/ iter = 0 /\ Next /\ UNCHANGED descriptor_vars
  \/ \E list \in BoundedSeq(Component, MaxListed) \ {<<>>} : Describe(list)
  \/ Visit \/ LayOut \/ Allocate \/ Grow \/ Destroy

DescriptorSpec == DescriptorInit /\ [][DescriptorNext]_<<vars, descriptor_vars>>

-----------------------------------------------------------------------------
(* Properties *)

\* The bytes of component type in a row, and of a row's entity id.
BytesOf(row, type) ==
  LET from == RowAt(row) + layout.offset_map[type]
  IN from .. from + SizeOf(type) - 1

IdBytes(row) == IdAt(row) .. IdAt(row) + IdSize - 1

Rows == 0 .. Capacity - 1

\* The bytes all components and all entity ids are kept in.
ComponentBytes == UNION {BytesOf(row, type) : row \in Rows, type \in listed}
AllIdBytes     == UNION {IdBytes(row) : row \in Rows}

\* However often a component is listed, the descriptor's type set and offsets
\* have it once, and nothing else.
DescribesListed ==
  layout # <<>> => types = listed /\ DOMAIN layout.offset_map = listed

\* In a buffer as an archetype allocates and grows it every component of every
\* row is aligned, no two components and entity ids share a byte, and none of
\* them leaves the buffer.
NothingOverlaps ==
  bytes # 0 =>
    /\ \A row \in Rows, type \in listed :
         (RowAt(row) + layout.offset_map[type]) % AlignOf(type) = 0
    /\ \A row, other \in Rows, type, another \in listed :
         BytesOf(row, type) \cap BytesOf(other, another) # {}
           => row = other /\ type = another
    /\ \A row, other \in Rows :
         IdBytes(row) \cap IdBytes(other) # {} => row = other
    /\ ComponentBytes \cap AllIdBytes = {}
    /\ ComponentBytes \cup AllIdBytes \subseteq 0 .. bytes - 1

\* The layout of an archetype's rows is that of the components it was asked
\* for, and a buffer has room for all its rows and entity ids.
LayoutSound == DescribesListed /\ NothingOverlaps

\* Entity ids are aligned, as the constructor of a data buffer checks of the
\* memory they are in.
IdsAligned == bytes # 0 => \A row \in Rows : IdAt(row) % IdAlign = 0
=============================================================================
