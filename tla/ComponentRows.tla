--------------------------- MODULE ComponentRows ----------------------------
(***************************************************************************)
(* The life of components (component/component_bundle,                     *)
(* entity/buffer/archetype_data_buffer.cpp, entity/archetype.cpp): a       *)
(* bundle, a HashMap from type to Box, in which the caller collects them,  *)
(* and the rows of raw memory of an archetype's data buffers, where they   *)
(* are moved and destructed through their handlers.  A component owns      *)
(* something, as an Owned does.  The rows of an archetype's buffers are    *)
(* one sequence here, the last of which is the tail; Archetype models how  *)
(* they are spread over the buffers.  The bundle's map is a function; its  *)
(* table is modelled by HashMap.                                           *)
(*                                                                         *)
(* A row pushed to a buffer with components its source lacks has raw       *)
(* memory in it.  What a destructor or a move does there is undefined, and *)
(* a behaviour ends with it.                                               *)
(***************************************************************************)
EXTENDS Boxes, TLC

CONSTANTS Entity, NoEntity,
          Component,     \* the types of component
          Small,         \* those a Box keeps inside itself
          Extra,         \* those the archetype does not have, but a target may
          Raw,           \* memory never constructed in
          MaxTaken       \* bound: rows taken in one call

ASSUME RowsAssumption ==
  /\ NoEntity \notin Entity /\ Raw # Dead /\ MaxTaken \in Nat
  /\ Small \subseteq Component /\ Extra \subseteq Component

VARIABLES held,     \* the archetype's rows, with size_
          taken,    \* the buffer TakeMany returned to the caller
          kept,     \* the components of that buffer's descriptor
          bundle,   \* the caller's bundle: a box for each type in it
          heap,     \* the blocks of its large components
          returned, \* what the last Add or Remove on the bundle returned
          gone,     \* what does not exist: never made, or released
          misused   \* "raw": raw memory was destructed or moved from;
                    \* "double_free"

vars == <<held, taken, kept, bundle, heap, returned, gone, misused>>

\* The types of the archetype's descriptor.
Laid == Component \ Extra

Seqs == INSTANCE SequencesExt

\* What a component owns, by its entity.
Thing == Entity \X Component
NoRows == [row |-> <<>>, size |-> 0]

Init ==
  /\ held = NoRows /\ taken = NoRows
  /\ kept \in SUBSET Component
  /\ bundle = <<>> /\ heap = <<>> /\ returned = {}
  /\ gone = Thing /\ misused = {}

-----------------------------------------------------------------------------
(* Components.  The operators work on rows with what their components have *)
(* released.  A value the caller was given goes when the next call begins. *)

Working(buffer) ==
  [row |-> buffer.row, size |-> buffer.size, heap |-> heap, gone |-> gone \cup returned,
   misused |-> misused]
Rows(w) == [row |-> w.row, size |-> w.size]

Memory(s, components) == [id |-> NoEntity, cell |-> [c \in components |-> s]]
Owned(row) == {row.cell[c] : c \in DOMAIN row.cell} \ {Raw, Dead}
HasRaw(row) == \E c \in DOMAIN row.cell : row.cell[c] = Raw
RawIf(w, condition) == IF condition THEN w.misused \cup {"raw"} ELSE w.misused

\* ComponentHandler::destruct on every component of a row.  The destructor of
\* a component already destructed finds nothing left to release.
Destruct(w, r) ==
  [w EXCEPT !.row[r].cell = [c \in DOMAIN @ |-> Dead],
            !.gone = @ \cup Owned(w.row[r]), !.misused = RawIf(w, HasRaw(w.row[r]))]

\* ComponentHandler::move on every component: constructs from the source and
\* destructs it.
Move(w, from, r) ==
  [w EXCEPT !.row[r].cell = w.row[from].cell,
            !.row[from].cell = [c \in DOMAIN @ |-> Dead],
            !.misused = RawIf(w, HasRaw(w.row[from]))]

-----------------------------------------------------------------------------
(* The buffers *)

Blank(n, components) == [r \in 1 .. n |-> Memory(Raw, components)]

\* A full buffer grows to twice its rows: Reserve moves every row to the new
\* memory, and destructs the old rows again with the old buffer.
Reserve(w) ==
  IF w.size < Len(w.row) THEN w
  ELSE [w EXCEPT !.row = @ \o Blank(IF w.size = 0 THEN 1 ELSE w.size, Laid),
                 !.misused = RawIf(w, \E r \in 1 .. w.size : HasRaw(w.row[r]))]

\* Push of a view: the components the source has are moved, the others' memory
\* stays as it is.
PushCells(w, id, cells) ==
  LET r == w.size + 1
  IN [w EXCEPT !.size = r, !.row[r].id = id,
               !.row[r].cell = [c \in DOMAIN @ |-> IF c \in DOMAIN cells THEN cells[c] ELSE @[c]],
               !.misused = RawIf(w, \E c \in DOMAIN cells : cells[c] = Raw)]

\* The row a View was pushed from: its moved components are destructed and
\* its entity id is reset.
Spent(row, components) ==
  [id |-> NoEntity,
   cell |-> [c \in DOMAIN row.cell |-> IF c \in components THEN Dead ELSE row.cell[c]]]

RemoveTail(w) ==
  [Destruct(w, w.size) EXCEPT !.row[w.size].id = NoEntity, !.size = @ - 1]

\* Fault: the tail is moved over components that were not destructed.
RemoveRowOverwrites(w, r) ==
  RemoveTail(Move([w EXCEPT !.row[r].id = w.row[w.size].id,
                            !.row[w.size].id = NoEntity], w.size, r))

\* Fault: the entity id does not follow the tail's components.
RemoveRowKeepsId(w, r) ==
  RemoveTail(Move(Destruct([w EXCEPT !.row[w.size].id = NoEntity], r), w.size, r))

\* The data part of RemoveDenseDataBuffer: the row's components are destructed,
\* the tail's moved in, and the tail is removed, which destructs what was moved
\* from it once more.  The row may be the tail itself.
RemoveRow(w, r) ==
  RemoveTail(Move(Destruct([w EXCEPT !.row[r].id = w.row[w.size].id,
                                     !.row[w.size].id = NoEntity], r), w.size, r))

\* Fault: one row too many is destructed.
ClearPastEnd(w) ==
  Seqs!FoldLeft(LAMBDA x, k : RemoveTail(x),
                IF w.size < Len(w.row) THEN [w EXCEPT !.size = @ + 1] ELSE w,
                [k \in 1 .. w.size |-> k])

Clear(w) ==
  Seqs!FoldLeft(LAMBDA x, k : RemoveTail(x), w, [k \in 1 .. w.size |-> k])

\* RemoveManyDenseDataBuffer: from the highest row down.
RemoveMany(w, list) ==
  Seqs!FoldLeft(RemoveRow, w, Seqs!SetToSortSeq(Seqs!ToSet(list), LAMBDA a, b : a > b))

-----------------------------------------------------------------------------
(* The calls *)

\* The end of a call: what the caller is given of the bundle, and the rest.
Returns(w, given) ==
  /\ heap' = w.heap /\ misused' = w.misused
  /\ gone' = w.gone \ given
  /\ returned' = given
  /\ UNCHANGED kept

Ends(w) == Returns(w, {})

\* A box leaves the map it is in: it is moved to a pair in an Optional, and on
\* to a box in another Optional, which the caller unwraps.
TakenOut(w, c) ==
  LET found == Pass([w |-> w, box |-> bundle[c]])
      opt   == New(found.box)
  IN UnwrapOptional(found.w, opt)

\* Fault: what was in the map is destructed where it is, not returned.
ReplacedDropped(w, c) ==
  IF c \in DOMAIN bundle THEN [w |-> ResetBox([w |-> w, box |-> bundle[c]]).w, val |-> {}]
  ELSE [w |-> w, val |-> {}]

\* What Add gives back: the component of the type that was there.
Replaced(w, c) ==
  IF c \in DOMAIN bundle
  THEN LET old == Unwrap(TakenOut(w, c)) IN [w |-> old.w, val |-> {old.val}]
  ELSE [w |-> w, val |-> {}]

\* ComponentBundle::Add<T>; AddMany is a sequence of them.
Add(thing) ==
  LET c    == thing[2]
      made == NewBox([Working(NoRows) EXCEPT !.gone = @ \ {thing}], thing, c \in Small)
      put  == Pass(made)
      old  == Replaced(put.w, c)
  IN /\ bundle' = [d \in DOMAIN bundle \cup {c} |-> IF d = c THEN put.box ELSE bundle[d]]
     /\ Returns(old.w, old.val)
     /\ UNCHANGED <<held, taken>>

WithoutTypes(types) == [d \in DOMAIN bundle \ types |-> bundle[d]]

\* ComponentBundle::Remove<T> of a type the bundle has.
RemoveOfType(c) ==
  LET out == Unwrap(TakenOut(Working(NoRows), c))
  IN /\ c \in DOMAIN bundle
     /\ bundle' = WithoutTypes({c})
     /\ Returns(out.w, {out.val})
     /\ UNCHANGED <<held, taken>>

\* The bundle is destroyed, with all its boxes.
DropBundle ==
  LET w == Seqs!FoldLeft(LAMBDA x, c : ResetBox([w |-> x, box |-> bundle[c]]).w,
                         Working(NoRows), Seqs!SetToSeq(DOMAIN bundle))
  IN bundle # <<>> /\ bundle' = <<>> /\ Ends(w) /\ UNCHANGED <<held, taken>>

MakeTypeSet == DOMAIN bundle

\* One component of Push(id, bundle): its handler moves it to the row, which
\* destructs the source; then the box goes and destructs it again.
MoveToRow(w, c) ==
  LET x == TakenOut(w, c)
  IN [ResetBox(Emptied(x)).w EXCEPT !.row[w.size + 1].cell[c] = Content(x)]

\* Push(id, bundle) of a bundle that has every component of the archetype; what
\* else is in it stays there.  The entity id is the caller's: here it is the
\* one all those components are of, and is not that of another row.
RowOf(e) == [c \in Laid |-> <<e, c>>]

PushBundle(e) ==
  LET moved == Seqs!FoldLeft(MoveToRow, Reserve(Working(held)), Seqs!SetToSeq(Laid))
      w     == [moved EXCEPT !.row[held.size + 1].id = e, !.size = @ + 1]
  IN /\ Laid \subseteq MakeTypeSet
     /\ \A buffer \in {held, taken} : \A r \in 1 .. buffer.size : buffer.row[r].id # e
     /\ \A c \in Laid : Content([w |-> Working(held), box |-> bundle[c]]) = <<e, c>>
     /\ held' = Rows(w) /\ bundle' = WithoutTypes(Laid)
     /\ Ends(w) /\ UNCHANGED taken

\* The lists of rows a call may name, each row once.
Lists ==
  UNION {{list \in [1 .. n -> 1 .. held.size] : \A i, j \in 1 .. n : list[i] = list[j] => i = j} :
           n \in 1 .. MaxTaken}

Remove(list) ==
  LET w == RemoveMany(Working(held), list)
  IN held' = Rows(w) /\ UNCHANGED taken /\ Ends(w) /\ UNCHANGED bundle

\* The components a row takes along between the archetype and the buffer taken.
Shared == kept \cap Laid

\* The rows after each was pushed to the target.
PushedFrom(list) ==
  [held EXCEPT !.row = [r \in DOMAIN @ |->
     IF r \in Seqs!ToSet(list) THEN Spent(@[r], Shared) ELSE @[r]]]

\* TakeMany: each row is pushed to a new buffer of the target's components, as
\* large as the list, then all are removed; what the caller had taken before goes
\* with its buffer.
TakeMany(list) ==
  LET dropped == Clear(Working(taken))
      target  == Seqs!FoldLeft(
                   LAMBDA w, r : PushCells(w, held.row[r].id, [c \in Shared |-> held.row[r].cell[c]]),
                   [dropped EXCEPT !.row = Blank(Len(list), kept)], list)
      w == RemoveMany([target EXCEPT !.row = PushedFrom(list).row, !.size = held.size], list)
  IN taken' = Rows(target) /\ held' = Rows(w) /\ Ends(w) /\ UNCHANGED bundle

\* Push of a view of a row taken before, which is pushed once.  The buffer taken
\* keeps the row, spent, with the components the archetype does not have.
PushView(r) ==
  LET w == PushCells(Reserve(Working(held)), taken.row[r].id,
                     [c \in Shared |-> taken.row[r].cell[c]])
  IN /\ taken.row[r].id # NoEntity
     /\ held' = Rows(w) /\ taken' = [taken EXCEPT !.row[r] = Spent(@, Shared)]
     /\ Ends(w) /\ UNCHANGED bundle

\* The caller's buffer, or the archetype's, is cleared or destroyed.
DropTaken ==
  LET w == Clear(Working(taken))
  IN taken' = NoRows /\ UNCHANGED held /\ Ends(w) /\ UNCHANGED bundle

DropHeld ==
  LET w == Clear(Working(held))
  IN held' = NoRows /\ UNCHANGED taken /\ Ends(w) /\ UNCHANGED bundle

Calls ==
  \/ \E thing \in gone \cup returned : Add(thing)
  \/ \E c \in Component : RemoveOfType(c)
  \/ DropBundle
  \/ \E e \in Entity : PushBundle(e)
  \/ \E list \in Lists : Remove(list) \/ TakeMany(list)
  \/ \E r \in 1 .. taken.size : PushView(r)
  \/ DropTaken \/ DropHeld

Next == misused = {} /\ Calls

Spec == Init /\ [][Next]_vars

-----------------------------------------------------------------------------
(* Properties *)

Live(buffer) == {r \in 1 .. buffer.size : buffer.row[r].id # NoEntity}

Places(thing) ==
  {<<"held", r>> : r \in {r \in Live(held) : thing \in Owned(held.row[r])}}
  \cup {<<"taken", r>> : r \in {r \in Live(taken) : thing \in Owned(taken.row[r])}}

Bundled == {Content([w |-> Working(held), box |-> bundle[c]]) : c \in DOMAIN bundle}

\* What a component owns is in exactly one place: in one row of an entity, in
\* the bundle, with the caller, or released, once.  Boxes moved through the map
\* and its Optionals, removal of a row, of the tail itself, of several, growth,
\* and the rows TakeMany has emptied before it removes them leave no second
\* owner and lose none.
EachComponentOnce ==
  \A thing \in Thing :
    Cardinality(Places(thing)) + Cardinality({thing} \cap Bundled)
      + Cardinality({thing} \cap returned) + Cardinality({thing} \cap gone) = 1

\* A row has the components of the entity its id names: all that its buffer has,
\* or, in a row that was pushed as a view, all that its source has too, and in
\* place of the others what was in the memory before.  The tail's id and
\* components move together, and none has been destructed under its entity.
RowsKeepTogether ==
  /\ \A r \in Live(held) :
       LET row == held.row[r]
       IN \/ row.cell = RowOf(row.id)
          \/ \A c \in Laid : row.cell[c] \in IF c \in kept THEN {<<row.id, c>>} ELSE {Raw, Dead}
  /\ \A r \in Live(taken) :
       LET row == taken.row[r]
       IN \A c \in kept : row.cell[c] = IF c \in Laid THEN <<row.id, c>> ELSE Raw

\* A destructor runs on memory in which no component has been, or a component is
\* moved from there, only if a row has such memory for a component that the row
\* it was pushed from lacks: never behind the tail, or in a row just made room for.
RawOnlyWhereLacked ==
  [][misused' # misused =>
       \E buffer \in {held, taken} : \E r \in 1 .. buffer.size : HasRaw(buffer.row[r])]_vars

\* The blocks on the heap are those of the large components in the bundle: a
\* box moved from frees nothing, and one whose component has been moved out
\* through its raw pointer still frees its block.
BoxesFreed ==
  /\ "double_free" \notin misused
  /\ DOMAIN heap = {bundle[c].obj : c \in DOMAIN bundle \ Small}

\* What is in the bundle is released with the bundle only: a component that
\* another one replaces, and those the archetype does not have, go back to the
\* caller or stay.
BundleReleasesNothing ==
  [][(gone' \ gone) \cap Bundled # {} => bundle' = <<>> /\ UNCHANGED held]_vars

\* For TLC: entities are interchangeable.
Symmetry == Permutations(Entity)
=============================================================================
