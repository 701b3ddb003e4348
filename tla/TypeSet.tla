------------------------------ MODULE TypeSet -------------------------------
(***************************************************************************)
(* mirage::ecs::TypeSet (mirage_ecs/util/type_set): the component types of *)
(* an archetype or a query, as an array ordered by TypeId and a mask, one  *)
(* bit for each type but shared by those whose hashes agree modulo the     *)
(* width of a size_t.  The mask is a set of bits here, and TypeIds are     *)
(* numbers in the order of their type_index.                               *)
(***************************************************************************)
EXTENDS Integers, Sequences, FiniteSets, SequencesExt

CONSTANTS Type,       \* the types in the program
          FlagOf(_)   \* TypeId::bit_flag

ASSUME TypeSetAssumption == Type \subseteq Nat /\ IsFiniteSet(Type)

VARIABLES type_array,  \* type_array_
          mask,        \* mask_
          types        \* the types added and not removed, as the caller sees it

vars == <<type_array, mask, types>>

Init == type_array = <<>> /\ mask = {} /\ types = {}

\* std::lower_bound: the first place whose type is not less.
LowerBound(array, type) ==
  Cardinality({n \in DOMAIN array : array[n] < type}) + 1

\* Fault: the mask is set from the type that was there before.
InsertKeepsMask(type) ==
  /\ type_array' = InsertAt(type_array, LowerBound(type_array, type), type)
  /\ mask' = IF type_array = <<>> THEN {FlagOf(type)} ELSE mask

\* The rest of AddTypeId for a type that is not there.
Insert(type) ==
  /\ type_array' = InsertAt(type_array, LowerBound(type_array, type), type)
  /\ mask' = mask \cup {FlagOf(type)}

\* AddTypeId
AddTypeId(type) ==
  LET n == LowerBound(type_array, type)
  IN /\ IF n <= Len(type_array) /\ type_array[n] = type
        THEN UNCHANGED <<type_array, mask>>
        ELSE Insert(type)
     /\ types' = types \cup {type}

\* Fault: a flag is taken for the type's own.
NeverShares(type) == FALSE

\* Where RemoveTypeId finds the type, with no greater one before it, at which
\* the loop gives up; once found it goes on to the end, looking for a type with
\* the same flag.
PlacesOf(type) ==
  {n \in DOMAIN type_array :
     type_array[n] = type /\ \A m \in 1 .. n - 1 : type_array[m] <= type}

SharesFlag(type) ==
  \E n \in DOMAIN type_array :
    type_array[n] # type /\ FlagOf(type_array[n]) = FlagOf(type)

\* The removal of a type that is there: read_again is what the reference
\* type_id refers to once the array has been shifted.
Take(type, read_again) ==
  /\ \E n \in PlacesOf(type) : type_array' = RemoveAt(type_array, n)
  /\ mask' = IF SharesFlag(type) THEN mask ELSE mask \ {FlagOf(read_again)}
  /\ types' = types \ {type}

\* RemoveTypeId of a type named by an object outside the array.
RemoveTypeId(type) ==
  IF PlacesOf(type) = {} THEN UNCHANGED vars ELSE Take(type, type)

\* RemoveTypeId of a type named by the array's own element n.  The places
\* after it move down one; past the last place the old value is still there.
RemoveOwn(n) ==
  Take(type_array[n], IF n < Len(type_array) THEN type_array[n + 1] ELSE type_array[n])

Next == \E type \in Type : AddTypeId(type) \/ RemoveTypeId(type)
Spec == Init /\ [][Next]_vars

OwnNext == Next \/ \E n \in DOMAIN type_array : RemoveOwn(n)
OwnSpec == Init /\ [][OwnNext]_vars

-----------------------------------------------------------------------------
(* Queries, of this set against another one or one type. *)

\* The set New<Ts...>() builds by adding one type after another.
Inserted(type, array) == InsertAt(array, LowerBound(array, type), type)
Built(set) ==
  [array |-> FoldSet(Inserted, <<>>, set), mask |-> {FlagOf(t) : t \in set}]

\* With(type_id) and Without(type_id)
WithType(type) ==
  /\ FlagOf(type) \in mask
  /\ LET n == LowerBound(type_array, type)
     IN n <= Len(type_array) /\ type_array[n] = type

\* A turn of the loop of With(set), over the array of the other set: at is
\* set_type_iter.  Where the whole set has been matched it is read past its
\* end, and past is what is found there.
WithStep(walk, type) ==
  LET read == IF walk.at <= Len(walk.array) THEN walk.array[walk.at] ELSE walk.past
  IN IF ~walk.going THEN walk
     ELSE [walk EXCEPT !.at = IF type = read THEN @ + 1 ELSE @, !.going = type <= read]

WithLoopEnd(array, past) ==
  FoldLeft(WithStep, [at |-> 1, going |-> TRUE, array |-> array, past |-> past], type_array)

\* Fault: the end of the set is not asked for.
WithLoopAnyEnd(array, past) == WithLoopEnd(array, past).going

WithLoop(array, past) ==
  LET end == WithLoopEnd(array, past) IN end.going /\ end.at = Len(array) + 1

\* With(set)
WithSet(set, past) ==
  \/ set.array = <<>>
  \/ /\ set.mask \subseteq mask /\ Len(set.array) <= Len(type_array)
     /\ WithLoop(set.array, past)

\* Fault: an if in place of the while.
WithoutStepOnce(walk, type) ==
  LET at == IF type > walk.array[walk.at] THEN walk.at + 1 ELSE walk.at
  IN IF walk.verdict # "none" THEN walk
     ELSE IF at > Len(walk.array) THEN [walk EXCEPT !.verdict = "true"]
     ELSE [walk EXCEPT !.at = at, !.verdict = IF walk.array[at] = type THEN "false" ELSE "none"]

\* A turn of the loop of Without(set): at, set_type_iter, moves on while the
\* type is greater; verdict is set when the function returns.
WithoutStep(walk, type) ==
  LET later == {n \in walk.at .. Len(walk.array) : walk.array[n] >= type}
      at == CHOOSE n \in later : \A m \in later : n <= m
  IN IF walk.verdict # "none" THEN walk
     ELSE IF later = {} THEN [walk EXCEPT !.verdict = "true"]
     ELSE [walk EXCEPT !.at = at, !.verdict = IF walk.array[at] = type THEN "false" ELSE "none"]

\* Without(set)
WithoutSet(set) ==
  \/ type_array = <<>> \/ set.array = <<>>
  \/ FoldLeft(WithoutStep, [at |-> 1, verdict |-> "none", array |-> set.array],
              type_array).verdict # "false"

-----------------------------------------------------------------------------
(* Properties *)

\* The array has the types added and not removed, each once, in order.
ArrayExact ==
  /\ ToSet(type_array) = types
  /\ \A m, n \in DOMAIN type_array : m < n => type_array[m] < type_array[n]

\* The mask has the bits of those types and no others: adding a type whose bit
\* is set and removing one whose bit another needs included.
MaskExact == mask = {FlagOf(t) : t \in types}

\* Array and mask stand for the types added and not removed.
SetExact == ArrayExact /\ MaskExact

\* A type is found if and only if it is there, whatever bits it shares.
WithTypeExact == \A type \in Type : WithType(type) <=> type \in types

\* Without(set) says whether the sets have no type in common.
WithoutSetExact ==
  \A set \in SUBSET Type : WithoutSet(Built(set)) <=> types \cap set = {}

\* With(set) accepts only a subset, whatever is read past the end of the set,
\* and accepts a subset that has the greatest type of this set, which is never
\* read past.
WithSetSound ==
  \A set \in SUBSET Type :
    /\ \A past \in Type : WithSet(Built(set), past) => set \subseteq types
    /\ (set \subseteq types /\ (\E t \in set : \A u \in types : u <= t))
         => \A past \in Type : WithSet(Built(set), past)

\* With(set) accepts every subset: what its callers and its tests expect.
WithSetComplete ==
  \A set \in SUBSET types, past \in Type : WithSet(Built(set), past)
=============================================================================
