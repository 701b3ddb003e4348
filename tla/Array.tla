------------------------------- MODULE Array --------------------------------
(***************************************************************************)
(* mirage::base::Array (container/array.hpp): slots of raw memory in which *)
(* objects are constructed, moved and destructed by hand, size_ of them in *)
(* use.  The elements are either owners (move-only, as Owned or a buffer:  *)
(* what one owns goes with a move and is released by the destructor) or    *)
(* plain copyable values.  Positions count from 1.                         *)
(***************************************************************************)
EXTENDS Naturals, Sequences, FiniteSets, TLC

CONSTANTS Name,            \* the arrays
          Thing,           \* what elements own, or their values
          Empty,           \* an object moved from or default constructed
          Raw, Dead,       \* a slot never constructed, a slot destructed
          MaxCapacity,     \* bound: largest capacity
          MaxSlots,        \* bound: slots of any two arrays
          CutsOwners       \* whether set_capacity may cut an array of owners

ASSUME ArrayAssumption ==
  /\ MaxCapacity \in Nat \ {0} /\ MaxSlots \in Nat /\ CutsOwners \in BOOLEAN
  /\ {Empty, Raw, Dead} \cap Thing = {} /\ Cardinality({Empty, Raw, Dead}) = 3

VARIABLES arrays,   \* data_ and size_ of each array; its capacity_ is Len(slot)
          gone,     \* what destructors have released
          outside,  \* what the caller has
          misused,  \* what was used where an object should have been
          plain,    \* whether the elements are plain values
          call, reply \* the last call and what it returned

vars == <<arrays, gone, outside, misused, plain, call, reply>>

Seqs == INSTANCE SequencesExt

Value == Thing \cup {Empty}
Unallocated == [slot |-> <<>>, size |-> 0]

Init ==
  /\ arrays = [n \in Name |-> Unallocated]
  /\ gone = {} /\ outside = Thing /\ misused = {}
  /\ plain \in BOOLEAN
  /\ call = <<>> /\ reply = <<>>

-----------------------------------------------------------------------------
(* One object.  The operators work on an array with what its objects have  *)
(* released, and what was used that is no object.                          *)

Working(n) == [slot |-> arrays[n].slot, size |-> arrays[n].size, gone |-> gone, bad |-> misused]

Owns(s) == IF plain THEN {} ELSE {s} \cap Thing
MovedFrom(s) == IF plain THEN s ELSE Empty
NoObject(used) == used \ Value

Construct(w, p, v) == [w EXCEPT !.slot[p] = v]

Destruct(w, p) ==
  [w EXCEPT !.slot[p] = Dead, !.gone = @ \cup Owns(w.slot[p]),
            !.bad = @ \cup NoObject({w.slot[p]})]

\* Placement new of a T moved from another slot.
ConstructFrom(w, from, p) ==
  [w EXCEPT !.slot[p] = w.slot[from], !.slot[from] = MovedFrom(w.slot[from]),
            !.bad = @ \cup NoObject({w.slot[from]})]

DestructAll(w, places) == Seqs!FoldLeft(Destruct, w, places)
Downwards(high, low) == [k \in 1 .. high + 1 - low |-> high + 1 - k]

-----------------------------------------------------------------------------
(* The functions of the class *)

\* set_capacity: the elements that fit are moved to a new allocation, with
\* their old objects destructed; the old allocation is freed as it is.
SetCapacity(w, capacity) ==
  LET kept == IF capacity < w.size THEN capacity ELSE w.size
  IN IF capacity = Len(w.slot) THEN w
     ELSE [w EXCEPT !.slot = [p \in 1 .. capacity |-> IF p <= kept THEN w.slot[p] ELSE Raw],
                    !.size = kept,
                    !.bad = @ \cup NoObject({w.slot[p] : p \in 1 .. kept})]

Reserve(w, capacity) == IF capacity <= Len(w.slot) THEN w ELSE SetCapacity(w, capacity)

EnsureNotFull(w) ==
  IF w.slot = <<>> THEN [w EXCEPT !.slot = <<Raw>>]
  ELSE IF w.size = Len(w.slot) THEN SetCapacity(w, 2 * Len(w.slot))
  ELSE w

Emplace(w, v) ==
  LET room == EnsureNotFull(w)
  IN [Construct(room, w.size + 1, v) EXCEPT !.size = @ + 1]

\* A step of Insert's loop: an element is moved up by one.
Shift(w, i) == ConstructFrom(Destruct(w, i), i - 1, i)

\* Fault: the loop moves onto objects it has not destructed, upwards.
InsertUpwards(w, p, v) ==
  LET opened  == ConstructFrom(EnsureNotFull(w), w.size, w.size + 1)
      shifted == Seqs!FoldLeft(Shift, opened, Seqs!Reverse(Downwards(w.size, p + 1)))
  IN IF p > w.size THEN Emplace(w, v)
     ELSE [Construct(shifted, p, v) EXCEPT !.size = @ + 1]

\* Fault: the slot behind the last is destructed as the others are.
InsertDestructsAll(w, p, v) ==
  LET shifted == Seqs!FoldLeft(Shift, EnsureNotFull(w), Downwards(w.size + 1, p + 1))
  IN IF p > w.size THEN Emplace(w, v)
     ELSE [Construct(shifted, p, v) EXCEPT !.size = @ + 1]

\* Insert: the last element is moved behind itself, then each one down to the
\* position is moved up by one, and the new one is constructed over the object
\* that was moved from last.
Insert(w, p, v) ==
  LET opened  == ConstructFrom(EnsureNotFull(w), w.size, w.size + 1)
      shifted == Seqs!FoldLeft(Shift, opened, Downwards(w.size, p + 1))
  IN IF p > w.size THEN Emplace(w, v)
     ELSE [Construct(shifted, p, v) EXCEPT !.size = @ + 1]

\* Pop and RemoveTail: one moves from the last object and leaves it, the other
\* destructs it.
Pop(w) == [w EXCEPT !.size = @ - 1, !.slot[w.size] = MovedFrom(@),
                    !.bad = @ \cup NoObject({w.slot[w.size]})]
RemoveTail(w) == [Destruct(w, w.size) EXCEPT !.size = @ - 1]

\* Swap moves through a temporary; each assignment is to an object moved from.
Swap(w, p, q) ==
  [w EXCEPT !.slot[p] = w.slot[q], !.slot[q] = w.slot[p],
            !.bad = @ \cup NoObject({w.slot[p], w.slot[q]})]

\* Remove copies each later element onto the one before it, and leaves the
\* object behind the new end constructed.
Remove(w, p) ==
  [w EXCEPT !.size = @ - 1,
            !.slot = [i \in DOMAIN w.slot |->
                        IF i \in p .. w.size - 1 THEN w.slot[i + 1] ELSE w.slot[i]],
            !.bad = @ \cup NoObject({w.slot[i] : i \in p .. w.size})]

\* set_size: objects go from the end, or default ones are added to it.
SetSize(w, size) ==
  LET room == Reserve(w, size)
  IN IF size <= w.size
     THEN [DestructAll(w, Downwards(w.size, size + 1)) EXCEPT !.size = size]
     ELSE [room EXCEPT !.size = size,
             !.slot = [p \in DOMAIN room.slot |->
                         IF p \in w.size + 1 .. size THEN Empty ELSE room.slot[p]]]

\* Fault: the storage goes without the destructors.
ClearUndestructed(w) == [w EXCEPT !.slot = <<>>, !.size = 0]

Clear(w) ==
  [DestructAll(w, [p \in 1 .. w.size |-> p]) EXCEPT !.slot = <<>>, !.size = 0]

-----------------------------------------------------------------------------
(* The calls *)

Available == IF plain THEN Thing ELSE outside \cup gone

\* The end of a call on one array: what the caller gave to it, or took from it.
Ends(n, w, given, taken) ==
  /\ Len(w.slot) <= MaxCapacity
  /\ \A m \in Name \ {n} : Len(w.slot) + Len(arrays[m].slot) <= MaxSlots
  /\ arrays' = [arrays EXCEPT ![n] = [slot |-> w.slot, size |-> w.size]]
  /\ gone' = w.gone \ given
  /\ outside' = IF plain THEN outside ELSE (outside \ given) \cup taken
  /\ misused' = w.bad
  /\ UNCHANGED plain

Changes(n, w, name) == Ends(n, w, {}, {}) /\ call' = name /\ reply' = <<>>

\* Emplace, and Push of a copy.
CallEmplace(n, v) ==
  /\ Ends(n, Emplace(Working(n), v), {v}, {}) /\ call' = <<"Emplace", n>> /\ reply' = <<>>

CallInsert(n, p, v) ==
  /\ Ends(n, Insert(Working(n), p, v), {v}, {}) /\ call' = <<"Insert", n, p>> /\ reply' = <<>>

CallPop(n) ==
  LET last == arrays[n].slot[arrays[n].size]
  IN /\ Ends(n, Pop(Working(n)), {}, Owns(last))
     /\ call' = <<"Pop", n>> /\ reply' = <<last>>

\* SwapTake swaps with the last and pops it.
CallSwapTake(n, p) ==
  LET swapped == Swap(Working(n), p, arrays[n].size)
      val     == arrays[n].slot[p]
  IN /\ Ends(n, Pop(swapped), {}, Owns(val))
     /\ call' = <<"SwapTake", n, p>> /\ reply' = <<val>>

CallSwapRemove(n, p) ==
  Changes(n, RemoveTail(Swap(Working(n), p, arrays[n].size)), <<"SwapRemove", n, p>>)

\* Take and Remove assign by copy, so they exist for plain values only.
CallTake(n, p) ==
  /\ plain
  /\ Ends(n, Remove(Working(n), p), {}, {})
  /\ call' = <<"Take", n, p>> /\ reply' = <<arrays[n].slot[p]>>

CallRemove(n, p) == plain /\ Changes(n, Remove(Working(n), p), <<"Remove", n, p>>)

CallSetCapacity(n, capacity) ==
  /\ plain \/ CutsOwners \/ capacity >= arrays[n].size
  /\ Changes(n, SetCapacity(Working(n), capacity), <<"set_capacity", n, capacity>>)

\* The move constructor and assignment: the target is cleared and takes over
\* the storage.
CallMove(n, m) ==
  LET w == Clear(Working(n))
  IN /\ arrays' = [arrays EXCEPT ![n] = arrays[m], ![m] = Unallocated]
     /\ gone' = w.gone /\ misused' = w.bad
     /\ call' = <<"move", n, m>> /\ reply' = <<>>
     /\ UNCHANGED <<outside, plain>>

\* The copy constructor and assignment reserve as much as the other uses.
CallCopy(n, m) ==
  LET w == Reserve(Clear(Working(n)), arrays[m].size)
  IN /\ plain
     /\ Changes(n, Seqs!FoldLeft(Emplace, w, SubSeq(arrays[m].slot, 1, arrays[m].size)),
                <<"copy", n, m>>)

\* operator== compares sizes, then the storage, then element by element.
CallEqual(n, m) ==
  LET a == arrays[n]
      b == arrays[m]
  IN /\ plain
     /\ call' = <<"==", n, m>>
     /\ reply' = <<a.size = b.size /\ \A p \in 1 .. a.size : a.slot[p] = b.slot[p]>>
     /\ UNCHANGED <<arrays, gone, outside, misused, plain>>

CallTryGet(n, p) ==
  /\ call' = <<"TryGet", n, p>>
  /\ reply' = IF p \in 1 .. arrays[n].size THEN <<arrays[n].slot[p]>> ELSE <<>>
  /\ UNCHANGED <<arrays, gone, outside, misused, plain>>

Used(n) == 1 .. arrays[n].size
Capacities == 0 .. MaxCapacity

Next ==
  \E n \in Name :
    \/ \E v \in Available : CallEmplace(n, v)
    \/ \E v \in Available, p \in 1 .. arrays[n].size + 1 : CallInsert(n, p, v)
    \/ \E p \in Used(n) : CallSwapTake(n, p) \/ CallSwapRemove(n, p)
    \/ \E p \in Used(n) : CallTake(n, p) \/ CallRemove(n, p)
    \/ \E p, q \in Used(n) : Changes(n, Swap(Working(n), p, q), <<"Swap", n, p, q>>)
    \/ Used(n) # {} /\ CallPop(n)
    \/ Used(n) # {} /\ Changes(n, RemoveTail(Working(n)), <<"RemoveTail", n>>)
    \/ \E size \in Capacities : Changes(n, SetSize(Working(n), size), <<"set_size", n, size>>)
    \/ \E capacity \in Capacities :
         \/ Changes(n, Reserve(Working(n), capacity), <<"Reserve", n, capacity>>)
         \/ CallSetCapacity(n, capacity)
    \/ Changes(n, SetCapacity(Working(n), arrays[n].size), <<"ShrinkToFit", n>>)
    \/ Changes(n, Clear(Working(n)), <<"Clear", n>>)
    \/ \E m \in Name \ {n} : CallMove(n, m) \/ CallCopy(n, m) \/ CallEqual(n, m)
    \/ \E p \in 1 .. MaxCapacity : CallTryGet(n, p)

Spec == Init /\ [][Next]_vars

-----------------------------------------------------------------------------
(* Properties *)

\* The places in use that own a thing.
Owners(thing) ==
  {place \in Name \X (1 .. MaxCapacity) :
     place[2] \in Used(place[1]) /\ arrays[place[1]].slot[place[2]] = thing}

\* What an element owns is in exactly one place: with one element in use, with
\* the caller, or released, once.  Insert, Pop and growth leave no second owner
\* behind and lose none (array_tests.cpp, DestructAfterMoved).
EachThingOnce ==
  ~plain => \A thing \in Thing :
              Cardinality(Owners(thing)) + Cardinality({thing} \cap gone)
                + Cardinality({thing} \cap outside) = 1

\* Every destructor, move and assignment is of an object that is there: raw
\* memory and objects already destructed are only constructed in.
UsesObjectsOnly == misused = {}

\* The values an array has, in order.
ContentsOf(n) == SubSeq(arrays[n].slot, 1, arrays[n].size)

Promised == INSTANCE ValueSeqs WITH
  contents <- [n \in Name |-> ContentsOf(n)], MaxLength <- MaxCapacity

\* The calls do to the sequences of values what their names say, and return
\* what they say, through every growth and every object left behind.
ImplementsSeqs == Promised!SeqsSpec

\* For TLC: things, and arrays, are interchangeable.
Symmetry == Permutations(Thing) \cup Permutations(Name)
=============================================================================
