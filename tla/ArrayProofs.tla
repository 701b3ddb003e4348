---------------------------- MODULE ArrayProofs -----------------------------
(***************************************************************************)
(* Proofs about Array, for every set of arrays and of things, every bound  *)
(* on the capacities, and for owners as for plain values.                  *)
(***************************************************************************)
EXTENDS Array, FiniteSetTheorems, TLAPS

\* Induction over the loops of the operations.
Destructing == INSTANCE DataFacts WITH Op <- Destruct
Shifting    == INSTANCE DataFacts WITH Op <- Shift
Emplacing   == INSTANCE DataFacts WITH Op <- Emplace

-----------------------------------------------------------------------------
(* The object the operators work on *)

Slot == Value \cup {Raw, Dead}
Work == [slot : Seq(Slot), size : Nat, gone : SUBSET Thing, bad : SUBSET Slot]

\* An object is in each place in use, and no operator has used one that is
\* not there.
Sound(w) ==
  /\ w \in Work
  /\ w.size <= Len(w.slot)
  /\ \A p \in 1 .. w.size : w.slot[p] \in Value
  /\ w.bad = {}

\* An array on which no operator has used an object that is not there.
Obj(slot, size, released) ==
  [slot |-> slot, size |-> size, gone |-> released, bad |-> {}]

\* The values w has, in order.
Contents(w) == SubSeq(w.slot, 1, w.size)

\* x differs from w in what is behind the last place in use only.
Same(x, w) ==
  /\ Sound(x) /\ x.size = w.size /\ x.gone = w.gone
  /\ \A p \in 1 .. w.size : x.slot[p] = w.slot[p]

\* x has of w what fits in a capacity.
CutTo(x, w, capacity) ==
  /\ Sound(x) /\ x.gone = w.gone /\ Len(x.slot) = capacity
  /\ x.size = IF capacity < w.size THEN capacity ELSE w.size
  /\ \A p \in 1 .. x.size : x.slot[p] = w.slot[p]

\* x is sound, with these values, after destructors have released that.
Gives(x, w, contents, released) ==
  /\ Sound(x) /\ Contents(x) = contents
  /\ x.gone = w.gone \cup released

\* The values of a sound array.
LEMMA ContentsFacts ==
  ASSUME NEW w, Sound(w)
  PROVE  /\ Contents(w) \in Seq(Value) /\ Len(Contents(w)) = w.size
         /\ DOMAIN Contents(w) = 1 .. w.size
         /\ \A p \in 1 .. w.size : Contents(w)[p] = w.slot[p]
<1>1. /\ w.slot \in Seq(Slot) /\ w.size \in Nat /\ w.size <= Len(w.slot)
      /\ \A p \in 1 .. w.size : w.slot[p] \in Value
  BY DEF Sound, Work
<1>2. /\ Len(Contents(w)) = w.size /\ DOMAIN Contents(w) = 1 .. w.size
      /\ \A p \in 1 .. w.size : Contents(w)[p] = w.slot[p]
  BY <1>1 DEF Contents
<1>3. Contents(w) = [p \in 1 .. w.size |-> w.slot[p]]
  BY <1>1 DEF Contents
<1>4. Contents(w) \in Seq(Value)
  BY <1>1, <1>3
<1> QED BY <1>2, <1>4

\* They are those of a sequence that has the same at each place.
LEMMA ContentsAre ==
  ASSUME NEW w, Sound(w), NEW V, NEW s \in Seq(V), Len(s) = w.size,
         \A p \in 1 .. w.size : w.slot[p] = s[p]
  PROVE  Contents(w) = s
<1>1. /\ w.slot \in Seq(Slot) /\ w.size \in Nat /\ w.size <= Len(w.slot)
  BY DEF Sound, Work
<1>2. Contents(w) = [p \in 1 .. w.size |-> w.slot[p]]
  BY <1>1 DEF Contents
<1>3. s = [p \in 1 .. w.size |-> s[p]]
  OBVIOUS
<1> QED BY <1>2, <1>3

\* The numbers of a sound array,
LEMMA SizeFacts ==
  ASSUME NEW w, Sound(w)
  PROVE  w.size \in Nat /\ Len(w.slot) \in Nat /\ w.size <= Len(w.slot)
BY DEF Sound, Work

\* its slots,
LEMMA SlotFacts ==
  ASSUME NEW w, Sound(w)
  PROVE  /\ w.slot \in Seq(Slot) /\ DOMAIN w.slot = 1 .. Len(w.slot)
         /\ \A p \in 1 .. Len(w.slot) : w.slot[p] \in Slot
         /\ \A p \in 1 .. w.size : w.slot[p] \in Value
BY DEF Sound, Work

\* and the rest of it.
LEMMA WorkFacts ==
  ASSUME NEW w, Sound(w)
  PROVE  w \in Work /\ w.gone \in SUBSET Thing /\ w.bad = {}
BY DEF Sound, Work

\* What is sound.
LEMMA IsSound ==
  ASSUME NEW slot \in Seq(Slot), NEW size \in Nat, NEW released \in SUBSET Thing,
         size <= Len(slot), \A p \in 1 .. size : slot[p] \in Value
  PROVE  Sound(Obj(slot, size, released))
BY DEF Sound, Work, Obj

\* Every sound array is.
LEMMA SoundIsObj ==
  ASSUME NEW w, Sound(w)
  PROVE  w = Obj(w.slot, w.size, w.gone)
BY DEF Sound, Work, Obj

\* Moving from a value leaves one.
LEMMA MovedFromValue ==
  ASSUME NEW v \in Value
  PROVE  MovedFrom(v) \in Value /\ Owns(v) \subseteq Thing /\ Owns(MovedFrom(v)) = {}
<1>1. Empty \notin Thing
  BY ArrayAssumption
<1> QED BY <1>1 DEF MovedFrom, Owns, Value

-----------------------------------------------------------------------------
(* Capacity *)

\* set_capacity keeps the elements that fit.
LEMMA SetCapacityFacts ==
  ASSUME NEW w, Sound(w), NEW capacity \in Nat, NEW x, x = SetCapacity(w, capacity)
  PROVE  CutTo(x, w, capacity)
<1> DEFINE kept == IF capacity < w.size THEN capacity ELSE w.size
           row == [p \in 1 .. capacity |-> IF p <= kept THEN w.slot[p] ELSE Raw]
<1>1. CASE capacity = Len(w.slot)
  <2>1. x = w
    BY <1>1 DEF SetCapacity
  <2>2. ~(capacity < w.size)
    BY <1>1, SizeFacts
  <2> QED BY <1>1, <2>1, <2>2 DEF CutTo
<1>2. CASE capacity # Len(w.slot)
  <2>1. kept \in Nat /\ kept <= w.size /\ kept <= capacity
    BY SizeFacts
  <2>2. \A p \in 1 .. kept : w.slot[p] \in Value
    <3> HIDE DEF kept
    <3>1. \A p \in 1 .. kept : p \in 1 .. w.size
      BY <2>1, SizeFacts
    <3> QED BY <3>1, SlotFacts
  <2>3. x = [w EXCEPT !.slot = row, !.size = kept,
                      !.bad = @ \cup NoObject({w.slot[p] : p \in 1 .. kept})]
    BY Zenon, <1>2 DEF SetCapacity
  <2> HIDE DEF kept
  <2>4. /\ row \in Seq(Slot) /\ Len(row) = capacity
        /\ \A p \in 1 .. kept : row[p] = w.slot[p] /\ row[p] \in Value
    <3>1. row \in [1 .. capacity -> Slot]
      <4>1. ASSUME NEW p \in 1 .. capacity PROVE row[p] \in Slot
        <5>1. CASE p <= kept
          BY <2>1, <2>2, <5>1 DEF Slot
        <5>2. CASE ~(p <= kept)
          BY <5>2 DEF Slot
        <5> QED BY <5>1, <5>2
      <4> QED BY <4>1
    <3>2. \A p \in 1 .. kept : p \in 1 .. capacity /\ p <= kept
      BY <2>1
    <3>3. \A p \in 1 .. kept : row[p] = w.slot[p] /\ row[p] \in Value
      BY <2>2, <3>2
    <3> QED BY <3>1, <3>3
  <2> HIDE DEF row
  <2>5. w.bad \cup NoObject({w.slot[p] : p \in 1 .. kept}) = {}
    BY <2>2, WorkFacts DEF NoObject
  <2>6. x = [slot |-> row, size |-> kept, gone |-> w.gone, bad |-> {}]
    <3>1. x = [w EXCEPT !.slot = row, !.size = kept, !.bad = {}]
      BY Zenon, <2>3, <2>5
    <3>2. w \in Work
      BY WorkFacts
    <3> QED BY <3>1, <3>2 DEF Work
  <2>7. Sound(x)
    <3>1. w.gone \in SUBSET Thing
      BY Zenon, WorkFacts
    <3>2. \A p \in 1 .. kept : row[p] \in Value
      BY <2>4
    <3>3. kept <= Len(row)
      BY <2>1, <2>4
    <3> QED BY Zenon, <2>1, <2>4, <2>6, <3>1, <3>2, <3>3, IsSound DEF Obj
  <2>8. x.slot = row /\ x.size = kept /\ x.gone = w.gone
    BY <2>6
  <2> QED BY <2>4, <2>7, <2>8 DEF kept, CutTo
<1> QED BY <1>1, <1>2

\* Reserve keeps all of them.
LEMMA ReserveFacts ==
  ASSUME NEW w, Sound(w), NEW capacity \in Nat, NEW x, x = Reserve(w, capacity)
  PROVE  Same(x, w) /\ Len(x.slot) >= capacity
<1>1. CASE capacity <= Len(w.slot)
  <2>1. x = w
    BY <1>1 DEF Reserve
  <2>2. Len(x.slot) >= capacity
    BY <1>1, <2>1, SizeFacts
  <2> QED BY <2>1, <2>2 DEF Same
<1>2. CASE ~(capacity <= Len(w.slot))
  <2>1. x = SetCapacity(w, capacity) /\ ~(capacity < w.size)
    BY <1>2, SizeFacts DEF Reserve
  <2>2. CutTo(x, w, capacity)
    BY Zenon, <2>1, SetCapacityFacts
  <2>3. x.size = w.size
    BY <2>1, <2>2 DEF CutTo
  <2> QED BY <1>2, <2>2, <2>3 DEF Same, CutTo
<1> QED BY <1>1, <1>2

\* EnsureNotFull makes room for one more.
LEMMA EnsureNotFullFacts ==
  ASSUME NEW w, Sound(w), NEW x, x = EnsureNotFull(w)
  PROVE  Same(x, w) /\ w.size + 1 <= Len(x.slot)
<1>1. CASE w.slot = <<>>
  <2>1. x = [w EXCEPT !.slot = <<Raw>>]
    BY <1>1 DEF EnsureNotFull
  <2>2. w.size = 0
    BY <1>1, SizeFacts
  <2>3. <<Raw>> \in Seq(Slot) /\ Len(<<Raw>>) = 1
    BY DEF Slot
  <2>4. x = [slot |-> <<Raw>>, size |-> 0, gone |-> w.gone, bad |-> {}]
    <3>1. w \in Work /\ w.bad = {}
      BY WorkFacts
    <3> QED BY <2>1, <2>2, <3>1 DEF Work
  <2>5. Sound(x)
    <3>1. 0 \in Nat /\ 0 <= Len(<<Raw>>)
      BY <2>3
    <3>3. w.gone \in SUBSET Thing
      BY Zenon, WorkFacts
    <3>2. \A p \in 1 .. 0 : <<Raw>>[p] \in Value
      OBVIOUS
    <3> QED BY Zenon, <2>3, <2>4, <3>1, <3>2, <3>3, IsSound DEF Obj
  <2>6. x.slot = <<Raw>> /\ x.size = 0 /\ x.gone = w.gone
    BY <2>4
  <2> QED BY <2>2, <2>3, <2>5, <2>6 DEF Same
<1>2. CASE w.slot # <<>> /\ w.size = Len(w.slot)
  <2>1. Len(w.slot) # 0
    BY <1>2, SlotFacts
  <2>2. 2 * Len(w.slot) \in Nat /\ 2 * Len(w.slot) >= w.size + 1
        /\ ~(2 * Len(w.slot) < w.size)
    BY <1>2, <2>1, SizeFacts
  <2>3. x = SetCapacity(w, 2 * Len(w.slot))
    BY <1>2 DEF EnsureNotFull
  <2>4. PICK capacity \in Nat : capacity = 2 * Len(w.slot)
    BY <2>2
  <2>5. CutTo(x, w, capacity)
    <3>1. x = SetCapacity(w, capacity)
      BY <2>3, <2>4
    <3> QED BY Zenon, <3>1, SetCapacityFacts
  <2>6. x.size = w.size
    BY <2>2, <2>4, <2>5 DEF CutTo
  <2>7. w.size + 1 <= Len(x.slot)
    BY <2>2, <2>4, <2>5 DEF CutTo
  <2> QED BY <2>5, <2>6, <2>7 DEF Same, CutTo
<1>3. CASE w.slot # <<>> /\ w.size # Len(w.slot)
  <2>1. x = w
    BY <1>3 DEF EnsureNotFull
  <2>2. w.size + 1 <= Len(w.slot)
    BY <1>3, SizeFacts
  <2> QED BY <2>1, <2>2 DEF Same
<1> QED BY <1>1, <1>2, <1>3

-----------------------------------------------------------------------------
(* One object *)

\* An object is one.
LEMMA ObjWork ==
  ASSUME NEW slot \in Seq(Slot), NEW size \in Nat, NEW released \in SUBSET Thing
  PROVE  Obj(slot, size, released) \in Work
BY DEF Obj, Work

\* Two arrays with the same parts are the same.
LEMMA SameParts ==
  ASSUME NEW x \in Work, NEW y \in Work,
         x.slot = y.slot, x.size = y.size, x.gone = y.gone, x.bad = y.bad
  PROVE  x = y
BY DEF Work

\* An array with other slots,
LEMMA ExceptSlot ==
  ASSUME NEW w \in Work, w.bad = {}, NEW slot \in Seq(Slot)
  PROVE  [w EXCEPT !.slot = slot] = Obj(slot, w.size, w.gone)
<1> DEFINE x == [w EXCEPT !.slot = slot]
           y == Obj(slot, w.size, w.gone)
<1>1. x \in Work /\ x.slot = slot /\ x.size = w.size /\ x.gone = w.gone /\ x.bad = w.bad
  BY DEF Work
<1>2. y \in Work
  BY DEF Obj, Work
<1>3. y.slot = slot /\ y.size = w.size /\ y.gone = w.gone /\ y.bad = {}
  BY Zenon DEF Obj
<1> HIDE DEF x, y
<1>4. x = y
  BY <1>1, <1>2, <1>3, SameParts
<1> QED BY <1>4 DEF x, y

\* or another size.
LEMMA ExceptSize ==
  ASSUME NEW w \in Work, w.bad = {}, NEW size \in Nat
  PROVE  [w EXCEPT !.size = size] = Obj(w.slot, size, w.gone)
<1> DEFINE x == [w EXCEPT !.size = size]
           y == Obj(w.slot, size, w.gone)
<1>1. x \in Work /\ x.slot = w.slot /\ x.size = size /\ x.gone = w.gone /\ x.bad = w.bad
  BY DEF Work
<1>2. y \in Work
  BY DEF Obj, Work
<1>3. y.slot = w.slot /\ y.size = size /\ y.gone = w.gone /\ y.bad = {}
  BY Zenon DEF Obj
<1> HIDE DEF x, y
<1>4. x = y
  BY <1>1, <1>2, <1>3, SameParts
<1> QED BY <1>4 DEF x, y

\* Its size set.
LEMMA ResizeObj ==
  ASSUME NEW slot \in Seq(Slot), NEW size \in Nat, NEW released \in SUBSET Thing,
         NEW other \in Nat
  PROVE  [Obj(slot, size, released) EXCEPT !.size = other] = Obj(slot, other, released)
<1> DEFINE w == Obj(slot, size, released)
<1>1. w \in Work /\ w.slot = slot /\ w.gone = released /\ w.bad = {}
  <2>1. w.slot = slot /\ w.size = size /\ w.gone = released /\ w.bad = {}
    BY Zenon DEF Obj
  <2>2. w \in Work
    BY ObjWork
  <2> QED BY Zenon, <2>1, <2>2
<1> HIDE DEF w
<1>2. [w EXCEPT !.size = other] = Obj(w.slot, other, w.gone)
  BY Zenon, <1>1, ExceptSize
<1>3. [w EXCEPT !.size = other] = Obj(slot, other, released)
  BY Zenon, <1>1, <1>2
<1> QED BY Zenon, <1>3 DEF w

\* Construct puts a value in a slot.
LEMMA ConstructObj ==
  ASSUME NEW slot \in Seq(Slot), NEW size \in Nat, NEW released \in SUBSET Thing,
         NEW p \in 1 .. Len(slot), NEW v \in Slot
  PROVE  Construct(Obj(slot, size, released), p, v)
           = Obj([slot EXCEPT ![p] = v], size, released)
<1> DEFINE w == Obj(slot, size, released)
<1>1. w \in Work /\ w.slot = slot /\ w.size = size /\ w.gone = released /\ w.bad = {}
  <2>1. w.slot = slot /\ w.size = size /\ w.gone = released /\ w.bad = {}
    BY Zenon DEF Obj
  <2>2. w \in Work
    BY ObjWork
  <2> QED BY Zenon, <2>1, <2>2
<1>2. Construct(w, p, v) = [w EXCEPT !.slot = [slot EXCEPT ![p] = v]]
  BY Zenon, <1>1 DEF Construct
<1>3. [slot EXCEPT ![p] = v] \in Seq(Slot)
  OBVIOUS
<1> HIDE DEF w
<1>4. [w EXCEPT !.slot = [slot EXCEPT ![p] = v]] = Obj([slot EXCEPT ![p] = v], size, released)
  BY Zenon, <1>1, <1>3, ExceptSlot
<1> QED BY Zenon, <1>2, <1>4 DEF w

\* Destruct of an object releases what it owns.
LEMMA DestructObj ==
  ASSUME NEW slot, NEW size, NEW released, NEW p, slot[p] \in Value
  PROVE  Destruct(Obj(slot, size, released), p)
           = Obj([slot EXCEPT ![p] = Dead], size, released \cup Owns(slot[p]))
<1> DEFINE w == Obj(slot, size, released)
<1>1. w.slot = slot /\ w.size = size /\ w.gone = released /\ w.bad = {}
  BY DEF Obj
<1>2. w.bad \cup NoObject({w.slot[p]}) = {}
  BY <1>1 DEF NoObject
<1>3. Destruct(w, p) = [w EXCEPT !.slot[p] = Dead, !.gone = released \cup Owns(slot[p]),
                                 !.bad = {}]
  BY Zenon, <1>1, <1>2 DEF Destruct
<1> QED BY <1>3 DEF Obj

\* Placement new of a moved object.
LEMMA ConstructFromObj ==
  ASSUME NEW slot, NEW size, NEW released, NEW from, NEW p, slot[from] \in Value
  PROVE  ConstructFrom(Obj(slot, size, released), from, p)
           = Obj([slot EXCEPT ![p] = slot[from], ![from] = MovedFrom(slot[from])],
                 size, released)
<1> DEFINE w == Obj(slot, size, released)
<1>1. w.slot = slot /\ w.size = size /\ w.gone = released /\ w.bad = {}
  BY DEF Obj
<1>2. w.bad \cup NoObject({w.slot[from]}) = {}
  BY <1>1 DEF NoObject
<1>3. ConstructFrom(w, from, p)
        = [w EXCEPT !.slot[p] = slot[from], !.slot[from] = MovedFrom(slot[from]), !.bad = {}]
  BY Zenon, <1>1, <1>2 DEF ConstructFrom
<1> QED BY <1>3 DEF Obj

\* A sequence with one element replaced.
LEMMA ReplacedSeq ==
  ASSUME NEW V, NEW s \in Seq(V), NEW p \in 1 .. Len(s), NEW v \in V
  PROVE  /\ [s EXCEPT ![p] = v] \in Seq(V) /\ Len([s EXCEPT ![p] = v]) = Len(s)
         /\ [s EXCEPT ![p] = v][p] = v
         /\ \A q \in 1 .. Len(s) : q # p => [s EXCEPT ![p] = v][q] = s[q]
OBVIOUS

-----------------------------------------------------------------------------
(* Emplace and Insert *)

\* Emplace adds the value at the end.
LEMMA EmplaceGives ==
  ASSUME NEW w, Sound(w), NEW v \in Value
  PROVE  Gives(Emplace(w, v), w, Append(Contents(w), v), {})
<1> DEFINE room == EnsureNotFull(w)
           n == w.size
           s == [room.slot EXCEPT ![n + 1] = v]
<1>1. Same(room, w) /\ n + 1 <= Len(room.slot)
  BY Zenon, EnsureNotFullFacts
<1>2. n \in Nat /\ n + 1 \in 1 .. Len(room.slot)
  BY <1>1, SizeFacts DEF Same
<1>3. room = Obj(room.slot, n, w.gone)
  <2>1. room.size = n /\ room.gone = w.gone /\ Sound(room)
    BY <1>1 DEF Same
  <2> QED BY Zenon, <2>1, SoundIsObj
<1> HIDE DEF room
<1>5. room.slot \in Seq(Slot) /\ v \in Slot /\ \A p \in 1 .. n : room.slot[p] \in Value
  <2>1. Sound(room) /\ room.size = n
    BY <1>1 DEF Same
  <2> QED BY <2>1, SlotFacts DEF Slot
<1>6. /\ s \in Seq(Slot) /\ Len(s) = Len(room.slot) /\ s[n + 1] = v
      /\ \A q \in 1 .. Len(room.slot) : q # n + 1 => s[q] = room.slot[q]
  BY <1>2, <1>5, ReplacedSeq
<1>7. \A q \in 1 .. n : s[q] = room.slot[q]
  <2> HIDE DEF s
  <2> QED BY <1>1, <1>2, <1>6
<1>8. \A q \in 1 .. n + 1 : s[q] \in Value
  <2> HIDE DEF s
  <2> QED BY <1>2, <1>5, <1>6, <1>7
<1>9. w.gone \in SUBSET Thing
  BY Zenon, WorkFacts
<1> HIDE DEF s
<1>4. Emplace(w, v) = Obj(s, n + 1, w.gone)
  <2>1. Construct(room, n + 1, v) = Obj(s, n, w.gone)
    <3>1. Construct(Obj(room.slot, n, w.gone), n + 1, v) = Obj(s, n, w.gone)
      BY ZenonT(60), <1>2, <1>5, <1>9, ConstructObj DEF s
    <3> QED BY Zenon, <1>3, <3>1
  <2>2. Emplace(w, v) = [Construct(room, n + 1, v) EXCEPT !.size = @ + 1]
    BY Zenon DEF Emplace, room
  <2>3. Obj(s, n, w.gone).size = n
    BY Zenon DEF Obj
  <2>4. Emplace(w, v) = [Obj(s, n, w.gone) EXCEPT !.size = n + 1]
    BY Zenon, <2>1, <2>2, <2>3
  <2>5. n + 1 \in Nat
    BY <1>2
  <2>6. s \in Seq(Slot) /\ n \in Nat
    BY <1>2, <1>6
  <2>7. [Obj(s, n, w.gone) EXCEPT !.size = n + 1] = Obj(s, n + 1, w.gone)
    BY <1>9, <2>5, <2>6, ResizeObj
  <2> QED BY Zenon, <2>4, <2>7
<1>10. Sound(Obj(s, n + 1, w.gone))
  BY <1>1, <1>2, <1>6, <1>8, <1>9, IsSound
<1>11. /\ Obj(s, n + 1, w.gone).slot = s /\ Obj(s, n + 1, w.gone).size = n + 1
       /\ Obj(s, n + 1, w.gone).gone = w.gone
  BY DEF Obj
<1>12. Contents(Obj(s, n + 1, w.gone)) = Append(Contents(w), v)
  <2> DEFINE c == Contents(w)
             x == Obj(s, n + 1, w.gone)
  <2>1. c \in Seq(Value) /\ Len(c) = n /\ \A q \in 1 .. n : c[q] = w.slot[q]
    BY ContentsFacts
  <2>2. Append(c, v) \in Seq(Value) /\ Len(Append(c, v)) = n + 1
    BY <2>1
  <2>3. \A q \in 1 .. n : s[q] = c[q]
    BY <1>1, <1>7, <2>1 DEF Same
  <2>4. \A q \in 1 .. n + 1 : s[q] = Append(c, v)[q]
    <3> HIDE DEF c
    <3> QED BY <1>2, <1>6, <2>1, <2>3
  <2> HIDE DEF c, x
  <2>5. x.slot = s /\ x.size = n + 1 /\ Sound(x)
    BY <1>10, <1>11 DEF x
  <2> QED BY Zenon, <2>2, <2>4, <2>5, ContentsAre DEF c, x
<1> QED BY <1>4, <1>10, <1>11, <1>12 DEF Gives

\* A sound array is given by its slots, and what it has.
LEMMA ObjGives ==
  ASSUME NEW w, Sound(w), NEW slot \in Seq(Slot), NEW size \in Nat,
         size <= Len(slot), \A p \in 1 .. size : slot[p] \in Value,
         NEW s, s \in Seq(Value), Len(s) = size, \A p \in 1 .. size : slot[p] = s[p],
         NEW released \in SUBSET Thing
  PROVE  Gives(Obj(slot, size, w.gone \cup released), w, s, released)
<1> DEFINE x == Obj(slot, size, w.gone \cup released)
<1>1. w.gone \cup released \in SUBSET Thing
  <2>1. w.gone \in SUBSET Thing
    BY Zenon, WorkFacts
  <2> QED BY <2>1
<1>2. Sound(x)
  BY <1>1, IsSound
<1>3. x.slot = slot /\ x.size = size /\ x.gone = w.gone \cup released
  BY Zenon DEF Obj
<1> HIDE DEF x
<1>4. Contents(x) = s
  BY <1>2, <1>3, ContentsAre
<1> QED BY Zenon, <1>2, <1>3, <1>4 DEF Gives, x

\* A sequence with a value inserted.
LEMMA InsertAtFacts ==
  ASSUME NEW V, NEW s \in Seq(V), NEW p \in 1 .. Len(s) + 1, NEW v \in V
  PROVE  /\ Seqs!InsertAt(s, p, v) \in Seq(V)
         /\ Len(Seqs!InsertAt(s, p, v)) = Len(s) + 1
         /\ \A q \in 1 .. Len(s) + 1 :
              Seqs!InsertAt(s, p, v)[q] = IF q < p THEN s[q] ELSE IF q = p THEN v ELSE s[q - 1]
<1> DEFINE a == SubSeq(s, 1, p - 1)
           b == SubSeq(s, p, Len(s))
<1>1. a \in Seq(V) /\ Len(a) = p - 1 /\ \A q \in 1 .. p - 1 : a[q] = s[q]
  OBVIOUS
<1>2. b \in Seq(V) /\ Len(b) = Len(s) + 1 - p /\ \A q \in 1 .. Len(s) + 1 - p : b[q] = s[q + p - 1]
  OBVIOUS
<1>3. Seqs!InsertAt(s, p, v) = a \o <<v>> \o b
  BY DEF Seqs!InsertAt
<1> HIDE DEF a, b
<1>4. a \o <<v>> \in Seq(V) /\ Len(a \o <<v>>) = p
      /\ \A q \in 1 .. p : (a \o <<v>>)[q] = IF q < p THEN s[q] ELSE v
  BY <1>1
<1>5. PICK c : c = a \o <<v>>
  OBVIOUS
<1>6. c \o b \in Seq(V) /\ Len(c \o b) = Len(s) + 1
  BY <1>2, <1>4, <1>5
<1>7. ASSUME NEW q \in 1 .. Len(s) + 1
      PROVE  (c \o b)[q] = IF q < p THEN s[q] ELSE IF q = p THEN v ELSE s[q - 1]
  <2>1. CASE q <= p
    <3>1. (c \o b)[q] = c[q]
      BY <1>2, <1>4, <1>5, <2>1
    <3> QED BY <1>4, <1>5, <2>1, <3>1
  <2>2. CASE ~(q <= p)
    <3>1. (c \o b)[q] = b[q - p]
      BY <1>2, <1>4, <1>5, <2>2
    <3>2. q - p \in 1 .. Len(s) + 1 - p /\ (q - p) + p - 1 = q - 1
      BY <2>2
    <3>3. b[q - p] = s[q - 1]
      BY <1>2, <3>2
    <3> QED BY <2>2, <3>1, <3>3
  <2> QED BY <2>1, <2>2
<1> QED BY <1>3, <1>5, <1>6, <1>7

\* The slots after k steps of Insert's loop from n downwards: all behind the
\* object moved from last are one place further up.
ShiftedBy(s, n, k) ==
  [q \in 1 .. Len(s) |-> IF q < n - k \/ q > n + 1 THEN s[q]
                         ELSE IF q = n - k THEN MovedFrom(s[q]) ELSE s[q - 1]]

\* A step of the loop releases nothing.
LEMMA ShiftStep ==
  ASSUME NEW s \in Seq(Slot), NEW n \in Nat, n + 1 <= Len(s),
         \A q \in 1 .. n : s[q] \in Value, NEW k \in Nat, k + 1 < n,
         NEW released \in SUBSET Thing
  PROVE  Shift(Obj(ShiftedBy(s, n, k), n, released), n - k)
           = Obj(ShiftedBy(s, n, k + 1), n, released)
<1> DEFINE i == n - k
           old == ShiftedBy(s, n, k)
           cut == [old EXCEPT ![i] = Dead]
           next == [cut EXCEPT ![i] = cut[i - 1], ![i - 1] = MovedFrom(cut[i - 1])]
<1>1. i \in 1 .. Len(s) /\ i - 1 \in 1 .. Len(s) /\ i - 1 # i /\ i \in 1 .. n /\ i - 1 \in 1 .. n
      /\ i - 1 < n - k /\ i = n - k
  OBVIOUS
<1>2. DOMAIN old = 1 .. Len(s) /\ old[i] = MovedFrom(s[i]) /\ old[i - 1] = s[i - 1]
  BY <1>1 DEF ShiftedBy
<1>3. MovedFrom(s[i]) \in Value /\ Owns(MovedFrom(s[i])) = {} /\ s[i - 1] \in Value
  BY <1>1, MovedFromValue
<1>4. Destruct(Obj(old, n, released), i) = Obj(cut, n, released)
  <2>1. Destruct(Obj(old, n, released), i) = Obj(cut, n, released \cup Owns(old[i]))
    <3>1. old[i] \in Value
      BY <1>2, <1>3
    <3> HIDE DEF old
    <3> QED BY <3>1, DestructObj
  <2>2. released \cup Owns(old[i]) = released
    BY <1>2, <1>3
  <2> QED BY Zenon, <2>1, <2>2
<1>5. DOMAIN cut = 1 .. Len(s) /\ cut[i - 1] = s[i - 1]
  BY <1>1, <1>2
<1>6. ConstructFrom(Obj(cut, n, released), i - 1, i) = Obj(next, n, released)
  <2>1. cut[i - 1] \in Value
    BY <1>3, <1>5
  <2> HIDE DEF cut
  <2> QED BY <2>1, ConstructFromObj
<1>7. next = ShiftedBy(s, n, k + 1)
  <2> DEFINE new == ShiftedBy(s, n, k + 1)
  <2>1. DOMAIN next = 1 .. Len(s) /\ DOMAIN new = 1 .. Len(s)
    BY <1>5 DEF ShiftedBy
  <2>2. ASSUME NEW q \in 1 .. Len(s) PROVE next[q] = new[q]
    <3>1. new[q] = IF q < n - (k + 1) \/ q > n + 1 THEN s[q]
                   ELSE IF q = n - (k + 1) THEN MovedFrom(s[q]) ELSE s[q - 1]
      BY DEF ShiftedBy
    <3>2. CASE q = i
      <4>1. next[q] = s[i - 1]
        BY <1>1, <1>5, <3>2
      <4> QED BY <1>1, <3>1, <3>2, <4>1
    <3>3. CASE q = i - 1
      <4>1. next[q] = MovedFrom(s[i - 1])
        BY <1>1, <1>5, <3>3
      <4>2. q = n - (k + 1) /\ ~(q < n - (k + 1) \/ q > n + 1)
        BY <1>1, <3>3
      <4> QED BY <3>1, <3>3, <4>1, <4>2
    <3>4. CASE q # i /\ q # i - 1
      <4>1. next[q] = old[q]
        BY <1>1, <1>2, <1>5, <3>4
      <4>2. old[q] = IF q < n - k \/ q > n + 1 THEN s[q]
                     ELSE IF q = n - k THEN MovedFrom(s[q]) ELSE s[q - 1]
        BY DEF ShiftedBy
      <4> HIDE DEF next, new, old
      <4> QED BY <3>1, <3>4, <4>1, <4>2
    <3> QED BY <3>2, <3>3, <3>4
  <2>3. new = [q \in 1 .. Len(s) |-> new[q]]
    BY DEF ShiftedBy
  <2>4. next = [q \in 1 .. Len(s) |-> next[q]]
    <3>1. old = [q \in 1 .. Len(s) |-> old[q]]
      BY DEF ShiftedBy
    <3> HIDE DEF old
    <3>2. cut = [q \in 1 .. Len(s) |-> cut[q]]
      BY <3>1
    <3> HIDE DEF cut
    <3> QED BY <3>2
  <2> HIDE DEF next, new
  <2> QED BY <2>2, <2>3, <2>4 DEF new
<1> QED BY Zenon, <1>4, <1>6, <1>7 DEF Shift

\* g[k] is the array after k steps of Insert's loop, of n.
Shifts(g, w, places, n) ==
  /\ g[0] = w
  /\ \A k \in 1 .. n : g[k] = Shift(g[k - 1], places[k])
  /\ Seqs!FoldLeft(Shift, w, places) = g[n]

\* The loop takes its steps one after the other.
LEMMA ShiftSteps ==
  ASSUME NEW w, NEW places, NEW n \in Nat, DOMAIN places = 1 .. n
  PROVE  \E g : Shifts(g, w, places, n)
<1>1. Seqs!FoldLeft(Shift, w, places) = Shifting!Fold(w, places)
  BY Zenon DEF Shifting!Fold, Seqs!FoldLeft, Seqs!MapThenFoldSet,
    Shifting!MapThenFoldSet, Seqs!Max, Shifting!Highest
<1>2. Shifting!HasLength(places, n)
  BY DEF Shifting!HasLength
<1>3. PICK g : Shifting!Folding(g, w, places, n)
  BY <1>2, Shifting!FoldSteps
<1> QED BY <1>1, <1>3 DEF Shifting!Folding, Shifts

\* The slots behind the loop are values.
LEMMA ShiftedType ==
  ASSUME NEW s \in Seq(Slot), NEW n \in Nat, n + 1 <= Len(s),
         \A q \in 1 .. n : s[q] \in Value, NEW k \in Nat, k < n
  PROVE  /\ ShiftedBy(s, n, k) \in Seq(Slot) /\ Len(ShiftedBy(s, n, k)) = Len(s)
         /\ \A q \in 1 .. n + 1 : ShiftedBy(s, n, k)[q] \in Value
         /\ \A q \in 1 .. Len(s) :
              ShiftedBy(s, n, k)[q] = IF q < n - k \/ q > n + 1 THEN s[q]
                                      ELSE IF q = n - k THEN MovedFrom(s[q]) ELSE s[q - 1]
<1> DEFINE x == ShiftedBy(s, n, k)
<1>1. \A q \in 1 .. Len(s) : x[q] = IF q < n - k \/ q > n + 1 THEN s[q]
                                    ELSE IF q = n - k THEN MovedFrom(s[q]) ELSE s[q - 1]
  BY DEF ShiftedBy
<1>2. x = [q \in 1 .. Len(s) |-> x[q]]
  BY DEF ShiftedBy
<1> HIDE DEF x
<1>3. ASSUME NEW q \in 1 .. n + 1 PROVE x[q] \in Value
  <2>1. q \in 1 .. Len(s) /\ ~(q > n + 1)
    OBVIOUS
  <2>2. CASE q < n - k
    <3>1. q \in 1 .. n
      BY <2>2
    <3> QED BY <1>1, <2>1, <2>2, <3>1
  <2>3. CASE q = n - k
    <3>1. q \in 1 .. n /\ ~(q < n - k)
      BY <2>3
    <3>2. MovedFrom(s[q]) \in Value
      BY <3>1, MovedFromValue
    <3> QED BY <1>1, <2>1, <2>3, <3>1, <3>2
  <2>4. CASE q > n - k
    <3>1. q - 1 \in 1 .. n /\ ~(q < n - k) /\ q # n - k
      BY <2>4
    <3> QED BY <1>1, <2>1, <3>1
  <2> QED BY <2>2, <2>3, <2>4
<1>4. ASSUME NEW q \in 1 .. Len(s) PROVE x[q] \in Slot
  <2>1. CASE q <= n + 1
    BY <1>3, <2>1 DEF Slot
  <2>2. CASE ~(q <= n + 1)
    BY <1>1, <2>2
  <2> QED BY <2>1, <2>2
<1>5. x \in [1 .. Len(s) -> Slot]
  BY <1>2, <1>4
<1>6. x \in Seq(Slot) /\ Len(x) = Len(s)
  BY <1>5
<1> QED BY <1>1, <1>3, <1>6 DEF x

\* Insert of a value before the last place: each one from that place on moves
\* up by one.
LEMMA InsertShifts ==
  ASSUME NEW w, Sound(w), NEW p \in 1 .. w.size, NEW v \in Value
  PROVE  \E r \in Seq(Slot) :
           /\ w.size + 1 <= Len(r) /\ \A q \in 1 .. w.size : r[q] = w.slot[q]
           /\ Insert(w, p, v) = Obj([ShiftedBy(r, w.size, w.size - p) EXCEPT ![p] = v],
                                    w.size + 1, w.gone)
<1> DEFINE n == w.size
           room == EnsureNotFull(w)
           r == room.slot
           opened == ConstructFrom(room, n, n + 1)
           places == Downwards(n, p + 1)
           shifted == Seqs!FoldLeft(Shift, opened, places)
           last == ShiftedBy(r, n, n - p)
<1>1. Same(room, w) /\ n + 1 <= Len(r)
  BY EnsureNotFullFacts
<1>2. n \in Nat /\ p \in Nat /\ p <= n /\ 1 <= p /\ n - p \in Nat /\ n \in 1 .. n
  BY SizeFacts
<1>3. room = Obj(r, n, w.gone)
  <2>1. room.size = n /\ room.gone = w.gone /\ Sound(room)
    BY <1>1 DEF Same
  <2> QED BY Zenon, <2>1, SoundIsObj
<1>4. w.gone \in SUBSET Thing
  BY Zenon, WorkFacts
<1>5. r \in Seq(Slot) /\ (\A q \in 1 .. n : r[q] \in Value)
      /\ (\A q \in 1 .. n : r[q] = w.slot[q])
  <2>1. Sound(room) /\ room.size = n /\ \A q \in 1 .. n : r[q] = w.slot[q]
    BY Zenon, <1>1 DEF Same
  <2>2. r \in Seq(Slot) /\ \A q \in 1 .. room.size : r[q] \in Value
    BY Zenon, <2>1, SlotFacts
  <2> QED BY <2>1, <2>2
<1>6. Insert(w, p, v) = [Construct(shifted, p, v) EXCEPT !.size = @ + 1]
  <2>1. ~(p > w.size)
    BY <1>2
  <2> QED BY Zenon, <2>1 DEF Insert
<1> HIDE DEF n, room
<1>7. opened = Obj(ShiftedBy(r, n, 0), n, w.gone)
  <2> DEFINE s == [r EXCEPT ![n + 1] = r[n], ![n] = MovedFrom(r[n])]
  <2>1. r[n] \in Value
    BY <1>2, <1>5
  <2>2. opened = Obj(s, n, w.gone)
    <3>1. ConstructFrom(Obj(r, n, w.gone), n, n + 1) = Obj(s, n, w.gone)
      <4> HIDE DEF r
      <4> QED BY <2>1, ConstructFromObj
    <3> QED BY Zenon, <1>3, <3>1
  <2>3. s = ShiftedBy(r, n, 0)
    <3> HIDE DEF r
    <3>1. DOMAIN r = 1 .. Len(r) /\ n + 1 \in 1 .. Len(r) /\ n \in 1 .. Len(r)
      BY <1>1, <1>2, <1>5
    <3>2. ASSUME NEW q \in 1 .. Len(r)
          PROVE  s[q] = IF q < n - 0 \/ q > n + 1 THEN r[q]
                        ELSE IF q = n - 0 THEN MovedFrom(r[q]) ELSE r[q - 1]
      <4>1. CASE q = n
        <5>1. s[q] = MovedFrom(r[n])
          BY <3>1, <4>1
        <5>2. ~(q < n - 0 \/ q > n + 1) /\ q = n - 0
          BY <1>2, <4>1
        <5> QED BY <4>1, <5>1, <5>2
      <4>2. CASE q = n + 1
        <5>1. s[q] = r[n] /\ q - 1 = n
          BY <1>2, <3>1, <4>2
        <5>2. ~(q < n - 0 \/ q > n + 1) /\ q # n - 0
          BY <1>2, <4>2
        <5> QED BY <5>1, <5>2
      <4>3. CASE q # n /\ q # n + 1
        <5>1. s[q] = r[q]
          BY <3>1, <4>3
        <5>2. q < n - 0 \/ q > n + 1
          BY <1>2, <3>1, <4>3
        <5> QED BY <5>1, <5>2
      <4> QED BY <4>1, <4>2, <4>3
    <3>3. s = [q \in 1 .. Len(r) |-> s[q]]
      BY <3>1
    <3> HIDE DEF s
    <3> QED BY Zenon, <3>2, <3>3 DEF ShiftedBy
  <2> QED BY Zenon, <2>2, <2>3
<1>8. places = [k \in 1 .. n - p |-> n + 1 - k]
  <2>1. n + 1 - (p + 1) = n - p
    BY <1>2
  <2> QED BY Zenon, <2>1 DEF Downwards
<1> HIDE DEF opened, places, r
<1>9. PICK g : /\ g[0] = opened
               /\ \A k \in 1 .. n - p : g[k] = Shift(g[k - 1], places[k])
               /\ Seqs!FoldLeft(Shift, opened, places) = g[n - p]
  <2>1. PICK m \in Nat : m = n - p
    BY <1>2
  <2>2. DOMAIN places = 1 .. m
    BY <1>8, <2>1
  <2>3. \E g : Shifts(g, opened, places, m)
    BY <2>2, ShiftSteps
  <2> QED BY <2>1, <2>3 DEF Shifts
<1> DEFINE S == {k \in 0 .. n - p : g[k] = Obj(ShiftedBy(r, n, k), n, w.gone)}
<1>10. 0 \in S
  BY <1>2, <1>7, <1>9
<1>11. ASSUME NEW k \in 1 .. n - p, k - 1 \in S PROVE k \in S
  <2>1. PICK j \in Nat : j = k - 1
    BY <1>2
  <2>2. k = j + 1 /\ j + 1 < n /\ n + 1 - k = n - j /\ k \in 0 .. n - p
    BY <1>2, <2>1
  <2>3. g[k] = Shift(g[j], n - j)
    BY <1>8, <1>9, <2>1, <2>2
  <2>4. g[j] = Obj(ShiftedBy(r, n, j), n, w.gone)
    BY <1>11, <2>1
  <2>5. Shift(Obj(ShiftedBy(r, n, j), n, w.gone), n - j) = Obj(ShiftedBy(r, n, j + 1), n, w.gone)
    BY <1>1, <1>2, <1>4, <1>5, <2>2, ShiftStep
  <2>6. g[k] = Obj(ShiftedBy(r, n, k), n, w.gone)
    BY Zenon, <2>2, <2>3, <2>4, <2>5
  <2> QED BY <2>2, <2>6
<1>12. shifted = Obj(last, n, w.gone)
  <2>1. 0 .. n - p \subseteq S
    <3> HIDE DEF S
    <3> QED BY <1>2, <1>10, <1>11, Shifting!RangeInduction
  <2>2. n - p \in 0 .. n - p
    BY <1>2
  <2> QED BY Zenon, <1>9, <2>1, <2>2
<1>13. last \in Seq(Slot) /\ Len(last) = Len(r)
  <2>1. n - p \in Nat /\ n - p < n
    BY <1>2
  <2> QED BY <1>1, <1>2, <1>5, <2>1, ShiftedType
<1> HIDE DEF shifted, last
<1> DEFINE full == [last EXCEPT ![p] = v]
<1>14. p \in 1 .. Len(last) /\ v \in Slot /\ full \in Seq(Slot)
  <2>1. p \in 1 .. Len(last) /\ v \in Slot
    BY <1>1, <1>2, <1>13 DEF Slot
  <2> QED BY <1>13, <2>1
<1>15. Construct(shifted, p, v) = Obj(full, n, w.gone)
  <2>1. Construct(Obj(last, n, w.gone), p, v) = Obj(full, n, w.gone)
    BY <1>2, <1>4, <1>13, <1>14, ConstructObj
  <2> QED BY Zenon, <1>12, <2>1
<1> HIDE DEF full
<1>16. Insert(w, p, v) = Obj(full, n + 1, w.gone)
  <2>1. Obj(full, n, w.gone).size = n
    BY Zenon DEF Obj
  <2>2. Insert(w, p, v) = [Obj(full, n, w.gone) EXCEPT !.size = n + 1]
    BY Zenon, <1>6, <1>15, <2>1
  <2>3. [Obj(full, n, w.gone) EXCEPT !.size = n + 1] = Obj(full, n + 1, w.gone)
    <3>1. n + 1 \in Nat
      BY <1>2
    <3> QED BY <1>2, <1>4, <1>14, <3>1, ResizeObj
  <2> QED BY Zenon, <2>2, <2>3
<1> QED BY Zenon, <1>1, <1>5, <1>16 DEF full, last, n

\* Insert puts the value at its place and moves up what was there and behind.
LEMMA InsertGives ==
  ASSUME NEW w, Sound(w), NEW p \in 1 .. w.size + 1, NEW v \in Value
  PROVE  Gives(Insert(w, p, v), w, Seqs!InsertAt(Contents(w), p, v), {})
<1> DEFINE n == w.size
           c == Contents(w)
           s == Seqs!InsertAt(c, p, v)
<1>1. /\ n \in Nat /\ c \in Seq(Value) /\ Len(c) = n
      /\ \A q \in 1 .. n : c[q] = w.slot[q]
  BY SizeFacts, ContentsFacts
<1>2. /\ s \in Seq(Value) /\ Len(s) = n + 1
      /\ \A q \in 1 .. n + 1 : s[q] = IF q < p THEN c[q] ELSE IF q = p THEN v ELSE c[q - 1]
  <2> HIDE DEF c
  <2> QED BY <1>1, InsertAtFacts
<1> HIDE DEF c, s
<1>3. CASE p > n
  <2>1. Insert(w, p, v) = Emplace(w, v)
    BY <1>3 DEF Insert
  <2>2. Append(c, v) = s
    <3>1. p = n + 1
      BY <1>1, <1>3
    <3>2. Append(c, v) \in Seq(Value) /\ Len(Append(c, v)) = n + 1
          /\ Append(c, v)[n + 1] = v /\ \A q \in 1 .. n : Append(c, v)[q] = c[q]
      BY <1>1
    <3>3. \A q \in 1 .. n + 1 : Append(c, v)[q] = s[q]
      BY <1>1, <1>2, <3>1, <3>2
    <3> QED BY <1>2, <3>2, <3>3
  <2>3. Gives(Emplace(w, v), w, Append(c, v), {})
    BY Zenon, EmplaceGives DEF c
  <2> QED BY Zenon, <2>1, <2>2, <2>3 DEF c, s
<1>4. CASE ~(p > n)
  <2>1. p \in 1 .. n
    BY <1>1, <1>4
  <2>2. PICK r \in Seq(Slot) :
          /\ n + 1 <= Len(r) /\ \A q \in 1 .. n : r[q] = w.slot[q]
          /\ Insert(w, p, v) = Obj([ShiftedBy(r, n, n - p) EXCEPT ![p] = v], n + 1, w.gone)
    BY Zenon, <2>1, InsertShifts
  <2> DEFINE last == ShiftedBy(r, n, n - p)
             full == [last EXCEPT ![p] = v]
  <2>3. n - p \in Nat /\ n - p < n /\ n - (n - p) = p
    BY <1>1, <2>1
  <2>4. \A q \in 1 .. n : r[q] \in Value
    BY <2>2, SlotFacts
  <2>5. /\ last \in Seq(Slot) /\ Len(last) = Len(r)
        /\ \A q \in 1 .. n + 1 : last[q] \in Value
        /\ \A q \in 1 .. Len(r) : last[q] = IF q < n - (n - p) \/ q > n + 1 THEN r[q]
                              ELSE IF q = n - (n - p) THEN MovedFrom(r[q]) ELSE r[q - 1]
    BY ZenonT(60), <1>1, <2>2, <2>3, <2>4, ShiftedType
  <2> HIDE DEF n, last
  <2>6. p \in 1 .. Len(last) /\ v \in Slot /\ n + 1 \in Nat
    BY <1>1, <2>1, <2>2, <2>5 DEF Slot
  <2>7. /\ full \in Seq(Slot) /\ Len(full) = Len(last) /\ full[p] = v
        /\ \A q \in 1 .. Len(last) : q # p => full[q] = last[q]
    BY <2>5, <2>6, ReplacedSeq
  <2> HIDE DEF full
  <2>8. ASSUME NEW q \in 1 .. n + 1 PROVE full[q] \in Value /\ full[q] = s[q]
    <3>1. q \in 1 .. Len(r) /\ ~(q > n + 1)
      BY <1>1, <2>2
    <3>2. CASE q = p
      BY <1>2, <2>7, <3>2
    <3>3. CASE q < p
      <4>1. full[q] = r[q] /\ q \in 1 .. n
        BY <1>1, <2>1, <2>3, <2>5, <2>7, <3>1, <3>3
      <4> QED BY <1>1, <1>2, <2>2, <2>4, <3>3, <4>1
    <3>4. CASE q > p
      <4>1. full[q] = r[q - 1] /\ q - 1 \in 1 .. n /\ ~(q < p) /\ q # p
        BY <1>1, <2>1, <2>3, <2>5, <2>7, <3>1, <3>4
      <4> QED BY <1>1, <1>2, <2>2, <2>4, <4>1
    <3> QED BY <2>1, <3>2, <3>3, <3>4
  <2>9. Gives(Obj(full, n + 1, w.gone \cup {}), w, s, {})
    <3>1. n + 1 <= Len(full)
      BY <2>2, <2>5, <2>7
    <3>2. {} \in SUBSET Thing
      OBVIOUS
    <3>3. \A q \in 1 .. n + 1 : full[q] \in Value
      BY <2>8
    <3>4. \A q \in 1 .. n + 1 : full[q] = s[q]
      BY <2>8
    <3> QED BY Zenon, <1>2, <2>6, <2>7, <3>1, <3>2, <3>3, <3>4, ObjGives
  <2>10. w.gone \cup {} = w.gone
    OBVIOUS
  <2> QED BY Zenon, <2>2, <2>9, <2>10 DEF full, last, s, c
<1> QED BY <1>3, <1>4

-----------------------------------------------------------------------------
(* Pop, RemoveTail, Swap and Remove *)

\* A sequence without its last element, and without one of them.
LEMMA FrontFacts ==
  ASSUME NEW V, NEW s \in Seq(V), Len(s) # 0
  PROVE  /\ Seqs!Front(s) \in Seq(V) /\ Len(Seqs!Front(s)) = Len(s) - 1
         /\ \A q \in 1 .. Len(s) - 1 : Seqs!Front(s)[q] = s[q]
<1>1. Len(s) - 1 \in Nat /\ Len(s) - 1 <= Len(s)
  OBVIOUS
<1>2. PICK m \in Nat : m = Len(s) - 1 /\ m <= Len(s)
  BY <1>1
<1>3. SubSeq(s, 1, m) \in Seq(V) /\ Len(SubSeq(s, 1, m)) = m
  BY <1>2
<1>4. \A q \in 1 .. m : SubSeq(s, 1, m)[q] = s[q]
  BY <1>2
<1>5. Seqs!Front(s) = SubSeq(s, 1, m)
  BY <1>2 DEF Seqs!Front
<1> QED BY <1>2, <1>3, <1>4, <1>5

\* Two sequences, one after the other.
LEMMA ConcatFacts ==
  ASSUME NEW V, NEW a \in Seq(V), NEW b \in Seq(V)
  PROVE  a \o b \in Seq(V) /\ Len(a \o b) = Len(a) + Len(b)
OBVIOUS

LEMMA RemoveAtFacts ==
  ASSUME NEW V, NEW s \in Seq(V), NEW p \in 1 .. Len(s)
  PROVE  /\ Seqs!RemoveAt(s, p) \in Seq(V) /\ Len(Seqs!RemoveAt(s, p)) = Len(s) - 1
         /\ \A q \in 1 .. Len(s) - 1 :
              Seqs!RemoveAt(s, p)[q] = IF q < p THEN s[q] ELSE s[q + 1]
<1> DEFINE a == SubSeq(s, 1, p - 1)
           b == SubSeq(s, p + 1, Len(s))
<1>1. a \in Seq(V) /\ Len(a) = p - 1 /\ \A q \in 1 .. p - 1 : a[q] = s[q]
  OBVIOUS
<1>2. b \in Seq(V) /\ Len(b) = Len(s) - p /\ \A q \in 1 .. Len(s) - p : b[q] = s[q + p]
  OBVIOUS
<1>3. Seqs!RemoveAt(s, p) = a \o b
  BY DEF Seqs!RemoveAt
<1> HIDE DEF a, b
<1>4. a \o b \in Seq(V) /\ Len(a \o b) = Len(s) - 1
  <2>1. a \o b \in Seq(V) /\ Len(a \o b) = Len(a) + Len(b)
    BY <1>1, <1>2, ConcatFacts
  <2>2. p - 1 + (Len(s) - p) = Len(s) - 1
    OBVIOUS
  <2> QED BY <1>1, <1>2, <2>1, <2>2
<1>5. ASSUME NEW q \in 1 .. Len(s) - 1
      PROVE  (a \o b)[q] = IF q < p THEN s[q] ELSE s[q + 1]
  <2>1. CASE q < p
    <3>1. (a \o b)[q] = a[q] /\ q \in 1 .. p - 1
      BY <1>1, <1>2, <2>1
    <3> QED BY <1>1, <2>1, <3>1
  <2>2. CASE ~(q < p)
    <3>1. (a \o b)[q] = b[q - (p - 1)]
      BY <1>1, <1>2, <2>2
    <3>2. q - (p - 1) \in 1 .. Len(s) - p /\ (q - (p - 1)) + p = q + 1
      BY <2>2
    <3>3. b[q - (p - 1)] = s[q + 1]
      BY <1>2, <3>2
    <3> QED BY <2>2, <3>1, <3>3
  <2> QED BY <2>1, <2>2
<1> QED BY <1>3, <1>4, <1>5

\* An array with other slots and another size.
LEMMA ExceptBoth ==
  ASSUME NEW w \in Work, NEW slot \in Seq(Slot), NEW size \in Nat
  PROVE  [w EXCEPT !.size = size, !.slot = slot, !.bad = {}] = Obj(slot, size, w.gone)
<1> DEFINE x == [w EXCEPT !.size = size, !.slot = slot, !.bad = {}]
           y == Obj(slot, size, w.gone)
<1>1. x \in Work /\ x.slot = slot /\ x.size = size /\ x.gone = w.gone /\ x.bad = {}
  BY DEF Work
<1>2. y \in Work
  BY DEF Obj, Work
<1>3. y.slot = slot /\ y.size = size /\ y.gone = w.gone /\ y.bad = {}
  BY Zenon DEF Obj
<1> HIDE DEF x, y
<1>4. x = y
  BY <1>1, <1>2, <1>3, SameParts
<1> QED BY <1>4 DEF x, y

\* Pop leaves the object it moves from behind the last place in use.
LEMMA PopGives ==
  ASSUME NEW w, Sound(w), w.size # 0
  PROVE  Gives(Pop(w), w, Seqs!Front(Contents(w)), {})
<1> DEFINE n == w.size
           c == Contents(w)
           s == [w.slot EXCEPT ![n] = MovedFrom(w.slot[n])]
<1>1. /\ n \in Nat /\ n - 1 \in Nat /\ n \in 1 .. n /\ n \in 1 .. Len(w.slot)
      /\ n <= Len(w.slot)
  BY SizeFacts
<1>2. w.slot \in Seq(Slot) /\ \A q \in 1 .. n : w.slot[q] \in Value
  BY SlotFacts
<1>3. w \in Work /\ w.bad = {}
  BY WorkFacts
<1>4. MovedFrom(w.slot[n]) \in Value /\ MovedFrom(w.slot[n]) \in Slot
  BY <1>1, <1>2, MovedFromValue DEF Slot
<1>5. /\ s \in Seq(Slot) /\ Len(s) = Len(w.slot)
      /\ \A q \in 1 .. Len(w.slot) : q # n => s[q] = w.slot[q]
  BY <1>1, <1>2, <1>4, ReplacedSeq
<1>6. Pop(w) = Obj(s, n - 1, w.gone)
  <2>1. w.bad \cup NoObject({w.slot[w.size]}) = {}
    BY <1>1, <1>2, <1>3 DEF NoObject
  <2>2. Pop(w) = [w EXCEPT !.size = n - 1, !.slot = s, !.bad = {}]
    BY Zenon, <2>1 DEF Pop
  <2> HIDE DEF s
  <2>3. [w EXCEPT !.size = n - 1, !.slot = s, !.bad = {}] = Obj(s, n - 1, w.gone)
    BY <1>1, <1>3, <1>5, ExceptBoth
  <2> QED BY Zenon, <2>2, <2>3
<1>7. /\ Seqs!Front(c) \in Seq(Value) /\ Len(Seqs!Front(c)) = n - 1
      /\ \A q \in 1 .. n - 1 : Seqs!Front(c)[q] = w.slot[q]
  <2>1. c \in Seq(Value) /\ Len(c) = n /\ \A q \in 1 .. n : c[q] = w.slot[q]
    BY ContentsFacts
  <2> HIDE DEF c
  <2>2. Len(c) # 0
    BY <2>1
  <2>3. /\ Seqs!Front(c) \in Seq(Value) /\ Len(Seqs!Front(c)) = n - 1
        /\ \A q \in 1 .. n - 1 : Seqs!Front(c)[q] = c[q]
    BY <2>1, <2>2, FrontFacts
  <2> QED BY <1>1, <2>1, <2>3
<1> HIDE DEF s, c
<1>8. \A q \in 1 .. n - 1 : s[q] \in Value /\ s[q] = Seqs!Front(c)[q]
  BY <1>1, <1>2, <1>5, <1>7
<1>9. Gives(Obj(s, n - 1, w.gone \cup {}), w, Seqs!Front(c), {})
  <2>1. n - 1 <= Len(s) /\ {} \in SUBSET Thing
    BY <1>1, <1>5
  <2>2. \A q \in 1 .. n - 1 : s[q] \in Value
    BY <1>8
  <2>3. \A q \in 1 .. n - 1 : s[q] = Seqs!Front(c)[q]
    BY <1>8
  <2> QED BY Zenon, <1>1, <1>5, <1>7, <2>1, <2>2, <2>3, ObjGives
<1>10. w.gone \cup {} = w.gone
  OBVIOUS
<1> QED BY Zenon, <1>6, <1>9, <1>10 DEF c

\* RemoveTail releases what the last element owns.
LEMMA RemoveTailGives ==
  ASSUME NEW w, Sound(w), w.size # 0
  PROVE  Gives(RemoveTail(w), w, Seqs!Front(Contents(w)), Owns(w.slot[w.size]))
<1> DEFINE n == w.size
           c == Contents(w)
           s == [w.slot EXCEPT ![n] = Dead]
           released == Owns(w.slot[n])
<1>1. /\ n \in Nat /\ n - 1 \in Nat /\ n \in 1 .. n /\ n \in 1 .. Len(w.slot)
      /\ n <= Len(w.slot)
  BY SizeFacts
<1>2. w.slot \in Seq(Slot) /\ \A q \in 1 .. n : w.slot[q] \in Value
  BY SlotFacts
<1>3. w.gone \in SUBSET Thing
  BY Zenon, WorkFacts
<1>4. w.slot[n] \in Value /\ Dead \in Slot /\ released \in SUBSET Thing
  BY <1>1, <1>2, MovedFromValue DEF Slot
<1>5. /\ s \in Seq(Slot) /\ Len(s) = Len(w.slot)
      /\ \A q \in 1 .. Len(w.slot) : q # n => s[q] = w.slot[q]
  BY <1>1, <1>2, <1>4, ReplacedSeq
<1>6. RemoveTail(w) = Obj(s, n - 1, w.gone \cup released)
  <2>1. w = Obj(w.slot, n, w.gone)
    BY Zenon, SoundIsObj
  <2>2. Destruct(Obj(w.slot, n, w.gone), n) = Obj(s, n, w.gone \cup released)
    BY <1>4, DestructObj
  <2> HIDE DEF s, released
  <2>3. Destruct(w, w.size) = Obj(s, n, w.gone \cup released)
    BY Zenon, <2>1, <2>2
  <2>4. Obj(s, n, w.gone \cup released).size = n
    BY Zenon DEF Obj
  <2>5. RemoveTail(w) = [Obj(s, n, w.gone \cup released) EXCEPT !.size = n - 1]
    BY Zenon, <2>3, <2>4 DEF RemoveTail
  <2>6. w.gone \cup released \in SUBSET Thing
    BY <1>3, <1>4
  <2>7. [Obj(s, n, w.gone \cup released) EXCEPT !.size = n - 1]
          = Obj(s, n - 1, w.gone \cup released)
    <3>1. PICK m \in Nat : m = n - 1
      BY <1>1
    <3>2. PICK all : all = w.gone \cup released
      OBVIOUS
    <3> HIDE DEF n
    <3>3. [Obj(s, n, all) EXCEPT !.size = m] = Obj(s, m, all)
      <4>1. s \in Seq(Slot) /\ n \in Nat /\ all \in SUBSET Thing
        BY Zenon, <1>1, <1>5, <2>6, <3>2
      <4> QED BY <3>1, <4>1, ResizeObj
    <3> QED BY Zenon, <3>1, <3>2, <3>3
  <2> QED BY Zenon, <2>5, <2>7
<1>7. /\ Seqs!Front(c) \in Seq(Value) /\ Len(Seqs!Front(c)) = n - 1
      /\ \A q \in 1 .. n - 1 : Seqs!Front(c)[q] = w.slot[q]
  <2>1. c \in Seq(Value) /\ Len(c) = n /\ \A q \in 1 .. n : c[q] = w.slot[q]
    BY ContentsFacts
  <2> HIDE DEF c
  <2>2. Len(c) # 0
    BY <2>1
  <2>3. /\ Seqs!Front(c) \in Seq(Value) /\ Len(Seqs!Front(c)) = n - 1
        /\ \A q \in 1 .. n - 1 : Seqs!Front(c)[q] = c[q]
    BY <2>1, <2>2, FrontFacts
  <2> QED BY <1>1, <2>1, <2>3
<1> HIDE DEF s, c, released
<1>8. \A q \in 1 .. n - 1 : s[q] \in Value /\ s[q] = Seqs!Front(c)[q]
  <2>1. \A q \in 1 .. n - 1 : q \in 1 .. n /\ q \in 1 .. Len(w.slot) /\ q # n
    BY <1>1
  <2> HIDE DEF n
  <2> QED BY <1>2, <1>5, <1>7, <2>1
<1>9. Gives(Obj(s, n - 1, w.gone \cup released), w, Seqs!Front(c), released)
  <2>1. n - 1 <= Len(s)
    BY <1>1, <1>5
  <2>2. \A q \in 1 .. n - 1 : s[q] \in Value
    BY <1>8
  <2>3. \A q \in 1 .. n - 1 : s[q] = Seqs!Front(c)[q]
    BY <1>8
  <2> QED BY Zenon, <1>1, <1>4, <1>5, <1>7, <2>1, <2>2, <2>3, ObjGives
<1> QED BY Zenon, <1>6, <1>9 DEF c, released

\* An array that has released nothing more.
LEMMA ObjKeeps ==
  ASSUME NEW w, Sound(w), NEW slot \in Seq(Slot), NEW size \in Nat,
         size <= Len(slot), \A p \in 1 .. size : slot[p] \in Value,
         NEW s, s \in Seq(Value), Len(s) = size, \A p \in 1 .. size : slot[p] = s[p]
  PROVE  Gives(Obj(slot, size, w.gone), w, s, {})
<1>1. {} \in SUBSET Thing
  OBVIOUS
<1>2. Gives(Obj(slot, size, w.gone \cup {}), w, s, {})
  BY <1>1, ObjGives
<1>3. w.gone \cup {} = w.gone
  OBVIOUS
<1> QED BY Zenon, <1>2, <1>3

\* A sequence with two elements exchanged.
Exchanged(s, p, q) == [s EXCEPT ![p] = s[q], ![q] = s[p]]

\* What it has where.
Exchanges(x, V, s, p, q) ==
  /\ x \in Seq(V) /\ Len(x) = Len(s)
  /\ \A i \in 1 .. Len(s) : x[i] = IF i = q THEN s[p] ELSE IF i = p THEN s[q] ELSE s[i]

LEMMA SwappedFacts ==
  ASSUME NEW V, NEW s \in Seq(V), NEW p \in 1 .. Len(s), NEW q \in 1 .. Len(s)
  PROVE  Exchanges(Exchanged(s, p, q), V, s, p, q)
<1> DEFINE t == [s EXCEPT ![p] = s[q]]
           x == [t EXCEPT ![q] = s[p]]
<1>1. s[p] \in V /\ s[q] \in V
  OBVIOUS
<1>2. t \in Seq(V) /\ Len(t) = Len(s) /\ t[p] = s[q]
      /\ \A i \in 1 .. Len(s) : i # p => t[i] = s[i]
  BY <1>1, ReplacedSeq
<1> HIDE DEF t
<1>3. x \in Seq(V) /\ Len(x) = Len(t) /\ x[q] = s[p]
      /\ \A i \in 1 .. Len(t) : i # q => x[i] = t[i]
  BY <1>1, <1>2, ReplacedSeq
<1> HIDE DEF x
<1>4. \A i \in 1 .. Len(s) : x[i] = IF i = q THEN s[p] ELSE IF i = p THEN s[q] ELSE s[i]
  BY <1>2, <1>3
<1>5. Exchanged(s, p, q) = x
  BY Zenon DEF Exchanged, x, t
<1> QED BY <1>2, <1>3, <1>4, <1>5 DEF Exchanges

\* Swap exchanges two elements.
LEMMA SwapGives ==
  ASSUME NEW w, Sound(w), NEW p \in 1 .. w.size, NEW q \in 1 .. w.size
  PROVE  Gives(Swap(w, p, q), w, Exchanged(Contents(w), p, q), {})
<1> DEFINE n == w.size
           c == Contents(w)
           x == Exchanged(w.slot, p, q)
<1>1. n \in Nat /\ n <= Len(w.slot) /\ \A i \in 1 .. n : i \in 1 .. Len(w.slot)
  BY SizeFacts
<1>2. w.slot \in Seq(Slot) /\ \A i \in 1 .. n : w.slot[i] \in Value
  BY SlotFacts
<1>3. w \in Work /\ w.bad = {}
  BY WorkFacts
<1>4. /\ x \in Seq(Slot) /\ Len(x) = Len(w.slot)
      /\ \A i \in 1 .. Len(w.slot) :
           x[i] = IF i = q THEN w.slot[p] ELSE IF i = p THEN w.slot[q] ELSE w.slot[i]
  <2>1. p \in 1 .. Len(w.slot) /\ q \in 1 .. Len(w.slot)
    BY <1>1
  <2>2. Exchanges(x, Slot, w.slot, p, q)
    BY Zenon, <1>2, <2>1, SwappedFacts
  <2> HIDE DEF x
  <2> QED BY <2>2 DEF Exchanges
<1>5. Swap(w, p, q) = Obj(x, n, w.gone)
  <2>1. w.bad \cup NoObject({w.slot[p], w.slot[q]}) = {}
    BY <1>1, <1>2, <1>3 DEF NoObject
  <2>2. Swap(w, p, q) = [w EXCEPT !.slot = x, !.bad = {}]
    BY Zenon, <2>1 DEF Swap, Exchanged
  <2> HIDE DEF x
  <2>3. [w EXCEPT !.slot = x, !.bad = {}] = [w EXCEPT !.size = n, !.slot = x, !.bad = {}]
    BY <1>3 DEF Work
  <2>4. [w EXCEPT !.size = n, !.slot = x, !.bad = {}] = Obj(x, n, w.gone)
    BY <1>1, <1>3, <1>4, ExceptBoth
  <2> QED BY Zenon, <2>2, <2>3, <2>4
<1>6. c \in Seq(Value) /\ Len(c) = n /\ \A i \in 1 .. n : c[i] = w.slot[i]
  BY ContentsFacts
<1> HIDE DEF x, c
<1> DEFINE s == Exchanged(c, p, q)
<1>7. /\ s \in Seq(Value) /\ Len(s) = n
      /\ \A i \in 1 .. n : s[i] = IF i = q THEN c[p] ELSE IF i = p THEN c[q] ELSE c[i]
  <2>1. p \in 1 .. Len(c) /\ q \in 1 .. Len(c)
    BY <1>6
  <2>2. Exchanges(s, Value, c, p, q)
    BY Zenon, <1>6, <2>1, SwappedFacts
  <2> HIDE DEF s
  <2> QED BY <1>6, <2>2 DEF Exchanges
<1> HIDE DEF s
<1>8. \A i \in 1 .. n : x[i] = s[i] /\ x[i] \in Value
  BY <1>1, <1>2, <1>4, <1>6, <1>7
<1>9. Gives(Obj(x, n, w.gone), w, s, {})
  <2>1. n <= Len(x)
    BY <1>1, <1>4
  <2> HIDE DEF n
  <2>2. (\A i \in 1 .. n : x[i] \in Value) /\ (\A i \in 1 .. n : x[i] = s[i])
    BY <1>8
  <2> QED BY Zenon, <1>1, <1>4, <1>7, <2>1, <2>2, ObjKeeps
<1> QED BY Zenon, <1>5, <1>9 DEF s, c, n

\* Remove moves each later element to the place before it.
LEMMA RemoveGives ==
  ASSUME NEW w, Sound(w), NEW p \in 1 .. w.size
  PROVE  Gives(Remove(w, p), w, Seqs!RemoveAt(Contents(w), p), {})
<1> DEFINE n == w.size
           c == Contents(w)
           s == Seqs!RemoveAt(c, p)
           x == [i \in DOMAIN w.slot |-> IF i \in p .. n - 1 THEN w.slot[i + 1] ELSE w.slot[i]]
<1>1. n \in Nat /\ n <= Len(w.slot) /\ Len(w.slot) \in Nat
  BY SizeFacts
<1>2. /\ w.slot \in Seq(Slot) /\ DOMAIN w.slot = 1 .. Len(w.slot)
      /\ (\A i \in 1 .. Len(w.slot) : w.slot[i] \in Slot)
      /\ (\A i \in 1 .. n : w.slot[i] \in Value)
  BY SlotFacts
<1>3. w \in Work /\ w.bad = {}
  BY WorkFacts
<1>4. n - 1 \in Nat /\ p \in Nat /\ 1 <= p /\ p <= n
  BY <1>1
<1>5. /\ x \in Seq(Slot) /\ Len(x) = Len(w.slot)
      /\ \A i \in 1 .. Len(w.slot) : x[i] = IF i < p \/ i >= n THEN w.slot[i] ELSE w.slot[i + 1]
  <2>1. x = [i \in 1 .. Len(w.slot) |-> IF i \in p .. n - 1 THEN w.slot[i + 1] ELSE w.slot[i]]
    BY <1>2
  <2> HIDE DEF n
  <2>2. ASSUME NEW i \in 1 .. Len(w.slot)
        PROVE  /\ i \in p .. n - 1 <=> ~(i < p \/ i >= n)
               /\ i \in p .. n - 1 => i + 1 \in 1 .. Len(w.slot)
    BY <1>1, <1>4
  <2>3. \A i \in 1 .. Len(w.slot) : x[i] = IF i < p \/ i >= n THEN w.slot[i] ELSE w.slot[i + 1]
    BY <2>1, <2>2
  <2>4. \A i \in 1 .. Len(w.slot) : x[i] \in Slot
    BY <1>2, <2>1, <2>2
  <2>5. x \in [1 .. Len(w.slot) -> Slot]
    <3>1. x = [i \in 1 .. Len(w.slot) |-> x[i]]
      BY <2>1
    <3> HIDE DEF x
    <3> QED BY <2>4, <3>1
  <2>6. x \in Seq(Slot) /\ Len(x) = Len(w.slot)
    <3> HIDE DEF x
    <3> QED BY <1>1, <2>5
  <2> QED BY <2>3, <2>6
<1>6. Remove(w, p) = Obj(x, n - 1, w.gone)
  <2>1. w.bad \cup NoObject({w.slot[i] : i \in p .. w.size}) = {}
    <3>1. \A i \in p .. w.size : i \in 1 .. n
      BY <1>1, <1>4
    <3> QED BY <1>2, <1>3, <3>1 DEF NoObject
  <2>2. Remove(w, p) = [w EXCEPT !.size = n - 1, !.slot = x, !.bad = {}]
    BY Zenon, <2>1 DEF Remove
  <2> HIDE DEF x
  <2>3. [w EXCEPT !.size = n - 1, !.slot = x, !.bad = {}] = Obj(x, n - 1, w.gone)
    <3>1. PICK m \in Nat : m = n - 1
      BY <1>4
    <3>2. [w EXCEPT !.size = m, !.slot = x, !.bad = {}] = Obj(x, m, w.gone)
      BY <1>3, <1>5, ExceptBoth
    <3> QED BY Zenon, <3>1, <3>2
  <2> QED BY Zenon, <2>2, <2>3
<1>7. c \in Seq(Value) /\ Len(c) = n /\ \A i \in 1 .. n : c[i] = w.slot[i]
  BY ContentsFacts
<1> HIDE DEF x, c
<1>8. /\ s \in Seq(Value) /\ Len(s) = n - 1
      /\ \A i \in 1 .. n - 1 : s[i] = IF i < p THEN c[i] ELSE c[i + 1]
  BY SMTT(30), <1>7, RemoveAtFacts
<1> HIDE DEF s
<1>9. ASSUME NEW i \in 1 .. n - 1 PROVE x[i] = s[i] /\ x[i] \in Value
  <2>1. i \in 1 .. n /\ i + 1 \in 1 .. n /\ i \in 1 .. Len(w.slot) /\ ~(i >= n)
    BY <1>1, <1>4
  <2> QED BY <1>2, <1>5, <1>7, <1>8, <2>1
<1>10. Gives(Obj(x, n - 1, w.gone), w, s, {})
  <2>1. n - 1 <= Len(x)
    BY <1>1, <1>5
  <2> HIDE DEF n
  <2>2. (\A i \in 1 .. n - 1 : x[i] \in Value) /\ (\A i \in 1 .. n - 1 : x[i] = s[i])
    BY <1>9
  <2> QED BY Zenon, <1>4, <1>5, <1>8, <2>1, <2>2, ObjKeeps
<1> QED BY Zenon, <1>6, <1>10 DEF s, c, n

-----------------------------------------------------------------------------
(* set_size, Clear, set_capacity and the copy *)

\* The slots after the objects at some places have been destructed, and what
\* those have released.
Cleared(s, places) == [q \in 1 .. Len(s) |-> IF q \in places THEN Dead ELSE s[q]]
Released(s, places) == UNION {Owns(s[q]) : q \in places}
ClearedObj(s, size, released, places) ==
  Obj(Cleared(s, places), size, released \cup Released(s, places))

\* g[k] is the array after k steps of a loop of destructors, of n.
Destructs(g, w, places, n) ==
  /\ g[0] = w
  /\ \A k \in 1 .. n : g[k] = Destruct(g[k - 1], places[k])
  /\ DestructAll(w, places) = g[n]

\* The loop takes its steps one after the other.
LEMMA DestructSteps ==
  ASSUME NEW w, NEW places, NEW n \in Nat, DOMAIN places = 1 .. n
  PROVE  \E g : Destructs(g, w, places, n)
<1>1. Seqs!FoldLeft(Destruct, w, places) = Destructing!Fold(w, places)
  BY Zenon DEF Destructing!Fold, Seqs!FoldLeft, Seqs!MapThenFoldSet,
    Destructing!MapThenFoldSet, Seqs!Max, Destructing!Highest
<1>2. Destructing!HasLength(places, n)
  BY DEF Destructing!HasLength
<1>3. PICK g : Destructing!Folding(g, w, places, n)
  BY <1>2, Destructing!FoldSteps
<1>4. DestructAll(w, places) = Destructing!Fold(w, places)
  BY Zenon, <1>1 DEF DestructAll
<1> QED BY <1>3, <1>4 DEF Destructing!Folding, Destructs

\* A step destructs one more, which is still an object.
LEMMA DestructStep ==
  ASSUME NEW s \in Seq(Slot), NEW size, NEW released, NEW places,
         NEW p \in 1 .. Len(s), p \notin places, s[p] \in Value
  PROVE  Destruct(ClearedObj(s, size, released, places), p)
           = ClearedObj(s, size, released, places \cup {p})
<1> DEFINE x == Cleared(s, places)
           y == Cleared(s, places \cup {p})
           before == released \cup Released(s, places)
           after == released \cup Released(s, places \cup {p})
<1>1. x[p] = s[p]
  BY DEF Cleared
<1>2. Destruct(Obj(x, size, before), p)
        = Obj([x EXCEPT ![p] = Dead], size, before \cup Owns(x[p]))
  <2>1. x[p] \in Value
    BY <1>1
  <2> HIDE DEF x, before
  <2> QED BY <2>1, DestructObj
<1>3. [x EXCEPT ![p] = Dead] = y
  BY DEF Cleared
<1>4. before \cup Owns(x[p]) = after
  <2>1. Released(s, places \cup {p}) = Released(s, places) \cup Owns(s[p])
    BY DEF Released
  <2> QED BY <1>1, <2>1
<1> QED BY Zenon, <1>2, <1>3, <1>4 DEF ClearedObj

\* The places a loop goes through, and those of its first k steps.
Reached(places, k) == {places[j] : j \in 1 .. k}

\* The loop over some places in use, each once, destructs those objects.
LEMMA DestructAllIs ==
  ASSUME NEW w, Sound(w), NEW n \in Nat, NEW places \in [1 .. n -> 1 .. w.size],
         \A i, j \in 1 .. n : places[i] = places[j] => i = j
  PROVE  DestructAll(w, places) = ClearedObj(w.slot, w.size, w.gone, Reached(places, n))
<1> DEFINE At(k) == ClearedObj(w.slot, w.size, w.gone, Reached(places, k))
<1>1. PICK g : Destructs(g, w, places, n)
  BY DestructSteps
<1>2. /\ g[0] = w /\ DestructAll(w, places) = g[n]
      /\ \A k \in 1 .. n : g[k] = Destruct(g[k - 1], places[k])
  BY <1>1 DEF Destructs
<1> DEFINE S == {k \in 0 .. n : g[k] = At(k)}
<1>3. 0 \in S
  <2>1. Reached(places, 0) = {}
    BY DEF Reached
  <2>2. Cleared(w.slot, {}) = w.slot
    BY SlotFacts DEF Cleared
  <2>3. w.gone \cup Released(w.slot, {}) = w.gone
    BY DEF Released
  <2>4. w = Obj(w.slot, w.size, w.gone)
    BY Zenon, SoundIsObj
  <2>5. At(0) = w
    BY Zenon, <2>1, <2>2, <2>3, <2>4 DEF ClearedObj
  <2> HIDE DEF At
  <2> QED BY <1>2, <2>5
<1>4. ASSUME NEW k \in 1 .. n, k - 1 \in S PROVE k \in S
  <2>1. PICK j \in Nat : j = k - 1 /\ k = j + 1
    OBVIOUS
  <2>2. Reached(places, k) = Reached(places, j) \cup {places[k]}
    <3>1. 1 .. k = (1 .. j) \cup {k}
      BY <2>1
    <3> QED BY <3>1 DEF Reached
  <2>3. places[k] \notin Reached(places, j)
    <3>1. \A i \in 1 .. j : i \in 1 .. n /\ i # k
      BY <2>1
    <3> QED BY <3>1 DEF Reached
  <2>4. places[k] \in 1 .. w.size /\ places[k] \in 1 .. Len(w.slot)
    <3>1. \A i \in 1 .. w.size : i \in 1 .. Len(w.slot)
      BY SizeFacts
    <3> QED BY <3>1
  <2>5. w.slot \in Seq(Slot) /\ w.slot[places[k]] \in Value
    BY <2>4, SlotFacts
  <2>6. Destruct(At(j), places[k]) = At(k)
    <3> DEFINE some == Reached(places, j)
               p == places[k]
               s == w.slot
    <3>1. s \in Seq(Slot) /\ p \in 1 .. Len(s) /\ p \notin some /\ s[p] \in Value
      BY <2>3, <2>4, <2>5
    <3> HIDE DEF some, p, s
    <3>2. Destruct(ClearedObj(s, w.size, w.gone, some), p)
            = ClearedObj(s, w.size, w.gone, some \cup {p})
      BY <3>1, DestructStep
    <3> QED BY Zenon, <2>2, <3>2 DEF some, p, s
  <2> HIDE DEF At
  <2>7. g[k] = Destruct(g[j], places[k]) /\ g[j] = At(j)
    BY <1>2, <1>4, <2>1
  <2> QED BY <2>6, <2>7
<1>5. 0 .. n \subseteq S
  <2> HIDE DEF S
  <2> QED BY <1>3, <1>4, Destructing!RangeInduction
<1> HIDE DEF At
<1>6. g[n] = At(n)
  BY <1>5
<1> QED BY Zenon, <1>2, <1>6 DEF At

\* The slots of an array some objects of which have been destructed.
LEMMA ClearedFacts ==
  ASSUME NEW w, Sound(w), NEW places, places \subseteq 1 .. w.size
  PROVE  /\ Cleared(w.slot, places) \in Seq(Slot)
         /\ Len(Cleared(w.slot, places)) = Len(w.slot)
         /\ \A q \in 1 .. w.size : q \notin places => Cleared(w.slot, places)[q] = w.slot[q]
         /\ Released(w.slot, places) \in SUBSET Thing
         /\ w.gone \cup Released(w.slot, places) \in SUBSET Thing
<1> DEFINE x == Cleared(w.slot, places)
<1>1. /\ w.slot \in Seq(Slot) /\ (\A q \in 1 .. Len(w.slot) : w.slot[q] \in Slot)
      /\ (\A q \in 1 .. w.size : w.slot[q] \in Value)
  BY SlotFacts
<1>2. Len(w.slot) \in Nat /\ \A q \in 1 .. w.size : q \in 1 .. Len(w.slot)
  BY SizeFacts
<1>3. x \in [1 .. Len(w.slot) -> Slot]
  BY <1>1 DEF Cleared, Slot
<1>4. x \in Seq(Slot) /\ Len(x) = Len(w.slot)
  <2> HIDE DEF x
  <2> QED BY <1>2, <1>3
<1>5. \A q \in 1 .. w.size : q \notin places => x[q] = w.slot[q]
  BY <1>2 DEF Cleared
<1>6. Released(w.slot, places) \in SUBSET Thing
  <2>1. \A v : Owns(v) \in SUBSET Thing
    BY DEF Owns
  <2> QED BY <2>1 DEF Released
<1>7. w.gone \in SUBSET Thing
  BY Zenon, WorkFacts
<1> HIDE DEF x
<1> QED BY <1>4, <1>5, <1>6, <1>7 DEF x

\* Clear destructs all objects and frees the slots.
LEMMA ClearGives ==
  ASSUME NEW w, Sound(w)
  PROVE  Gives(Clear(w), w, <<>>, Released(w.slot, 1 .. w.size))
<1> DEFINE n == w.size
           all == 1 .. n
           places == [p \in 1 .. n |-> p]
           before == w.gone \cup Released(w.slot, all)
           x == Cleared(w.slot, all)
<1>1. n \in Nat
  BY SizeFacts
<1>2. DestructAll(w, places) = Obj(x, n, before)
  <2>1. places \in [1 .. n -> 1 .. w.size] /\ \A i, j \in 1 .. n : places[i] = places[j] => i = j
    OBVIOUS
  <2>2. Reached(places, n) = all
    BY DEF Reached
  <2> HIDE DEF places
  <2>3. DestructAll(w, places) = ClearedObj(w.slot, w.size, w.gone, Reached(places, n))
    BY <1>1, <2>1, DestructAllIs
  <2> QED BY Zenon, <2>2, <2>3 DEF ClearedObj
<1>3. before \in SUBSET Thing /\ x \in Seq(Slot)
  BY ClearedFacts
<1> HIDE DEF x, before
<1>4. Clear(w) = Obj(<<>>, 0, before)
  <2>1. Clear(w) = [Obj(x, n, before) EXCEPT !.slot = <<>>, !.size = 0]
    BY Zenon, <1>2 DEF Clear
  <2> QED BY <2>1 DEF Obj
<1>5. Gives(Obj(<<>>, 0, before), w, <<>>, Released(w.slot, all))
  <2>1. Released(w.slot, all) \in SUBSET Thing
    BY ClearedFacts
  <2>2. <<>> \in Seq(Slot) /\ 0 \in Nat /\ 0 <= Len(<<>>) /\ <<>> \in Seq(Value)
        /\ Len(<<>>) = 0
    OBVIOUS
  <2>3. \A p \in 1 .. 0 : <<>>[p] \in Value
    OBVIOUS
  <2>4. \A p \in 1 .. 0 : <<>>[p] = <<>>[p]
    OBVIOUS
  <2> QED BY Zenon, <2>1, <2>2, <2>3, <2>4, ObjGives DEF before
<1> QED BY Zenon, <1>4, <1>5

\* What a sequence is when padded with moved-from objects or cut to a size.
Resized(s, size) == [p \in 1 .. size |-> IF p <= Len(s) THEN s[p] ELSE Empty]

LEMMA ResizedFacts ==
  ASSUME NEW s \in Seq(Value), NEW size \in Nat
  PROVE  /\ Resized(s, size) \in Seq(Value) /\ Len(Resized(s, size)) = size
         /\ \A p \in 1 .. size : Resized(s, size)[p] = IF p <= Len(s) THEN s[p] ELSE Empty
<1> DEFINE x == Resized(s, size)
<1>1. \A p \in 1 .. size : x[p] = IF p <= Len(s) THEN s[p] ELSE Empty
  BY DEF Resized
<1>2. \A p \in 1 .. size : x[p] \in Value
  BY <1>1 DEF Value
<1>3. x = [p \in 1 .. size |-> x[p]]
  BY DEF Resized
<1> HIDE DEF x
<1>4. x \in [1 .. size -> Value]
  BY <1>2, <1>3
<1>5. x \in Seq(Value) /\ Len(x) = size
  BY <1>4
<1> QED BY <1>1, <1>5 DEF x

\* The places down to one.
LEMMA DownwardsFacts ==
  ASSUME NEW n \in Nat, NEW size \in Nat, size <= n, NEW m \in Nat, m = n - size
  PROVE  /\ Downwards(n, size + 1) \in [1 .. m -> size + 1 .. n]
         /\ Reached(Downwards(n, size + 1), m) = size + 1 .. n
         /\ \A i, j \in 1 .. m :
              Downwards(n, size + 1)[i] = Downwards(n, size + 1)[j] => i = j
<1> DEFINE places == Downwards(n, size + 1)
<1>1. n = m + size /\ n + 1 - (size + 1) = m
  OBVIOUS
<1>2. places = [k \in 1 .. m |-> n + 1 - k]
  BY <1>1 DEF Downwards
<1> HIDE DEF places
<1>3. \A k \in 1 .. m : n + 1 - k \in size + 1 .. n
  BY <1>1
<1>4. \A q \in size + 1 .. n : n + 1 - q \in 1 .. m /\ n + 1 - (n + 1 - q) = q
  BY <1>1
<1>5. \A i, j \in 1 .. m : places[i] = places[j] => i = j
  BY <1>1, <1>2
<1>6. places \in [1 .. m -> size + 1 .. n]
  BY <1>2, <1>3
<1>7. Reached(places, m) = {n + 1 - k : k \in 1 .. m}
  BY <1>2 DEF Reached
<1>8. Reached(places, m) = size + 1 .. n
  <2>1. \A q \in size + 1 .. n : \E k \in 1 .. m : q = n + 1 - k
    BY <1>4
  <2> QED BY <1>3, <1>7, <2>1
<1> QED BY <1>5, <1>6, <1>8 DEF places

\* set_size to fewer destructs those behind it,
LEMMA CutGives ==
  ASSUME NEW w, Sound(w), NEW size \in Nat, size <= w.size
  PROVE  Gives(SetSize(w, size), w, Resized(Contents(w), size),
               Released(w.slot, size + 1 .. w.size))
<1> DEFINE n == w.size
           c == Contents(w)
           s == Resized(c, size)
           cut == size + 1 .. n
           places == Downwards(n, size + 1)
           before == w.gone \cup Released(w.slot, cut)
           x == Cleared(w.slot, cut)
<1>1. n \in Nat /\ n - size \in Nat /\ n + 1 - (size + 1) = n - size /\ n <= Len(w.slot)
  BY SizeFacts
<1>2. DestructAll(w, places) = Obj(x, n, before)
  <2>1. PICK m \in Nat : m = n - size
    BY <1>1
  <2> HIDE DEF n
  <2>2. /\ places \in [1 .. m -> cut] /\ Reached(places, m) = cut
        /\ \A i, j \in 1 .. m : places[i] = places[j] => i = j
    BY <1>1, <2>1, DownwardsFacts
  <2> USE DEF n
  <2>3. places \in [1 .. m -> 1 .. w.size]
    <3>1. cut \subseteq 1 .. w.size
      BY <1>1
    <3> HIDE DEF cut
    <3> QED BY <2>2, <3>1
  <2> HIDE DEF places, cut
  <2>6. DestructAll(w, places) = ClearedObj(w.slot, w.size, w.gone, Reached(places, m))
    BY <2>2, <2>3, DestructAllIs
  <2> QED BY Zenon, <2>2, <2>6 DEF ClearedObj
<1>3. /\ x \in Seq(Slot) /\ Len(x) = Len(w.slot)
      /\ (\A q \in 1 .. n : q \notin cut => x[q] = w.slot[q])
      /\ Released(w.slot, cut) \in SUBSET Thing /\ before \in SUBSET Thing
  <2>1. cut \subseteq 1 .. w.size
    BY <1>1
  <2> HIDE DEF cut
  <2> QED BY <2>1, ClearedFacts
<1>4. \A q \in 1 .. size : q \in 1 .. n /\ q \notin cut
  BY <1>1
<1>5. SetSize(w, size) = Obj(x, size, before)
  <2>1. SetSize(w, size) = [Obj(x, n, before) EXCEPT !.size = size]
    BY Zenon, <1>2 DEF SetSize
  <2> HIDE DEF x, before, cut, n
  <2>2. [Obj(x, n, before) EXCEPT !.size = size] = Obj(x, size, before)
    BY <1>1, <1>3, ResizeObj
  <2> QED BY Zenon, <2>1, <2>2
<1>6. c \in Seq(Value) /\ Len(c) = n /\ \A q \in 1 .. n : c[q] = w.slot[q]
  BY ContentsFacts
<1>7. \A q \in 1 .. n : w.slot[q] \in Value
  BY SlotFacts
<1> HIDE DEF x, c, cut, n
<1>8. /\ s \in Seq(Value) /\ Len(s) = size
      /\ \A p \in 1 .. size : s[p] = IF p <= n THEN c[p] ELSE Empty
  BY <1>6, ResizedFacts
<1> HIDE DEF s
<1>9. \A q \in 1 .. size : x[q] \in Value /\ x[q] = s[q]
  <2>1. \A q \in 1 .. size : q <= n
    BY <1>1, <1>4
  <2> QED BY <1>3, <1>4, <1>6, <1>7, <1>8, <2>1
<1>10. Gives(Obj(x, size, before), w, s, Released(w.slot, cut))
  <2>1. size <= Len(x)
    BY <1>1, <1>3 DEF n
  <2>2. (\A q \in 1 .. size : x[q] \in Value) /\ (\A q \in 1 .. size : x[q] = s[q])
    BY <1>9
  <2> QED BY Zenon, <1>3, <1>8, <2>1, <2>2, ObjGives DEF before
<1> QED BY Zenon, <1>5, <1>10 DEF s, c, cut, n

\* and to as many or more adds default objects.
LEMMA PadGives ==
  ASSUME NEW w, Sound(w), NEW size \in Nat, ~(size <= w.size)
  PROVE  Gives(SetSize(w, size), w, Resized(Contents(w), size), {})
<1> DEFINE n == w.size
           c == Contents(w)
           s == Resized(c, size)
           room == Reserve(w, size)
           x == [p \in DOMAIN room.slot |-> IF p \in n + 1 .. size THEN Empty ELSE room.slot[p]]
<1>1. Same(room, w) /\ Len(room.slot) >= size
  BY ReserveFacts
<1>2. n \in Nat /\ n <= size /\ \A q \in 1 .. n : q \in 1 .. size
  BY SizeFacts
<1>3. Sound(room) /\ room.size = n /\ room.gone = w.gone
      /\ \A q \in 1 .. n : room.slot[q] = w.slot[q]
  BY <1>1 DEF Same
<1>4. SetSize(w, size) = [room EXCEPT !.size = size, !.slot = x]
  BY Zenon DEF SetSize
<1> HIDE DEF room
<1>5. /\ room.slot \in Seq(Slot) /\ DOMAIN room.slot = 1 .. Len(room.slot)
      /\ (\A q \in 1 .. Len(room.slot) : room.slot[q] \in Slot)
      /\ (\A q \in 1 .. n : room.slot[q] \in Value)
  BY <1>3, SlotFacts
<1>6. room \in Work /\ room.bad = {} /\ Len(room.slot) \in Nat
  BY <1>3, WorkFacts, SizeFacts
<1>7. /\ x \in Seq(Slot) /\ Len(x) = Len(room.slot)
      /\ \A q \in 1 .. size : x[q] = IF q <= n THEN room.slot[q] ELSE Empty
  <2>1. x = [p \in 1 .. Len(room.slot) |-> IF p \in n + 1 .. size THEN Empty ELSE room.slot[p]]
    BY <1>5
  <2> HIDE DEF n
  <2>2. \A q \in 1 .. size : q \in 1 .. Len(room.slot) /\ (q \in n + 1 .. size <=> ~(q <= n))
    BY <1>1, <1>2, <1>6
  <2>3. \A q \in 1 .. size : x[q] = IF q <= n THEN room.slot[q] ELSE Empty
    BY <2>1, <2>2
  <2>4. Empty \in Slot
    BY DEF Slot, Value
  <2>5. x \in [1 .. Len(room.slot) -> Slot]
    BY <1>5, <2>1, <2>4
  <2>6. x \in Seq(Slot) /\ Len(x) = Len(room.slot)
    <3> HIDE DEF x
    <3> QED BY <1>6, <2>5
  <2> QED BY <2>3, <2>6
<1> HIDE DEF x
<1>8. SetSize(w, size) = Obj(x, size, w.gone)
  <2>1. [room EXCEPT !.size = size, !.slot = x] = [room EXCEPT !.size = size, !.slot = x, !.bad = {}]
    BY <1>6 DEF Work
  <2>2. [room EXCEPT !.size = size, !.slot = x, !.bad = {}] = Obj(x, size, room.gone)
    BY <1>6, <1>7, ExceptBoth
  <2> QED BY Zenon, <1>3, <1>4, <2>1, <2>2
<1>9. c \in Seq(Value) /\ Len(c) = n /\ \A q \in 1 .. n : c[q] = w.slot[q]
  BY ContentsFacts
<1> HIDE DEF c
<1>10. /\ s \in Seq(Value) /\ Len(s) = size
       /\ \A p \in 1 .. size : s[p] = IF p <= n THEN c[p] ELSE Empty
  BY <1>9, ResizedFacts
<1> HIDE DEF s
<1>11. ASSUME NEW q \in 1 .. size PROVE x[q] = s[q] /\ x[q] \in Value
  <2>1. CASE q <= n
    <3>1. q \in 1 .. n
      BY <1>2, <2>1
    <3> QED BY <1>3, <1>5, <1>7, <1>9, <1>10, <2>1, <3>1
  <2>2. CASE ~(q <= n)
    BY <1>7, <1>10, <2>2 DEF Value
  <2> QED BY <2>1, <2>2
<1>12. Gives(Obj(x, size, w.gone), w, s, {})
  <2>1. size <= Len(x)
    BY <1>1, <1>6, <1>7
  <2>2. (\A q \in 1 .. size : x[q] \in Value) /\ (\A q \in 1 .. size : x[q] = s[q])
    BY <1>11
  <2> QED BY Zenon, <1>7, <1>10, <2>1, <2>2, ObjKeeps
<1> QED BY Zenon, <1>8, <1>12 DEF s, c

\* In both cases it is resized, and what has been cut is released.
LEMMA SetSizeGives ==
  ASSUME NEW w, Sound(w), NEW size \in Nat
  PROVE  Gives(SetSize(w, size), w, Resized(Contents(w), size),
               Released(w.slot, size + 1 .. w.size))
<1>1. CASE size <= w.size
  BY Zenon, <1>1, CutGives
<1>2. CASE ~(size <= w.size)
  <2>1. size + 1 .. w.size = {}
    BY <1>2, SizeFacts
  <2>2. Released(w.slot, {}) = {}
    BY DEF Released
  <2> QED BY Zenon, <1>2, <2>1, <2>2, PadGives
<1> QED BY <1>1, <1>2

\* What keeps the elements in use keeps the values.
LEMMA SameGives ==
  ASSUME NEW w, Sound(w), NEW x, Same(x, w)
  PROVE  Gives(x, w, Contents(w), {})
<1>1. Sound(x) /\ x.size = w.size /\ x.gone = w.gone /\ \A q \in 1 .. w.size : x.slot[q] = w.slot[q]
  BY DEF Same
<1>2. /\ Contents(w) \in Seq(Value) /\ Len(Contents(w)) = w.size
      /\ \A q \in 1 .. w.size : Contents(w)[q] = w.slot[q]
  BY ContentsFacts
<1>3. \A q \in 1 .. x.size : x.slot[q] = Contents(w)[q]
  BY <1>1, <1>2
<1>4. Contents(x) = Contents(w)
  <2>1. Len(Contents(w)) = x.size
    BY <1>1, <1>2
  <2> QED BY Zenon, <1>1, <1>2, <1>3, <2>1, ContentsAre
<1>5. x.gone = w.gone \cup {}
  BY <1>1
<1> QED BY Zenon, <1>1, <1>4, <1>5 DEF Gives

\* A sequence cut to some length is its first elements.
LEMMA PrefixFacts ==
  ASSUME NEW V, NEW s \in Seq(V), NEW m \in Nat, m <= Len(s)
  PROVE  /\ SubSeq(s, 1, m) \in Seq(V) /\ Len(SubSeq(s, 1, m)) = m
         /\ \A q \in 1 .. m : SubSeq(s, 1, m)[q] = s[q]
<1>1. SubSeq(s, 1, m) \in Seq(V) /\ Len(SubSeq(s, 1, m)) = m
  OBVIOUS
<1>2. \A q \in 1 .. m : SubSeq(s, 1, m)[q] = s[q]
  OBVIOUS
<1> QED BY <1>1, <1>2

\* set_capacity cuts the values to those that fit.
LEMMA SetCapacityGives ==
  ASSUME NEW w, Sound(w), NEW capacity \in Nat
  PROVE  Gives(SetCapacity(w, capacity), w,
               SubSeq(Contents(w), 1, IF capacity < w.size THEN capacity ELSE w.size), {})
<1> DEFINE x == SetCapacity(w, capacity)
           c == Contents(w)
<1>1. CutTo(x, w, capacity)
  BY SetCapacityFacts
<1>2. PICK m \in Nat : m = (IF capacity < w.size THEN capacity ELSE w.size) /\ m <= w.size
  BY SizeFacts
<1> HIDE DEF x
<1>3. /\ Sound(x) /\ x.size = m /\ x.gone = w.gone
      /\ \A q \in 1 .. m : x.slot[q] = w.slot[q]
  BY <1>1, <1>2 DEF CutTo
<1>4. c \in Seq(Value) /\ Len(c) = w.size /\ \A q \in 1 .. w.size : c[q] = w.slot[q]
  BY ContentsFacts
<1> HIDE DEF c
<1>5. SubSeq(c, 1, m) \in Seq(Value) /\ Len(SubSeq(c, 1, m)) = m
      /\ \A q \in 1 .. m : SubSeq(c, 1, m)[q] = c[q]
  BY <1>2, <1>4, PrefixFacts
<1>6. \A q \in 1 .. m : x.slot[q] = SubSeq(c, 1, m)[q]
  <2>1. \A q \in 1 .. m : q \in 1 .. w.size
    BY <1>2, SizeFacts
  <2> QED BY <1>3, <1>4, <1>5, <2>1
<1>7. Contents(x) = SubSeq(c, 1, m)
  BY <1>3, <1>5, <1>6, ContentsAre
<1>8. x.gone = w.gone \cup {}
  BY <1>3
<1> QED BY Zenon, <1>2, <1>3, <1>7, <1>8 DEF Gives, x, c

\* g[k] is the array after k steps of the copying loop, of n.
Emplaces(g, w, src, n) ==
  /\ g[0] = w
  /\ \A k \in 1 .. n : g[k] = Emplace(g[k - 1], src[k])
  /\ Seqs!FoldLeft(Emplace, w, src) = g[n]

\* The loop takes its steps one after the other.
LEMMA EmplaceSteps ==
  ASSUME NEW w, NEW src, NEW n \in Nat, DOMAIN src = 1 .. n
  PROVE  \E g : Emplaces(g, w, src, n)
<1>1. Seqs!FoldLeft(Emplace, w, src) = Emplacing!Fold(w, src)
  BY Zenon DEF Emplacing!Fold, Seqs!FoldLeft, Seqs!MapThenFoldSet,
    Emplacing!MapThenFoldSet, Seqs!Max, Emplacing!Highest
<1>2. Emplacing!HasLength(src, n)
  BY DEF Emplacing!HasLength
<1>3. PICK g : Emplacing!Folding(g, w, src, n)
  BY <1>2, Emplacing!FoldSteps
<1> QED BY <1>1, <1>3 DEF Emplacing!Folding, Emplaces

\* The copying loop makes an empty array have the values it copies.
LEMMA CopyGives ==
  ASSUME NEW w, Sound(w), w.size = 0, NEW src \in Seq(Value)
  PROVE  Gives(Seqs!FoldLeft(Emplace, w, src), w, src, {})
<1> DEFINE n == Len(src)
           First(k) == SubSeq(src, 1, k)
<1>1. n \in Nat /\ DOMAIN src = 1 .. n
  OBVIOUS
<1>2. PICK g : Emplaces(g, w, src, n)
  BY <1>1, EmplaceSteps
<1>3. /\ g[0] = w /\ Seqs!FoldLeft(Emplace, w, src) = g[n]
      /\ \A k \in 1 .. n : g[k] = Emplace(g[k - 1], src[k])
  BY <1>2 DEF Emplaces
<1> DEFINE S == {k \in 0 .. n : Gives(g[k], w, First(k), {})}
<1>4. 0 \in S
  <2>1. Same(w, w)
    BY DEF Same
  <2>2. Gives(w, w, Contents(w), {})
    BY <2>1, SameGives
  <2>3. Contents(w) = First(0)
    <3>1. First(0) \in Seq(Value) /\ Len(First(0)) = 0
      BY PrefixFacts
    <3>2. Contents(w) \in Seq(Value) /\ Len(Contents(w)) = 0
      BY ContentsFacts
    <3> HIDE DEF First
    <3> QED BY <3>1, <3>2
  <2> HIDE DEF First
  <2>4. Gives(g[0], w, First(0), {})
    BY Zenon, <1>3, <2>2, <2>3
  <2> QED BY <1>1, <2>4
<1>5. ASSUME NEW k \in 1 .. n, k - 1 \in S PROVE k \in S
  <2>1. PICK j \in Nat : j = k - 1 /\ k = j + 1 /\ j <= n /\ k \in 0 .. n
    BY <1>1
  <2>2. Gives(g[j], w, First(j), {})
    BY <1>5, <2>1
  <2>3. Sound(g[j]) /\ Contents(g[j]) = First(j) /\ g[j].gone = w.gone \cup {}
    BY Zenon, <2>2 DEF Gives
  <2>4. src[k] \in Value
    OBVIOUS
  <2>5. Gives(Emplace(g[j], src[k]), g[j], Append(First(j), src[k]), {})
    BY Zenon, <2>3, <2>4, EmplaceGives
  <2>6. Append(First(j), src[k]) = First(k)
    <3>1. First(j) \in Seq(Value) /\ Len(First(j)) = j /\ \A q \in 1 .. j : First(j)[q] = src[q]
      BY <2>1, PrefixFacts
    <3>2. First(k) \in Seq(Value) /\ Len(First(k)) = k /\ \A q \in 1 .. k : First(k)[q] = src[q]
      BY <2>1, PrefixFacts
    <3> HIDE DEF First
    <3>3. Append(First(j), src[k]) \in Seq(Value) /\ Len(Append(First(j), src[k])) = k
          /\ Append(First(j), src[k])[k] = src[k]
          /\ \A q \in 1 .. j : Append(First(j), src[k])[q] = First(j)[q]
      BY <2>1, <2>4, <3>1
    <3>4. \A q \in 1 .. k : Append(First(j), src[k])[q] = First(k)[q]
      BY <2>1, <3>1, <3>2, <3>3
    <3>5. \A a, b \in Seq(Value) : Len(a) = Len(b) /\ (\A q \in 1 .. Len(a) : a[q] = b[q]) => a = b
      OBVIOUS
    <3> QED BY <3>2, <3>3, <3>4, <3>5
  <2>7. g[k] = Emplace(g[j], src[k])
    BY <1>3, <2>1
  <2> HIDE DEF First
  <2>8. Gives(g[k], g[j], First(k), {})
    BY Zenon, <2>5, <2>6, <2>7
  <2>9. Gives(g[k], w, First(k), {})
    <3>1. g[j].gone \cup {} = w.gone \cup {}
      BY <2>3
    <3> QED BY Zenon, <2>8, <3>1 DEF Gives
  <2> QED BY <2>1, <2>9
<1>6. 0 .. n \subseteq S
  <2> HIDE DEF S
  <2> QED BY <1>1, <1>4, <1>5, Emplacing!RangeInduction
<1>7. First(n) = src
  OBVIOUS
<1> HIDE DEF First
<1>8. Gives(g[n], w, First(n), {})
  BY <1>1, <1>6
<1> QED BY Zenon, <1>3, <1>7, <1>8

-----------------------------------------------------------------------------
(* Who owns what *)

\* What the elements of a sequence own, and that none owns what another does.
Has(s) == {s[q] : q \in 1 .. Len(s)} \cap Thing
NoneTwice(s) == \A p, q \in 1 .. Len(s) : s[p] = s[q] /\ s[p] \in Thing => p = q

\* Each thing is in one place: in one array of the sequences c, released, or
\* with the caller.
Once(c, released, with) ==
  /\ \A n \in Name : NoneTwice(c[n]) /\ Has(c[n]) \cap (released \cup with) = {}
  /\ \A n, m \in Name : n # m => Has(c[n]) \cap Has(c[m]) = {}
  /\ released \cap with = {}
  /\ \A t \in Thing : t \in released \cup with \/ \E n \in Name : t \in Has(c[n])

\* From one sequence to another, some things are released, some given to it and
\* some taken from it.
Turns(s, next, released, given, taken) ==
  /\ NoneTwice(next)
  /\ Has(next) = (Has(s) \ (released \cup taken)) \cup given
  /\ released \cup taken \subseteq Has(s) /\ released \cap taken = {}

\* Such a change of one array leaves each thing in one place.
LEMMA OnceKept ==
  ASSUME NEW c, DOMAIN c = Name, NEW released, NEW with, Once(c, released, with), NEW n \in Name,
         NEW s, NEW more, NEW given, NEW taken, Turns(c[n], s, more, given, taken),
         given \subseteq released \cup with
  PROVE  Once([c EXCEPT ![n] = s], (released \cup more) \ given, (with \ given) \cup taken)
<1> DEFINE d == [c EXCEPT ![n] = s]
           r == (released \cup more) \ given
           o == (with \ given) \cup taken
<1>1. /\ \A m \in Name : NoneTwice(c[m]) /\ Has(c[m]) \cap (released \cup with) = {}
      /\ \A k, m \in Name : k # m => Has(c[k]) \cap Has(c[m]) = {}
      /\ released \cap with = {}
      /\ \A t \in Thing : t \in released \cup with \/ \E m \in Name : t \in Has(c[m])
  BY DEF Once
<1>2. /\ NoneTwice(s) /\ Has(s) = (Has(c[n]) \ (more \cup taken)) \cup given
      /\ more \cup taken \subseteq Has(c[n]) /\ more \cap taken = {}
  BY DEF Turns
<1>3. d[n] = s /\ \A m \in Name : m # n => d[m] = c[m]
  OBVIOUS
<1> HIDE DEF d
<1>4. ASSUME NEW m \in Name PROVE NoneTwice(d[m]) /\ Has(d[m]) \cap (r \cup o) = {}
  <2>1. CASE m = n
    BY <1>1, <1>2, <1>3, <2>1
  <2>2. CASE m # n
    <3>1. d[m] = c[m] /\ Has(c[m]) \cap (released \cup with) = {} /\ NoneTwice(c[m])
          /\ Has(c[m]) \cap Has(c[n]) = {}
      BY <1>1, <1>3, <2>2
    <3> QED BY <1>2, <3>1
  <2> QED BY <2>1, <2>2
<1>5. ASSUME NEW k \in Name, NEW m \in Name, k # m PROVE Has(d[k]) \cap Has(d[m]) = {}
  <2>1. ASSUME NEW i \in Name, i # n PROVE Has(s) \cap Has(c[i]) = {}
    <3>1. Has(c[n]) \cap Has(c[i]) = {} /\ Has(c[i]) \cap (released \cup with) = {}
      BY <1>1, <2>1
    <3> QED BY <1>2, <3>1
  <2>2. CASE k = n
    BY <1>3, <1>5, <2>1, <2>2
  <2>3. CASE m = n
    BY <1>3, <1>5, <2>1, <2>3
  <2>4. CASE k # n /\ m # n
    BY <1>1, <1>3, <1>5, <2>4
  <2> QED BY <2>2, <2>3, <2>4
<1>6. r \cap o = {}
  <2>1. Has(c[n]) \cap (released \cup with) = {}
    BY <1>1
  <2> QED BY <1>1, <1>2, <2>1
<1>7. ASSUME NEW t \in Thing PROVE t \in r \cup o \/ \E m \in Name : t \in Has(d[m])
  <2>1. CASE t \in given
    BY <1>2, <1>3, <2>1
  <2>2. CASE t \notin given /\ t \in released \cup with
    BY <2>2
  <2>3. CASE \E m \in Name : t \in Has(c[m])
    <3>1. PICK m \in Name : t \in Has(c[m])
      BY <2>3
    <3>2. CASE m = n
      BY <1>2, <1>3, <3>1, <3>2
    <3>3. CASE m # n
      BY <1>3, <3>1, <3>3
    <3> QED BY <3>2, <3>3
  <2> QED BY <1>1, <2>1, <2>2, <2>3
<1> QED BY <1>4, <1>5, <1>6, <1>7 DEF Once, d

\* Nothing changes,
LEMMA SameTurns ==
  ASSUME NEW s, NoneTwice(s)
  PROVE  Turns(s, s, {}, {}, {})
BY DEF Turns

\* a value is inserted,
LEMMA InsertTurns ==
  ASSUME NEW s \in Seq(Value), NoneTwice(s), NEW v \in Thing, v \notin Has(s),
         NEW p \in 1 .. Len(s) + 1
  PROVE  Turns(s, Seqs!InsertAt(s, p, v), {}, {v}, {})
<1> DEFINE x == Seqs!InsertAt(s, p, v)
           n == Len(s)
<1>1. /\ x \in Seq(Value) /\ Len(x) = n + 1 /\ n \in Nat
      /\ \A q \in 1 .. n + 1 : x[q] = IF q < p THEN s[q] ELSE IF q = p THEN v ELSE s[q - 1]
  <2>1. v \in Value
    BY DEF Value
  <2> QED BY <2>1, InsertAtFacts
<1>2. p \in Nat /\ 1 <= p /\ p <= n + 1
  BY <1>1
<1> HIDE DEF x, n
<1> DEFINE from(q) == IF q < p THEN q ELSE q - 1
<1>3. ASSUME NEW q \in 1 .. n + 1, q # p
      PROVE  from(q) \in 1 .. n /\ x[q] = s[from(q)]
  BY <1>1, <1>2, <1>3
<1>4. \A q, r \in 1 .. n + 1 : q # p /\ r # p /\ from(q) = from(r) => q = r
  BY <1>1, <1>2
<1>5. \A q \in 1 .. n : \E r \in 1 .. n + 1 : r # p /\ x[r] = s[q]
  <2>1. SUFFICES ASSUME NEW q \in 1 .. n PROVE \E r \in 1 .. n + 1 : r # p /\ x[r] = s[q]
    OBVIOUS
  <2>2. CASE q < p
    <3>1. q \in 1 .. n + 1 /\ q # p /\ from(q) = q
      BY <1>1, <1>2, <2>2
    <3> QED BY <1>3, <3>1
  <2>3. CASE ~(q < p)
    <3>1. q + 1 \in 1 .. n + 1 /\ q + 1 # p /\ from(q + 1) = q
      BY <1>1, <1>2, <2>3
    <3> QED BY <1>3, <3>1
  <2> QED BY <2>2, <2>3
<1>6. p \in 1 .. n + 1 /\ x[p] = v
  BY <1>1, <1>2
<1> HIDE DEF from
<1>7. Has(s) = {s[q] : q \in 1 .. n} \cap Thing /\ Has(x) = {x[q] : q \in 1 .. n + 1} \cap Thing
  BY <1>1 DEF Has, n
<1>8. NoneTwice(x)
  <2>1. \A p1, q1 \in 1 .. n : s[p1] = s[q1] /\ s[p1] \in Thing => p1 = q1
    BY DEF NoneTwice, n
  <2>2. ASSUME NEW q \in 1 .. n + 1, NEW r \in 1 .. n + 1, x[q] = x[r], x[q] \in Thing
        PROVE  q = r
    <3>1. CASE q # p /\ r # p
      BY <1>3, <1>4, <2>1, <2>2, <3>1
    <3>2. CASE q = p /\ r # p
      BY <1>3, <1>6, <1>7, <2>2, <3>2
    <3>3. CASE q # p /\ r = p
      BY <1>3, <1>6, <1>7, <2>2, <3>3
    <3> QED BY <3>1, <3>2, <3>3
  <2> QED BY <1>1, <2>2 DEF NoneTwice
<1>9. Has(x) = Has(s) \cup {v}
  <2>1. ASSUME NEW t \in Has(x) PROVE t \in Has(s) \cup {v}
    BY <1>3, <1>6, <1>7, <2>1
  <2>2. ASSUME NEW t \in Has(s) \cup {v} PROVE t \in Has(x)
    BY <1>5, <1>6, <1>7, <2>2
  <2> QED BY <2>1, <2>2
<1> QED BY <1>8, <1>9 DEF Turns, x

\* or added,
LEMMA AppendTurns ==
  ASSUME NEW s \in Seq(Value), NoneTwice(s), NEW v \in Thing, v \notin Has(s)
  PROVE  Turns(s, Append(s, v), {}, {v}, {})
<1>1. Append(s, v) \in Seq(Value) /\ Len(Append(s, v)) = Len(s) + 1
      /\ Append(s, v)[Len(s) + 1] = v /\ \A q \in 1 .. Len(s) : Append(s, v)[q] = s[q]
  BY DEF Value
<1>2. PICK x : x = Append(s, v)
  OBVIOUS
<1>3. PICK n \in Nat : n = Len(s)
  OBVIOUS
<1>4. Len(x) = n + 1 /\ x[n + 1] = v /\ \A q \in 1 .. n : x[q] = s[q]
  BY <1>1, <1>2, <1>3
<1>5. 1 .. n + 1 = (1 .. n) \cup {n + 1}
  BY <1>3
<1>6. Has(s) = {s[q] : q \in 1 .. n} \cap Thing /\ Has(x) = {x[q] : q \in 1 .. n + 1} \cap Thing
  BY <1>3, <1>4 DEF Has
<1>7. NoneTwice(x)
  <2>1. \A p, q \in 1 .. n : s[p] = s[q] /\ s[p] \in Thing => p = q
    BY <1>3 DEF NoneTwice
  <2>2. \A p \in 1 .. n : s[p] # v
    BY <1>6
  <2>3. \A p, q \in 1 .. n + 1 : x[p] = x[q] /\ x[p] \in Thing => p = q
    BY <1>4, <1>5, <2>1, <2>2
  <2> QED BY <1>4, <2>3 DEF NoneTwice
<1>8. Has(x) = Has(s) \cup {v}
  BY <1>4, <1>5, <1>6
<1> QED BY <1>2, <1>7, <1>8 DEF Turns

\* the last goes, released or taken,
LEMMA FrontTurns ==
  ASSUME NEW s \in Seq(Value), NoneTwice(s), Len(s) # 0
  PROVE  /\ Turns(s, Seqs!Front(s), {s[Len(s)]} \cap Thing, {}, {})
         /\ Turns(s, Seqs!Front(s), {}, {}, {s[Len(s)]} \cap Thing)
<1> DEFINE x == Seqs!Front(s)
           last == {s[Len(s)]} \cap Thing
<1>1. PICK n \in Nat : n = Len(s) /\ n # 0 /\ n \in 1 .. n /\ 1 .. n = (1 .. n - 1) \cup {n}
  OBVIOUS
<1>2. Len(x) = n - 1 /\ \A q \in 1 .. n - 1 : x[q] = s[q]
  BY <1>1, FrontFacts
<1> HIDE DEF x
<1>3. Has(s) = {s[q] : q \in 1 .. n} \cap Thing /\ Has(x) = {x[q] : q \in 1 .. n - 1} \cap Thing
  BY <1>1, <1>2 DEF Has
<1>4. \A p, q \in 1 .. n : s[p] = s[q] /\ s[p] \in Thing => p = q
  BY <1>1 DEF NoneTwice
<1>5. NoneTwice(x)
  BY <1>1, <1>2, <1>4 DEF NoneTwice
<1>6. \A q \in 1 .. n - 1 : q # n /\ q \in 1 .. n
  BY <1>1
<1>7. last = {s[n]} \cap Thing
  BY <1>1
<1> HIDE DEF last
<1>8. \A q \in 1 .. n - 1 : s[q] \notin last
  BY <1>1, <1>4, <1>6, <1>7
<1>9. Has(x) = Has(s) \ last
  <2>1. ASSUME NEW t \in Has(x) PROVE t \in Has(s) \ last
    <3>1. PICK q \in 1 .. n - 1 : t = x[q] /\ t \in Thing
      BY <1>3
    <3> QED BY <1>2, <1>3, <1>6, <1>8, <3>1
  <2>2. ASSUME NEW t \in Has(s), t \notin last PROVE t \in Has(x)
    <3>1. PICK q \in 1 .. n : t = s[q] /\ t \in Thing
      BY <1>3
    <3>2. q # n
      BY <1>7, <2>2, <3>1
    <3>3. q \in 1 .. n - 1
      BY <1>1, <3>2
    <3> QED BY <1>2, <1>3, <3>1, <3>3
  <2> QED BY <2>1, <2>2
<1>10. last \subseteq Has(s)
  BY <1>1, <1>3, <1>7
<1> QED BY <1>5, <1>9, <1>10 DEF Turns, x, last

\* two are exchanged,
LEMMA ExchangedTurns ==
  ASSUME NEW s \in Seq(Value), NoneTwice(s), NEW p \in 1 .. Len(s), NEW q \in 1 .. Len(s)
  PROVE  Turns(s, Exchanged(s, p, q), {}, {}, {})
<1> DEFINE x == Exchanged(s, p, q)
           from(i) == IF i = q THEN p ELSE IF i = p THEN q ELSE i
<1>1. PICK n \in Nat : n = Len(s)
  OBVIOUS
<1>2. Exchanges(x, Value, s, p, q)
  BY SwappedFacts
<1> HIDE DEF x
<1>3. Len(x) = n /\ p \in 1 .. n /\ q \in 1 .. n
      /\ \A i \in 1 .. n : x[i] = IF i = q THEN s[p] ELSE IF i = p THEN s[q] ELSE s[i]
  BY <1>1, <1>2 DEF Exchanges
<1>4. \A i \in 1 .. n : from(i) \in 1 .. n /\ from(from(i)) = i /\ x[i] = s[from(i)]
  BY <1>3
<1> HIDE DEF from
<1>5. Has(s) = {s[i] : i \in 1 .. n} \cap Thing /\ Has(x) = {x[i] : i \in 1 .. n} \cap Thing
  BY <1>1, <1>3 DEF Has
<1>6. \A i, j \in 1 .. n : s[i] = s[j] /\ s[i] \in Thing => i = j
  BY <1>1 DEF NoneTwice
<1>7. NoneTwice(x)
  <2>1. ASSUME NEW i \in 1 .. n, NEW j \in 1 .. n, x[i] = x[j], x[i] \in Thing PROVE i = j
    <3>1. from(i) = from(j)
      BY <1>4, <1>6, <2>1
    <3> QED BY <1>4, <3>1
  <2> QED BY <1>3, <2>1 DEF NoneTwice
<1>8. Has(x) = Has(s)
  <2>1. ASSUME NEW t \in Has(x) PROVE t \in Has(s)
    BY <1>4, <1>5, <2>1
  <2>2. ASSUME NEW t \in Has(s) PROVE t \in Has(x)
    <3>1. PICK i \in 1 .. n : t = s[i] /\ t \in Thing
      BY <1>5
    <3>2. from(i) \in 1 .. n /\ x[from(i)] = t
      BY <1>4, <3>1
    <3> QED BY <1>5, <3>1, <3>2
  <2> QED BY <2>1, <2>2
<1> QED BY <1>7, <1>8 DEF Turns, x

\* before another change,
LEMMA TurnsOn ==
  ASSUME NEW s, NEW t, NEW u, NEW released, NEW given, NEW taken,
         Turns(s, t, {}, {}, {}), Turns(t, u, released, given, taken)
  PROVE  Turns(s, u, released, given, taken)
<1>1. Has(t) = Has(s)
  BY DEF Turns
<1> QED BY <1>1 DEF Turns

\* those behind a size go, and others are empty,
LEMMA ResizedTurns ==
  ASSUME NEW s \in Seq(Value), NoneTwice(s), NEW size \in Nat
  PROVE  Turns(s, Resized(s, size), {s[q] : q \in size + 1 .. Len(s)} \cap Thing, {}, {})
<1> DEFINE x == Resized(s, size)
<1>1. PICK n \in Nat : n = Len(s)
  OBVIOUS
<1> DEFINE cut == {s[q] : q \in size + 1 .. n} \cap Thing
<1>2. Len(x) = size /\ \A q \in 1 .. size : x[q] = IF q <= n THEN s[q] ELSE Empty
  BY <1>1, ResizedFacts
<1> HIDE DEF x
<1>3. Has(s) = {s[q] : q \in 1 .. n} \cap Thing /\ Has(x) = {x[q] : q \in 1 .. size} \cap Thing
  BY <1>1, <1>2 DEF Has
<1>4. \A p, q \in 1 .. n : s[p] = s[q] /\ s[p] \in Thing => p = q
  BY <1>1 DEF NoneTwice
<1>5. Empty \notin Thing
  BY ArrayAssumption
<1>6. \A q \in 1 .. size : x[q] \in Thing => q \in 1 .. n /\ x[q] = s[q]
  BY <1>1, <1>2, <1>5
<1>7. NoneTwice(x)
  BY <1>2, <1>4, <1>6 DEF NoneTwice
<1>8. \A q \in 1 .. n : (q \in 1 .. size /\ x[q] = s[q]) \/ q \in size + 1 .. n
  BY <1>1, <1>2
<1>9. \A q \in size + 1 .. n : q \in 1 .. n /\ q \notin 1 .. size
  BY <1>1
<1>10. Has(x) = Has(s) \ cut
  <2>1. ASSUME NEW t \in Has(x) PROVE t \in Has(s) \ cut
    <3>1. PICK q \in 1 .. size : t = x[q] /\ t \in Thing
      BY <1>3
    <3>2. q \in 1 .. n /\ t = s[q]
      BY <1>6, <3>1
    <3>3. ASSUME NEW r \in size + 1 .. n PROVE s[r] # t
      BY <1>4, <1>9, <3>1, <3>2
    <3> QED BY <1>3, <3>1, <3>2, <3>3
  <2>2. ASSUME NEW t \in Has(s), t \notin cut PROVE t \in Has(x)
    <3>1. PICK q \in 1 .. n : t = s[q] /\ t \in Thing
      BY <1>3
    <3>2. q \in 1 .. size /\ x[q] = t
      BY <1>8, <2>2, <3>1
    <3> QED BY <1>3, <3>1, <3>2
  <2> QED BY <2>1, <2>2
<1>11. cut \subseteq Has(s)
  BY <1>3, <1>9
<1> QED BY <1>1, <1>7, <1>10, <1>11 DEF Turns, x

\* or all of them go.
LEMMA ClearTurns ==
  ASSUME NEW s \in Seq(Value)
  PROVE  Turns(s, <<>>, Has(s), {}, {})
<1>1. NoneTwice(<<>>) /\ Has(<<>>) = {}
  BY DEF NoneTwice, Has
<1> QED BY <1>1 DEF Turns

\* What destructors have released of an array of owners.
LEMMA ReleasedFacts ==
  ASSUME NEW w, Sound(w), ~plain, NEW places, places \subseteq 1 .. w.size
  PROVE  Released(w.slot, places) = {Contents(w)[q] : q \in places} \cap Thing
<1>1. \A q \in places : Contents(w)[q] = w.slot[q]
  BY ContentsFacts
<1>2. \A v : Owns(v) = {v} \cap Thing
  BY DEF Owns
<1>3. PICK c : c = Contents(w)
  OBVIOUS
<1>4. Released(w.slot, places) = UNION {Owns(c[q]) : q \in places}
  BY <1>1, <1>3 DEF Released
<1>5. UNION {Owns(c[q]) : q \in places} = {c[q] : q \in places} \cap Thing
  BY <1>2
<1> QED BY <1>3, <1>4, <1>5

-----------------------------------------------------------------------------
(* The inductive invariant *)

\* The values of all arrays.
Everything == [m \in Name |-> ContentsOf(m)]

\* In every array there is an object at each place in use, and no call has used
\* one that is not there.
ArrayInv ==
  /\ arrays \in [Name -> [slot : Seq(Slot), size : Nat]]
  /\ \A n \in Name : Sound(Working(n)) /\ Len(arrays[n].slot) <= MaxCapacity
  /\ gone \subseteq Thing /\ outside \subseteq Thing /\ misused = {}
  /\ plain \in BOOLEAN

\* What owners own is in one place, if set_capacity cuts none of them.
OwnersInv == ~CutsOwners /\ ~plain => Once(Everything, gone, outside)

IInv == ArrayInv /\ OwnersInv

\* The end of a call: array n has other values, and things have been released,
\* given to it or taken from it.
Moves(n, s, released, given, taken) ==
  /\ ArrayInv'
  /\ Everything' = [Everything EXCEPT ![n] = s]
  /\ gone' = (gone \cup released) \ given
  /\ outside' = IF plain THEN outside ELSE (outside \ given) \cup taken
  /\ plain' = plain

\* An array the operators work on.
LEMMA WorkingFacts ==
  ASSUME ArrayInv, NEW n \in Name
  PROVE  /\ Sound(Working(n)) /\ Working(n).slot = arrays[n].slot
         /\ Working(n).size = arrays[n].size /\ Working(n).gone = gone
         /\ Contents(Working(n)) = ContentsOf(n) /\ Everything[n] = ContentsOf(n)
<1>1. Sound(Working(n))
  BY DEF ArrayInv
<1>2. /\ Working(n).slot = arrays[n].slot /\ Working(n).size = arrays[n].size
      /\ Working(n).gone = gone
  BY DEF Working
<1>3. Contents(Working(n)) = ContentsOf(n)
  BY Zenon, <1>2 DEF Contents, ContentsOf
<1>4. Everything[n] = ContentsOf(n)
  BY DEF Everything
<1> QED BY <1>1, <1>2, <1>3, <1>4

\* Its values.
LEMMA ContentsOfFacts ==
  ASSUME ArrayInv, NEW n \in Name
  PROVE  /\ ContentsOf(n) \in Seq(Value) /\ Len(ContentsOf(n)) = arrays[n].size
         /\ arrays[n].size \in Nat /\ DOMAIN ContentsOf(n) = 1 .. arrays[n].size
         /\ \A q \in 1 .. arrays[n].size : ContentsOf(n)[q] = arrays[n].slot[q]
<1>1. /\ Sound(Working(n)) /\ Working(n).slot = arrays[n].slot
      /\ Working(n).size = arrays[n].size /\ Contents(Working(n)) = ContentsOf(n)
  BY WorkingFacts
<1>2. PICK w : w = Working(n)
  OBVIOUS
<1>3. /\ Contents(w) \in Seq(Value) /\ Len(Contents(w)) = w.size
      /\ DOMAIN Contents(w) = 1 .. w.size
      /\ \A q \in 1 .. w.size : Contents(w)[q] = w.slot[q]
  BY <1>1, <1>2, ContentsFacts
<1>4. w.size \in Nat
  BY <1>1, <1>2, SizeFacts
<1> QED BY <1>1, <1>2, <1>3, <1>4

\* The arrays are well formed in the next state.
LEMMA NextArrays ==
  ASSUME arrays' \in [Name -> [slot : Seq(Slot), size : Nat]],
         gone' \in SUBSET Thing, outside' \subseteq Thing, misused' = {}, plain' \in BOOLEAN,
         \A m \in Name :
           /\ arrays'[m].slot \in Seq(Slot) /\ arrays'[m].size \in Nat
           /\ arrays'[m].size <= Len(arrays'[m].slot)
           /\ \A q \in 1 .. arrays'[m].size : arrays'[m].slot[q] \in Value
           /\ Len(arrays'[m].slot) <= MaxCapacity
  PROVE  ArrayInv'
<1>1. ASSUME NEW m \in Name PROVE Sound(Working(m))'
  <2>1. Working(m)' = Obj(arrays'[m].slot, arrays'[m].size, gone')
    BY DEF Working, Obj
  <2>2. Sound(Obj(arrays'[m].slot, arrays'[m].size, gone'))
    BY IsSound
  <2> QED BY <2>1, <2>2
<1> QED BY <1>1 DEF ArrayInv

\* A call on one array that leaves it sound ends so.
LEMMA EndsMoves ==
  ASSUME ArrayInv, NEW n \in Name, NEW w, NEW s, NEW released, Gives(w, Working(n), s, released),
         NEW given, NEW taken, taken \subseteq Thing, Ends(n, w, given, taken)
  PROVE  Moves(n, s, released, given, taken)
<1>1. /\ Sound(w) /\ Contents(w) = s /\ w.gone = gone \cup released
  <2>1. Working(n).gone = gone
    BY WorkingFacts
  <2> QED BY <2>1 DEF Gives
<1>2. /\ Len(w.slot) <= MaxCapacity
      /\ arrays' = [arrays EXCEPT ![n] = [slot |-> w.slot, size |-> w.size]]
      /\ gone' = w.gone \ given
      /\ outside' = IF plain THEN outside ELSE (outside \ given) \cup taken
      /\ misused' = w.bad /\ plain' = plain
  BY DEF Ends
<1>3. /\ arrays \in [Name -> [slot : Seq(Slot), size : Nat]]
      /\ (\A m \in Name : Sound(Working(m)) /\ Len(arrays[m].slot) <= MaxCapacity)
      /\ gone \subseteq Thing /\ outside \subseteq Thing /\ misused = {}
      /\ plain \in BOOLEAN
  BY DEF ArrayInv
<1>4. /\ w.slot \in Seq(Slot) /\ w.size \in Nat /\ w.gone \in SUBSET Thing /\ w.bad = {}
      /\ w.size <= Len(w.slot) /\ \A q \in 1 .. w.size : w.slot[q] \in Value
  BY <1>1, SlotFacts, SizeFacts, WorkFacts
<1>5. arrays' \in [Name -> [slot : Seq(Slot), size : Nat]]
  BY <1>2, <1>3, <1>4
<1>6. /\ arrays'[n] = [slot |-> w.slot, size |-> w.size]
      /\ \A m \in Name : m # n => arrays'[m] = arrays[m]
  BY <1>2, <1>3
<1>7. gone' \in SUBSET Thing /\ outside' \subseteq Thing /\ misused' = {} /\ plain' \in BOOLEAN
  BY <1>2, <1>3, <1>4
<1>8. ASSUME NEW m \in Name
      PROVE  /\ arrays'[m].slot \in Seq(Slot) /\ arrays'[m].size \in Nat
             /\ arrays'[m].size <= Len(arrays'[m].slot)
             /\ (\A q \in 1 .. arrays'[m].size : arrays'[m].slot[q] \in Value)
             /\ Len(arrays'[m].slot) <= MaxCapacity
  <2>1. CASE m = n
    <3>1. arrays'[m].slot = w.slot /\ arrays'[m].size = w.size
      BY <1>6, <2>1
    <3> QED BY <1>2, <1>4, <3>1
  <2>2. CASE m # n
    <3>1. arrays'[m].slot = Working(m).slot /\ arrays'[m].size = Working(m).size
      BY <1>6, <2>2 DEF Working
    <3>2. Sound(Working(m)) /\ Len(arrays[m].slot) <= MaxCapacity
          /\ Working(m).slot = arrays[m].slot
      BY <1>3 DEF Working
    <3> QED BY <3>1, <3>2, SlotFacts, SizeFacts
  <2> QED BY <2>1, <2>2
<1>9. ArrayInv'
  BY <1>5, <1>7, <1>8, NextArrays
<1>10. Everything' = [Everything EXCEPT ![n] = s]
  <2>1. \A m \in Name : ContentsOf(m)' = IF m = n THEN s ELSE ContentsOf(m)
    <3>1. ContentsOf(n)' = s
      BY <1>1, <1>6 DEF ContentsOf, Contents
    <3>2. \A m \in Name : m # n => ContentsOf(m)' = ContentsOf(m)
      BY <1>6 DEF ContentsOf
    <3> QED BY <3>1, <3>2
  <2> QED BY <2>1 DEF Everything
<1> QED BY <1>1, <1>2, <1>9, <1>10 DEF Moves

\* If what was released, given and taken is so by the change of the values,
\* what owners own stays in one place.
LEMMA MovesKeep ==
  ASSUME IInv, NEW n \in Name, NEW s, NEW released, NEW given, NEW taken,
         Moves(n, s, released, given, taken),
         ~CutsOwners /\ ~plain => /\ Turns(ContentsOf(n), s, released, given, taken)
                                  /\ given \subseteq gone \cup outside
  PROVE  IInv'
<1>1. /\ ArrayInv' /\ Everything' = [Everything EXCEPT ![n] = s]
      /\ gone' = (gone \cup released) \ given /\ plain' = plain
      /\ ~plain => outside' = (outside \ given) \cup taken
  BY DEF Moves
<1>2. ASSUME ~CutsOwners, ~plain PROVE Once(Everything', gone', outside')
  <2>1. Once(Everything, gone, outside)
    BY <1>2 DEF IInv, OwnersInv
  <2>2. DOMAIN Everything = Name /\ Everything[n] = ContentsOf(n)
    BY DEF Everything
  <2>3. Turns(Everything[n], s, released, given, taken) /\ given \subseteq gone \cup outside
    BY <1>2, <2>2
  <2>4. Once([Everything EXCEPT ![n] = s], (gone \cup released) \ given,
             (outside \ given) \cup taken)
    BY <2>1, <2>2, <2>3, OnceKept
  <2> QED BY Zenon, <1>1, <1>2, <2>4
<1>3. OwnersInv'
  BY <1>1, <1>2 DEF OwnersInv
<1> QED BY <1>1, <1>3 DEF IInv

\* Then the sequence of values has become the other.
LEMMA MovesBecome ==
  ASSUME NEW n \in Name, NEW s, NEW released, NEW given, NEW taken,
         Moves(n, s, released, given, taken)
  PROVE  Promised!Becomes(n, s)
BY Zenon DEF Moves, Promised!Becomes, Everything

\* What the caller may give.
LEMMA AvailableFacts ==
  ASSUME ArrayInv, NEW v \in Available
  PROVE  v \in Thing /\ v \in Value /\ (~plain => v \in gone \cup outside)
<1>1. gone \subseteq Thing /\ outside \subseteq Thing
  BY DEF ArrayInv
<1>2. v \in Thing /\ (~plain => v \in gone \cup outside)
  BY <1>1 DEF Available
<1> QED BY <1>2 DEF Value

\* What the owners of an array have, nobody else has.
LEMMA OwnersFacts ==
  ASSUME IInv, NEW n \in Name, ~CutsOwners, ~plain
  PROVE  /\ NoneTwice(ContentsOf(n))
         /\ \A v \in gone \cup outside : v \notin Has(ContentsOf(n))
<1>1. Once(Everything, gone, outside)
  BY DEF IInv, OwnersInv
<1>2. Everything[n] = ContentsOf(n)
  BY DEF Everything
<1>3. NoneTwice(Everything[n]) /\ Has(Everything[n]) \cap (gone \cup outside) = {}
  BY <1>1 DEF Once
<1> QED BY <1>2, <1>3

-----------------------------------------------------------------------------
(* Every call keeps the invariant, and does to the values what its name     *)
(* says.                                                                    *)

LEMMA EmplaceKeeps ==
  ASSUME IInv, NEW n \in Name, NEW v \in Available, CallEmplace(n, v)
  PROVE  IInv' /\ Promised!SeqsNext
<1> DEFINE c == ContentsOf(n)
           w == Working(n)
<1>1. ArrayInv
  BY DEF IInv
<1>2. v \in Thing /\ v \in Value /\ (~plain => v \in gone \cup outside)
  BY <1>1, AvailableFacts
<1>3. Sound(w) /\ Contents(w) = c /\ c \in Seq(Value)
  BY <1>1, WorkingFacts, ContentsOfFacts
<1>4. /\ Ends(n, Emplace(w, v), {v}, {})
      /\ call' = <<"Emplace", n>> /\ reply' = <<>>
  BY DEF CallEmplace
<1> HIDE DEF c, w
<1>5. Gives(Emplace(w, v), w, Append(c, v), {})
  BY Zenon, <1>2, <1>3, EmplaceGives
<1>6. Moves(n, Append(c, v), {}, {v}, {})
  BY <1>1, <1>4, <1>5, EndsMoves DEF w
<1>7. IInv'
  <2>1. ASSUME ~CutsOwners, ~plain
        PROVE  Turns(c, Append(c, v), {}, {v}, {}) /\ {v} \subseteq gone \cup outside
    <3>1. NoneTwice(c) /\ v \notin Has(c)
      BY <1>2, <2>1, OwnersFacts DEF c
    <3> QED BY <1>2, <1>3, <2>1, <3>1, AppendTurns
  <2> QED BY <1>6, <2>1, MovesKeep DEF c
<1>8. Promised!Add(n, v)
  <2>1. [m \in Name |-> ContentsOf(m)][n] = c
    BY DEF c
  <2>2. Promised!Becomes(n, Append(c, v))
    BY <1>6, MovesBecome
  <2> QED BY Zenon, <1>4, <2>1, <2>2 DEF Promised!Add
<1> QED BY Zenon, <1>2, <1>7, <1>8 DEF Promised!SeqsNext

LEMMA InsertKeeps ==
  ASSUME IInv, NEW n \in Name, NEW v \in Available, NEW p \in 1 .. arrays[n].size + 1,
         CallInsert(n, p, v)
  PROVE  IInv' /\ Promised!SeqsNext
<1> DEFINE c == ContentsOf(n)
           w == Working(n)
           s == Seqs!InsertAt(c, p, v)
<1>1. ArrayInv
  BY DEF IInv
<1>2. v \in Thing /\ v \in Value /\ (~plain => v \in gone \cup outside)
  BY <1>1, AvailableFacts
<1>3. /\ Sound(w) /\ Contents(w) = c /\ c \in Seq(Value)
      /\ w.size = arrays[n].size /\ Len(c) = arrays[n].size
  BY <1>1, WorkingFacts, ContentsOfFacts
<1>4. /\ Ends(n, Insert(w, p, v), {v}, {})
      /\ call' = <<"Insert", n, p>> /\ reply' = <<>>
  BY DEF CallInsert
<1> HIDE DEF c, w
<1>5. p \in 1 .. w.size + 1 /\ p \in 1 .. Len(c) + 1
  BY <1>3
<1>6. Gives(Insert(w, p, v), w, s, {})
  BY Zenon, <1>2, <1>3, <1>5, InsertGives
<1>7. Moves(n, s, {}, {v}, {})
  BY <1>1, <1>4, <1>6, EndsMoves DEF w
<1>8. IInv'
  <2>1. ASSUME ~CutsOwners, ~plain
        PROVE  Turns(c, s, {}, {v}, {}) /\ {v} \subseteq gone \cup outside
    <3>1. NoneTwice(c) /\ v \notin Has(c)
      BY <1>2, <2>1, OwnersFacts DEF c
    <3> QED BY <1>2, <1>3, <1>5, <2>1, <3>1, InsertTurns
  <2> QED BY <1>7, <2>1, MovesKeep DEF c
<1>9. Promised!AddAt(n, p, v)
  <2>1. [m \in Name |-> ContentsOf(m)][n] = c
    BY DEF c
  <2>2. Promised!Becomes(n, s)
    BY <1>7, MovesBecome
  <2>3. s = Promised!Seqs!InsertAt(c, p, v)
    BY Zenon DEF Seqs!InsertAt, Promised!Seqs!InsertAt
  <2> QED BY Zenon, <1>4, <2>1, <2>2, <2>3 DEF Promised!AddAt
<1>10. p \in 1 .. Len([m \in Name |-> ContentsOf(m)][n]) + 1
  BY <1>5 DEF c
<1> QED BY Zenon, <1>2, <1>8, <1>9, <1>10 DEF Promised!SeqsNext

\* The two ways to remove the last: the element is the caller's, or it is
\* released.
LEMMA DropLastKeeps ==
  ASSUME IInv, NEW n \in Name, Used(n) # {},
         \/ CallPop(n)
         \/ Changes(n, RemoveTail(Working(n)), <<"RemoveTail", n>>)
  PROVE  IInv' /\ Promised!SeqsNext
<1> DEFINE c == ContentsOf(n)
           w == Working(n)
           s == Seqs!Front(c)
           k == arrays[n].size
           last == arrays[n].slot[k]
<1>1. ArrayInv
  BY DEF IInv
<1>2. /\ Sound(w) /\ Contents(w) = c /\ c \in Seq(Value) /\ k \in Nat
      /\ w.size = k /\ Len(c) = k /\ w.slot = arrays[n].slot
      /\ \A q \in 1 .. k : c[q] = arrays[n].slot[q]
  BY <1>1, WorkingFacts, ContentsOfFacts
<1>3. k # 0 /\ c[k] = last /\ c # <<>>
  <2>1. k # 0
    BY <1>2 DEF Used
  <2>2. k \in 1 .. k
    BY <1>2, <2>1
  <2> QED BY <1>2, <2>1, <2>2
<1> HIDE DEF c, w, k
<1>4. /\ Gives(Pop(w), w, s, {})
      /\ Gives(RemoveTail(w), w, s, Owns(last))
  <2>1. Gives(Pop(w), w, s, {})
    BY Zenon, <1>2, <1>3, PopGives
  <2>2. Gives(RemoveTail(w), w, s, Owns(w.slot[w.size]))
    BY Zenon, <1>2, <1>3, RemoveTailGives
  <2> QED BY Zenon, <1>2, <2>1, <2>2
<1>5. Owns(last) \subseteq Thing /\ (~plain => Owns(last) = {c[Len(c)]} \cap Thing)
  BY <1>2, <1>3 DEF Owns
<1>6. ASSUME ~CutsOwners, ~plain
      PROVE  Turns(c, s, Owns(last), {}, {}) /\ Turns(c, s, {}, {}, Owns(last))
  <2>1. NoneTwice(c)
    BY <1>6, OwnersFacts DEF c
  <2>2. Len(c) # 0
    BY <1>2, <1>3
  <2>3. /\ Turns(c, s, {c[Len(c)]} \cap Thing, {}, {})
        /\ Turns(c, s, {}, {}, {c[Len(c)]} \cap Thing)
    BY <1>2, <2>1, <2>2, FrontTurns
  <2> QED BY Zenon, <1>5, <1>6, <2>3
<1>7. Seqs!Last(c) = last
  BY <1>2, <1>3 DEF Seqs!Last
<1>8. /\ [m \in Name |-> ContentsOf(m)][n] = c
      /\ s = Promised!Seqs!Front(c) /\ Promised!Seqs!Last(c) = last
  <2>1. [m \in Name |-> ContentsOf(m)][n] = c
    BY DEF c
  <2>2. s = Promised!Seqs!Front(c) /\ Promised!Seqs!Last(c) = Seqs!Last(c)
    BY Zenon DEF Seqs!Front, Promised!Seqs!Front, Seqs!Last, Promised!Seqs!Last
  <2> QED BY <1>7, <2>1, <2>2
<1>9. CASE CallPop(n)
  <2>1. /\ Ends(n, Pop(w), {}, Owns(last))
        /\ call' = <<"Pop", n>> /\ reply' = <<last>>
    BY <1>9 DEF CallPop, w, k
  <2>2. Moves(n, s, {}, {}, Owns(last))
    BY <1>1, <1>4, <1>5, <2>1, EndsMoves DEF w
  <2>3. IInv'
    BY <1>6, <2>2, MovesKeep DEF c
  <2>4. Promised!Becomes(n, s)
    BY <2>2, MovesBecome
  <2>5. Promised!DropLast(n)
    BY Zenon, <1>3, <1>8, <2>1, <2>4 DEF Promised!DropLast
  <2> QED BY Zenon, <2>3, <2>5 DEF Promised!SeqsNext
<1>10. CASE Changes(n, RemoveTail(Working(n)), <<"RemoveTail", n>>)
  <2>1. /\ Ends(n, RemoveTail(w), {}, {})
        /\ call' = <<"RemoveTail", n>> /\ reply' = <<>>
    BY <1>10 DEF Changes, w
  <2>2. Moves(n, s, Owns(last), {}, {})
    BY <1>1, <1>4, <2>1, EndsMoves DEF w
  <2>3. IInv'
    BY <1>6, <2>2, MovesKeep DEF c
  <2>4. Promised!Becomes(n, s)
    BY <2>2, MovesBecome
  <2>5. Promised!DropLast(n)
    BY Zenon, <1>3, <1>8, <2>1, <2>4 DEF Promised!DropLast
  <2> QED BY Zenon, <2>3, <2>5 DEF Promised!SeqsNext
<1> QED BY <1>9, <1>10

LEMMA SwapKeeps ==
  ASSUME IInv, NEW n \in Name, NEW p \in Used(n), NEW q \in Used(n),
         Changes(n, Swap(Working(n), p, q), <<"Swap", n, p, q>>)
  PROVE  IInv' /\ Promised!SeqsNext
<1> DEFINE c == ContentsOf(n)
           w == Working(n)
           s == Exchanged(c, p, q)
<1>1. ArrayInv
  BY DEF IInv
<1>2. /\ Sound(w) /\ Contents(w) = c /\ c \in Seq(Value)
      /\ p \in 1 .. w.size /\ q \in 1 .. w.size
      /\ p \in 1 .. Len(c) /\ q \in 1 .. Len(c)
      /\ DOMAIN c = 1 .. Len(c)
  BY <1>1, WorkingFacts, ContentsOfFacts DEF Used
<1>3. Ends(n, Swap(w, p, q), {}, {}) /\ call' = <<"Swap", n, p, q>> /\ reply' = <<>>
  BY DEF Changes
<1> HIDE DEF c, w
<1>4. Gives(Swap(w, p, q), w, s, {})
  BY Zenon, <1>2, SwapGives
<1>5. Moves(n, s, {}, {}, {})
  BY <1>1, <1>3, <1>4, EndsMoves DEF w
<1>6. IInv'
  <2>1. ASSUME ~CutsOwners, ~plain PROVE Turns(c, s, {}, {}, {})
    <3>1. NoneTwice(c)
      BY <2>1, OwnersFacts DEF c
    <3> QED BY Zenon, <1>2, <3>1, ExchangedTurns
  <2> QED BY <1>5, <2>1, MovesKeep DEF c
<1>7. [m \in Name |-> ContentsOf(m)][n] = c
  BY DEF c
<1>8. Promised!Exchange(n, p, q)
  <2>1. Promised!Becomes(n, s)
    BY <1>5, MovesBecome
  <2>2. s = Promised!Swapped(c, p, q)
    BY Zenon DEF Exchanged, Promised!Swapped
  <2> QED BY Zenon, <1>3, <1>7, <2>1, <2>2 DEF Promised!Exchange
<1>9. p \in DOMAIN [m \in Name |-> ContentsOf(m)][n] /\ q \in DOMAIN [m \in Name |-> ContentsOf(m)][n]
  BY Zenon, <1>2, <1>7
<1> QED BY Zenon, <1>6, <1>8, <1>9 DEF Promised!SeqsNext

\* One operation after another that releases nothing.
LEMMA GivesOn ==
  ASSUME NEW w, NEW x, NEW y, NEW s, NEW t, NEW released,
         Gives(x, w, s, {}), Gives(y, x, t, released)
  PROVE  Gives(y, w, t, released)
<1>1. x.gone = w.gone
  BY DEF Gives
<1> QED BY Zenon, <1>1 DEF Gives

\* The two ways to remove an element by exchanging it with the last.
LEMMA DropSwappedKeeps ==
  ASSUME IInv, NEW n \in Name, NEW p \in Used(n), CallSwapTake(n, p) \/ CallSwapRemove(n, p)
  PROVE  IInv' /\ Promised!SeqsNext
<1> DEFINE c == ContentsOf(n)
           w == Working(n)
           k == arrays[n].size
           val == arrays[n].slot[p]
           x == Swap(w, p, k)
           t == Exchanged(c, p, k)
           s == Seqs!Front(t)
<1>1. ArrayInv
  BY DEF IInv
<1>2. /\ Sound(w) /\ Contents(w) = c /\ c \in Seq(Value) /\ k \in Nat
      /\ w.size = k /\ Len(c) = k /\ DOMAIN c = 1 .. k
      /\ p \in 1 .. k /\ c[p] = val
  BY <1>1, WorkingFacts, ContentsOfFacts DEF Used
<1>3. k # 0 /\ k \in 1 .. k
  BY <1>2
<1> HIDE DEF c, w, k, val
<1>4. Gives(x, w, t, {})
  BY Zenon, <1>2, <1>3, SwapGives
<1>5. Exchanges(t, Value, c, p, k)
  BY Zenon, <1>2, <1>3, SwappedFacts
<1> HIDE DEF t, x
<1>6. t \in Seq(Value) /\ Len(t) = k /\ t[k] = val
  BY <1>2, <1>3, <1>5 DEF Exchanges
<1>7. Sound(x) /\ Contents(x) = t
  BY <1>4 DEF Gives
<1>8. x.size = k /\ x.slot[k] = val
  <2>1. Len(Contents(x)) = x.size /\ \A q \in 1 .. x.size : Contents(x)[q] = x.slot[q]
    BY <1>7, ContentsFacts
  <2> QED BY <1>3, <1>6, <1>7, <2>1
<1>9. /\ Gives(Pop(x), w, s, {})
      /\ Gives(RemoveTail(x), w, s, Owns(val))
  <2>1. Gives(Pop(x), x, s, {})
    BY Zenon, <1>3, <1>7, <1>8, PopGives
  <2>2. Gives(RemoveTail(x), x, s, Owns(x.slot[x.size]))
    BY Zenon, <1>3, <1>7, <1>8, RemoveTailGives
  <2>3. Gives(RemoveTail(x), x, s, Owns(val))
    BY Zenon, <1>8, <2>2
  <2>4. Gives(Pop(x), w, s, {})
    BY Zenon, <1>4, <2>1, GivesOn
  <2>5. Gives(RemoveTail(x), w, s, Owns(val))
    BY Zenon, <1>4, <2>3, GivesOn
  <2> QED BY <2>4, <2>5
<1>10. Owns(val) \subseteq Thing /\ (~plain => Owns(val) = {t[Len(t)]} \cap Thing)
  BY <1>6 DEF Owns
<1>11. ASSUME ~CutsOwners, ~plain
       PROVE  Turns(c, s, Owns(val), {}, {}) /\ Turns(c, s, {}, {}, Owns(val))
  <2>1. NoneTwice(c)
    BY <1>11, OwnersFacts DEF c
  <2>2. Turns(c, t, {}, {}, {})
    BY Zenon, <1>2, <1>3, <2>1, ExchangedTurns DEF t
  <2>3. NoneTwice(t) /\ Len(t) # 0
    BY <1>3, <1>6, <2>2 DEF Turns
  <2>4. /\ Turns(t, s, {t[Len(t)]} \cap Thing, {}, {})
        /\ Turns(t, s, {}, {}, {t[Len(t)]} \cap Thing)
    BY <1>6, <2>3, FrontTurns
  <2>5. Turns(t, s, Owns(val), {}, {}) /\ Turns(t, s, {}, {}, Owns(val))
    BY Zenon, <1>10, <1>11, <2>4
  <2> QED BY Zenon, <2>2, <2>5, TurnsOn
<1>12. /\ [m \in Name |-> ContentsOf(m)][n] = c
       /\ s = Promised!Seqs!Front(Promised!Swapped(c, p, Len(c)))
  <2>1. [m \in Name |-> ContentsOf(m)][n] = c
    BY DEF c
  <2>2. Exchanged(c, p, k) = Promised!Swapped(c, p, k)
    BY Zenon DEF Exchanged, Promised!Swapped
  <2>3. s = Promised!Seqs!Front(t)
    BY Zenon DEF Seqs!Front, Promised!Seqs!Front
  <2> QED BY Zenon, <1>2, <2>1, <2>2, <2>3 DEF t
<1>13. p \in DOMAIN [m \in Name |-> ContentsOf(m)][n]
  BY <1>2, <1>12
<1> HIDE DEF s
<1>14. CASE CallSwapTake(n, p)
  <2>1. /\ Ends(n, Pop(x), {}, Owns(val))
        /\ call' = <<"SwapTake", n, p>> /\ reply' = <<val>>
    BY Zenon, <1>14 DEF CallSwapTake, w, k, val, x
  <2>2. Moves(n, s, {}, {}, Owns(val))
    BY <1>1, <1>9, <1>10, <2>1, EndsMoves DEF w
  <2>3. IInv'
    BY <1>11, <2>2, MovesKeep DEF c
  <2>4. Promised!Becomes(n, s)
    BY <2>2, MovesBecome
  <2>5. Promised!DropSwapped(n, p)
    BY Zenon, <1>2, <1>12, <2>1, <2>4 DEF Promised!DropSwapped
  <2> QED BY Zenon, <1>13, <2>3, <2>5 DEF Promised!SeqsNext
<1>15. CASE CallSwapRemove(n, p)
  <2>1. /\ Ends(n, RemoveTail(x), {}, {})
        /\ call' = <<"SwapRemove", n, p>> /\ reply' = <<>>
    BY Zenon, <1>15 DEF CallSwapRemove, Changes, w, k, x
  <2>2. Moves(n, s, Owns(val), {}, {})
    BY <1>1, <1>9, <2>1, EndsMoves DEF w
  <2>3. IInv'
    BY <1>11, <2>2, MovesKeep DEF c
  <2>4. Promised!Becomes(n, s)
    BY <2>2, MovesBecome
  <2>5. Promised!DropSwapped(n, p)
    BY Zenon, <1>12, <2>1, <2>4 DEF Promised!DropSwapped
  <2> QED BY Zenon, <1>13, <2>3, <2>5 DEF Promised!SeqsNext
<1> QED BY <1>14, <1>15

\* The two ways to remove an element in order, of plain values.
LEMMA DropAtKeeps ==
  ASSUME IInv, NEW n \in Name, NEW p \in Used(n), CallTake(n, p) \/ CallRemove(n, p)
  PROVE  IInv' /\ Promised!SeqsNext
<1> DEFINE c == ContentsOf(n)
           w == Working(n)
           val == arrays[n].slot[p]
           s == Seqs!RemoveAt(c, p)
<1>1. ArrayInv
  BY DEF IInv
<1>2. /\ Sound(w) /\ Contents(w) = c
      /\ p \in 1 .. w.size /\ p \in DOMAIN c /\ c[p] = val
  BY <1>1, WorkingFacts, ContentsOfFacts DEF Used
<1>3. /\ plain /\ Ends(n, Remove(w, p), {}, {})
      /\ \/ call' = <<"Take", n, p>> /\ reply' = <<val>>
         \/ call' = <<"Remove", n, p>> /\ reply' = <<>>
  BY DEF CallTake, CallRemove, Changes
<1> HIDE DEF c, w, val
<1>4. Gives(Remove(w, p), w, s, {})
  BY Zenon, <1>2, RemoveGives
<1>5. Moves(n, s, {}, {}, {})
  BY <1>1, <1>3, <1>4, EndsMoves DEF w
<1>6. IInv'
  BY <1>3, <1>5, MovesKeep
<1>7. [m \in Name |-> ContentsOf(m)][n] = c
  BY DEF c
<1>8. Promised!DropAt(n, p)
  <2>1. Promised!Becomes(n, s)
    BY <1>5, MovesBecome
  <2>2. s = Promised!Seqs!RemoveAt(c, p)
    BY Zenon DEF Seqs!RemoveAt, Promised!Seqs!RemoveAt
  <2> QED BY Zenon, <1>2, <1>3, <1>7, <2>1, <2>2 DEF Promised!DropAt
<1>9. p \in DOMAIN [m \in Name |-> ContentsOf(m)][n]
  BY Zenon, <1>2, <1>7
<1> QED BY Zenon, <1>6, <1>8, <1>9 DEF Promised!SeqsNext

LEMMA ResizeKeeps ==
  ASSUME IInv, NEW n \in Name, NEW size \in Capacities,
         Changes(n, SetSize(Working(n), size), <<"set_size", n, size>>)
  PROVE  IInv' /\ Promised!SeqsNext
<1> DEFINE c == ContentsOf(n)
           w == Working(n)
           s == Resized(c, size)
           cut == Released(w.slot, size + 1 .. w.size)
<1>1. ArrayInv
  BY DEF IInv
<1>2. /\ Sound(w) /\ Contents(w) = c /\ c \in Seq(Value) /\ Len(c) = w.size /\ w.size \in Nat
  BY <1>1, WorkingFacts, ContentsOfFacts
<1>3. size \in Nat /\ size \in 0 .. MaxCapacity
  BY ArrayAssumption DEF Capacities
<1>4. Ends(n, SetSize(w, size), {}, {}) /\ call' = <<"set_size", n, size>> /\ reply' = <<>>
  BY DEF Changes
<1> HIDE DEF c, w
<1>5. Gives(SetSize(w, size), w, s, cut)
  BY Zenon, <1>2, <1>3, SetSizeGives
<1>6. Moves(n, s, cut, {}, {})
  <2> HIDE DEF s, cut
  <2> QED BY <1>1, <1>4, <1>5, EndsMoves DEF w
<1>7. IInv'
  <2>1. ASSUME ~CutsOwners, ~plain PROVE Turns(c, s, cut, {}, {})
    <3>1. NoneTwice(c)
      BY <2>1, OwnersFacts DEF c
    <3>2. Turns(c, s, {c[q] : q \in size + 1 .. Len(c)} \cap Thing, {}, {})
      BY Zenon, <1>2, <1>3, <3>1, ResizedTurns
    <3>3. size + 1 .. w.size \subseteq 1 .. w.size
      BY <1>2, <1>3
    <3>4. cut = {c[q] : q \in size + 1 .. w.size} \cap Thing
      <4>1. PICK places : places = size + 1 .. w.size
        OBVIOUS
      <4>2. Released(w.slot, places) = {Contents(w)[q] : q \in places} \cap Thing
        BY Zenon, <1>2, <2>1, <3>3, <4>1, ReleasedFacts
      <4> QED BY Zenon, <1>2, <4>1, <4>2
    <3> QED BY Zenon, <1>2, <3>2, <3>4
  <2> HIDE DEF s, cut
  <2> QED BY <1>6, <2>1, MovesKeep DEF c
<1>8. Promised!Resize(n, size)
  <2>1. [m \in Name |-> ContentsOf(m)][n] = c
    BY DEF c
  <2>2. Promised!Becomes(n, s)
    BY <1>6, MovesBecome
  <2>3. s = Promised!Padded(c, size)
    BY Zenon DEF Resized, Promised!Padded
  <2> QED BY Zenon, <1>4, <2>1, <2>2, <2>3 DEF Promised!Resize
<1> QED BY Zenon, <1>3, <1>7, <1>8 DEF Promised!SeqsNext

\* The calls about the capacity; owners are not cut unless CutsOwners says so.
LEMMA RoomKeeps ==
  ASSUME IInv, NEW n \in Name, NEW capacity \in Capacities,
         \/ Changes(n, Reserve(Working(n), capacity), <<"Reserve", n, capacity>>)
         \/ CallSetCapacity(n, capacity)
  PROVE  IInv' /\ Promised!SeqsNext
<1> DEFINE c == ContentsOf(n)
           w == Working(n)
           s == SubSeq(c, 1, IF capacity < Len(c) THEN capacity ELSE Len(c))
<1>1. ArrayInv
  BY DEF IInv
<1>2. /\ Sound(w) /\ Contents(w) = c /\ c \in Seq(Value) /\ Len(c) = w.size /\ w.size \in Nat
      /\ w.size = arrays[n].size
  BY <1>1, WorkingFacts, ContentsOfFacts
<1>3. capacity \in Nat /\ capacity \in 0 .. MaxCapacity
  BY ArrayAssumption DEF Capacities
<1>4. [m \in Name |-> ContentsOf(m)][n] = c
  BY DEF c
<1>5. ~CutsOwners /\ ~plain => Turns(c, c, {}, {}, {})
  BY OwnersFacts, SameTurns
<1> HIDE DEF c, w
<1>6. CASE Changes(n, Reserve(Working(n), capacity), <<"Reserve", n, capacity>>)
  <2>1. /\ Ends(n, Reserve(w, capacity), {}, {})
        /\ call' = <<"Reserve", n, capacity>> /\ reply' = <<>>
    BY <1>6 DEF Changes, w
  <2>2. Gives(Reserve(w, capacity), w, c, {})
    <3>1. Same(Reserve(w, capacity), w)
      BY <1>2, <1>3, ReserveFacts
    <3> QED BY Zenon, <1>2, <3>1, SameGives
  <2>3. Moves(n, c, {}, {}, {})
    BY <1>1, <2>1, <2>2, EndsMoves DEF w
  <2>4. IInv'
    BY <1>5, <2>3, MovesKeep DEF c
  <2>5. [m \in Name |-> ContentsOf(m)]' = [m \in Name |-> ContentsOf(m)]
    <3>1. Everything' = [Everything EXCEPT ![n] = c]
      BY <2>3 DEF Moves
    <3>2. [Everything EXCEPT ![n] = c] = Everything
      BY DEF Everything, c
    <3> QED BY <3>1, <3>2 DEF Everything
  <2>6. Promised!Room(n, capacity)
    BY Zenon, <2>1, <2>5 DEF Promised!Room
  <2> QED BY Zenon, <1>3, <2>4, <2>6 DEF Promised!SeqsNext
<1>7. CASE CallSetCapacity(n, capacity)
  <2>1. /\ Ends(n, SetCapacity(w, capacity), {}, {})
        /\ call' = <<"set_capacity", n, capacity>> /\ reply' = <<>>
        /\ plain \/ CutsOwners \/ capacity >= w.size
    BY <1>2, <1>7 DEF CallSetCapacity, Changes, w
  <2>2. Gives(SetCapacity(w, capacity), w, s, {})
    <3>1. Gives(SetCapacity(w, capacity), w,
                SubSeq(Contents(w), 1, IF capacity < w.size THEN capacity ELSE w.size), {})
      BY <1>2, <1>3, SetCapacityGives
    <3> QED BY Zenon, <1>2, <3>1
  <2>3. ~CutsOwners /\ ~plain => s = c
    BY <1>2, <1>3, <2>1
  <2> HIDE DEF s
  <2>4. Moves(n, s, {}, {}, {})
    BY <1>1, <2>1, <2>2, EndsMoves DEF w
  <2>5. IInv'
    <3>1. ~CutsOwners /\ ~plain => Turns(c, s, {}, {}, {})
      BY Zenon, <1>5, <2>3
    <3> QED BY <2>4, <3>1, MovesKeep DEF c
  <2>6. Promised!Room(n, capacity)
    <3>1. Promised!Becomes(n, s)
      BY <2>4, MovesBecome
    <3> QED BY Zenon, <1>4, <2>1, <3>1 DEF Promised!Room, s
  <2> QED BY Zenon, <1>3, <2>5, <2>6 DEF Promised!SeqsNext
<1> QED BY <1>6, <1>7

LEMMA ShrinkKeeps ==
  ASSUME IInv, NEW n \in Name,
         Changes(n, SetCapacity(Working(n), arrays[n].size), <<"ShrinkToFit", n>>)
  PROVE  IInv' /\ Promised!SeqsNext
<1> DEFINE c == ContentsOf(n)
           w == Working(n)
<1>1. ArrayInv
  BY DEF IInv
<1>2. /\ Sound(w) /\ Contents(w) = c /\ c \in Seq(Value) /\ Len(c) = w.size /\ w.size \in Nat
      /\ w.size = arrays[n].size
  BY <1>1, WorkingFacts, ContentsOfFacts
<1>3. ~CutsOwners /\ ~plain => Turns(c, c, {}, {}, {})
  BY OwnersFacts, SameTurns
<1>4. arrays[n].size \in 0 .. MaxCapacity
  BY <1>1, <1>2, ArrayAssumption, SizeFacts, WorkingFacts DEF ArrayInv
<1> HIDE DEF c, w
<1>5. /\ Ends(n, SetCapacity(w, w.size), {}, {})
      /\ call' = <<"ShrinkToFit", n>> /\ reply' = <<>>
  BY <1>2 DEF Changes, w
<1>6. Gives(SetCapacity(w, w.size), w, c, {})
  <2>1. Gives(SetCapacity(w, w.size), w,
              SubSeq(Contents(w), 1, IF w.size < w.size THEN w.size ELSE w.size), {})
    BY <1>2, SetCapacityGives
  <2>2. SubSeq(c, 1, IF w.size < w.size THEN w.size ELSE w.size) = c
    BY <1>2
  <2> QED BY Zenon, <1>2, <2>1, <2>2
<1>7. Moves(n, c, {}, {}, {})
  BY <1>1, <1>5, <1>6, EndsMoves DEF w
<1>8. IInv'
  BY <1>3, <1>7, MovesKeep DEF c
<1>9. [m \in Name |-> ContentsOf(m)]' = [m \in Name |-> ContentsOf(m)]
  <2>1. Everything' = [Everything EXCEPT ![n] = c]
    BY <1>7 DEF Moves
  <2>2. [Everything EXCEPT ![n] = c] = Everything
    BY DEF Everything, c
  <2> QED BY <2>1, <2>2 DEF Everything
<1>10. Promised!Room(n, arrays[n].size)
  BY Zenon, <1>5, <1>9 DEF Promised!Room
<1> QED BY Zenon, <1>4, <1>8, <1>10 DEF Promised!SeqsNext

LEMMA ClearKeeps ==
  ASSUME IInv, NEW n \in Name, Changes(n, Clear(Working(n)), <<"Clear", n>>)
  PROVE  IInv' /\ Promised!SeqsNext
<1> DEFINE c == ContentsOf(n)
           w == Working(n)
           all == Released(w.slot, 1 .. w.size)
<1>1. ArrayInv
  BY DEF IInv
<1>2. /\ Sound(w) /\ Contents(w) = c /\ c \in Seq(Value) /\ Len(c) = w.size
  BY <1>1, WorkingFacts, ContentsOfFacts
<1>3. Ends(n, Clear(w), {}, {}) /\ call' = <<"Clear", n>> /\ reply' = <<>>
  BY DEF Changes
<1> HIDE DEF c, w
<1>4. Gives(Clear(w), w, <<>>, all)
  BY Zenon, <1>2, ClearGives
<1> HIDE DEF all
<1>5. Moves(n, <<>>, all, {}, {})
  BY <1>1, <1>3, <1>4, EndsMoves DEF w
<1>6. IInv'
  <2>1. ASSUME ~CutsOwners, ~plain PROVE Turns(c, <<>>, all, {}, {})
    <3>1. Turns(c, <<>>, Has(c), {}, {})
      BY <1>2, ClearTurns
    <3>2. PICK places : places = 1 .. w.size
      OBVIOUS
    <3>3. Released(w.slot, places) = {Contents(w)[q] : q \in places} \cap Thing
      BY Zenon, <1>2, <2>1, <3>2, ReleasedFacts
    <3>4. all = Has(c)
      BY Zenon, <1>2, <3>2, <3>3 DEF Has, all
    <3> QED BY Zenon, <3>1, <3>4
  <2> QED BY <1>5, <2>1, MovesKeep DEF c
<1>7. Promised!Forget(n)
  <2>1. Promised!Becomes(n, <<>>)
    BY <1>5, MovesBecome
  <2> QED BY Zenon, <1>3, <2>1 DEF Promised!Forget
<1> QED BY Zenon, <1>6, <1>7 DEF Promised!SeqsNext

\* One array is cleared, and takes over what another has.
LEMMA OnceMoved ==
  ASSUME NEW c, DOMAIN c = Name, NEW released, NEW with, Once(c, released, with),
         NEW n \in Name, NEW m \in Name, n # m
  PROVE  Once([c EXCEPT ![n] = c[m], ![m] = <<>>], released \cup Has(c[n]), with)
<1> DEFINE d == [c EXCEPT ![n] = c[m], ![m] = <<>>]
<1>1. /\ \A k \in Name : NoneTwice(c[k]) /\ Has(c[k]) \cap (released \cup with) = {}
      /\ \A j, k \in Name : j # k => Has(c[j]) \cap Has(c[k]) = {}
      /\ released \cap with = {}
      /\ \A t \in Thing : t \in released \cup with \/ \E k \in Name : t \in Has(c[k])
  BY DEF Once
<1>2. d[n] = c[m] /\ d[m] = <<>> /\ \A k \in Name : k # n /\ k # m => d[k] = c[k]
  OBVIOUS
<1> HIDE DEF d
<1>3. NoneTwice(<<>>) /\ Has(<<>>) = {}
  BY DEF NoneTwice, Has
<1>4. PICK from \in [Name -> Name] : from = [k \in Name |-> IF k = n THEN m ELSE k]
  OBVIOUS
<1>5. \A k \in Name : k = m \/ (k # m /\ from[k] # n /\ from[k] \in Name /\ d[k] = c[from[k]])
  BY <1>2, <1>4
<1>6. \A j, k \in Name : j # m /\ k # m /\ j # k => from[j] # from[k]
  BY <1>4
<1>7. ASSUME NEW k \in Name
      PROVE  NoneTwice(d[k]) /\ Has(d[k]) \cap ((released \cup Has(c[n])) \cup with) = {}
  BY <1>1, <1>2, <1>3, <1>5
<1>8. ASSUME NEW j \in Name, NEW k \in Name, j # k PROVE Has(d[j]) \cap Has(d[k]) = {}
  BY <1>1, <1>2, <1>3, <1>5, <1>6, <1>8
<1>9. (released \cup Has(c[n])) \cap with = {}
  BY <1>1
<1>10. ASSUME NEW t \in Thing
       PROVE  t \in (released \cup Has(c[n])) \cup with \/ \E k \in Name : t \in Has(d[k])
  <2>1. CASE t \in released \cup with
    BY <2>1
  <2>2. CASE \E k \in Name : t \in Has(c[k])
    <3>1. PICK k \in Name : t \in Has(c[k])
      BY <2>2
    <3> QED BY <1>2, <3>1
  <2> QED BY <1>1, <2>1, <2>2
<1> QED BY <1>7, <1>8, <1>9, <1>10 DEF Once, d

LEMMA MoveKeeps ==
  ASSUME IInv, NEW n \in Name, NEW m \in Name \ {n}, CallMove(n, m)
  PROVE  IInv' /\ Promised!SeqsNext
<1> DEFINE c == ContentsOf(n)
           w == Working(n)
           x == Clear(w)
           all == Released(w.slot, 1 .. w.size)
<1>1. ArrayInv
  BY DEF IInv
<1>2. /\ Sound(w) /\ Contents(w) = c /\ c \in Seq(Value) /\ Len(c) = w.size /\ w.gone = gone
  BY <1>1, WorkingFacts, ContentsOfFacts
<1>3. /\ arrays' = [arrays EXCEPT ![n] = arrays[m], ![m] = Unallocated]
      /\ gone' = x.gone /\ misused' = x.bad /\ outside' = outside /\ plain' = plain
      /\ call' = <<"move", n, m>> /\ reply' = <<>>
  BY DEF CallMove
<1>4. Gives(x, w, <<>>, all)
  BY Zenon, <1>2, ClearGives
<1> HIDE DEF c, w, x, all
<1>5. Sound(x) /\ x.gone = gone \cup all
  BY <1>2, <1>4 DEF Gives
<1>6. x.gone \in SUBSET Thing /\ x.bad = {}
  BY <1>5, WorkFacts
<1>7. /\ arrays \in [Name -> [slot : Seq(Slot), size : Nat]]
      /\ outside \subseteq Thing /\ plain \in BOOLEAN
  BY <1>1 DEF ArrayInv
<1>8. /\ arrays'[n] = arrays[m] /\ arrays'[m] = [slot |-> <<>>, size |-> 0]
      /\ \A k \in Name : k # n /\ k # m => arrays'[k] = arrays[k]
  BY <1>3, <1>7 DEF Unallocated
<1>9. ArrayInv'
  <2>1. arrays' \in [Name -> [slot : Seq(Slot), size : Nat]]
    BY SMTT(30), <1>3, <1>7 DEF Unallocated
  <2>2. ASSUME NEW k \in Name
        PROVE  /\ arrays[k].slot \in Seq(Slot) /\ arrays[k].size \in Nat
               /\ arrays[k].size <= Len(arrays[k].slot)
               /\ \A q \in 1 .. arrays[k].size : arrays[k].slot[q] \in Value
               /\ Len(arrays[k].slot) <= MaxCapacity
    <3>1. Sound(Working(k)) /\ Working(k).slot = arrays[k].slot /\ Working(k).size = arrays[k].size
      BY <1>1, WorkingFacts
    <3>2. Len(arrays[k].slot) <= MaxCapacity
      BY <1>1 DEF ArrayInv
    <3> QED BY <1>7, <3>1, <3>2, SizeFacts, SlotFacts
  <2>3. ASSUME NEW k \in Name
        PROVE  /\ arrays'[k].slot \in Seq(Slot) /\ arrays'[k].size \in Nat
               /\ arrays'[k].size <= Len(arrays'[k].slot)
               /\ \A q \in 1 .. arrays'[k].size : arrays'[k].slot[q] \in Value
               /\ Len(arrays'[k].slot) <= MaxCapacity
    <3>1. CASE k = m
      <4>1. arrays'[k].slot = <<>> /\ arrays'[k].size = 0
        BY <1>8, <3>1
      <4>2. <<>> \in Seq(Slot) /\ Len(<<>>) = 0 /\ MaxCapacity \in Nat /\ 1 .. 0 = {}
        BY ArrayAssumption
      <4> QED BY <4>1, <4>2
    <3>2. CASE k # m
      <4>1. PICK j \in Name : arrays'[k] = arrays[j]
        BY <1>8, <3>2
      <4> QED BY <2>2, <4>1
    <3> QED BY <3>1, <3>2
  <2> QED BY <1>3, <1>6, <1>7, <2>1, <2>3, NextArrays
<1>10. Everything' = [Everything EXCEPT ![n] = ContentsOf(m), ![m] = <<>>]
  <2>1. ContentsOf(n)' = ContentsOf(m) /\ \A k \in Name : k # n /\ k # m => ContentsOf(k)' = ContentsOf(k)
    BY <1>8 DEF ContentsOf
  <2>2. ContentsOf(m)' = <<>>
    BY <1>8 DEF ContentsOf
  <2>3. n # m /\ \A k \in Name : ContentsOf(k)' = IF k = m THEN <<>> ELSE IF k = n THEN ContentsOf(m)
                                                                ELSE ContentsOf(k)
    BY <2>1, <2>2
  <2> QED BY <2>3 DEF Everything
<1>11. Everything[n] = c /\ Everything[m] = ContentsOf(m)
  BY DEF Everything, c
<1>12. OwnersInv'
  <2>1. ASSUME ~CutsOwners, ~plain PROVE Once(Everything', gone', outside')
    <3>1. Once(Everything, gone, outside) /\ DOMAIN Everything = Name /\ n # m
      BY <2>1 DEF IInv, OwnersInv, Everything
    <3>2. Once([Everything EXCEPT ![n] = Everything[m], ![m] = <<>>],
               gone \cup Has(Everything[n]), outside)
      BY Zenon, <3>1, OnceMoved
    <3>3. PICK places : places = 1 .. w.size
      OBVIOUS
    <3>4. Released(w.slot, places) = {Contents(w)[q] : q \in places} \cap Thing
      BY Zenon, <1>2, <2>1, <3>3, ReleasedFacts
    <3>5. all = Has(c)
      BY Zenon, <1>2, <3>3, <3>4 DEF Has, all
    <3> QED BY Zenon, <1>3, <1>5, <1>10, <1>11, <3>2, <3>5
  <2> QED BY <1>3, <2>1 DEF OwnersInv
<1>13. Promised!MoveFrom(n, m)
  BY Zenon, <1>3, <1>10, <1>11 DEF Promised!MoveFrom, Everything
<1> QED BY Zenon, <1>9, <1>12, <1>13 DEF IInv, Promised!SeqsNext

LEMMA CopyKeeps ==
  ASSUME IInv, NEW n \in Name, NEW m \in Name \ {n}, CallCopy(n, m)
  PROVE  IInv' /\ Promised!SeqsNext
<1> DEFINE w == Working(n)
           cleared == Clear(w)
           x == Reserve(cleared, arrays[m].size)
           src == ContentsOf(m)
           y == Seqs!FoldLeft(Emplace, x, src)
           all == Released(w.slot, 1 .. w.size)
<1>1. ArrayInv
  BY DEF IInv
<1>2. Sound(w) /\ src \in Seq(Value) /\ arrays[m].size \in Nat
  BY <1>1, WorkingFacts, ContentsOfFacts
<1>3. plain /\ Ends(n, y, {}, {}) /\ call' = <<"copy", n, m>> /\ reply' = <<>>
  BY Zenon DEF CallCopy, Changes, ContentsOf
<1> HIDE DEF w, src
<1>4. Gives(cleared, w, <<>>, all)
  BY Zenon, <1>2, ClearGives
<1> HIDE DEF cleared, all
<1>5. Sound(cleared) /\ Contents(cleared) = <<>> /\ cleared.gone = w.gone \cup all
  BY <1>4 DEF Gives
<1>6. Same(x, cleared)
  BY <1>2, <1>5, ReserveFacts
<1> HIDE DEF x
<1>7. Gives(x, cleared, <<>>, {})
  BY <1>5, <1>6, SameGives
<1>8. Sound(x) /\ Contents(x) = <<>> /\ x.gone = cleared.gone
  BY <1>7 DEF Gives
<1>9. x.size = 0
  BY <1>8, ContentsFacts
<1>10. Gives(y, x, src, {})
  BY Zenon, <1>2, <1>8, <1>9, CopyGives
<1> HIDE DEF y
<1>11. Gives(y, w, src, all)
  <2>1. Sound(y) /\ Contents(y) = src /\ y.gone = x.gone
    BY <1>10 DEF Gives
  <2> QED BY <1>5, <1>8, <2>1 DEF Gives
<1>12. Moves(n, src, all, {}, {})
  BY <1>1, <1>3, <1>11, EndsMoves DEF w
<1>13. IInv'
  BY <1>3, <1>12, MovesKeep
<1>14. Promised!CopyFrom(n, m)
  <2>1. Promised!Becomes(n, src)
    BY <1>12, MovesBecome
  <2>2. [k \in Name |-> ContentsOf(k)][m] = src
    BY DEF src
  <2> QED BY Zenon, <1>3, <2>1, <2>2 DEF Promised!CopyFrom
<1> QED BY Zenon, <1>13, <1>14 DEF Promised!SeqsNext

\* Nothing changes.
LEMMA SameKeeps ==
  ASSUME IInv, UNCHANGED <<arrays, gone, outside, misused, plain>>
  PROVE  /\ IInv'
         /\ [k \in Name |-> ContentsOf(k)]' = [k \in Name |-> ContentsOf(k)]
<1>1. \A k \in Name : ContentsOf(k)' = ContentsOf(k) /\ Working(k)' = Working(k)
  BY DEF ContentsOf, Working
<1>2. Everything' = Everything
  BY <1>1 DEF Everything
<1>3. ArrayInv'
  BY <1>1 DEF IInv, ArrayInv
<1>4. OwnersInv'
  BY <1>2 DEF IInv, OwnersInv
<1> QED BY Zenon, <1>2, <1>3, <1>4 DEF IInv, Everything

LEMMA EqualKeeps ==
  ASSUME IInv, NEW n \in Name, NEW m \in Name \ {n}, CallEqual(n, m)
  PROVE  IInv' /\ Promised!SeqsNext
<1> DEFINE c == ContentsOf(n)
           d == ContentsOf(m)
           equal == arrays[n].size = arrays[m].size
                    /\ \A p \in 1 .. arrays[n].size : arrays[n].slot[p] = arrays[m].slot[p]
<1>1. ArrayInv
  BY DEF IInv
<1>2. /\ c \in Seq(Value) /\ Len(c) = arrays[n].size
      /\ \A q \in 1 .. arrays[n].size : c[q] = arrays[n].slot[q]
  BY <1>1, ContentsOfFacts
<1>3. /\ d \in Seq(Value) /\ Len(d) = arrays[m].size
      /\ \A q \in 1 .. arrays[m].size : d[q] = arrays[m].slot[q]
  BY <1>1, ContentsOfFacts
<1>4. /\ UNCHANGED <<arrays, gone, outside, misused, plain>>
      /\ call' = <<"==", n, m>> /\ reply' = <<equal>>
  BY DEF CallEqual
<1>5. [k \in Name |-> ContentsOf(k)][n] = c /\ [k \in Name |-> ContentsOf(k)][m] = d
  OBVIOUS
<1> HIDE DEF c, d
<1>6. equal = (c = d)
  <2>1. equal <=> Len(c) = Len(d) /\ \A q \in 1 .. Len(c) : c[q] = d[q]
    BY <1>2, <1>3
  <2>2. Len(c) = Len(d) /\ (\A q \in 1 .. Len(c) : c[q] = d[q]) <=> c = d
    BY <1>2, <1>3
  <2> QED BY <2>1, <2>2
<1> HIDE DEF equal
<1>7. IInv' /\ [k \in Name |-> ContentsOf(k)]' = [k \in Name |-> ContentsOf(k)]
  BY Zenon, <1>4, SameKeeps
<1>8. Promised!Compare(n, m)
  BY Zenon, <1>4, <1>5, <1>6, <1>7 DEF Promised!Compare
<1> QED BY Zenon, <1>7, <1>8 DEF Promised!SeqsNext

LEMMA GetKeeps ==
  ASSUME IInv, NEW n \in Name, NEW p \in 1 .. MaxCapacity, CallTryGet(n, p)
  PROVE  IInv' /\ Promised!SeqsNext
<1> DEFINE c == ContentsOf(n)
<1>1. ArrayInv
  BY DEF IInv
<1>2. DOMAIN c = 1 .. arrays[n].size /\ \A q \in 1 .. arrays[n].size : c[q] = arrays[n].slot[q]
  BY <1>1, ContentsOfFacts
<1>3. /\ UNCHANGED <<arrays, gone, outside, misused, plain>>
      /\ call' = <<"TryGet", n, p>>
      /\ reply' = IF p \in 1 .. arrays[n].size THEN <<arrays[n].slot[p]>> ELSE <<>>
  BY DEF CallTryGet
<1>4. [k \in Name |-> ContentsOf(k)][n] = c
  OBVIOUS
<1>5. p \in 0 .. MaxCapacity
  BY ArrayAssumption
<1> HIDE DEF c
<1>6. reply' = IF p \in DOMAIN c THEN <<c[p]>> ELSE <<>>
  BY <1>2, <1>3
<1>7. IInv' /\ [k \in Name |-> ContentsOf(k)]' = [k \in Name |-> ContentsOf(k)]
  BY Zenon, <1>3, SameKeeps
<1>8. Promised!Get(n, p)
  BY Zenon, <1>3, <1>4, <1>6, <1>7 DEF Promised!Get
<1> QED BY Zenon, <1>5, <1>7, <1>8 DEF Promised!SeqsNext

-----------------------------------------------------------------------------
(* The theorems *)

\* All arrays are empty, and the caller has everything.
LEMMA InitHolds ==
  ASSUME Init
  PROVE  IInv /\ Promised!SeqsInit
<1>1. /\ arrays = [n \in Name |-> [slot |-> <<>>, size |-> 0]]
      /\ gone = {} /\ outside = Thing /\ misused = {} /\ plain \in BOOLEAN
      /\ call = <<>> /\ reply = <<>>
  BY DEF Init, Unallocated
<1>2. <<>> \in Seq(Slot) /\ Len(<<>>) = 0 /\ MaxCapacity \in Nat /\ 1 .. 0 = {}
  BY ArrayAssumption
<1>3. \A n \in Name : Sound(Working(n)) /\ Len(arrays[n].slot) <= MaxCapacity
  <2>1. \A n \in Name : Working(n) = Obj(<<>>, 0, {})
    BY <1>1 DEF Working, Obj
  <2>2. Sound(Obj(<<>>, 0, {}))
    <3>1. PICK slot \in Seq(Slot) : slot = <<>>
      BY <1>2
    <3>2. /\ 0 \in Nat /\ {} \in SUBSET Thing /\ 0 <= Len(slot)
          /\ \A q \in 1 .. 0 : slot[q] \in Value
      BY <1>2, <3>1
    <3>3. Sound(Obj(slot, 0, {}))
      BY <3>2, IsSound
    <3> QED BY <3>1, <3>3
  <2> QED BY <1>1, <1>2, <2>1, <2>2
<1>4. arrays \in [Name -> [slot : Seq(Slot), size : Nat]]
  BY <1>1, <1>2
<1>5. ArrayInv
  BY <1>1, <1>3, <1>4 DEF ArrayInv
<1>6. \A n \in Name : ContentsOf(n) = <<>>
  BY <1>1 DEF ContentsOf
<1>7. Once(Everything, gone, outside)
  <2>1. NoneTwice(<<>>) /\ Has(<<>>) = {}
    BY DEF NoneTwice, Has
  <2>2. \A n \in Name : Everything[n] = <<>>
    BY <1>6 DEF Everything
  <2> QED BY <1>1, <2>1, <2>2 DEF Once
<1>8. Promised!SeqsInit
  BY Zenon, <1>1, <1>6 DEF Promised!SeqsInit
<1> QED BY <1>5, <1>7, <1>8 DEF IInv, OwnersInv

\* Every step keeps the invariant, and is a call on sequences, or changes
\* nothing of them.
LEMMA StepHolds ==
  ASSUME IInv, [Next]_vars
  PROVE  IInv' /\ [Promised!SeqsNext]_Promised!values
<1>1. CASE UNCHANGED vars
  <2>1. UNCHANGED <<arrays, gone, outside, misused, plain>> /\ UNCHANGED <<call, reply>>
    BY <1>1 DEF vars
  <2>2. IInv' /\ [k \in Name |-> ContentsOf(k)]' = [k \in Name |-> ContentsOf(k)]
    BY Zenon, <2>1, SameKeeps
  <2>3. UNCHANGED Promised!values
    BY Zenon, <2>1, <2>2 DEF Promised!values
  <2> QED BY <2>2, <2>3
<1>2. CASE Next
  <2> DEFINE Adds(n) ==
               \/ \E v \in Available : CallEmplace(n, v)
               \/ \E v \in Available, p \in 1 .. arrays[n].size + 1 : CallInsert(n, p, v)
             Drops(n) ==
               \/ \E p \in Used(n) : CallSwapTake(n, p) \/ CallSwapRemove(n, p)
               \/ \E p \in Used(n) : CallTake(n, p) \/ CallRemove(n, p)
               \/ Used(n) # {} /\ CallPop(n)
               \/ Used(n) # {} /\ Changes(n, RemoveTail(Working(n)), <<"RemoveTail", n>>)
             Swaps(n) ==
               \E p, q \in Used(n) : Changes(n, Swap(Working(n), p, q), <<"Swap", n, p, q>>)
             Sizes(n) ==
               \/ \E size \in Capacities :
                    Changes(n, SetSize(Working(n), size), <<"set_size", n, size>>)
               \/ Changes(n, Clear(Working(n)), <<"Clear", n>>)
             Rooms(n) ==
               \/ \E capacity \in Capacities :
                    \/ Changes(n, Reserve(Working(n), capacity), <<"Reserve", n, capacity>>)
                    \/ CallSetCapacity(n, capacity)
               \/ Changes(n, SetCapacity(Working(n), arrays[n].size), <<"ShrinkToFit", n>>)
             Others(n) ==
               \/ \E m \in Name \ {n} : CallMove(n, m) \/ CallCopy(n, m) \/ CallEqual(n, m)
               \/ \E p \in 1 .. MaxCapacity : CallTryGet(n, p)
             Goal == IInv' /\ Promised!SeqsNext
  <2>1. PICK n \in Name : Adds(n) \/ Drops(n) \/ Swaps(n) \/ Sizes(n) \/ Rooms(n) \/ Others(n)
    BY Zenon, <1>2 DEF Next
  <2>2. Adds(n) => Goal
    BY Zenon, EmplaceKeeps, InsertKeeps
  <2>3. Drops(n) => Goal
    BY Zenon, DropSwappedKeeps, DropAtKeeps, DropLastKeeps
  <2>4. Swaps(n) => Goal
    BY Zenon, SwapKeeps
  <2>5. Sizes(n) => Goal
    BY Zenon, ResizeKeeps, ClearKeeps
  <2>6. Rooms(n) => Goal
    BY Zenon, RoomKeeps, ShrinkKeeps
  <2>7. Others(n) => Goal
    BY Zenon, MoveKeeps, CopyKeeps, EqualKeeps, GetKeeps
  <2>8. Goal
    <3> HIDE DEF Adds, Drops, Swaps, Sizes, Rooms, Others, Goal
    <3> QED BY <2>1, <2>2, <2>3, <2>4, <2>5, <2>6, <2>7
  <2> QED BY <2>8
<1> QED BY <1>1, <1>2

\* In every reachable state the elements in use of every array are objects, and
\* what owners own is in one place as long as set_capacity cuts no owners.
THEOREM ArraySafe == Spec => []IInv
<1>1. Init => IInv
  BY InitHolds
<1>2. IInv /\ [Next]_vars => IInv'
  BY StepHolds
<1> QED BY <1>1, <1>2, PTL DEF Spec

\* The calls only ever move, assign and destruct objects that are there, for
\* any arrays and capacities, owners or plain values.
THEOREM ObjectsUsed == Spec => []UsesObjectsOnly
<1>1. IInv => UsesObjectsOnly
  BY DEF IInv, ArrayInv, UsesObjectsOnly
<1> QED BY <1>1, ArraySafe, PTL

\* A thing that is in one place has one owner there, or none.
LEMMA OnceCounts ==
  ASSUME IInv, ~CutsOwners
  PROVE  EachThingOnce
<1>1. SUFFICES ASSUME ~plain, NEW t \in Thing
               PROVE  Cardinality(Owners(t)) + Cardinality({t} \cap gone)
                        + Cardinality({t} \cap outside) = 1
  BY DEF EachThingOnce
<1>2. ArrayInv /\ Once(Everything, gone, outside)
  BY <1>1 DEF IInv, OwnersInv
<1>3. \A n \in Name :
        /\ Everything[n] = ContentsOf(n) /\ NoneTwice(Everything[n])
        /\ Has(Everything[n]) \cap (gone \cup outside) = {}
  BY <1>2 DEF Once, Everything
<1>4. /\ \A n, m \in Name : n # m => Has(ContentsOf(n)) \cap Has(ContentsOf(m)) = {}
      /\ gone \cap outside = {}
      /\ t \in gone \cup outside \/ \E n \in Name : t \in Has(ContentsOf(n))
  BY <1>2, <1>3 DEF Once
<1>5. \A n \in Name : \A q \in Used(n) : q \in 1 .. MaxCapacity
  <2>1. \A n \in Name : /\ arrays[n].size \in Nat /\ arrays[n].size <= Len(arrays[n].slot)
                        /\ Len(arrays[n].slot) \in Nat /\ Len(arrays[n].slot) <= MaxCapacity
    BY <1>2, WorkingFacts, SizeFacts DEF ArrayInv
  <2> QED BY <2>1, ArrayAssumption DEF Used
<1>6. \A n \in Name : Len(ContentsOf(n)) = arrays[n].size /\
        \A q \in Used(n) : ContentsOf(n)[q] = arrays[n].slot[q]
  BY <1>2, ContentsOfFacts DEF Used
<1>7. \A n \in Name, q \in Nat : <<n, q>> \in Owners(t) <=> q \in Used(n) /\ ContentsOf(n)[q] = t
  BY <1>5, <1>6 DEF Owners
<1>8. \A place \in Owners(t) : \E n \in Name, q \in Nat : place = <<n, q>>
  BY DEF Owners
<1>9. \A n \in Name : t \in Has(ContentsOf(n)) <=> \E q \in Used(n) : ContentsOf(n)[q] = t
  BY <1>6 DEF Has, Used
<1>10. \A n \in Name : \A q \in Used(n) : q \in Nat
  BY DEF Used
<1>11. CASE t \in gone \cup outside
  <2>1. \A n \in Name : t \notin Has(ContentsOf(n))
    BY <1>3, <1>11
  <2>2. Owners(t) = {}
    BY <1>7, <1>8, <1>9, <2>1
  <2>3. CASE t \in gone
    <3>1. {t} \cap gone = {t} /\ {t} \cap outside = {}
      BY <1>4, <2>3
    <3>2. Cardinality({t}) = 1 /\ Cardinality({}) = 0
      BY FS_Singleton, FS_EmptySet
    <3> QED BY <2>2, <3>1, <3>2
  <2>4. CASE t \notin gone
    <3>1. {t} \cap gone = {} /\ {t} \cap outside = {t}
      BY <1>11, <2>4
    <3>2. Cardinality({t}) = 1 /\ Cardinality({}) = 0
      BY FS_Singleton, FS_EmptySet
    <3> QED BY <2>2, <3>1, <3>2
  <2> QED BY <2>3, <2>4
<1>12. CASE t \notin gone \cup outside
  <2>1. PICK n \in Name : t \in Has(ContentsOf(n))
    BY <1>4, <1>12
  <2>2. PICK q \in Used(n) : ContentsOf(n)[q] = t
    BY <1>9, <2>1
  <2>3. <<n, q>> \in Owners(t)
    BY <1>7, <1>10, <2>2
  <2>4. ASSUME NEW place \in Owners(t) PROVE place = <<n, q>>
    <3>1. PICK m \in Name, r \in Nat : place = <<m, r>> /\ r \in Used(m) /\ ContentsOf(m)[r] = t
      BY <1>7, <1>8
    <3>2. m = n
      <4>1. t \in Has(ContentsOf(m))
        BY <1>9, <3>1
      <4> QED BY <1>4, <2>1, <4>1
    <3>3. r = q
      <4>1. NoneTwice(ContentsOf(n))
        BY <1>3
      <4> QED BY <1>6, <2>2, <3>1, <3>2, <4>1 DEF NoneTwice, Used
    <3> QED BY <3>1, <3>2, <3>3
  <2>5. Owners(t) = {<<n, q>>}
    BY <2>3, <2>4
  <2>6. {t} \cap gone = {} /\ {t} \cap outside = {}
    BY <1>12
  <2>7. Cardinality({<<n, q>>}) = 1 /\ Cardinality({}) = 0
    BY FS_Singleton, FS_EmptySet
  <2> QED BY <2>5, <2>6, <2>7
<1> QED BY <1>11, <1>12

\* What an element owns has one owner at any time, for any number of arrays:
\* nothing is released twice and nothing is lost, unless set_capacity may cut
\* an array of owners.
THEOREM OwnedOnce == Spec => [](~CutsOwners => EachThingOnce)
<1>1. IInv => (~CutsOwners => EachThingOnce)
  BY OnceCounts
<1> QED BY <1>1, ArraySafe, PTL

\* Every call does to the sequences of values, and returns, what its name says,
\* whatever is allocated, moved or destructed on the way.
THEOREM ArrayImplements == Spec => ImplementsSeqs
<1>1. Init => Promised!SeqsInit
  BY InitHolds
<1>2. IInv /\ [Next]_vars => [Promised!SeqsNext]_Promised!values
  BY StepHolds
<1> QED BY <1>1, <1>2, ArraySafe, PTL DEF Spec, ImplementsSeqs, Promised!SeqsSpec
=============================================================================
