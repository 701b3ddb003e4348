# Mirage Engine in TLA+

Mirage Engine is a C++20 entity-component-system engine in two libraries:
`mirage_base` (smart pointers, locks, containers) and `mirage_ecs` (components,
archetypes, systems, world). This directory holds TLA+ modules translated from
that code, TLC configurations that check them on small instances, and TLAPS
proofs of the results that hold for instances of every size.

`PROJECT.json` maps each definition to the source lines it stands for, lists the
runs, and for each property a plausible bug that the property catches.

    tlc -config SharedPtr.cfg SharedPtr           # a run
    tlapm SharedPtrProofs.tla                     # the proofs of a module

## 1. The system

### Components

| Component | State | Operations | Correct when |
|---|---|---|---|
| **Archetype** and its buffers (`entity/archetype`, `entity/buffer`) | packed data buffers (rows), dense buffers (sparse id of each row), sparse buffers (position of each row), the list of sparse buffers with room, `size_` | `Push` of a bundle or of a view, `operator[]`, `Remove`, `RemoveMany`, `TakeMany` | an index names the entity it was returned for until it is removed; all counts agree; no slot is lost or given out twice |
| **Shared / Weak** (`auto_ptr/shared.hpp`, `weak.hpp`, `ref_count.cpp`) | object, two counters allocated beside it, each behind its own lock | clone, upgrade, watch, move, convert, reset, `is_null` | the object lives exactly as long as it has an owner; the counters are freed once, after their last use |
| **ObservedAsync / AsyncObserver** (`auto_ptr/observed.hpp`) | object, RW lock, `is_null` flag, observer count | observe, clone, move, convert, read and write guard, reset, `is_null` | guards exclude each other and the deletion; an observer learns that the object is gone; lock, flag and count are freed once, after their last use |
| **ObservedLocal / LocalObserver** | the same without a lock, on one thread | the same without guards | the same, with the object's destructor in the middle of `Reset` |
| **RWLock, Lock** and guards (`sync/`) | native lock | scopes and guards | mutual exclusion; unlocked once |
| **HashSet, HashMap, SinglyLinkedList** (`container/`) | buckets, size, load factor | insert, remove, find, clear, iterate, remove through an iterator, growth | a map from keys to values, through growth and removal |
| **TypeSet, TypeId** (`util/`) | ordered array of types, mask of bits types may share | add, remove, `With`, `Without` | array and mask are exact; queries answer by the set |
| **Array** (`container/array.hpp`) | allocation of slots, size | push, insert, take, remove, swap, resize, reserve, move, copy, compare | a sequence of values; what an element owns is released once |
| **Component lifetime** (`entity/buffer/archetype_data_buffer`, component handlers) | rows of raw memory, entity id of each | push, move between buffers, destruct, clear, grow | what a component owns is released once; a row's components and id stay together |
| **Box, Optional** (`wrap/`) | an object of any type inside the box or on the heap, and the handler that knows which | make, move, unwrap, reset, use through the raw pointer | what is in it is released once, and so is its block |
| **ComponentBundle** (`component/`) | HashMap from type to boxed component | add, remove, push to a row | one component of a type; a component is given back, moved to a row or released with the bundle |
| **ArchetypeDescriptor** (`entity/`) | set of types, offset of each, size and alignment of a row | built from a list of components; addresses of rows and ids in a buffer | components aligned; nothing overlaps, in a row or a buffer |
| **World, resources** (`framework/world.hpp`, `system/resource.hpp`) | HashMap from type to boxed resource | init, set, get, extract | one resource of a type; calls answer with it |
| Owned, AlignedBuffer | single-owner storage | move, reset | one owner |
| EntityManager, GenerationId, systems, queries, Plugin | declarations and stubs | - | - |

### How they interact

An `Archetype` is called by one thread. Its caller keeps an `Index` for each
entity; inside, a push finds room in three lists of buffers and links
`sparse -> dense id -> row -> sparse id`. `TakeMany` moves rows to buffers laid
out for another archetype, which push them as views. An entity's components reach
the archetype in a `ComponentBundle`, boxed; a push takes the boxes out and moves
what is in them to the offsets of the `ArchetypeDescriptor`. Smart pointers are the only
state the libraries share between threads: handles of one object talk through
the counters, the flag and the RW lock that were allocated with it, and there is
no thread, queue or event loop in the code: the threads are the users'. The
object's destructor is a callback into the same protocol, as handles may be
members of the object they refer to. `HashSet` keeps its entries in
`SinglyLinkedList`s and edits them through list iterators; `HashMap`,
`ComponentBundle` and `World` are built on it. `TypeSet` identifies an archetype
and answers which archetypes a query matches.

### What is hard

* **Interleaving.** Two counters (or a flag and a counter) are each read and
  written under a lock, but the decision who frees them looks at one after the
  other. Upgrading races with the last release.
* **Callbacks.** `delete` inside `Reset` runs a destructor that may reset, clone
  or ask handles of the same object; in `ObservedAsync` it runs inside the write
  scope.
* **Long call sequences.** A flat index is split by the capacity of the first
  buffer, which doubles, is dropped and allocated again; rows move on removal;
  the list of available buffers names buffers that are emptied or dropped; the
  position of the hole stack is `size_`.
* **Objects by hand.** Elements and components are constructed, moved and
  destructed in raw memory; some are left behind constructed, some are destructed
  twice. On its way to a row a component is moved out of a box that still frees
  its block.
* **Stale reads.** Iterators into lists that are being cut; a reference
  parameter into the array that the call shifts; an iterator past the end.
* **Boundaries.** Rows that fill a buffer exactly, rows wider than a buffer, the
  hash bit that decides a move, the load factor at its limit, padding between
  components and at the end of a row.

Nothing is persisted, sent or timed, so there are no crashes, lost messages or
timeouts to model. `PROJECT.json` lists the hazards line by line.

## 2. Modules

| Module | Models | Abstract specification | Proofs |
|---|---|---|---|
| `SparseBuffer` | the sparse buffer as operators on a record | | `ArchetypeProofs` |
| `SparseBufferUse` | a sparse buffer and its owner | | `ArchetypeProofs` |
| `PackedBuffer` | dense and data buffers as operators on a record | | |
| `Archetype` | the archetype and its caller, over the two above | `EntityStore` | `ArchetypeProofs`, `ArchetypeStackProofs` |
| `SharedPtr` | Shared and Weak handles, any number of threads | `Ownership` | `SharedPtrProofs` |
| `ObservedAsync` | ObservedAsync, observers, guards, the RW lock | `Monitored` | `ObservedAsyncProofs` |
| `ObservedLocal` | ObservedLocal and observers on one thread | | `ObservedLocalProofs` |
| `DataFacts` | nothing: lemmas on induction, folds, finite sets and the number of observers, for all proofs | | |
| `HashSet` | the table, its growth and its iterators, and the list operations they use | as part of `KeyedMap` | |
| `HashMap` | the map, over `HashSet` | `KeyedMap` | |
| `World` | the world's calls on its resource map, over `HashMap` | `KeyedMap` | |
| `Array` | the array's slots and the objects in them | `ValueSeqs` | `ArrayProofs` |
| `Boxes` | Box and Optional as operators | | |
| `ComponentRows` | components in a bundle and in an archetype's rows, over `Boxes` | | |
| `TypeSet` | the type array, the mask and the queries | | `TypeSetProofs` |
| `ArchetypeDescriptor` | the construction of a row's layout and the addresses in a buffer, over `TypeSet` | | `TypeSetProofs` |
| `MC...` | instances for TLC: symmetry, hash functions, refinement mappings | | |

`SharedPtr`, `ObservedAsync`, `ObservedLocal`, `Array` and `ComponentRows` need no
instance of their own: their configurations are of the modules themselves, which
define the symmetry the last two are run with. `MCArchetype` has the archetype and,
by itself, a sparse buffer with its owner (`SparseBufferUse`); a step is of one of
them, while the other is empty.

Operators whose comment starts with *Fault* are the bugs that show a property
can fail; no specification uses them.

### Archetype, SparseBuffer, PackedBuffer

`arch` is the object as one record with the code's fields, so that operations
compose as in the code: `PushEntity` is `EnsureNotFull` (three lists), the push
of the data row, then `PushSparseDenseBuffer`; `TakeEntities` is
`TakeDenseIds`, the moves, then `RemoveManyDenseDataBuffer`. Two fields are
added: `rv`, the value returned, and `dcheck`, the first `MIRAGE_DCHECK` that
failed, after which nothing runs. `issued` is the caller's memory: the indices
it holds and the entity each was returned for; `asked` is the argument of its
last call, so that `EntityStore` can say which answer belongs to which question
and in which order rows come back. A row stands for an entity id and
its components, which the code always moves together. `sparse`, `dense` and
`data` are sequences (buffer *n* of the code is *n + 1*), and sizes are bytes
divided as in the code, so boundaries are where the code has them.

`Spec` is any caller that hands back indices it holds, each once. `StackSpec` is
the caller that gives up its newest entities first, in any order within a call;
it exists because the code is correct for that caller and not for all (below).
Even that caller fails a check with a batch that fills two or more target buffers
exactly (`FillsExactly`): `TakeMany` then allocates one buffer more, of no bytes.

### SharedPtr

A step is one call on a counter (each runs under the counter's lock) or one
`delete`. `pc[t]` says where thread *t* is in a `Reset`: `destroy` (inside
`delete raw_ptr_`), `check_weak`, `check_ref`, `free_ref`, `free_weak`.
`deleting` remembers the threads inside the destructor, whose weak members are
reset by nested calls. Clearing the handle's pointers, which the code does last,
is folded into the step that gives up the count: a handle belongs to one thread,
and nobody else reads it but the object's own destructor, if it can reach the
handle that deletes the object; such a read is not modelled. Touching a deleted counter sets `fault`, and the
behaviour ends there, as it is undefined; so does `TryConvert` of a `Weak` whose
object is gone (`dead_cast`), as `dynamic_cast` reads the object. Each call of
`Shared` and `Weak` is an action of its own. With one thread the module is
`RefCountLocal`.

### ObservedAsync

A step is one call on the count, one scope of the RW lock, or one `delete`. The
scopes that last - read guard, write guard, and the write scope around
`delete raw_ptr_` - are values of `pc`, so the holders of the lock are the
threads there, and `CanRead` and `CanWrite` are the lock. `freed` is the set of
the three allocations given back. A thread holds one guard at a time and meanwhile
makes one call at most: a reset of the owner, whose write scope cannot begin
before its own guard ends (`fault = "self_wait"`). A request for the lock inside
the write scope, by the destructor, is `fault = "self_lock"`: on POSIX the native
call reports the deadlock and the code's check on its result fails. As in
`SharedPtr`, the handle's pointers are cleared with its count given up, so the
calls of the destructor that take no lock (making or cloning an observer, moving the
owner) are in `ObservedLocal` only. A guard that
is moved, to another variable of its thread, is the same scope.

### ObservedLocal

One thread, so calls are atomic but for `Reset`, which is split at the
destructor: between `BeginReset` and `FinishReset` the destructor makes any
calls it likes through any handle, the owner that is deleting it included, which
still has its pointers. `resetting` remembers that owner. A destructor that moves
it leaves `Reset` with null pointers, which it follows (`fault = "null"`).

### HashSet

A bucket is a sequence of entries; an entry is a key (what hash and equality look
at) and a mark (the rest of the value, so that replacing is visible). `Walk` is
the loop of `ExtendAndRehash` over one old bucket, with the position of its
second iterator kept as a tag: at the head, before the first iterator, or cut
off. `inserted` and
`asked` are the caller's memory, as in `Archetype`. The code loses entries, and fails
a check, in ways that `ChainsBreakOnlyThere` lists: it says of every step exactly
when the check fails, and of every entry that a lookup no longer finds that it is
one of those the two known causes lose.

### HashMap

A map is a set of pairs that hash and compare by key. `MapInsert`, `MapRemove` and
`MapTryFind` are the set's operations on such pairs; `Index` is `operator[]`, which
inserts the default value and looks the key up again in the table the insertion
has left, grown or not. The set's other steps (`SetCalls`: growth, load factor,
clear, iteration) are steps of the map, so a run of the map is a run of the set.

### World

The resource map of a world is a `HashMap` of which a caller sees only the calls
of `World`; `in_world` chooses for a behaviour whether the map is on its own or a
world's, so that one run covers both. Each call is the map's own action with the
answer `World` makes of it. A failed check is `stopped`, after which nothing runs:
`SetResource` of a new resource and `Extract` of a missing one reach it.

### Array

A slot is `Raw` (never constructed in), `Dead` (destructed), `Empty` (an object
moved from or default constructed) or has a value. `plain` chooses the elements
for a behaviour: move-only owners, for which a move leaves `Empty` behind and a
destructor adds to `gone`, or plain values, which are copied and own nothing.
`Take`, `Remove`, copies and `==` exist for the second kind only, as they do not
compile or do not matter for the first. An operator works on one array and
records in `bad` a destructor, move or assignment on a slot without an object.
`call` is the last call, so that `ValueSeqs` can say what each call returns.

### Boxes, ComponentRows

A component is an entity and a type, and owns something, which is released once
or lost. It is made into a `Box` of the caller's `ComponentBundle`, inside the
box if its type is `Small`, else in a block of `heap`; `bundle` is the map, and
`returned` is what the last call on it gave back, which goes when the next call
begins. `Replaced` follows a component through the pair, the two `Optional`s and
the boxes of `Add`. `PushBundle` takes each box out, moves the component to the
row through the raw pointer, which destructs it there, and lets the box go, which
destructs it again.

The rows of an archetype are one sequence, since `Archetype` covers how they are
spread over buffers, and a row has a cell for each component. A removal does
what the code does to the cells, in its order: destruct the row, move the tail
in, remove the tail, which destructs what was moved from once more. So the code
requires of a component that a second destructor after a move finds nothing to
release; the model takes that as given (`Destruct` of a `Dead` cell releases
nothing), and checks the rest. `kept` is the set of components of the target
of `TakeMany`, any set: components it does not have go with the row, and one the
archetype lacks is `Raw` in the rows pushed to the target, as is in turn a
component of the archetype in a row pushed back from a target without it (unless
another row was there before). The code moves from and destructs that memory
(`archetype_data_buffer.cpp:115`), which is undefined; it sets `misused`, and the
behaviour ends.

### TypeSet

`type_array` and `mask` as in the code, the mask as a set of bits. `types` is the
caller's memory. A query's result is a Boolean operator; what `With` reads past
the end of the other set's array is a parameter that the properties quantify
over.

### ArchetypeDescriptor

The constructor is a loop that adds types to a `TypeSet`, here the one of
`TypeSet`, one `Visit` a turn, with the list and the loop's variable as state; then
`LayOut` does the rest. `Sorted` has every order `std::ranges::sort` may produce,
as it is not stable. The archetype's first buffer is as `EnsureNotFullData` makes
and grows it, so its size is not a multiple of anything once it is the greatest;
`RowAt` and `IdAt` are the addresses `operator[]` computes, rows from the front and
ids from the back. The list is not empty: of an empty one the code reads the first
type (`archetype_descriptor.cpp:35`).

## 3. Runs

| Run | Expect | Shows |
|---|---|---|
| `archetype_any_order` | pass | In any order of calls, until a check fails: `size_`, rows and live slots agree, `available_sparse_` lists exactly the usable buffers, hole stacks are exact, rows are packed; hole stack, slots and size of a sparse buffer by itself, also with sizes the archetype does not choose |
| `archetype_newest_first` | pass | For the newest-first caller one check fails only, that of the empty last buffer of a batch that fills its target buffers exactly; until then the archetype implements `EntityStore` |
| `archetype_stale_index` | violation | An index finds another entity after a removal that is not of the newest row |
| `shared_async` | pass | Counts exact, object outlives its owners, no leak; under fairness all memory is given back; implements `Ownership` |
| `shared_free_race` | violation | Two threads free the counters twice or use them when freed |
| `observed_async` | pass | Observers counted, guards protect object and lock, no leak; under fairness every `Reset` returns; implements `Monitored` |
| `observed_local` | pass | Observers counted and told the truth through any destructor; a bad access needs a destructor that drops the last observer of its own object or moves its owner |
| `hash_map` | pass | The map, on its own and under a `World`, implements `KeyedMap`; size, iteration and removal through an iterator are exact. Keys whose two bits agree, at most two to a bucket |
| `hash_set_chains` | pass | Keys whose bits disagree and that share buckets: growth fails its check exactly on a bucket with an entry that stays and two behind it that move, and an entry is lost only to the wrong bit or with the chain behind a removed or moved one |
| `type_set` | pass | Array and mask exact with shared bits; `With(type)`, `Without(set)` exact; `With(set)` never accepts a non-subset; a descriptor has exactly the listed components, aligned, and no two share a byte in any buffer |
| `array` | pass | Two arrays implement `ValueSeqs`, on owners and on plain values; what an element owns is in one place; no object is used that is not there |
| `component_rows` | pass | What a component owns is in one place through bundles, pushes, removals, `TakeMany` and growth; rows keep their entity; raw memory is touched only in place of a component that the row's source lacked, and never behind the tail; boxes free their blocks once; a bundle releases nothing it should give back |

Each run finishes within a few minutes on two cores.

### Bounds

* **Archetype.** Three entities in any order, six newest-first. `kMaxBufferSize`
  is 16 KiB in the code; here it is 20 or 30 bytes for units of 7 to 14 bytes, so
  a full-sized buffer has two or three rows, sizes do not divide the maximum
  (as in the code), and every branch of growth, emptying, dropping and
  re-allocation is taken with two or three buffers of each list. Lists handed
  back have up to two indices, or, newest-first, five: three target buffers of two
  rows, and both batches that fill buffers exactly and batches that do not. Capacities are computed from bytes, so
  nothing in the module depends on the real sizes; the 16-bit counts of the code
  cannot be reached even there (a sparse slot has ten bytes, so a buffer has at
  most 1638).
* **SparseBufferUse.** Slots of ten bytes and allocations up to 43 bytes: up to
  four slots, and every growth between zero and four.
* **SharedPtr, ObservedAsync.** Three threads, three handles outside the object
  and one inside. A step concerns one counter and at most two handles; the
  decisions who frees involve the last handle of each kind and a third party
  that upgrades or clones.
* **ObservedLocal.** Four handles outside and one inside: an owner, the place it
  is moved to in the destructor, and two observers besides.
* **HashSet, HashMap, World.** Four keys, two marks, tables of 2, 4 and 8 buckets (the code
  starts at 16; all computations are modulo the size). The keys are chosen so
  that the bit growth looks at equals the bit lookup uses, and a bucket has at
  most two entries. `MaxBuckets` also covers the table that cannot be doubled.
  `hash_set_chains` has four keys that share one of two buckets, up to five
  entries (`MaxSize`; a lost key may be inserted again) and a load factor of two,
  so that chains of four entries grow: all four ways to lose an entry or fail the
  check are met there.
* **Array.** Two arrays, two things, capacities up to four and four slots in
  both together: an array grows from one to two to four slots, is inserted into
  at every place, moved onto and copied over, with leftovers behind its end.
* **ComponentRows.** Three entities of three components, one of which is large
  and one of which the archetype does not have, up to two rows in a call:
  removal of the tail, of the row before it and of several, with rows left
  between them, growth up to four rows, and targets with all eight sets of
  components, those with one that the archetype lacks included.
* **TypeSet.** Seven types on three bits, so that bits are shared by two or
  three types; queries against all 128 sets. Descriptors of lists of up to four
  of five components, whose sizes and alignments leave gaps between components
  and at the end, two of which sort alike, and a greatest buffer of 96 bytes.

### Fairness

Only `shared_async` and `observed_async` check liveness. The fairness is weak
fairness of each thread's `Continue`: a thread inside `Reset` keeps running it,
and a guard's scope ends. The operating system schedules threads, and a guard is
a local object; a thread is never obliged to *begin* a call. Waiting for the RW
lock is not assumed to be fair, so `ResetsReturn` says that a `Reset` returns
once no guards are taken any more. Both properties hold up to the first fault,
after which the program has no defined behaviour.

`CHECK_DEADLOCK FALSE` is set where a program may stop: all handles are gone, the
entity ids are used up, a check has failed, or undefined behaviour was reached.

### Deviations from the code's intent, found while modelling

Listed as findings, each with its run:

* `RemoveDenseDataBuffer` moves the tail row into the gap and does not update the
  sparse slot of the moved entity (`archetype.cpp:311`).
* The last `Shared` and the last `Weak` decide separately who frees the counters
  (`weak.hpp:113`, `shared.hpp:109`).

Further configurations show relatives of these and deviations elsewhere. They
stop at a counterexample and are not among the runs:

| Configuration | Module | Violates | Cause |
|---|---|---|---|
| `MCArchetypeSparseId.cfg` | `MCArchetype` | `SparseSlotInUse` | an index is split by the capacity the first sparse buffer has now, not by the one it was numbered with (`archetype.cpp:240`) |
| `MCArchetypeTake.cfg` | `MCArchetype` | `AllocationsNonEmpty` | `TakeMany` of a multiple of the target's capacity allocates a buffer of no bytes (`archetype.cpp:77`; `aligned_buffer.cpp:17` checks against it) |
| `MCArchetypeWide.cfg` | `MCArchetype` | `PushHasRoom` | a row wider than `kMaxBufferSize` gets a second buffer without room (`archetype.cpp:207`) |
| `SharedPtrMember.cfg` | `SharedPtr` | `NoFault` | on one thread, an object that holds the last `Weak` to itself frees the counters under the `Shared` that deletes it |
| `ObservedAsyncRace.cfg` | `ObservedAsync` | `NoFault` | owner and last observer decide separately who frees (`observed.hpp:579`, `:715`) |
| `ObservedAsyncMember.cfg` with `-continue` | `ObservedAsync` | `NoSelfLock` | the destructor of an object that holds the last observer of itself asks for the read lock inside the write scope (`observed.hpp:576`) |
| the same | | `NoSelfWait` | a thread with a guard that resets the owner waits for the guard (`observed.hpp:570`) |
| `ObservedLocalCast.cfg` | `ObservedLocal` | `NoDeadCast` | `TryConvert` of an observer does not ask whether the object is there (`observed.hpp:459`); `SharedPtr` and `ObservedAsync` have the same step |
| `MCHashSetGrow.cfg` | `MCHashMap` | `InsertedIsFound` | `ExtendAndRehash` tests the bit `new_size` where lookup uses the bit `old_size` (`hash_set.hpp:391`) |
| `MCHashSetChain.cfg` | `MCHashMap` | `InsertedIsFound` | `RemoveAfter` drops the rest of the chain (`singly_linked_list.hpp:362`) |
| `MCHashSetCut.cfg` | `MCHashMap` | `NoDcheckFails` | growth calls `RemoveAfter` again behind a node it has cut (`hash_set.hpp:404`) |
| `ArrayCut.cfg` | `Array` | `EachThingOnce` | `set_capacity` below the size does not destruct the elements it cuts (`array.hpp:454`) |
| `MCTypeSetWith.cfg` | `MCTypeSet` | `WithSetComplete` | `With(set)` goes on comparing after the set is exhausted, so it rejects a subset (`type_set.cpp:72`) |
| `MCTypeSetIds.cfg` | `MCTypeSet` | `IdsAligned` | entity ids are placed from the end of a buffer, the size of which need not be a multiple of their alignment (`archetype_data_buffer.cpp:47`) |
| `MCWorld.cfg` | `MCHashMap` | `ResourcesAnswered` | `InitResource` returns the pointer it looked up before it inserted; `SetResource` has the two cases of its result swapped (`world.hpp:49`, `:57`) |
| `MCTypeSetOwn.cfg` | `MCTypeSet` | `MaskExact` | `RemoveTypeId` of a reference into its own array reads it again after the shift (`type_set.cpp:59`) |

That with one thread nothing is used after it is freed is proved: for `Shared` and
`Weak` if no handle is inside the object (`LocalIsSafe`), for `ObservedAsync` always
(`ObservedLocalIsSafe`).

While these are in the code, the passing runs say what can still be relied on:
the archetype for a caller that removes newest-first and takes no exact multiple
of a target buffer, the table where hash bits agree and buckets are short, and
elsewhere that it breaks in the known ways only, the pointers until the freeing
race is hit.

## 4. Proofs

Every theorem holds for all values of the constants under the assumptions named
in the modules: `SparseUnit` positive, `DenseIds` a set of naturals, `MaxBytes` a
natural, `Handle` finite with `Member` among it, the archetype's units positive
and no wider than a full-sized buffer but for the data row, whose width is any.
The theorems of `ArchetypeStackProofs` name one assumption more, `UnitsFit` (below).
`Thread` and `Entity` are any sets, as are the arrays and things of `Array`,
where `Empty`, `Raw` and `Dead` are three values that are no things.

**DataFacts.** The code's loops over lists are folds in the modules, and what a
fold computes for a list of any length needs induction. The library states
induction for an operator, which no installed prover can instantiate; here it is
stated for a set: a set of naturals that has 0 and with each number the next has
them all (`NatSetInduction`, from the existence of a least element). A proof
defines the set of numbers its claim holds for. `FoldSteps` then says of `Fold`,
which is `FoldLeft` of SequencesExt written out, what a loop does: there is a function from the number of turns to
the value so far, whose steps are the operator. The operator is a constant of
the module, and a proof takes an instance for each loop of the code; that is why
the loop bodies of `Archetype` (`DropIfEmpty`, `TakeNext`, `MoveRow`, ...) and of
`TypeSet` (`WithStep`, `WithoutStep`) are definitions of their own. `FoldSetSteps`
says the same of `SetFold`, which is `FoldSet` of FiniteSetsExt, by induction on the number of elements.

**ArchetypeProofs: a sparse buffer.** The four properties of `SparseBufferUse`
are together inductive: `HolesExact` says the stack above `size` is a bijection
to the free slots, which is what makes `FillHole` take a free slot;
`SlotsMatchOwner` makes the removed slot one in use, so that pushing it keeps
the stack injective; `SizeIsLiveCount` follows by counting. `SparseReserve` needs
that a larger allocation has no fewer slots (`DivMonotone`). The lemmas on the
operators of `SparseBuffer` serve the archetype too.

**ArchetypeProofs: the archetype.** `Spec` is any caller that hands back indices it holds, in
any order. The inductive invariant is `IInv`, that is `Whole(arch)` and the type of
the caller's indices. `Whole` has, as long as no check has failed, `Sound`:

* every sparse buffer has an exact hole stack, and `available_sparse_` lists the
  usable ones, each once (`Listed`);
* dense and data buffers are packed, of the shape growth gives them, and hold as
  many rows as `size_` says (`RowsHeld`), as many as there are live slots.

and besides, that no row is left that was moved out (`MarkedOnly` for no
positions), and that a push has failed only if a row is wider than a full-sized
buffer. `RowsPacked`, `CountsAgree`, `AvailableExact` and `HoleStacksExact` are
each a part of it, but none is inductive without the rest: the number of slots
`TakeDenseIdFromSparse` frees and the number of rows `RemoveDenseDataBuffer` drops
agree only because a list handed back is taken whole; that a removal finds
the tail it moves needs `size_` rows to be there; and `AvailableExact` needs
that a buffer that is neither full nor empty has a hole, which the exact stacks
give.

The three loops over a list have an invariant each. `TakenBatch`: after *k*
indices *k* slots are free and *k* dense ids found. `LeftRows`: after *k*
removals *k* rows fewer, and of the rows that were moved out only those at the
dense ids still to come are left. The latter holds because the ids are sorted
from the highest down (`FromHighest`): the tail that fills the gap is never one of
those still to be removed. With the ids in another order the step fails, and so would
the code. `DropEmptyTails` keeps `SlotLists`, as an empty buffer at the tail has no
live slot and is listed once. `TargetRoomExact` says the buffers `TakeMany`
allocates have room for the rows it moves, none left over, for rows of any width.
A failed check ends everything, so `Sound` keeps only types after one; for any
caller, one check is proved not to fail, that of the push of a row
(`PushAlwaysHasRoom`). For the newest-first caller all are but one.

**ArchetypeStackProofs.** `StackSpec` is that caller. `RemoveDenseDataBuffer` moves the last
row into the gap and leaves the slot of the moved row as it was
(`archetype.cpp:311`); for this caller the rows given up in one call are the
last, so that what moves is given up too, and its slot was cleared before.
The inductive invariant is `StackInv`: the types, `OnlyEmptyBufferFails`, and, as long
as no check has failed, `Tracked`, which is `Whole` and two claims that are not in
it:

* `OldestFirst`: the slot of an index is found by the capacity that all sparse
  buffers have in common, the live slots hold the positions below `size_`, each
  once, and each lies in the buffer of the position's number, so that buffers
  that empty do so from the tail;
* `Names`: the caller holds exactly the indices of live slots, and the row a slot
  leads to is of the entity its index was returned for.

`OldestFirst` is what is missing for other callers: a slot left stale has a
position that is no longer below `size_`, or that is another row's. The proof
takes each function of the code by itself. `TakenLives`: after *k* turns
of `TakeMany`'s or `RemoveMany`'s loop the first *k* slots of the list are
cleared and their positions are what was found; since the list is the newest,
these are the last positions, in some order (`InBlock`). `Reduced`: whatever that
order, the removals leave the rows before them as they were, and `RowsReturned`: the
rows moved to the target are those of the indices, in the order of the list. `SlotPushed`: the
slot filled is of the buffer the new position belongs to, as the
buffers before it are full. `LookupFinds` gives the theorems: the lookup that
`Names` speaks of finds its row (`NewestFirstFinds`), with all its checks true, and
the table of what lookups answer is what `EntityStore` promises
(`NewestFirstImplements`), step by step until a check fails. That
`OnlyEmptyBufferFails` is invariant is `NewestFirstFailsOnly`: with a list of the
newest, every route, slot and row that a removal or a taking looks for is there
(`TakenLives`, `Reduced`), so that the only check left is the one on the size of a
target buffer; and `TakeStops` says that it fails only if the batch fills two
or more of them exactly. A batch is of any size, so the theorem speaks of the
repository's own test that takes 2048 rows, as of any other.

`UnitsFit` has two parts. A row is no wider than a full-sized buffer, and a
full-sized sparse buffer has two slots. The second is true of the code, whose slots
have ten bytes and whose full-sized buffers 16 KiB. The first restricts the use of
the code, which does not check it, and cannot be left out: without it the check
fails that `MCArchetypeWide.cfg` breaks.

**TypeSetProofs.** For every finite set of types, every way they share mask bits,
and components of any sizes and alignments, of two alignments the greater a
multiple of the other, as the constructor asserts with `IsPowerOfTwo`. `IInv` says
that the array lists the set in order (`Lists`) and the mask has its bits.
What keeps it is that `LowerBound` splits an ordered array (`LowerBoundSplits`),
so that an insertion there shifts only greater types. Of the queries each loop has
an invariant. `Passed`, of `Without(set)`: every type seen so far differs from every type
of the set, and those of the set before the iterator are below every type still to come.
`Matched`, of `With(set)`: whatever the iterator has passed is in this set, so
that accepting is always right, whatever was read past the end. `Walking`: if the set is a
subset that has the greatest type, the iterator does not reach the end before
the loop does. For other subsets the claim is false, as `MCTypeSetWith.cfg` shows.

For the descriptor the invariant is `DInv`. `Read` is the constructor's loop: the
components before `iter` are there once and are the type set, and the list still
has every component that was given, since what `SwapRemove` drops is one met before.
`LaidOut` is the row: `PlacedRow` shows by induction over the list, in
whatever order the sort leaves it, that each component begins aligned and behind the
one before, and that the row's size is a multiple of every alignment. A buffer
needs no invariant but that its size is a natural: `Capacity` rows of components and of
entity ids fit in it whatever it is (`RoomForRows`), and so `LayoutSound`
follows for any number of rows by arithmetic on multiples.

**ArrayProofs.** For any arrays, things and bounds, for owners and for plain
values at once. `ArrayInv` says that every place in use of an array has an
object and that no call has used a place without one; what is behind the last
place in use may be raw, destructed or left constructed, and the invariant says
nothing of it. For each function there is a lemma on a sound array `w`: what it
leaves is sound, what values it has in which order, and what its destructors have
released (`Gives`). Where the function is a loop, the lemma is an induction by
`FoldSteps`: `ShiftedBy` says where the elements are after *k* turns of `Insert`'s
loop, which destructs an object just before the next one is moved there, and
`CopyGives` that after *k* turns of the copying loop the first *k* values are
there. `OwnersInv` is `Once`: a thing is in one sequence, once, or released, or with
the caller. It needs that the caller gives away what it has only, and that
`set_capacity` cuts no owners, which is false of the code (`ArrayCut.cfg`); the
theorem `OwnedOnce` says so by its hypothesis `~CutsOwners`. Each call is then
a change of one sequence (`Moves`) with what was released, given and taken
(`Turns`), and both the invariant and the step of `ValueSeqs` follow from that; only
a move between two arrays changes two (`OnceMoved`). `ArrayImplements` needs
`ArrayInv` only, so it holds for arrays that are cut as well.

**SharedPtrProofs.** `IInv` is the types, `CountsExact` and `ObjectFollowsRef`:
the object is live exactly while the reference count is positive, and the thread
in its destructor took the count to zero. `SharedKeepsAlive`, `OnlyOneDeleter`,
`DeadStaysDead` and the refinement of `Ownership` follow from it. `NothingLeaks`
needs more: some thread is always on its way to free what is left
(`Pending` in the module); `LocalIsSafe` needs that with
one thread the counters' memory follows from where that thread is
(`CellsFollowPc`).

**ObservedAsyncProofs.** The same shape: `IInv` has the exact observer count, the
flag that follows the object, one owner, and the lock's holders excluding each
other; `GuardKeepsObject` and the refinement of `Monitored` follow.
`ObservedNothingLeaks` is as above. `ObservedLocalIsSafe` is for one thread, with
or without handles inside the object: there the last observer of a dying object
asks for the lock before it could free anything, and fails.

**ObservedLocalProofs.** `IInv` is the types, the exact count, `OnlyDestructorFaults`,
the flag that follows the object (`FlagFollowsObject`), one owner, which is no
member of the object (`OneOwner`), one `Reset` at a time (`OneReset`), and
`FreedLast`: flag and count are freed only when nobody observes, never under a
live object, and after its deletion exactly when nobody observes. `FreedLast`
is what the safety of an observer's release rests on: an observer that is not
null keeps the count positive, so only the owner in its own destructor can
meet freed memory. How a count changes when one or two handles change is in
`DataFacts`, which `ObservedAsyncProofs` uses too.

**Only model-checked:**

* `ComponentRows`, all its properties: an inductive invariant has to follow each
  component from its box through the bundle to its cell, and is not written yet;
* `HashSet`, `HashMap` and `World`: most of their properties hold for tables where
  hash bits agree and buckets are short, as the run's constants make them, so a
  theorem for all constants would be false; `ChainsBreakOnlyThere`, which is
  meant for all of them, is not proved yet;
* liveness (`Reclaimed`, `ResetsReturn`), which is beyond the prover.

## 5. Not modelled

* **Array:** copyable elements that own something (`Remove` and `Take` leave the
  last one constructed behind the end and never destruct it, `array.hpp:316`),
  arguments that refer into the array, and the allocation of no slots that
  `ShrinkToFit` of an empty array makes.
* **Component lifetime:** what a destructor or a move makes of raw memory; a bundle
  without a component the archetype has, which fails a check.
* **ObservedAsync, SharedPtr:** the calls of an object's destructor that take no
  lock, on the handle that deletes the object (section 2).
* **Box, Optional:** the type check of a typed access, and Optionals of anything
  but a box; they hold one value and no more.
* **ArchetypeDescriptor:** the empty list (above), and 16-bit capacities.
* **World:** a `Res` kept by a system while another call replaces the resource;
  no code runs systems yet.
* **SinglyLinkedList:** the operations `HashSet` does not use, among them the
  list's own iteration, move and clear.
* **Guards as objects:** several guards to a thread, and a guard passed to
  another thread, which the native lock does not allow.
* **Native locks, allocation:** the operating system's; assumed to work.
* **EntityManager, systems, queries, Plugin:** stubs without behaviour.
* **Owned, compile-time utilities:** no state worth a model.
* **Exceptions and failed allocations:** the code does not handle them.
* **Memory orders:** all shared state is accessed under locks, except the reads
  that the fault models cover by ending the behaviour.

## 6. Plan

Done, in this order: sparse buffer, archetype, Shared/Weak, ObservedAsync,
ObservedLocal, HashSet and HashMap, TypeSet, Array, component lifetime; proofs for
the first two (the archetype for any caller, then for the newest-first one), for
the two multi-threaded protocols, for ObservedLocal, for TypeSet and the
descriptor, and for Array.

Then, with the same modules extended: boxes and bundles, the descriptor's
layout, the world's resources, destructors that move their owner, and guards
held while the owner is reset.

Next:

1. Proofs: `EachComponentOnce` and `BoxesFreed` for ComponentRows, and
   `ChainsBreakOnlyThere` for HashSet.
2. Copyable owners in `Array`, and the list's own operations in `HashSet`.
