------------------------------ MODULE HashSet -------------------------------
(***************************************************************************)
(* mirage::base::HashSet (container/hash_set.hpp), the table behind        *)
(* HashMap: an array of singly linked buckets, a power of two of them,     *)
(* doubled when the load factor passes max_load_factor_.  An entry has a   *)
(* key, which hashing and equality look at, and the rest of the value.     *)
(* The hash kept with an entry is that of its key.                         *)
(***************************************************************************)
EXTENDS Integers, Sequences, FiniteSets, SequencesExt

CONSTANTS Key, Mark,        \* the two parts of a value
          HashOf(_),        \* the hasher
          InitialBuckets,   \* buckets of a table in use (16 in the code)
          MaxBuckets,       \* the table size that cannot be doubled (2^63)
          LoadFactors,      \* load factors set, as pairs <<num, den>>
          MaxSize           \* bound: size_ for a key to be inserted

ASSUME HashSetAssumption ==
  /\ \A key \in Key : HashOf(key) \in Nat
  /\ InitialBuckets \in Nat \ {0} /\ MaxBuckets >= InitialBuckets /\ MaxSize \in Nat
  /\ \A load \in LoadFactors : load[1] \in Nat /\ load[2] \in Nat \ {0}

VARIABLES buckets,   \* buckets_, each a list of entries; bucket n is at n + 1
          size,      \* size_
          max_load,  \* max_load_factor_
          dcheck,    \* the MIRAGE_DCHECK that failed, which ends the program
          inserted,  \* what the caller inserted and did not remove
          asked,     \* the key the last call was about, as a sequence
          reply      \* the Optional it returned, as a sequence

vars == <<buckets, size, max_load, dcheck, inserted, asked, reply>>
None == <<>>

Init ==
  /\ buckets = <<>> /\ size = 0
  /\ max_load = <<1, 1>>
  /\ dcheck = "ok"
  /\ inserted = <<>> /\ asked = <<>> /\ reply = None

-----------------------------------------------------------------------------
(* SinglyLinkedList (container/singly_linked_list.hpp), as the sequence of  *)
(* its values, head first; the n-th element is what an Iterator after n-1   *)
(* increments stands at.                                                    *)

EmplaceHead(list, val) == <<val>> \o list
RemoveHead(list) == Tail(list)

\* Iterator::RemoveAfter at the n-th element: here_->next becomes null, so
\* what followed the removed node is no longer part of the list.
RemoveAfter(list, n) == SubSeq(list, 1, n)

-----------------------------------------------------------------------------
(* Lookup *)

\* buckets_[hash & mask], the number of buckets being a power of two.
BucketOf(table, key) == (HashOf(key) % Len(table)) + 1

\* Where the entry of a key is in its bucket; 0 if it is not there.
PlaceOf(table, key) ==
  SelectInSeq(table[BucketOf(table, key)], LAMBDA entry : entry.key = key)

\* TryFind
Found(key) == size # 0 /\ PlaceOf(buckets, key) # 0
EntryOf(key) == buckets[BucketOf(buckets, key)][PlaceOf(buckets, key)]

-----------------------------------------------------------------------------
(* Growth *)

Overloaded(n, table, load) == n * load[2] > load[1] * Len(table)

\* The bit of the hash that ExtendAndRehash looks at.
IntoNewBucket(entry, new_size) == (HashOf(entry.key) \div new_size) % 2 = 1

\* Fault: iter_prev stays at the head that has been removed.
WalkLeavesPrev(walk, entry, new_size) ==
  LET moves == IntoNewBucket(entry, new_size)
  IN CASE ~walk.ok -> walk
       [] walk.ok /\ ~moves ->
            [walk EXCEPT !.kept = Append(@, entry), !.at = "before"]
       [] walk.ok /\ moves /\ walk.at # "cut" ->
            [walk EXCEPT !.moved = EmplaceHead(@, entry), !.at = "cut"]
       [] walk.ok /\ moves /\ walk.at = "cut" ->
            [walk EXCEPT !.ok = FALSE]

\* One entry of the walk through an old bucket.  at says how iter_prev stands
\* to iter: "same" (both at the head), "before" (its next is iter), or "cut"
\* (RemoveAfter has set its next to null).  From the first cut on the walk is
\* no longer in the bucket, and the entries that stay behind are lost.
WalkEntry(walk, entry, new_size) ==
  LET moves == IntoNewBucket(entry, new_size)
      stays_in_list == walk.attached
  IN CASE ~walk.ok -> walk
       [] walk.ok /\ ~moves ->
            [walk EXCEPT !.kept = IF stays_in_list THEN Append(@, entry) ELSE @,
                         !.at = "before"]
       [] walk.ok /\ moves /\ walk.at = "same" ->
            [walk EXCEPT !.moved = EmplaceHead(@, entry)]
       [] walk.ok /\ moves /\ walk.at = "before" ->
            [walk EXCEPT !.moved = EmplaceHead(@, entry), !.at = "cut", !.attached = FALSE]
       [] walk.ok /\ moves /\ walk.at = "cut" ->
            [walk EXCEPT !.ok = FALSE]

Walk(bucket, new_size) ==
  FoldLeft(LAMBDA walk, entry : WalkEntry(walk, entry, new_size),
           [kept |-> <<>>, moved |-> <<>>, at |-> "same", attached |-> TRUE, ok |-> TRUE],
           bucket)

\* ExtendAndRehash: entries of an old bucket go to the new bucket beside it.
Extended(table) ==
  LET old_size == Len(table)
      walks == [n \in 1 .. old_size |-> Walk(table[n], 2 * old_size)]
  IN IF old_size >= MaxBuckets THEN [table |-> table, ok |-> TRUE]
     ELSE [table |-> [n \in 1 .. old_size |-> walks[n].kept] \o
                     [n \in 1 .. old_size |-> walks[n].moved],
           ok |-> \A n \in 1 .. old_size : walks[n].ok]

Grown(table, n, load) ==
  IF Overloaded(n, table, load) THEN Extended(table) ELSE [table |-> table, ok |-> TRUE]

-----------------------------------------------------------------------------
(* Operations *)

Running == dcheck = "ok"

Settle(grown) == dcheck' = IF grown.ok THEN "ok" ELSE "RemoveAfter"

With(key, mark) ==
  [k \in DOMAIN inserted \cup {key} |-> IF k = key THEN mark ELSE inserted[k]]
Without(key) == [k \in DOMAIN inserted \ {key} |-> inserted[k]]

\* Insert of a key that TryFind finds: the value is replaced where it is.
Replace(key, mark) ==
  LET entry == EntryOf(key)
  IN /\ Running /\ Found(key)
     /\ buckets' = [buckets EXCEPT ![BucketOf(buckets, key)][PlaceOf(buckets, key)].mark = mark]
     /\ reply' = <<entry.mark>>
     /\ inserted' = With(key, mark) /\ asked' = <<key>>
     /\ UNCHANGED <<size, max_load, dcheck>>

\* A key that is not there goes to the head of its bucket, after growth if it
\* takes the load factor over the limit.
EmplaceKey(key, mark) ==
  LET table == IF buckets = <<>> THEN [n \in 1 .. InitialBuckets |-> <<>>] ELSE buckets
      grown == Grown(table, size + 1, max_load)
  IN /\ Running /\ ~Found(key) /\ size < MaxSize
     /\ size' = size + 1
     /\ Settle(grown)
     /\ buckets' = IF ~grown.ok THEN grown.table
                   ELSE [grown.table EXCEPT ![BucketOf(grown.table, key)] =
                           EmplaceHead(@, [key |-> key, mark |-> mark])]
     /\ inserted' = With(key, mark) /\ asked' = <<key>>
     /\ UNCHANGED max_load

\* Insert of a key that TryFind does not find.
Insert(key, mark) == EmplaceKey(key, mark) /\ reply' = None

\* A bucket without its n-th entry, as Remove and Iterator::Remove leave it.
RemoveEntry(bucket, n) == IF n = 1 THEN RemoveHead(bucket) ELSE RemoveAfter(bucket, n - 1)

\* Remove (of a key)
RemoveKey(key) ==
  /\ Running
  /\ IF Found(key)
     THEN /\ buckets' = [buckets EXCEPT ![BucketOf(buckets, key)] =
                           RemoveEntry(@, PlaceOf(buckets, key))]
          /\ size' = size - 1
          /\ reply' = <<EntryOf(key).mark>>
     ELSE reply' = None /\ UNCHANGED <<buckets, size>>
  /\ inserted' = Without(key) /\ asked' = <<key>>
  /\ UNCHANGED <<max_load, dcheck>>

Lookup(key) ==
  /\ Running
  /\ asked' = <<key>>
  /\ reply' = IF Found(key) THEN <<EntryOf(key).mark>> ELSE None
  /\ UNCHANGED <<buckets, size, max_load, dcheck, inserted>>

\* Clear, and a move to another set seen from the old one.
Clear ==
  /\ Running
  /\ buckets' = <<>> /\ size' = 0
  /\ asked' = <<>> /\ reply' = None /\ inserted' = <<>>
  /\ UNCHANGED <<max_load, dcheck>>

\* SetMaxLoadFactor: 0 / 0, for a table without buckets, exceeds nothing.
SetMaxLoadFactor(load) ==
  LET grown == Grown(buckets, size, load)
  IN /\ Running
     /\ max_load' = load
     /\ Settle(grown) /\ buckets' = grown.table
     /\ asked' = <<>> /\ reply' = None
     /\ UNCHANGED <<size, inserted>>

-----------------------------------------------------------------------------
(* Iteration: a position is a bucket number and a place in its list. *)

Begin == IF size = 0 THEN <<Len(buckets) + 1, 0>>
         ELSE IF buckets[1] # <<>> THEN <<1, 1>>
         ELSE LET later == {b \in 1 .. Len(buckets) : buckets[b] # <<>>}
              IN IF later = {} THEN <<Len(buckets) + 1, 0>> ELSE <<Min(later), 1>>

\* Fault: the bucket iterator is moved twice before the loop looks at it.
AfterSkipping(position) ==
  LET later == {b \in position[1] + 2 .. Len(buckets) : buckets[b] # <<>>}
  IN IF position[2] < Len(buckets[position[1]]) THEN <<position[1], position[2] + 1>>
     ELSE IF later = {} THEN <<Len(buckets) + 1, 0>>
     ELSE <<Min(later), 1>>

\* operator++
After(position) ==
  LET later == {b \in position[1] + 1 .. Len(buckets) : buckets[b] # <<>>}
  IN IF position[2] < Len(buckets[position[1]]) THEN <<position[1], position[2] + 1>>
     ELSE IF later = {} THEN <<Len(buckets) + 1, 0>>
     ELSE <<Min(later), 1>>

\* The positions a loop from begin() to end() goes through.
Visited ==
  LET at[n \in 0 .. Cardinality(DOMAIN inserted) + 1] ==
        IF n = 0 THEN Begin
        ELSE IF at[n - 1][1] > Len(buckets) THEN at[n - 1] ELSE After(at[n - 1])
  IN [n \in 0 .. Cardinality(DOMAIN inserted) |-> at[n]]

\* Fault: the set is not told that it has an entry less.
IteratorRemoveUncounted(position) ==
  LET entry == buckets[position[1]][position[2]]
      next  == After(position)
  IN /\ Running
     /\ buckets' = [buckets EXCEPT ![position[1]] = RemoveEntry(@, position[2])]
     /\ reply' = <<entry.mark>> \o
                 (IF next[1] > Len(buckets) THEN <<>> ELSE <<buckets[next[1]][next[2]].key>>)
     /\ inserted' = Without(entry.key) /\ asked' = <<entry.key>>
     /\ UNCHANGED <<size, max_load, dcheck>>

\* Iterator::Remove of the entry at a position: the iterator steps on before
\* the entry goes.  reply is the value, and then the key it has moved to.
IteratorRemove(position) ==
  LET entry == buckets[position[1]][position[2]]
      next  == After(position)
  IN /\ Running
     /\ buckets' = [buckets EXCEPT ![position[1]] = RemoveEntry(@, position[2])]
     /\ size' = size - 1
     /\ reply' = <<entry.mark>> \o
                 (IF next[1] > Len(buckets) THEN <<>> ELSE <<buckets[next[1]][next[2]].key>>)
     /\ inserted' = Without(entry.key) /\ asked' = <<entry.key>>
     /\ UNCHANGED <<max_load, dcheck>>

Positions == {<<b, n>> \in (1 .. Len(buckets)) \X (1 .. Cardinality(Key)) :
                n <= Len(buckets[b])}

\* What a HashMap does not offer, or offers under no name of its own.
SetCalls ==
  \/ \E position \in Positions : IteratorRemove(position)
  \/ \E load \in LoadFactors : SetMaxLoadFactor(load)
  \/ Clear

Next ==
  \/ \E key \in Key, mark \in Mark : Replace(key, mark) \/ Insert(key, mark)
  \/ \E key \in Key : RemoveKey(key) \/ Lookup(key)
  \/ SetCalls

Spec == Init /\ [][Next]_vars

-----------------------------------------------------------------------------
(* Properties *)

Entries == {buckets[p[1]][p[2]] : p \in Positions}

\* The types of the variables.
TypeOK ==
  /\ \A b \in DOMAIN buckets : buckets[b] \in Seq([key : Key, mark : Mark])
  /\ size \in Nat
  /\ max_load \in LoadFactors \cup {<<1, 1>>}
  /\ dcheck \in {"ok", "RemoveAfter"}
  /\ inserted \in [DOMAIN inserted -> Mark] /\ DOMAIN inserted \subseteq Key

\* Whatever was inserted and not removed is found, with its value, and nothing
\* else is: through replacement, removal by key or iterator, growth and Clear.
InsertedIsFound ==
  Running =>
    /\ {key \in Key : Found(key)} = DOMAIN inserted
    /\ \A key \in DOMAIN inserted : Found(key) => EntryOf(key).mark = inserted[key]

\* size_ is the number of entries in the buckets.
SizeExact == Running => size = Cardinality(Positions)

\* A loop from begin() to end() visits every inserted key once, whatever
\* buckets are empty.
IterationComplete ==
  Running =>
    LET seen == {n \in DOMAIN Visited : Visited[n][1] <= Len(buckets)}
    IN /\ \A key \in DOMAIN inserted :
            \E n \in seen : buckets[Visited[n][1]][Visited[n][2]].key = key
       /\ Cardinality(seen) = Cardinality(DOMAIN inserted)

\* Each removal through the list's iterator finds an element to remove.
NoDcheckFails == Running

\* Of an entry of a table that doubles: whether ExtendAndRehash moves it to the
\* new bucket, and whether a lookup will look for it there.
Moves(entry) == IntoNewBucket(entry, 2 * Len(buckets))
BelongsThere(entry) == (HashOf(entry.key) \div Len(buckets)) % 2 = 1

Doubles == buckets # <<>> /\ Len(buckets') = 2 * Len(buckets)

\* A bucket that the walk of ExtendAndRehash cannot get through.
Stuck(bucket) ==
  \E n \in 1 .. Len(bucket) - 2 :
    ~Moves(bucket[n]) /\ Moves(bucket[n + 1]) /\ Moves(bucket[n + 2])

\* The entry at a place of a bucket that is lost when the table doubles: the
\* two bits of its hash differ, or it stays, behind one that moves, behind
\* another one that stays.
LostInGrowth(bucket, place) ==
  \/ Moves(bucket[place]) # BelongsThere(bucket[place])
  \/ /\ ~Moves(bucket[place])
     /\ \E n, k \in 1 .. place - 1 : n < k /\ ~Moves(bucket[n]) /\ Moves(bucket[k])

\* The one that is lost with an entry of the key removed: it stands behind that
\* entry, which is not the bucket's first.
LostInRemoval(bucket, place) ==
  \E n \in 2 .. place - 1 : asked' = <<bucket[n].key>>

\* Where chains break.  Growth fails the check of RemoveAfter if there is a
\* bucket with one entry that stays and two after it that move, and no call
\* fails it else; and an entry found before a call is found after it, if it is
\* not removed, but for those that growth and a removal in its chain lose.
ChainsBreakOnlyThere ==
  [][/\ ~Running' <=> Doubles /\ \E b \in DOMAIN buckets : Stuck(buckets[b])
     /\ \A key \in DOMAIN inserted \cap DOMAIN inserted' :
          Running' /\ Found(key) /\ ~Found(key)' =>
            LET bucket == buckets[BucketOf(buckets, key)]
                place  == PlaceOf(buckets, key)
            IN IF Doubles THEN LostInGrowth(bucket, place)
               ELSE size' < size /\ LostInRemoval(bucket, place)]_vars
=============================================================================
