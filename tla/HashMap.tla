------------------------------ MODULE HashMap -------------------------------
(***************************************************************************)
(* mirage::base::HashMap (container/hash_map.hpp): a HashSet of pairs that *)
(* hash and compare by their key, with insertion into a pair found already *)
(* and an index operator that inserts.  The calls of the set that the map  *)
(* does not offer by name stay among its steps: a move assignment clears   *)
(* the set, and the set is the same one.                                   *)
(***************************************************************************)
EXTENDS HashSet

CONSTANT Default   \* Val()

ASSUME HashMapAssumption == Default \in Mark

\* Insert looks the key up once; the set looks it up again to insert it.  Key
\* and value of a pair that is there are moved out and constructed in place.
MapInsert(key, mark) == Replace(key, mark) \/ Insert(key, mark)

\* Remove takes key and value out of the pair that the set returns.
MapRemove(key) == RemoveKey(key)

\* TryFind, and operator[] of a const map.
MapTryFind(key) == Lookup(key)

\* Fault: the default replaces a value that is there.
IndexOverwrites(key) ==
  \/ /\ Running /\ Found(key)
     /\ buckets' = [buckets EXCEPT ![BucketOf(buckets, key)][PlaceOf(buckets, key)].mark = Default]
     /\ inserted' = With(key, Default) /\ asked' = <<key>> /\ reply' = <<Default>>
     /\ UNCHANGED <<size, max_load, dcheck>>
  \/ EmplaceKey(key, Default) /\ reply' = <<Default>>

\* operator[]: a key that is not found is inserted with the default value and
\* looked up again in the table as the insertion left it.
Index(key) ==
  \/ Found(key) /\ Lookup(key)
  \/ /\ EmplaceKey(key, Default)
     /\ reply' = IF dcheck' # "ok" THEN None
                 ELSE <<buckets'[BucketOf(buckets', key)][PlaceOf(buckets', key)].mark>>

MapNext ==
  \/ \E key \in Key, mark \in Mark : MapInsert(key, mark)
  \/ \E key \in Key : MapRemove(key) \/ MapTryFind(key) \/ Index(key)
  \/ SetCalls

MapSpec == Init /\ [][MapNext]_vars
=============================================================================
