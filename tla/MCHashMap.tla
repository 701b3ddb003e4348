----------------------------- MODULE MCHashMap ------------------------------
(***************************************************************************)
(* Instances of HashSet, HashMap and World for TLC: keys are small numbers *)
(* and hash to themselves.                                                 *)
(***************************************************************************)
EXTENDS World

SameHash(key) == key

One    == {<<1, 1>>}
Halves == {<<1, 2>>, <<1, 1>>}
Tenth  == {<<1, 10>>, <<1, 1>>}
Twos   == {<<2, 1>>, <<1, 1>>}

\* A HashSet, without a map around it.
SetSpec == WorldInit /\ ~in_world /\ [][Next /\ UNCHANGED world_vars]_<<vars, world_vars>>

\* A World.
OnlyWorldSpec == WorldInit /\ in_world = TRUE /\ [][WorldNext]_<<vars, world_vars>>

Promised == INSTANCE KeyedMap WITH
  contents <- [key \in {k \in Key : Found(k)} |-> EntryOf(key).mark]

\* The table implements a map: insertion, replacement, removal, lookup and
\* indexing of keys answer and change what they should, through growth.
ImplementsKeyedMap == Promised!KeyedMapSpec
=============================================================================
