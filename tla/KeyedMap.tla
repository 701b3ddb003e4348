------------------------------ MODULE KeyedMap ------------------------------
(***************************************************************************)
(* What a HashSet and a HashMap promise: a mark for each of a set of keys, *)
(* and the mark a call replaced, removed or found as its reply.  A map can *)
(* also be indexed, which gives a key that is not there the default mark.  *)
(***************************************************************************)
EXTENDS Naturals, Sequences

CONSTANTS Key, Mark, Default

VARIABLES contents,  \* the mark of each key
          asked,     \* the key of the last call, if it has one
          reply      \* its answer

keyed == <<contents, asked, reply>>

MarkOf(key) == IF key \in DOMAIN contents THEN <<contents[key]>> ELSE <<>>

KeyedInit == contents = <<>> /\ asked = <<>> /\ reply = <<>>

Put(key, mark) ==
  /\ contents' = [k \in DOMAIN contents \cup {key} |->
                    IF k = key THEN mark ELSE contents[k]]
  /\ asked' = <<key>> /\ reply' = MarkOf(key)

Drop(key) ==
  /\ contents' = [k \in DOMAIN contents \ {key} |-> contents[k]]
  /\ asked' = <<key>> /\ reply' = MarkOf(key)

\* A removal while iterating also tells which key comes next, if any.
DropAndStep(key) ==
  /\ key \in DOMAIN contents /\ asked' = <<key>>
  /\ contents' = [k \in DOMAIN contents \ {key} |-> contents[k]]
  /\ \E next \in {<<>>} \cup {<<k>> : k \in DOMAIN contents'} : reply' = MarkOf(key) \o next

Get(key) == asked' = <<key>> /\ reply' = MarkOf(key) /\ UNCHANGED contents

\* Calls without an answer: Clear, and those that change nothing.
Empty == contents' = <<>> /\ asked' = <<>> /\ reply' = <<>>
Rest  == asked' = <<>> /\ reply' = <<>> /\ UNCHANGED contents

KeyedNext ==
  \/ \E key \in Key : Drop(key) \/ DropAndStep(key) \/ Get(key)
  \/ \E key \in Key, mark \in Mark : Put(key, mark)
  \/ Empty \/ Rest

\* operator[]
GetOrPut(key) ==
  \/ key \in DOMAIN contents /\ Get(key)
  \/ /\ key \notin DOMAIN contents
     /\ contents' = [k \in DOMAIN contents \cup {key} |->
                       IF k = key THEN Default ELSE contents[k]]
     /\ asked' = <<key>> /\ reply' = <<Default>>

KeyedMapNext == KeyedNext \/ \E key \in Key : GetOrPut(key)

KeyedMapSpec == KeyedInit /\ [][KeyedMapNext]_keyed
=============================================================================
