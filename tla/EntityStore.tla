---------------------------- MODULE EntityStore -----------------------------
(***************************************************************************)
(* What an Archetype promises its caller: a container that hands out an    *)
(* index for each entity pushed; until that index is removed it names that *)
(* entity, whatever happens to the others.                                 *)
(***************************************************************************)
EXTENDS Naturals, Sequences, SequencesExt

CONSTANTS Entity, Index, MaxBatch

VARIABLES store,   \* the entity each index in use names
          asked,   \* the argument of the last operation
          reply    \* what it returned

storeVars == <<store, asked, reply>>

StoreInit ==
  /\ store = <<>>
  /\ asked = <<>> /\ reply = <<>>

\* The index that is returned was not in use; it comes to name the entity.
StorePush(entity) ==
  /\ asked' = <<entity>>
  /\ Len(reply') = 1 /\ reply'[1] \in Index \ DOMAIN store
  /\ store' = [i \in DOMAIN store \cup {reply'[1]} |->
                 IF i = reply'[1] THEN entity ELSE store[i]]

StoreLookup(index) ==
  /\ asked' = <<index>> /\ reply' = <<store[index]>>
  /\ UNCHANGED store

StoreDrop(index_list) ==
  /\ asked' = index_list
  /\ store' = [i \in DOMAIN store \ ToSet(index_list) |-> store[i]]

StoreRemove(index_list) ==
  /\ StoreDrop(index_list)
  /\ reply' = <<>>

\* The entities taken come back in the order of the indices.
StoreTake(index_list) ==
  /\ StoreDrop(index_list)
  /\ reply' = [n \in DOMAIN index_list |-> store[index_list[n]]]

StoreNext ==
  \/ \E entity \in Entity : StorePush(entity)
  \/ \E index \in DOMAIN store : StoreLookup(index)
  \/ \E n \in 1 .. MaxBatch : \E index_list \in [1 .. n -> DOMAIN store] :
       StoreRemove(index_list) \/ StoreTake(index_list)

StoreSpec == StoreInit /\ [][StoreNext]_storeVars
=============================================================================
