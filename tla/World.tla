------------------------------- MODULE World --------------------------------
(***************************************************************************)
(* The resources of mirage::ecs::World (mirage_ecs/framework/world.hpp): a *)
(* HashMap from the TypeId of a resource to the box it is in, and Res, the *)
(* reference to one that a system is given.  A behaviour has either a map  *)
(* on its own or the map of a world, of which a caller sees no more than   *)
(* the calls below.                                                        *)
(***************************************************************************)
EXTENDS HashMap

VARIABLES in_world,  \* the map is a world's resource_map_
          answer,    \* what the last call to the world returned, as a sequence:
                     \* a resource's value, "null" for a null reference or pointer
          stopped    \* the MIRAGE_DCHECK of the world's that failed

world_vars == <<in_world, answer, stopped>>

WorldInit == Init /\ in_world \in BOOLEAN /\ answer = None /\ stopped = "no"

\* TryGetResource: the address of what the box has.
TryGetResource(key) ==
  /\ Lookup(key)
  /\ answer' = IF Found(key) THEN <<EntryOf(key).mark>> ELSE <<"null">>
  /\ UNCHANGED stopped

\* GetResource dereferences it unseen.
GetResource(key) == TryGetResource(key)

\* InitResource: what it returns is what it found before it inserted.
InitResource(key, mark) ==
  \/ Found(key) /\ TryGetResource(key)
  \/ Insert(key, mark) /\ answer' = <<"null">> /\ UNCHANGED stopped

\* SetResource: where a resource is replaced the old one is destructed and
\* nothing is returned; where there was none, the pair that is not there is
\* unwrapped.
SetResource(key, mark) ==
  \/ Replace(key, mark) /\ answer' = None /\ UNCHANGED stopped
  \/ Insert(key, mark) /\ answer' = None /\ stopped' = "Unwrap"

\* Extract<Res<T>>::From, which a system's argument is made by.
ExtractRes(key) ==
  /\ Lookup(key)
  /\ answer'  = IF Found(key) THEN <<EntryOf(key).mark>> ELSE <<"null">>
  /\ stopped' = IF Found(key) THEN "no" ELSE "Extract"

WorldCalls ==
  \/ \E key \in Key : TryGetResource(key) \/ GetResource(key) \/ ExtractRes(key)
  \/ \E key \in Key, mark \in Mark : InitResource(key, mark) \/ SetResource(key, mark)

WorldNext ==
  \/ ~in_world /\ MapNext /\ UNCHANGED world_vars
  \/ in_world /\ stopped = "no" /\ WorldCalls /\ UNCHANGED in_world

WorldSpec == WorldInit /\ [][WorldNext]_<<vars, world_vars>>

-----------------------------------------------------------------------------
(* Property *)

\* InitResource returns the resource it makes or finds, and SetResource the one
\* it replaces or nothing, as their return types say.  The code does neither
\* where the resource is new, and SetResource not where it replaces one.
ResourcesAnswered ==
  [][\A key \in Key, mark \in Mark :
       /\ InitResource(key, mark) => answer' = <<inserted'[key]>>
       /\ SetResource(key, mark)  => answer' = reply' /\ stopped' = "no"]_<<vars, world_vars>>
=============================================================================
