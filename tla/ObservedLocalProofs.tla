------------------------ MODULE ObservedLocalProofs ------------------------
(***************************************************************************)
(* Theorems about ObservedLocal for any number of handles, inside the      *)
(* object and outside, and any destructor: the observers are counted, an   *)
(* observer tells the truth, and nothing leaks or is used after it is      *)
(* freed but in a destructor that drops or moves what its own deletion     *)
(* still needs.                                                            *)
(***************************************************************************)
EXTENDS ObservedLocal, FiniteSetTheorems, TLAPS

INSTANCE DataFacts WITH Op <- +

-----------------------------------------------------------------------------
(* The inductive invariant. *)

\* The flag is up once the object is not live.
FlagFollowsObject == is_null <=> object # "live"

\* One handle owns the object until it is deleted; it is not a member of the
\* object, and it is there while the object lives.
OneOwner ==
  /\ \A h, g \in Handle : kind[h] = "owner" /\ kind[g] = "owner" => h = g
  /\ \A h \in Handle : kind[h] = "owner" => object # "deleted"
  /\ object = "live" => \E h \in Handle : kind[h] = "owner"

\* The object is in its destructor exactly during the Reset of one owner.
OneReset ==
  /\ object = "destroying" <=> resetting # {}
  /\ \A g, h \in resetting : g = h

\* Flag and count are freed only when nobody observes, never under a live
\* object, and after its deletion exactly when nobody observes any more.
FreedLast ==
  /\ freed => object # "live" /\ cnt = 0
  /\ object = "deleted" => (freed <=> cnt = 0)

\* The inductive invariant.
IInv ==
  /\ TypeOK /\ ObserversCounted /\ OnlyDestructorFaults
  /\ FlagFollowsObject /\ OneOwner /\ OneReset /\ FreedLast

\* ObserversCounted says of kind what Observers says of its argument.
LEMMA CountedAsObservers == ObserversCounted <=> cnt = Observers(Handle, kind)
BY DEF ObserversCounted, Holding, Observers, Held

\* The invariant holds in the state ObservedLocal::New leaves.
LEMMA InitIInv == Init => IInv
<1> SUFFICES ASSUME Init PROVE IInv
  OBVIOUS
<1>1. PICK h \in Handle \ Member :
        kind = [g \in Handle |-> IF g = h THEN "owner" ELSE "null"]
  BY DEF Init
<1>2. TypeOK
  BY DEF Init, TypeOK
<1>3. ObserversCounted
  <2>1. Holding("observer") = {}
    BY <1>1 DEF Holding
  <2>2. QED BY <2>1, FS_EmptySet DEF Init, ObserversCounted
<1>4. OneOwner
  BY <1>1 DEF Init, OneOwner
<1>5. OnlyDestructorFaults /\ FlagFollowsObject /\ OneReset /\ FreedLast
  BY DEF Init, OnlyDestructorFaults, FlagFollowsObject, OneReset, FreedLast
<1>6. QED BY <1>2, <1>3, <1>4, <1>5 DEF IInv

\* A step that records a fault and changes nothing else keeps the invariant,
\* if it is a bad access in the destructor or a conversion.
LEMMA FaultIInv ==
  ASSUME IInv, fault' \in {"none", "freed", "null", "dead_cast"},
         fault' \in {"freed", "null"} => object = "destroying",
         UNCHANGED <<kind, cnt, is_null, object, freed, resetting>>
  PROVE  IInv'
BY DEF IInv, TypeOK, ObserversCounted, Holding, OnlyDestructorFaults, FlagFollowsObject,
       OneOwner, OneReset, FreedLast

\* A call that looks at the flag or the count finds them freed only in the
\* destructor, and through the owner.
LEMMA FreedSeen ==
  ASSUME IInv, NEW h \in Handle, kind[h] # "null", freed
  PROVE  kind[h] = "owner" /\ object = "destroying"
<1>1. kind[h] # "observer"
  <2>1. kind \in [Handle -> Kind] /\ cnt = Observers(Handle, kind) /\ cnt = 0
    BY CountedAsObservers DEF IInv, TypeOK, Kind, FreedLast
  <2>2. QED BY <2>1, ClearObserver, LocalAssumption
<1>2. kind[h] = "owner"
  BY <1>1 DEF IInv, TypeOK
<1>3. QED BY <1>2 DEF IInv, TypeOK, OneOwner, FreedLast

\* Every step keeps the invariant.
LEMMA NextIInv == IInv /\ [Next]_vars => IInv'
<1> SUFFICES ASSUME IInv, [Next]_vars PROVE IInv'
  OBVIOUS
<1>1. /\ cnt = Observers(Handle, kind) /\ kind \in [Handle -> Kind] /\ cnt \in Nat
      /\ IsFiniteSet(Handle)
  BY CountedAsObservers, LocalAssumption DEF IInv, TypeOK, Kind
<1>2. ObserversCounted' <=> cnt' = Observers(Handle, kind')
  BY DEF ObserversCounted, Holding, Observers, Held
<1>3. ASSUME NEW h \in Handle, NEW d \in Handle, NewObserver(h, d) \/ Clone(h, d)
      PROVE  IInv'
  <2>1. CASE freed
    <3>1. object = "destroying"
      BY <1>3, <2>1, FreedSeen DEF NewObserver, Clone
    <3>2. QED BY <1>3, <2>1, <3>1, FaultIInv DEF NewObserver, Clone, Using
  <2>2. CASE ~freed
    <3>1. kind[h] = "observer" => cnt # 0
      BY <1>1, ClearObserver
    <3>2. /\ kind[d] = "null" /\ kind' = [kind EXCEPT ![d] = "observer"] /\ cnt' = cnt + 1
          /\ UNCHANGED <<is_null, object, freed, resetting, fault>>
      BY <1>3, <2>2, <3>1 DEF NewObserver, Clone, Using, Settable
    <3>3. kind[h] = "owner" \/ cnt # 0
      BY <1>3, <3>1 DEF NewObserver, Clone
    <3>4. TypeOK'
      BY <1>1, <3>2 DEF IInv, TypeOK
    <3>5. ObserversCounted'
      BY <1>1, <1>2, <3>2, SetObserver
    <3>6. OneOwner'
      BY <1>1, <3>2 DEF IInv, OneOwner
    <3>7. FreedLast'
      BY <1>1, <2>2, <3>2, <3>3 DEF IInv, OneOwner, FreedLast
    <3>8. OnlyDestructorFaults' /\ FlagFollowsObject' /\ OneReset'
      BY <3>2 DEF IInv, OnlyDestructorFaults, FlagFollowsObject, OneReset
    <3>9. QED BY <3>4, <3>5, <3>6, <3>7, <3>8 DEF IInv
  <2>3. QED BY <2>1, <2>2
<1>4. ASSUME NEW h \in Handle, NEW d \in Handle, MoveOwner(h, d) \/ MoveObserver(h, d)
      PROVE  IInv'
  <2>1. /\ kind[d] = "null" /\ kind[h] # "null"
        /\ kind' = [kind EXCEPT ![d] = kind[h], ![h] = "null"]
        /\ UNCHANGED <<cnt, is_null, object, freed, resetting, fault>>
    BY <1>1, <1>4 DEF MoveOwner, MoveObserver, Settable
  <2>2. /\ kind[d] = "null" /\ kind[h] # "null"
        /\ kind' \in [Handle -> Kind] /\ kind'[d] = kind[h] /\ kind'[h] = "null"
        /\ \A e \in Handle \ {h, d} : kind'[e] = kind[e]
    BY <1>1, <2>1
  <2>3. TypeOK'
    BY <2>1, <2>2 DEF IInv, TypeOK, Kind
  <2>4. ObserversCounted'
    <3>1. Observers(Handle, kind') = Observers(Handle, kind)
      BY <1>1, <2>2, MovedObservers
    <3>2. QED BY <1>1, <1>2, <2>1, <3>1
  <2>5. OneOwner'
    BY <1>1, <2>1, <2>2 DEF IInv, OneOwner
  <2>6. OnlyDestructorFaults' /\ FlagFollowsObject' /\ OneReset' /\ FreedLast'
    BY <2>1 DEF IInv, OnlyDestructorFaults, FlagFollowsObject, OneReset, FreedLast
  <2>7. QED BY <2>3, <2>4, <2>5, <2>6 DEF IInv
<1>5. ASSUME NEW h \in Handle, CastDead(h) \/ QueryOwner(h) \/ QueryObserver(h)
      PROVE  IInv'
  <2>1. CASE CastDead(h)
    BY <2>1, FaultIInv DEF CastDead
  <2>2. CASE QueryOwner(h) \/ QueryObserver(h)
    <3>1. freed => object = "destroying"
      BY <2>2, FreedSeen DEF QueryOwner, QueryObserver
    <3>2. /\ UNCHANGED <<kind, cnt, is_null, object, freed, resetting>>
          /\ fault = "none" /\ fault' \in {"none", "freed"} /\ (fault' = "freed" => freed)
      BY <2>2 DEF QueryOwner, QueryObserver, Using
    <3>3. QED BY <3>1, <3>2, FaultIInv
  <2>3. QED BY <1>5, <2>1, <2>2
<1>6. ASSUME NEW h \in Handle, ReleaseObserver(h)
      PROVE  IInv'
  <2>1. kind[h] = "observer" /\ cnt # 0 /\ ~freed
    BY <1>1, <1>6, ClearObserver, FreedSeen DEF ReleaseObserver
  <2>2. /\ cnt' = cnt - 1 /\ kind' = [kind EXCEPT ![h] = "null"]
        /\ freed' = (cnt' = 0 /\ is_null)
        /\ UNCHANGED <<is_null, object, resetting, fault>>
    BY <1>6, <2>1 DEF ReleaseObserver, Using
  <2>3. TypeOK'
    BY <1>1, <2>1, <2>2 DEF IInv, TypeOK
  <2>4. ObserversCounted'
    BY <1>1, <1>2, <2>1, <2>2, ClearObserver
  <2>5. OneOwner'
    BY <1>1, <2>1, <2>2 DEF IInv, OneOwner
  <2>6. FreedLast'
    BY <2>2 DEF IInv, FlagFollowsObject, FreedLast
  <2>7. OnlyDestructorFaults' /\ FlagFollowsObject' /\ OneReset'
    BY <2>2 DEF IInv, OnlyDestructorFaults, FlagFollowsObject, OneReset
  <2>8. QED BY <2>3, <2>4, <2>5, <2>6, <2>7 DEF IInv
<1>7. ASSUME NEW h \in Handle, BeginReset(h)
      PROVE  IInv'
  <2>1. /\ kind[h] = "owner" /\ object = "live" /\ ~freed
    BY <1>7 DEF IInv, BeginReset, FlagFollowsObject, FreedLast
  <2>2. /\ is_null' = TRUE /\ object' = "destroying" /\ resetting' = {h}
        /\ UNCHANGED <<kind, cnt, freed, fault>>
    BY <1>7, <2>1 DEF BeginReset, Using
  <2>3. TypeOK' /\ OneReset' /\ FlagFollowsObject' /\ FreedLast' /\ OnlyDestructorFaults'
    BY <2>1, <2>2 DEF IInv, TypeOK, OneReset, FlagFollowsObject, FreedLast, OnlyDestructorFaults
  <2>4. ObserversCounted' /\ OneOwner'
    BY <2>2 DEF IInv, ObserversCounted, Holding, OneOwner
  <2>5. QED BY <2>3, <2>4 DEF IInv
<1>8. ASSUME NEW h \in Handle, EndNullOwner(h)
      PROVE  IInv'
  <2>1. kind[h] = "owner" /\ object = "destroying"
    BY <1>8 DEF IInv, TypeOK, EndNullOwner, FlagFollowsObject, OneOwner
  <2>2. CASE freed
    BY <1>8, <2>1, <2>2, FaultIInv DEF EndNullOwner, Using
  <2>3. CASE ~freed
    <3>1. /\ kind' = [kind EXCEPT ![h] = "null"]
          /\ UNCHANGED <<cnt, is_null, object, freed, resetting, fault>>
      BY <1>8, <2>3 DEF EndNullOwner, Using
    <3>2. TypeOK'
      BY <3>1 DEF IInv, TypeOK
    <3>3. ObserversCounted'
      BY <1>1, <1>2, <2>1, <3>1, SameObservers
    <3>4. OneOwner'
      BY <1>1, <2>1, <3>1 DEF IInv, OneOwner
    <3>5. OnlyDestructorFaults' /\ FlagFollowsObject' /\ OneReset' /\ FreedLast'
      BY <3>1 DEF IInv, OnlyDestructorFaults, FlagFollowsObject, OneReset, FreedLast
    <3>6. QED BY <3>2, <3>3, <3>4, <3>5 DEF IInv
  <2>4. QED BY <2>2, <2>3
<1>9. ASSUME NEW h \in Handle, FinishReset(h)
      PROVE  IInv'
  <2>1. object = "destroying"
    BY <1>9 DEF IInv, FinishReset, OneReset
  <2>2. CASE UNCHANGED <<kind, cnt, is_null, object, freed, resetting>>
    <3>1. fault' \in {"none", "freed", "null"}
      BY <1>9 DEF FinishReset, Using
    <3>2. QED BY <2>1, <2>2, <3>1, FaultIInv
  <2>3. CASE ~UNCHANGED <<kind, cnt, is_null, object, freed, resetting>>
    <3>1. /\ kind[h] = "owner" /\ kind' = [kind EXCEPT ![h] = "null"]
          /\ object' = "deleted" /\ resetting' = {} /\ freed' = (cnt = 0)
          /\ UNCHANGED <<cnt, is_null, fault>> /\ fault = "none"
      BY <1>9, <2>3 DEF FinishReset, Using
    <3>2. TypeOK'
      BY <3>1 DEF IInv, TypeOK
    <3>3. ObserversCounted'
      BY <1>1, <1>2, <3>1, SameObservers
    <3>4. OneOwner'
      BY <1>1, <3>1 DEF IInv, OneOwner
    <3>5. OnlyDestructorFaults' /\ FlagFollowsObject' /\ OneReset' /\ FreedLast'
      BY <2>1, <3>1 DEF IInv, OnlyDestructorFaults, FlagFollowsObject, OneReset, FreedLast
    <3>6. QED BY <3>2, <3>3, <3>4, <3>5 DEF IInv
  <2>4. QED BY <2>2, <2>3
<1>10. CASE UNCHANGED vars
  <2>1. fault' = fault /\ UNCHANGED <<kind, cnt, is_null, object, freed, resetting>>
    BY <1>10 DEF vars
  <2>2. QED BY <2>1, FaultIInv DEF IInv, TypeOK, OnlyDestructorFaults
<1>11. CASE Next
  BY <1>11, <1>3, <1>4, <1>5, <1>6, <1>7, <1>8, <1>9 DEF Next
<1>12. QED BY <1>10, <1>11

\* The invariant holds throughout.
LEMMA AlwaysIInv == Spec => []IInv
BY InitIInv, NextIInv, PTL DEF Spec

-----------------------------------------------------------------------------
(* Safety, for any number of handles. *)

\* Type correctness of ObservedLocal and its observers.
THEOREM LocalTypeCorrect == Spec => []TypeOK
BY AlwaysIInv, PTL DEF IInv

\* The observer count is the number of observers.
THEOREM LocalObserverCountExact == Spec => []ObserversCounted
BY AlwaysIInv, PTL DEF IInv

\* An observer that is not null observes a live object.
THEOREM LocalObserversTellTruth == Spec => []NoDeadAccess
<1>1. IInv => NoDeadAccess
  BY DEF IInv, FlagFollowsObject, NoDeadAccess
<1>2. QED BY <1>1, AlwaysIInv, PTL

\* When no handle is left, object, flag and count have been freed.
THEOREM LocalNothingLeaks == Spec => []NoLeak
<1>1. ASSUME IInv PROVE NoLeak
  <2> SUFFICES ASSUME Holding("null") = Handle, resetting = {}
               PROVE  object = "deleted" /\ freed
    BY DEF NoLeak
  <2>1. \A h \in Handle : kind[h] = "null"
    BY DEF Holding
  <2>2. object = "deleted"
    BY <1>1, <2>1 DEF IInv, TypeOK, OneOwner, OneReset
  <2>3. cnt = 0
    <3>1. Holding("observer") = {}
      BY <2>1 DEF Holding
    <3>2. QED BY <1>1, <3>1, FS_EmptySet DEF IInv, ObserversCounted
  <2>4. QED BY <1>1, <2>2, <2>3 DEF IInv, FreedLast
<1>2. QED BY <1>1, AlwaysIInv, PTL

\* Freed memory and missing pointers are met in the destructor only.
THEOREM LocalFaultsInDestructor == Spec => []OnlyDestructorFaults
BY AlwaysIInv, PTL DEF IInv
=============================================================================
