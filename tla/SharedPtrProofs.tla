-------------------------- MODULE SharedPtrProofs --------------------------
(***************************************************************************)
(* Theorems about SharedPtr for any number of threads and handles: the     *)
(* counts are exact, the object lives while a Shared handle exists and     *)
(* never comes back, and one thread alone never uses freed counters.       *)
(***************************************************************************)
EXTENDS SharedPtr, FiniteSetTheorems, TLAPS

Kind == {"null", "shared", "weak"}

Held(f, k) == {h \in Handle : f[h] = k}

Counted(f, r, w) ==
  /\ r = Cardinality(Held(f, "shared"))
  /\ w = Cardinality(Held(f, "weak"))

-----------------------------------------------------------------------------
(* What assigning and clearing a handle does to the counts. *)

\* Handles are finite, so the handles of a kind can be counted.
LEMMA HeldFinite ==
  ASSUME NEW f, NEW k
  PROVE  /\ IsFiniteSet(Held(f, k))
         /\ Cardinality(Held(f, k)) \in Nat
         /\ Cardinality(Held(f, k)) = 0 <=> Held(f, k) = {}
<1>1. IsFiniteSet(Held(f, k))
  BY SharedAssumption, FS_Subset DEF Held
<1>2. QED BY <1>1, FS_CardinalityType, FS_EmptySet

\* Setting a null handle adds one to the count of its kind.
LEMMA SetCounts ==
  ASSUME NEW f \in [Handle -> Kind], NEW d \in Handle, f[d] = "null",
         NEW k \in {"shared", "weak"}, NEW r, NEW w, Counted(f, r, w)
  PROVE  Counted([f EXCEPT ![d] = k], IF k = "shared" THEN r + 1 ELSE r,
                                      IF k = "weak" THEN w + 1 ELSE w)
<1> DEFINE g == [f EXCEPT ![d] = k]
<1>1. Held(g, k) = Held(f, k) \cup {d}
  BY DEF Held
<1>2. Cardinality(Held(g, k)) = Cardinality(Held(f, k)) + 1
  <2>1. d \notin Held(f, k)
    BY DEF Held
  <2>2. QED BY <1>1, <2>1, HeldFinite, FS_AddElement
<1>3. \A j \in {"shared", "weak"} : j # k => Held(g, j) = Held(f, j)
  BY DEF Held
<1>4. CASE k = "shared"
  BY <1>2, <1>3, <1>4 DEF Counted
<1>5. CASE k = "weak"
  BY <1>2, <1>3, <1>5 DEF Counted
<1>6. QED BY <1>4, <1>5

\* Clearing a handle takes one from the count of its kind, which was not 0.
LEMMA ClearCounts ==
  ASSUME NEW f \in [Handle -> Kind], NEW h \in Handle, NEW k \in {"shared", "weak"},
         f[h] = k, NEW r, NEW w, Counted(f, r, w)
  PROVE  /\ Counted([f EXCEPT ![h] = "null"], IF k = "shared" THEN r - 1 ELSE r,
                                              IF k = "weak" THEN w - 1 ELSE w)
         /\ k = "shared" => r # 0
         /\ k = "weak" => w # 0
<1> DEFINE g == [f EXCEPT ![h] = "null"]
<1>1. h \in Held(f, k) /\ Held(g, k) = Held(f, k) \ {h}
  BY DEF Held
<1>2. /\ Cardinality(Held(g, k)) = Cardinality(Held(f, k)) - 1
      /\ Cardinality(Held(f, k)) # 0
  <2>1. IsFiniteSet(Held(f, k))
    BY HeldFinite
  <2>2. Cardinality(Held(f, k) \ {h}) = Cardinality(Held(f, k)) - 1
    BY <1>1, <2>1, FS_RemoveElement
  <2>3. Cardinality(Held(f, k)) # 0
    BY <1>1, <2>1, FS_EmptySet
  <2>4. QED BY <1>1, <2>2, <2>3
<1>3. \A j \in {"shared", "weak"} : j # k => Held(g, j) = Held(f, j)
  BY DEF Held
<1>4. CASE k = "shared"
  BY <1>2, <1>3, <1>4 DEF Counted
<1>5. CASE k = "weak"
  BY <1>2, <1>3, <1>5 DEF Counted
<1>6. QED BY <1>4, <1>5

-----------------------------------------------------------------------------
(* The inductive invariant. *)

\* The object is live as long as the reference count is positive, and only
\* the thread that took it to 0 is in its destructor.
ObjectFollowsRef ==
  /\ object = "live" <=> ref # 0
  /\ \A t \in Thread : pc[t] = "destroy" \/ t \in deleting => ref = 0
  /\ OneDeleter

\* The inductive invariant.
IInv == TypeOK /\ CountsExact /\ ObjectFollowsRef

\* CountsExact says of the variables what Counted says of its arguments.
LEMMA CountsAreCounted == CountsExact <=> Counted(kind, ref, weak)
BY DEF CountsExact, Counted, Holding, Held

\* The invariant holds in the state Shared::New leaves.
LEMMA InitIInv == Init => IInv
<1> SUFFICES ASSUME Init PROVE IInv
  OBVIOUS
<1>1. TypeOK
  BY DEF Init, TypeOK
<1>2. PICK h \in Handle \ Member :
        kind = [g \in Handle |-> IF g = h THEN "shared" ELSE "null"]
  BY DEF Init
<1>3. Holding("shared") = {h} /\ Holding("weak") = {}
  BY <1>2 DEF Holding
<1>4. CountsExact
  BY <1>3, FS_Singleton, FS_EmptySet DEF CountsExact, Init
<1>5. ObjectFollowsRef
  BY DEF Init, ObjectFollowsRef, OneDeleter
<1>6. QED BY <1>1, <1>4, <1>5 DEF IInv

\* A call that finds its counter freed only records the fault.
LEMMA FaultIInv ==
  ASSUME IInv,
         fault' \in {"use_after_free", "double_free", "dead_cast"} \/ fault' = fault,
         UNCHANGED <<kind, ref, weak, object, deleting>>,
         ref_cell' \in {"live", "freed"}, weak_cell' \in {"live", "freed"},
         \/ pc' = pc
         \/ \E t \in Thread, where \in {"idle", "check_weak", "free_ref", "free_weak"} :
              pc' = [pc EXCEPT ![t] = where]
         \/ \E u \in deleting : pc' = [pc EXCEPT ![u] = "destroy"]
  PROVE  IInv'
<1>1. TypeOK'
  BY DEF IInv, TypeOK
<1>2. CountsExact'
  BY DEF IInv, CountsExact, Holding
<1>3. ObjectFollowsRef'
  BY DEF IInv, TypeOK, ObjectFollowsRef, OneDeleter
<1>4. QED BY <1>1, <1>2, <1>3 DEF IInv

\* A call by what it does to handles and counters, whichever of the classes
\* offers it.
Called(t) ==
  \/ \E h, d \in Handle : Acquire(t, h, d) \/ Watch(t, h, d) \/ Move(t, h, d)
  \/ \E h \in Handle : \/ Query(t, h) \/ QueryWeak(t, h) \/ CastDead(t, h)
                       \/ ReleaseShared(t, h) \/ ReleaseWeak(t, h)
  \/ Continue(t)

\* Every step is such a call.
LEMMA NextIsCalled == Next => \E t \in Thread : Called(t)
BY DEF Next, Called, Clone, TryUpgrade, WatchShared, CloneWeak, MoveShared, MoveWeak

\* Every step keeps the invariant.
LEMMA NextIInv == IInv /\ [Next]_vars => IInv'
<1> SUFFICES ASSUME IInv, [Next]_vars PROVE IInv'
  OBVIOUS
<1> USE DEF IInv
<1>1. Counted(kind, ref, weak) /\ kind \in [Handle -> Kind] /\ ref \in Nat /\ weak \in Nat
  BY CountsAreCounted DEF TypeOK, Kind
<1>2. CountsExact' <=> Counted(kind', ref', weak')
  BY DEF CountsExact, Counted, Holding, Held
<1>3. ASSUME NEW t \in Thread, NEW h \in Handle, NEW d \in Handle, Acquire(t, h, d)
      PROVE  IInv'
  <2>1. CASE ref_cell = "freed"
    BY <1>3, <2>1, FaultIInv DEF Acquire, Using, TypeOK
  <2>2. CASE ref_cell = "live"
    <3>1. TypeOK'
      BY <1>3, <2>2 DEF Acquire, Using, TypeOK
    <3>2. CountsExact'
      <4>1. CASE ref = 0
        BY <1>3, <2>2, <4>1, <1>1, <1>2 DEF Acquire, Using
      <4>2. CASE ref # 0
        <5>1. Counted([kind EXCEPT ![d] = "shared"], ref + 1, weak)
          BY <1>1, <1>3, SetCounts DEF Acquire
        <5>2. QED BY <1>2, <1>3, <2>2, <4>2, <5>1 DEF Acquire, Using
      <4>3. QED BY <4>1, <4>2
    <3>3. ObjectFollowsRef'
      BY <1>3, <2>2 DEF Acquire, Using, TypeOK, ObjectFollowsRef, OneDeleter
    <3>4. QED BY <3>1, <3>2, <3>3
  <2>3. QED BY <2>1, <2>2 DEF TypeOK
<1>4. ASSUME NEW t \in Thread, NEW h \in Handle, NEW d \in Handle, Watch(t, h, d)
      PROVE  IInv'
  <2>1. CASE weak_cell = "freed"
    BY <1>4, <2>1, FaultIInv DEF Watch, Using, TypeOK
  <2>2. CASE weak_cell = "live"
    <3>1. TypeOK'
      BY <1>4, <2>2 DEF Watch, Using, TypeOK
    <3>2. CountsExact'
      <4>1. Counted([kind EXCEPT ![d] = "weak"], ref, weak + 1)
        BY <1>1, <1>4, SetCounts DEF Watch, Settable
      <4>2. QED BY <1>2, <1>4, <2>2, <4>1 DEF Watch, Using
    <3>3. ObjectFollowsRef'
      BY <1>4, <2>2 DEF Watch, Using, TypeOK, ObjectFollowsRef, OneDeleter
    <3>4. QED BY <3>1, <3>2, <3>3
  <2>3. QED BY <2>1, <2>2 DEF TypeOK
<1>5. ASSUME NEW t \in Thread, NEW h \in Handle, NEW d \in Handle, Move(t, h, d)
      PROVE  IInv'
  <2>1. TypeOK'
    BY <1>5 DEF Move, TypeOK, counters
  <2>2. CountsExact'
    <3> DEFINE g == [kind EXCEPT ![h] = "null"]
    <3>1. PICK k \in {"shared", "weak"} : kind[h] = k
      BY <1>1, <1>5 DEF Move, Kind
    <3>2. /\ g \in [Handle -> Kind] /\ g[d] = "null" /\ h # d
          /\ kind' = [g EXCEPT ![d] = k]
      BY <1>1, <1>5, <3>1 DEF Move, Settable, Kind
    <3>3. Counted(g, IF k = "shared" THEN ref - 1 ELSE ref,
                     IF k = "weak" THEN weak - 1 ELSE weak)
      BY <1>1, <3>1, ClearCounts
    <3>4. Counted([g EXCEPT ![d] = k],
                  IF k = "shared" THEN (IF k = "shared" THEN ref - 1 ELSE ref) + 1
                  ELSE IF k = "shared" THEN ref - 1 ELSE ref,
                  IF k = "weak" THEN (IF k = "weak" THEN weak - 1 ELSE weak) + 1
                  ELSE IF k = "weak" THEN weak - 1 ELSE weak)
      <4> HIDE DEF g
      <4>1. QED BY <3>2, <3>3, SetCounts
    <3>5. Counted([g EXCEPT ![d] = k], ref, weak)
      <4> HIDE DEF g
      <4>1. CASE k = "shared"
        BY <1>1, <3>4, <4>1
      <4>2. CASE k = "weak"
        BY <1>1, <3>4, <4>2
      <4>3. QED BY <4>1, <4>2
    <3>6. QED BY <1>2, <1>5, <3>2, <3>5 DEF Move, counters
  <2>3. ObjectFollowsRef'
    BY <1>5 DEF Move, ObjectFollowsRef, OneDeleter, counters
  <2>4. QED BY <2>1, <2>2, <2>3
<1>6. ASSUME NEW t \in Thread, NEW h \in Handle,
             Query(t, h) \/ QueryWeak(t, h) \/ CastDead(t, h)
      PROVE  IInv'
  BY <1>6, FaultIInv DEF Query, QueryWeak, CastDead, Using, TypeOK, counters
<1>7. ASSUME NEW t \in Thread, NEW h \in Handle, ReleaseShared(t, h)
      PROVE  IInv'
  <2>1. CASE ref_cell = "freed"
    BY <1>7, <2>1, FaultIInv DEF ReleaseShared, Using, TypeOK
  <2>2. CASE ref_cell = "live"
    <3>1. ref # 0 /\ Counted([kind EXCEPT ![h] = "null"], ref - 1, weak)
      BY <1>1, <1>7, ClearCounts DEF ReleaseShared
    <3>2. TypeOK'
      BY <1>7, <2>2, <3>1 DEF ReleaseShared, Using, Goto, TypeOK
    <3>3. CountsExact'
      BY <1>2, <1>7, <2>2, <3>1 DEF ReleaseShared, Using
    <3>4. ObjectFollowsRef'
      <4>1. deleting = {}
        BY <3>1 DEF ObjectFollowsRef, TypeOK
      <4>2. CASE ref = 1
        BY <1>7, <2>2, <4>1, <4>2
        DEF ReleaseShared, Using, Goto, TypeOK, ObjectFollowsRef, OneDeleter
      <4>3. CASE ref # 1
        BY <1>7, <2>2, <3>1, <4>3
        DEF ReleaseShared, Using, TypeOK, ObjectFollowsRef, OneDeleter
      <4>4. QED BY <4>2, <4>3
    <3>5. QED BY <3>2, <3>3, <3>4
  <2>3. QED BY <2>1, <2>2 DEF TypeOK
<1>8. ASSUME NEW t \in Thread, NEW h \in Handle, kind[h] = "weak", ResetWeak(t, h)
      PROVE  IInv'
  <2>1. CASE weak_cell = "freed"
    BY <1>8, <2>1, FaultIInv DEF ResetWeak, Using, TypeOK
  <2>2. CASE weak_cell = "live"
    <3>1. weak # 0 /\ Counted([kind EXCEPT ![h] = "null"], ref, weak - 1)
      BY <1>1, <1>8, ClearCounts
    <3>2. TypeOK'
      BY <1>8, <2>2, <3>1 DEF ResetWeak, Using, Goto, Return, TypeOK
    <3>3. CountsExact'
      BY <1>2, <1>8, <2>2, <3>1 DEF ResetWeak, Using
    <3>4. ObjectFollowsRef'
      BY <1>8, <2>2 DEF ResetWeak, Using, Goto, Return, TypeOK, ObjectFollowsRef, OneDeleter
    <3>5. QED BY <3>2, <3>3, <3>4
  <2>3. QED BY <2>1, <2>2 DEF TypeOK
<1>9. ASSUME NEW t \in Thread, FinishDelete(t)
      PROVE  IInv'
  <2>1. TypeOK'
    BY <1>9 DEF FinishDelete, Goto, TypeOK, counters
  <2>2. CountsExact'
    BY <1>9 DEF FinishDelete, CountsExact, Holding, counters
  <2>3. ObjectFollowsRef'
    BY <1>9 DEF FinishDelete, At, Goto, TypeOK, ObjectFollowsRef, OneDeleter, counters
  <2>4. QED BY <2>1, <2>2, <2>3
<1>10. ASSUME NEW t \in Thread, CheckWeak(t) \/ CheckRef(t)
       PROVE  IInv'
  BY <1>10, FaultIInv DEF CheckWeak, CheckRef, Using, Goto, Return, TypeOK, counters
<1>11. ASSUME NEW t \in Thread, FreeRef(t) \/ FreeWeak(t)
       PROVE  IInv'
  BY <1>11, FaultIInv DEF FreeRef, FreeWeak, Goto, Return, TypeOK
<1>12. CASE UNCHANGED vars
  BY <1>12 DEF vars, TypeOK, CountsExact, Holding, ObjectFollowsRef, OneDeleter
<1>13. CASE Next
  <2>1. PICK t \in Thread : Called(t)
    BY <1>13, NextIsCalled
  <2>2. CASE Continue(t)
    BY <2>2, <1>8, <1>9, <1>10, <1>11, SharedAssumption DEF Continue, DestroyMember
  <2>3. QED BY <2>1, <2>2, <1>3, <1>4, <1>5, <1>6, <1>7, <1>8 DEF Called, ReleaseWeak
<1>14. QED BY <1>12, <1>13

\* The invariant holds throughout.
LEMMA AlwaysIInv == Spec => []IInv
BY InitIInv, NextIInv, PTL DEF Spec

-----------------------------------------------------------------------------
(* Safety of the object, for any number of threads. *)

\* Type correctness of the two counters, the handles and the Resets in
\* progress.
THEOREM SharedTypeCorrect == Spec => []TypeOK
BY AlwaysIInv, PTL DEF IInv

\* The reference counts of Shared and Weak are the numbers of handles.
THEOREM CountsAreExact == Spec => []CountsExact
BY AlwaysIInv, PTL DEF IInv

\* A Shared handle never refers to a deleted object.
THEOREM SharedKeepsAlive == Spec => []ObjectOutlivesShared
<1>1. IInv => ObjectOutlivesShared
  BY CountsAreCounted, HeldFinite
  DEF IInv, Counted, Held, Holding, ObjectFollowsRef, ObjectOutlivesShared
<1>2. QED BY <1>1, AlwaysIInv, PTL

\* delete raw_ptr_ is run by one thread at most.
THEOREM OnlyOneDeleter == Spec => []OneDeleter
<1>1. IInv => OneDeleter
  BY DEF IInv, ObjectFollowsRef
<1>2. QED BY <1>1, AlwaysIInv, PTL

\* The object is live exactly while it has an owner.
LEMMA LiveIsOwned == IInv => (object = "live" <=> Holding("shared") # {})
BY CountsAreCounted, HeldFinite DEF IInv, Counted, Held, Holding, ObjectFollowsRef

\* What a step can do to the object and to the Shared handles: each is a step
\* of the abstract owner or leaves both alone.
LEMMA StepIsOwnership == IInv /\ IInv' /\ [Next]_vars =>
  \/ \E d \in Handle : Own!Share(d)
  \/ \E h \in Handle : Own!Leave(h)
  \/ \E h, d \in Handle : Own!HandOver(h, d)
  \/ Holding("shared")' = Holding("shared") /\ (object = "live")' = (object = "live")
<1> SUFFICES ASSUME IInv, IInv', [Next]_vars
             PROVE  \/ \E d \in Handle : Own!Share(d)
                    \/ \E h \in Handle : Own!Leave(h)
                    \/ \E h, d \in Handle : Own!HandOver(h, d)
                    \/ /\ Holding("shared")' = Holding("shared")
                       /\ (object = "live")' = (object = "live")
  OBVIOUS
<1> USE DEF IInv
<1> DEFINE Stutter == /\ Holding("shared")' = Holding("shared")
                      /\ (object = "live")' = (object = "live")
<1>1. kind \in [Handle -> Kind]
  BY DEF TypeOK, Kind
<1>2. object = "live" <=> Holding("shared") # {}
  BY LiveIsOwned
<1>3. object' = "live" <=> Holding("shared")' # {}
  BY HeldFinite DEF CountsExact, Held, Holding, ObjectFollowsRef
<1>4. ASSUME kind' = kind PROVE Stutter
  BY <1>2, <1>3, <1>4 DEF Holding
<1>5. ASSUME NEW t \in Thread, NEW h \in Handle, NEW d \in Handle, Acquire(t, h, d)
      PROVE  Own!Share(d) \/ Stutter
  <2>1. CASE kind' = kind
    BY <1>4, <2>1
  <2>2. CASE kind' # kind
    <3>1. ref # 0 /\ kind' = [kind EXCEPT ![d] = "shared"] /\ object' = object
      BY <1>5, <2>2 DEF Acquire, Using
    <3>2. object = "live"
      BY <3>1 DEF ObjectFollowsRef
    <3>3. Holding("shared")' = Holding("shared") \cup {d}
      BY <1>1, <1>5, <3>1 DEF Holding, Acquire
    <3>4. QED BY <1>2, <3>1, <3>2, <3>3 DEF Own!Share
  <2>3. QED BY <2>1, <2>2
<1>6. ASSUME NEW t \in Thread, NEW h \in Handle, NEW d \in Handle, Watch(t, h, d)
      PROVE  Stutter
  <2>1. CASE kind' = kind
    BY <1>4, <2>1
  <2>2. CASE kind' # kind
    <3>1. kind' = [kind EXCEPT ![d] = "weak"] /\ kind[d] = "null"
      BY <1>6, <2>2 DEF Watch, Using, Settable
    <3>2. Holding("shared")' = Holding("shared")
      BY <1>1, <3>1 DEF Holding
    <3>3. QED BY <1>2, <1>3, <3>2
  <2>3. QED BY <2>1, <2>2
<1>7. ASSUME NEW t \in Thread, NEW h \in Handle, NEW d \in Handle, Move(t, h, d)
      PROVE  Own!HandOver(h, d) \/ Stutter
  <2>1. kind[d] = "null" /\ kind' = [kind EXCEPT ![d] = kind[h], ![h] = "null"] /\ h # d
    BY <1>7 DEF Move, Settable
  <2>2. CASE kind[h] = "shared"
    <3>1. Holding("shared")' = (Holding("shared") \ {h}) \cup {d}
      BY <1>1, <1>7, <2>1, <2>2 DEF Holding
    <3>2. h \in Holding("shared") /\ d \notin Holding("shared")
      BY <1>7, <2>1, <2>2 DEF Holding
    <3>3. object' = object
      BY <1>7 DEF Move
    <3>4. QED BY <1>2, <3>1, <3>2, <3>3 DEF Own!HandOver
  <2>3. CASE kind[h] # "shared"
    <3>1. Holding("shared")' = Holding("shared")
      BY <1>1, <1>7, <2>1, <2>3 DEF Holding
    <3>2. QED BY <1>2, <1>3, <3>1
  <2>4. QED BY <2>2, <2>3
<1>8. ASSUME NEW t \in Thread, NEW h \in Handle, ReleaseShared(t, h)
      PROVE  Own!Leave(h) \/ Stutter
  <2>1. CASE kind' = kind
    BY <1>4, <2>1
  <2>2. CASE kind' # kind
    <3>1. kind[h] = "shared" /\ kind' = [kind EXCEPT ![h] = "null"]
      BY <1>8, <2>2 DEF ReleaseShared, Using
    <3>2. h \in Holding("shared") /\ Holding("shared")' = Holding("shared") \ {h}
      BY <1>1, <1>8, <3>1 DEF Holding
    <3>3. QED BY <1>3, <3>2 DEF Own!Leave
  <2>3. QED BY <2>1, <2>2
<1>9. ASSUME NEW t \in Thread, NEW h \in Handle, kind[h] = "weak", ResetWeak(t, h)
      PROVE  Stutter
  <2>1. CASE kind' = kind
    BY <1>4, <2>1
  <2>2. CASE kind' # kind
    <3>1. kind' = [kind EXCEPT ![h] = "null"]
      BY <1>9, <2>2 DEF ResetWeak, Using
    <3>2. Holding("shared")' = Holding("shared")
      BY <1>1, <1>9, <3>1 DEF Holding
    <3>3. QED BY <1>2, <1>3, <3>2
  <2>3. QED BY <2>1, <2>2
<1>10. ASSUME NEW t \in Thread,
              \/ \E h \in Handle : Query(t, h) \/ QueryWeak(t, h) \/ CastDead(t, h)
              \/ FinishDelete(t) \/ CheckWeak(t) \/ CheckRef(t) \/ FreeRef(t) \/ FreeWeak(t)
       PROVE  Stutter
  BY <1>4, <1>10
  DEF Query, QueryWeak, CastDead, FinishDelete, CheckWeak, CheckRef, FreeRef, FreeWeak, Using
<1>11. CASE UNCHANGED vars
  BY <1>4, <1>11 DEF vars
<1>12. CASE Next
  <2>1. PICK t \in Thread : Called(t)
    BY <1>12, NextIsCalled
  <2>2. CASE Continue(t)
    BY <2>2, <1>9, <1>10, SharedAssumption DEF Continue, DestroyMember
  <2>3. CASE \E h \in Handle : \/ Query(t, h) \/ QueryWeak(t, h) \/ CastDead(t, h)
                              \/ ReleaseShared(t, h) \/ ReleaseWeak(t, h)
    BY <2>3, <1>8, <1>9, <1>10 DEF ReleaseWeak
  <2>4. CASE \E h, d \in Handle : Acquire(t, h, d) \/ Watch(t, h, d) \/ Move(t, h, d)
    BY <2>4, <1>5, <1>6, <1>7
  <2>5. QED BY <2>1, <2>2, <2>3, <2>4 DEF Called
<1>13. QED BY <1>11, <1>12

\* Shared and Weak implement shared ownership: every step of a thread is a
\* step of the abstract owner or leaves it alone.
THEOREM SharedImplementsOwnership == Spec => ImplementsOwnership
<1>1. Init => Own!OwnInit
  <2> SUFFICES ASSUME Init PROVE Own!OwnInit
    OBVIOUS
  <2>1. PICK h \in Handle \ Member :
          kind = [g \in Handle |-> IF g = h THEN "shared" ELSE "null"]
    BY DEF Init
  <2>2. Holding("shared") = {h}
    BY <2>1 DEF Holding
  <2>3. QED BY <2>2 DEF Init, Own!OwnInit
<1>2. IInv /\ IInv' /\ [Next]_vars => [Own!OwnNext]_<<Holding("shared"), object = "live">>
  BY StepIsOwnership DEF Own!OwnNext
<1>3. QED BY <1>1, <1>2, AlwaysIInv, PTL DEF Spec, ImplementsOwnership, Own!OwnSpec

\* An object whose destructor has begun never gets an owner again.
THEOREM DeadStaysDead == Spec => NoResurrection
<1>1. IInv /\ IInv' /\ [Next]_vars => [object # "live" => Holding("shared")' = {}]_vars
  BY StepIsOwnership, LiveIsOwned DEF Own!Share, Own!Leave, Own!HandOver, vars
<1>2. QED BY <1>1, AlwaysIInv, PTL DEF Spec, NoResurrection

-----------------------------------------------------------------------------
(* Nothing is leaked. *)

\* While the program is defined, a thread is on its way to whatever is not
\* freed yet although no handle is left.
Pending ==
  fault = "none" =>
    /\ ref = 0 /\ weak = 0 =>
         \/ ref_cell = "freed"
         \/ \E t \in Thread : pc[t] \in {"destroy", "check_weak", "check_ref", "free_ref"}
    /\ ref_cell = "freed" => weak_cell = "freed" \/ \E t \in Thread : pc[t] = "free_weak"
    /\ object = "destroying" => deleting # {}
    /\ \A t \in Thread : pc[t] = "destroy" => t \in deleting
    /\ \A t \in deleting : pc[t] \notin {"idle", "check_weak"}

\* Every step keeps Pending.
LEMMA NextPending == IInv /\ Pending /\ [Next]_vars => Pending'
<1> SUFFICES ASSUME IInv, Pending, [Next]_vars, fault' = "none" PROVE Pending'
  BY DEF Pending
<1> USE DEF IInv, TypeOK, Pending
<1>1. CASE UNCHANGED vars
  BY <1>1 DEF vars
<1>2. ASSUME NEW t \in Thread, NEW h \in Handle, NEW d \in Handle,
             \/ Acquire(t, h, d) \/ Watch(t, h, d) \/ Move(t, h, d)
             \/ Query(t, h) \/ QueryWeak(t, h) \/ CastDead(t, h)
      PROVE  Pending'
  BY <1>2 DEF Acquire, Watch, Move, Query, QueryWeak, CastDead, Using, counters
<1>3. ASSUME NEW t \in Thread, NEW h \in Handle, ReleaseShared(t, h)
      PROVE  Pending'
  BY <1>3 DEF ReleaseShared, Using, Idle, Goto
<1>4. ASSUME NEW t \in Thread, NEW h \in Handle, ResetWeak(t, h), pc[t] \in {"idle", "destroy"}
      PROVE  Pending'
  BY <1>4 DEF ResetWeak, Using, Goto, Return
<1>5. ASSUME NEW t \in Thread, FinishDelete(t)
      PROVE  Pending'
  BY <1>5 DEF FinishDelete, At, Goto, counters
<1>6. ASSUME NEW t \in Thread, CheckWeak(t)
      PROVE  Pending'
  BY <1>6 DEF CheckWeak, Using, At, Goto, counters
<1>7. ASSUME NEW t \in Thread, CheckRef(t)
      PROVE  Pending'
  BY <1>7 DEF CheckRef, Using, At, Goto, Return, counters
<1>8. ASSUME NEW t \in Thread, FreeRef(t)
      PROVE  Pending'
  BY <1>8 DEF FreeRef, At, Goto
<1>9. ASSUME NEW t \in Thread, FreeWeak(t)
      PROVE  Pending'
  BY <1>9 DEF FreeWeak, At, Goto, Return
<1>10. CASE Next
  <2>1. PICK t \in Thread : Called(t)
    BY <1>10, NextIsCalled
  <2>2. CASE \E h, d \in Handle : Acquire(t, h, d) \/ Watch(t, h, d) \/ Move(t, h, d)
    BY <2>2, <1>2
  <2>3. CASE \E h \in Handle : \/ Query(t, h) \/ QueryWeak(t, h) \/ CastDead(t, h)
                              \/ ReleaseShared(t, h) \/ ReleaseWeak(t, h)
    BY <2>3, <1>2, <1>3, <1>4 DEF ReleaseWeak, Idle
  <2>4. CASE Continue(t)
    <3>1. CASE \E m \in Member : DestroyMember(t, m)
      BY <3>1, <1>4, SharedAssumption DEF DestroyMember, At
    <3>2. QED
      BY <2>4, <3>1, <1>5, <1>6, <1>7, <1>8, <1>9 DEF Continue
  <2>5. QED BY <2>1, <2>2, <2>3, <2>4 DEF Called
<1>11. QED BY <1>1, <1>10

\* When nobody holds a handle and every Reset has returned, the object and
\* both counters have been freed.
THEOREM NothingLeaks == Spec => []NoLeak
<1>1. Init => Pending
  BY DEF Init, Pending
<1>2. IInv /\ Pending => NoLeak
  <2> SUFFICES ASSUME IInv, Pending, fault = "none", Holding("null") = Handle,
                      \A t \in Thread : pc[t] = "idle"
               PROVE  object = "deleted" /\ ref_cell = "freed" /\ weak_cell = "freed"
    BY DEF NoLeak
  <2>1. Holding("shared") = {} /\ Holding("weak") = {}
    BY DEF Holding
  <2>2. ref = 0 /\ weak = 0
    BY <2>1, FS_EmptySet DEF IInv, CountsExact
  <2>3. ref_cell = "freed" /\ weak_cell = "freed"
    BY <2>2 DEF Pending
  <2>4. object # "live" /\ deleting = {}
    BY <2>2 DEF Pending, IInv, TypeOK, ObjectFollowsRef
  <2>5. QED BY <2>3, <2>4 DEF Pending, IInv, TypeOK
<1>3. QED BY <1>1, <1>2, NextPending, AlwaysIInv, PTL DEF Spec

-----------------------------------------------------------------------------
(* One thread alone, and an object with no Weak handle among its members. *)

\* Where the thread is says what is freed and which counts are 0.
CellsFollowPc ==
  /\ fault \in {"none", "dead_cast"}
  /\ \A t \in Thread :
       /\ pc[t] \notin {"idle", "free_weak"} => ref_cell = "live" /\ weak_cell = "live"
       /\ pc[t] = "idle" => \/ ref_cell = "live" /\ weak_cell = "live"
                            \/ ref = 0 /\ weak = 0
       /\ pc[t] = "free_weak" => weak_cell = "live" /\ ref = 0 /\ weak = 0
       /\ pc[t] = "check_ref" => weak = 0
       /\ pc[t] = "check_weak" => ref = 0
       /\ pc[t] = "free_ref" => ref = 0 /\ weak = 0
       /\ t \in deleting => pc[t] = "destroy"

\* With one thread, and with no member handles, the counters are used only
\* while they are alive and freed once.
THEOREM LocalIsSafe ==
  ASSUME \A t, u \in Thread : t = u, Member = {}
  PROVE  Spec => []NoFault
<1>1. Init => CellsFollowPc
  BY DEF Init, CellsFollowPc
<1>2. IInv /\ CellsFollowPc /\ [Next]_vars => CellsFollowPc'
  <2> SUFFICES ASSUME IInv, CellsFollowPc, [Next]_vars PROVE CellsFollowPc'
    OBVIOUS
  <2> USE DEF IInv, TypeOK, CellsFollowPc
  <2>1. CASE UNCHANGED vars
    BY <2>1 DEF vars
  <2>2. \A h \in Handle : /\ kind[h] = "shared" => ref # 0
                          /\ kind[h] = "weak" => weak # 0
    BY CountsAreCounted, HeldFinite DEF Counted, Held
  <2>3. ASSUME NEW t \in Thread, NEW h \in Handle, NEW d \in Handle,
               \/ Acquire(t, h, d) \/ Watch(t, h, d) \/ Move(t, h, d)
               \/ Query(t, h) \/ QueryWeak(t, h) \/ CastDead(t, h)
        PROVE  CellsFollowPc'
    BY <2>2, <2>3 DEF Acquire, Watch, Move, Query, QueryWeak, CastDead, Using, Idle, counters
  <2>4. ASSUME NEW t \in Thread, NEW h \in Handle, ReleaseShared(t, h)
        PROVE  CellsFollowPc'
    BY <2>2, <2>4 DEF ReleaseShared, Using, Idle, Goto
  <2>5. ASSUME NEW t \in Thread, NEW h \in Handle, ReleaseWeak(t, h)
        PROVE  CellsFollowPc'
    BY <2>2, <2>5 DEF ReleaseWeak, ResetWeak, Using, Idle, Goto, Return
  <2>6. ASSUME NEW t \in Thread, Continue(t)
        PROVE  CellsFollowPc'
    <3>1. CASE FinishDelete(t)
      BY <3>1 DEF FinishDelete, At, Goto, counters, ObjectFollowsRef
    <3>2. CASE CheckWeak(t)
      BY <3>2 DEF CheckWeak, Using, At, Goto, counters
    <3>3. CASE CheckRef(t)
      BY <3>3 DEF CheckRef, Using, At, Goto, Return, counters
    <3>4. CASE FreeRef(t)
      BY <3>4 DEF FreeRef, At, Goto
    <3>5. CASE FreeWeak(t)
      BY <3>5 DEF FreeWeak, At, Goto, Return
    <3>6. QED BY <2>6, <3>1, <3>2, <3>3, <3>4, <3>5 DEF Continue
  <2>7. CASE Next
    BY <2>3, <2>4, <2>5, <2>6, <2>7, NextIsCalled DEF Called
  <2>8. QED BY <2>1, <2>7
<1>3. CellsFollowPc => NoFault
  BY DEF CellsFollowPc, NoFault
<1>4. QED BY <1>1, <1>2, <1>3, AlwaysIInv, PTL DEF Spec
=============================================================================
