------------------------ MODULE ObservedAsyncProofs ------------------------
(***************************************************************************)
(* Theorems about ObservedAsync for any number of threads and handles: the *)
(* observers are counted, a guard keeps the object alive, and the whole    *)
(* implements the monitored object.                                        *)
(***************************************************************************)
EXTENDS ObservedAsync, FiniteSetTheorems, TLAPS

INSTANCE DataFacts WITH Op <- +

-----------------------------------------------------------------------------
(* The inductive invariant. *)

Dying == {"destroy", "check_cnt", "free_lock", "free_flag", "free_cnt"}

\* The flag is up once the object is not live; only then is anything freed or
\* about to be, and no thread has a guard.
FlagFollowsObject ==
  /\ is_null <=> object # "live"
  /\ freed # {} => object # "live"
  /\ \A t \in Thread : pc[t] \in Dying => object # "live"
  /\ \A t \in Thread : pc[t] \in {"reading", "writing"} => object = "live"

\* One handle or one thread is in charge of a live object.
OneOwner ==
  /\ \A h, g \in Handle : kind[h] = "owner" /\ kind[g] = "owner" => h = g
  /\ \A h \in Handle : kind[h] = "owner" =>
       object = "live" /\ \A t \in Thread : pc[t] # "want_write"
  /\ \A t \in Thread : pc[t] = "want_write" =>
       object = "live" /\ \A u \in Thread : pc[u] = "want_write" => u = t

\* Holders of the lock exclude each other.
LockHeld ==
  /\ \A t \in Writers, u \in Writers \cup Readers : t = u
  /\ \A t \in Thread : pc[t] = "destroy" => object = "destroying"
  /\ object = "destroying" => \E t \in Thread : pc[t] = "destroy"

\* The inductive invariant.
IInv == TypeOK /\ ObserversCounted /\ FlagFollowsObject /\ OneOwner /\ LockHeld

\* ObserversCounted says of kind what Observers says of its argument.
LEMMA CountedAsObservers == ObserversCounted <=> cnt = Observers(Handle, kind)
BY DEF ObserversCounted, Holding, Observers, Held

\* The invariant holds in the state ObservedAsync::New leaves.
LEMMA InitIInv == Init => IInv
<1> SUFFICES ASSUME Init PROVE IInv
  OBVIOUS
<1>1. PICK h \in Handle \ Member :
        kind = [g \in Handle |-> IF g = h THEN "owner" ELSE "null"]
  BY DEF Init
<1>2. TypeOK
  BY DEF Init, TypeOK
<1>3. ObserversCounted
  <2>1. Holding("observer") = {}
    BY <1>1 DEF Holding
  <2>2. QED BY <2>1, FS_EmptySet DEF Init, ObserversCounted
<1>4. FlagFollowsObject /\ LockHeld
  BY DEF Init, FlagFollowsObject, LockHeld, Dying, Writers, Readers
<1>5. OneOwner
  BY <1>1 DEF Init, OneOwner
<1>6. QED BY <1>2, <1>3, <1>4, <1>5 DEF IInv

\* A step that records a fault and changes nothing else keeps the invariant.
LEMMA FailsIInv ==
  ASSUME IInv,
         NEW what \in {"use_after_free", "double_free", "self_lock", "self_wait", "dead_cast"},
         Fails(what)
  PROVE  IInv'
BY DEF IInv, Fails, TypeOK, ObserversCounted, Holding, FlagFollowsObject, OneOwner,
       LockHeld, Writers, Readers

\* What the invariant says of pc, object and freed is kept by a step of a
\* thread that sets none of the handles.
LEMMA PcIInv ==
  ASSUME IInv, UNCHANGED <<kind, cnt, is_null, object, fault>>,
         NEW t \in Thread, NEW where, pc' = [pc EXCEPT ![t] = where],
         pc[t] \notin {"want_write", "destroy"},
         \/ where \in {"idle", "check_null"} /\ freed' = freed
         \/ where = "reading" /\ freed' = freed /\ CanRead /\ object = "live"
         \/ where = "writing" /\ freed' = freed /\ CanWrite /\ object = "live"
         \/ where \in {"free_lock", "free_flag", "free_cnt", "idle"}
            /\ freed' \subseteq Cell /\ object # "live"
  PROVE  IInv'
<1> USE DEF IInv
<1>1. TypeOK'
  BY DEF TypeOK
<1>2. ObserversCounted'
  BY DEF ObserversCounted, Holding
<1>3. FlagFollowsObject'
  BY DEF TypeOK, FlagFollowsObject, Dying
<1>4. OneOwner'
  BY DEF TypeOK, OneOwner
<1>5. LockHeld'
  BY DEF TypeOK, LockHeld, Writers, Readers, CanRead, CanWrite
<1>6. QED BY <1>1, <1>2, <1>3, <1>4, <1>5

\* A step of a thread, as a call of either kind of handle.
Called(t) ==
  \/ \E h, d \in Handle : Observe(t, h, d) \/ Move(t, h, d)
  \/ \E h \in Handle : \/ Query(t, h) \/ QueryCnt(t, h) \/ CastDead(t, h) \/ ResetGuarded(t, h)
                       \/ Read(t, h) \/ Write(t, h)
                       \/ BeginReset(t, h) \/ ReleaseObserver(t, h)
  \/ Continue(t)

\* Every step is such a call.
LEMMA NextIsCalled == Next => \E t \in Thread : Called(t)
BY DEF Next, Called, NewObserver, Clone, MoveOwner, MoveObserver, ReadOwner, ReadObserver,
       WriteOwner, WriteObserver

\* Calls that read a count or a flag, or end the run, change nothing else.
LEMMA NothingButFault ==
  ASSUME NEW t, NEW h,
         Query(t, h) \/ QueryCnt(t, h) \/ CastDead(t, h) \/ ResetGuarded(t, h)
  PROVE  \/ UNCHANGED vars
         \/ \E what \in {"use_after_free", "self_wait", "dead_cast"} : Fails(what)
BY DEF Query, QueryCnt, CastDead, ResetGuarded, Using

\* Every step keeps the invariant.
LEMMA NextIInv == IInv /\ [Next]_vars => IInv'
<1> SUFFICES ASSUME IInv, [Next]_vars PROVE IInv'
  OBVIOUS
<1> USE DEF IInv
<1>1. /\ cnt = Observers(Handle, kind) /\ kind \in [Handle -> Kind] /\ cnt \in Nat
      /\ pc \in [Thread -> {"idle", "reading", "writing", "want_write", "destroy",
                        "check_cnt", "check_null", "free_lock", "free_flag", "free_cnt"}]
  BY CountedAsObservers DEF TypeOK, Kind
<1>2. ObserversCounted' <=> cnt' = Observers(Handle, kind')
  BY DEF ObserversCounted, Holding, Observers, Held
<1>3. ASSUME NEW t \in Thread, NEW h \in Handle, NEW d \in Handle, Observe(t, h, d)
      PROVE  IInv'
  <2>1. CASE "observer_cnt" \in freed
    BY <1>3, <2>1, FailsIInv DEF Observe, Using
  <2>2. CASE "observer_cnt" \notin freed
    <3>1. kind[d] = "null" /\ kind' = [kind EXCEPT ![d] = "observer"]
      BY <1>3, <2>2 DEF Observe, Using, Settable
    <3>2. cnt' = cnt + 1
      <4>1. kind[h] = "observer" => cnt # 0
        BY <1>1, <1>3, ClearObserver, ObservedAssumption
      <4>2. QED BY <1>1, <1>3, <2>2, <4>1 DEF Observe, Using
    <3>3. UNCHANGED <<is_null, object, freed, pc, fault>>
      BY <1>3, <2>2 DEF Observe, Using
    <3>4. TypeOK'
      BY <1>1, <3>1, <3>2, <3>3 DEF TypeOK
    <3>5. ObserversCounted'
      BY <1>1, <1>2, <3>1, <3>2, SetObserver, ObservedAssumption
    <3>6. FlagFollowsObject' /\ LockHeld'
      BY <3>3 DEF FlagFollowsObject, LockHeld, Writers, Readers
    <3>7. OneOwner'
      BY <1>1, <3>1, <3>3 DEF OneOwner
    <3>8. QED BY <3>4, <3>5, <3>6, <3>7
  <2>3. QED BY <2>1, <2>2
<1>4. ASSUME NEW t \in Thread, NEW h \in Handle, NEW d \in Handle, Move(t, h, d)
      PROVE  IInv'
  <2>1. /\ kind[d] = "null" /\ kind[h] # "null"
        /\ kind' = [kind EXCEPT ![d] = kind[h], ![h] = "null"]
        /\ UNCHANGED <<cnt, is_null, object, freed, pc, fault>>
    BY <1>4 DEF Move, Settable
  <2>2. TypeOK'
    BY <2>1 DEF TypeOK
  <2>3. ObserversCounted'
    <3>1. /\ kind' \in [Handle -> Kind] /\ kind'[d] = kind[h] /\ kind'[h] = "null"
          /\ \A e \in Handle \ {h, d} : kind'[e] = kind[e]
      BY <1>1, <2>1
    <3>2. Observers(Handle, kind') = Observers(Handle, kind)
      BY ZenonT(60), <1>1, <2>1, <3>1, MovedObservers, ObservedAssumption
    <3>3. QED BY <1>1, <1>2, <2>1, <3>2
  <2>4. FlagFollowsObject' /\ LockHeld'
    BY <2>1 DEF FlagFollowsObject, LockHeld, Writers, Readers
  <2>5. OneOwner'
    BY <1>1, <2>1 DEF OneOwner
  <2>6. QED BY <2>2, <2>3, <2>4, <2>5
<1>5. ASSUME NEW t \in Thread, NEW h \in Handle,
             Query(t, h) \/ QueryCnt(t, h) \/ CastDead(t, h) \/ ResetGuarded(t, h)
      PROVE  IInv'
  <2>1. \/ UNCHANGED vars
        \/ \E what \in {"use_after_free", "self_wait", "dead_cast"} : Fails(what)
    BY <1>5, NothingButFault
  <2>2. CASE UNCHANGED vars
    BY <2>2 DEF vars, TypeOK, ObserversCounted, Holding, FlagFollowsObject, OneOwner,
                LockHeld, Writers, Readers
  <2>3. QED BY <2>1, <2>2, FailsIInv
<1>6. ASSUME NEW t \in Thread, NEW h \in Handle, Read(t, h) \/ Write(t, h)
      PROVE  IInv'
  <2>1. kind[h] = "owner" => object = "live"
    BY <1>6 DEF OneOwner
  <2>2. ~is_null => object = "live"
    BY DEF FlagFollowsObject
  <2>3. kind[h] \in {"owner", "observer"}
    BY <1>1, <1>6 DEF Read, Write, Kind
  <2>4. CASE Read(t, h)
    BY <2>1, <2>2, <2>3, <2>4, FailsIInv, PcIInv DEF Read, Using, Idle, Goto
  <2>5. CASE Write(t, h)
    BY <2>1, <2>2, <2>3, <2>5, FailsIInv, PcIInv DEF Write, Using, Idle, Goto
  <2>6. QED BY <1>6, <2>4, <2>5
<1>7. ASSUME NEW t \in Thread, EndGuard(t)
      PROVE  IInv'
  BY <1>7, FailsIInv, PcIInv DEF EndGuard, Using, Goto
<1>8. ASSUME NEW t \in Thread, NEW h \in Handle, BeginReset(t, h)
      PROVE  IInv'
  <2>1. /\ kind[h] = "owner" /\ pc[t] = "idle" /\ kind' = [kind EXCEPT ![h] = "null"]
        /\ pc' = [pc EXCEPT ![t] = "want_write"]
        /\ UNCHANGED <<cnt, is_null, object, freed, fault>>
    BY <1>8 DEF BeginReset, Idle, Goto
  <2>2. TypeOK'
    BY <2>1 DEF TypeOK
  <2>3. ObserversCounted'
    BY <1>1, <1>2, <2>1, SameObservers
  <2>4. FlagFollowsObject'
    BY <1>1, <2>1 DEF FlagFollowsObject, Dying
  <2>5. OneOwner'
    BY <1>1, <2>1 DEF OneOwner
  <2>6. LockHeld'
    BY <1>1, <2>1 DEF LockHeld, Writers, Readers
  <2>7. QED BY <2>2, <2>3, <2>4, <2>5, <2>6
<1>9. ASSUME NEW t \in Thread, LockForDelete(t)
      PROVE  IInv'
  <2>1. CASE "rw_lock" \in freed
    BY <1>9, <2>1, FailsIInv DEF LockForDelete, Using
  <2>2. CASE "rw_lock" \notin freed
    <3>1. /\ pc[t] = "want_write" /\ CanWrite /\ object = "live" /\ ~is_null
          /\ pc' = [pc EXCEPT ![t] = "destroy"] /\ is_null' = TRUE /\ object' = "destroying"
          /\ UNCHANGED <<kind, cnt, freed, fault>>
      BY <1>9, <2>2 DEF LockForDelete, Using, At, Goto, OneOwner, FlagFollowsObject
    <3>2. TypeOK'
      BY <3>1 DEF TypeOK
    <3>3. ObserversCounted'
      BY <3>1 DEF ObserversCounted, Holding
    <3>4. FlagFollowsObject'
      BY <1>1, <3>1 DEF FlagFollowsObject, Dying, CanWrite, Writers, Readers
    <3>5. OneOwner'
      BY <1>1, <3>1 DEF OneOwner
    <3>6. LockHeld'
      BY <1>1, <3>1 DEF LockHeld, CanWrite, Writers, Readers
    <3>7. QED BY <3>2, <3>3, <3>4, <3>5, <3>6
  <2>3. QED BY <2>1, <2>2
<1>10. ASSUME NEW t \in Thread, NEW m \in Member, DestroyMember(t, m)
       PROVE  IInv'
  <2>1. m \in Handle
    BY ObservedAssumption
  <2>2. CASE Fails("self_lock") \/ Fails("use_after_free")
    BY <2>2, FailsIInv
  <2>3. CASE ~(Fails("self_lock") \/ Fails("use_after_free"))
    <3>1. /\ cnt # 0 /\ cnt' = cnt - 1 /\ kind[m] = "observer"
          /\ kind' = [kind EXCEPT ![m] = "null"]
          /\ UNCHANGED <<is_null, object, freed, pc, fault>>
      BY <1>10, <2>3 DEF DestroyMember, Using
    <3>2. TypeOK'
      BY <1>1, <2>1, <3>1 DEF TypeOK
    <3>3. ObserversCounted'
      BY <1>1, <1>2, <2>1, <3>1, ClearObserver, ObservedAssumption
    <3>4. FlagFollowsObject' /\ LockHeld'
      BY <3>1 DEF FlagFollowsObject, LockHeld, Writers, Readers
    <3>5. OneOwner'
      BY <1>1, <2>1, <3>1 DEF OneOwner
    <3>6. QED BY <3>2, <3>3, <3>4, <3>5
  <2>4. QED BY <2>2, <2>3
<1>11. ASSUME NEW t \in Thread, FinishDelete(t)
       PROVE  IInv'
  <2>1. /\ pc[t] = "destroy" /\ pc' = [pc EXCEPT ![t] = "check_cnt"]
        /\ object' = "deleted" /\ UNCHANGED <<kind, cnt, is_null, freed, fault>>
        /\ object = "destroying"
    BY <1>11 DEF FinishDelete, At, Goto, LockHeld
  <2>2. TypeOK'
    BY <2>1 DEF TypeOK
  <2>3. ObserversCounted'
    BY <2>1 DEF ObserversCounted, Holding
  <2>4. FlagFollowsObject'
    BY <1>1, <2>1 DEF FlagFollowsObject, Dying
  <2>5. OneOwner'
    BY <1>1, <2>1 DEF OneOwner
  <2>6. LockHeld'
    BY <1>1, <2>1 DEF LockHeld, Writers, Readers
  <2>7. QED BY <2>2, <2>3, <2>4, <2>5, <2>6
<1>12. ASSUME NEW t \in Thread, CheckCnt(t)
       PROVE  IInv'
  <2>1. pc[t] = "check_cnt" /\ object # "live"
    BY <1>12 DEF CheckCnt, At, FlagFollowsObject, Dying
  <2>2. QED BY <1>12, <2>1, FailsIInv, PcIInv DEF CheckCnt, Using, Goto, TypeOK
<1>13. ASSUME NEW t \in Thread, CheckNull(t)
       PROVE  IInv'
  <2>1. is_null => object # "live"
    BY DEF FlagFollowsObject
  <2>2. QED BY <1>13, <2>1, FailsIInv, PcIInv DEF CheckNull, CheckNullThen, Using, At, Goto, TypeOK
<1>14. ASSUME NEW t \in Thread, FreeCells(t)
       PROVE  IInv'
  <2>1. pc[t] \in {"free_lock", "free_flag", "free_cnt"} /\ object # "live"
    BY <1>14 DEF FreeCells, Free, At, FlagFollowsObject, Dying
  <2>2. CASE Fails("double_free")
    BY <2>2, FailsIInv
  <2>3. CASE ~Fails("double_free")
    BY <1>14, <2>1, <2>3, PcIInv DEF FreeCells, Free, Goto, Cell, TypeOK
  <2>4. QED BY <2>2, <2>3
<1>15. ASSUME NEW t \in Thread, NEW h \in Handle, ReleaseObserver(t, h)
       PROVE  IInv'
  <2>1. CASE "observer_cnt" \in freed
    BY <1>15, <2>1, FailsIInv DEF ReleaseObserver, Using
  <2>2. CASE "observer_cnt" \notin freed
    <3>1. cnt # 0
      BY <1>1, <1>15, ClearObserver, ObservedAssumption DEF ReleaseObserver
    <3>2. /\ kind[h] = "observer" /\ pc[t] = "idle" /\ cnt' = cnt - 1
          /\ kind' = [kind EXCEPT ![h] = "null"]
          /\ \E where \in {"idle", "check_null"} : pc' = [pc EXCEPT ![t] = where]
          /\ UNCHANGED <<is_null, object, freed, fault>>
      BY <1>15, <2>2, <3>1 DEF ReleaseObserver, Using, Idle, Goto
    <3>3. TypeOK'
      BY <1>1, <3>1, <3>2 DEF TypeOK
    <3>4. ObserversCounted'
      BY <1>1, <1>2, <3>2, ClearObserver, ObservedAssumption
    <3>5. FlagFollowsObject'
      BY <1>1, <3>2 DEF FlagFollowsObject, Dying
    <3>6. OneOwner'
      BY <1>1, <3>2 DEF OneOwner
    <3>7. LockHeld'
      BY <1>1, <3>2 DEF LockHeld, Writers, Readers
    <3>8. QED BY <3>3, <3>4, <3>5, <3>6, <3>7
  <2>3. QED BY <2>1, <2>2
<1>16. CASE UNCHANGED vars
  BY <1>16 DEF vars, TypeOK, ObserversCounted, Holding, FlagFollowsObject, OneOwner,
               LockHeld, Writers, Readers
<1>17. CASE Next
  <2>1. PICK t \in Thread : Called(t)
    BY <1>17, NextIsCalled
  <2>2. CASE Continue(t)
    BY <2>2, <1>7, <1>9, <1>10, <1>11, <1>12, <1>13, <1>14 DEF Continue
  <2>3. QED BY <2>1, <2>2, <1>3, <1>4, <1>5, <1>6, <1>8, <1>15 DEF Called
<1>18. QED BY <1>16, <1>17

\* The invariant holds throughout.
LEMMA AlwaysIInv == Spec => []IInv
BY InitIInv, NextIInv, PTL DEF Spec

-----------------------------------------------------------------------------
(* Safety, for any number of threads. *)

\* Type correctness of ObservedAsync and its observers.
THEOREM ObservedTypeCorrect == Spec => []TypeOK
BY AlwaysIInv, PTL DEF IInv

\* The observer count is the number of observers.
THEOREM ObserverCountExact == Spec => []ObserversCounted
BY AlwaysIInv, PTL DEF IInv

\* While a guard of Read or Write is held the object is live and its lock is
\* there.
THEOREM GuardKeepsObject == Spec => []GuardProtects
<1>1. IInv => GuardProtects
  BY DEF IInv, FlagFollowsObject, GuardProtects
<1>2. QED BY <1>1, AlwaysIInv, PTL

-----------------------------------------------------------------------------
(* The abstract specification. *)

\* The holders of a write guard, as the abstract specification sees them.
AbstractWriters == {t \in Thread : pc[t] = "writing"}

\* ObservedAsync and AsyncObserver implement the monitored object: guards
\* exclude each other as they should and none is given out once the object is
\* being destroyed.
THEOREM ObservedImplementsMonitor == Spec => ImplementsMonitor
<1>1. Init => Monitor!MonitorInit
  BY DEF Init, Monitor!MonitorInit, Readers
<1>2. IInv /\ [Next]_vars => [Monitor!MonitorNext]_<<object = "live", Readers, AbstractWriters>>
  <2> SUFFICES ASSUME IInv, [Next]_vars
               PROVE  \/ Monitor!MonitorNext
                      \/ /\ (object = "live")' = (object = "live")
                         /\ Readers' = Readers /\ AbstractWriters' = AbstractWriters
    OBVIOUS
  <2> USE DEF IInv
  <2> DEFINE Stutter == /\ (object = "live")' = (object = "live")
                        /\ Readers' = Readers /\ AbstractWriters' = AbstractWriters
  <2>1. pc \in [Thread -> {"idle", "reading", "writing", "want_write", "destroy",
                          "check_cnt", "check_null", "free_lock", "free_flag", "free_cnt"}]
    BY DEF TypeOK
  <2>2. ASSUME pc' = pc, object' = object PROVE Stutter
    BY <2>2 DEF Readers, AbstractWriters
  <2>3. ASSUME NEW t \in Thread, NEW where, pc' = [pc EXCEPT ![t] = where],
               {pc[t], where} \cap {"reading", "writing"} = {},
               object' = object \/ (object # "live" /\ object' # "live")
        PROVE  Stutter
    BY <2>1, <2>3 DEF Readers, AbstractWriters
  <2>4. ASSUME NEW what, Fails(what) PROVE Stutter
    BY <2>2, <2>4 DEF Fails
  <2>5. ASSUME NEW t \in Thread, NEW h \in Handle, Read(t, h)
        PROVE  Monitor!StartRead(t) \/ Stutter
    <3>1. CASE \/ Fails("use_after_free")
               \/ pc' = [pc EXCEPT ![t] = "idle"] /\ object' = object
      BY <2>3, <2>4, <2>5, <3>1 DEF Read, Idle
    <3>2. CASE pc' = [pc EXCEPT ![t] = "reading"] /\ CanRead /\ object' = object
               /\ (kind[h] = "owner" \/ ~is_null)
      <4>1. object = "live" /\ pc[t] = "idle"
        BY <2>5, <3>2 DEF Read, Idle, OneOwner, FlagFollowsObject
      <4>2. /\ AbstractWriters = {} /\ AbstractWriters' = {} /\ t \notin Readers
            /\ Readers' = Readers \cup {t}
        BY <2>1, <3>2, <4>1 DEF Readers, AbstractWriters, CanRead, Writers
      <4>3. QED BY <3>2, <4>1, <4>2 DEF Monitor!StartRead, AbstractWriters
    <3>3. kind[h] \in {"owner", "observer"}
      BY <2>5 DEF Read, TypeOK
    <3>4. QED BY <2>5, <3>1, <3>2, <3>3 DEF Read, Using, Goto
  <2>6. ASSUME NEW t \in Thread, NEW h \in Handle, Write(t, h)
        PROVE  Monitor!StartWrite(t) \/ Stutter
    <3>1. CASE \/ Fails("use_after_free")
               \/ pc' = [pc EXCEPT ![t] = "idle"] /\ object' = object
      BY <2>3, <2>4, <2>6, <3>1 DEF Write, Idle
    <3>2. CASE pc' = [pc EXCEPT ![t] = "writing"] /\ CanWrite /\ object' = object
               /\ (kind[h] = "owner" \/ ~is_null)
      <4>1. object = "live" /\ pc[t] = "idle"
        BY <2>6, <3>2 DEF Write, Idle, OneOwner, FlagFollowsObject
      <4>2. /\ AbstractWriters = {} /\ AbstractWriters' = {t}
            /\ Readers = {} /\ Readers' = {}
        BY <2>1, <3>2, <4>1 DEF Readers, AbstractWriters, CanWrite, Writers
      <4>3. QED BY <3>2, <4>1, <4>2 DEF Monitor!StartWrite, AbstractWriters
    <3>3. kind[h] \in {"owner", "observer"}
      BY <2>6 DEF Write, TypeOK
    <3>4. QED BY <2>6, <3>1, <3>2, <3>3 DEF Write, Using, Goto
  <2>7. ASSUME NEW t \in Thread, EndGuard(t)
        PROVE  Monitor!Done(t) \/ Stutter
    <3>1. CASE Fails("use_after_free")
      BY <2>4, <3>1
    <3>2. CASE pc' = [pc EXCEPT ![t] = "idle"] /\ object' = object
      <4>1. Readers' = Readers \ {t} /\ AbstractWriters' = AbstractWriters \ {t}
        BY <2>1, <3>2 DEF Readers, AbstractWriters
      <4>2. QED BY <3>2, <4>1 DEF Monitor!Done, AbstractWriters
    <3>3. QED BY <2>7, <3>1, <3>2 DEF EndGuard, Using, Goto
  <2>8. ASSUME NEW t \in Thread, LockForDelete(t)
        PROVE  Monitor!Destroy \/ Stutter
    <3>1. CASE Fails("use_after_free")
      BY <2>4, <3>1
    <3>2. CASE ~Fails("use_after_free")
      <4>1. /\ object = "live" /\ CanWrite /\ object' = "destroying"
            /\ pc[t] = "want_write" /\ pc' = [pc EXCEPT ![t] = "destroy"]
        BY <2>8, <3>2 DEF LockForDelete, Using, At, Goto, OneOwner, FlagFollowsObject
      <4>2. /\ AbstractWriters = {} /\ AbstractWriters' = {}
            /\ Readers = {} /\ Readers' = {}
        BY <2>1, <4>1 DEF Readers, AbstractWriters, CanWrite, Writers
      <4>3. QED BY <4>1, <4>2 DEF Monitor!Destroy, AbstractWriters
    <3>3. QED BY <3>1, <3>2
  <2>9. ASSUME NEW t \in Thread,
               \/ \E h, d \in Handle : Observe(t, h, d) \/ Move(t, h, d)
               \/ \E h \in Handle : Query(t, h) \/ QueryCnt(t, h) \/ CastDead(t, h) \/ ResetGuarded(t, h)
               \/ \E m \in Member : DestroyMember(t, m)
        PROVE  Stutter
    BY <2>2, <2>4, <2>9, NothingButFault DEF Observe, Move, DestroyMember, Using, vars
  <2>10. ASSUME NEW t \in Thread, NEW h \in Handle, BeginReset(t, h) \/ ReleaseObserver(t, h)
         PROVE  Stutter
    BY <2>3, <2>4, <2>10 DEF BeginReset, ReleaseObserver, Using, Idle, Goto
  <2>11. ASSUME NEW t \in Thread, FinishDelete(t)
         PROVE  Stutter
    BY <2>3, <2>11 DEF FinishDelete, At, Goto, LockHeld
  <2>12. ASSUME NEW t \in Thread, CheckCnt(t) \/ CheckNull(t) \/ FreeCells(t)
         PROVE  Stutter
    BY <2>3, <2>4, <2>12 DEF CheckCnt, CheckNull, CheckNullThen, FreeCells, Free, Using, At, Goto
  <2>13. CASE UNCHANGED vars
    BY <2>2, <2>13 DEF vars
  <2>14. CASE Next
    <3>1. PICK t \in Thread : Called(t)
      BY <2>14, NextIsCalled
    <3>2. \/ Stutter \/ Monitor!Destroy
          \/ Monitor!StartRead(t) \/ Monitor!StartWrite(t) \/ Monitor!Done(t)
      <4>1. CASE Continue(t)
        BY <4>1, <2>7, <2>8, <2>9, <2>11, <2>12 DEF Continue
      <4>2. QED BY <3>1, <4>1, <2>5, <2>6, <2>9, <2>10 DEF Called
    <3>3. QED BY <3>2 DEF Monitor!MonitorNext
  <2>15. QED BY <2>13, <2>14
<1>3. QED
  BY <1>1, <1>2, AlwaysIInv, PTL
  DEF Spec, ImplementsMonitor, Monitor!MonitorSpec, Monitor!monitored, AbstractWriters

-----------------------------------------------------------------------------
(* Nothing is leaked. *)

\* While the program is defined, a thread is on its way to whatever is not
\* freed yet although no handle is left.
Pending ==
  fault = "none" =>
    /\ object = "live" => \/ \E h \in Handle : kind[h] = "owner"
                         \/ \E t \in Thread : pc[t] = "want_write"
    /\ object = "deleted" /\ cnt = 0 =>
         \/ "rw_lock" \in freed
         \/ \E t \in Thread : pc[t] \in {"check_cnt", "check_null", "free_lock"}
    /\ "rw_lock" \in freed => "is_null" \in freed \/ \E t \in Thread : pc[t] = "free_flag"
    /\ "is_null" \in freed => "observer_cnt" \in freed \/ \E t \in Thread : pc[t] = "free_cnt"

\* Every step keeps Pending.
LEMMA NextPending == IInv /\ Pending /\ [Next]_vars => Pending'
<1> SUFFICES ASSUME IInv, Pending, [Next]_vars, fault' = "none" PROVE Pending'
  BY DEF Pending
<1> USE DEF IInv, TypeOK, Pending
<1>1. CASE UNCHANGED vars
  BY <1>1 DEF vars
<1>2. ASSUME NEW t \in Thread, NEW h \in Handle, NEW d \in Handle, Observe(t, h, d)
      PROVE  Pending'
  <2>1. kind[h] = "observer" => cnt # 0
    <3>1. kind \in [Handle -> Kind] /\ cnt = Observers(Handle, kind)
      BY CountedAsObservers DEF Kind
    <3>2. QED BY <3>1, ClearObserver, ObservedAssumption
  <2>2. kind[h] = "owner" => object = "live"
    BY DEF OneOwner
  <2>3. kind[d] = "null" /\ kind[h] \in {"owner", "observer"}
    BY <1>2 DEF Observe, Settable
  <2>4. /\ kind' = [kind EXCEPT ![d] = "observer"] /\ (cnt' = 0 => cnt = 0)
        /\ UNCHANGED <<object, freed, pc, fault>>
    BY <1>2, <2>3 DEF Observe, Using, Fails
  <2>5. QED BY <2>1, <2>2, <2>3, <2>4
<1>3. ASSUME NEW t \in Thread, NEW h \in Handle, NEW d \in Handle, Move(t, h, d)
      PROVE  Pending'
  <2>1. /\ kind[d] = "null" /\ kind[h] # "null"
        /\ kind' = [kind EXCEPT ![d] = kind[h], ![h] = "null"]
        /\ UNCHANGED <<object, cnt, freed, pc, fault>>
    BY <1>3 DEF Move, Settable
  <2>2. (\E g \in Handle : kind[g] = "owner") => \E g \in Handle : kind'[g] = "owner"
    BY <2>1
  <2>3. QED BY <2>1, <2>2
<1>4. ASSUME NEW t \in Thread, NEW h \in Handle,
             Query(t, h) \/ QueryCnt(t, h) \/ CastDead(t, h) \/ ResetGuarded(t, h)
      PROVE  Pending'
  BY <1>1, <1>4, NothingButFault DEF Fails
<1>5. ASSUME NEW t \in Thread, NEW h \in Handle, Read(t, h) \/ Write(t, h)
      PROVE  Pending'
  BY <1>5 DEF Read, Write, Using, Fails, Idle, Goto
<1>6. ASSUME NEW t \in Thread, NEW h \in Handle, BeginReset(t, h)
      PROVE  Pending'
  BY <1>6 DEF BeginReset, Idle, Goto
<1>7. ASSUME NEW t \in Thread, NEW h \in Handle, ReleaseObserver(t, h)
      PROVE  Pending'
  BY <1>7 DEF ReleaseObserver, Using, Fails, Idle, Goto
<1>8. ASSUME NEW t \in Thread, EndGuard(t)
      PROVE  Pending'
  BY <1>8 DEF EndGuard, Using, Fails, Goto
<1>9. ASSUME NEW t \in Thread, LockForDelete(t)
      PROVE  Pending'
  BY <1>9 DEF LockForDelete, Using, Fails, At, Goto, FlagFollowsObject, OneOwner
<1>10. ASSUME NEW t \in Thread, NEW m \in Member, DestroyMember(t, m)
       PROVE  Pending'
  <2>1. object = "destroying" /\ m \in Handle
    BY <1>10, ObservedAssumption DEF DestroyMember, At, LockHeld
  <2>2. QED BY <1>10, <2>1 DEF DestroyMember, Using, Fails
<1>11. ASSUME NEW t \in Thread, FinishDelete(t)
       PROVE  Pending'
  BY <1>11 DEF FinishDelete, At, Goto
<1>12. ASSUME NEW t \in Thread, CheckCnt(t)
       PROVE  Pending'
  BY <1>12 DEF CheckCnt, Using, Fails, At, Goto
<1>13. ASSUME NEW t \in Thread, CheckNull(t)
       PROVE  Pending'
  BY <1>13 DEF CheckNull, CheckNullThen, Using, Fails, At, Goto, FlagFollowsObject
<1>14. ASSUME NEW t \in Thread, FreeCells(t)
       PROVE  Pending'
  <2>1. CASE Free(t, "free_lock", "rw_lock", "free_flag")
    BY <2>1 DEF Free, Fails, At, Goto
  <2>2. CASE Free(t, "free_flag", "is_null", "free_cnt")
    BY <2>2 DEF Free, Fails, At, Goto
  <2>3. CASE Free(t, "free_cnt", "observer_cnt", "idle")
    BY <2>3 DEF Free, Fails, At, Goto
  <2>4. QED BY <1>14, <2>1, <2>2, <2>3 DEF FreeCells
<1>15. CASE Next
  <2>1. PICK t \in Thread : Called(t)
    BY <1>15, NextIsCalled
  <2>2. CASE Continue(t)
    BY <2>2, <1>8, <1>9, <1>10, <1>11, <1>12, <1>13, <1>14 DEF Continue
  <2>3. QED BY <2>1, <2>2, <1>2, <1>3, <1>4, <1>5, <1>6, <1>7 DEF Called
<1>16. QED BY <1>1, <1>15

\* When nobody holds a handle and every Reset has returned, the object, the
\* lock, the flag and the count have been freed.
THEOREM ObservedNothingLeaks == Spec => []NoLeak
<1>1. Init => Pending
  BY DEF Init, Pending
<1>2. IInv /\ Pending => NoLeak
  <2> SUFFICES ASSUME IInv, Pending, fault = "none", Holding("null") = Handle,
                      \A t \in Thread : pc[t] = "idle"
               PROVE  object = "deleted" /\ freed = Cell
    BY DEF NoLeak
  <2>1. \A h \in Handle : kind[h] = "null"
    BY DEF Holding
  <2>2. cnt = 0
    <3>1. Holding("observer") = {}
      BY <2>1 DEF Holding
    <3>2. QED BY <3>1, FS_EmptySet DEF IInv, ObserversCounted
  <2>3. object = "deleted"
    BY <2>1 DEF Pending, IInv, TypeOK, LockHeld
  <2>4. QED BY <2>2, <2>3 DEF Pending, IInv, TypeOK, Cell
<1>3. QED BY <1>1, <1>2, NextPending, AlwaysIInv, PTL DEF Spec

-----------------------------------------------------------------------------
(* One thread alone. *)

\* Where the thread is says what is freed, and that nobody needs it.
FreedFollowsPc ==
  /\ fault \notin {"use_after_free", "double_free"}
  /\ \A t \in Thread :
       /\ pc[t] \in {"reading", "writing", "want_write", "destroy", "check_cnt", "check_null",
                     "free_lock"} => freed = {}
       /\ pc[t] = "idle" => freed = {} \/ (cnt = 0 /\ object # "live")
       /\ pc[t] = "check_null" => cnt = 0
       /\ pc[t] \in {"free_lock", "free_flag", "free_cnt"} => cnt = 0 /\ object # "live"
       /\ pc[t] = "free_flag" => freed = {"rw_lock"}
       /\ pc[t] = "free_cnt" => freed = {"rw_lock", "is_null"}

\* With one thread the allocations are used only while they are there and freed
\* once, with observers inside the object too.
THEOREM ObservedLocalIsSafe ==
  ASSUME \A t, u \in Thread : t = u
  PROVE  Spec => []NoFault
<1>1. Init => FreedFollowsPc
  BY DEF Init, FreedFollowsPc
<1>2. IInv /\ FreedFollowsPc /\ [Next]_vars => FreedFollowsPc'
  <2> SUFFICES ASSUME IInv, FreedFollowsPc, [Next]_vars PROVE FreedFollowsPc'
    OBVIOUS
  <2> USE DEF IInv, TypeOK, FreedFollowsPc
  <2>1. CASE UNCHANGED vars
    BY <2>1 DEF vars
  <2>2. ASSUME NEW h \in Handle, kind[h] # "null" PROVE cnt # 0 \/ object = "live"
    <3>1. kind[h] = "observer" => cnt # 0
      BY CountedAsObservers, ClearObserver, ObservedAssumption DEF Kind
    <3>2. QED BY <2>2, <3>1 DEF OneOwner
  <2>3. ASSUME NEW t \in Thread, NEW h \in Handle, NEW d \in Handle,
               Observe(t, h, d) \/ Move(t, h, d)
        PROVE  FreedFollowsPc'
    BY <2>2, <2>3 DEF Observe, Move, Using, Fails, Idle
  <2>4. ASSUME NEW t \in Thread, NEW h \in Handle, Read(t, h) \/ Write(t, h)
        PROVE  FreedFollowsPc'
    BY <2>2, <2>4 DEF Read, Write, Using, Fails, Idle, Goto
  <2>5. ASSUME NEW t \in Thread, NEW h \in Handle,
               Query(t, h) \/ QueryCnt(t, h) \/ CastDead(t, h) \/ ResetGuarded(t, h)
        PROVE  FreedFollowsPc'
    BY <2>2, <2>5 DEF Query, QueryCnt, CastDead, ResetGuarded, Using, Fails, Idle, vars
  <2>6. ASSUME NEW t \in Thread, NEW h \in Handle, BeginReset(t, h) \/ ReleaseObserver(t, h)
        PROVE  FreedFollowsPc'
    BY <2>2, <2>6 DEF BeginReset, ReleaseObserver, Using, Fails, Idle, Goto, OneOwner
  <2>7. ASSUME NEW t \in Thread, Continue(t)
        PROVE  FreedFollowsPc'
    <3>1. CASE LockForDelete(t)
      BY <3>1 DEF LockForDelete, Using, Fails, At, Goto, OneOwner, FlagFollowsObject
    <3>2. CASE FinishDelete(t)
      BY <3>2 DEF FinishDelete, At, Goto
    <3>3. CASE CheckCnt(t)
      BY <3>3 DEF CheckCnt, Using, Fails, At, Goto, FlagFollowsObject, Dying
    <3>4. CASE CheckNull(t)
      BY <3>4 DEF CheckNull, CheckNullThen, Using, Fails, At, Goto, FlagFollowsObject
    <3>5. CASE FreeCells(t)
      BY <3>5 DEF FreeCells, Free, Fails, At, Goto
    <3>6. CASE EndGuard(t)
      BY <3>6 DEF EndGuard, Using, Fails, Goto
    <3>7. ASSUME NEW m \in Member, DestroyMember(t, m) PROVE FreedFollowsPc'
      BY <3>7 DEF DestroyMember, Using, Fails, At
    <3>8. QED BY <2>7, <3>1, <3>2, <3>3, <3>4, <3>5, <3>6, <3>7 DEF Continue
  <2>8. CASE Next
    BY <2>3, <2>4, <2>6, <2>7, <2>8, <2>5, NextIsCalled DEF Called
  <2>9. QED BY <2>1, <2>8
<1>3. FreedFollowsPc => NoFault
  BY DEF FreedFollowsPc, NoFault
<1>4. QED BY <1>1, <1>2, <1>3, AlwaysIInv, PTL DEF Spec
=============================================================================
