--------------------------- MODULE ObservedAsync ----------------------------
(***************************************************************************)
(* mirage::base::ObservedAsync and AsyncObserver over one object           *)
(* (auto_ptr/observed.hpp, sync/rw_lock.cpp): the owner deletes the object *)
(* under the write lock and raises the is_null flag; observers find out    *)
(* under the read lock.  Lock, flag and observer count are allocated with  *)
(* the object and freed by the owner, if it sees no observer, or by the    *)
(* last observer, if it sees the flag.                                     *)
(*                                                                         *)
(* A step of a thread is one call on the count, one scope of the RWLock or *)
(* one delete.  The scopes that outlive a call, the guards of Read and     *)
(* Write and the write scope around delete raw_ptr_, are values of pc, so  *)
(* the lock's holders are the threads there.  A thread holds one guard at  *)
(* a time and meanwhile makes no other call that ends, but may reset the   *)
(* owner and so wait for itself.  A handle is used by one thread at a      *)
(* time; ResetPtr is folded into the first step of Reset.                  *)
(*                                                                         *)
(* Using or deleting freed memory, and asking for the lock in a way the    *)
(* thread itself prevents, is recorded in fault and ends the run.          *)
(***************************************************************************)
EXTENDS Integers, FiniteSets

CONSTANTS Thread,
          Handle,   \* variables of type ObservedAsync or AsyncObserver
          Member    \* those that are members of the observed object

ASSUME ObservedAssumption == Member \subseteq Handle /\ IsFiniteSet(Handle)

VARIABLES kind,     \* what each handle holds: "null", "owner" or "observer"
          cnt,      \* observer_cnt_->cnt_
          is_null,  \* *is_null_
          object,   \* "live", "destroying" or "deleted"
          freed,    \* which of the three allocations have been deleted
          pc,       \* what each thread is doing
          fault     \* "none" or what has gone wrong

vars == <<kind, cnt, is_null, object, freed, pc, fault>>

Cell == {"rw_lock", "is_null", "observer_cnt"}

\* ObservedAsync::New into some handle.
Init ==
  /\ \E h \in Handle \ Member : kind = [g \in Handle |-> IF g = h THEN "owner" ELSE "null"]
  /\ cnt = 0
  /\ is_null = FALSE
  /\ object = "live"
  /\ freed = {}
  /\ pc = [t \in Thread |-> "idle"]
  /\ fault = "none"

-----------------------------------------------------------------------------
(* Helpers *)

Idle(t) == fault = "none" /\ pc[t] = "idle"
At(t, where) == fault = "none" /\ pc[t] = where
Goto(t, where) == pc' = [pc EXCEPT ![t] = where]

Fails(what) ==
  fault' = what /\ UNCHANGED <<kind, cnt, is_null, object, freed, pc>>

\* A use of an allocation: its effect if the allocation is there.
Using(cell, effect) ==
  \/ cell \notin freed /\ effect
  \/ cell \in freed /\ Fails("use_after_free")

\* Who has the RWLock.
Readers == {t \in Thread : pc[t] = "reading"}
Writers == {t \in Thread : pc[t] \in {"writing", "destroy"}}

\* A thread waits for the lock until these hold.
CanRead  == Writers = {}
CanWrite == Writers = {} /\ Readers = {}

\* A handle a value can be put in: members only while the object is live.
Settable(d) == kind[d] = "null" /\ (d \in Member => object = "live")

-----------------------------------------------------------------------------
(* Calls of one step *)

\* Fault: NewObserver uses TryIncrease, which does not count from zero.
ObserveTrying(t, h, d) ==
  /\ Idle(t) /\ kind[h] # "null" /\ h \notin Member /\ Settable(d)
  /\ Using("observer_cnt",
       /\ cnt' = IF cnt = 0 THEN 0 ELSE cnt + 1
       /\ kind' = [kind EXCEPT ![d] = "observer"]
       /\ UNCHANGED <<is_null, object, freed, pc, fault>>)

\* A new observer, by Increase or by TryIncrease, which fails at zero.
Observe(t, h, d) ==
  /\ Idle(t) /\ kind[h] # "null" /\ h \notin Member /\ Settable(d)
  /\ Using("observer_cnt",
       /\ cnt' = IF kind[h] = "observer" /\ cnt = 0 THEN 0 ELSE cnt + 1
       /\ kind' = [kind EXCEPT ![d] = "observer"]
       /\ UNCHANGED <<is_null, object, freed, pc, fault>>)

\* ObservedAsync::NewObserver, and AsyncObserver::Clone, which does not look
\* at whether TryIncrease failed.
NewObserver(t, h, d) == kind[h] = "owner" /\ Observe(t, h, d)
Clone(t, h, d)       == kind[h] = "observer" /\ Observe(t, h, d)

\* A handle is passed on and left null; a move assignment resets its target
\* first.
Move(t, h, d) ==
  /\ Idle(t) /\ kind[h] # "null" /\ h \notin Member
  /\ Settable(d) /\ (d \in Member => kind[h] = "observer")
  /\ kind' = [kind EXCEPT ![d] = kind[h], ![h] = "null"]
  /\ UNCHANGED <<cnt, is_null, object, freed, pc, fault>>

\* Move construction, and Convert, of the owner and of an observer.
MoveOwner(t, h, d)    == kind[h] = "owner" /\ Move(t, h, d)
MoveObserver(t, h, d) == kind[h] = "observer" /\ Move(t, h, d)

\* TryConvert of an observer to a derived type where the object is gone:
\* dynamic_cast reads it all the same.
CastDead(t, h) ==
  /\ Idle(t) /\ kind[h] = "observer" /\ h \notin Member
  /\ object # "live"
  /\ Fails("dead_cast")

\* observer_cnt, which reads the count.
QueryCnt(t, h) ==
  /\ Idle(t) /\ kind[h] # "null" /\ h \notin Member
  /\ Using("observer_cnt", UNCHANGED vars)

\* is_null, from outside: a read scope.
Query(t, h) ==
  /\ Idle(t) /\ kind[h] # "null" /\ h \notin Member
  /\ Using("rw_lock", CanRead /\ Using("is_null", UNCHANGED vars))

-----------------------------------------------------------------------------
(* Guards *)

\* Fault: an observer does not look at the flag.
ReadBlindly(t, h) ==
  /\ Idle(t) /\ kind[h] # "null" /\ h \notin Member
  /\ Using("rw_lock",
       /\ CanRead
       /\ Goto(t, "reading")
       /\ UNCHANGED <<kind, cnt, is_null, object, freed, fault>>)

\* An observer gets no guard when the flag is up; the owner, which is the one
\* to raise it, does not look.
Read(t, h) ==
  /\ Idle(t) /\ kind[h] # "null" /\ h \notin Member
  /\ Using("rw_lock",
       /\ CanRead
       /\ Goto(t, IF kind[h] = "observer" /\ is_null THEN "idle" ELSE "reading")
       /\ UNCHANGED <<kind, cnt, is_null, object, freed, fault>>)

Write(t, h) ==
  /\ Idle(t) /\ kind[h] # "null" /\ h \notin Member
  /\ Using("rw_lock",
       /\ CanWrite
       /\ Goto(t, IF kind[h] = "observer" /\ is_null THEN "idle" ELSE "writing")
       /\ UNCHANGED <<kind, cnt, is_null, object, freed, fault>>)

\* Read and Write of the owner and of an observer.
ReadOwner(t, h)     == kind[h] = "owner" /\ Read(t, h)
ReadObserver(t, h)  == kind[h] = "observer" /\ Read(t, h)
WriteOwner(t, h)    == kind[h] = "owner" /\ Write(t, h)
WriteObserver(t, h) == kind[h] = "observer" /\ Write(t, h)

\* A thread that has a guard resets the owner: the write scope it asks for
\* begins when its own guard ends.
ResetGuarded(t, h) ==
  /\ fault = "none" /\ pc[t] \in {"reading", "writing"}
  /\ kind[h] = "owner"
  /\ Using("rw_lock", Fails("self_wait"))

\* The guard's destructor unlocks.
EndGuard(t) ==
  /\ fault = "none" /\ pc[t] \in {"reading", "writing"}
  /\ Using("rw_lock",
       /\ Goto(t, "idle")
       /\ UNCHANGED <<kind, cnt, is_null, object, freed, fault>>)

-----------------------------------------------------------------------------
(* ObservedAsync::Reset *)

BeginReset(t, h) ==
  /\ Idle(t) /\ kind[h] = "owner"
  /\ kind' = [kind EXCEPT ![h] = "null"]
  /\ Goto(t, "want_write")
  /\ UNCHANGED <<cnt, is_null, object, freed, fault>>

\* Fault: the object is deleted outside the write scope.
DeleteUnlocked(t) ==
  /\ At(t, "want_write")
  /\ Using("rw_lock",
       /\ IF is_null
          THEN Goto(t, "idle") /\ UNCHANGED <<is_null, object>>
          ELSE Goto(t, "destroy") /\ is_null' = TRUE /\ object' = "destroying"
       /\ UNCHANGED <<kind, cnt, freed, fault>>)

\* The write scope begins: if the flag is down, raise it and delete.
LockForDelete(t) ==
  /\ At(t, "want_write")
  /\ Using("rw_lock",
       /\ CanWrite
       /\ IF is_null
          THEN Goto(t, "idle") /\ UNCHANGED <<is_null, object>>
          ELSE Goto(t, "destroy") /\ is_null' = TRUE /\ object' = "destroying"
       /\ UNCHANGED <<kind, cnt, freed, fault>>)

\* The object's destructor resets a member: TryRelease, and if it was the last
\* observer a read scope inside the thread's own write scope.
DestroyMember(t, m) ==
  /\ At(t, "destroy") /\ kind[m] = "observer"
  /\ Using("observer_cnt",
       IF cnt \in {0, 1} THEN Fails("self_lock")
       ELSE /\ cnt' = cnt - 1
            /\ kind' = [kind EXCEPT ![m] = "null"]
            /\ UNCHANGED <<is_null, object, freed, pc, fault>>)

\* The object is gone and the write scope ends.
FinishDelete(t) ==
  /\ At(t, "destroy") /\ \A m \in Member : kind[m] = "null"
  /\ object' = "deleted"
  /\ Goto(t, "check_cnt")
  /\ UNCHANGED <<kind, cnt, is_null, freed, fault>>

CheckCnt(t) ==
  /\ At(t, "check_cnt")
  /\ Using("observer_cnt",
       /\ Goto(t, IF cnt = 0 THEN "free_lock" ELSE "idle")
       /\ UNCHANGED <<kind, cnt, is_null, object, freed, fault>>)

-----------------------------------------------------------------------------
(* AsyncObserver::Reset *)

ReleaseObserver(t, h) ==
  /\ Idle(t) /\ kind[h] = "observer" /\ h \notin Member
  /\ Using("observer_cnt",
       /\ cnt' = IF cnt = 0 THEN 0 ELSE cnt - 1
       /\ kind' = [kind EXCEPT ![h] = "null"]
       /\ Goto(t, IF cnt' = 0 THEN "check_null" ELSE "idle")
       /\ UNCHANGED <<is_null, object, freed, fault>>)

\* What the last observer does when the flag is up, and when it is not.
CheckNullThen(t, up, down) ==
  /\ At(t, "check_null")
  /\ Using("rw_lock",
       CanRead /\ Using("is_null",
         /\ Goto(t, IF is_null THEN up ELSE down)
         /\ UNCHANGED <<kind, cnt, is_null, object, freed, fault>>))

\* Faults: the cells are never freed, or waited for.
CheckNullNever(t) == CheckNullThen(t, "idle", "idle")
CheckNullWaits(t) == CheckNullThen(t, "free_lock", "check_null")

\* is_null(): a read scope.
CheckNull(t) == CheckNullThen(t, "free_lock", "idle")

\* delete rw_lock_; delete is_null_; delete observer_cnt_
Free(t, where, cell, next) ==
  /\ At(t, where)
  /\ IF cell \in freed THEN Fails("double_free")
     ELSE /\ freed' = freed \cup {cell} /\ Goto(t, next)
          /\ UNCHANGED <<kind, cnt, is_null, object, fault>>

FreeCells(t) ==
  \/ Free(t, "free_lock", "rw_lock", "free_flag")
  \/ Free(t, "free_flag", "is_null", "free_cnt")
  \/ Free(t, "free_cnt", "observer_cnt", "idle")

-----------------------------------------------------------------------------
\* A step of a Reset that has begun, or the end of a guard.
Continue(t) ==
  \/ LockForDelete(t) \/ FinishDelete(t) \/ CheckCnt(t) \/ CheckNull(t) \/ FreeCells(t)
  \/ \E m \in Member : DestroyMember(t, m)
  \/ EndGuard(t)

Next ==
  \E t \in Thread :
    \/ \E h, d \in Handle :
         \/ NewObserver(t, h, d) \/ Clone(t, h, d)
         \/ MoveOwner(t, h, d) \/ MoveObserver(t, h, d)
    \/ \E h \in Handle :
         \/ Query(t, h) \/ QueryCnt(t, h) \/ CastDead(t, h)
         \/ ReadOwner(t, h) \/ ReadObserver(t, h)
         \/ WriteOwner(t, h) \/ WriteObserver(t, h)
         \/ BeginReset(t, h) \/ ResetGuarded(t, h) \/ ReleaseObserver(t, h)
    \/ Continue(t)

Spec == Init /\ [][Next]_vars

\* A thread in a Reset keeps running it, and guards end.
FairSpec == Spec /\ \A t \in Thread : WF_vars(Continue(t))

-----------------------------------------------------------------------------
(* Properties *)

Holding(k) == {h \in Handle : kind[h] = k}

\* The types of the variables.
TypeOK ==
  /\ kind \in [Handle -> {"null", "owner", "observer"}]
  /\ cnt \in Nat
  /\ is_null \in BOOLEAN
  /\ object \in {"live", "destroying", "deleted"}
  /\ freed \subseteq Cell
  /\ pc \in [Thread -> {"idle", "reading", "writing", "want_write", "destroy",
                        "check_cnt", "check_null", "free_lock", "free_flag", "free_cnt"}]
  /\ fault \in {"none", "use_after_free", "double_free", "self_lock", "self_wait", "dead_cast"}

\* The observer count is the number of observers, in every interleaving: a
\* Clone never goes uncounted.
ObserversCounted == cnt = Cardinality(Holding("observer"))

\* A guard protects the object from the owner's Reset, and the lock from being
\* freed before the guard unlocks it.
GuardProtects ==
  \A t \in Thread : pc[t] \in {"reading", "writing"} =>
    object = "live" /\ "rw_lock" \notin freed

\* When nobody holds a handle and every Reset has returned, the object, the
\* lock, the flag and the count have been freed.
NoLeak ==
  (fault = "none" /\ Holding("null") = Handle /\ \A t \in Thread : pc[t] = "idle")
    => object = "deleted" /\ freed = Cell

\* Every call on the lock, the flag and the count finds it alive, and none is
\* deleted twice.
NoFault == fault \notin {"use_after_free", "double_free"}

\* The destructor of the object does not ask for the lock its own thread holds.
NoSelfLock == fault # "self_lock"

\* No thread waits for a guard of its own to end.
NoSelfWait == fault # "self_wait"

\* Once no guard is taken any more, every Reset that has begun returns (or the
\* program has become undefined).
ResetsReturn ==
  <>[](Readers = {} /\ \A t \in Thread : pc[t] # "writing") =>
    \A t \in Thread : (pc[t] # "idle") ~> (pc[t] = "idle" \/ fault # "none")

Monitor == INSTANCE Monitored WITH
  alive   <- object = "live",
  readers <- Readers,
  writers <- {t \in Thread : pc[t] = "writing"}

\* ObservedAsync and AsyncObserver implement the monitored object.
ImplementsMonitor == Monitor!MonitorSpec
=============================================================================
