--------------------------- MODULE ObservedLocal ----------------------------
(***************************************************************************)
(* mirage::base::ObservedLocal and LocalObserver over one object, on one   *)
(* thread (auto_ptr/observed.hpp): a flag and an observer count allocated  *)
(* with the object and freed by the owner, if it sees no observer, or by   *)
(* the last observer, if it sees the flag.                                 *)
(*                                                                         *)
(* The calls do not interleave, but delete raw_ptr_ in the middle of the   *)
(* owner's Reset runs the object's destructor, which makes calls of its    *)
(* own: it resets the handles that are members of the object, and may ask, *)
(* clone, observe, move and reset through the others, the owner included,  *)
(* which has not cleared its pointers yet.                                 *)
(*                                                                         *)
(* A use of a freed allocation, of a pointer the owner no longer has or of *)
(* an object that is gone is recorded in fault and ends the run.           *)
(***************************************************************************)
EXTENDS Integers, FiniteSets

CONSTANTS Handle,   \* variables of type ObservedLocal or LocalObserver
          Member    \* those the object's destructor resets

ASSUME LocalAssumption == Member \subseteq Handle /\ IsFiniteSet(Handle)

VARIABLES kind,     \* what each handle holds: "null", "owner" or "observer"
          cnt,      \* observer_cnt_->cnt_
          is_null,  \* *is_null_
          object,   \* "live", "destroying" or "deleted"
          freed,    \* is_null_ and observer_cnt_ have been deleted
          resetting,  \* the owner whose Reset is in the destructor, as a set
          fault     \* "none", "freed", "null" or "dead_cast"

vars == <<kind, cnt, is_null, object, freed, resetting, fault>>

\* ObservedLocal::New into some handle.
Init ==
  /\ \E h \in Handle \ Member : kind = [g \in Handle |-> IF g = h THEN "owner" ELSE "null"]
  /\ cnt = 0 /\ is_null = FALSE
  /\ object = "live"
  /\ freed = FALSE /\ resetting = {} /\ fault = "none"

\* A call that looks at the flag or the count.
Using(effect) ==
  /\ fault = "none"
  /\ \/ ~freed /\ effect /\ UNCHANGED fault
     \/ /\ freed /\ fault' = "freed"
        /\ UNCHANGED <<kind, cnt, is_null, object, freed, resetting>>

\* Members are reset by the destructor and by nobody else, and set while the
\* object lives.
Reachable(h) == h \in Member <=> object = "destroying"
Settable(d) ==
  kind[d] = "null" /\ d \notin resetting /\ (d \in Member => object = "live")

\* Fault: the pointers are copied only.
NewObserverUncounted(h, d) ==
  /\ kind[h] = "owner" /\ Settable(d)
  /\ Using(/\ kind' = [kind EXCEPT ![d] = "observer"]
           /\ UNCHANGED <<cnt, is_null, object, freed, resetting>>)

\* NewObserver, which does not ask is_null.
NewObserver(h, d) ==
  /\ kind[h] = "owner" /\ Settable(d)
  /\ Using(/\ cnt' = cnt + 1
           /\ kind' = [kind EXCEPT ![d] = "observer"]
           /\ UNCHANGED <<is_null, object, freed, resetting>>)

\* Clone: TryIncrease leaves a count of zero alone, and the clone is made all
\* the same.
Clone(h, d) ==
  /\ kind[h] = "observer" /\ h \notin Member /\ Settable(d)
  /\ Using(/\ cnt' = IF cnt = 0 THEN 0 ELSE cnt + 1
           /\ kind' = [kind EXCEPT ![d] = "observer"]
           /\ UNCHANGED <<is_null, object, freed, resetting>>)

\* Move construction and Convert; a move assignment resets its target first.
MoveOwner(h, d) ==
  /\ fault = "none" /\ kind[h] = "owner" /\ kind[d] = "null" /\ d \notin Member
  /\ kind' = [kind EXCEPT ![d] = "owner", ![h] = "null"]
  /\ UNCHANGED <<cnt, is_null, object, freed, resetting, fault>>

MoveObserver(h, d) ==
  /\ fault = "none" /\ kind[h] = "observer" /\ h \notin Member /\ Settable(d)
  /\ kind' = [kind EXCEPT ![d] = "observer", ![h] = "null"]
  /\ UNCHANGED <<cnt, is_null, object, freed, resetting, fault>>

\* TryConvert of an observer to a derived type where the object is gone:
\* dynamic_cast reads it all the same.
CastDead(h) ==
  /\ fault = "none" /\ kind[h] = "observer" /\ h \notin Member /\ object = "deleted"
  /\ fault' = "dead_cast"
  /\ UNCHANGED <<kind, cnt, is_null, object, freed, resetting>>

\* is_null and observer_cnt, and the Reset of an owner that is null already,
\* which returns.
QueryOwner(h) ==
  /\ kind[h] = "owner"
  /\ Using(UNCHANGED <<kind, cnt, is_null, object, freed, resetting>>)

QueryObserver(h) ==
  /\ kind[h] = "observer" /\ h \notin Member
  /\ Using(UNCHANGED <<kind, cnt, is_null, object, freed, resetting>>)

\* Faults: the last observer does not look at the flag, or leaves the freeing to
\* the owner.
ReleaseAndFree(h) ==
  /\ kind[h] = "observer" /\ Reachable(h)
  /\ Using(/\ cnt' = IF cnt = 0 THEN 0 ELSE cnt - 1
           /\ kind' = [kind EXCEPT ![h] = "null"]
           /\ freed' = (cnt' = 0)
           /\ UNCHANGED <<is_null, object, resetting>>)

ReleaseAndLeave(h) ==
  /\ kind[h] = "observer" /\ Reachable(h)
  /\ Using(/\ cnt' = IF cnt = 0 THEN 0 ELSE cnt - 1
           /\ kind' = [kind EXCEPT ![h] = "null"]
           /\ UNCHANGED <<is_null, object, freed, resetting>>)

\* LocalObserver::Reset: TryRelease; the last one frees if the flag is up.
ReleaseObserver(h) ==
  /\ kind[h] = "observer" /\ Reachable(h)
  /\ Using(/\ cnt' = IF cnt = 0 THEN 0 ELSE cnt - 1
           /\ kind' = [kind EXCEPT ![h] = "null"]
           /\ freed' = (cnt' = 0 /\ is_null)
           /\ UNCHANGED <<is_null, object, resetting>>)

\* Fault: the flag after the destructor (in FinishReset, or never).
BeginResetUnflagged(h) ==
  /\ kind[h] = "owner" /\ ~is_null /\ object = "live"
  /\ Using(/\ object' = "destroying" /\ resetting' = {h}
           /\ UNCHANGED <<kind, cnt, is_null, freed>>)

\* ObservedLocal::Reset up to the destructor: the flag first.
BeginReset(h) ==
  /\ kind[h] = "owner" /\ ~is_null
  /\ Using(/\ is_null' = TRUE /\ object' = "destroying" /\ resetting' = {h}
           /\ UNCHANGED <<kind, cnt, freed>>)

\* The end of another owner inside the destructor: its Reset returns at once.
EndNullOwner(h) ==
  /\ kind[h] = "owner" /\ is_null /\ h \notin resetting
  /\ Using(/\ kind' = [kind EXCEPT ![h] = "null"]
           /\ UNCHANGED <<cnt, is_null, object, freed, resetting>>)

\* The rest, when the destructor has reset the members: the count is read, the
\* allocations are freed if it is zero, and the owner's pointers are cleared.
FinishReset(h) ==
  /\ h \in resetting /\ \A m \in Member : kind[m] = "null"
  /\ \/ /\ kind[h] = "owner"
        /\ Using(/\ object' = "deleted" /\ resetting' = {}
                 /\ freed' = (cnt = 0)
                 /\ kind' = [kind EXCEPT ![h] = "null"]
                 /\ UNCHANGED <<cnt, is_null>>)
     \/ /\ kind[h] = "null" /\ fault = "none"
        /\ fault' = "null"
        /\ UNCHANGED <<kind, cnt, is_null, object, freed, resetting>>

Next ==
  \/ \E h, d \in Handle :
       \/ NewObserver(h, d) \/ Clone(h, d) \/ MoveOwner(h, d) \/ MoveObserver(h, d)
  \/ \E h \in Handle :
       \/ QueryOwner(h) \/ QueryObserver(h) \/ CastDead(h) \/ ReleaseObserver(h)
       \/ BeginReset(h) \/ EndNullOwner(h) \/ FinishReset(h)

Spec == Init /\ [][Next]_vars

-----------------------------------------------------------------------------
(* Properties *)

Holding(k) == {h \in Handle : kind[h] = k}

\* The types of the variables.
TypeOK ==
  /\ kind \in [Handle -> {"null", "owner", "observer"}]
  /\ cnt \in Nat
  /\ is_null \in BOOLEAN
  /\ object \in {"live", "destroying", "deleted"}
  /\ freed \in BOOLEAN
  /\ resetting \subseteq Handle
  /\ fault \in {"none", "freed", "null", "dead_cast"}

\* The observer count is the number of observers, also for those made or reset
\* inside the destructor.
ObserversCounted == cnt = Cardinality(Holding("observer"))

\* An observer that is not null stands for a live object: nobody who asks,
\* inside the destructor or later, is told that the object is there.
NoDeadAccess == Holding("observer") # {} /\ ~is_null => object = "live"

\* When no handle is left, the object and its allocations have been freed.
NoLeak ==
  fault = "none" /\ Holding("null") = Handle /\ resetting = {} => object = "deleted" /\ freed

\* No freed allocation is used or freed again, but by an owner whose object has
\* reset the last observer in its destructor, and no pointer is missing but to
\* an owner that its destructor has moved.
OnlyDestructorFaults == fault \in {"freed", "null"} => object = "destroying"

\* TryConvert asks no object that is gone what it is.
NoDeadCast == fault # "dead_cast"
=============================================================================
