----------------------------- MODULE SharedPtr ------------------------------
(***************************************************************************)
(* mirage::base::Shared and Weak over one object (auto_ptr/shared.hpp,     *)
(* weak.hpp, ref_count.cpp): two counters allocated with the object, the   *)
(* number of Shared handles and the number of Weak handles.  The last      *)
(* Shared handle to go deletes the object; whoever finds both counters at  *)
(* zero deletes the counters.                                              *)
(*                                                                         *)
(* A step of a thread is one call on a counter (RefCountAsync runs each    *)
(* under the counter's lock) or one delete.  A handle is used by one       *)
(* thread at a time; ResetPtr, which clears it at the end of Reset, is     *)
(* folded into the step that releases its count.  With one thread this is  *)
(* RefCountLocal too.                                                      *)
(*                                                                         *)
(* Using or deleting a counter that has been deleted, and a dynamic_cast   *)
(* on an object that has been, are recorded in fault; the program's        *)
(* behaviour is undefined from there, so it stops.                         *)
(***************************************************************************)
EXTENDS Integers, FiniteSets

CONSTANTS Thread,
          Handle,   \* variables of type Shared or Weak
          Member    \* those that are members of the managed object

ASSUME SharedAssumption == Member \subseteq Handle /\ IsFiniteSet(Handle)

VARIABLES kind,      \* what each handle holds: "null", "shared" or "weak"
          ref, weak, \* ref_cnt_ptr_->cnt_ and weak_ref_cnt_ptr_->cnt_
          object,    \* "live", "destroying" (in delete raw_ptr_) or "deleted"
          ref_cell, weak_cell,  \* the counters' memory: "live" or "freed"
          pc,        \* where each thread is in a Reset
          deleting,  \* threads inside delete raw_ptr_
          fault      \* "none", "use_after_free", "double_free" or "dead_cast"

counters == <<ref, weak, ref_cell, weak_cell>>
vars == <<kind, ref, weak, object, ref_cell, weak_cell, pc, deleting, fault>>

\* Shared::New into some handle.
Init ==
  /\ \E h \in Handle \ Member : kind = [g \in Handle |-> IF g = h THEN "shared" ELSE "null"]
  /\ ref = 1 /\ weak = 0
  /\ object = "live"
  /\ ref_cell = "live" /\ weak_cell = "live"
  /\ pc = [t \in Thread |-> "idle"]
  /\ deleting = {}
  /\ fault = "none"

-----------------------------------------------------------------------------
(* Helpers *)

Idle(t) == fault = "none" /\ pc[t] = "idle"
At(t, where) == fault = "none" /\ pc[t] = where
Goto(t, where) == pc' = [pc EXCEPT ![t] = where]

\* A call on a counter: its effect if the counter is there.
Using(cell, effect) ==
  \/ /\ cell = "live" /\ effect /\ UNCHANGED fault
  \/ /\ cell = "freed" /\ fault' = "use_after_free"
     /\ UNCHANGED <<kind, ref, weak, object, ref_cell, weak_cell, pc, deleting>>

\* Where a Reset of a Weak returns to: the object's destructor or the caller.
Return(t) == IF t \in deleting THEN "destroy" ELSE "idle"

\* A new handle that is not inside the object, or is set while it is live.
Settable(d) == kind[d] = "null" /\ (d \in Member => object = "live")

-----------------------------------------------------------------------------
(* Calls on a counter that take one step. *)

\* Faults: the count is not increased, and it is increased from zero too.
AcquireUncounted(t, h, d) ==
  /\ Idle(t) /\ kind[h] \in {"shared", "weak"} /\ h \notin Member
  /\ kind[d] = "null" /\ d \notin Member
  /\ Using(ref_cell,
       /\ kind' = IF ref = 0 THEN kind ELSE [kind EXCEPT ![d] = "shared"]
       /\ UNCHANGED <<counters, object, pc, deleting>>)

AcquireAnyway(t, h, d) ==
  /\ Idle(t) /\ kind[h] \in {"shared", "weak"} /\ h \notin Member
  /\ kind[d] = "null" /\ d \notin Member
  /\ Using(ref_cell,
       /\ ref' = ref + 1 /\ kind' = [kind EXCEPT ![d] = "shared"]
       /\ UNCHANGED <<weak, object, ref_cell, weak_cell, pc, deleting>>)

\* A new Shared handle by TryIncrease, which fails at zero.
Acquire(t, h, d) ==
  /\ Idle(t) /\ kind[h] \in {"shared", "weak"} /\ h \notin Member
  /\ kind[d] = "null" /\ d \notin Member
  /\ Using(ref_cell,
       /\ ref' = IF ref = 0 THEN 0 ELSE ref + 1
       /\ kind' = IF ref = 0 THEN kind ELSE [kind EXCEPT ![d] = "shared"]
       /\ UNCHANGED <<weak, object, ref_cell, weak_cell, pc, deleting>>)

\* Shared::Clone, and TryUpgrade of a Weak, whose object may be gone.
Clone(t, h, d) == kind[h] = "shared" /\ Acquire(t, h, d)
TryUpgrade(t, h, d) == kind[h] = "weak" /\ Acquire(t, h, d)

\* A new Weak handle by Increase.
Watch(t, h, d) ==
  /\ Idle(t) /\ kind[h] \in {"shared", "weak"} /\ h \notin Member
  /\ Settable(d)
  /\ Using(weak_cell,
       /\ weak' = weak + 1
       /\ kind' = [kind EXCEPT ![d] = "weak"]
       /\ UNCHANGED <<ref, object, ref_cell, weak_cell, pc, deleting>>)

\* Weak(const Shared&), and Weak::Clone.  The Shared argument is held throughout,
\* so the is_null() test before it cannot go stale.
WatchShared(t, h, d) == kind[h] = "shared" /\ Watch(t, h, d)
CloneWeak(t, h, d)   == kind[h] = "weak" /\ Watch(t, h, d)

\* Reads of the reference count, is_null() of a Weak among them, and of the
\* other.
Query(t, h) ==
  /\ Idle(t) /\ kind[h] # "null" /\ h \notin Member
  /\ Using(ref_cell, UNCHANGED <<kind, counters, object, pc, deleting>>)

QueryWeak(t, h) ==
  /\ Idle(t) /\ kind[h] # "null" /\ h \notin Member
  /\ Using(weak_cell, UNCHANGED <<kind, counters, object, pc, deleting>>)

\* A handle is passed on and left null; a move assignment resets its target
\* first.
Move(t, h, d) ==
  /\ Idle(t) /\ kind[h] # "null" /\ h \notin Member
  /\ Settable(d) /\ (d \in Member => kind[h] = "weak")
  /\ kind' = [kind EXCEPT ![d] = kind[h], ![h] = "null"]
  /\ UNCHANGED <<counters, object, pc, deleting, fault>>

\* Move construction, and Convert, of a Shared and of a Weak.
MoveShared(t, h, d) == kind[h] = "shared" /\ Move(t, h, d)
MoveWeak(t, h, d)   == kind[h] = "weak" /\ Move(t, h, d)

\* TryConvert of a Weak to a derived type where the object is gone: dynamic_cast
\* reads it all the same.
CastDead(t, h) ==
  /\ Idle(t) /\ kind[h] = "weak" /\ h \notin Member
  /\ object # "live"
  /\ fault' = "dead_cast"
  /\ UNCHANGED <<kind, counters, object, pc, deleting>>

-----------------------------------------------------------------------------
(* Reset *)

\* Fault: the last but one deletes too.
ReleaseSharedEarly(t, h) ==
  /\ Idle(t) /\ kind[h] = "shared" /\ h \notin Member
  /\ Using(ref_cell,
       /\ ref' = IF ref = 0 THEN 0 ELSE ref - 1
       /\ kind' = [kind EXCEPT ![h] = "null"]
       /\ IF ref' <= 1
          THEN Goto(t, "destroy") /\ object' = "destroying" /\ deleting' = deleting \cup {t}
          ELSE UNCHANGED <<pc, object, deleting>>
       /\ UNCHANGED <<weak, ref_cell, weak_cell>>)

\* Shared::Reset: TryRelease; the last one deletes the object.
ReleaseShared(t, h) ==
  /\ Idle(t) /\ kind[h] = "shared" /\ h \notin Member
  /\ Using(ref_cell,
       /\ ref' = IF ref = 0 THEN 0 ELSE ref - 1
       /\ kind' = [kind EXCEPT ![h] = "null"]
       /\ IF ref' = 0
          THEN Goto(t, "destroy") /\ object' = "destroying" /\ deleting' = deleting \cup {t}
          ELSE UNCHANGED <<pc, object, deleting>>
       /\ UNCHANGED <<weak, ref_cell, weak_cell>>)

\* Weak::Reset: TryRelease; the last one goes on to look at the other count.
ResetWeak(t, h) ==
  Using(weak_cell,
    /\ weak' = IF weak = 0 THEN 0 ELSE weak - 1
    /\ kind' = [kind EXCEPT ![h] = "null"]
    /\ Goto(t, IF weak' = 0 THEN "check_ref" ELSE Return(t))
    /\ UNCHANGED <<ref, object, ref_cell, weak_cell, deleting>>)

ReleaseWeak(t, h) ==
  /\ Idle(t) /\ kind[h] = "weak" /\ h \notin Member
  /\ ResetWeak(t, h)

\* The object's destructor resets a member.
DestroyMember(t, m) ==
  /\ At(t, "destroy") /\ kind[m] = "weak"
  /\ ResetWeak(t, m)

CheckRef(t) ==
  /\ At(t, "check_ref")
  /\ Using(ref_cell,
       /\ Goto(t, IF ref = 0 THEN "free_ref" ELSE Return(t))
       /\ UNCHANGED <<kind, counters, object, deleting>>)

\* The end of delete raw_ptr_, when the members have been destroyed.
FinishDelete(t) ==
  /\ At(t, "destroy") /\ \A m \in Member : kind[m] = "null"
  /\ object' = "deleted" /\ deleting' = deleting \ {t}
  /\ Goto(t, "check_weak")
  /\ UNCHANGED <<kind, counters, fault>>

\* Fault: the last Shared leaves the counters to a Weak, though there is none.
CheckWeakNever(t) ==
  /\ At(t, "check_weak")
  /\ Using(weak_cell,
       /\ Goto(t, "idle")
       /\ UNCHANGED <<kind, counters, object, deleting>>)

CheckWeak(t) ==
  /\ At(t, "check_weak")
  /\ Using(weak_cell,
       /\ Goto(t, IF weak = 0 THEN "free_ref" ELSE "idle")
       /\ UNCHANGED <<kind, counters, object, deleting>>)

\* delete ref_cnt_ptr_; delete weak_ref_cnt_ptr_
FreeRef(t) ==
  /\ At(t, "free_ref")
  /\ IF ref_cell = "live"
     THEN Goto(t, "free_weak") /\ ref_cell' = "freed" /\ UNCHANGED fault
     ELSE fault' = "double_free" /\ UNCHANGED <<pc, ref_cell>>
  /\ UNCHANGED <<kind, ref, weak, weak_cell, object, deleting>>

FreeWeak(t) ==
  /\ At(t, "free_weak")
  /\ IF weak_cell = "live"
     THEN Goto(t, Return(t)) /\ weak_cell' = "freed" /\ UNCHANGED fault
     ELSE fault' = "double_free" /\ UNCHANGED <<pc, weak_cell>>
  /\ UNCHANGED <<kind, ref, weak, ref_cell, object, deleting>>

\* A step of a Reset that has begun.
Continue(t) ==
  \/ \E m \in Member : DestroyMember(t, m)
  \/ FinishDelete(t) \/ CheckWeak(t) \/ CheckRef(t) \/ FreeRef(t) \/ FreeWeak(t)

Next ==
  \E t \in Thread :
    \/ \E h, d \in Handle :
         \/ Clone(t, h, d) \/ TryUpgrade(t, h, d)
         \/ WatchShared(t, h, d) \/ CloneWeak(t, h, d)
         \/ MoveShared(t, h, d) \/ MoveWeak(t, h, d)
    \/ \E h \in Handle :
         \/ Query(t, h) \/ QueryWeak(t, h) \/ CastDead(t, h)
         \/ ReleaseShared(t, h) \/ ReleaseWeak(t, h)
    \/ Continue(t)

Spec == Init /\ [][Next]_vars

\* A thread in a Reset keeps running it.
FairSpec == Spec /\ \A t \in Thread : WF_vars(Continue(t))

-----------------------------------------------------------------------------
(* Properties *)

Holding(k) == {h \in Handle : kind[h] = k}

\* The types of the variables.
TypeOK ==
  /\ kind \in [Handle -> {"null", "shared", "weak"}]
  /\ ref \in Nat /\ weak \in Nat
  /\ object \in {"live", "destroying", "deleted"}
  /\ ref_cell \in {"live", "freed"} /\ weak_cell \in {"live", "freed"}
  /\ pc \in [Thread -> {"idle", "destroy", "check_weak", "check_ref", "free_ref", "free_weak"}]
  /\ deleting \subseteq Thread
  /\ fault \in {"none", "use_after_free", "double_free", "dead_cast"}

\* The counts are the numbers of handles, in every interleaving of clones,
\* upgrades, moves and resets.
CountsExact ==
  /\ ref = Cardinality(Holding("shared"))
  /\ weak = Cardinality(Holding("weak"))

\* The object is deleted only after its last Shared handle is gone: no Shared
\* handle, cloned, moved or upgraded, ever refers to a deleted object.
ObjectOutlivesShared == Holding("shared") # {} => object = "live"

\* delete raw_ptr_ is run by one thread at most.
OneDeleter == \A t, u \in deleting : t = u

\* A dead object does not come back: TryUpgrade cannot win against the Reset
\* of the last Shared handle.
NoResurrection == [][object # "live" => Holding("shared")' = {}]_vars

\* When nobody holds a handle and every Reset has returned, the object and
\* both counters have been freed.
NoLeak ==
  (fault = "none" /\ Holding("null") = Handle /\ \A t \in Thread : pc[t] = "idle")
    => object = "deleted" /\ ref_cell = "freed" /\ weak_cell = "freed"

\* Every call on a counter finds it alive, and no counter is deleted twice.
NoFault == fault \notin {"use_after_free", "double_free"}

\* TryConvert asks no object that is gone what it is.
NoDeadCast == fault # "dead_cast"

\* Once no handle is left, the memory is given back (or the program has become
\* undefined): whichever thread ends last, it does not leave the counters to
\* another.
Reclaimed ==
  (Holding("null") = Handle) ~>
    (ref_cell = "freed" /\ weak_cell = "freed") \/ fault # "none"

Own == INSTANCE Ownership WITH owners <- Holding("shared"), alive <- object = "live"

\* Shared and Weak implement shared ownership.
ImplementsOwnership == Own!OwnSpec
=============================================================================
