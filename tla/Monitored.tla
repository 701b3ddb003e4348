----------------------------- MODULE Monitored ------------------------------
(***************************************************************************)
(* What an ObservedAsync and its AsyncObservers promise about the object:  *)
(* while a thread has a read guard nobody writes, while it has a write     *)
(* guard nobody else has a guard, and the object is not destroyed under    *)
(* either; once it is, no guard is given out again.                        *)
(***************************************************************************)
CONSTANT Thread

VARIABLES alive,           \* whether the object's destructor has not begun
          readers, writers \* the threads with a read or a write guard

monitored == <<alive, readers, writers>>

MonitorInit == alive = TRUE /\ readers = {} /\ writers = {}

StartRead(t) ==
  /\ alive /\ writers = {} /\ t \notin readers
  /\ readers' = readers \cup {t} /\ UNCHANGED <<alive, writers>>

StartWrite(t) ==
  /\ alive /\ writers = {} /\ readers = {}
  /\ writers' = {t} /\ UNCHANGED <<alive, readers>>

Done(t) ==
  /\ readers' = readers \ {t} /\ writers' = writers \ {t}
  /\ UNCHANGED alive

Destroy ==
  /\ alive /\ readers = {} /\ writers = {}
  /\ alive' = FALSE /\ UNCHANGED <<readers, writers>>

MonitorNext ==
  \/ \E t \in Thread : StartRead(t) \/ StartWrite(t) \/ Done(t)
  \/ Destroy

MonitorSpec == MonitorInit /\ [][MonitorNext]_monitored
=============================================================================
