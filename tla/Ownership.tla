----------------------------- MODULE Ownership ------------------------------
(***************************************************************************)
(* What Shared and Weak promise about the object they manage: it lives     *)
(* exactly as long as it has an owner, and once it has none it never gets  *)
(* one again.                                                              *)
(***************************************************************************)
CONSTANT Handle

VARIABLES owners,  \* the handles that keep the object alive
          alive    \* whether its destructor has not begun

OwnInit == alive = TRUE /\ \E h \in Handle : owners = {h}

\* A live object gets another owner, or one of its owners hands it over.
Share(h) ==
  /\ alive
  /\ owners # {} /\ owners' = owners \cup {h}
  /\ UNCHANGED alive

HandOver(h, d) ==
  /\ alive
  /\ h \in owners /\ d \notin owners /\ owners' = (owners \ {h}) \cup {d}
  /\ UNCHANGED alive

\* An owner leaves; the object goes with the last one.
Leave(h) ==
  /\ h \in owners /\ owners' = owners \ {h}
  /\ alive' = (owners' # {})

OwnNext ==
  \/ \E h \in Handle : Share(h) \/ Leave(h)
  \/ \E h, d \in Handle : HandOver(h, d)

OwnSpec == OwnInit /\ [][OwnNext]_<<owners, alive>>
=============================================================================
