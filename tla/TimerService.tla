---------------------------- MODULE TimerService ----------------------------
(***************************************************************************)
(* What timer/heaptimer.h promises its user, WebServer: each descriptor    *)
(* has at most one deadline; add sets it, adjust moves it, and tick calls  *)
(* back the descriptors whose deadline has passed, earliest first, and     *)
(* returns only when none is left.                                         *)
(***************************************************************************)
EXTENDS Naturals

CONSTANTS
  Ids,      \* file descriptors
  Timeout,  \* 3 * TIMESLOT
  MaxNow    \* bound on the clock

VARIABLES
  now,       \* time(NULL)
  deadline,  \* the deadlines, for the descriptors that have one
  ticking    \* 1 inside tick()

vars == <<now, deadline, ticking>>

Init == now = 0 /\ deadline = [id \in {} |-> 0] /\ ticking = 0

\* add, and adjust of a descriptor that has a deadline.
Set(id) ==
  /\ ticking = 0
  /\ deadline' = [j \in DOMAIN deadline \cup {id} |->
                    IF j = id THEN now + Timeout ELSE deadline[j]]
  /\ UNCHANGED <<now, ticking>>

Begin == ticking = 0 /\ ticking' = 1 /\ UNCHANGED <<now, deadline>>

Fire(id) ==
  /\ ticking = 1
  /\ id \in DOMAIN deadline
  /\ deadline[id] =< now
  /\ \A j \in DOMAIN deadline : deadline[id] =< deadline[j]
  /\ deadline' = [j \in DOMAIN deadline \ {id} |-> deadline[j]]
  /\ UNCHANGED <<now, ticking>>

End ==
  /\ ticking = 1
  /\ \A j \in DOMAIN deadline : deadline[j] > now
  /\ ticking' = 0
  /\ UNCHANGED <<now, deadline>>

Clock == now' \in 0..MaxNow /\ UNCHANGED <<deadline, ticking>>

Next == Begin \/ End \/ Clock \/ \E id \in Ids : Set(id) \/ Fire(id)

Spec == Init /\ [][Next]_vars

=============================================================================
