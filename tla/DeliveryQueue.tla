---------------------------- MODULE DeliveryQueue ----------------------------
(***************************************************************************)
(* What the queue of notification deliveries promises: a delivery is taken *)
(* by one worker at a time, a target hears of it only while it is taken,   *)
(* it is settled once and for all, and it counts as delivered only if a    *)
(* target heard of it.  A worker may give a delivery back, so targets may  *)
(* hear of one several times.  NotificationDelivery implements this.       *)
(***************************************************************************)
CONSTANT Delivery

VARIABLES
    phase,      \* Delivery -> where it is
    heard       \* deliveries some target has taken

vars == <<phase, heard>>

Phase == {"absent", "waiting", "taken", "delivered", "failed", "removed"}

TypeOK == phase \in [Delivery -> Phase] /\ heard \subseteq Delivery

Init == phase = [d \in Delivery |-> "absent"] /\ heard = {}

Move(d, from, to) ==
    /\ phase[d] \in from
    /\ phase' = [phase EXCEPT ![d] = to]
    /\ UNCHANGED heard

Add(d)      == Move(d, {"absent"}, "waiting")
Take(d)     == Move(d, {"waiting"}, "taken")
GiveBack(d) == Move(d, {"taken"}, "waiting")
GiveUp(d)   == Move(d, {"taken"}, "failed")
Deliver(d)  == d \in heard /\ Move(d, {"taken"}, "delivered")
Remove(d)   == Move(d, {"waiting", "taken", "delivered", "failed"}, "removed")

\* A worker whose delivery was removed under it may still be sending it.
Hear(d) ==
    /\ phase[d] \in {"taken", "removed"}
    /\ heard' = heard \cup {d}
    /\ UNCHANGED phase

Next == \E d \in Delivery :
    \/ Add(d) \/ Take(d) \/ GiveBack(d) \/ GiveUp(d)
    \/ Deliver(d) \/ Remove(d) \/ Hear(d)

Spec == Init /\ [][Next]_vars
=============================================================================
