----------------------- MODULE MCNotificationDelivery -----------------------
(***************************************************************************)
(* Small instances of NotificationDelivery for TLC.                        *)
(***************************************************************************)
EXTENDS NotificationDelivery, TLC

\* Callers of one kind run the same code; devices, and deliveries of one kind, differ
\* by a random identifier only.
Symmetry == Permutations(Dispatcher) \cup Permutations(Device)
            \cup Permutations(Push) \cup Permutations(Delivery \ Push)
=============================================================================
