--------------------------- MODULE MCMaintenance ---------------------------
(* Finite instances of Maintenance for TLC. *)
EXTENDS Maintenance, TLC

Symmetry == Permutations(Window) \cup Permutations(Scheduler)

\* A month of two days, one of one, then two again.
Calendar == <<2, 1, 2, 2, 2>>

Entered(start, duration, recurrence, until) ==
    [start |-> start, duration |-> duration, recurrence |-> recurrence, until |-> until]

\* A window of its own; a daily one that reaches into the next occurrence, ended by
\* recurrence_until; a weekly one; a monthly one on the last day of the first month, which
\* the second month does not have.
Entries ==
    {Entered(2, 2, "none", None), Entered(1, 4, "daily", 5), Entered(0, 2, "weekly", 6),
     Entered(4, 1, "monthly", 10)}

=============================================================================
