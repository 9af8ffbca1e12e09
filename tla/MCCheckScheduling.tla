-------------------------- MODULE MCCheckScheduling --------------------------
(* CheckScheduling for TLC. *)
EXTENDS CheckScheduling

\* Tasks, and the handlers of requests, differ in nothing but their names.
Symmetry == Permutations(Task) \cup Permutations(Call)

\* Checks differ in nothing but their names either: of the sets of checks that the agent
\* executes, with at least one check left to the API, one of each size will do.
Assigned == {c \in Check : checks[c].agent # NoAgent}

SharedInit ==
    /\ Init
    /\ \A a \in Agent : agents[a].status = "active"
    /\ \E n \in 0 .. Cardinality(Check) - 1 : Assigned = ToSet(SubSeq(SetToSeq(Check), 1, n))

\* Checks that wait for the places of the running set, some of them behind checks of an agent.
SharedSpec == SharedInit /\ [][Next]_vars /\ Fairness
=============================================================================
