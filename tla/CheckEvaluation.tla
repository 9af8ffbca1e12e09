-------------------------- MODULE CheckEvaluation ---------------------------
(***************************************************************************)
(* What the row of a check promises, abstractly: results are applied one   *)
(* at a time, each to the state the previous one left, and only when newer *)
(* than it.  The detailed specification (CheckIncidents) reaches this with *)
(* database transactions that lock, read, wait and write.                  *)
(***************************************************************************)
EXTENDS CheckState

CONSTANT Check      \* the checks
VARIABLE checks     \* their rows

Init == \E enabled \in [Check -> BOOLEAN] : checks = [c \in Check |-> NewCheck(enabled[c])]

\* A result newer than every one applied before it moves the row by the rule.
Evaluate(c) ==
    /\ checks[c].exists
    /\ \E result \in ResultStatus, at \in Time :
        /\ at > checks[c].lastChecked
        /\ checks' = [checks EXCEPT ![c] = Evaluated(checks[c], result, at)]

\* An edit decides enabled; a disabled check is paused, an enabled one shows some
\* other status; neither the counters nor lastChecked move.
Edit(c) ==
    /\ checks[c].exists
    /\ \E enabled \in BOOLEAN, status \in CheckStatus :
        /\ enabled <=> status # "paused"
        /\ checks' = [checks EXCEPT ![c].enabled = enabled, ![c].scheduled = enabled,
                                    ![c].status = status]

\* The agent behind the check was replaced or lost: it starts over.
Restart(c) ==
    /\ checks[c].exists
    /\ \E served \in BOOLEAN : checks' = [checks EXCEPT ![c] = Restarted(checks[c], served)]

\* The agent behind the check is usable again: it shows pending, with the counts it has.
Resume(c) ==
    /\ checks[c].exists /\ checks[c].enabled /\ ~checks[c].scheduled
    /\ checks' = [checks EXCEPT ![c] = Resumed(checks[c])]

Remove(c) ==
    /\ checks[c].exists
    /\ checks' = [checks EXCEPT ![c].exists = FALSE]

Next == \E c \in Check : Evaluate(c) \/ Edit(c) \/ Restart(c) \/ Resume(c) \/ Remove(c)

Spec == Init /\ [][Next]_checks
=============================================================================
