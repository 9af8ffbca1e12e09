----------------------------- MODULE CheckState -----------------------------
(***************************************************************************)
(* The row of a check and the rule that evaluates a result against it      *)
(* (checks/check-state.ts): how one result moves a check between pending,  *)
(* up, degraded and down under its confirmation thresholds.  No variables: *)
(* the modules that own check rows apply these operators.                  *)
(***************************************************************************)
EXTENDS Naturals

CONSTANTS
    FailureThreshold,   \* checks.failure_threshold: breaches that confirm an alert
    RecoveryThreshold,  \* checks.recovery_threshold: healthy results that confirm recovery
    MaxTime             \* bound: results carry a checkedAt in 1 .. MaxTime

ASSUME ThresholdAssumption ==
    /\ FailureThreshold \in Nat \ {0}
    /\ RecoveryThreshold \in Nat \ {0}

ASSUME MaxTimeAssumption == MaxTime \in Nat

CheckStatus  == {"pending", "up", "degraded", "down", "paused"}
ResultStatus == {"up", "degraded", "down"}
Time         == 1 .. MaxTime

\* The statuses that alert.
Breaching(status) == status \in {"degraded", "down"}

\* The columns of a check row that decide its state; lastChecked 0 is NULL, and scheduled
\* is next_check_at IS NOT NULL.
CheckRow == [exists: BOOLEAN, enabled: BOOLEAN, scheduled: BOOLEAN, status: CheckStatus,
             failures: Nat, successes: Nat, lastChecked: {0} \cup Time]

-----------------------------------------------------------------------------
\* What the rule returns.
StateOf(status, failures, successes) ==
    [status |-> status, failures |-> failures, successes |-> successes]

\* The status a check keeps while a change is not confirmed; "paused" and "up"
\* have no status of their own to hold on to.
Holding(status, held) == IF status \in held THEN status ELSE "up"

\* A breach counts towards confirmation unless the check is already there.
AfterBreach(row, result) ==
    IF row.status = "down" \/ (row.status = "degraded" /\ result = "degraded")
    THEN StateOf(row.status, 0, 0)
    ELSE IF row.failures + 1 >= FailureThreshold
         THEN StateOf(result, 0, 0)
         ELSE StateOf(Holding(row.status, {"degraded", "pending"}), row.failures + 1, 0)

\* Mutant: a healthy result does not reset the count of breaches.
AfterSuccessKeepingFailures(row) ==
    StateOf(IF row.successes + 1 >= RecoveryThreshold
            THEN "up"
            ELSE Holding(row.status, {"down", "degraded", "pending"}),
            row.failures, row.successes + 1)

\* A healthy result counts towards recovery.
AfterSuccess(row) ==
    StateOf(IF row.successes + 1 >= RecoveryThreshold
            THEN "up"
            ELSE Holding(row.status, {"down", "degraded", "pending"}),
            0, row.successes + 1)

NextCheckState(row, result) ==
    IF result = "up" THEN AfterSuccess(row) ELSE AfterBreach(row, result)

-----------------------------------------------------------------------------
\* A row as ChecksService.create inserts it.
NewCheck(enabled) ==
    [exists |-> TRUE, enabled |-> enabled, scheduled |-> enabled,
     status |-> IF enabled THEN "pending" ELSE "paused",
     failures |-> 0, successes |-> 0, lastChecked |-> 0]

\* A row after a result was applied to it.
Evaluated(row, result, at) ==
    LET next == NextCheckState(row, result)
    IN  [row EXCEPT !.status = next.status, !.failures = next.failures,
                    !.successes = next.successes, !.lastChecked = at]

\* A row whose agent was replaced by one that serves the check, or is no longer usable.
Restarted(row, served) ==
    [row EXCEPT !.status = IF row.enabled THEN "pending" ELSE "paused",
                !.failures = 0, !.successes = 0, !.scheduled = row.enabled /\ served]

\* A row whose agent is usable again: results that came late have been counted, and stay.
Resumed(row) == [row EXCEPT !.status = "pending", !.scheduled = TRUE]
=============================================================================
