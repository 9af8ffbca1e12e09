---------------------------- MODULE ResourceAlert ----------------------------
(***************************************************************************)
(* The row of a resource alert rule and what changes it                    *)
(* (resource-alerts/resource-alerts.service.ts): one value of its metric,  *)
(* or an edit of an administrator.  No variables: Telemetry applies these  *)
(* operators to the rule of its resource.                                  *)
(***************************************************************************)
EXTENDS Integers

CONSTANTS
    None    \* SQL NULL, and a metric a snapshot does not carry

ASSUME NoneAssumption == None \notin Int

Operators == {"equals", "greaterThan", "greaterThanOrEqual", "lessThan", "lessThanOrEqual"}

\* What a condition says: when it triggers, and when it has recovered (None: as soon as
\* it no longer triggers).
Condition == [operator: Operators, threshold: Int, recovery: Int \cup {None}, required: Nat \ {0}]

\* last is the observation time of the latest value evaluated, 0 for NULL.
Rule == [exists: BOOLEAN, enabled: BOOLEAN, active: BOOLEAN, condition: Condition,
         matches: Nat, recoveries: Nat, last: Nat]

Compare(operator, value, expected) ==
    CASE operator = "equals"             -> value = expected
      [] operator = "greaterThan"        -> value > expected
      [] operator = "greaterThanOrEqual" -> value >= expected
      [] operator = "lessThan"           -> value < expected
      [] operator = "lessThanOrEqual"    -> value <= expected

Matches(condition, value) == Compare(condition.operator, value, condition.threshold)

Recovered(condition, value) ==
    LET past == IF condition.recovery = None THEN condition.threshold ELSE condition.recovery
    IN  IF condition.operator = "equals"
        THEN IF condition.recovery = None THEN value # condition.threshold ELSE value = past
        ELSE ~Compare(condition.operator, value, past)

\* What ResourceAlertsService.validate accepts: recovering brings the metric back past
\* the threshold.
Valid(condition) ==
    /\ condition \in Condition
    /\ condition.recovery # None =>
        /\ condition.operator \in {"greaterThan", "greaterThanOrEqual"}
               => condition.recovery <= condition.threshold
        /\ condition.operator \in {"lessThan", "lessThanOrEqual"}
               => condition.recovery >= condition.threshold

\* validate lets a rule recover at the very value that triggers it: such a rule goes back
\* and forth while the value stays.  No value triggers and ends any other.
Settles(condition) ==
    ~(condition.operator = "equals" /\ condition.recovery = condition.threshold)

-----------------------------------------------------------------------------
Absent(condition) == [exists |-> FALSE, enabled |-> FALSE, active |-> FALSE,
                      condition |-> condition, matches |-> 0, recoveries |-> 0, last |-> 0]

Created(condition, enabled) ==
    [Absent(condition) EXCEPT !.exists = TRUE, !.enabled = enabled]

\* Mutant: an edit goes on counting the values the former condition matched.
EditedKeepingCounts(rule, condition, enabled) ==
    [rule EXCEPT !.condition = condition, !.enabled = enabled,
                 !.active = @ /\ enabled]

\* Mutant: a rule that is switched off stays active.
EditedStayingActive(rule, condition, enabled) ==
    [rule EXCEPT !.condition = condition, !.enabled = enabled,
                 !.matches = 0, !.recoveries = 0]

\* update: a rule that is switched off forgets that it is active.  The columns it reads
\* first, without a lock, and writes back are all configuration, of which the new values
\* are arbitrary here: its one UPDATE is one step.
Edited(rule, condition, enabled) ==
    [rule EXCEPT !.condition = condition, !.enabled = enabled,
                 !.active = @ /\ enabled, !.matches = 0, !.recoveries = 0]

\* Mutant: a value observed before the latest one evaluated counts as well.
EvaluatesAny(rule, value, at) ==
    /\ rule.exists /\ rule.enabled
    /\ value # None

\* evaluate looks at an enabled rule only, and at a value newer than the latest.
Evaluates(rule, value, at) ==
    /\ rule.exists /\ rule.enabled
    /\ at > rule.last
    /\ value # None

\* The counters of an inactive rule, and of an active one, after a value.
Counted(rule, value) ==
    IF Matches(rule.condition, value) THEN rule.matches + 1 ELSE 0

CountedBack(rule, value) ==
    IF Recovered(rule.condition, value) THEN rule.recoveries + 1 ELSE 0

\* An inactive rule triggers after required matching values in a row.
Watched(rule, value, at) ==
    LET matches == Counted(rule, value)
        now     == matches >= rule.condition.required
    IN  [rule EXCEPT !.active = now, !.matches = IF now THEN 0 ELSE matches,
                     !.recoveries = 0, !.last = at]

\* Mutant: an active rule takes one value more to recover.
RelievedLate(rule, value, at) ==
    LET recoveries == CountedBack(rule, value)
        still      == recoveries <= rule.condition.required
    IN  [rule EXCEPT !.active = still, !.matches = 0,
                     !.recoveries = IF still THEN recoveries ELSE 0, !.last = at]

\* An active rule recovers after required recovered values in a row.
Relieved(rule, value, at) ==
    LET recoveries == CountedBack(rule, value)
        still      == recoveries < rule.condition.required
    IN  [rule EXCEPT !.active = still, !.matches = 0,
                     !.recoveries = IF still THEN recoveries ELSE 0, !.last = at]

\* ResourceAlertsService.evaluate, for one rule.
Evaluated(rule, value, at) ==
    IF ~Evaluates(rule, value, at) THEN rule
    ELSE IF rule.active THEN Relieved(rule, value, at)
    ELSE Watched(rule, value, at)

=============================================================================
