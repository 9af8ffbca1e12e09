-------------------------- MODULE CheckStateProofs --------------------------
(***************************************************************************)
(* What the evaluation rule of CheckState guarantees, whatever the         *)
(* thresholds.                                                             *)
(***************************************************************************)
EXTENDS CheckState, TLAPS

\* nextCheckState returns a status of an enabled check (Exclude<CheckStatus,
\* "paused">) and counters that are numbers.
LEMMA RuleTyped ==
    ASSUME NEW row \in CheckRow, NEW result \in ResultStatus
    PROVE  NextCheckState(row, result) \in
               [status: CheckStatus \ {"paused"}, failures: Nat, successes: Nat]
<1>1. row.status \in CheckStatus /\ row.failures \in Nat /\ row.successes \in Nat
  BY DEF CheckRow
<1>2. CASE result = "up"
  BY <1>1, <1>2 DEF NextCheckState, AfterSuccess, StateOf, Holding, CheckStatus
<1>3. CASE result # "up"
  <2>1. result \in {"degraded", "down"}
    BY <1>3 DEF ResultStatus
  <2>2. QED
    BY <1>1, <1>3, <2>1 DEF NextCheckState, AfterBreach, StateOf, Holding, CheckStatus
<1>4. QED
  BY <1>2, <1>3

\* The rule never leaves a count of breaches that should have confirmed, counts at
\* most one breach for one result, and none for a healthy one.
LEMMA RuleCountsBreaches ==
    ASSUME NEW row \in CheckRow, NEW result \in ResultStatus
    PROVE  LET next == NextCheckState(row, result)
           IN  /\ next.failures < FailureThreshold
               /\ next.failures <= row.failures + 1
               /\ result = "up" => next.failures = 0
<1>1. row.failures \in Nat /\ FailureThreshold \in Nat \ {0}
  BY ThresholdAssumption DEF CheckRow
<1>2. CASE result = "up"
  BY <1>1, <1>2 DEF NextCheckState, AfterSuccess, StateOf
<1>3. CASE result # "up"
  BY <1>1, <1>3 DEF NextCheckState, AfterBreach, StateOf
<1>4. QED
  BY <1>2, <1>3

\* A check starts to alert only on a breach that completes FailureThreshold.
LEMMA RuleConfirmsAlert ==
    ASSUME NEW row \in CheckRow, NEW result \in ResultStatus,
           ~Breaching(row.status),
           Breaching(NextCheckState(row, result).status)
    PROVE  result # "up" /\ row.failures + 1 >= FailureThreshold
<1>1. row.status \in CheckStatus
  BY DEF CheckRow
<1>2. result # "up"
  BY <1>1 DEF NextCheckState, AfterSuccess, StateOf, Holding, CheckStatus, Breaching
<1>3. QED
  BY <1>1, <1>2 DEF NextCheckState, AfterBreach, StateOf, Holding, CheckStatus, Breaching

\* Applying a result keeps a row a row.
LEMMA EvaluatedTyped ==
    ASSUME NEW row \in CheckRow, NEW result \in ResultStatus, NEW at \in Time
    PROVE  Evaluated(row, result, at) \in CheckRow
<1>1. NextCheckState(row, result) \in
          [status: CheckStatus \ {"paused"}, failures: Nat, successes: Nat]
  BY RuleTyped
<1>2. QED
  BY <1>1 DEF Evaluated, CheckRow
=============================================================================
