------------------------ MODULE CheckIncidentsProofs ------------------------
(***************************************************************************)
(* Proofs about the check rows of CheckIncidents, for any thresholds and   *)
(* any sets of checks, incidents and processes: types, the row lock, that  *)
(* the rows implement CheckEvaluation, and what alerts and recovery        *)
(* notifications take.                                                     *)
(***************************************************************************)
EXTENDS CheckIncidents, CheckStateProofs

-----------------------------------------------------------------------------
(* The inductive invariant, in named parts.                                *)

Busy(w) == recorder[w].pc # "idle"

\* The row lock: a transaction of record works on the current row of its check,
\* which exists, and is the only one to do so; past the first guard its result is
\* newer than that row.
LockHeld ==
    /\ \A w \in Recorder : Busy(w) =>
          /\ checks[recorder[w].check].exists
          /\ recorder[w].row = checks[recorder[w].check]
    /\ \A w, v \in Recorder :
          Busy(w) /\ Busy(v) /\ recorder[w].check = recorder[v].check => w = v
    /\ \A w \in Recorder : recorder[w].pc = "matched" => NewerThan(recorder[w])

\* Counted breaches are breaches since the last healthy result, and too few to
\* confirm.
FailuresAreBreaches ==
    \A c \in Check : checks[c].failures <= breaches[c] /\ checks[c].failures < FailureThreshold

\* A check that alerts owes a recovery notification.
AlertOwesRecovery ==
    \A c \in Check \ overwritten : owed[c] >= IF Breaching(checks[c].status) THEN 1 ELSE 0

-----------------------------------------------------------------------------
(* Types.                                                                  *)

\* A busy process of record is inside a transaction.
LEMMA BusyTransaction ==
    ASSUME TypeOK, NEW w \in Recorder, Busy(w)
    PROVE  recorder[w] \in Transaction
BY DEF TypeOK, Busy, Idle

\* What the UPDATE checks of record does to the rows, the history of breaches and
\* its own transaction.
LEMMA WriteCheckEffect ==
    ASSUME TypeOK, NEW w \in Recorder, Busy(w), WriteCheck(w)
    PROVE  LET tx == recorder[w]
               c  == tx.check
               next == NextCheckState(tx.row, tx.result)
           IN  /\ c \in Check
               /\ \A d \in Check : d # c => checks'[d] = checks[d]
               /\ checks'[c].exists = checks[c].exists
               /\ checks'[c].status = next.status
               /\ checks'[c].failures = next.failures
               /\ next \in [status: CheckStatus \ {"paused"}, failures: Nat, successes: Nat]
               /\ checks' \in [Check -> CheckRow]
               /\ breaches' \in [Check -> 0 .. FailureThreshold]
               /\ recorder' \in [Recorder -> {Idle} \cup Transaction]
<1> DEFINE tx == recorder[w]
           c  == tx.check
           next == NextCheckState(tx.row, tx.result)
<1>1. /\ c \in Check
      /\ tx.row \in CheckRow
      /\ tx.result \in ResultStatus
      /\ tx.at \in Time
      /\ checks[c] \in CheckRow
  BY BusyTransaction DEF Transaction, TypeOK
<1>2. next \in [status: CheckStatus \ {"paused"}, failures: Nat, successes: Nat]
  BY <1>1, RuleTyped
<1>3. /\ Evaluated(tx.row, tx.result, tx.at).status = next.status
      /\ Evaluated(tx.row, tx.result, tx.at).failures = next.failures
      /\ Evaluated(tx.row, tx.result, tx.at).successes = next.successes
      /\ Evaluated(tx.row, tx.result, tx.at).lastChecked = tx.at
  BY <1>1 DEF Evaluated, CheckRow
<1>4. checks' = [checks EXCEPT ![c].status = next.status, ![c].failures = next.failures,
                              ![c].successes = next.successes, ![c].lastChecked = tx.at]
  BY <1>3 DEF WriteCheck
<1>5. /\ checks' \in [Check -> CheckRow]
      /\ \A d \in Check : d # c => checks'[d] = checks[d]
      /\ checks'[c].exists = checks[c].exists
      /\ checks'[c].status = next.status
      /\ checks'[c].failures = next.failures
  BY <1>1, <1>2, <1>4 DEF TypeOK, CheckRow
<1>6. breaches' \in [Check -> 0 .. FailureThreshold]
  BY <1>1, ThresholdAssumption DEF WriteCheck, TypeOK, Saturated
<1>7. recorder' \in [Recorder -> {Idle} \cup Transaction]
  BY DEF WriteCheck, TypeOK
<1>8. QED
  BY <1>1, <1>2, <1>5, <1>6, <1>7

\* Looking for an open incident adds what was found to the transaction.
LEMMA FindIncidentEffect ==
    ASSUME TypeOK, NEW w \in Recorder, FindIncident(w)
    PROVE  LET tx == recorder[w]
               next == recorder'[w]
           IN  /\ tx \in Transaction
               /\ Busy(w)
               /\ \A v \in Recorder : v # w => recorder'[v] = recorder[v]
               /\ next.pc = "matched"
               /\ next.check = tx.check /\ next.row = tx.row
               /\ next.result = tx.result /\ next.at = tx.at
               /\ \/ /\ OpenIncidents(tx.check) = {}
                     /\ next.found = tx.found
                  \/ /\ next.found \in OpenIncidents(tx.check)
                     /\ next.quiet = incidents[next.found].suppressed
<1>1. recorder[w] \in Transaction /\ Busy(w)
  BY BusyTransaction DEF FindIncident, Busy
<1>2. recorder \in [Recorder -> {Idle} \cup Transaction]
  BY DEF TypeOK
<1>3. CASE /\ OpenIncidents(recorder[w].check) = {}
           /\ recorder' = [recorder EXCEPT ![w].pc = "matched"]
  BY <1>1, <1>2, <1>3 DEF Transaction
<1>4. ASSUME NEW i \in OpenIncidents(recorder[w].check),
             recorder' = [recorder EXCEPT ![w].pc = "matched", ![w].found = i,
                                          ![w].quiet = incidents[i].suppressed]
      PROVE  /\ \A v \in Recorder : v # w => recorder'[v] = recorder[v]
             /\ recorder'[w].pc = "matched"
             /\ recorder'[w].check = recorder[w].check /\ recorder'[w].row = recorder[w].row
             /\ recorder'[w].result = recorder[w].result /\ recorder'[w].at = recorder[w].at
             /\ recorder'[w].found = i
             /\ recorder'[w].quiet = incidents[i].suppressed
  BY <1>1, <1>2, <1>4 DEF Transaction
<1>5. QED
  BY <1>1, <1>3, <1>4 DEF FindIncident

LEMMA TypeInit == Init => TypeOK
<1>1. 0 \in {0} \cup Time /\ 0 \in 0 .. FailureThreshold /\ 0 \in Int
  BY ThresholdAssumption
<1>2. \A enabled \in BOOLEAN : NewCheck(enabled) \in CheckRow
  BY <1>1 DEF NewCheck, CheckRow, CheckStatus
<1>3. NoIncident \in IncidentRow
  BY <1>1 DEF NoIncident, IncidentRow
<1>4. QED
  BY <1>1, <1>2, <1>3 DEF Init, TypeOK

LEMMA TypeStep == TypeOK /\ [Next]_vars => TypeOK'
<1> SUFFICES ASSUME TypeOK, [Next]_vars PROVE TypeOK'
  OBVIOUS
<1> USE DEF history, processes
<1>0. /\ checks \in [Check -> CheckRow]
      /\ incidents \in [Incident -> IncidentRow]
      /\ announced \in [Incident -> [opened: 0 .. 2, resolved: BOOLEAN]]
      /\ owed \in [Check -> Int]
  BY DEF TypeOK
<1>1. ASSUME NEW w \in Recorder, NEW c \in Check, NEW result \in ResultStatus, NEW at \in Time,
             Lock(w, c, result, at)
      PROVE  TypeOK'
  BY <1>1 DEF Lock, TypeOK, Transaction
<1>2. ASSUME NEW w \in Recorder, IgnoreStale(w) PROVE TypeOK'
  BY <1>2 DEF IgnoreStale, TypeOK
<1>3. ASSUME NEW w \in Recorder, FindIncident(w) PROVE TypeOK'
  <2>1. recorder[w] \in Transaction
    BY <1>3, BusyTransaction DEF FindIncident, Busy
  <2>2. recorder' \in [Recorder -> {Idle} \cup Transaction]
    <3>1. CASE recorder' = [recorder EXCEPT ![w].pc = "matched"]
      BY <2>1, <3>1 DEF TypeOK, Transaction
    <3>2. ASSUME NEW i \in OpenIncidents(recorder[w].check),
                 recorder' = [recorder EXCEPT ![w].pc = "matched", ![w].found = i,
                                              ![w].quiet = incidents[i].suppressed]
          PROVE  recorder' \in [Recorder -> {Idle} \cup Transaction]
      BY <2>1, <3>2 DEF TypeOK, Transaction, OpenIncidents, IncidentRow
    <3>3. QED
      BY <1>3, <3>1, <3>2 DEF FindIncident
  <2>3. QED
    BY <1>3, <2>2 DEF FindIncident, TypeOK
<1>4. ASSUME NEW w \in Recorder, CommitState(w) PROVE TypeOK'
  <2>1. Busy(w) /\ WriteCheck(w)
    BY <1>4 DEF CommitState, Busy
  <2>2. recorder[w].check \in Check
    BY <2>1, BusyTransaction DEF Transaction
  <2>3. owed' \in [Check -> Int]
    BY <1>0, <1>4, <2>2 DEF CommitState
  <2>4. QED
    BY <1>4, <2>1, <2>3, WriteCheckEffect DEF CommitState, TypeOK
<1>5. ASSUME NEW w \in Recorder, CommitDown(w) PROVE TypeOK'
  <2>1. Busy(w) /\ WriteCheck(w)
    BY <1>5 DEF CommitDown, Busy
  <2>2. recorder[w].check \in Check /\ recorder[w].at \in Time
    BY <2>1, BusyTransaction DEF Transaction
  <2>3. owed' \in [Check -> Int]
    BY <1>0, <1>5, <2>2 DEF CommitDown
  <2>4. incidents' \in [Incident -> IncidentRow]
    <3>1. CASE UNCHANGED incidents
      BY <1>0, <3>1
    <3>2. ASSUME NEW i \in Incident, NEW suppressed \in BOOLEAN,
                 incidents' = [incidents EXCEPT ![i] =
                     [status |-> "open", check |-> recorder[w].check, suppressed |-> suppressed,
                      started |-> recorder[w].at, closedByCheck |-> FALSE]]
          PROVE  incidents' \in [Incident -> IncidentRow]
      BY <1>0, <2>2, <3>2 DEF IncidentRow
    <3>3. QED
      BY <1>5, <3>1, <3>2 DEF CommitDown
  <2>5. announced' \in [Incident -> [opened: 0 .. 2, resolved: BOOLEAN]]
    BY <1>0, <1>5 DEF CommitDown, Announce, Saturated
  <2>6. QED
    BY <1>5, <2>1, <2>3, <2>4, <2>5, WriteCheckEffect DEF CommitDown, TypeOK
<1>6. ASSUME NEW w \in Recorder, CommitRecovery(w) PROVE TypeOK'
  <2>1. Busy(w) /\ WriteCheck(w)
    BY <1>6 DEF CommitRecovery, Busy
  <2>2. recorder[w].check \in Check /\ recorder[w].found \in Incident \cup {None}
    BY <2>1, BusyTransaction DEF Transaction
  <2>3. owed' \in [Check -> Int]
    <3>1. owed' = owed \/ owed' = [owed EXCEPT ![recorder[w].check] = @ - 1]
      BY <1>0, <1>6, <2>2 DEF CommitRecovery
    <3>2. QED
      BY <1>0, <2>2, <3>1
  <2>4. incidents' \in [Incident -> IncidentRow]
    <3>1. \/ UNCHANGED incidents
          \/ /\ recorder[w].found # None
             /\ incidents' = [incidents EXCEPT ![recorder[w].found].status = "resolved",
                                               ![recorder[w].found].closedByCheck = TRUE]
      BY <1>6 DEF CommitRecovery
    <3>2. QED
      BY <1>0, <2>2, <3>1 DEF IncidentRow
  <2>5. announced' \in [Incident -> [opened: 0 .. 2, resolved: BOOLEAN]]
    <3>1. \/ UNCHANGED announced
          \/ /\ recorder[w].found # None
             /\ announced' = [announced EXCEPT ![recorder[w].found]["resolved"] = TRUE]
      BY <1>6 DEF CommitRecovery, Announce
    <3>2. QED
      BY <1>0, <2>2, <3>1
  <2>6. QED
    BY <1>6, <2>1, <2>3, <2>4, <2>5, WriteCheckEffect DEF CommitRecovery, TypeOK
<1>7. ASSUME NEW e \in Editor, NEW c \in Check, ReadForEdit(e, c) PROVE TypeOK'
  BY <1>7 DEF ReadForEdit, TypeOK, Edit, CheckRow
<1>8. ASSUME NEW e \in Editor, NEW enabled \in BOOLEAN, WriteEdit(e, enabled) PROVE TypeOK'
  <2>1. editor[e] \in Edit
    BY <1>8 DEF WriteEdit, TypeOK, Idle
  <2>2. EditedStatus(enabled, editor[e].status) \in CheckStatus
    BY <2>1 DEF Edit, EditedStatus, CheckStatus
  <2> DEFINE d == editor[e].check
             row == [checks[d] EXCEPT !.enabled = enabled, !.scheduled = enabled,
                                      !.status = EditedStatus(enabled, editor[e].status)]
  <2>3. d \in Check
    BY <2>1 DEF Edit
  <2>4. checks[d] \in CheckRow
    BY <1>0, <2>3
  <2>5. row \in CheckRow
    BY <2>2, <2>4 DEF CheckRow
  <2>6. checks' = [checks EXCEPT ![d] = row] \/ checks' = checks
    BY <1>0, <1>8, <2>3 DEF WriteEdit
  <2>7. checks' \in [Check -> CheckRow]
    BY <1>0, <2>5, <2>6
  <2>8. QED
    BY <1>8, <2>1, <2>7 DEF WriteEdit, TypeOK, Edit
<1>9. ASSUME NEW c \in Check, RemoveCheck(c) PROVE TypeOK'
  <2>1. checks' \in [Check -> CheckRow]
    <3>1. [checks[c] EXCEPT !.exists = FALSE] \in CheckRow
      BY <1>0 DEF CheckRow
    <3>2. checks' = [checks EXCEPT ![c] = [checks[c] EXCEPT !.exists = FALSE]]
      BY <1>0, <1>9 DEF RemoveCheck
    <3>3. QED
      BY <1>0, <3>1, <3>2
  <2>2. incidents' \in [Incident -> IncidentRow]
    <3>1. \A i \in Incident : [incidents[i] EXCEPT !.check = None] \in IncidentRow
      BY <1>0 DEF IncidentRow
    <3>2. QED
      BY <1>0, <1>9, <3>1 DEF RemoveCheck
  <2>3. QED
    BY <1>9, <2>1, <2>2 DEF RemoveCheck, TypeOK
<1>10. ASSUME NEW c \in Check, Reconcile(c) \/ ResumeCheck(c) PROVE TypeOK'
  <2>1. checks' \in [Check -> CheckRow]
    <3>1. /\ \A served \in BOOLEAN : Restarted(checks[c], served) \in CheckRow
          /\ Resumed(checks[c]) \in CheckRow
      BY <1>0 DEF Restarted, Resumed, CheckRow, CheckStatus
    <3>2. QED
      BY <1>0, <1>10, <3>1 DEF Reconcile, ResumeCheck
  <2>2. QED
    BY <1>10, <2>1 DEF Reconcile, ResumeCheck, TypeOK
<1>11. ASSUME NEW o \in Operator, NEW i \in Incident, ReadIncident(o, i) PROVE TypeOK'
  BY <1>11 DEF ReadIncident, TypeOK
<1>12. ASSUME NEW o \in Operator, NEW status \in {"open", "resolved"}, PostUpdate(o, status)
       PROVE  TypeOK'
  <2>1. operator[o] \in Incident
    BY <1>12 DEF PostUpdate, TypeOK
  <2>2. incidents' \in [Incident -> IncidentRow]
    BY <1>0, <1>12, <2>1 DEF PostUpdate, IncidentRow
  <2>3. QED
    BY <1>12, <2>1, <2>2 DEF PostUpdate, TypeOK
<1>13. ASSUME NEW r \in Releaser, ListSuppressed(r) PROVE TypeOK'
  <2>1. Suppressed \subseteq Incident
    BY DEF Suppressed
  <2>2. QED
    BY <1>13, <2>1 DEF ListSuppressed, TypeOK
<1>14. ASSUME NEW r \in Releaser, NEW i \in Incident, ReleaseSuppression(r, i) PROVE TypeOK'
  <2>1. incidents' \in [Incident -> IncidentRow]
    <3>1. CASE i \in Suppressed \ covered
      <4>1. incidents' = [incidents EXCEPT ![i].suppressed = FALSE]
        BY <1>14, <3>1 DEF ReleaseSuppression, Release
      <4>2. QED
        BY <1>0, <4>1 DEF IncidentRow
    <3>2. CASE i \notin Suppressed \ covered
      BY <1>0, <1>14, <3>2 DEF ReleaseSuppression, Release
    <3>3. QED
      BY <3>1, <3>2
  <2>2. announced' \in [Incident -> [opened: 0 .. 2, resolved: BOOLEAN]]
    BY <1>0, <1>14 DEF ReleaseSuppression, Release, Announce, Saturated
  <2>3. QED
    BY <1>14, <2>1, <2>2 DEF ReleaseSuppression, TypeOK
<1>15. ASSUME NEW i \in Incident, ToggleMaintenance(i) PROVE TypeOK'
  BY <1>15 DEF ToggleMaintenance, TypeOK
<1>16. CASE UNCHANGED vars
  BY <1>16 DEF vars, TypeOK
<1>17. QED
  BY <1>1, <1>2, <1>3, <1>4, <1>5, <1>6, <1>7, <1>8, <1>9, <1>10, <1>11, <1>12, <1>13, <1>14,
     <1>15, <1>16 DEF Next, Record

\* Every reachable state has the types of the tables and of the processes'
\* transactions: no interleaving writes a value a row cannot hold.
THEOREM TypeCorrect == Spec => []TypeOK
BY TypeInit, TypeStep, PTL DEF Spec

-----------------------------------------------------------------------------
(* The row lock.                                                           *)

\* A write to the row of a check nobody has locked leaves every locked row alone.
LEMMA UnlockedWrite ==
    ASSUME TypeOK, LockHeld, NEW c, ~Locked(c),
           \A d \in Check : d # c => checks'[d] = checks[d],
           UNCHANGED recorder
    PROVE  LockHeld'
<1>1. ASSUME NEW w \in Recorder, Busy(w) PROVE checks'[recorder[w].check] = checks[recorder[w].check]
  <2>1. recorder[w].check \in Check
    BY <1>1, BusyTransaction DEF Transaction
  <2>2. recorder[w].check # c
    BY <1>1 DEF Locked, Busy
  <2>3. QED
    BY <2>1, <2>2
<1>2. QED
  BY <1>1 DEF LockHeld, Busy, NewerThan

\* The commit of a transaction releases its lock and no other one.
LEMMA CommitReleases ==
    ASSUME TypeOK, LockHeld, NEW w \in Recorder, Busy(w), WriteCheck(w)
    PROVE  LockHeld'
<1>1. \A d \in Check : d # recorder[w].check => checks'[d] = checks[d]
  BY WriteCheckEffect
<1>2. recorder' = [recorder EXCEPT ![w] = Idle] /\ recorder \in [Recorder -> {Idle} \cup Transaction]
  BY DEF WriteCheck, TypeOK
<1>3. ~Busy(w)'
  BY <1>2 DEF Busy, Idle
<1>4. ASSUME NEW v \in Recorder, Busy(v)'
      PROVE  /\ v # w /\ Busy(v) /\ recorder'[v] = recorder[v]
             /\ checks'[recorder[v].check] = checks[recorder[v].check]
  <2>1. v # w
    BY <1>3, <1>4
  <2>2. recorder'[v] = recorder[v]
    BY <1>2, <2>1
  <2>3. Busy(v)
    BY <1>4, <2>2 DEF Busy
  <2>4. recorder[v].check \in Check
    BY <2>3, BusyTransaction DEF Transaction
  <2>5. recorder[v].check # recorder[w].check
    BY <2>1, <2>3 DEF LockHeld
  <2>6. QED
    BY <1>1, <2>1, <2>2, <2>3, <2>4, <2>5
<1>5. QED
  BY <1>2, <1>4 DEF LockHeld, Busy, Idle, NewerThan

LEMMA LockInit == Init => LockHeld
BY DEF Init, LockHeld, Busy, Idle

LEMMA LockStep == TypeOK /\ LockHeld /\ [Next]_vars => LockHeld'
<1> SUFFICES ASSUME TypeOK, LockHeld, [Next]_vars PROVE LockHeld'
  OBVIOUS
<1> USE DEF history, processes
<1>0. recorder \in [Recorder -> {Idle} \cup Transaction] /\ checks \in [Check -> CheckRow]
  BY DEF TypeOK
<1>1. ASSUME NEW w \in Recorder, NEW c \in Check, NEW result \in ResultStatus, NEW at \in Time,
             Lock(w, c, result, at)
      PROVE  LockHeld'
  <2>1. /\ checks[c].exists
        /\ UNCHANGED checks
        /\ \A v \in Recorder : Busy(v) => recorder[v].check # c
    BY <1>1 DEF Lock, Locked, Busy
  <2>2. recorder'[w].check = c /\ recorder'[w].row = checks[c] /\ recorder'[w].pc = "locked"
    BY <1>0, <1>1 DEF Lock
  <2>3. \A v \in Recorder : v # w => recorder'[v] = recorder[v]
    BY <1>0, <1>1 DEF Lock
  <2>4. QED
    BY <2>1, <2>2, <2>3 DEF LockHeld, Busy, NewerThan
<1>2. ASSUME NEW w \in Recorder, IgnoreStale(w) PROVE LockHeld'
  <2>1. UNCHANGED checks /\ recorder'[w].pc = "idle"
    BY <1>0, <1>2 DEF IgnoreStale, Idle
  <2>2. \A v \in Recorder : v # w => recorder'[v] = recorder[v]
    BY <1>0, <1>2 DEF IgnoreStale
  <2>3. QED
    BY <2>1, <2>2 DEF LockHeld, Busy, NewerThan
<1>3. ASSUME NEW w \in Recorder, FindIncident(w) PROVE LockHeld'
  <2>1. UNCHANGED checks /\ NewerThan(recorder[w])
    BY <1>3 DEF FindIncident
  <2>2. /\ Busy(w)
        /\ \A v \in Recorder : v # w => recorder'[v] = recorder[v]
        /\ recorder'[w].check = recorder[w].check /\ recorder'[w].row = recorder[w].row
        /\ recorder'[w].at = recorder[w].at
    BY <1>3, FindIncidentEffect
  <2>3. QED
    BY <2>1, <2>2 DEF LockHeld, Busy, NewerThan
<1>4. ASSUME NEW w \in Recorder, CommitState(w) \/ CommitDown(w) \/ CommitRecovery(w)
      PROVE  LockHeld'
  BY <1>4, CommitReleases DEF CommitState, CommitDown, CommitRecovery, Busy
<1>5. ASSUME NEW e \in Editor, NEW enabled \in BOOLEAN, WriteEdit(e, enabled) PROVE LockHeld'
  <2>1. ~Locked(editor[e].check) /\ UNCHANGED recorder
    BY <1>5 DEF WriteEdit
  <2>2. \A d \in Check : d # editor[e].check => checks'[d] = checks[d]
    BY <1>0, <1>5 DEF WriteEdit
  <2>3. QED
    BY <2>1, <2>2, UnlockedWrite
<1>6. ASSUME NEW c \in Check, RemoveCheck(c) \/ Reconcile(c) \/ ResumeCheck(c) PROVE LockHeld'
  <2>1. ~Locked(c) /\ UNCHANGED recorder
    BY <1>6 DEF RemoveCheck, Reconcile, ResumeCheck
  <2>2. \A d \in Check : d # c => checks'[d] = checks[d]
    BY <1>0, <1>6 DEF RemoveCheck, Reconcile, ResumeCheck
  <2>3. QED
    BY <2>1, <2>2, UnlockedWrite
<1>7. ASSUME UNCHANGED <<checks, recorder>> PROVE LockHeld'
  BY <1>7 DEF LockHeld, Busy, NewerThan
<1>8. ASSUME NEW e \in Editor, NEW c \in Check, ReadForEdit(e, c) PROVE UNCHANGED <<checks, recorder>>
  BY <1>8 DEF ReadForEdit
<1>9. ASSUME NEW o \in Operator,
             \/ \E i \in Incident : ReadIncident(o, i)
             \/ \E status \in {"open", "resolved"} : PostUpdate(o, status)
      PROVE  UNCHANGED <<checks, recorder>>
  BY <1>9 DEF ReadIncident, PostUpdate
<1>10. ASSUME NEW r \in Releaser,
              ListSuppressed(r) \/ \E i \in Incident : ReleaseSuppression(r, i)
       PROVE  UNCHANGED <<checks, recorder>>
  BY <1>10 DEF ListSuppressed, ReleaseSuppression
<1>11. ASSUME NEW i \in Incident, ToggleMaintenance(i) PROVE UNCHANGED <<checks, recorder>>
  BY <1>11 DEF ToggleMaintenance
<1>12. CASE UNCHANGED vars
  BY <1>7, <1>12 DEF vars
<1>13. QED
  BY <1>1, <1>2, <1>3, <1>4, <1>5, <1>6, <1>7, <1>8, <1>9, <1>10, <1>11, <1>12 DEF Next, Record

\* While a transaction of record is open, no other actor writes the row of its
\* check: the state it evaluates against is the one it replaces.
THEOREM RowLocked == Spec => [](TypeOK /\ LockHeld)
<1>1. Init => TypeOK /\ LockHeld
  BY TypeInit, LockInit
<1>2. TypeOK /\ LockHeld /\ [Next]_vars => TypeOK' /\ LockHeld'
  BY TypeStep, LockStep
<1>3. QED
  BY <1>1, <1>2, PTL DEF Spec

-----------------------------------------------------------------------------
(* Refinement of CheckEvaluation.                                          *)

\* The rule the abstract specification applies is the one of CheckState.
LEMMA SameRule ==
    /\ \A row, result, at : Evaluation!Evaluated(row, result, at) = Evaluated(row, result, at)
    /\ \A row, served : Evaluation!Restarted(row, served) = Restarted(row, served)
    /\ \A row : Evaluation!Resumed(row) = Resumed(row)
    /\ \A enabled : Evaluation!NewCheck(enabled) = NewCheck(enabled)
    /\ Evaluation!ResultStatus = ResultStatus
    /\ Evaluation!CheckStatus = CheckStatus
    /\ Evaluation!Time = Time
BY DEF Evaluation!Evaluated, Evaluated, Evaluation!NextCheckState, NextCheckState,
       Evaluation!AfterSuccess, AfterSuccess, Evaluation!AfterBreach, AfterBreach,
       Evaluation!StateOf, StateOf, Evaluation!Holding, Holding, Evaluation!Restarted, Restarted,
       Evaluation!Resumed, Resumed,
       Evaluation!NewCheck, NewCheck, Evaluation!ResultStatus, ResultStatus,
       Evaluation!CheckStatus, CheckStatus, Evaluation!Time, Time

\* The commit of a transaction applies its result to the row in one step.
LEMMA CommitEvaluates ==
    ASSUME TypeOK, LockHeld, NEW w \in Recorder, Busy(w), NewerThan(recorder[w]), WriteCheck(w)
    PROVE  Evaluation!Evaluate(recorder[w].check)
<1> DEFINE tx == recorder[w]
           c  == tx.check
           next == Evaluated(tx.row, tx.result, tx.at)
<1>1. /\ c \in Check /\ tx.row \in CheckRow /\ tx.result \in ResultStatus /\ tx.at \in Time
      /\ checks \in [Check -> CheckRow]
  BY BusyTransaction DEF Transaction, TypeOK
<1>2. checks[c].exists /\ tx.row = checks[c]
  BY DEF LockHeld
<1>3. tx.at > checks[c].lastChecked
  BY <1>2 DEF NewerThan
<1>4. next = [checks[c] EXCEPT !.status = next.status, !.failures = next.failures,
                               !.successes = next.successes, !.lastChecked = next.lastChecked]
  BY <1>1, <1>2 DEF Evaluated, CheckRow
<1>5. checks' = [checks EXCEPT ![c] = next]
  BY <1>1, <1>4 DEF WriteCheck
<1>6. QED
  BY <1>1, <1>2, <1>3, <1>5, SameRule DEF Evaluation!Evaluate

LEMMA EvaluationStep == TypeOK /\ LockHeld /\ [Next]_vars => [Evaluation!Next]_checks
<1> SUFFICES ASSUME TypeOK, LockHeld, Next PROVE Evaluation!Next \/ UNCHANGED checks
  BY DEF vars
<1>0. checks \in [Check -> CheckRow]
  BY DEF TypeOK
<1>1. ASSUME NEW w \in Recorder, CommitState(w) \/ CommitDown(w) \/ CommitRecovery(w)
      PROVE  Evaluation!Next
  <2>1. Busy(w) /\ WriteCheck(w) /\ NewerThan(recorder[w])
    BY <1>1 DEF CommitState, CommitDown, CommitRecovery, Busy, LockHeld
  <2>2. recorder[w].check \in Check
    BY <2>1, BusyTransaction DEF Transaction
  <2>3. QED
    BY <2>1, <2>2, CommitEvaluates DEF Evaluation!Next
<1>2. ASSUME NEW e \in Editor, NEW enabled \in BOOLEAN, WriteEdit(e, enabled)
      PROVE  Evaluation!Next \/ UNCHANGED checks
  <2> DEFINE c == editor[e].check
             status == EditedStatus(enabled, editor[e].status)
  <2>1. editor[e] \in Edit
    BY <1>2 DEF WriteEdit, TypeOK, Idle
  <2>2. c \in Check /\ status \in CheckStatus /\ (enabled <=> status # "paused")
    BY <2>1 DEF Edit, EditedStatus, CheckStatus
  <2>3. CASE checks[c].exists
    <3>1. checks' = [checks EXCEPT ![c].enabled = enabled, ![c].scheduled = enabled,
                                   ![c].status = status]
      BY <1>2, <2>3 DEF WriteEdit
    <3>2. Evaluation!Edit(c)
      BY <2>2, <2>3, <3>1, SameRule DEF Evaluation!Edit
    <3>3. QED
      BY <2>2, <3>2 DEF Evaluation!Next
  <2>4. CASE ~checks[c].exists
    BY <1>2, <2>4 DEF WriteEdit
  <2>5. QED
    BY <2>3, <2>4
<1>3. ASSUME NEW c \in Check, RemoveCheck(c) PROVE Evaluation!Next
  BY <1>3 DEF RemoveCheck, Evaluation!Remove, Evaluation!Next
<1>4. ASSUME NEW c \in Check, Reconcile(c) \/ ResumeCheck(c) PROVE Evaluation!Next
  <2>1. CASE Reconcile(c)
    BY <2>1, SameRule DEF Reconcile, Evaluation!Restart, Evaluation!Next
  <2>2. CASE ResumeCheck(c)
    BY <2>2, SameRule DEF ResumeCheck, Evaluation!Resume, Evaluation!Next
  <2>3. QED
    BY <1>4, <2>1, <2>2
<1>5. ASSUME NEW w \in Recorder, IgnoreStale(w) \/ FindIncident(w) PROVE UNCHANGED checks
  BY <1>5 DEF IgnoreStale, FindIncident
<1>6. ASSUME NEW w \in Recorder, NEW c \in Check, NEW result \in ResultStatus, NEW at \in Time,
             Lock(w, c, result, at)
      PROVE  UNCHANGED checks
  BY <1>6 DEF Lock
<1>7. ASSUME NEW e \in Editor, NEW c \in Check, ReadForEdit(e, c) PROVE UNCHANGED checks
  BY <1>7 DEF ReadForEdit
<1>8. ASSUME NEW o \in Operator,
             \/ \E i \in Incident : ReadIncident(o, i)
             \/ \E status \in {"open", "resolved"} : PostUpdate(o, status)
      PROVE  UNCHANGED checks
  BY <1>8 DEF ReadIncident, PostUpdate
<1>9. ASSUME NEW r \in Releaser,
             ListSuppressed(r) \/ \E i \in Incident : ReleaseSuppression(r, i)
      PROVE  UNCHANGED checks
  BY <1>9 DEF ListSuppressed, ReleaseSuppression
<1>10. ASSUME NEW i \in Incident, ToggleMaintenance(i) PROVE UNCHANGED checks
  BY <1>10 DEF ToggleMaintenance
<1>11. QED
  BY <1>1, <1>2, <1>3, <1>4, <1>5, <1>6, <1>7, <1>8, <1>9, <1>10 DEF Next, Record

\* The transactions of record, the edits and the reconciliations of any number of
\* processes do to the check rows what CheckEvaluation says: results are applied
\* one at a time, each newer than the last and to the state the last one left.
THEOREM OneAtATime == Spec => EvaluatesOneAtATime
<1>1. Init => Evaluation!Init
  BY SameRule DEF Init, Evaluation!Init
<1>2. TypeOK /\ LockHeld /\ [Next]_vars => [Evaluation!Next]_checks
  BY EvaluationStep
<1>3. QED
  BY <1>1, <1>2, RowLocked, PTL DEF Spec, EvaluatesOneAtATime, Evaluation!Spec

-----------------------------------------------------------------------------
(* Evaluations, their history and the recoveries they owe.                 *)

Commit(w) == CommitState(w) \/ CommitDown(w) \/ CommitRecovery(w)

\* What a step that applies no result to check c can do to it: an edit, a restart,
\* a removal, or nothing.
NotEvaluated(c) ==
    /\ checks'[c].exists => checks[c].exists
    /\ checks'[c].failures \in {0, checks[c].failures}
    /\ checks'[c].lastChecked = checks[c].lastChecked
    /\ breaches'[c] = breaches[c]
    /\ owed'[c] = owed[c]
    /\ c \notin overwritten' =>
          /\ c \notin overwritten
          /\ Breaching(checks'[c].status) => checks'[c].status = checks[c].status

\* An edit that writes the status the row has either keeps it or ends any alert.
LEMMA EditKeepsOrPauses ==
    ASSUME NEW enabled \in BOOLEAN, NEW status, Breaching(EditedStatus(enabled, status))
    PROVE  EditedStatus(enabled, status) = status
BY DEF EditedStatus, Breaching

LEMMA RowSteps ==
    ASSUME TypeOK, [Next]_vars, NEW c \in Check
    PROVE  \/ NotEvaluated(c)
           \/ \E w \in Recorder : recorder[w].check = c /\ Commit(w)
<1> USE DEF history, processes
<1>0. checks \in [Check -> CheckRow] /\ breaches \in [Check -> Nat] /\ owed \in [Check -> Int]
  BY ThresholdAssumption DEF TypeOK
<1>1. ASSUME UNCHANGED <<checks, breaches, owed, overwritten>> PROVE NotEvaluated(c)
  BY <1>1 DEF NotEvaluated
<1>2. ASSUME NEW w \in Recorder, Commit(w), recorder[w].check # c PROVE NotEvaluated(c)
  <2>1. Busy(w) /\ WriteCheck(w) /\ UNCHANGED overwritten
    BY <1>2 DEF Commit, CommitState, CommitDown, CommitRecovery, Busy
  <2>2. checks'[c] = checks[c]
    BY <1>2, <2>1, WriteCheckEffect
  <2>3. breaches'[c] = breaches[c]
    BY <1>0, <1>2, <2>1 DEF WriteCheck
  <2>4. owed'[c] = owed[c]
    BY <1>0, <1>2 DEF Commit, CommitState, CommitDown, CommitRecovery
  <2>5. QED
    BY <2>1, <2>2, <2>3, <2>4 DEF NotEvaluated
<1>3. ASSUME NEW e \in Editor, NEW enabled \in BOOLEAN, WriteEdit(e, enabled)
      PROVE  NotEvaluated(c)
  <2> DEFINE d == editor[e].check
             status == EditedStatus(enabled, editor[e].status)
  <2>1. UNCHANGED <<breaches, owed>>
    BY <1>3 DEF WriteEdit
  <2>2. CASE checks[d].exists /\ d = c
    <3>1. /\ checks' = [checks EXCEPT ![c].enabled = enabled, ![c].scheduled = enabled,
                                      ![c].status = status]
          /\ overwritten' = IF status = EditedStatus(enabled, checks[c].status)
                            THEN overwritten ELSE overwritten \cup {c}
      BY <1>3, <2>2 DEF WriteEdit
    <3>2. /\ checks'[c].exists = checks[c].exists
          /\ checks'[c].failures = checks[c].failures
          /\ checks'[c].lastChecked = checks[c].lastChecked
          /\ checks'[c].status = status
      BY <1>0, <3>1 DEF CheckRow
    <3>3. c \notin overwritten' =>
              c \notin overwritten /\ status = EditedStatus(enabled, checks[c].status)
      BY <3>1
    <3>4. QED
      BY <2>1, <3>2, <3>3, EditKeepsOrPauses DEF NotEvaluated
  <2>3. CASE checks[d].exists /\ d # c
    BY <1>0, <1>3, <2>1, <2>3 DEF WriteEdit, NotEvaluated
  <2>4. CASE ~checks[d].exists
    BY <1>3, <2>1, <2>4 DEF WriteEdit, NotEvaluated
  <2>5. QED
    BY <2>2, <2>3, <2>4
<1>4. ASSUME NEW d \in Check, RemoveCheck(d) PROVE NotEvaluated(c)
  BY <1>0, <1>4 DEF RemoveCheck, NotEvaluated, CheckRow
<1>5. ASSUME NEW d \in Check, Reconcile(d) \/ ResumeCheck(d) PROVE NotEvaluated(c)
  <2> DEFINE Started(row) == /\ row.exists = checks[d].exists
                             /\ row.failures \in {0, checks[d].failures}
                             /\ row.lastChecked = checks[d].lastChecked
                             /\ ~Breaching(row.status)
  <2>1. /\ \/ \E served \in BOOLEAN : checks' = [checks EXCEPT ![d] = Restarted(checks[d], served)]
           \/ checks' = [checks EXCEPT ![d] = Resumed(checks[d])]
        /\ UNCHANGED <<breaches, owed, overwritten>>
    BY <1>5 DEF Reconcile, ResumeCheck
  <2>2. /\ \A served \in BOOLEAN : Started(Restarted(checks[d], served))
        /\ Started(Resumed(checks[d]))
    BY <1>0 DEF Restarted, Resumed, CheckRow, Breaching
  <2>3. \E row : Started(row) /\ checks' = [checks EXCEPT ![d] = row]
    BY <2>1, <2>2
  <2>4. QED
    BY <1>0, <2>1, <2>3 DEF NotEvaluated
<1>6. ASSUME NEW w \in Recorder, IgnoreStale(w) \/ FindIncident(w) PROVE NotEvaluated(c)
  BY <1>1, <1>6 DEF IgnoreStale, FindIncident
<1>7. ASSUME NEW w \in Recorder, NEW d \in Check, NEW result \in ResultStatus, NEW at \in Time,
             Lock(w, d, result, at)
      PROVE  NotEvaluated(c)
  BY <1>1, <1>7 DEF Lock
<1>8. ASSUME NEW e \in Editor, NEW d \in Check, ReadForEdit(e, d) PROVE NotEvaluated(c)
  BY <1>1, <1>8 DEF ReadForEdit
<1>9. ASSUME NEW o \in Operator,
             \/ \E i \in Incident : ReadIncident(o, i)
             \/ \E status \in {"open", "resolved"} : PostUpdate(o, status)
      PROVE  NotEvaluated(c)
  BY <1>1, <1>9 DEF ReadIncident, PostUpdate
<1>10. ASSUME NEW r \in Releaser,
              ListSuppressed(r) \/ \E i \in Incident : ReleaseSuppression(r, i)
       PROVE  NotEvaluated(c)
  BY <1>1, <1>10 DEF ListSuppressed, ReleaseSuppression
<1>11. ASSUME NEW i \in Incident, ToggleMaintenance(i) PROVE NotEvaluated(c)
  BY <1>1, <1>11 DEF ToggleMaintenance
<1>12. CASE UNCHANGED vars
  BY <1>1, <1>12 DEF vars
<1>13. QED
  BY <1>2, <1>3, <1>4, <1>5, <1>6, <1>7, <1>8, <1>9, <1>10, <1>11, <1>12 DEF Next, Record, Commit

\* What a commit does to the row of its check and to its history.
LEMMA CommitEffect ==
    ASSUME TypeOK, LockHeld, NEW w \in Recorder, Commit(w)
    PROVE  LET tx == recorder[w]
               c  == tx.check
               next == NextCheckState(checks[c], tx.result)
           IN  /\ c \in Check /\ checks[c] \in CheckRow /\ tx.result \in ResultStatus
               /\ tx.row = checks[c]
               /\ checks'[c].status = next.status /\ checks'[c].failures = next.failures
               /\ checks'[c].exists = checks[c].exists
               /\ breaches'[c] = IF tx.result = "up" THEN 0
                                 ELSE Saturated(breaches[c] + 1, FailureThreshold)
               /\ overwritten' = overwritten
<1>1. Busy(w) /\ WriteCheck(w) /\ overwritten' = overwritten
  BY DEF Commit, CommitState, CommitDown, CommitRecovery, Busy
<1>2. /\ recorder[w].check \in Check /\ recorder[w].result \in ResultStatus
      /\ recorder[w].row = checks[recorder[w].check]
  BY <1>1, BusyTransaction DEF Transaction, LockHeld
<1>3. checks[recorder[w].check] \in CheckRow /\ breaches \in [Check -> 0 .. FailureThreshold]
  BY <1>2 DEF TypeOK
<1>4. breaches'[recorder[w].check] =
          IF recorder[w].result = "up" THEN 0
          ELSE Saturated(breaches[recorder[w].check] + 1, FailureThreshold)
  BY <1>1, <1>2, <1>3 DEF WriteCheck
<1>5. LET c == recorder[w].check
          next == NextCheckState(recorder[w].row, recorder[w].result)
      IN  /\ checks'[c].status = next.status /\ checks'[c].failures = next.failures
          /\ checks'[c].exists = checks[c].exists
  BY <1>1, WriteCheckEffect
<1>6. QED
  BY <1>1, <1>2, <1>3, <1>4, <1>5

LEMMA FailuresStep ==
    TypeOK /\ LockHeld /\ FailuresAreBreaches /\ [Next]_vars => FailuresAreBreaches'
<1> SUFFICES ASSUME TypeOK, LockHeld, FailuresAreBreaches, [Next]_vars, NEW c \in Check
             PROVE  (checks[c].failures <= breaches[c] /\ checks[c].failures < FailureThreshold)'
  BY DEF FailuresAreBreaches
<1>1. /\ checks[c].failures \in Nat /\ breaches[c] \in Nat /\ FailureThreshold \in Nat \ {0}
      /\ checks[c].failures <= breaches[c] /\ checks[c].failures < FailureThreshold
  BY ThresholdAssumption DEF TypeOK, CheckRow, FailuresAreBreaches
<1>2. CASE NotEvaluated(c)
  BY <1>1, <1>2 DEF NotEvaluated
<1>3. ASSUME NEW w \in Recorder, recorder[w].check = c, Commit(w)
      PROVE  (checks[c].failures <= breaches[c] /\ checks[c].failures < FailureThreshold)'
  <2> DEFINE next == NextCheckState(checks[c], recorder[w].result)
  <2>1. /\ checks[c] \in CheckRow /\ recorder[w].result \in ResultStatus
        /\ checks'[c].failures = next.failures
        /\ breaches'[c] = IF recorder[w].result = "up" THEN 0
                          ELSE Saturated(breaches[c] + 1, FailureThreshold)
    BY <1>3, CommitEffect
  <2>2. /\ next.failures \in Nat
        /\ next.failures < FailureThreshold
        /\ next.failures <= checks[c].failures + 1
        /\ recorder[w].result = "up" => next.failures = 0
    BY <2>1, RuleTyped, RuleCountsBreaches
  <2>3. QED
    BY <1>1, <2>1, <2>2 DEF Saturated
<1>4. QED
  BY <1>2, <1>3, RowSteps

LEMMA OwedStep ==
    TypeOK /\ LockHeld /\ AlertOwesRecovery /\ [Next]_vars => AlertOwesRecovery'
<1> SUFFICES ASSUME TypeOK, LockHeld, AlertOwesRecovery, [Next]_vars,
                    NEW c \in Check, c \notin overwritten'
             PROVE  owed'[c] >= IF Breaching(checks'[c].status) THEN 1 ELSE 0
  BY DEF AlertOwesRecovery
<1>1. owed[c] \in Int /\ owed \in [Check -> Int]
  BY DEF TypeOK
<1>2. CASE NotEvaluated(c)
  BY <1>1, <1>2 DEF NotEvaluated, AlertOwesRecovery
<1>3. ASSUME NEW w \in Recorder, recorder[w].check = c, Commit(w)
      PROVE  owed'[c] >= IF Breaching(checks'[c].status) THEN 1 ELSE 0
  <2> DEFINE tx == recorder[w]
  <2>1. tx.row = checks[c] /\ checks'[c].status = NextStatus(tx) /\ overwritten' = overwritten
    BY <1>3, CommitEffect DEF NextStatus
  <2>2. owed[c] >= IF Breaching(tx.row.status) THEN 1 ELSE 0
    BY <2>1 DEF AlertOwesRecovery
  <2>3. CASE CommitState(w) \/ CommitDown(w)
    <3>1. owed'[c] = IF Confirmed(tx) THEN owed[c] + 1 ELSE owed[c]
      BY <1>1, <1>3, <2>3 DEF CommitState, CommitDown
    <3>2. QED
      BY <1>1, <2>1, <2>2, <3>1 DEF Confirmed
  <2>4. CASE CommitRecovery(w)
    <3>1. owed'[c] \in {owed[c], owed[c] - 1}
      BY <1>1, <1>3, <2>4 DEF CommitRecovery
    <3>2. Breaching(tx.row.status) /\ ~Breaching(NextStatus(tx))
      BY <2>4 DEF CommitRecovery, Recovers, Breaching
    <3>3. QED
      BY <1>1, <2>1, <2>2, <3>1, <3>2
  <2>5. QED
    BY <1>3, <2>3, <2>4 DEF Commit
<1>4. QED
  BY <1>2, <1>3, RowSteps

LEMMA HistoryInit == Init => FailuresAreBreaches /\ AlertOwesRecovery
BY ThresholdAssumption DEF Init, NewCheck, FailuresAreBreaches, AlertOwesRecovery, Breaching

\* The counters of a check count breaches recorded in a row, and an alert that is on has not
\* been announced as over: what the theorems on alerts rest on (evaluateAndRecord).
THEOREM HistoryInvariant == Spec => [](FailuresAreBreaches /\ AlertOwesRecovery)
<1>1. Init => FailuresAreBreaches /\ AlertOwesRecovery
  BY HistoryInit
<1>2. TypeOK /\ LockHeld /\ FailuresAreBreaches /\ AlertOwesRecovery /\ [Next]_vars
          => FailuresAreBreaches' /\ AlertOwesRecovery'
  BY FailuresStep, OwedStep
<1>3. QED
  BY <1>1, <1>2, RowLocked, PTL DEF Spec

LEMMA AlertStep ==
    ASSUME TypeOK, LockHeld, FailuresAreBreaches, [Next]_vars, NEW c \in Check,
           ~Breaching(checks[c].status), Breaching(checks'[c].status),
           checks'[c].lastChecked # checks[c].lastChecked
    PROVE  breaches'[c] = FailureThreshold
<1>1. PICK w \in Recorder : recorder[w].check = c /\ Commit(w)
  BY RowSteps DEF NotEvaluated
<1>2. /\ checks[c] \in CheckRow /\ recorder[w].result \in ResultStatus
      /\ checks'[c].status = NextCheckState(checks[c], recorder[w].result).status
      /\ breaches'[c] = IF recorder[w].result = "up" THEN 0
                        ELSE Saturated(breaches[c] + 1, FailureThreshold)
  BY <1>1, CommitEffect
<1>3. recorder[w].result # "up" /\ checks[c].failures + 1 >= FailureThreshold
  BY <1>2, RuleConfirmsAlert
<1>4. /\ checks[c].failures \in Nat /\ breaches[c] \in 0 .. FailureThreshold
      /\ checks[c].failures <= breaches[c]
  BY <1>2 DEF TypeOK, CheckRow, FailuresAreBreaches
<1>5. QED
  BY <1>2, <1>3, <1>4, ThresholdAssumption DEF Saturated

\* No interleaving of late results, edits, restarts and removals makes a check
\* alert on fewer consecutive breaches than its threshold, whatever the threshold.
THEOREM AlertsAreConfirmed == Spec => AlertNeedsConsecutiveBreaches
<1> DEFINE A == \A c \in Check :
                   /\ ~Breaching(checks[c].status)
                   /\ Breaching(checks'[c].status)
                   /\ checks'[c].lastChecked # checks[c].lastChecked
                   => breaches'[c] = FailureThreshold
<1>1. TypeOK /\ LockHeld /\ FailuresAreBreaches /\ [Next]_vars => A
  BY AlertStep
<1>2. TypeOK /\ LockHeld /\ FailuresAreBreaches /\ [Next]_vars => [A]_vars
  BY <1>1
<1>3. QED
  BY <1>2, RowLocked, HistoryInvariant, PTL DEF Spec, AlertNeedsConsecutiveBreaches

\* Recovery notifications never outnumber confirmed breaches.
THEOREM RecoveriesArePrompted == Spec => []NoUnpromptedRecovery
<1>1. TypeOK /\ AlertOwesRecovery => NoUnpromptedRecovery
  BY DEF TypeOK, AlertOwesRecovery, NoUnpromptedRecovery
<1>2. QED
  BY <1>1, RowLocked, HistoryInvariant, PTL
=============================================================================
