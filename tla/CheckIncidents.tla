--------------------------- MODULE CheckIncidents ---------------------------
(***************************************************************************)
(* Check rows and the incidents they open: ResultsService.record with the  *)
(* IncidentsService calls it makes, running concurrently with edits of the *)
(* check (ChecksService.update and remove, agent reconciliation), operator *)
(* updates of an incident and the release of maintenance suppressions.     *)
(*                                                                         *)
(* PostgreSQL runs every transaction at READ COMMITTED.  A transaction is  *)
(* split where another one can get in between: a read under no lock is an  *)
(* action of its own, and what was read travels in the process' variable   *)
(* until the write that uses it.  SELECT ... FOR UPDATE on the check row   *)
(* keeps every other writer of that row waiting until the commit, so the   *)
(* writes of a transaction appear together, in the action that commits it. *)
(***************************************************************************)
EXTENDS CheckState, Integers, FiniteSets

CONSTANTS
    Check,      \* checks
    Incident,   \* identifiers incidents can be given (bound: one outage uses one)
    Recorder,   \* concurrent calls of ResultsService.record
    Editor,     \* concurrent calls of ChecksService.update
    Operator,   \* concurrent calls of IncidentsService.addUpdate
    Releaser,   \* API processes running releaseEndedMaintenanceSuppressions
    Batch,      \* how many incidents a pass of it lists (50 in the code)
    None        \* SQL NULL

ASSUME NoneAssumption == None \notin Check \cup Incident

VARIABLES
    checks,       \* Check -> row of table checks
    incidents,    \* Incident -> row of table incidents, or not there yet
    covered,      \* incidents a maintenance window suppresses notifications of now
    recorder,     \* Recorder -> open transaction of record
    editor,       \* Editor -> row an update has read
    operator,     \* Operator -> incident an addUpdate has read
    releaser,     \* Releaser -> incidents its pass has listed
    (* History: what happened, read by the properties only. *)
    announced,    \* Incident -> how often opened / whether resolved by the check was enqueued
    breaches,     \* Check -> breached results since the last healthy one
    owed,         \* Check -> confirmed breaches minus recovery notifications
    reopened,     \* incidents set back to open after they were resolved
    overwritten   \* checks whose status an edit replaced by one it had read earlier

history   == <<announced, breaches, owed, reopened, overwritten>>
processes == <<recorder, editor, operator, releaser>>
vars      == <<checks, incidents, covered, processes, history>>

-----------------------------------------------------------------------------
(* Rows, transactions and their types. *)

\* status "absent" is an identifier no row has been inserted with.
IncidentRow == [status: {"absent", "open", "resolved"}, check: Check \cup {None},
                suppressed: BOOLEAN, started: {0} \cup Time,
                closedByCheck: BOOLEAN]      \* closing_result_id IS NOT NULL

NoIncident == [status |-> "absent", check |-> None, suppressed |-> FALSE,
               started |-> 0, closedByCheck |-> FALSE]

Idle == [pc |-> "idle"]

\* "locked": the check row is locked and read.  "matched": the open incident of
\* the check was looked up as well (found, quiet = its notifications_suppressed).
Transaction == [pc: {"locked", "matched"}, check: Check, result: ResultStatus, at: Time,
                row: CheckRow, found: Incident \cup {None}, quiet: BOOLEAN]

Edit == [pc: {"read"}, check: Check, status: CheckStatus]

TypeOK ==
    /\ checks \in [Check -> CheckRow]
    /\ incidents \in [Incident -> IncidentRow]
    /\ covered \subseteq Incident
    /\ recorder \in [Recorder -> {Idle} \cup Transaction]
    /\ editor \in [Editor -> {Idle} \cup Edit]
    /\ operator \in [Operator -> Incident \cup {None}]
    /\ releaser \in [Releaser -> SUBSET Incident]
    /\ announced \in [Incident -> [opened: 0 .. 2, resolved: BOOLEAN]]
    /\ breaches \in [Check -> 0 .. FailureThreshold]
    /\ owed \in [Check -> Int]
    /\ reopened \subseteq Incident
    /\ overwritten \subseteq Check

Init ==
    /\ \E enabled \in [Check -> BOOLEAN] : checks = [c \in Check |-> NewCheck(enabled[c])]
    /\ incidents = [i \in Incident |-> NoIncident]
    /\ covered = {}
    /\ recorder = [w \in Recorder |-> Idle]
    /\ editor = [e \in Editor |-> Idle]
    /\ operator = [o \in Operator |-> None]
    /\ releaser = [r \in Releaser |-> {}]
    /\ announced = [i \in Incident |-> [opened |-> 0, resolved |-> FALSE]]
    /\ breaches = [c \in Check |-> 0]
    /\ owed = [c \in Check |-> 0]
    /\ reopened = {}
    /\ overwritten = {}

\* Mutant: the check row is read without FOR UPDATE.
LockedNever(c) == FALSE

\* The row lock a transaction of record holds from its SELECT ... FOR UPDATE on.
Locked(c) == \E w \in Recorder : recorder[w].pc # "idle" /\ recorder[w].check = c

OpenIncidents(c) == {i \in Incident : incidents[i].status = "open" /\ incidents[i].check = c}

-----------------------------------------------------------------------------
(* ResultsService.record: one transaction, for a result of any executor.   *)

\* The transaction gets the row lock and inserts the result (history rows and
\* hourly counts are not kept here: nothing below reads them).
Lock(w, c, result, at) ==
    /\ recorder[w] = Idle
    /\ checks[c].exists
    /\ ~Locked(c)
    /\ recorder' = [recorder EXCEPT ![w] =
           [pc |-> "locked", check |-> c, result |-> result, at |-> at,
            row |-> checks[c], found |-> None, quiet |-> FALSE]]
    /\ UNCHANGED <<checks, incidents, covered, editor, operator, releaser, history>>

NewerThan(tx) == tx.at > tx.row.lastChecked

\* A result older than the last applied one is only kept as history.
IgnoreStale(w) ==
    /\ recorder[w].pc = "locked"
    /\ ~NewerThan(recorder[w])
    /\ recorder' = [recorder EXCEPT ![w] = Idle]
    /\ UNCHANGED <<checks, incidents, covered, editor, operator, releaser, history>>

NextStatus(tx) == NextCheckState(tx.row, tx.result).status

\* Mutants: only a check that was up can go down; a pending check recovers too.
GoesDownFromUp(tx)      == tx.row.status = "up" /\ NextStatus(tx) = "down"
RecoversFromPending(tx) == tx.row.status # "up" /\ NextStatus(tx) = "up"

GoesDown(tx)   == tx.row.status # "down" /\ NextStatus(tx) = "down"
Recovers(tx)   == tx.row.status \in {"down", "degraded"} /\ NextStatus(tx) = "up"

\* Both openForCheck and resolveForCheck begin by looking for an open incident of
\* the check, without locking it.  With several, started_at decides, which
\* operators may edit: any of them.
FindIncident(w) ==
    LET tx == recorder[w] IN
    /\ tx.pc = "locked"
    /\ NewerThan(tx)
    /\ GoesDown(tx) \/ Recovers(tx)
    /\ \/ /\ OpenIncidents(tx.check) = {}
          /\ recorder' = [recorder EXCEPT ![w].pc = "matched"]
       \/ \E i \in OpenIncidents(tx.check) :
             recorder' = [recorder EXCEPT ![w].pc = "matched", ![w].found = i,
                                          ![w].quiet = incidents[i].suppressed]
    /\ UNCHANGED <<checks, incidents, covered, editor, operator, releaser, history>>

Saturated(n, bound) == IF n < bound THEN n ELSE bound

\* The UPDATE checks of record, from the row read under the lock, and the end of
\* the transaction.  The columns it does not name keep their current values.
WriteCheck(w) ==
    LET tx == recorder[w]
        c  == tx.check
        applied == Evaluated(tx.row, tx.result, tx.at)
    IN  /\ checks' = [checks EXCEPT ![c].status = applied.status,
                                    ![c].failures = applied.failures,
                                    ![c].successes = applied.successes,
                                    ![c].lastChecked = applied.lastChecked]
        /\ breaches' = [breaches EXCEPT ![c] =
               IF tx.result = "up" THEN 0 ELSE Saturated(@ + 1, FailureThreshold)]
        /\ recorder' = [recorder EXCEPT ![w] = Idle]

\* One more confirmed breach: one recovery notification is owed for it.
Confirmed(tx) == ~Breaching(tx.row.status) /\ Breaching(NextStatus(tx))

Announce(i, field, value) == announced' = [announced EXCEPT ![i][field] = value]

\* No transition, or one into degraded: no incident is involved.
CommitState(w) ==
    LET tx == recorder[w] IN
    /\ tx.pc = "locked"
    /\ NewerThan(tx)
    /\ ~GoesDown(tx) /\ ~Recovers(tx)
    /\ WriteCheck(w)
    /\ owed' = [owed EXCEPT ![tx.check] = IF Confirmed(tx) THEN @ + 1 ELSE @]
    /\ UNCHANGED <<incidents, covered, editor, operator, releaser,
                   announced, reopened, overwritten>>

\* openForCheck: nothing if one is open; otherwise a new incident, announced
\* unless a maintenance window covers the time of the result (which may be long
\* past: any answer).
CommitDown(w) ==
    LET tx == recorder[w] IN
    /\ tx.pc = "matched"
    /\ GoesDown(tx)
    /\ WriteCheck(w)
    /\ owed' = [owed EXCEPT ![tx.check] = IF Confirmed(tx) THEN @ + 1 ELSE @]
    /\ \/ /\ tx.found # None
          /\ UNCHANGED <<incidents, announced>>
       \/ /\ tx.found = None
          /\ \E i \in Incident, suppressed \in BOOLEAN :
                /\ incidents[i].status = "absent"
                /\ incidents' = [incidents EXCEPT ![i] =
                       [status |-> "open", check |-> tx.check, suppressed |-> suppressed,
                        started |-> tx.at, closedByCheck |-> FALSE]]
                /\ IF suppressed THEN UNCHANGED announced
                   ELSE Announce(i, "opened", Saturated(announced[i].opened + 1, 2))
    /\ UNCHANGED <<covered, editor, operator, releaser, reopened, overwritten>>

\* Mutant: the resolution is announced without looking at notifications_suppressed.
CommitRecoveryLoud(w) ==
    LET tx == recorder[w] IN
    /\ tx.pc = "matched"
    /\ Recovers(tx)
    /\ WriteCheck(w)
    /\ \/ /\ tx.found # None
          /\ incidents' = [incidents EXCEPT ![tx.found].status = "resolved",
                                            ![tx.found].closedByCheck = TRUE]
          /\ Announce(tx.found, "resolved", TRUE)
          /\ owed' = [owed EXCEPT ![tx.check] = @ - 1]
       \/ /\ tx.found = None
          /\ UNCHANGED <<incidents, announced, owed>>
    /\ UNCHANGED <<covered, editor, operator, releaser, reopened, overwritten>>

\* resolveForCheck: the incident that was found is resolved, whatever became of
\* it meanwhile, and announced unless it was suppressed when it was read.  With
\* none, record itself announces the recovery, except during maintenance.
CommitRecovery(w) ==
    LET tx == recorder[w] IN
    /\ tx.pc = "matched"
    /\ Recovers(tx)
    /\ WriteCheck(w)
    /\ \/ /\ tx.found # None
          /\ incidents' = [incidents EXCEPT ![tx.found].status = "resolved",
                                            ![tx.found].closedByCheck = TRUE]
          /\ IF tx.quiet THEN UNCHANGED <<announced, owed>>
             ELSE /\ Announce(tx.found, "resolved", TRUE)
                  /\ owed' = [owed EXCEPT ![tx.check] = @ - 1]
       \/ /\ tx.found = None
          /\ \E suppressed \in BOOLEAN :
                owed' = [owed EXCEPT ![tx.check] = IF suppressed THEN @ ELSE @ - 1]
          /\ UNCHANGED <<incidents, announced>>
    /\ UNCHANGED <<covered, editor, operator, releaser, reopened, overwritten>>

Record(w) ==
    \/ \E c \in Check, result \in ResultStatus, at \in Time : Lock(w, c, result, at)
    \/ IgnoreStale(w) \/ FindIncident(w)
    \/ CommitState(w) \/ CommitDown(w) \/ CommitRecovery(w)

-----------------------------------------------------------------------------
(* ChecksService.update and remove, and agent reconciliation.              *)

\* update reads the row without locking it and validates the new configuration.
ReadForEdit(e, c) ==
    /\ editor[e] = Idle
    /\ checks[c].exists
    /\ editor' = [editor EXCEPT ![e] = [pc |-> "read", check |-> c, status |-> checks[c].status]]
    /\ UNCHANGED <<checks, incidents, covered, recorder, operator, releaser, history>>

\* Mutant: a disabled check gets a status the table does not have.
EditedStatusDisabled(enabled, status) ==
    IF ~enabled THEN "disabled" ELSE IF status = "paused" THEN "pending" ELSE status

\* The status an update writes, from the one it read.
EditedStatus(enabled, status) ==
    IF ~enabled THEN "paused" ELSE IF status = "paused" THEN "pending" ELSE status

\* The UPDATE waits for the row lock; on a check removed meanwhile it finds no row.
WriteEdit(e, enabled) ==
    LET c == editor[e].check
        status == EditedStatus(enabled, editor[e].status)
    IN  /\ editor[e].pc = "read"
        /\ ~Locked(c)
        /\ editor' = [editor EXCEPT ![e] = Idle]
        /\ IF checks[c].exists
           THEN /\ checks' = [checks EXCEPT ![c].enabled = enabled, ![c].scheduled = enabled,
                                       ![c].status = status]
                /\ overwritten' = IF status = EditedStatus(enabled, checks[c].status)
                                  THEN overwritten ELSE overwritten \cup {c}
           ELSE UNCHANGED <<checks, overwritten>>
        /\ UNCHANGED <<incidents, covered, recorder, operator, releaser,
                       announced, breaches, owed, reopened>>

\* DELETE of the check, its incidents keep existing without it (ON DELETE SET NULL).
RemoveCheck(c) ==
    /\ checks[c].exists
    /\ ~Locked(c)
    /\ checks' = [checks EXCEPT ![c].exists = FALSE]
    /\ incidents' = [i \in Incident |-> IF incidents[i].check = c
                                        THEN [incidents[i] EXCEPT !.check = None]
                                        ELSE incidents[i]]
    /\ UNCHANGED <<covered, processes, history>>

\* reconcileAgentRelationships starts a check over whose agent was replaced, revoked or
\* lost the capability ...
Reconcile(c) ==
    /\ checks[c].exists
    /\ ~Locked(c)
    /\ \E served \in BOOLEAN : checks' = [checks EXCEPT ![c] = Restarted(checks[c], served)]
    /\ UNCHANGED <<incidents, covered, processes, history>>

\* ... and resumes one it had taken off the schedule, without touching the counts.
\* (scheduleNext may put such a check back before; it is then not resumed.)
ResumeCheck(c) ==
    /\ checks[c].exists /\ checks[c].enabled /\ ~checks[c].scheduled
    /\ ~Locked(c)
    /\ checks' = [checks EXCEPT ![c] = Resumed(checks[c])]
    /\ UNCHANGED <<incidents, covered, processes, history>>

-----------------------------------------------------------------------------
(* IncidentsService: operator updates and the release of suppressions.     *)

\* addUpdate refuses a resolved incident, by a read outside its transaction.
ReadIncident(o, i) ==
    /\ operator[o] = None
    /\ incidents[i].status = "open"
    /\ operator' = [operator EXCEPT ![o] = i]
    /\ UNCHANGED <<checks, incidents, covered, recorder, editor, releaser, history>>

\* The UPDATE names the incident only; every status but "resolved" is "open" here.  The
\* update or resolution it announces, of suppressed incidents too, is an operator's:
\* announced is about what the check announces.
PostUpdate(o, status) ==
    LET i == operator[o] IN
    /\ i # None
    /\ operator' = [operator EXCEPT ![o] = None]
    /\ incidents' = [incidents EXCEPT ![i].status = status]
    /\ reopened' = IF incidents[i].status = "resolved" /\ status = "open"
                   THEN reopened \cup {i} ELSE reopened
    /\ UNCHANGED <<checks, covered, recorder, editor, releaser,
                   announced, breaches, owed, overwritten>>

Suppressed == {i \in Incident : incidents[i].status = "open" /\ incidents[i].suppressed}

\* A pass lists the Batch longest open suppressed incidents, then treats each on
\* its own.
ListSuppressed(r) ==
    /\ releaser[r] = {}
    /\ \E listed \in SUBSET Suppressed :
          /\ Cardinality(listed) = Saturated(Cardinality(Suppressed), Batch)
          /\ \A i \in listed, j \in Suppressed \ listed :
                incidents[i].started <= incidents[j].started
          /\ releaser' = [releaser EXCEPT ![r] = listed]
    /\ UNCHANGED <<checks, incidents, covered, recorder, editor, operator, history>>

\* Mutants: the release trusts the list it was made from; it leaves the flag set.
ReleaseListed(i) ==
    IF i \notin covered
    THEN /\ incidents' = [incidents EXCEPT ![i].suppressed = FALSE]
         /\ Announce(i, "opened", Saturated(announced[i].opened + 1, 2))
    ELSE UNCHANGED <<incidents, announced>>
ReleaseWithoutClearing(i) ==
    IF i \in Suppressed \ covered
    THEN /\ Announce(i, "opened", Saturated(announced[i].opened + 1, 2))
         /\ UNCHANGED incidents
    ELSE UNCHANGED <<incidents, announced>>

\* releaseSuppression asks both again, under a lock on the incident row.
Release(i) ==
    IF i \in Suppressed \ covered
    THEN /\ incidents' = [incidents EXCEPT ![i].suppressed = FALSE]
         /\ Announce(i, "opened", Saturated(announced[i].opened + 1, 2))
    ELSE UNCHANGED <<incidents, announced>>

ReleaseSuppression(r, i) ==
    /\ i \in releaser[r]
    /\ releaser' = [releaser EXCEPT ![r] = @ \ {i}]
    /\ Release(i)
    /\ UNCHANGED <<checks, covered, recorder, editor, operator,
                   breaches, owed, reopened, overwritten>>

\* Maintenance of the incident's resources begins or ends (MaintenanceService,
\* and the clock), as far as a suppressed incident makes it matter.
ToggleMaintenance(i) ==
    /\ i \in Suppressed
    /\ covered' = IF i \in covered THEN covered \ {i} ELSE covered \cup {i}
    /\ UNCHANGED <<checks, incidents, processes, history>>

-----------------------------------------------------------------------------
Next ==
    \/ \E w \in Recorder : Record(w)
    \/ \E e \in Editor :
          \/ \E c \in Check : ReadForEdit(e, c)
          \/ \E enabled \in BOOLEAN : WriteEdit(e, enabled)
    \/ \E c \in Check : RemoveCheck(c) \/ Reconcile(c) \/ ResumeCheck(c)
    \/ \E o \in Operator :
          \/ \E i \in Incident : ReadIncident(o, i)
          \/ \E status \in {"open", "resolved"} : PostUpdate(o, status)
    \/ \E r \in Releaser :
          \/ ListSuppressed(r)
          \/ \E i \in Incident : ReleaseSuppression(r, i)
    \/ \E i \in Incident : ToggleMaintenance(i)

Spec == Init /\ [][Next]_vars

\* Every process runs a pass every 30 seconds and treats every incident listed.
FairSpec ==
    /\ Spec
    /\ \A r \in Releaser : /\ WF_vars(ListSuppressed(r))
                           /\ WF_vars(\E i \in Incident : ReleaseSuppression(r, i))
-----------------------------------------------------------------------------
(* Properties.                                                             *)

\* Concurrent records, edits and reconciliations together do to a check row what
\* applying the results one at a time does: no result is applied on top of a
\* state another transaction already replaced, none older than the last one.
Evaluation == INSTANCE CheckEvaluation
EvaluatesOneAtATime == Evaluation!Spec

\* A check only starts to alert (degraded or down) on a result that completes
\* FailureThreshold breached results in a row: pausing, editing, losing the agent
\* and results arriving out of order never let it alert on fewer.
AlertNeedsConsecutiveBreaches ==
    [][\A c \in Check :
          /\ ~Breaching(checks[c].status)
          /\ Breaching(checks'[c].status)
          /\ checks'[c].lastChecked # checks[c].lastChecked
          => breaches'[c] = FailureThreshold]_vars

\* Whatever the interleaving of records, edits and releases, two incidents of one
\* check are open at once only if an operator update reopened one of them.
OneOpenIncident ==
    \A c \in Check : \A i, j \in OpenIncidents(c) \ reopened : i = j

\* An incident of the check that its recovery has not resolved: still open, resolved
\* by an operator, or reopened by one before it was resolved again.
Unrecovered(i, c) ==
    /\ incidents[i].check = c
    /\ incidents[i].status = "open" \/ ~incidents[i].closedByCheck \/ i \in reopened

\* A check that an evaluation took down has an incident for it, which only an
\* operator can have resolved since (unless an edit overwrote its status).
OutageHasIncident ==
    \A c \in Check \ overwritten :
        checks[c].exists /\ checks[c].status = "down" => \E i \in Incident : Unrecovered(i, c)

\* Recovery notifications (check.recovered, and incident.resolved of the check)
\* never outnumber the confirmed breaches: no healthy result is announced as a
\* recovery when nothing had been wrong (unless an edit overwrote the status).
NoUnpromptedRecovery == \A c \in Check \ overwritten : owed[c] >= 0

\* A check announces the resolution of an incident only if its opening was
\* announced, although maintenance may hide either and end in between.
ResolutionFollowsOpening ==
    \A i \in Incident : announced[i].resolved => announced[i].opened > 0

\* However many processes release suppressions, and whenever maintenance starts
\* and ends, the opening of an incident is announced once at most.
OpenedOnce == \A i \in Incident : announced[i].opened <= 1

\* Once maintenance is over for good, an incident it kept quiet does not stay
\* both open and unannounced.
SuppressionEnds ==
    \A i \in Incident :
        []<>(i \in covered) \/ (i \in Suppressed ~> i \notin Suppressed)
=============================================================================
