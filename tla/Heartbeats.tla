----------------------------- MODULE Heartbeats -----------------------------
(***************************************************************************)
(* Heartbeat monitors: the pings of a job (HeartbeatsService.signal), the  *)
(* sweep that notices a missing one, pausing and resuming by the job       *)
(* (setReporting) and by operators (update, remove), with the incidents    *)
(* they open and resolve (openForHeartbeat, resolveForHeartbeat).          *)
(*                                                                         *)
(* signal, recordMiss and setReporting run in one transaction that locks   *)
(* the monitor row first: each commits in one action.  update and remove   *)
(* read the row without a lock, resolve its incident in a transaction of   *)
(* its own and write the row back in a third statement: three actions.     *)
(*                                                                         *)
(* Times are kept relative to the present: Tick ages every timestamp, in   *)
(* the rows and in the hands of a call, down to where no deadline can tell *)
(* it from an older one.                                                   *)
(***************************************************************************)
EXTENDS Integers, FiniteSets

CONSTANTS
    Monitor,    \* heartbeat monitors
    Sweeper,    \* API processes running sweep
    Signal,     \* concurrent calls of signal
    Editor,     \* concurrent calls of update or remove
    Operator,   \* concurrent calls of IncidentsService.addUpdate
    Interval,   \* interval_seconds
    Grace,      \* grace_seconds
    Runtime,    \* max_runtime_seconds ?? interval_seconds
    MaxLag,     \* bound: ticks between the start of a call or pass and its commit
    None        \* SQL NULL

ASSUME HeartbeatAssumption ==
    /\ {Interval, Runtime} \subseteq Nat \ {0}
    /\ {Grace, MaxLag} \subseteq Nat
    /\ None \notin Monitor \cup Int

VARIABLES
    monitors,    \* Monitor -> row of table heartbeat_monitors
    open,        \* monitors with an open incident
    signals,     \* Signal -> call of signal past requireToken, or None
    sweepers,    \* Sweeper -> pass of sweep
    editors,     \* Editor -> call of update or remove
    operators,   \* Operator -> monitor of the incident an addUpdate has read open, or None
    (* History: read by the properties only. *)
    promised,    \* Monitor -> ticks until the deadline its latest ping or restart set
    overtaken,   \* monitors a ping was committed of after a later one
    raced,       \* monitors an edit wrote back after another writer's commit
    reopened,    \* monitors with an incident an operator set back to open
    settled      \* monitors down whose incident an operator resolved, or an edit that failed

calls   == <<signals, sweepers, editors, operators>>
history == <<promised, overtaken, raced, reopened, settled>>
vars    == <<monitors, open, calls, history>>

-----------------------------------------------------------------------------
(* Rows, deadlines and calls.                                              *)

\* Ages beyond these bounds are the same to every deadline.
Lowest  == -(Grace + MaxLag)
Longest == Runtime + Grace + MaxLag

Status  == {"pending", "up", "down", "paused"}
Ahead   == Lowest .. Interval       \* ticks until next_expected_at
Elapsed == 0 .. Longest             \* ticks since running_since

\* The state columns are written together: a monitor that is disabled is paused and
\* expects nothing, a run goes on only while the monitor is up.
Coherent(row) == /\ row.enabled <=> row.status # "paused"
                 /\ row.enabled <=> row.expected # None
                 /\ row.running # None => row.status = "up"

MonitorRow ==
    {row \in [exists: BOOLEAN, enabled: BOOLEAN, status: Status,
              running: {None} \cup Elapsed, expected: {None} \cup Ahead] : Coherent(row)}

Kind == {"started", "succeeded", "failed"}
Lag  == 0 .. MaxLag

\* late (history): the commit of a later ping or restart came first.
Ping == [monitor: Monitor, kind: Kind, lag: Lag, late: BOOLEAN]

Idle == [pc |-> "idle"]
Pass == [pc: {"sweeping"}, lag: Lag, rows: SUBSET Monitor]

\* A call of update or remove, with the row it is to write (Absent to delete it):
\* "resolving" the incident first, "resolved", or without that "writing" at once.
\* raced (history): another writer has changed the monitor since the call read it.
Edit == [pc: {"resolving", "resolved", "writing"}, monitor: Monitor, row: MonitorRow,
         raced: BOOLEAN]

TypeOK ==
    /\ monitors \in [Monitor -> MonitorRow]
    /\ open \subseteq Monitor
    /\ signals \in [Signal -> {None} \cup Ping]
    /\ sweepers \in [Sweeper -> {Idle} \cup Pass]
    /\ editors \in [Editor -> {Idle} \cup Edit]
    /\ operators \in [Operator -> {None} \cup Monitor]
    /\ promised \in [Monitor -> Int]
    /\ {overtaken, raced, reopened, settled} \subseteq SUBSET Monitor

\* The state columns of a monitor that starts, that is paused, and of no monitor.
Restarted(row) == [row EXCEPT !.enabled = TRUE, !.status = "pending",
                              !.running = None, !.expected = Interval]
Paused(row)    == [row EXCEPT !.enabled = FALSE, !.status = "paused",
                              !.running = None, !.expected = None]
Absent         == [exists |-> FALSE, enabled |-> FALSE, status |-> "paused",
                   running |-> None, expected |-> None]

Init ==
    /\ monitors = [m \in Monitor |-> Absent]
    /\ open = {}
    /\ signals = [s \in Signal |-> None]
    /\ sweepers = [s \in Sweeper |-> Idle]
    /\ editors = [e \in Editor |-> Idle]
    /\ operators = [o \in Operator |-> None]
    /\ promised = [m \in Monitor |-> 0]
    /\ overtaken = {} /\ raced = {} /\ reopened = {} /\ settled = {}

\* Ticks until the deadline of a row that has one (HeartbeatsService.deadline).
HasDeadline(row) == row.running # None \/ row.expected # None
Deadline(row) == IF row.running # None THEN Runtime + Grace - row.running
                 ELSE row.expected + Grace

\* Overdue at the time of a pass that started lag ticks ago.
Overdue(row, lag) == HasDeadline(row) /\ Deadline(row) + lag <= 0

-----------------------------------------------------------------------------
(* Incidents of heartbeats, as the transactions below use them.  The unique *)
(* index on open ones lets a monitor have one at most: a set of monitors.  *)

\* openForHeartbeat: nothing if one is open.  Its SELECT and INSERT are one step,
\* as the index refuses an INSERT that another one came before.
OpenIncident(m) == open' = open \cup {m}

\* resolveForHeartbeat: only another resolution fits between SELECT and UPDATE.
ResolveIncident(m) == open' = open \ {m}

\* Every call of update or remove that has read m is told that m has changed.
Changed(m) == [e \in Editor |-> IF editors[e] # Idle /\ editors[e].monitor = m
                                THEN [editors[e] EXCEPT !.raced = TRUE] ELSE editors[e]]

\* The history a committed transaction on m leaves, its row being row afterwards.
Committed(m, row) ==
    /\ monitors' = [monitors EXCEPT ![m] = row]
    /\ settled' = IF row.exists /\ row.status = "down" THEN settled ELSE settled \ {m}

-----------------------------------------------------------------------------
(* create; signal: a ping of the job.                                      *)

InUse(m) == \/ \E s \in Signal : signals[s] # None /\ signals[s].monitor = m
            \/ \E s \in Sweeper : sweepers[s] # Idle /\ m \in sweepers[s].rows
            \/ \E e \in Editor : editors[e] # Idle /\ editors[e].monitor = m

\* A new monitor takes an identifier no call refers to.
Create(m, enabled) ==
    /\ ~monitors[m].exists
    /\ ~InUse(m)
    /\ LET row == [Absent EXCEPT !.exists = TRUE]
       IN  Committed(m, IF enabled THEN Restarted(row) ELSE Paused(row))
    /\ promised' = [promised EXCEPT ![m] = Interval + Grace]
    /\ overtaken' = overtaken \ {m} /\ raced' = raced \ {m}
    /\ reopened' = reopened \ {m}
    /\ UNCHANGED <<open, calls>>

\* signal takes its time after requireToken found an enabled monitor.
Receive(s, m, kind) ==
    /\ signals[s] = None
    /\ monitors[m].exists /\ monitors[m].enabled
    /\ signals' = [signals EXCEPT ![s] = [monitor |-> m, kind |-> kind, lag |-> 0, late |-> FALSE]]
    /\ UNCHANGED <<monitors, open, sweepers, editors, operators, history>>

\* Mutant: the end of a run leaves running_since set.
SignalledRunning(row, kind, lag) ==
    [row EXCEPT !.status = IF kind = "failed" THEN "down" ELSE "up",
                !.running = IF kind = "started" THEN lag ELSE @,
                !.expected = Interval - lag]

\* The row a ping of lag ticks ago writes.
Signalled(row, kind, lag) ==
    [row EXCEPT !.status = IF kind = "failed" THEN "down" ELSE "up",
                !.running = IF kind = "started" THEN lag ELSE None,
                !.expected = Interval - lag]

\* Mutant: only a finished run resolves the incident.
RecoversFinished(row, kind) == kind = "succeeded" /\ row.status = "down"

Recovers(row, kind) == kind # "failed" /\ row.status = "down"

\* A ping or restart of ago ticks ago is committed: earlier pings come late now.
Overtake(m, ago) ==
    [s \in Signal |-> IF signals[s] # None /\ signals[s].monitor = m /\ signals[s].lag > ago
                      THEN [signals[s] EXCEPT !.late = TRUE] ELSE signals[s]]

\* The latest ping or restart of m sets a deadline; an edit that raced voids it.
Promise(m, left) == promised' = [promised EXCEPT ![m] = IF m \in raced THEN @ ELSE left]

\* The transaction of signal: the monitor may be paused or gone by now.
CommitSignal(s) ==
    LET m == signals[s].monitor  kind == signals[s].kind  lag == signals[s].lag
        row == monitors[m]
    IN  /\ signals[s] # None
        /\ IF row.exists /\ row.enabled
           THEN /\ Committed(m, Signalled(row, kind, lag))
                /\ signals' = [Overtake(m, lag) EXCEPT ![s] = None]
                /\ editors' = Changed(m)
                /\ IF kind = "failed" THEN OpenIncident(m)
                   ELSE IF Recovers(row, kind) THEN ResolveIncident(m)
                   ELSE UNCHANGED open
                /\ IF signals[s].late
                   THEN /\ overtaken' = overtaken \cup {m}
                        /\ UNCHANGED promised
                   ELSE /\ overtaken' = overtaken \ {m}
                        /\ Promise(m, Grace - lag + IF kind = "started" THEN Runtime ELSE Interval)
           ELSE /\ signals' = [signals EXCEPT ![s] = None]
                /\ UNCHANGED <<monitors, open, editors, promised, overtaken, settled>>
        /\ UNCHANGED <<sweepers, operators, raced, reopened>>

-----------------------------------------------------------------------------
(* setReporting: the job pauses and resumes its own monitor.               *)

SetReporting(m, enabled) ==
    LET row == monitors[m] IN
    /\ row.exists
    /\ row.enabled # enabled
    /\ Committed(m, IF enabled THEN Restarted(row) ELSE Paused(row))
    /\ editors' = Changed(m)
    /\ IF row.status = "down" THEN ResolveIncident(m) ELSE UNCHANGED open
    /\ IF enabled
       THEN /\ signals' = Overtake(m, 0)
            /\ Promise(m, Interval + Grace)
       ELSE UNCHANGED <<signals, promised>>
    /\ UNCHANGED <<sweepers, operators, overtaken, raced, reopened>>

-----------------------------------------------------------------------------
(* sweep: one pass at a time in each process.                              *)

\* Mutant: a monitor that has not been heard of yet is not swept.
DueUp(row) == /\ row.exists /\ row.enabled /\ row.status = "up"
              /\ row.running # None \/ (row.expected # None /\ row.expected <= 0)

\* The SELECT of a pass.
Due(row) == /\ row.exists /\ row.enabled /\ row.status # "down"
            /\ row.running # None \/ (row.expected # None /\ row.expected <= 0)

\* A pass that lists no overdue monitor changes nothing.
StartSweep(s) ==
    LET rows == {m \in Monitor : Due(monitors[m]) /\ Overdue(monitors[m], 0)} IN
    /\ sweepers[s] = Idle
    /\ rows # {}
    /\ sweepers' = [sweepers EXCEPT ![s] = [pc |-> "sweeping", lag |-> 0, rows |-> rows]]
    /\ UNCHANGED <<monitors, open, signals, editors, operators, history>>

\* Mutant: the deadline is not asked for again under the lock.
StillMissingListed(row, lag) == row.exists /\ row.enabled /\ row.status # "down"

\* What recordMiss asks of the locked row.
StillMissing(row, lag) == /\ row.exists /\ row.enabled /\ row.status # "down"
                          /\ Overdue(row, lag)

\* The transaction of recordMiss for one listed row.
RecordMiss(s, m) ==
    LET row == monitors[m]  lag == sweepers[s].lag  left == sweepers[s].rows \ {m} IN
    /\ sweepers[s] # Idle
    /\ m \in sweepers[s].rows
    /\ sweepers' = [sweepers EXCEPT ![s] =
                        IF left = {} THEN Idle ELSE [sweepers[s] EXCEPT !.rows = left]]
    /\ IF StillMissing(row, lag)
       THEN /\ Committed(m, [row EXCEPT !.status = "down", !.running = None])
            /\ editors' = Changed(m)
            /\ OpenIncident(m)
       ELSE UNCHANGED <<monitors, open, editors, settled>>
    /\ UNCHANGED <<signals, operators, promised, overtaken, raced, reopened>>

-----------------------------------------------------------------------------
(* update and remove: three steps.                                         *)

\* The row update writes, from the one it read.
Edited(row, enabled, moved, rescheduled) ==
    IF ~enabled THEN Paused(row)
    ELSE IF ~row.enabled \/ moved THEN Restarted(row)
    ELSE IF rescheduled THEN [row EXCEPT !.expected = Interval] ELSE row

StartEdit(e, m, row, resolves) ==
    /\ editors[e] = Idle
    /\ monitors[m].exists
    /\ editors' = [editors EXCEPT ![e] =
           [pc |-> IF resolves THEN "resolving" ELSE "writing", monitor |-> m, row |-> row,
            raced |-> FALSE]]
    /\ UNCHANGED <<monitors, open, signals, sweepers, operators, history>>

Resolves(row, enabled, moved) == (~enabled \/ moved) /\ row.status = "down"

\* update reads the row; the deadline it sets counts from then.
Update(e, m) ==
    \E enabled, moved, rescheduled \in BOOLEAN :
       StartEdit(e, m, Edited(monitors[m], enabled, moved, rescheduled),
                 Resolves(monitors[m], enabled, moved))

Remove(e, m) == StartEdit(e, m, Absent, monitors[m].status = "down")

\* resolveForHeartbeat, in a transaction of its own.
ResolveForEdit(e) ==
    LET m == editors[e].monitor IN
    /\ editors[e].pc = "resolving"
    /\ editors' = [editors EXCEPT ![e].pc = "resolved"]
    /\ ResolveIncident(m)
    /\ UNCHANGED <<monitors, signals, sweepers, operators, history>>

\* The UPDATE or DELETE, of every state column; on a removed monitor it finds no row.
\* An incident outlives its monitor (ON DELETE SET NULL): one that is open by then, as
\* after a race, stays open and is no monitor's any more.
WriteEdit(e) ==
    LET edit == editors[e]  m == edit.monitor IN
    /\ edit.pc \in {"resolved", "writing"}
    /\ editors' = [Changed(m) EXCEPT ![e] = Idle]
    /\ IF monitors[m].exists
       THEN /\ Committed(m, edit.row)
            /\ IF edit.row.exists THEN UNCHANGED <<open, operators>>
               ELSE /\ open' = open \ {m}
                    /\ operators' = [o \in Operator |-> IF operators[o] = m THEN None
                                                       ELSE operators[o]]
            /\ raced' = IF edit.raced THEN raced \cup {m} ELSE raced
            /\ signals' = IF edit.row.status = "pending"
                          THEN Overtake(m, Interval - edit.row.expected) ELSE signals
            /\ IF edit.raced THEN promised' = [promised EXCEPT ![m] = Lowest]
               ELSE IF edit.row.status = "pending" THEN Promise(m, edit.row.expected + Grace)
               ELSE UNCHANGED promised
       ELSE UNCHANGED <<monitors, open, operators, signals, raced, promised, settled>>
    /\ UNCHANGED <<sweepers, overtaken, reopened>>

-----------------------------------------------------------------------------
(* IncidentsService.addUpdate, the passing of time and faults.             *)

\* addUpdate refuses a resolved incident, by a read outside its transaction.
ReadIncident(o, m) ==
    /\ operators[o] = None
    /\ m \in open
    /\ operators' = [operators EXCEPT ![o] = m]
    /\ UNCHANGED <<monitors, open, signals, sweepers, editors, history>>

\* The UPDATE names the incident that was read.  Meanwhile it may be resolved and
\* another one be open: then that one stays as it is, the index refusing to reopen
\* the first.  Every status but "resolved" is open here.
PostUpdate(o) ==
    LET m == operators[o] IN
    /\ m # None
    /\ operators' = [operators EXCEPT ![o] = None]
    /\ \/ UNCHANGED <<open, reopened, settled>>
       \/ /\ open' = open \cup {m}
          /\ reopened' = IF m \in open THEN reopened ELSE reopened \cup {m}
          /\ UNCHANGED settled
       \/ /\ open' = open \ {m}
          /\ settled' = IF monitors[m].status = "down" THEN settled \cup {m} ELSE settled
          /\ UNCHANGED reopened
    /\ UNCHANGED <<monitors, signals, sweepers, editors, promised, overtaken, raced>>

AtLeast(n, bound) == IF n < bound THEN bound ELSE n
AtMost(n, bound)  == IF n > bound THEN bound ELSE n

Older(row) == [row EXCEPT !.running = IF @ = None THEN None ELSE AtMost(@ + 1, Longest),
                          !.expected = IF @ = None THEN None ELSE AtLeast(@ - 1, Lowest)]

\* Time passes, but no call or pass takes more than MaxLag ticks.
Tick ==
    /\ \A s \in Signal : signals[s] # None => signals[s].lag < MaxLag
    /\ \A s \in Sweeper : sweepers[s] # Idle => sweepers[s].lag < MaxLag
    /\ monitors' = [m \in Monitor |-> Older(monitors[m])]
    /\ signals' = [s \in Signal |-> IF signals[s] = None THEN None
                                    ELSE [signals[s] EXCEPT !.lag = @ + 1]]
    /\ sweepers' = [s \in Sweeper |-> IF sweepers[s] = Idle THEN Idle
                                      ELSE [sweepers[s] EXCEPT !.lag = @ + 1]]
    /\ editors' = [e \in Editor |-> IF editors[e] = Idle THEN Idle
                                    ELSE [editors[e] EXCEPT !.row = Older(@)]]
    /\ promised' = [m \in Monitor |-> AtLeast(promised[m] - 1, Lowest)]
    /\ UNCHANGED <<open, operators,
                   overtaken, raced, reopened, settled>>

\* A crash, or a statement that fails: what the call has not committed is lost.
Fail ==
    /\ \/ /\ \E s \in Signal : signals[s] # None /\ signals' = [signals EXCEPT ![s] = None]
          /\ UNCHANGED <<sweepers, editors, settled>>
       \/ /\ \E s \in Sweeper : sweepers[s] # Idle /\ sweepers' = [sweepers EXCEPT ![s] = Idle]
          /\ UNCHANGED <<signals, editors, settled>>
       \/ /\ \E e \in Editor :
                /\ editors[e] # Idle
                /\ editors' = [editors EXCEPT ![e] = Idle]
                /\ LET m == editors[e].monitor IN
                   settled' = IF editors[e].pc = "resolved" /\ monitors[m].status = "down"
                              THEN settled \cup {m} ELSE settled
          /\ UNCHANGED <<signals, sweepers>>
    /\ UNCHANGED <<monitors, open, operators, promised, overtaken, raced, reopened>>

RecordMisses(s) == \E m \in Monitor : RecordMiss(s, m)

Next ==
    \/ \E m \in Monitor, b \in BOOLEAN : Create(m, b) \/ SetReporting(m, b)
    \/ \E s \in Signal : \/ \E m \in Monitor, kind \in Kind : Receive(s, m, kind)
                         \/ CommitSignal(s)
    \/ \E s \in Sweeper : StartSweep(s) \/ RecordMisses(s)
    \/ \E e \in Editor : \/ \E m \in Monitor : Update(e, m) \/ Remove(e, m)
                         \/ ResolveForEdit(e) \/ WriteEdit(e)
    \/ \E o \in Operator : \/ \E m \in Monitor : ReadIncident(o, m)
                           \/ PostUpdate(o)
    \/ Tick \/ Fail

Spec == Init /\ [][Next]_vars

\* The timer of sweep fires every five seconds, not every pass fails, a ping that was
\* received is committed or lost, and time passes.  Nothing obliges a job to ping, an
\* operator to act, or an edit to end.
Fairness == /\ WF_vars(Tick)
            /\ \A s \in Signal : WF_vars(CommitSignal(s))
            /\ \A s \in Sweeper : WF_vars(StartSweep(s)) /\ SF_vars(RecordMisses(s))

FairSpec == Spec /\ Fairness

-----------------------------------------------------------------------------
(* Properties.                                                             *)

\* A miss is recorded only after the deadline of the latest ping or restart: a
\* ping that arrives while the sweep runs, the start of a long run, a pause and a
\* resumption all keep the alarm quiet.  The two ways to a false alarm are two pings
\* whose transactions commit in the reverse order of their arrival, and an edit that
\* writes back columns it read before a ping (which voids the promise, see WriteEdit).
MissesAreReal ==
    [][\A s \in Sweeper, m \in Monitor :
          RecordMiss(s, m) /\ monitors'[m] # monitors[m] =>
             promised[m] + sweepers[s].lag <= 0 \/ m \in overtaken]_vars

\* Whatever reports, pauses, moves or removes a monitor leaves no incident open on
\* one that is not down, whatever the order of pings, passes and operators; only an
\* edit that raced with another writer does, and an operator who reopens one.
OpenIncidentMeansDown ==
    \A m \in Monitor : m \in open => \/ monitors[m].status = "down"
                                         \/ m \in raced \cup reopened

\* A monitor that is down has its open incident, unless an operator has resolved it,
\* an edit that pauses, moves or removes it has (and is about to, or failed to), or
\* an edit that raced wrote the status.
DownHasIncident ==
    \A m \in Monitor : monitors[m].exists /\ monitors[m].status = "down" =>
        \/ m \in open \cup settled \cup raced
        \/ \E e \in Editor : editors[e] # Idle /\ editors[e].pc = "resolved"
                                               /\ editors[e].monitor = m

\* A monitor's incident and its status go together through every order of pings, passes,
\* edits and operators.  An edit that raced with another writer (raced) is exempt: update
\* then leaves an incident open or a monitor down without one, as the code does.
IncidentsFollowStatus == OpenIncidentMeansDown /\ DownHasIncident

\* A job that goes silent is noticed: a monitor that stays enabled is for ever
\* either down from time to time or heard of again (signal, restart or reschedule),
\* whatever edits and other jobs do, after a pass that failed too.
SilenceIsNoticed ==
    \A m \in Monitor :
       []<>LET row == monitors[m] IN
           ~row.enabled \/ row.status = "down" \/ row.expected >= Interval - MaxLag
=============================================================================
