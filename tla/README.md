# Mimorii, verified

TLA+ modules, TLC configurations and TLAPS proofs about Mimorii, a self-hosted
uptime monitor: a NestJS API on PostgreSQL, a Rust agent that runs checks and
collects telemetry on hosts, and a web client. Paths below are relative to
`src/apps/api/src/` unless they start with `src/`.

## Parts of the system

| part | state | operations | hard behaviour |
| --- | --- | --- | --- |
| Check evaluation (`checks/check-state.ts`, `results.service.ts`) | the state columns of `checks`: status, counters, time of the last result | `record`, called by the scheduler, manual runs, agent reports and task expiry | concurrent and late results of one check; a transition has to be found once |
| Checks (`checks/checks.service.ts`, `common/agent-relationships.ts`) | rows of `checks` | create, update, remove; reconciliation with the agent that executes the check | edits read without a lock and write every column back |
| Incidents (`incidents/incidents.service.ts`) | `incidents`, their updates | open and resolve for a check or heartbeat, operator updates, release of suppressions | operators and the check write one incident; announcements are kept quiet during maintenance and released after it |
| Scheduling and agent tasks (`checks/check-orchestrator.service.ts`, `agents/agents.service.ts`) | `agent_tasks`, `next_check_at`, the in-process `running` set | tick, run now, poll, heartbeat with results, expiry | tasks are queued, claimed, completed and expired without one lock over them |
| Notification delivery (`notifications/notifications.service.ts`, `push-delivery.service.ts`) | `notification_deliveries`, per-endpoint rows, subscriber deliveries | enqueue, dispatch, deliver, retry | claim leases, back-off, crashes between sending and noting it |
| Heartbeats (`heartbeats/heartbeats.service.ts`) | `heartbeat_monitors`, events | create, signal, sweep, setReporting, update, remove | a ping racing the sweep that misses it; edits that write back columns they read before a ping |
| Resource alerts (`resource-alerts/resource-alerts.service.ts`) | rules and their state | evaluate on each telemetry snapshot | snapshots out of order; hysteresis |
| Maintenance (`maintenance/maintenance.service.ts`) | windows, emitted lifecycle events | create, update, cancel, remove, covering test, lifecycle events | recurrence arithmetic; several processes announcing; passes that fail at the edge of an occurrence |
| Sessions, OAuth (`auth/`) | sessions, grants, token families | refresh, code and refresh-token exchange, revocation | access control, left aside here |
| Agent runtime and snapshot store (`src/apps/agent-desktop/src/runtime.rs`, `snapshot_store.rs`) | files of unsent snapshots, loop state of two threads | poll, collect, append, prune, upload a batch, acknowledge, clear | crash between upload and acknowledgement; a thread collecting while the other clears the store |
| Status pages, objectives, analytics, dashboards, retention, teams, admin, sponsors, MCP, technologies, resources and images, client, mobile agent | rows of their tables | CRUD, queries, user interface | little: no protocol between actors |

`record` is where they meet: the scheduler and the agents feed it, it evaluates
the result against the check's row, opens and resolves incidents and enqueues
notifications in one transaction. Heartbeats and resource alerts do the same with
their own state. Maintenance decides whether notifications are kept quiet, and announces
its own windows.
All cooperation between processes goes through PostgreSQL at READ COMMITTED
(`database/database.service.ts`); flags such as `schedulerBusy`, `running` and
`releasingSuppressedNotifications` only exclude calls within one process.

What makes each part correct is listed with the hazards in `PROJECT.json`.

## Modules

| module | models | checked by | proofs |
| --- | --- | --- | --- |
| `CheckState` | the row of a check and the threshold rule, no variables | with `CheckIncidents` | `CheckStateProofs` |
| `CheckEvaluation` | abstract: a row takes one result at a time, each newer than the last | as property `EvaluatesOneAtATime` | refinement in `CheckIncidentsProofs` |
| `CheckIncidents` | rows of checks and incidents under concurrent `record`, `update`, `remove`, reconciliation, `addUpdate`, release of suppressions | `MCCheckIncidents` | `CheckIncidentsProofs`, `CheckIncidentsOutageProofs` |
| `DeliveryQueue` | abstract: a delivery is taken by one worker at a time, settled once, delivered only if a target heard of it | as property `SettledOnceByOne` | refinement in `NotificationDeliveryProofs` |
| `NotificationDelivery` | deliveries, their parts per device, and concurrent calls of `deliverById` with leases, retries and crashes | `MCNotificationDelivery` | `NotificationDeliveryProofs` |
| `CheckScheduling` | the scheduler, `runNow`, direct execution, the queue of agent tasks, polls and reports, agents that come and go | `MCCheckScheduling` | `CheckSchedulingProofs` |
| `Heartbeats` | monitors of jobs, their pings, the sweep, edits and incidents | itself | `HeartbeatsProofs` |
| `ResourceAlert` | the row of an alert rule and its evaluation, no variables | with `Telemetry` | with `TelemetryProofs` |
| `Telemetry` | the agent's two threads and its store on disk, the upload, the API's deduplication, the evaluation of a rule | `MCTelemetry` | `TelemetryProofs` |
| `MaintenanceWindow` | the occurrences of a window at an instant, no variables | with `Maintenance` | with `MaintenanceProofs` |
| `Maintenance` | windows under operators, and processes announcing their occurrences | `MCMaintenance` | `MaintenanceProofs` |

The modules meet where the code does: `CheckScheduling` ends each execution in a call of
`record`, one step there, whose interleavings `CheckIncidents` has; `CheckIncidents` and
`Heartbeats` end in announcements, of which a delivery of `NotificationDelivery` is one;
`CheckIncidents` takes from maintenance whether it covers a time, which is what
`OnWhileRunning` of `Maintenance` is about. They are not composed: each pair shares one
value, and the product of their states says nothing new about it. The composition that
matters, of rules that live in one module with processes that live in another, is by
EXTENDS (`CheckState`, `ResourceAlert`, `MaintenanceWindow`).

### CheckIncidents and the code

A transaction at READ COMMITTED is split where another can get in between. `record`
takes the row lock (`Lock`: `SELECT ... FOR UPDATE`, results.service.ts:46) and from
there reads the row it will write, so no other writer of that row runs until it
commits; it either ignores a stale result (`IgnoreStale`), looks for an open incident
without locking it (`FindIncident`), or commits (`CommitState`, `CommitDown`,
`CommitRecovery`). Everything it writes appears in the commit action, the UPDATE of the
check, the incident and the announcement together: nothing of it is visible earlier.
`ChecksService.update` has no lock: `ReadForEdit` and `WriteEdit` are separate, as are
`ReadIncident` and `PostUpdate` of `addUpdate`. `releaseEndedMaintenanceSuppressions`
lists incidents (`ListSuppressed`) and treats each in a transaction of its own under a
row lock (`ReleaseSuppression`).

The state columns are kept exactly; the rest is abstracted:

- result history, hourly counts, latency, technologies and audit rows are written there
  and read by nothing modelled here. Of `next_check_at` only whether it is NULL is kept
  (`scheduled`): reconciliation asks for it when it resumes a paused check (`ResumeCheck`,
  agent-relationships.ts:93-113), which keeps the counters, while one that gets another
  agent starts anew (`Reconcile`);
- an incident's statuses investigating, identified and monitoring are all `open`:
  no code modelled here tells them apart; its text and updates are left out, and so is the
  announcement `addUpdate` makes of an update or resolution by an operator, for suppressed
  incidents as well (incidents.service.ts:252-265): `announced`, and with it
  `ResolutionFollowsOpening`, is about what the check announces;
- `started_at` is the time of the result; operators may edit it, so a lookup that
  orders by it may return any open incident of the check;
- whether maintenance covers the time of a result is any Boolean when an incident is
  opened (that time may be long past) and the variable `covered` when a suppression
  is released (that is asked about the present);
- `FOR UPDATE` on the join with `resources` also locks the resource, so that checks
  of one resource exclude each other. The model locks the check only: it has more
  interleavings than the code;
- thresholds are constants of an instance: an edit of a threshold is not modelled;
- creation of checks is the initial state: a check is new, enabled or not.

`announced`, `breaches`, `owed`, `reopened` and `overwritten` are history variables:
what has been announced, how many breached results in a row there have been, how many
confirmed breaches have no recovery notification yet, which resolved incidents an
operator update made active again, and which checks got a status from an edit that had
read an earlier one. The last two name two races of the code, so that the invariants can
say what holds outside them (see "What the models showed").

### NotificationDelivery and the code

`enqueueChannel` inserts a delivery and, for push, fans it out to the active devices in
one transaction (`Enqueue`). Dispatchers (`dispatch`, every 5 seconds in each API
process) list due deliveries and call `deliverById` for each at once; `test` and `retry`
call it from a request. A call is a record of `calls`, and each of its statements is an
action: the claim (`Claim`, `Skip`: one conditional UPDATE), the read (`ReadHook`,
`ReadParts`, `ReadFails` when the channel is gone), each request to a target and its
answer (`Send`), what is noted of it (`Invalidate`, `NotePart`), the summary of the parts
(`Summarise`), and the last, unconditional UPDATE (`FinishPush`, `FinishHook`). Devices of
one delivery are sent to concurrently, so answers and notes interleave freely. `retry` is
an INSERT (`Retry`) and a later fan-out (`FanOut`), as in the code.

- `next_attempt_at` is only whether it has come (`due`), for a delivery and for each
  part, and each comes when it likes (`Elapse`, `ElapsePart`): back-off, jitter and
  Retry-After do not matter to what is checked, and the model has more interleavings;
- the age of a claim is `fresh` or `stale`. Requests to a webhook or a browser end
  after 10 seconds and those to Firebase within the limits of its library, so a call is
  over before its lease of two minutes unless the target is a mail server, for which the
  code sets no limit: such deliveries are in `Slow`, and only their lease may run out
  under a call. The properties are about the others. That more devices than a call sends to within its lease are
  registered (20 at a time) is left out;
- a target answers with what the providers' errors tell apart. A target may have taken
  a message whose answer was an error to be retried (a time-out), never one whose answer
  was a permanent error;
- a process is its callers: a crash ends one of them, all its calls with it. A
  dispatcher does not begin a second call of a delivery its earlier pass still has, and
  ends a pass when all its calls are over; the code may do either after a pass that
  ended with an error, and the claim then skips the delivery;
- two pairs of statements are one step each: the SELECT of devices and the INSERTs of the
  fan-out (push-delivery.service.ts:44-60, `FanOut`), and the UPDATE of parts whose users
  left and the SELECT of those that are due (:68-86, `ReadParts`);
- errors of the database are left out, and so is the `attempts` column of a push
  delivery, which is the maximum of its parts' and is only displayed;
- removing a channel, a team or old deliveries deletes the rows (`Remove`); a removed
  device that registers again is another device.

`accepted`, `missed` and `hurried` are history: how often a target took a delivery, how
often it did without the caller learning of it (a lost answer, or a crash before it was
noted), and which push deliveries were summed up between `retry`'s two statements.

### CheckScheduling and the code

The agents are those of one resource: it may have one, revoke it and enrol another, which
takes over or releases the checks (`reconcileAgentChecks`, one transaction with the
enrolment or revocation). `tick` is a pass of statements: it reads the tasks that are too
old, settles one (`UPDATE ... WHERE status IN`), records its failure in another
transaction, and so on; then it lists the checks that are longest due (`MaxListed` of them,
50 in the code, in the order of `next_check_at`) and takes one row after the other, for which there is a place (`running.size < 8`), or a task to
queue. `queueAgentTask` asks for an open task and inserts one in two statements, and so may
two callers at once: the scheduler and a request of `runNow`. A poll reads the pending
tasks, expires the unsupported ones and claims the others by their ids in three statements;
a heartbeat is a transaction that locks the agent's row, accepts one result after the other
and commits. The agent (`src/apps/agent-desktop/src/runtime.rs`) polls, executes and reports
in one loop, gives a request up after 20 seconds, its handler in the API does not, and it
may stop and forget everything.

- `next_check_at` is NULL, ahead, or has come (`never`, `later`, `due`), and the due checks
  form a line in its order; the age of a task is over two minutes or not. An instant comes
  when it likes;
- a report's outcome, latency and time of observation belong to `CheckIncidents`; so does
  what `record` does with them, one step here;
- a failing statement (`ScheduleFails`, `Restart`) is counted by `MaxFaults`;
- rows of `agent_tasks` that are settled may be forgotten and their id used again by the
  next task: that is what lets a run go on for ever, and no property tells the two apart.
  A task's history starts anew with each opening.

`reports`, `timeouts`, `overtaken` and `doubled` are history: how often the task that is
open, or was last, was reported and timed out, which tasks timed out while a report that
had read them was handled, and for which checks two callers asked before either inserted, or
a settled task was claimed.

### Heartbeats and the code

`signal` runs in a transaction that locks the monitor: receiving the ping, whose time is
noted then, is `Receive`, and what the transaction does is `CommitSignal`; `setReporting`
is one step. `sweep` lists the overdue monitors (`StartSweep`) and records each miss in a
transaction of its own that locks the row and asks again (`RecordMiss`). `update` and
`remove` read the monitor without a lock, resolve its incident in one transaction
(`ResolveForEdit`) and write every state column back in another statement (`WriteEdit`).
`addUpdate` reads an incident and writes its status later (`ReadIncident`, `PostUpdate`).

Times are relative to the present: `Tick` ages every timestamp and every call. What is
older than any deadline can tell is kept at a bound that follows from the constants, so
nothing is cut off. The history variable `promised` is the deadline the latest ping or
restart set, whatever the row says now: it is what `MissesAreReal` holds the sweep to.
`overtaken` and `raced` name two races (below). Interval, grace and maximal runtime are
constants: an edit may restart the deadline, and does, but not change its length. When a
monitor is removed, an incident opened after the edit resolved its own stays open with
`heartbeat_id` NULL: it is no monitor's any more and leaves `open`. The token, its rotation, the events kept for
statistics and what `foxytail.service.ts` enrols (a resource and a paused monitor) change
nothing of this.

### Telemetry, ResourceAlert and the code

A snapshot is a position in the order of collection, which is the order of the files'
names. The collector thread writes a file and then prunes (`Store`, `Prune`); between the
two, and between the steps of the other thread, a crash may come. The main thread polls,
tells the collector whether to go on and waits for its answer before it clears the store
(`Poll`, `Configure`, `Clear`), loads a batch, uploads it, and removes its files when the API
has answered, whether it stored or refused it. A request the agent has given up goes on in
the API. The API stores a batch and acknowledges in one transaction, and evaluates the
rules against the newest snapshot it inserted in another.

- the observation time is the agent's clock, ahead by `skew`: by less than the tolerance it
  is kept, beyond it the time of receipt is stored;
- a repeated snapshot is compared with its row: the same is skipped, another is a conflict
  that refuses the whole batch;
- one rule stands for all, as rules are evaluated one by one under a lock of each. `update`
  of a rule reads it without a lock and writes it in one statement
  (resource-alerts.service.ts:112-141), a step here: what it writes back is configuration,
  of which any new value is tried, and what it does to the rule's state (`active`, the
  counters) its UPDATE computes from the row itself. What a metric is taken from a snapshot
  by is the reading's `value`;
- before the results of tasks the main thread looks for pending files, and if it finds none
  collects and appends one (runtime.rs:283-285); that is one step. A file the other thread
  adds in between is one more in the store, and the oldest go, as in `Prune`;
- what is said of notifications is said of those a rule enqueues. Policies route events one
  by one and each delivery is dispatched and retried on its own, so a channel may hear of a
  recovery first, or of it alone;
- a file that cannot be read is skipped or removed by the code, and `host_snapshots` are
  deleted after weeks: neither is modelled.

### Maintenance, MaintenanceWindow and the code

`MaintenanceWindow` is the arithmetic: `Found`, `Current`, `Upcoming` and `Completed` look at
a few occurrences near `IndexAt`, as the code does, and `Numbers`, `Running` are the
definition they are held to, over all occurrences. Days, weeks and months are constants, so
a small calendar has all the edges of a large one: a month that lacks a day, and months of
different lengths in a row. It is given as far as two months after the last instant, which an
assumption asks for. Time of day survives as the rest within a day; the model has no
time zones because the code computes in UTC.

`emitLifecycleEvents` reads all windows (`StartPass`) and then announces what it found, one
transaction for each (`Emit`: `INSERT ... ON CONFLICT DO NOTHING`, and the notice in the same
transaction). `update` reads and writes in two statements (`ReadWindow`, `WriteWindow`). The
model takes the windows of a pass in any order; the code in the order of the list.

## Runs

| run | question | bounds | properties |
| --- | --- | --- | --- |
| `check_rows` | are results applied one at a time, alerts and recoveries confirmed, and suppressed openings announced once and in the end? | one check, thresholds 2, one incident, two records, one edit, two releasers, times 1..4 | `EvaluatesOneAtATime`, `AlertNeedsConsecutiveBreaches`, `NoUnpromptedRecovery`, `OpenedOnce`, `SuppressionEnds` |
| `check_outages` | one open incident, an incident for each outage, openings announced before resolutions? | one check, thresholds 1, three incidents, two records, an edit, an operator, a releaser, times 1..3 | `OneOpenIncident`, `OutageHasIncident`, `ResolutionFollowsOpening` |
| `delivery_devices` | is a message sent to each device once, the lost answers apart, and is no device forgotten? | a push delivery, two devices, two dispatchers, two attempts, a crash | `NoNeedlessRepeat`, `WithinAttempts`, `SettledLeavesNothing`, `SettledOnceByOne` |
| `delivery_retries` | is a retry of a push delivery complete outside its race? | two push deliveries, a device, a dispatcher, an operator | `SettledLeavesNothing` |
| `delivery_settling` | is every delivery settled in the end? | a push and a plain delivery, a device, a dispatcher, a crash | `DeliveriesSettle` |
| `scheduling_tasks` | is a task queued once, and does it end once? | one check, two agents in turn, two tasks, a request of `runNow`, a handler, one operator request, one late claim, one fault | `OneOpenTask`, `OneOutcomePerOpening` |
| `scheduling_goes_on` | are checks that share a place, or an agent that is silent, executed for ever? | three checks, each left to the API or given to the agent, one place, two tasks, one fault; a pass may list all three | `EveryCheckReports` |
| `scheduling_answers` | and with an agent that answers, comes and goes? | one check, an agent, two tasks, a handler, a request of `runNow`, one operator request | `EveryCheckReports` |
| `heartbeats` | are misses real, noticed in the end, and incidents those of monitors that are down? | one monitor, one call of each kind, interval 1, grace 0, runtime 2, calls of up to one tick | `IncidentsFollowStatus`, `MissesAreReal`, `SilenceIsNoticed` |
| `telemetry_upload` | is no snapshot lost, evaluated twice, kept when telemetry is off, or left in the store for ever? | a store of one, batches of two, two snapshots of which the API refuses some, two requests, one fault, one toggle | `NothingLost`, `OldestDropped`, `NothingKeptWhenOff`, `NewestEvaluated`, `EvaluatedOnce`, `Uploaded` |
| `telemetry_alerts` | does a rule follow the values, in order, and confirmed? | rules of one and two values, two snapshots, two requests, one edit, one fault | `AlertFollowsValues`, `AlertsAreConfirmed`, `AlertsInOrder` |
| `maintenance` | is a window on while an occurrence runs, and are its occurrences announced, once? | days of three units, weeks of two days, months of 2, 1, 2, 2, 2 days, four windows' shapes, two processes, an edit, 11 units, one failed pass | `OnWhileRunning`, `NextIsFirst`, `AnnouncedOnce`, `NothingMissed` |

`TypeOK` is checked once for each module with variables.

Why the bounds are enough. One check, monitor, rule or window is enough where a lock
concerns one and no rule relates two. `scheduling_goes_on` has three because they compete:
with two direct checks and one of an agent between them, more checks than places wait next
to a task to be queued, which is the least for the starvation that `EveryCheckReports`
exempts (with the exemption dropped TLC finds it in this run's instance, and with two checks
it does not). All checks of the run are enabled and due in any order, and the agent executes
none, one or two of them; operators and an agent that answers are in
`scheduling_answers`, as both at once are too many states for liveness.
Two records, dispatchers, requests or processes are the least that race. For checks, four
times with thresholds of two leave room for going down, up and down again with a late result
in between; three incidents let a check have a second and a third outage. Two devices are
the least of which one can be settled and the other not, and two attempts the least of which
one is not the last (5 in the code). One crash loses one caller in any of its states; a
second would only lose another. Two tasks are the least that can be open at once. A runtime
longer than the interval lets a run outlast the deadline it replaces. A store of one and two
snapshots let the store be full while a batch is in the other thread's hands; `telemetry_alerts`
holds with three snapshots as well. The four shapes of `maintenance` are a single window,
a daily one that reaches into its next occurrence and is ended by `recurrence_until`, a
weekly one, and a monthly one on a day the second month lacks. Where bounds on data remain,
the proofs are for any number.

Deadlock is off where the system may really stop: where every check, delivery or monitor may
have been removed, or the bounds on time, requests and faults are spent.

Fairness, in each module what the code's own timers and promises give:

- `CheckIncidents` (`FairSpec`): a process' own periodic pass and each incident it listed. The
  pass runs every 30 seconds (incidents.service.ts:91) and treats every incident with
  `Promise.all`. Nothing is assumed of results, operators or maintenance. `SuppressionEnds`
  only asks about incidents that maintenance leaves for good. It holds while a pass can list
  every suppressed incident: the code lists the 50 oldest, released or not, so 50 older
  incidents under a long maintenance starve a later one; with `Batch = 1` and two checks TLC
  shows it;
- `NotificationDelivery`: each dispatcher's passes (`@Interval(5_000)`), each call's steps
  (statements end, requests time out) and time (leases and delays run out);
- `CheckScheduling`: the scheduler, executions, handlers and edits that have begun go on, and
  time passes. A task's age is under strong fairness, because it may only pass two minutes
  while no cutoff computed before is in use. Agents, operators and faults owe nothing: what an
  agent does not report is recorded as timed out. `EveryCheckReports` asks about a check that
  stays watched, so after the last request of an operator. A check of an agent then gets
  results however many others there are. One of the API gets them while waiting for a place
  with other checks of the API, because a pass takes them in the order of `next_check_at`, and
  next to checks of agents if there is a place for each, but not when it waits for a place
  next to checks of agents (`Uncontended`), nor with an entry left behind in `running`
  (`Stuck`): in both cases the code starves it (below);
- `Heartbeats`: time, calls that have begun, and passes of `sweep`. Strong fairness for a
  pass' misses, as a ping may take the last of them away while it runs;
- `Telemetry`: each of the two threads, and the API's handling of requests. Faults are
  bounded, as a host that crashes for ever uploads nothing.

A crash may come at any time in all of them.

## Proofs

`CheckStateProofs` has the lemmas about the threshold rule (what it returns, that its
count of failures moves by one and stays under the threshold, that an alert takes a
breach that completes the threshold). They hold for all positive thresholds, the one
assumption made (`ThresholdAssumption`: the DTOs require at least 1).

`CheckIncidentsProofs` proves for all sets of checks, incidents and processes:
types (`TypeCorrect`); the row lock (`RowLocked`: a transaction works on the current
row and no other one does), which no property alone implies and all others need; the
refinement of `CheckEvaluation` (`OneAtATime`), from the row lock, because a commit
applies the rule to the current row; and from `HistoryInvariant` (counted failures are
real consecutive breaches; a check that alerts owes a recovery) the properties
`AlertNeedsConsecutiveBreaches` and `NoUnpromptedRecovery`.

`CheckIncidentsOutageProofs` proves `IncidentInvariant`, inductive with types and the
row lock: an incident's opening is announced exactly when it exists and is not
suppressed, closed by the check and open again means reopened by an operator, and what
a transaction has found without a lock stays true enough (`MatchHolds`): if it found
none, only reopened incidents can have appeared, since another `record` of the check
would need its lock. `OneOpenIncident`, `OutageHasIncident`, `ResolutionFollowsOpening`
and `OpenedOnce` follow.

`NotificationDeliveryProofs` proves, for any sets of deliveries, devices, dispatchers and
operators, any limit of attempts and any number of crashes, every safety property the
`delivery_` runs check. The assumption (`DeliveryAssumption`) is that the limit is
positive and that the sets are what their names say. The invariant `IInv` is types and
eight parts, each with a lemma that every step keeps it:

- `Leases`: a call past its claim has the delivery, which is pending and freshly
  claimed, or removed; two such calls are one. It is what all the rest stands on, since the
  last UPDATE asks nothing: it may only come from a call whose lease has not run out;
- `InHand`: targets are in hand only while a call is sending;
- `HeardOf`: what is noted, or about to be noted, as delivered was accepted;
- `FanOuts`, `NotInHandYet`: one caller fans a delivery out, and until then it has no
  parts and no target of it is in hand;
- `AttemptsLeft`: what is pending, or in hand, has attempts left;
- `Repeats`: a target that is still to be sent to has taken the message only when its
  answer was lost. This is the strengthening `NoNeedlessRepeat` needs;
- `Summaries`: a settled delivery, and a summary that is about to settle one, leave no
  part pending and none to be fanned out.

Each action's effect on rows and calls is a lemma of its own (`ClaimEffect`, ...), which
the proofs cite in the place of the action. `ImplementsQueue` maps a delivery that is
pending under a fresh claim to `taken` and shows that each step is a step of
`DeliveryQueue` or stutters.

`CheckSchedulingProofs` proves, for any number of checks, agents, tasks, requests, handlers
and faults, `OneOutcomePerOpening` and `OneOpenTask`. `SchedulingInv` is the shapes of rows
and calls and two groups. `OutcomeInv`: an open task has no outcome (`OpenUnsettled`), one
report of an agent that is not revoked is past its lock at a time (`SoleReporter`), nothing
is accepted before the lock (`NothingAccepted`), and what a report has accepted is reported
by no other, nor timed out unless `overtaken` says so (`AcceptedUnreported`).
`QueueInv`: whoever is about to insert a task finds none open unless another caller asked in
between (`InsertsFit`). The second is what `OneOpenTask` lacks: the question and the INSERT
are statements apart. With it, and with finitely many checks (`SchedulingAssumption`),
types are proved (`TypeCorrect`), which here say more than their name. The line of due checks is the rows whose `next_check_at` has come, each once:
lemmas about lines (`ShorterLine`, `JoinedLines`, `InsertedLine`, `LongerLine`) say what
leaving, joining and being put somewhere into one does, and every statement that writes
`next_check_at` is one of these. That an agent waits for one handler, the one at work on its
request, needs that no two handlers are awaited by one agent (`AwaitedOnce`), since an agent
that gives up leaves its handler at work; and what is queued, held or edited has to be about
a check (`ChecksKnown`).

`HeartbeatsProofs` proves types (`TypeCorrect`), `IncidentsFollowStatus` and
`MissesAreReal` for any interval, grace and runtime. `IncidentInv` adds that calls are about
monitors that exist (`Existing`) and that what an edit is to write agrees with the row unless
it is raced (`EditsFit`); `PromiseInv` that the row's deadline is never
before the one promised, outside the two races, for the row, for what a ping is about to write
and for what an edit is about to write (`PromisesVoid`, `PromisesKept`, `EditsKeepPromise`).
The sweep's second question, under the lock, does the rest.

`TelemetryProofs` proves every safety property of the two telemetry runs for any bounds, from
`TelemetryAssumption` (positive sizes, valid conditions). `Typed` is types, with two facts they
need: the cycle has rounds left while it loads, and a batch is of snapshots that exist.
`CycleInv` follows a batch from the store to the API and back: what is in hand, on its way
or acknowledged is still in the store, or stored or refused (`StoredThere`, `BatchCarried`,
`AcknowledgedThere`). `OffInv` has the hand-over between the threads: once the collector
has confirmed that it rests, nothing of it goes on (`CollectorRests`, `NothingGoesOn`).
`EvaluationInv` says that what a request is to evaluate is the newest of what it inserted and
has not been evaluated (`DueOnce`, `NewestDue`). `AlertInv` relates the rule's counters to the values it has seen: a
counter is a number of last values that count (`CountersCount`), and no more do
(`CountersComplete`); `ToldIt` relates its state to the last notification.

`MaintenanceProofs` proves every safety property of `maintenance` for any windows, shapes,
processes, lengths of days and months, and edits. One assumption is a bound
(`MaintenanceAssumption`): the part of the calendar that is given goes on for two months
after the last instant and every monthly window's start (`Reaches`), as the code's calendar
does for ever. The argument has three layers:

- the calendar: the starts of the months are a recursive function, whose table is shown to
  exist (`TableExists`), so months follow each other (`MonthsFollow`), every instant is
  in one (`MonthFound`), and the same day of the month, or its last one, is within it
  (`WithinMonth`);
- occurrences: they come in order, and at least a gap apart (`InOrder`, `Spaced`), and the
  index is near the instant (`Index`). So what runs is a candidate, nothing found before it is
  still to come, and the first to come is a candidate: `OnWhileRunning` and `NextIsFirst`
  (`OnExactly`, `NextComing`). If no occurrence reaches the next, what runs, and what ended
  within the grace, is what a pass finds (`FoundInTime`, `DueIsTaken`);
- announcements: what was announced has its event still, unless its window is gone for good
  (`EventsKept`), which is why the conflict with the event's key is enough for
  `AnnouncedOnce`. For `NothingMissed` the invariant is `Attended`, that what was due at an
  instant whose pass was started has been told, is in the hands of a pass that is still at
  work, or had that pass fail, with `Prompt`, that no pass is at work for longer than
  `MaxLag` and an event stands for a notice.

Every part of the invariants was model-checked first. Only model-checked are the liveness
properties (`SuppressionEnds`, `DeliveriesSettle`, `EveryCheckReports`, `SilenceIsNoticed`,
`Uploaded`), which are out of the prover's reach; every other property of the runs is a
theorem.

## What the models showed

The properties hold; where one names an exception, the exception is a race or a limit of the
code that TLC found when it was left out. No property says anything of what happens within
one, and a hazard in `PROJECT.json` that is only such an exception names no property, but
the reason:

- reconciliation sets a check that is down to pending and leaves its incident open, so that
  its next outage is not announced (`common/agent-relationships.ts:34`);
- `ChecksService.update` writes back a status it read earlier: a check is then shown down
  without an incident, or up with one (`checks/checks.service.ts:131`);
- `resolveForCheck` reads whether notifications are suppressed before the release commits, and
  keeps a resolution quiet whose opening was announced (`incidents/incidents.service.ts:352`);
- `addUpdate` reads a status before it writes and may reopen an incident resolved meanwhile
  (`incidents/incidents.service.ts:236`);
- sending a mail may outlast the lease of two minutes, and the message is then sent twice
  (`notifications/notifications.service.ts:585`);
- `retry` inserts a delivery and fans it out in two statements: a dispatcher in between fails it
  with "No active push endpoints" (`notifications/notifications.service.ts:303`);
- a failing `scheduleNext` leaves the check in `running` for ever; a set that is full of such
  checks starves all others (`checks/check-orchestrator.service.ts:91`);
- with more direct checks than places, a check of an agent listed between two of them starves
  the first: it is skipped as the set is full, a place becomes free while the task for the agent
  is queued, and the second takes it, in each pass again. Requests of `runNow` can do the
  same (`checks/check-orchestrator.service.ts:51`);
- a claim by id reopens tasks that were settled after they were read, and a task of a check
  that was switched to direct execution still times out; reports of a revoked agent wait for no
  row and may both record a task reopened so (`agents/agents.service.ts:394`);
- an edit of a heartbeat monitor writes back columns it read before a ping or a miss, so that
  the next miss is false, or an incident stays open on a monitor that is up; two pings that
  commit in reverse order cause a false alarm (`heartbeats/heartbeats.service.ts:147`);
- `validate` of a rule accepts `equals` with a recovery threshold equal to the threshold,
  although its message excludes what does not separate the two
  (`resource-alerts/resource-alerts.service.ts:263`): such a rule changes with each matching
  value, and the properties ask that the condition `Settles`;
- a snapshot whose clock was more than ten minutes ahead is stored with the time of receipt
  and is another one when its batch is repeated: the API refuses the batch, and the agent
  discards its good snapshots with it. One bad snapshot discards its batch in the same way. A
  crash between storing and evaluating loses the evaluation, and of a batch only the newest
  snapshot is evaluated. An observation ahead by less blocks the rule until time has passed it;
- a window longer than two periods, which `validate` allows, is never announced as completed,
  and not found near `recurrence_until`; a window longer than one period has the next start
  announced late, with the end of the one before. An edit that extends an occurrence already
  announced as completed announces no second completion, and a pass delayed past the end may
  announce the start after the completion.

## Not modelled

- Sessions, API tokens and the OAuth server: access control is left aside.
- Incidents entered by hand, mails to status subscribers (sent without a claim, after the
  delivery's own), routing by policies and the occurrence key that deduplicates
  enqueued notifications: a delivery is one occurrence here.
- Check runners, push providers, collectors: protocol I/O, of which the models have every
  outcome.
- `run_once`, updates and the status file of the agent; mobile agents, whose tasks follow the
  same queue.
- Status pages, objectives, analytics, dashboards, retention, teams, administration, MCP,
  technologies, resources and images, the client and the desktop application: rows of single
  tables, queries and user interface, most of the repository's lines, with no protocol
  between actors.

`components` in `PROJECT.json` has each part and its reason.

## Next

Subscriber mails and policies in `NotificationDelivery`; objectives and resource health as
operators held to reference definitions.
