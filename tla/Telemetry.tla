----------------------------- MODULE Telemetry -----------------------------
(***************************************************************************)
(* Host telemetry from one desktop agent to the alert rules of its         *)
(* resource.  The agent (apps/agent-desktop/src/runtime.rs) collects       *)
(* snapshots into files on one thread (collect_locally, SnapshotStore) and *)
(* uploads them in batches on another (cycle, transfer_trigger,            *)
(* upload_batch).  The API (AgentsService.heartbeat) stores a batch in one *)
(* transaction and then, in another one, evaluates the resource's rules    *)
(* against the newest snapshot it stored (ResourceAlertsService.evaluate). *)
(*                                                                         *)
(* A snapshot is named by the order it was collected in, which is the      *)
(* order of its file.  A request the agent no longer waits for goes on in  *)
(* the API.  Nothing else reaches the host_snapshots of the agent.         *)
(***************************************************************************)
EXTENDS ResourceAlert, Sequences, FiniteSets, FiniteSetsExt

CONSTANTS
    Request,        \* requests to AgentsService.heartbeat that exist at a time
    Reading,        \* what a snapshot can carry: [value, skew, bad]
    Conditions,     \* conditions administrators give the rule
    Retained,       \* MAX_RETAINED_SNAPSHOTS
    BatchSize,      \* MAX_BATCH_SNAPSHOTS
    MaxBatches,     \* MAX_UPLOAD_BATCHES_PER_CYCLE
    Tolerance,      \* how far ahead of the API a clock may be: ten minutes
    MaxSnapshots,   \* bound: snapshots collected
    MaxTime,        \* bound: the clock of the API runs from 1 to MaxTime
    MaxFaults,      \* bound: requests lost, calls given up, crashes
    MaxToggles,     \* bound: times the host check that asks for telemetry is switched
    MaxEdits        \* bound: edits of the rule

ASSUME TelemetryAssumption ==
    /\ {Retained, BatchSize, MaxBatches} \subseteq Nat \ {0}
    /\ {Tolerance, MaxSnapshots, MaxTime, MaxFaults, MaxToggles, MaxEdits} \subseteq Nat
    /\ Reading \subseteq [value: Int \cup {None}, skew: Nat, bad: BOOLEAN]
    /\ Conditions # {} /\ \A condition \in Conditions : Valid(condition)

VARIABLES
    now,         \* the clock of the API
    snapshots,   \* every snapshot the host has collected: Seq of [value, at, bad]
    store,       \* the agent's committed files, as a set of positions in snapshots
    collector,   \* the collector thread: [enabled, pc]
    uploader,    \* the main thread's cycle: [pc, tasks, collect, batch, round, request]
    requests,    \* Request -> a heartbeat on its way or in the API
    wanted,      \* the API asks the agent for host telemetry
    stored,      \* position -> observed_at of its row in host_snapshots, 0 if none
    rule,        \* the row of resource_alert_rules
    budget,      \* bound: [faults, toggles, edits] spent
    (* History: read by the properties only. *)
    pruned,      \* snapshots the full store dropped
    cleared,     \* snapshots dropped because telemetry was switched off
    refused,     \* snapshots dropped because the API refused their batch
    off,         \* the agent has obeyed a poll that wants no telemetry
    evaluated,   \* snapshots the API took to the rules of the resource
    skipped,     \* snapshots it was to take there when it crashed
    values,      \* values evaluated since the rule was last edited
    told         \* the latest notification of the rule: [event, at]

agent   == <<store, collector, uploader>>
server  == <<requests, wanted, stored, rule>>
history == <<pruned, cleared, refused, off, evaluated, skipped, values, told>>
vars    == <<now, snapshots, agent, server, budget, history>>

-----------------------------------------------------------------------------
(* Types.                                                                  *)

Position == 1 .. MaxSnapshots
Snapshot == [value: Int \cup {None}, at: Nat, bad: BOOLEAN]

Collector == [enabled: BOOLEAN, pc: {"waiting", "collecting", "pruning"}]

\* tasks: the poll brought check tasks.  round: batches loaded in this cycle.
Uploader ==
    [pc: {"idle", "configuring", "clearing", "loading", "sending", "acknowledging", "refused"},
     tasks: BOOLEAN, collect: BOOLEAN, batch: SUBSET Position, round: 0 .. MaxBatches,
     request: Request \cup {None}]

\* newest: the last snapshot the request inserted, 0 if it inserted none.
Unused == [pc |-> "unused"]
Sent   == [pc: {"sent", "refused", "stored", "answered"}, batch: SUBSET Position,
           newest: {0} \cup Position]

TypeOK ==
    /\ now \in 1 .. (MaxTime + 1)
    /\ snapshots \in Seq(Snapshot) /\ Len(snapshots) <= MaxSnapshots
    /\ store \subseteq 1 .. Len(snapshots)
    /\ collector \in Collector
    /\ uploader \in Uploader
    /\ requests \in [Request -> {Unused} \cup Sent]
    /\ wanted \in BOOLEAN
    /\ stored \in [Position -> Nat]
    /\ rule \in Rule
    /\ rule.active => rule.enabled /\ rule.matches = 0
    /\ rule.matches < rule.condition.required /\ rule.recoveries < rule.condition.required
    /\ budget \in [faults: 0 .. MaxFaults, toggles: 0 .. MaxToggles, edits: 0 .. MaxEdits]
    /\ {pruned, cleared, refused, evaluated, skipped} \subseteq SUBSET (1 .. Len(snapshots))
    /\ off \in BOOLEAN
    /\ values \in Seq(Int)
    /\ told \in [event: {"none", "triggered", "recovered"}, at: Nat]

Silent  == [event |-> "none", at |-> 0]
Resting == [pc |-> "idle", tasks |-> FALSE, collect |-> FALSE, batch |-> {}, round |-> 0,
            request |-> None]

Init ==
    /\ now = 1
    /\ snapshots = <<>>
    /\ store = {}
    /\ collector = [enabled |-> FALSE, pc |-> "waiting"]
    /\ uploader = Resting
    /\ requests = [r \in Request |-> Unused]
    /\ wanted = TRUE
    /\ stored = [p \in Position |-> 0]
    /\ \E condition \in Conditions :
           rule \in {Absent(condition), Created(condition, TRUE)}
    /\ budget = [faults |-> 0, toggles |-> 0, edits |-> 0]
    /\ pruned = {} /\ cleared = {} /\ refused = {} /\ evaluated = {} /\ skipped = {}
    /\ off = FALSE
    /\ values = <<>>
    /\ told = Silent

-----------------------------------------------------------------------------
(* The collector thread.                                                   *)

\* The state the history keeps of the rule is disturbed by the rule's own steps only.
ruleVars == <<rule, values, told>>

\* collect and the staging and renaming of its file: the snapshot is last in the store.
Added(reading) ==
    /\ Len(snapshots) < MaxSnapshots
    /\ snapshots' = Append(snapshots, [value |-> reading.value, at |-> now + reading.skew,
                                       bad |-> reading.bad])

Newest == Len(snapshots) + 1

\* Mutant: the files dropped are the newest.
ExcessNewest(files) ==
    {p \in files : Cardinality({q \in files : q <= p}) > Retained}

\* The oldest files beyond the retained ones.
Excess(files) ==
    {p \in files : Cardinality({q \in files : q >= p}) > Retained}

\* configure has sent the thread a command, which it takes before it collects again.
Commanded == uploader.pc = "configuring" /\ collector.enabled # uploader.collect

\* The interval has passed: the thread looks at the host, which takes a while.
Collect ==
    /\ collector.enabled /\ collector.pc = "waiting" /\ ~Commanded
    /\ Len(snapshots) < MaxSnapshots
    /\ collector' = [collector EXCEPT !.pc = "collecting"]
    /\ UNCHANGED <<now, snapshots, store, uploader, server, budget, history>>

\* append, up to the rename that commits the file.
Store ==
    /\ collector.pc = "collecting"
    /\ \E reading \in Reading : Added(reading)
    /\ store' = store \cup {Newest}
    /\ collector' = [collector EXCEPT !.pc = "pruning"]
    /\ UNCHANGED <<now, uploader, server, budget, history>>

\* The collection or the file system failed: the error is kept for the status.
CollectFails ==
    /\ collector.pc = "collecting"
    /\ collector' = [collector EXCEPT !.pc = "waiting"]
    /\ UNCHANGED <<now, snapshots, store, uploader, server, budget, history>>

Prune ==
    /\ collector.pc = "pruning"
    /\ store' = store \ Excess(store)
    /\ pruned' = pruned \cup Excess(store)
    /\ collector' = [collector EXCEPT !.pc = "waiting"]
    /\ UNCHANGED <<now, snapshots, uploader, server, budget, cleared, refused, off,
                   evaluated, skipped, values, told>>

-----------------------------------------------------------------------------
(* The main thread: one cycle every TRIGGER_POLL_INTERVAL.                 *)

At(pc) == [uploader EXCEPT !.pc = pc, !.tasks = FALSE, !.collect = FALSE]

\* poll tells whether there are check tasks and whether telemetry is wanted.
Poll(tasks) ==
    /\ uploader.pc = "idle"
    /\ uploader' = [Resting EXCEPT !.pc = "configuring", !.tasks = tasks, !.collect = wanted]
    /\ UNCHANGED <<now, snapshots, store, collector, server, budget, history>>

\* Mutant: configure does not wait for the thread to apply the command.
ConfirmedSent == TRUE

\* configure: nothing to change, or the thread has applied the change between two
\* snapshots.
Confirmed == Commanded => collector.pc = "waiting"

\* Configure the collection; without telemetry the store is cleared next, with nothing
\* to do and nothing to upload the cycle is over.
Configure ==
    /\ uploader.pc = "configuring"
    /\ Confirmed
    /\ collector' = [collector EXCEPT !.enabled = uploader.collect]
    /\ off' = (off /\ ~uploader.collect)
    /\ uploader' = IF ~uploader.collect THEN At("clearing")
                   ELSE IF ~uploader.tasks /\ store = {} THEN Resting
                   ELSE At("loading")
    /\ UNCHANGED <<now, snapshots, store, server, budget, pruned, cleared, refused,
                   evaluated, skipped, values, told>>

\* clear; the results of check tasks are sent without a snapshot.
Clear ==
    /\ uploader.pc = "clearing"
    /\ store' = {}
    /\ cleared' = cleared \cup store
    /\ off' = TRUE
    /\ uploader' = Resting
    /\ UNCHANGED <<now, snapshots, collector, server, budget, pruned, refused,
                   evaluated, skipped, values, told>>

\* transfer_trigger: tasks need a snapshot, so an empty store gets one first.  The check for
\* pending files and the append are one step, although the code collects in between: a file
\* that the other thread adds meanwhile is only one more in the store.
CollectForTasks ==
    /\ uploader.pc = "loading" /\ uploader.round = 0 /\ store = {}
    /\ \E reading \in Reading : Added(reading)
    /\ store' = {Newest}
    /\ UNCHANGED <<now, collector, uploader, server, budget, history>>

\* The same, when it fails, ends the cycle.
CollectForTasksFails ==
    /\ uploader.pc = "loading" /\ uploader.round = 0 /\ store = {}
    /\ uploader' = Resting
    /\ UNCHANGED <<now, snapshots, store, collector, server, budget, history>>

\* The oldest snapshots of the store, as many as a batch takes.
Batch == {p \in store : Cardinality({q \in store : q <= p}) <= BatchSize}

\* upload_batch up to the request.
Load(r) ==
    /\ uploader.pc = "loading" /\ (uploader.round > 0 \/ store # {})
    /\ requests[r] = Unused
    /\ requests' = [requests EXCEPT ![r] = [pc |-> "sent", batch |-> Batch, newest |-> 0]]
    /\ uploader' = [uploader EXCEPT !.pc = "sending", !.batch = Batch, !.round = @ + 1,
                                    !.request = r]
    /\ UNCHANGED <<now, snapshots, store, collector, wanted, stored, rule, budget, history>>

\* Mutant: everything in the store is taken for uploaded.
DroppedAll == store

\* acknowledge removes the files of the batch, one after the other.
Dropped == {Min(uploader.batch)}

\* Mutant: a batch the API refuses stays in the store.
RefusedFilesKept == {}

\* The files of a refused batch are removed as well: they would block the others.
RefusedFiles == Dropped

\* The batch is removed from the store; with its last file, the next one is loaded if
\* there is one and the cycle has not uploaded enough.
Acknowledge ==
    /\ uploader.pc = "acknowledging"
    /\ store' = store \ Dropped
    /\ LET rest == uploader.batch \ Dropped
       IN  uploader' = IF rest # {} THEN [uploader EXCEPT !.batch = rest]
                       ELSE IF store' = {} \/ uploader.round = MaxBatches THEN Resting
                       ELSE [uploader EXCEPT !.pc = "loading", !.batch = {}, !.request = None]
    /\ UNCHANGED <<now, snapshots, collector, server, budget, history>>

\* The same for a refused batch, which ends the cycle.
Discard ==
    /\ uploader.pc = "refused"
    /\ store' = store \ RefusedFiles
    /\ refused' = refused \cup (store \cap RefusedFiles)
    /\ LET rest == uploader.batch \ Dropped
       IN  uploader' = IF rest # {} THEN [uploader EXCEPT !.batch = rest] ELSE Resting
    /\ UNCHANGED <<now, snapshots, collector, server, budget, pruned, cleared, off,
                   evaluated, skipped, values, told>>

-----------------------------------------------------------------------------
(* AgentsService.heartbeat.                                                *)

\* safeCollectedAt: an observation time too far ahead is replaced by the API's own.
ObservedAt(p) == IF snapshots[p].at > now + Tolerance THEN now ELSE snapshots[p].at

\* normalizeSnapshot refuses figures that contradict each other; an identifier that is
\* in use must name the very same snapshot, observation time included.
Refuses(batch) ==
    \E p \in batch : snapshots[p].bad \/ (stored[p] # 0 /\ stored[p] # ObservedAt(p))

\* Mutant: a snapshot that was stored before is evaluated again.
LatestOf(batch) == Max({0} \cup batch)

\* Mutant: the first snapshot of a batch that is inserted.
FirstInserted(batch) ==
    LET new == {p \in batch : stored[p] = 0} IN IF new = {} THEN 0 ELSE Min(new)

\* The last snapshot of a batch that is inserted.
LatestInserted(batch) == Max({0} \cup {p \in batch : stored[p] = 0})

\* The transaction: the whole batch is stored, but for what is there already, or nothing.
StoreBatch(r) ==
    /\ requests[r].pc = "sent"
    /\ LET batch == requests[r].batch IN
       IF Refuses(batch)
       THEN /\ requests' = [requests EXCEPT ![r].pc = "refused"]
            /\ UNCHANGED stored
       ELSE LET newest == LatestInserted(batch) IN
            /\ stored' = [p \in Position |->
                             IF p \in batch /\ stored[p] = 0 THEN ObservedAt(p) ELSE stored[p]]
            /\ requests' = [requests EXCEPT
                               ![r].pc = IF newest = 0 THEN "answered" ELSE "stored",
                               ![r].newest = newest]
    /\ UNCHANGED <<now, snapshots, agent, wanted, rule, budget, history>>

\* The notification evaluate enqueues when a rule goes from one row to the next.
Notified(before, after) ==
    IF before.active = after.active THEN told
    ELSE [event |-> IF after.active THEN "triggered" ELSE "recovered", at |-> after.last]

\* evaluate, which locks the rule: in a transaction of its own, after the one above.
EvaluateAlerts(r) ==
    /\ requests[r].pc = "stored"
    /\ LET p == requests[r].newest
           value == snapshots[p].value
       IN  /\ rule' = Evaluated(rule, value, stored[p])
           /\ told' = Notified(rule, rule')
           /\ values' = IF Evaluates(rule, value, stored[p]) THEN Append(values, value)
                        ELSE values
           /\ evaluated' = evaluated \cup {p}
    /\ requests' = [requests EXCEPT ![r].pc = "answered"]
    /\ UNCHANGED <<now, snapshots, agent, wanted, stored, budget, pruned, cleared, refused,
                   off, skipped>>

Awaited(r) == uploader.pc = "sending" /\ uploader.request = r

\* The response; nobody reads it when the agent has given up or crashed.
Answer(r) ==
    /\ requests[r].pc \in {"refused", "answered"}
    /\ requests' = [requests EXCEPT ![r] = Unused]
    /\ uploader' = IF ~Awaited(r) THEN uploader
                   ELSE IF requests[r].pc = "refused" THEN At("refused")
                   ELSE At("acknowledging")
    /\ UNCHANGED <<now, snapshots, store, collector, wanted, stored, rule, budget, history>>

\* The agent's host check is created, enabled, disabled or removed.
SetWanted ==
    /\ budget.toggles < MaxToggles
    /\ wanted' = ~wanted
    /\ budget' = [budget EXCEPT !.toggles = @ + 1]
    /\ UNCHANGED <<now, snapshots, agent, requests, stored, rule, history>>

\* ResourceAlertsService.create, update and remove.  A new rule and a changed one start
\* counting afresh, and a rule that is switched off takes its alert with it unannounced.
Edits(new) ==
    /\ budget.edits < MaxEdits
    /\ budget' = [budget EXCEPT !.edits = @ + 1]
    /\ rule' = new
    /\ values' = <<>>
    /\ told' = IF rule.exists /\ ~new.exists THEN Silent
               ELSE IF rule.active /\ ~new.active THEN [told EXCEPT !.event = "none"]
               ELSE told
    /\ UNCHANGED <<now, snapshots, agent, requests, wanted, stored, pruned, cleared, refused,
                   off, evaluated, skipped>>

CreateRule(condition, enabled) == ~rule.exists /\ Edits(Created(condition, enabled))
UpdateRule(condition, enabled) == rule.exists /\ Edits(Edited(rule, condition, enabled))
RemoveRule == rule.exists /\ Edits(Absent(rule.condition))

-----------------------------------------------------------------------------
(* Time and faults.                                                        *)

Tick == /\ now < MaxTime
        /\ now' = now + 1
        /\ UNCHANGED <<snapshots, agent, server, budget, history>>

Fault == /\ budget.faults < MaxFaults
         /\ budget' = [budget EXCEPT !.faults = @ + 1]

\* A request or its response is lost, or the API fails while it handles it.
Lose(r) ==
    /\ Fault
    /\ requests[r] # Unused
    /\ requests' = [requests EXCEPT ![r] = Unused]
    /\ skipped' = IF requests[r].pc = "stored" THEN skipped \cup {requests[r].newest}
                  ELSE skipped
    /\ UNCHANGED <<now, snapshots, agent, wanted, stored, rule, pruned, cleared, refused,
                   off, evaluated, values, told>>

\* The agent hears that its request is lost: the batch stays in the store.
RequestFails ==
    /\ uploader.pc = "sending" /\ requests[uploader.request] = Unused
    /\ uploader' = Resting
    /\ UNCHANGED <<now, snapshots, store, collector, server, budget, history>>

\* The agent gives up after twenty seconds, though the API is at it.
TimeOut ==
    /\ Fault
    /\ uploader.pc = "sending" /\ requests[uploader.request] # Unused
    /\ uploader' = Resting
    /\ UNCHANGED <<now, snapshots, store, collector, server, history>>

\* The agent stops and starts again, with what it had committed to its store.
Restart ==
    /\ Fault
    /\ uploader' = Resting
    /\ collector' = [enabled |-> FALSE, pc |-> "waiting"]
    /\ UNCHANGED <<now, snapshots, store, server, history>>

-----------------------------------------------------------------------------
Collection == Collect \/ Store \/ CollectFails \/ Prune

Cycle == \/ \E tasks \in BOOLEAN : Poll(tasks)
         \/ Configure \/ Clear
         \/ CollectForTasks \/ CollectForTasksFails
         \/ \E r \in Request : Load(r)
         \/ Acknowledge \/ Discard \/ RequestFails

Heartbeat(r) == StoreBatch(r) \/ EvaluateAlerts(r) \/ Answer(r)

Administration ==
    \/ SetWanted
    \/ \E condition \in Conditions, enabled \in BOOLEAN :
           CreateRule(condition, enabled) \/ UpdateRule(condition, enabled)
    \/ RemoveRule

Faults == (\E r \in Request : Lose(r)) \/ TimeOut \/ Restart

Next ==
    \/ Collection
    \/ Cycle
    \/ \E r \in Request : Heartbeat(r)
    \/ Administration
    \/ Tick
    \/ Faults

Spec == Init /\ [][Next]_vars

\* Both threads of the agent and the API go on; nobody has to edit, and a host may stop
\* being looked at.
Fairness == /\ WF_vars(Store \/ CollectFails \/ Prune)
            /\ WF_vars(Cycle)
            /\ WF_vars(\E r \in Request : Heartbeat(r))

FairSpec == Spec /\ Fairness

-----------------------------------------------------------------------------
(* Properties.                                                             *)

\* No snapshot gets lost between the store and the API: whatever was collected is still
\* in the store or was stored by the API, unless the full store dropped it, telemetry
\* was switched off or the API refused it.  upload_batch removes the files it has sent,
\* not those the other thread has added since, and only once the API has committed them.
NothingLost ==
    \A p \in 1 .. Len(snapshots) :
        p \in store \cup pruned \cup cleared \cup refused \/ stored[p] # 0

\* A full store drops its oldest snapshots: when one is dropped, as many newer ones as
\* the store retains have been collected (SnapshotStore.prune, between the batches the
\* other thread reads and removes).
OldestDropped == \A p \in pruned : p + Retained <= Len(snapshots)

\* Once the agent has obeyed a poll that wants no telemetry, no snapshot is left or
\* written until a poll wants it again, restarts included: cycle clears the store only
\* after the collector thread has confirmed that it is off.
NothingKeptWhenOff == off => store = {}

\* However batches are repeated, delayed and cut, the API evaluates the newest snapshot
\* it has stored, unless it failed before it got there.
NewestEvaluated ==
    LET held == {p \in Position : stored[p] # 0}
    IN  (held # {} /\ \A r \in Request : requests[r].pc # "stored")
        => Max(held) \in evaluated \cup skipped

\* No snapshot is evaluated twice, though it is uploaded twice: heartbeat evaluates only
\* what it inserted.
EvaluatedOnce ==
    [][\A r \in Request : EvaluateAlerts(r) => requests[r].newest \notin evaluated]_vars

\* The last values the rule has seen since it was edited, as many as it requires.
Latest == (Len(values) - rule.condition.required + 1) .. Len(values)

AllMatch == /\ Len(values) >= rule.condition.required
            /\ \A i \in Latest : Matches(rule.condition, values[i])

AllRecovered == /\ Len(values) >= rule.condition.required
                /\ \A i \in Latest : Recovered(rule.condition, values[i])

\* An enabled rule is active when its last values all match and inactive when they have
\* all recovered, as many in a row as it requires (evaluate): an edit in between starts
\* the count afresh, and a value in between ends it.
AlertFollowsValues ==
    (rule.enabled /\ Settles(rule.condition)) =>
        /\ AllMatch => rule.active
        /\ AllRecovered => ~rule.active

\* An alert is neither triggered nor recovered by fewer values than the rule requires.
AlertsAreConfirmed ==
    [][told'.event # told.event =>
           /\ told'.event = "triggered" => AllMatch'
           /\ told'.event = "recovered" => AllRecovered']_vars

\* The notifications a rule enqueues take turns, each of a later observation than the one
\* before, whatever the order in which batches are evaluated: no recovery is enqueued before,
\* or without, the alert it ends.  Of what a channel hears nothing is said: events are routed
\* by policies, and each delivery is dispatched and retried on its own.
AlertsInOrder ==
    [][(told' # told /\ told'.event # "none")
       => told'.event # told.event /\ told'.at > told.at
          /\ (told'.event = "recovered" => told.event = "triggered")]_vars

\* Every snapshot of the store is dealt with: the head of the queue never blocks it, be
\* it refused by the API or sent before.
Uploaded == \A p \in Position : p \in store ~> p \notin store

=============================================================================
