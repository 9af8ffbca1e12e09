--------------------------- MODULE CheckScheduling ---------------------------
(***************************************************************************)
(* When checks run: CheckOrchestratorService.tick and runNow, which probe  *)
(* a target from the API or queue a task for the agent that executes the   *)
(* check, and AgentsService.poll and heartbeat, by which the agent fetches *)
(* its tasks and reports their results.                                    *)
(*                                                                         *)
(* The agents are those of one resource.  The scheduler, manual requests   *)
(* and the handlers of agent requests work on agent_tasks statement by     *)
(* statement; only heartbeat is a transaction, which locks the agent's row *)
(* first.  An agent gives a request up after 20 seconds, its handler does  *)
(* not.  ResultsService.record is one step here: CheckIncidents is about   *)
(* what it does.                                                           *)
(***************************************************************************)
EXTENDS Integers, FiniteSets, Sequences, SequencesExt

CONSTANTS
    Check,       \* checks of a type that may run directly or through an agent
    Agent,       \* desktop agents the resource has in the course of time
    Task,        \* identifiers of agent_tasks
    Request,     \* concurrent requests of runNow
    Call,        \* concurrent handlers of agent requests
    Scheduler,   \* the caller of queueAgentTask that tick is
    NoAgent,     \* agent_id IS NULL: the check is executed directly
    NoCheck,     \* no row in hand
    Capability,  \* values of "the agent supports the checks' type" it may report
    MaxListed,   \* due checks a pass lists (50 in the code)
    MaxRunning,  \* checks executed directly at once (8 in the code)
    MaxPending,  \* bound: results of direct checks being recorded at once
    MaxChanges,  \* bound: requests of operators
    MaxLate,     \* bound: claims of tasks that were settled since they were read
    MaxFaults    \* bound: restarts of the API and errors of its database

ASSUME SchedulingAssumption ==
    /\ IsFiniteSet(Check)
    /\ NoAgent \notin Agent /\ NoCheck \notin Check /\ Scheduler \notin Request
    /\ Capability \subseteq BOOLEAN
    /\ MaxListed \in Nat \ {0} /\ MaxRunning \in Nat \ {0} /\ MaxPending \in Nat \ {0}
    /\ MaxChanges \in Nat /\ MaxLate \in Nat /\ MaxFaults \in Nat

Queuer == Request \cup {Scheduler}

VARIABLES
    checks,     \* Check -> route, whether enabled, and next_check_at
    agents,     \* Agent -> row of agents
    tasks,      \* Task -> row of agent_tasks
    line,       \* the checks that are due, in the order of next_check_at
    tick,       \* the pass of the scheduler
    queue,      \* Queuer -> call of queueAgentTask
    running,    \* the checks in the orchestrator's running set
    probes,     \* Check -> where executeDirect is with it
    recording,  \* Check -> results on their way from executeDirect to record
    calls,      \* Call -> handler of a poll or a heartbeat
    clients,    \* Agent -> the agent's process
    edit,       \* ChecksService.update between its read and its UPDATE
    changes,    \* how many requests operators made
    late,       \* how often a settled task was claimed
    faults,     \* how many faults there were
    (* History: read by the properties only. *)
    reports,    \* Task -> results the agent's reports recorded since it was last opened
    timeouts,   \* Task -> how often it was timed out since then
    overtaken,  \* tasks timed out while a report that read them as open was handled
    doubled     \* checks of which two callers queued tasks at once, or a settled one was claimed

rows    == <<checks, agents, tasks, line>>
direct  == <<running, probes, recording>>
bounds  == <<changes, late, faults>>
history == <<reports, timeouts, overtaken, doubled>>
vars    == <<rows, tick, queue, direct, calls, clients, edit, bounds, history>>

-----------------------------------------------------------------------------
(* Rows. *)

\* next: next_check_at is NULL, ahead, or has come.
CheckRow == [agent: Agent \cup {NoAgent}, enabled: BOOLEAN, next: {"never", "later", "due"}]

\* An agent that is not yet enrolled has no row.
AgentRow == [status: {"absent", "active", "revoked"}, capable: BOOLEAN]

\* old: issued more than two minutes ago.  "absent": no such row (yet, or any more).
TaskRow == [status: {"absent", "pending", "claimed", "completed", "expired"},
            agent: Agent \cup {NoAgent}, check: Check \cup {NoCheck}, old: BOOLEAN]

NoTask == [status |-> "absent", agent |-> NoAgent, check |-> NoCheck, old |-> FALSE]

Open(t)   == tasks[t].status \in {"pending", "claimed"}
Active(a) == a # NoAgent /\ agents[a].status = "active"
Revoked(a) == a \in Agent /\ agents[a].status = "revoked"
\* supportsAssignedCheck, and the same test in SQL.
Serves(a) == Active(a) /\ agents[a].capable

-----------------------------------------------------------------------------
(* What the processes of the API have in hand. *)

\* A row listed as due carries the route it had then.
Listed == [check: Check, agent: Agent \cup {NoAgent}, served: BOOLEAN]

\* recording: the check whose task was just expired.
Tick == [at: {"idle", "reading", "expiring", "recording", "listing", "queueing"},
         expired: SUBSET Task, check: Check \cup {NoCheck}, due: Seq(Listed)]

IdleTick == [at |-> "idle", expired |-> {}, check |-> NoCheck, due |-> <<>>]

\* rival: another caller queued a task for the same check and agent after this one asked.
Queueing == [at: {"idle", "asking", "inserting", "scheduling"}, check: Check \cup {NoCheck},
             agent: Agent \cup {NoAgent}, rival: BOOLEAN]

IdleQueue == [at |-> "idle", check |-> NoCheck, agent |-> NoAgent, rival |-> FALSE]

\* A poll goes from "select" over "expire" to "claim", a heartbeat from "lock" to "accept".
\* capable: the capability as AgentGuard read it, or as reported.
\* tasks: the supported ones (poll), those accepted (heartbeat).  others: the unsupported
\* ones (poll), those whose results are still to be accepted (heartbeat).
\* awaited: the agent still waits for the answer.
Handler == [at: {"free", "select", "expire", "claim", "lock", "accept"},
            agent: Agent \cup {NoAgent}, capable: BOOLEAN, tasks: SUBSET Task,
            others: SUBSET Task, awaited: BOOLEAN]

Free == [at |-> "free", agent |-> NoAgent, capable |-> FALSE, tasks |-> {}, others |-> {},
         awaited |-> FALSE]

Client == [at: {"idle", "polling", "executing", "reporting"}, tasks: SUBSET Task]

Idle == [at |-> "idle", tasks |-> {}]

Edit   == [check: Check \cup {NoCheck}, agent: Agent \cup {NoAgent},
           next: {"never", "later", "due"}]
NoEdit == [check |-> NoCheck, agent |-> NoAgent, next |-> "never"]

TypeOK ==
    /\ checks \in [Check -> CheckRow]
    /\ agents \in [Agent -> AgentRow]
    /\ tasks \in [Task -> TaskRow]
    /\ line \in Seq(Check) /\ tick \in Tick
    /\ queue \in [Queuer -> Queueing]
    /\ running \subseteq Check
    /\ probes \in [Check -> {"none", "scheduling", "probing"}]
    /\ recording \in [Check -> 0 .. MaxPending]
    /\ calls \in [Call -> Handler]
    /\ clients \in [Agent -> Client]
    /\ edit \in Edit
    /\ changes \in 0 .. MaxChanges /\ late \in 0 .. MaxLate /\ faults \in 0 .. MaxFaults
    /\ reports \in [Task -> Nat]
    /\ timeouts \in [Task -> Nat]
    /\ overtaken \subseteq Task
    /\ doubled \subseteq Check
    \* The line is the checks that are due, and an agent waits for its own request only.
    /\ IsInjective(line) /\ ToSet(line) = {c \in Check : checks[c].next = "due"}
    /\ \A k \in Call : calls[k].awaited =>
           clients[calls[k].agent].at = IF calls[k].at \in {"lock", "accept"} THEN "reporting"
                                                                          ELSE "polling"

\* A resource whose first agent serves the checks assigned to it, or was revoked.
Init ==
    /\ \E first \in Agent, status \in {"active", "revoked"}, remote \in SUBSET Check :
           LET due == IF status = "active" THEN Check ELSE Check \ remote
           IN  /\ agents = [a \in Agent |-> [status |-> IF a = first THEN status ELSE "absent",
                                             capable |-> TRUE]]
               /\ checks = [c \in Check |-> [agent |-> IF c \in remote THEN first ELSE NoAgent,
                                             enabled |-> TRUE,
                                             next |-> IF c \in due THEN "due" ELSE "never"]]
               /\ line \in SetToSeqs(due)
    /\ tasks = [t \in Task |-> NoTask]
    /\ tick = IdleTick
    /\ queue = [q \in Queuer |-> IdleQueue]
    /\ running = {}
    /\ probes = [c \in Check |-> "none"]
    /\ recording = [c \in Check |-> 0]
    /\ calls = [k \in Call |-> Free]
    /\ clients = [a \in Agent |-> Idle]
    /\ edit = NoEdit
    /\ changes = 0 /\ late = 0 /\ faults = 0
    /\ reports = [t \in Task |-> 0]
    /\ timeouts = [t \in Task |-> 0]
    /\ overtaken = {} /\ doubled = {}

-----------------------------------------------------------------------------
(* Rows change together. *)

\* The tasks, once an UPDATE has given those in S a status.
Mark(S, status) == [t \in Task |-> IF t \in S THEN [tasks[t] EXCEPT !.status = status]
                                              ELSE tasks[t]]

\* What is left of a line, in its order, when the checks of K stay.
Staying(s, K) ==
    LET left[i \in 0 .. Len(s)] == IF i = 0 THEN <<>>
                                   ELSE IF s[i] \in K THEN Append(left[i - 1], s[i])
                                                      ELSE left[i - 1]
    IN  left[Len(s)]

\* The checks of now are set due in one statement; those of gone are not due any more.
Requeue(now, gone) ==
    \E s \in SetToSeqs(now) : line' = Staying(line, Check \ (now \cup gone)) \o s

\* scheduleNext: whatever the row is by now.
ScheduleNext(c) == /\ checks' = [checks EXCEPT ![c].next = "later"]
                   /\ line' = Staying(line, Check \ {c})

\* reconcileAgentRelationships, with the agents as they are in as: checks of a revoked agent
\* move to its successor, checks nobody serves stop, those served again become due, and tasks
\* end whose check moved, was disabled or is not served.  A direct check keeps its tasks:
\* no comparison with a NULL agent_id holds.
Reconcile(as) ==
    LET serves(a)  == as[a].status = "active" /\ as[a].capable
        heirs      == {a \in Agent : as[a].status = "active"}
        assigned   == {c \in Check : checks[c].agent # NoAgent}
        moved      == {c \in assigned : as[checks[c].agent].status = "revoked" /\ heirs # {}}
        owner      == [c \in Check |-> IF c \in moved THEN CHOOSE a \in heirs : TRUE
                                                      ELSE checks[c].agent]
        served     == {c \in assigned : serves(owner[c])}
        now        == {c \in served : /\ checks[c].enabled
                                      /\ c \in moved \/ checks[c].next = "never"}
        gone       == (assigned \ served) \cup {c \in moved : ~checks[c].enabled}
        ended(t)   == \/ ~checks[tasks[t].check].enabled \/ ~serves(tasks[t].agent)
                      \/ tasks[t].check \in assigned /\ owner[tasks[t].check] # tasks[t].agent
    IN  /\ checks' = [c \in Check |->
                         [checks[c] EXCEPT !.agent = owner[c],
                                           !.next = IF c \in now THEN "due"
                                                    ELSE IF c \in gone THEN "never" ELSE @]]
        /\ Requeue(now, gone)
        /\ tasks' = Mark({t \in Task : Open(t) /\ ended(t)}, "expired")

-----------------------------------------------------------------------------
(* Operators, and time. *)

Change == changes < MaxChanges /\ changes' = changes + 1

\* AgentsService.create for the resource, which must have no agent.
CreateAgent(a) ==
    /\ agents[a].status = "absent" /\ \A b \in Agent : agents[b].status # "active"
    /\ Change
    /\ agents' = [agents EXCEPT ![a].status = "active"]
    /\ Reconcile(agents')
    /\ UNCHANGED <<tick, queue, direct, calls, clients, edit, late, faults, history>>

\* A heartbeat that has locked the agent's row holds revoke up.
Locked(a) == \E k \in Call : calls[k].at = "accept" /\ calls[k].agent = a /\ Active(a)

Revoke(a) ==
    /\ Active(a) /\ ~Locked(a) /\ Change
    /\ agents' = [agents EXCEPT ![a].status = "revoked"]
    /\ Reconcile(agents')
    /\ UNCHANGED <<tick, queue, direct, calls, clients, edit, late, faults, history>>

\* ChecksService.update reads the row and validates the agent it is to assign, if any ...
EditBegin(c, a) ==
    /\ edit = NoEdit /\ Change
    /\ a = NoAgent \/ Serves(a)
    /\ edit' = [check |-> c, agent |-> a, next |-> checks[c].next]
    /\ UNCHANGED <<rows, tick, queue, direct, calls, clients, late, faults, history>>

\* ... and writes all columns: the remembered time, which may be any place in the line.
WriteEdit(enabled) ==
    LET c    == edit.check
        next == CASE ~enabled             -> "never"
                  [] edit.next = "never"  -> "due"
                  [] OTHER                -> edit.next
        rest == Staying(line, Check \ {c})
    IN  /\ edit # NoEdit
        /\ checks' = [checks EXCEPT ![c] = [agent |-> edit.agent, enabled |-> enabled,
                                            next |-> next]]
        /\ IF next = "due" THEN \E i \in 1 .. Len(rest) + 1 : line' = InsertAt(rest, i, c)
                           ELSE line' = rest
        /\ edit' = NoEdit
        /\ UNCHANGED <<agents, tasks, tick, queue, direct, calls, clients, bounds, history>>

\* The time next_check_at names comes, also for an update that has read it.
BecomeDue(c) ==
    /\ \/ checks[c].next = "later"
       \/ edit.check = c /\ edit.next = "later"
    /\ edit' = IF edit.check = c /\ edit.next = "later"
               THEN [edit EXCEPT !.next = "due"] ELSE edit
    /\ IF checks[c].next = "later"
       THEN checks' = [checks EXCEPT ![c].next = "due"] /\ line' = Append(line, c)
       ELSE UNCHANGED <<checks, line>>
    /\ UNCHANGED <<agents, tasks, tick, queue, direct, calls, clients, bounds, history>>

\* Two minutes pass since a task was issued: expireAgentTasks takes the cutoff once.
AgeTask(t) ==
    /\ Open(t) /\ ~tasks[t].old
    /\ tick.at \notin {"expiring", "recording"}
    /\ tasks' = [tasks EXCEPT ![t].old = TRUE]
    /\ UNCHANGED <<checks, agents, line, tick, queue, direct, calls, clients, edit, bounds,
                   history>>

-----------------------------------------------------------------------------
(* CheckOrchestratorService.tick *)

\* schedulerBusy lets one pass run; it reconciles first.
TickStart ==
    /\ tick.at = "idle"
    /\ Reconcile(agents)
    /\ tick' = [tick EXCEPT !.at = "reading"]
    /\ UNCHANGED <<agents, queue, direct, calls, clients, edit, bounds, history>>

\* expireAgentTasks reads the tasks of enabled checks that are overdue ...
OverdueTasks == {t \in Task : Open(t) /\ tasks[t].old /\ checks[tasks[t].check].enabled}

ListExpired ==
    /\ tick.at = "reading"
    /\ tick' = [tick EXCEPT !.at = "expiring", !.expired = OverdueTasks]
    /\ UNCHANGED <<rows, queue, direct, calls, clients, edit, bounds, history>>

\* Mutant: the update does not ask for the status.
StillOpenAssumed(t) == tasks[t].status # "absent"

StillOpen(t) == Open(t)

\* ... expires each unless it was settled since ...
ExpireTask(t) ==
    /\ tick.at = "expiring" /\ t \in tick.expired
    /\ IF StillOpen(t)
       THEN /\ tasks' = Mark({t}, "expired")
            /\ tick' = [tick EXCEPT !.at = "recording", !.expired = @ \ {t},
                                    !.check = tasks[t].check]
            /\ timeouts' = [timeouts EXCEPT ![t] = @ + 1]
            /\ overtaken' = IF \E k \in Call : calls[k].at = "accept" /\ t \in calls[k].tasks
                            THEN overtaken \cup {t} ELSE overtaken
       ELSE /\ tick' = [tick EXCEPT !.expired = @ \ {t}]
            /\ UNCHANGED <<tasks, timeouts, overtaken>>
    /\ UNCHANGED <<checks, agents, line, queue, direct, calls, clients, edit, bounds,
                   reports, doubled>>

\* ... and records that the agent did not return a result.
RecordTimeout ==
    /\ tick.at = "recording"
    /\ tick' = [tick EXCEPT !.at = "expiring", !.check = NoCheck]
    /\ UNCHANGED <<rows, queue, direct, calls, clients, edit, bounds, history>>

\* What is overdue and still open, of disabled checks too, expires unrecorded.
Sweep ==
    /\ tick.at = "expiring" /\ tick.expired = {}
    /\ tasks' = Mark({t \in Task : Open(t) /\ tasks[t].old}, "expired")
    /\ tick' = [tick EXCEPT !.at = "listing"]
    /\ UNCHANGED <<checks, agents, line, queue, direct, calls, clients, edit, bounds, history>>

Rows(cs) == [i \in DOMAIN cs |-> [check |-> cs[i], agent |-> checks[cs[i]].agent,
                                   served |-> Serves(checks[cs[i]].agent)]]

\* The first rows of a line that a LIMIT leaves.
Limited(s) == SubSeq(s, 1, IF Len(s) < MaxListed THEN Len(s) ELSE MaxListed)

\* Mutant: the rows come in no good order.
DueChecksBackwards == Rows(Limited(Staying(Reverse(line), {c \in Check : checks[c].enabled})))

\* The checks that are longest due, with their routes.
DueChecks == Rows(Limited(Staying(line, {c \in Check : checks[c].enabled})))

ListDue ==
    /\ tick.at = "listing"
    /\ tick' = [tick EXCEPT !.at = "queueing", !.due = DueChecks]
    /\ UNCHANGED <<rows, queue, direct, calls, clients, edit, bounds, history>>

\* The scheduler waits for what it does about a check an agent executes.
QueueDue ==
    LET row == Head(tick.due)
    IN  /\ tick.at = "queueing" /\ tick.due # <<>> /\ queue[Scheduler] = IdleQueue
        /\ row.agent # NoAgent
        /\ tick' = [tick EXCEPT !.due = Tail(@)]
        /\ queue' = [queue EXCEPT ![Scheduler] =
                        [at |-> IF row.served THEN "asking" ELSE "scheduling",
                         check |-> row.check, agent |-> row.agent, rival |-> FALSE]]
        /\ UNCHANGED <<rows, direct, calls, clients, edit, bounds, history>>

\* executeDirect up to its first await: not twice at once for a check.
StartProbes(S) ==
    /\ running' = running \cup S
    /\ probes' = [c \in Check |-> IF c \in S \ running THEN "scheduling" ELSE probes[c]]
    /\ UNCHANGED recording

\* The scheduler starts direct checks while there is room, and does not wait for them: it
\* comes to the next check an agent executes without giving way.
StartDue ==
    LET ahead     == {i \in DOMAIN tick.due : \A j \in 1 .. i : tick.due[j].agent = NoAgent}
        before(i) == running \cup {tick.due[j].check : j \in 1 .. i - 1}
        taken     == {i \in ahead : Cardinality(before(i)) < MaxRunning}
    IN  /\ tick.at = "queueing" /\ ahead # {} /\ queue[Scheduler] = IdleQueue
        /\ tick' = [tick EXCEPT !.due = SubSeq(@, Cardinality(ahead) + 1, Len(@))]
        /\ StartProbes({tick.due[i].check : i \in taken})
        /\ UNCHANGED <<rows, queue, calls, clients, edit, bounds, history>>

TickEnd ==
    /\ tick.at = "queueing" /\ tick.due = <<>> /\ queue[Scheduler] = IdleQueue
    /\ tick' = IdleTick
    /\ UNCHANGED <<rows, queue, direct, calls, clients, edit, bounds, history>>

Fault == faults < MaxFaults /\ faults' = faults + 1

\* An error of the database ends the pass; schedulerBusy is reset.
TickFails ==
    /\ tick.at # "idle" /\ Fault
    /\ tick' = IdleTick
    /\ queue' = [queue EXCEPT ![Scheduler] = IdleQueue]
    /\ UNCHANGED <<rows, direct, calls, clients, edit, changes, late, history>>

-----------------------------------------------------------------------------
(* queueAgentTask, by the scheduler or by runNow, which forces *)

\* runNow: a check nobody serves is refused, a direct one is executed.
RunNow(r, c) ==
    /\ queue[r] = IdleQueue /\ Change
    /\ \/ /\ Serves(checks[c].agent)
          /\ queue' = [queue EXCEPT ![r] = [at |-> "asking", check |-> c,
                                            agent |-> checks[c].agent, rival |-> FALSE]]
          /\ UNCHANGED direct
       \/ checks[c].agent = NoAgent /\ StartProbes({c}) /\ UNCHANGED queue
    /\ UNCHANGED <<rows, tick, calls, clients, edit, late, faults, history>>

\* Mutant: a claimed task does not count.
HasPendingTask(c, a) ==
    \E t \in Task : tasks[t].status = "pending" /\ tasks[t].check = c /\ tasks[t].agent = a

\* Mutant: a task that was settled counts as well.
HasAnyTask(c, a) ==
    \E t \in Task : tasks[t].status # "absent" /\ tasks[t].check = c /\ tasks[t].agent = a

HasOpenTask(c, a) == \E t \in Task : Open(t) /\ tasks[t].check = c /\ tasks[t].agent = a

\* An open task of the check for this agent is enough.
Ask(q) ==
    LET pending == HasOpenTask(queue[q].check, queue[q].agent)
    IN  /\ queue[q].at = "asking"
        /\ queue' = [queue EXCEPT ![q] =
                        CASE ~pending                     -> [@ EXCEPT !.at = "inserting"]
                          [] pending /\ q = Scheduler     -> [@ EXCEPT !.at = "scheduling"]
                          [] OTHER                        -> IdleQueue]
        /\ UNCHANGED <<rows, tick, direct, calls, clients, edit, bounds, history>>

\* RetentionService has deleted the settled task that had the identifier before: what still
\* names it finds no row.
Forget(t) ==
    /\ tick' = [tick EXCEPT !.expired = @ \ {t}]
    /\ calls' = [k \in Call |-> [calls[k] EXCEPT !.tasks = @ \ {t}, !.others = @ \ {t}]]
    /\ clients' = [a \in Agent |-> [clients[a] EXCEPT !.tasks = @ \ {t}]]
    /\ reports' = [reports EXCEPT ![t] = 0]
    /\ timeouts' = [timeouts EXCEPT ![t] = 0]
    /\ overtaken' = overtaken \ {t}

Insert(q, t) ==
    LET c       == queue[q].check
        twin(p) == /\ p # q /\ queue[p].at = "inserting"
                   /\ queue[p].check = c /\ queue[p].agent = queue[q].agent
    IN  /\ queue[q].at = "inserting" /\ ~Open(t)
        /\ \A k \in Call : calls[k].at # "accept" \/ t \notin calls[k].tasks
        /\ tasks' = [tasks EXCEPT ![t] = [status |-> "pending", agent |-> queue[q].agent,
                                          check |-> c, old |-> FALSE]]
        /\ queue' = [p \in Queuer |-> IF p = q THEN [queue[q] EXCEPT !.at = "scheduling"]
                                      ELSE IF twin(p) THEN [queue[p] EXCEPT !.rival = TRUE]
                                      ELSE queue[p]]
        /\ Forget(t)
        /\ doubled' = IF queue[q].rival THEN doubled \cup {c} ELSE doubled
        /\ UNCHANGED <<checks, agents, line, direct, edit, bounds>>

Schedule(q) ==
    /\ queue[q].at = "scheduling"
    /\ ScheduleNext(queue[q].check)
    /\ queue' = [queue EXCEPT ![q] = IdleQueue]
    /\ UNCHANGED <<agents, tasks, tick, direct, calls, clients, edit, bounds, history>>

-----------------------------------------------------------------------------
(* executeDirect after its first await *)

ScheduleProbe(c) ==
    /\ probes[c] = "scheduling"
    /\ ScheduleNext(c)
    /\ probes' = [probes EXCEPT ![c] = "probing"]
    /\ UNCHANGED <<agents, tasks, tick, queue, running, recording, calls, clients, edit, bounds,
                   history>>

\* scheduleNext comes before the try: if it fails the check stays in the running set.
ScheduleFails(c) ==
    /\ probes[c] = "scheduling" /\ Fault
    /\ probes' = [probes EXCEPT ![c] = "none"]
    /\ UNCHANGED <<rows, tick, queue, running, recording, calls, clients, edit, changes, late, history>>

\* record is returned, not awaited: the check leaves the running set before it is recorded.
FinishProbe(c) ==
    /\ probes[c] = "probing" /\ recording[c] < MaxPending
    /\ probes' = [probes EXCEPT ![c] = "none"]
    /\ running' = running \ {c}
    /\ recording' = [recording EXCEPT ![c] = @ + 1]
    /\ UNCHANGED <<rows, tick, queue, calls, clients, edit, bounds, history>>

RecordProbe(c) ==
    /\ recording[c] > 0
    /\ recording' = [recording EXCEPT ![c] = @ - 1]
    /\ UNCHANGED <<rows, tick, queue, running, probes, calls, clients, edit, bounds, history>>

RecordFails(c) ==
    /\ recording[c] > 0 /\ Fault
    /\ recording' = [recording EXCEPT ![c] = @ - 1]
    /\ UNCHANGED <<rows, tick, queue, running, probes, calls, clients, edit, changes, late, history>>

-----------------------------------------------------------------------------
(* AgentsService.poll *)

\* The agent asks for its tasks; AgentGuard reads its row.
StartPoll(a, k) ==
    /\ Active(a) /\ clients[a].at = "idle" /\ calls[k] = Free
    /\ calls' = [calls EXCEPT ![k] = [Free EXCEPT !.at = "select", !.agent = a,
                                          !.capable = agents[a].capable, !.awaited = TRUE]]
    /\ clients' = [clients EXCEPT ![a] = [at |-> "polling", tasks |-> {}]]
    /\ UNCHANGED <<rows, tick, queue, direct, edit, bounds, history>>

\* The agent executes what it gets; with nothing to do it waits for its next poll.
AnswerPoll(k, got) ==
    /\ calls' = [calls EXCEPT ![k] = Free]
    /\ clients' = IF calls[k].awaited
                  THEN [clients EXCEPT ![calls[k].agent] =
                           IF got = {} THEN Idle ELSE [at |-> "executing", tasks |-> got]]
                  ELSE clients

\* Open tasks are split by what the check and the agent allow.
SelectTasks(k) ==
    LET mine      == {t \in Task : Open(t) /\ tasks[t].agent = calls[k].agent}
        supported == {t \in mine : checks[tasks[t].check].enabled /\ calls[k].capable}
    IN  /\ calls[k].at = "select"
        /\ IF mine = {} THEN AnswerPoll(k, {})
           ELSE /\ calls' = [calls EXCEPT ![k] = [calls[k] EXCEPT
                                !.at = IF supported = mine THEN "claim" ELSE "expire",
                                !.tasks = supported, !.others = mine \ supported]]
                /\ UNCHANGED clients
        /\ UNCHANGED <<rows, tick, queue, direct, edit, bounds, history>>

\* Both updates go by the identifiers only: a task settled since is expired or claimed too.
ExpireUnsupported(k) ==
    /\ calls[k].at = "expire"
    /\ tasks' = Mark(calls[k].others, "expired")
    /\ IF calls[k].tasks = {} THEN AnswerPoll(k, {})
       ELSE /\ calls' = [calls EXCEPT ![k] = [calls[k] EXCEPT !.at = "claim", !.others = {}]]
            /\ UNCHANGED clients
    /\ UNCHANGED <<checks, agents, line, tick, queue, direct, edit, bounds, history>>

ClaimTasks(k) ==
    LET reopened == {t \in calls[k].tasks : ~Open(t)}
    IN  /\ calls[k].at = "claim"
        /\ reopened # {} => late < MaxLate
        /\ late' = IF reopened # {} THEN late + 1 ELSE late
        /\ tasks' = Mark(calls[k].tasks, "claimed")
        /\ AnswerPoll(k, calls[k].tasks)
        /\ reports' = [t \in Task |-> IF t \in reopened THEN 0 ELSE reports[t]]
        /\ timeouts' = [t \in Task |-> IF t \in reopened THEN 0 ELSE timeouts[t]]
        /\ overtaken' = overtaken \ reopened
        /\ doubled' = doubled \cup {tasks[t].check : t \in reopened}
        /\ UNCHANGED <<checks, agents, line, tick, queue, direct, edit, changes, faults>>

-----------------------------------------------------------------------------
(* AgentsService.heartbeat *)

\* The agent sends its results (none, when it only registers or uploads snapshots), with
\* the capabilities this version of it has.
StartReport(a, k, capable) ==
    /\ Active(a) /\ clients[a].at \in {"idle", "executing"} /\ calls[k] = Free
    /\ calls' = [calls EXCEPT ![k] = [Free EXCEPT !.at = "lock", !.agent = a,
                                          !.capable = capable, !.others = clients[a].tasks,
                                          !.awaited = TRUE]]
    /\ clients' = [clients EXCEPT ![a] = [at |-> "reporting", tasks |-> {}]]
    /\ UNCHANGED <<rows, tick, queue, direct, edit, bounds, history>>

\* The transaction updates, and so locks, the row of an agent that is not revoked.
LockAgent(k) ==
    /\ calls[k].at = "lock" /\ ~Locked(calls[k].agent)
    /\ calls' = [calls EXCEPT ![k].at = "accept"]
    /\ UNCHANGED <<rows, tick, queue, direct, clients, edit, bounds, history>>

Acceptable(k, t) == /\ Open(t) /\ tasks[t].agent = calls[k].agent
                    /\ checks[tasks[t].check].enabled /\ calls[k].capable

\* acceptResult records the result of an open task of the agent.
AcceptResult(k, t) ==
    LET accepted == IF Acceptable(k, t) THEN {t} ELSE {}
    IN  /\ calls[k].at = "accept" /\ t \in calls[k].others
        /\ calls' = [calls EXCEPT ![k] = [calls[k] EXCEPT
                        !.others = calls[k].others \ {t}, !.tasks = calls[k].tasks \cup accepted]]
        /\ UNCHANGED <<rows, tick, queue, direct, clients, edit, bounds, history>>

\* All of it is committed: accepted tasks are completed, whatever became of them meanwhile.
CommitReport(k) ==
    LET call == calls[k]
    IN  /\ call.at = "accept" /\ call.others = {}
        /\ agents' = IF Active(call.agent)
                     THEN [agents EXCEPT ![call.agent].capable = call.capable] ELSE agents
        /\ tasks' = Mark(call.tasks, "completed")
        /\ reports' = [t \in Task |-> IF t \in call.tasks THEN reports[t] + 1 ELSE reports[t]]
        /\ calls' = [calls EXCEPT ![k] = Free]
        /\ clients' = IF call.awaited THEN [clients EXCEPT ![call.agent] = Idle] ELSE clients
        /\ UNCHANGED <<checks, line, tick, queue, direct, edit, bounds, timeouts, overtaken,
                       doubled>>

\* Mutant: the answer of a request that was given up is taken for the next one's.
ForgottenStillAwaited(a) == calls

Forgotten(a) == [k \in Call |-> IF calls[k].agent = a THEN [calls[k] EXCEPT !.awaited = FALSE]
                                                     ELSE calls[k]]

\* After 20 seconds, or a restart, the agent forgets its request and the tasks it holds;
\* the handler goes on.
GiveUp(a) ==
    /\ clients[a].at # "idle"
    /\ clients' = [clients EXCEPT ![a] = Idle]
    /\ calls' = Forgotten(a)
    /\ UNCHANGED <<rows, tick, queue, direct, edit, bounds, history>>

\* A handler fails, its transaction is rolled back, and the agent gets an error.
CallFails(k) ==
    /\ calls[k] # Free /\ Fault
    /\ calls' = [calls EXCEPT ![k] = Free]
    /\ clients' = IF calls[k].awaited THEN [clients EXCEPT ![calls[k].agent] = Idle] ELSE clients
    /\ UNCHANGED <<rows, tick, queue, direct, edit, changes, late, history>>

-----------------------------------------------------------------------------
\* The API stops and starts again: only the rows are left.
Restart ==
    /\ Fault
    /\ tick' = IdleTick
    /\ queue' = [q \in Queuer |-> IdleQueue]
    /\ running' = {}
    /\ probes' = [c \in Check |-> "none"]
    /\ recording' = [c \in Check |-> 0]
    /\ edit' = NoEdit
    /\ calls' = [k \in Call |-> Free]
    /\ clients' = [a \in Agent |-> IF clients[a].at \in {"polling", "reporting"}
                                   THEN Idle ELSE clients[a]]
    /\ UNCHANGED <<rows, changes, late, history>>

TickStep == \/ TickStart \/ ListExpired \/ RecordTimeout \/ Sweep \/ ListDue
            \/ QueueDue \/ StartDue \/ TickEnd
            \/ \E t \in Task : ExpireTask(t)

QueueStep(q) == Ask(q) \/ Schedule(q) \/ \E t \in Task : Insert(q, t)

ProbeStep(c) == ScheduleProbe(c) \/ FinishProbe(c)

CallStep(k) == \/ SelectTasks(k) \/ ExpireUnsupported(k) \/ ClaimTasks(k)
               \/ LockAgent(k) \/ CommitReport(k)
               \/ \E t \in Task : AcceptResult(k, t)

ClientStep(a) == \/ GiveUp(a)
                 \/ \E k \in Call : \/ StartPoll(a, k)
                                    \/ \E capable \in Capability : StartReport(a, k, capable)

OperatorStep == \/ \E enabled \in BOOLEAN : WriteEdit(enabled)
                \/ \E a \in Agent : CreateAgent(a) \/ Revoke(a)
                \/ \E c \in Check, a \in Agent \cup {NoAgent} : EditBegin(c, a)
                \/ \E r \in Request, c \in Check : RunNow(r, c)

Failure == \/ TickFails \/ Restart
           \/ \E c \in Check : ScheduleFails(c) \/ RecordFails(c)
           \/ \E k \in Call : CallFails(k)

Next == \/ TickStep \/ OperatorStep \/ Failure
        \/ \E q \in Queuer : QueueStep(q)
        \/ \E c \in Check : ProbeStep(c) \/ RecordProbe(c) \/ BecomeDue(c)
        \/ \E t \in Task : AgeTask(t)
        \/ \E k \in Call : CallStep(k)
        \/ \E a \in Agent : ClientStep(a)

\* What the API has started it goes on with, and time passes, for a task as soon as no
\* cutoff is in use.  Agents, operators and faults owe nothing.
Fairness ==
    /\ WF_vars(TickStep) /\ WF_vars(\E enabled \in BOOLEAN : WriteEdit(enabled))
    /\ \A q \in Queuer : WF_vars(QueueStep(q))
    /\ \A c \in Check : WF_vars(ProbeStep(c)) /\ WF_vars(RecordProbe(c)) /\ WF_vars(BecomeDue(c))
    /\ \A t \in Task : SF_vars(AgeTask(t))
    /\ \A k \in Call : WF_vars(CallStep(k))

Spec == Init /\ [][Next]_vars /\ Fairness

-----------------------------------------------------------------------------
(* Properties. *)

\* A task that was opened ends in at most one result, its agent's or the time-out, unless it
\* timed out while a report that had read it as open was being handled: expireAgentTasks
\* settles before it records, acceptResult asks for an open task, and a second report of the
\* agent waits for its row, unless the agent was revoked and the statement finds none.
OneOutcomePerOpening ==
    \A t \in Task :
       /\ timeouts[t] <= 1
       /\ ~Revoked(tasks[t].agent) => /\ reports[t] <= 1
                                      /\ t \notin overtaken => reports[t] + timeouts[t] <= 1

\* A check has at most one open task for an agent, unless two callers of queueAgentTask asked
\* before either inserted, or a poll claimed a task that was settled after it had read it.
OneOpenTask ==
    \A t, u \in Task : /\ t # u /\ Open(t) /\ Open(u)
                       /\ tasks[t].check = tasks[u].check /\ tasks[t].agent = tasks[u].agent
                       => tasks[t].check \in doubled

\* The check is enabled, and the API or an agent that supports it is to execute it.
Watched(c) == checks[c].enabled /\ (checks[c].agent = NoAgent \/ Serves(checks[c].agent))

\* A check is in the running set although nothing runs: see ScheduleFails.
Stuck == \E c \in running : probes[c] = "none"

\* A result of the check is recorded.
Recorded(c) == \/ RecordTimeout /\ tick.check = c
               \/ RecordProbe(c)
               \/ \E k \in Call : CommitReport(k) /\ \E t \in calls[k].tasks : tasks[t].check = c

\* Checks the API executes, when they do not outnumber the places of the running set or no
\* other check is enabled.  Otherwise a pass that queues a task for an agent after it found
\* the set full may give the place that becomes free meanwhile to a check further back.
Uncontended == LET enabled == {c \in Check : checks[c].enabled}
                   byApi   == {c \in enabled : checks[c].agent = NoAgent}
               IN  Cardinality(byApi) <= MaxRunning \/ byApi = enabled

\* Once the requests of operators are over, a check that stays watched gets results for ever:
\* from its agent, as the time-out of a task its agent left alone, or from the API, although
\* it waits for a place with other checks.  Two cases are exempt, and the claim fails in
\* both: an entry of the running set that was left behind (Stuck), and checks of the API
\* that outnumber the places next to checks of agents (Uncontended).
EveryCheckReports ==
    \A c \in Check :
        <>[](Watched(c) /\ ~Stuck /\ (checks[c].agent = NoAgent => Uncontended))
            => []<><<Recorded(c)>>_vars

=============================================================================
