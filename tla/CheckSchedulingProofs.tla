------------------------ MODULE CheckSchedulingProofs ------------------------
(***************************************************************************)
(* Proofs about CheckScheduling, for any number of checks, agents, tasks   *)
(* and handlers of requests: a task ends in one result at most, and a      *)
(* check has one open task for an agent at most, but for the races the     *)
(* properties name.  The checks that are due stand in one line, each of    *)
(* them once.                                                              *)
(*                                                                         *)
(* Two facts carry the first one.  A report holds its agent's row until it *)
(* commits, so there is one at a time that accepts results; and what it    *)
(* has accepted had no result when it read it, so that only the time-out   *)
(* can come between.  The second rests on what a caller of queueAgentTask  *)
(* knows between its SELECT and its INSERT.  The third is about the line:  *)
(* who leaves it, joins it or is put somewhere into it by a statement.     *)
(***************************************************************************)
EXTENDS CheckScheduling, FiniteSetTheorems, SequenceTheorems, WellFoundedInduction, TLAPS

-----------------------------------------------------------------------------
(* The invariant.                                                          *)

\* A record with the fields of a task, and of a call of queueAgentTask.  What they say
\* of checks and agents comes from rows read before and does not matter here.
TaskLike(row) == row \in [status: {"absent", "pending", "claimed", "completed", "expired"},
                          agent: {row.agent}, check: {row.check}, old: BOOLEAN]

CallerLike(caller) == caller \in [at: {"idle", "asking", "inserting", "scheduling"},
                                  check: {caller.check}, agent: {caller.agent},
                                  rival: BOOLEAN]

\* Who sends a request has been enrolled.
CallersKnown ==
    \A k \in Call : calls[k].at # "free" =>
        calls[k].agent \in Agent /\ agents[calls[k].agent].status # "absent"

Shape ==
    /\ tasks = [t \in Task |-> tasks[t]] /\ \A t \in Task : TaskLike(tasks[t])
    /\ queue = [q \in Queuer |-> queue[q]] /\ \A q \in Queuer : CallerLike(queue[q])
    /\ agents \in [Agent -> AgentRow]
    /\ calls \in [Call -> Handler]
    /\ clients \in [Agent -> Client]
    /\ reports \in [Task -> Nat] /\ timeouts \in [Task -> Nat]
    /\ CallersKnown

Handling(k) == calls[k].at = "accept"

\* An open task has no result yet.
OpenUnsettled == \A t \in Task : Open(t) => reports[t] = 0 /\ timeouts[t] = 0

\* One report of an agent is handled at a time, as long as there is a row to lock.
SoleReporter ==
    \A k, l \in Call :
        /\ Handling(k) /\ Handling(l) /\ calls[k].agent = calls[l].agent
        /\ ~Revoked(calls[k].agent)
        => k = l

\* Nothing is accepted before the row is locked.
NothingAccepted == \A k \in Call : calls[k].at = "lock" => calls[k].tasks = {}

\* What a report has accepted has no result of the agent yet, and is known to have
\* timed out if it has.
AcceptedUnreported ==
    \A k \in Call : Handling(k) => \A t \in calls[k].tasks :
        /\ tasks[t].agent = calls[k].agent
        /\ timeouts[t] = 0 \/ t \in overtaken
        /\ ~Revoked(calls[k].agent) => reports[t] = 0

OutcomeInv == /\ OpenUnsettled /\ SoleReporter /\ NothingAccepted /\ AcceptedUnreported
              /\ OneOutcomePerOpening

\* Who is about to insert a task found none open, and would know of one since.
InsertsFit ==
    \A q \in Queuer : queue[q].at = "inserting" =>
        \/ queue[q].rival
        \/ queue[q].check \in doubled
        \/ ~HasOpenTask(queue[q].check, queue[q].agent)

QueueInv == InsertsFit /\ OneOpenTask

SchedulingInv == Shape /\ OutcomeInv /\ QueueInv

-----------------------------------------------------------------------------
(* Rows and calls that change in one field.                                *)

\* An UPDATE of the status changes nothing else.
LEMMA MarkedTasks ==
    ASSUME Shape, NEW S, NEW status \in {"pending", "claimed", "completed", "expired"},
           tasks' = Mark(S, status)
    PROVE  /\ tasks' = [t \in Task |-> tasks'[t]]
           /\ \A t \in Task : /\ TaskLike(tasks'[t])
                              /\ tasks'[t].agent = tasks[t].agent
                              /\ tasks'[t].check = tasks[t].check
                              /\ tasks'[t].status = IF t \in S THEN status ELSE tasks[t].status
<1>1. \A t \in Task : tasks'[t] = IF t \in S THEN [tasks[t] EXCEPT !.status = status]
                                             ELSE tasks[t]
  BY DEF Mark
<1>2. tasks' = [t \in Task |-> tasks'[t]]
  BY DEF Mark
<1>3. ASSUME NEW t \in Task
      PROVE  /\ TaskLike(tasks'[t])
             /\ tasks'[t].agent = tasks[t].agent /\ tasks'[t].check = tasks[t].check
             /\ tasks'[t].status = IF t \in S THEN status ELSE tasks[t].status
  <2>1. CASE t \in S
    <3> DEFINE new == [tasks[t] EXCEPT !.status = status]
    <3>1. tasks'[t] = new
      BY <1>1, <2>1
    <3>2. TaskLike(tasks[t])
      BY DEF Shape
    <3>3. /\ TaskLike(new) /\ new.status = status
          /\ new.agent = tasks[t].agent /\ new.check = tasks[t].check
      BY <3>2 DEF TaskLike
    <3> HIDE DEF new
    <3>4. TaskLike(tasks'[t])
      BY <3>1, <3>3 DEF TaskLike
    <3> QED
      BY <2>1, <3>1, <3>3, <3>4
  <2>2. CASE t \notin S
    BY <1>1, <2>2 DEF Shape
  <2> QED
    BY <2>1, <2>2
<1> QED
  BY <1>2, <1>3

\* reconcileAgentRelationships only ends open tasks.
LEMMA ReconciledTasks ==
    ASSUME NEW as, Reconcile(as)
    PROVE  \E S : tasks' = Mark(S, "expired") /\ \A t \in S : t \in Task /\ Open(t)
<1> DEFINE owner == [c \in Check |->
                        IF c \in {d \in {e \in Check : checks[e].agent # NoAgent} :
                                    /\ as[checks[d].agent].status = "revoked"
                                    /\ {a \in Agent : as[a].status = "active"} # {}}
                        THEN CHOOSE a \in {a \in Agent : as[a].status = "active"} : TRUE
                        ELSE checks[c].agent]
           ended(t) ==
              \/ ~checks[tasks[t].check].enabled
              \/ ~(as[tasks[t].agent].status = "active" /\ as[tasks[t].agent].capable)
              \/ /\ tasks[t].check \in {e \in Check : checks[e].agent # NoAgent}
                 /\ owner[tasks[t].check] # tasks[t].agent
<1>1. tasks' = Mark({t \in Task : Open(t) /\ ended(t)}, "expired")
  BY DEF Reconcile
<1> HIDE DEF ended
<1> QED
  BY <1>1

\* A caller of queueAgentTask takes a step; the others stay.
LEMMA MovedCaller ==
    ASSUME Shape, NEW q \in Queuer, NEW new, CallerLike(new),
           queue' = [queue EXCEPT ![q] = new]
    PROVE  /\ queue' = [p \in Queuer |-> queue'[p]]
           /\ \A p \in Queuer : CallerLike(queue'[p])
           /\ queue'[q] = new
           /\ \A p \in Queuer : p # q => queue'[p] = queue[p]
BY DEF Shape

\* What a call that has nothing to do looks like.
LEMMA IdleCalls ==
    /\ CallerLike(IdleQueue) /\ IdleQueue.at = "idle"
    /\ Free \in Handler /\ Free.at = "free"
    /\ Idle \in Client
BY DEF CallerLike, IdleQueue, Free, Handler, Idle, Client

\* Handlers that go on with the agents they began with are known to be enrolled.
LEMMA StillKnown ==
    ASSUME Shape,
           \A a \in Agent : agents[a].status # "absent" => agents'[a].status # "absent",
           \A k \in Call : calls'[k].at # "free" =>
               calls[k].at # "free" /\ calls'[k].agent = calls[k].agent
    PROVE  CallersKnown'
BY DEF Shape, CallersKnown

-----------------------------------------------------------------------------
(* Steps that open no task, accept no result and count none.               *)

\* A step that changes no task, report or history keeps the outcomes' invariant.
LEMMA QuietOutcomes ==
    ASSUME Shape, OutcomeInv, UNCHANGED <<reports, timeouts, overtaken>>,
           \A a \in Agent : agents[a].status = "revoked" => agents'[a].status = "revoked",
           \A t \in Task : tasks'[t].agent = tasks[t].agent /\ (Open(t)' => Open(t)),
           \A k \in Call : Handling(k)' =>
               /\ Handling(k) /\ calls'[k].agent = calls[k].agent
               /\ calls'[k].tasks \subseteq calls[k].tasks,
           NothingAccepted'
    PROVE  OutcomeInv'
<1>0. \A k \in Call : calls[k].tasks \subseteq Task
  BY DEF Shape, Handler
<1>1. \A a : Revoked(a) => Revoked(a)'
  BY DEF Revoked
<1>2. OpenUnsettled'
  BY DEF OutcomeInv, OpenUnsettled
<1>3. SoleReporter'
  BY <1>1 DEF OutcomeInv, SoleReporter
<1>4. AcceptedUnreported'
  <2> SUFFICES ASSUME NEW k \in Call, Handling(k)', NEW t \in calls'[k].tasks
               PROVE  /\ tasks'[t].agent = calls'[k].agent
                      /\ timeouts'[t] = 0 \/ t \in overtaken'
                      /\ ~Revoked(calls[k].agent)' => reports'[t] = 0
    BY DEF AcceptedUnreported
  <2>1. Handling(k) /\ calls'[k].agent = calls[k].agent /\ t \in calls[k].tasks /\ t \in Task
    BY <1>0
  <2> QED
    BY <1>1, <2>1 DEF OutcomeInv, AcceptedUnreported
<1>5. OneOutcomePerOpening'
  BY <1>1 DEF OutcomeInv, OneOutcomePerOpening
<1> QED
  BY <1>2, <1>3, <1>4, <1>5 DEF OutcomeInv

\* A step that changes no task, insertion or check keeps the queue's invariant.
LEMMA QuietQueue ==
    ASSUME QueueInv, doubled \subseteq doubled',
           \A t \in Task : /\ tasks'[t].agent = tasks[t].agent
                           /\ tasks'[t].check = tasks[t].check
                           /\ Open(t)' => Open(t),
           \A q \in Queuer : queue'[q].at = "inserting" =>
               /\ queue[q].at = "inserting"
               /\ queue'[q].check = queue[q].check /\ queue'[q].agent = queue[q].agent
               /\ queue[q].rival => queue'[q].rival
    PROVE  QueueInv'
<1>1. \A c, a : HasOpenTask(c, a)' => HasOpenTask(c, a)
  BY DEF HasOpenTask
<1>2. InsertsFit'
  <2> SUFFICES ASSUME NEW q \in Queuer, queue'[q].at = "inserting"
               PROVE  \/ queue'[q].rival
                      \/ queue'[q].check \in doubled'
                      \/ ~HasOpenTask(queue[q].check, queue[q].agent)'
    BY DEF InsertsFit
  <2> QED
    BY <1>1 DEF QueueInv, InsertsFit
<1>3. OneOpenTask'
  BY DEF QueueInv, OneOpenTask
<1> QED
  BY <1>2, <1>3 DEF QueueInv

\* A step that is about something else.
LEMMA ElsewhereStep ==
    ASSUME SchedulingInv,
           UNCHANGED <<tasks, queue, agents, calls, clients, reports, timeouts, overtaken,
                       doubled>>
    PROVE  SchedulingInv'
<1>1. Shape'
  BY DEF SchedulingInv, Shape, TaskLike, CallerLike, CallersKnown
<1>2. OutcomeInv'
  BY DEF SchedulingInv, OutcomeInv, OpenUnsettled, SoleReporter, NothingAccepted,
         AcceptedUnreported, OneOutcomePerOpening, Open, Handling, Revoked
<1>3. QueueInv'
  BY DEF SchedulingInv, QueueInv, InsertsFit, OneOpenTask, Open, HasOpenTask
<1> QED
  BY <1>1, <1>2, <1>3 DEF SchedulingInv

\* A step that only settles open tasks, while agents are enrolled or revoked.
LEMMA SettlingStep ==
    ASSUME SchedulingInv, NEW S, \A t \in S : t \in Task => Open(t),
           tasks' = Mark(S, "expired"), agents' \in [Agent -> AgentRow],
           \A a \in Agent : /\ agents[a].status # "absent" => agents'[a].status # "absent"
                            /\ agents[a].status = "revoked" => agents'[a].status = "revoked",
           UNCHANGED <<queue, calls, clients, reports, timeouts, overtaken, doubled>>
    PROVE  SchedulingInv'
<1> USE DEF SchedulingInv
<1>1. /\ tasks' = [t \in Task |-> tasks'[t]]
      /\ \A t \in Task : /\ TaskLike(tasks'[t])
                         /\ tasks'[t].agent = tasks[t].agent
                         /\ tasks'[t].check = tasks[t].check
                         /\ tasks'[t].status = IF t \in S THEN "expired" ELSE tasks[t].status
  BY MarkedTasks
<1>2. \A t \in Task : Open(t)' => Open(t)
  BY <1>1 DEF Open
<1>3. CallersKnown'
  BY StillKnown
<1>4. \A t \in Task : TaskLike(tasks[t])'
  BY <1>1
<1>5. Shape'
  BY <1>1, <1>3, <1>4 DEF Shape, CallerLike
<1>6. OutcomeInv'
  <2>1. NothingAccepted'
    BY DEF OutcomeInv, NothingAccepted
  <2> QED
    BY <1>1, <1>2, <2>1, QuietOutcomes DEF Handling
<1>7. QueueInv'
  BY <1>1, <1>2, QuietQueue
<1> QED
  BY <1>5, <1>6, <1>7

-----------------------------------------------------------------------------
(* Steps of queueAgentTask and of handlers that accept and insert nothing. *)

\* A caller of queueAgentTask goes on, to its INSERT only if no task is open.
LEMMA CallerStep ==
    ASSUME SchedulingInv, NEW q \in Queuer, NEW new, CallerLike(new),
           queue' = [queue EXCEPT ![q] = new],
           new.at = "inserting" => ~HasOpenTask(new.check, new.agent),
           UNCHANGED <<tasks, agents, calls, clients, reports, timeouts, overtaken, doubled>>
    PROVE  SchedulingInv'
<1> USE DEF SchedulingInv
<1>1. /\ queue' = [p \in Queuer |-> queue'[p]]
      /\ \A p \in Queuer : CallerLike(queue'[p])
      /\ queue'[q] = new
      /\ \A p \in Queuer : p # q => queue'[p] = queue[p]
  BY MovedCaller
<1>2. \A p \in Queuer : CallerLike(queue[p])'
  BY <1>1
<1>3. Shape'
  BY <1>1, <1>2 DEF Shape, TaskLike, CallersKnown
<1>4. OutcomeInv'
  BY DEF OutcomeInv, OpenUnsettled, SoleReporter, NothingAccepted, AcceptedUnreported,
         OneOutcomePerOpening, Open, Handling, Revoked
<1>5. InsertsFit'
  <2> SUFFICES ASSUME NEW p \in Queuer, queue'[p].at = "inserting"
               PROVE  \/ queue'[p].rival
                      \/ queue'[p].check \in doubled'
                      \/ ~HasOpenTask(queue[p].check, queue[p].agent)'
    BY DEF InsertsFit
  <2>1. \A c, a : HasOpenTask(c, a)' <=> HasOpenTask(c, a)
    BY DEF HasOpenTask, Open
  <2>2. CASE p = q
    BY <1>1, <2>1, <2>2
  <2>3. CASE p # q
    <3>1. queue'[p] = queue[p]
      BY <1>1, <2>3
    <3> QED
      BY <2>1, <3>1 DEF QueueInv, InsertsFit
  <2> QED
    BY <2>2, <2>3
<1>6. OneOpenTask'
  BY DEF QueueInv, OneOpenTask, Open
<1> QED
  BY <1>3, <1>4, <1>5, <1>6 DEF QueueInv

\* Handlers go on, but none that accepts results gets more of them.
LEMMA HandlerStep ==
    ASSUME SchedulingInv, calls' \in [Call -> Handler], clients' \in [Agent -> Client],
           CallersKnown', NothingAccepted',
           \A k \in Call : Handling(k)' =>
               /\ Handling(k) /\ calls'[k].agent = calls[k].agent
               /\ calls'[k].tasks \subseteq calls[k].tasks,
           UNCHANGED <<tasks, queue, agents, reports, timeouts, overtaken, doubled>>
    PROVE  SchedulingInv'
<1> USE DEF SchedulingInv
<1>1. Shape'
  BY DEF Shape, TaskLike, CallerLike
<1>2. OutcomeInv'
  BY QuietOutcomes DEF Open
<1>3. QueueInv'
  BY QuietQueue DEF Open
<1> QED
  BY <1>1, <1>2, <1>3

\* The agent that waits for the answer to its poll gets its tasks.
LEMMA Answered ==
    ASSUME Shape, NEW k \in Call, NEW got \in SUBSET Task, AnswerPoll(k, got)
    PROVE  /\ calls' \in [Call -> Handler] /\ clients' \in [Agent -> Client]
           /\ calls'[k] = Free
           /\ \A l \in Call : l # k => calls'[l] = calls[l]
<1>1. Idle \in Client /\ [at |-> "executing", tasks |-> got] \in Client
  BY DEF Idle, Client
<1> QED
  BY <1>1, IdleCalls DEF Shape, AnswerPoll

\* The invariant holds at the start, with no task.
LEMMA SchedulingInit == Init => SchedulingInv
<1> SUFFICES ASSUME Init PROVE SchedulingInv
  OBVIOUS
<1>1. TaskLike(NoTask) /\ NoTask.status = "absent"
  BY DEF TaskLike, NoTask
<1>2. agents \in [Agent -> AgentRow]
  <2>1. PICK first \in Agent, status \in {"active", "revoked"} :
           agents = [a \in Agent |-> [status |-> IF a = first THEN status ELSE "absent",
                                      capable |-> TRUE]]
    BY DEF Init
  <2> QED
    BY <2>1 DEF AgentRow
<1>3. /\ tasks = [t \in Task |-> NoTask]
      /\ queue = [q \in Queuer |-> IdleQueue]
      /\ calls = [k \in Call |-> Free]
      /\ clients = [a \in Agent |-> Idle]
      /\ reports = [t \in Task |-> 0] /\ timeouts = [t \in Task |-> 0]
  BY DEF Init
<1>4. /\ \A t \in Task : TaskLike(tasks[t]) /\ ~Open(t)
      /\ \A q \in Queuer : CallerLike(queue[q]) /\ queue[q].at = "idle"
      /\ \A k \in Call : calls[k].at = "free"
  BY <1>1, <1>3, IdleCalls DEF Open
<1>5. Shape
  BY <1>2, <1>3, <1>4, IdleCalls DEF Shape, CallersKnown
<1>6. OutcomeInv
  BY <1>3, <1>4 DEF OutcomeInv, OpenUnsettled, SoleReporter, NothingAccepted,
                    AcceptedUnreported, OneOutcomePerOpening, Handling
<1>7. QueueInv
  BY <1>4 DEF QueueInv, InsertsFit, OneOpenTask
<1> QED
  BY <1>5, <1>6, <1>7 DEF SchedulingInv

-----------------------------------------------------------------------------
(* Steps that open a task.                                                 *)

\* queueAgentTask's INSERT: the row takes an unused identifier and has no outcome yet.
LEMMA InsertStep ==
    ASSUME SchedulingInv, NEW q \in Queuer, NEW t \in Task, Insert(q, t)
    PROVE  SchedulingInv'
<1> USE DEF SchedulingInv
<1> DEFINE row == [status |-> "pending", agent |-> queue[q].agent, check |-> queue[q].check,
                   old |-> FALSE]
           twin(p) == /\ p # q /\ queue[p].at = "inserting"
                      /\ queue[p].check = queue[q].check /\ queue[p].agent = queue[q].agent
<1>1. /\ queue[q].at = "inserting" /\ ~Open(t)
      /\ \A k \in Call : calls[k].at # "accept" \/ t \notin calls[k].tasks
      /\ tasks' = [tasks EXCEPT ![t] = row]
      /\ queue' = [p \in Queuer |-> IF p = q THEN [queue[q] EXCEPT !.at = "scheduling"]
                                    ELSE IF twin(p) THEN [queue[p] EXCEPT !.rival = TRUE]
                                    ELSE queue[p]]
      /\ doubled' = IF queue[q].rival THEN doubled \cup {queue[q].check} ELSE doubled
      /\ agents' = agents
  BY DEF Insert
<1>2. /\ calls' = [k \in Call |-> [calls[k] EXCEPT !.tasks = @ \ {t}, !.others = @ \ {t}]]
      /\ clients' = [a \in Agent |-> [clients[a] EXCEPT !.tasks = @ \ {t}]]
      /\ reports' = [reports EXCEPT ![t] = 0] /\ timeouts' = [timeouts EXCEPT ![t] = 0]
      /\ overtaken' = overtaken \ {t}
  BY DEF Insert, Forget
<1>3. TaskLike(row) /\ row.status = "pending" /\ row.agent = queue[q].agent
      /\ row.check = queue[q].check
  BY DEF TaskLike
<1> HIDE DEF row
<1>4. /\ tasks' = [u \in Task |-> tasks'[u]]
      /\ tasks'[t] = row
      /\ \A u \in Task : u # t => tasks'[u] = tasks[u]
      /\ \A u \in Task : TaskLike(tasks'[u])
  BY <1>1, <1>3 DEF Shape
<1>5. \A p \in Queuer :
         /\ CallerLike(queue'[p])
         /\ queue'[p].at = "inserting" => /\ p # q /\ queue[p].at = "inserting"
                                          /\ queue'[p].check = queue[p].check
                                          /\ queue'[p].agent = queue[p].agent
                                          /\ queue'[p].rival <=> queue[p].rival \/ twin(p)
  <2> SUFFICES ASSUME NEW p \in Queuer
               PROVE  /\ CallerLike(queue'[p])
                      /\ queue'[p].at = "inserting" =>
                            /\ p # q /\ queue[p].at = "inserting"
                            /\ queue'[p].check = queue[p].check
                            /\ queue'[p].agent = queue[p].agent
                            /\ queue'[p].rival <=> queue[p].rival \/ twin(p)
    OBVIOUS
  <2>1. CallerLike(queue[p])
    BY DEF Shape
  <2>2. CASE p = q
    <3>1. queue'[p] = [queue[p] EXCEPT !.at = "scheduling"]
      BY <1>1, <2>2
    <3> QED
      BY <2>1, <3>1 DEF CallerLike
  <2>3. CASE twin(p)
    <3>1. queue'[p] = [queue[p] EXCEPT !.rival = TRUE]
      BY <1>1, <2>3
    <3> QED
      BY <2>1, <2>3, <3>1 DEF CallerLike
  <2>4. CASE p # q /\ ~twin(p)
    <3>1. queue'[p] = queue[p]
      BY <1>1, <2>4
    <3> QED
      BY <2>1, <2>4, <3>1
  <2> QED
    BY <2>2, <2>3, <2>4
<1>6. queue' = [p \in Queuer |-> queue'[p]]
  BY <1>1
<1>7. \A k \in Call : /\ calls'[k] \in Handler
                      /\ calls'[k].at = calls[k].at /\ calls'[k].agent = calls[k].agent
                      /\ calls'[k].tasks = calls[k].tasks \ {t}
  BY <1>2 DEF Shape, Handler
<1>8. \A a \in Agent : clients'[a] \in Client
  BY <1>2 DEF Shape, Client
<1>9. reports' \in [Task -> Nat] /\ timeouts' \in [Task -> Nat]
  BY <1>2 DEF Shape
<1>10. /\ reports'[t] = 0 /\ timeouts'[t] = 0
       /\ \A u \in Task : u # t => reports'[u] = reports[u] /\ timeouts'[u] = timeouts[u]
  BY <1>2 DEF Shape
<1>11. Shape'
  <2>1. \A u \in Task : TaskLike(tasks[u])'
    BY <1>4
  <2>2. \A p \in Queuer : CallerLike(queue[p])'
    BY <1>5
  <2>3. CallersKnown'
    BY <1>1, <1>7, StillKnown
  <2>4. calls' \in [Call -> Handler] /\ clients' \in [Agent -> Client]
    BY <1>2, <1>7, <1>8
  <2> QED
    BY <1>1, <1>4, <1>6, <1>9, <2>1, <2>2, <2>3, <2>4 DEF Shape
<1>12. \A a : Revoked(a)' <=> Revoked(a)
  BY <1>1 DEF Revoked
<1>13. \A u \in Task : u # t => (Open(u)' <=> Open(u))
  BY <1>4 DEF Open
<1>14. OutcomeInv'
  <2>1. OpenUnsettled'
    BY <1>10, <1>13 DEF OutcomeInv, OpenUnsettled
  <2>2. SoleReporter'
    BY <1>7, <1>12 DEF OutcomeInv, SoleReporter, Handling
  <2>3. AcceptedUnreported'
    <3> SUFFICES ASSUME NEW k \in Call, Handling(k)', NEW u \in calls'[k].tasks
                 PROVE  /\ tasks'[u].agent = calls'[k].agent
                        /\ timeouts'[u] = 0 \/ u \in overtaken'
                        /\ ~Revoked(calls[k].agent)' => reports'[u] = 0
      BY DEF AcceptedUnreported
    <3>1. Handling(k) /\ u \in calls[k].tasks /\ u # t /\ u \in Task
      BY <1>7 DEF Handling, Shape, Handler
    <3>2. /\ tasks[u].agent = calls[k].agent
          /\ timeouts[u] = 0 \/ u \in overtaken
          /\ ~Revoked(calls[k].agent) => reports[u] = 0
      BY <3>1 DEF OutcomeInv, AcceptedUnreported
    <3>3. /\ tasks'[u].agent = tasks[u].agent /\ calls'[k].agent = calls[k].agent
          /\ timeouts'[u] = timeouts[u] /\ reports'[u] = reports[u]
          /\ u \in overtaken' <=> u \in overtaken
      BY <1>2, <1>4, <1>7, <1>10, <3>1
    <3> QED
      BY <1>12, <3>2, <3>3
  <2>4. OneOutcomePerOpening'
    <3> SUFFICES ASSUME NEW u \in Task
                 PROVE  /\ timeouts'[u] <= 1
                        /\ ~Revoked(tasks[u].agent)' =>
                              /\ reports'[u] <= 1
                              /\ u \notin overtaken' => reports'[u] + timeouts'[u] <= 1
      BY DEF OneOutcomePerOpening
    <3>1. CASE u = t
      BY <1>10, <3>1
    <3>2. CASE u # t
      <4>1. /\ tasks'[u].agent = tasks[u].agent
            /\ reports'[u] = reports[u] /\ timeouts'[u] = timeouts[u]
            /\ u \in overtaken' <=> u \in overtaken
        BY <1>2, <1>4, <1>10, <3>2
      <4> QED
        BY <1>12, <4>1 DEF OutcomeInv, OneOutcomePerOpening
    <3> QED
      BY <3>1, <3>2
  <2>5. NothingAccepted'
    BY <1>7 DEF OutcomeInv, NothingAccepted
  <2> QED
    BY <2>1, <2>2, <2>3, <2>4, <2>5 DEF OutcomeInv
<1>15. InsertsFit'
  <2> SUFFICES ASSUME NEW p \in Queuer, queue'[p].at = "inserting"
               PROVE  \/ queue'[p].rival
                      \/ queue'[p].check \in doubled'
                      \/ ~HasOpenTask(queue[p].check, queue[p].agent)'
    BY DEF InsertsFit
  <2>1. /\ p # q /\ queue[p].at = "inserting"
        /\ queue'[p].check = queue[p].check /\ queue'[p].agent = queue[p].agent
        /\ queue'[p].rival <=> queue[p].rival \/ twin(p)
    BY <1>5
  <2>2. CASE queue[p].rival \/ twin(p) \/ queue[p].check \in doubled
    BY <1>1, <2>1, <2>2
  <2>3. CASE ~twin(p) /\ ~HasOpenTask(queue[p].check, queue[p].agent)
    <3>1. ~(queue[p].check = queue[q].check /\ queue[p].agent = queue[q].agent)
      BY <2>1, <2>3
    <3>2. \A u \in Task : ~(Open(u) /\ tasks[u].check = queue[p].check
                                    /\ tasks[u].agent = queue[p].agent)
      BY <2>3 DEF HasOpenTask
    <3>3. \A u \in Task : ~(Open(u)' /\ tasks'[u].check = queue'[p].check
                                     /\ tasks'[u].agent = queue'[p].agent)
      BY <1>3, <1>4, <1>13, <2>1, <3>1, <3>2
    <3> QED
      BY <3>3 DEF HasOpenTask
  <2> QED
    BY <2>1, <2>2, <2>3 DEF QueueInv, InsertsFit
<1>16. OneOpenTask'
  <2>1. ASSUME NEW u \in Task, u # t, Open(u), tasks[u].check = queue[q].check,
               tasks[u].agent = queue[q].agent
        PROVE  queue[q].check \in doubled'
    <3>1. HasOpenTask(queue[q].check, queue[q].agent)
      BY <2>1 DEF HasOpenTask
    <3>2. queue[q].rival \/ queue[q].check \in doubled
      BY <1>1, <3>1 DEF QueueInv, InsertsFit
    <3> QED
      BY <1>1, <3>2
  <2> SUFFICES ASSUME NEW u \in Task, NEW v \in Task, u # v, Open(u)', Open(v)',
                      tasks'[u].check = tasks'[v].check, tasks'[u].agent = tasks'[v].agent
               PROVE  tasks'[u].check \in doubled'
    BY DEF OneOpenTask
  <2>2. CASE u # t /\ v # t
    <3>1. tasks'[u] = tasks[u] /\ tasks'[v] = tasks[v] /\ Open(u) /\ Open(v)
      BY <1>4, <1>13, <2>2
    <3> QED
      BY <1>1, <3>1 DEF QueueInv, OneOpenTask
  <2>3. CASE u = t
    <3>1. tasks'[v] = tasks[v] /\ Open(v)
      BY <1>4, <1>13, <2>3
    <3> QED
      BY <1>3, <1>4, <2>1, <2>3, <3>1
  <2>4. CASE v = t
    <3>1. tasks'[u] = tasks[u] /\ Open(u) /\ u # t
      BY <1>4, <1>13, <2>4
    <3> QED
      BY <1>3, <1>4, <2>1, <2>4, <3>1
  <2> QED
    BY <2>2, <2>3, <2>4
<1> QED
  BY <1>11, <1>14, <1>15, <1>16 DEF QueueInv

\* poll's UPDATE by id: what was settled meanwhile is open again, with no outcome counted.
LEMMA ClaimStep ==
    ASSUME SchedulingInv, NEW k \in Call, ClaimTasks(k)
    PROVE  SchedulingInv'
<1> USE DEF SchedulingInv
<1> DEFINE got == calls[k].tasks
           again == {t \in got : ~Open(t)}
<1>1. /\ calls[k].at = "claim"
      /\ tasks' = Mark(got, "claimed")
      /\ AnswerPoll(k, got)
      /\ reports' = [t \in Task |-> IF t \in again THEN 0 ELSE reports[t]]
      /\ timeouts' = [t \in Task |-> IF t \in again THEN 0 ELSE timeouts[t]]
      /\ overtaken' = overtaken \ again
      /\ doubled' = doubled \cup {tasks[t].check : t \in again}
      /\ UNCHANGED <<agents, queue>>
  BY DEF ClaimTasks
<1>2. got \in SUBSET Task
  BY DEF Shape, Handler
<1> HIDE DEF got
<1>3. /\ tasks' = [t \in Task |-> tasks'[t]]
      /\ \A t \in Task : /\ TaskLike(tasks'[t])
                         /\ tasks'[t].agent = tasks[t].agent
                         /\ tasks'[t].check = tasks[t].check
                         /\ tasks'[t].status = IF t \in got THEN "claimed" ELSE tasks[t].status
  BY <1>1, MarkedTasks
<1>4. /\ calls' \in [Call -> Handler] /\ clients' \in [Agent -> Client]
      /\ calls'[k] = Free
      /\ \A l \in Call : l # k => calls'[l] = calls[l]
  BY <1>1, <1>2, Answered
<1>5. \A l \in Call : Handling(l)' => Handling(l) /\ calls'[l] = calls[l]
  BY <1>4, IdleCalls DEF Handling
<1>6. /\ reports' \in [Task -> Nat] /\ timeouts' \in [Task -> Nat]
      /\ \A t \in Task :
            /\ t \in again => reports'[t] = 0 /\ timeouts'[t] = 0
            /\ t \notin again => /\ reports'[t] = reports[t] /\ timeouts'[t] = timeouts[t]
                                 /\ t \in overtaken' <=> t \in overtaken
  BY <1>1 DEF Shape
<1>7. \A t \in Task : Open(t)' => t \in again \/ Open(t)
  BY <1>3 DEF Open
<1>8. \A a : Revoked(a)' <=> Revoked(a)
  BY <1>1 DEF Revoked
<1>9. Shape'
  <2>1. \A u \in Task : TaskLike(tasks[u])'
    BY <1>3
  <2>2. CallersKnown'
    <3>1. \A l \in Call : calls'[l].at # "free" =>
             calls[l].at # "free" /\ calls'[l].agent = calls[l].agent
      BY <1>4, IdleCalls
    <3> QED
      BY <1>1, <3>1, StillKnown
  <2> QED
    BY <1>1, <1>3, <1>4, <1>6, <2>1, <2>2 DEF Shape, CallerLike
<1>10. OutcomeInv'
  <2>1. OpenUnsettled'
    BY <1>6, <1>7 DEF OutcomeInv, OpenUnsettled
  <2>2. SoleReporter'
    BY <1>5, <1>8 DEF OutcomeInv, SoleReporter
  <2>3. AcceptedUnreported'
    <3> SUFFICES ASSUME NEW l \in Call, Handling(l)', NEW t \in calls'[l].tasks
                 PROVE  /\ tasks'[t].agent = calls'[l].agent
                        /\ timeouts'[t] = 0 \/ t \in overtaken'
                        /\ ~Revoked(calls[l].agent)' => reports'[t] = 0
      BY DEF AcceptedUnreported
    <3>1. Handling(l) /\ calls'[l] = calls[l] /\ t \in calls[l].tasks /\ t \in Task
      BY <1>5 DEF Shape, Handler
    <3>2. /\ tasks[t].agent = calls[l].agent
          /\ timeouts[t] = 0 \/ t \in overtaken
          /\ ~Revoked(calls[l].agent) => reports[t] = 0
      BY <3>1 DEF OutcomeInv, AcceptedUnreported
    <3> QED
      BY <1>3, <1>6, <1>8, <3>1, <3>2
  <2>4. OneOutcomePerOpening'
    <3> SUFFICES ASSUME NEW t \in Task
                 PROVE  /\ timeouts'[t] <= 1
                        /\ ~Revoked(tasks[t].agent)' =>
                              /\ reports'[t] <= 1
                              /\ t \notin overtaken' => reports'[t] + timeouts'[t] <= 1
      BY DEF OneOutcomePerOpening
    <3>1. CASE t \in again
      BY <1>6, <3>1
    <3>2. CASE t \notin again
      BY <1>3, <1>6, <1>8, <3>2 DEF OutcomeInv, OneOutcomePerOpening
    <3> QED
      BY <3>1, <3>2
  <2>5. NothingAccepted'
    BY <1>4, IdleCalls DEF OutcomeInv, NothingAccepted
  <2> QED
    BY <2>1, <2>2, <2>3, <2>4, <2>5 DEF OutcomeInv
<1>11. \A t \in Task : t \in again => tasks[t].check \in doubled'
  BY <1>1
<1>12. doubled \subseteq doubled'
  BY <1>1
<1> HIDE DEF again
<1>13. InsertsFit'
  <2> SUFFICES ASSUME NEW p \in Queuer, queue'[p].at = "inserting",
                      HasOpenTask(queue[p].check, queue[p].agent)'
               PROVE  queue'[p].rival \/ queue'[p].check \in doubled'
    BY DEF InsertsFit
  <2>1. PICK t \in Task : Open(t)' /\ tasks'[t].check = queue'[p].check
                                   /\ tasks'[t].agent = queue'[p].agent
    BY DEF HasOpenTask
  <2>2. queue'[p] = queue[p] /\ tasks[t].check = queue[p].check /\ tasks[t].agent = queue[p].agent
    BY <1>1, <1>3, <2>1
  <2>3. CASE t \in again
    BY <1>11, <2>2, <2>3
  <2>4. CASE Open(t)
    <3>1. HasOpenTask(queue[p].check, queue[p].agent)
      BY <2>2, <2>4 DEF HasOpenTask
    <3> QED
      BY <1>12, <2>2, <3>1 DEF QueueInv, InsertsFit
  <2> QED
    BY <1>7, <2>1, <2>3, <2>4
<1>14. OneOpenTask'
  BY <1>3, <1>7, <1>11, <1>12 DEF QueueInv, OneOpenTask
<1> QED
  BY <1>9, <1>10, <1>13, <1>14 DEF QueueInv

-----------------------------------------------------------------------------
(* Steps that settle tasks.                                                *)

\* expireAgentTasks' UPDATE: it settles an open task before the time-out is recorded.
LEMMA ExpireTaskStep ==
    ASSUME SchedulingInv, NEW t \in Task, ExpireTask(t)
    PROVE  SchedulingInv'
<1> USE DEF SchedulingInv
<1>1. UNCHANGED <<queue, agents, calls, clients, reports, doubled>>
  BY DEF ExpireTask
<1>2. CASE ~Open(t)
  <2>1. UNCHANGED <<tasks, timeouts, overtaken>>
    BY <1>2 DEF ExpireTask, StillOpen
  <2> QED
    BY <1>1, <2>1, ElsewhereStep
<1>3. CASE Open(t)
  <2>1. /\ tasks' = Mark({t}, "expired")
        /\ timeouts' = [timeouts EXCEPT ![t] = @ + 1]
        /\ overtaken \subseteq overtaken' /\ overtaken' \subseteq overtaken \cup {t}
        /\ (\E k \in Call : Handling(k) /\ t \in calls[k].tasks) => t \in overtaken'
    BY <1>3 DEF ExpireTask, StillOpen, Handling
  <2>2. /\ tasks' = [u \in Task |-> tasks'[u]]
        /\ \A u \in Task : /\ TaskLike(tasks'[u])
                           /\ tasks'[u].agent = tasks[u].agent
                           /\ tasks'[u].check = tasks[u].check
                           /\ tasks'[u].status = IF u \in {t} THEN "expired" ELSE tasks[u].status
    BY <2>1, MarkedTasks
  <2>3. /\ ~Open(t)'
        /\ \A u \in Task : Open(u)' => Open(u) /\ u # t
    BY <2>2 DEF Open
  <2>4. reports[t] = 0 /\ timeouts[t] = 0
    BY <1>3 DEF OutcomeInv, OpenUnsettled
  <2>5. /\ timeouts' \in [Task -> Nat] /\ timeouts'[t] = 1
        /\ \A u \in Task : u # t => timeouts'[u] = timeouts[u]
    BY <2>1, <2>4 DEF Shape
  <2>6. \A a : Revoked(a)' <=> Revoked(a)
    BY <1>1 DEF Revoked
  <2>7. Shape'
    <3>1. \A u \in Task : TaskLike(tasks[u])'
      BY <2>2
    <3>2. CallersKnown'
      BY <1>1 DEF Shape, CallersKnown
    <3> QED
      BY <1>1, <2>2, <2>5, <3>1, <3>2 DEF Shape, CallerLike
  <2>8. OutcomeInv'
    <3>1. OpenUnsettled'
      BY <1>1, <2>3, <2>5 DEF OutcomeInv, OpenUnsettled
    <3>2. SoleReporter'
      BY <1>1, <2>6 DEF OutcomeInv, SoleReporter, Handling
    <3>3. AcceptedUnreported'
      <4> SUFFICES ASSUME NEW k \in Call, Handling(k)', NEW u \in calls'[k].tasks
                   PROVE  /\ tasks'[u].agent = calls'[k].agent
                          /\ timeouts'[u] = 0 \/ u \in overtaken'
                          /\ ~Revoked(calls[k].agent)' => reports'[u] = 0
        BY DEF AcceptedUnreported
      <4>1. Handling(k) /\ u \in calls[k].tasks /\ u \in Task
        BY <1>1 DEF Handling, Shape, Handler
      <4>2. /\ tasks[u].agent = calls[k].agent
            /\ timeouts[u] = 0 \/ u \in overtaken
            /\ ~Revoked(calls[k].agent) => reports[u] = 0
        BY <4>1 DEF OutcomeInv, AcceptedUnreported
      <4>3. timeouts'[u] = 0 \/ u \in overtaken'
        BY <2>1, <2>5, <4>1, <4>2
      <4> QED
        BY <1>1, <2>2, <2>6, <4>1, <4>2, <4>3
    <3>4. OneOutcomePerOpening'
      <4> SUFFICES ASSUME NEW u \in Task
                   PROVE  /\ timeouts'[u] <= 1
                          /\ ~Revoked(tasks[u].agent)' =>
                                /\ reports'[u] <= 1
                                /\ u \notin overtaken' => reports'[u] + timeouts'[u] <= 1
        BY DEF OneOutcomePerOpening
      <4>1. CASE u = t
        BY <1>1, <2>4, <2>5, <4>1
      <4>2. CASE u # t
        <5>1. /\ tasks'[u].agent = tasks[u].agent /\ reports'[u] = reports[u]
              /\ timeouts'[u] = timeouts[u] /\ (u \in overtaken => u \in overtaken')
          BY <1>1, <2>1, <2>2, <2>5, <4>2
        <5> QED
          BY <2>6, <5>1 DEF OutcomeInv, OneOutcomePerOpening
      <4> QED
        BY <4>1, <4>2
    <3>5. NothingAccepted'
      BY <1>1 DEF OutcomeInv, NothingAccepted
    <3> QED
      BY <3>1, <3>2, <3>3, <3>4, <3>5 DEF OutcomeInv
  <2>9. QueueInv'
    BY <1>1, <2>2, <2>3, QuietQueue
  <2> QED
    BY <2>7, <2>8, <2>9
<1> QED
  BY <1>2, <1>3

\* Tasks a poll does not give out: settled ones among them are only marked anew.
LEMMA ExpireUnsupportedStep ==
    ASSUME SchedulingInv, NEW k \in Call, ExpireUnsupported(k)
    PROVE  SchedulingInv'
<1> USE DEF SchedulingInv
<1>1. /\ calls[k].at = "expire" /\ tasks' = Mark(calls[k].others, "expired")
      /\ UNCHANGED <<agents, queue, reports, timeouts, overtaken, doubled>>
  BY DEF ExpireUnsupported, history
<1>2. /\ calls' \in [Call -> Handler] /\ clients' \in [Agent -> Client]
      /\ calls'[k].at \in {"free", "claim"}
      /\ calls'[k].at = "claim" => calls'[k].agent = calls[k].agent
      /\ \A l \in Call : l # k => calls'[l] = calls[l]
  <2>1. CASE calls[k].tasks = {}
    <3>1. AnswerPoll(k, {})
      BY <2>1 DEF ExpireUnsupported
    <3> QED
      BY <3>1, Answered, IdleCalls
  <2>2. CASE calls[k].tasks # {}
    <3> DEFINE new == [calls[k] EXCEPT !.at = "claim", !.others = {}]
    <3>1. calls' = [calls EXCEPT ![k] = new] /\ clients' = clients
      BY <2>2 DEF ExpireUnsupported
    <3>2. new \in Handler /\ new.at = "claim" /\ new.agent = calls[k].agent
      BY DEF Shape, Handler
    <3> HIDE DEF new
    <3> QED
      BY <3>1, <3>2 DEF Shape
  <2> QED
    BY <2>1, <2>2
<1>3. /\ tasks' = [t \in Task |-> tasks'[t]]
      /\ \A t \in Task : /\ TaskLike(tasks'[t])
                         /\ tasks'[t].agent = tasks[t].agent
                         /\ tasks'[t].check = tasks[t].check
                         /\ tasks'[t].status = IF t \in calls[k].others THEN "expired"
                                                                       ELSE tasks[t].status
  BY <1>1, MarkedTasks
<1>4. \A t \in Task : Open(t)' => Open(t)
  BY <1>3 DEF Open
<1>5. \A l \in Call : Handling(l)' => Handling(l) /\ calls'[l] = calls[l]
  BY <1>2 DEF Handling
<1>6. CallersKnown'
  BY <1>1, <1>2, StillKnown
<1>7. \A t \in Task : TaskLike(tasks[t])'
  BY <1>3
<1>8. Shape'
  BY <1>1, <1>2, <1>3, <1>6, <1>7 DEF Shape, CallerLike
<1>9. OutcomeInv'
  <2>1. \A l \in Call : Handling(l)' => /\ Handling(l) /\ calls'[l].agent = calls[l].agent
                                        /\ calls'[l].tasks \subseteq calls[l].tasks
    BY <1>5
  <2>2. NothingAccepted'
    BY <1>2 DEF OutcomeInv, NothingAccepted
  <2> QED
    BY <1>1, <1>3, <1>4, <2>1, <2>2, QuietOutcomes
<1>10. QueueInv'
  BY <1>1, <1>3, <1>4, QuietQueue
<1> QED
  BY <1>8, <1>9, <1>10

-----------------------------------------------------------------------------
(* The steps of a report.                                                  *)

\* The transaction of a heartbeat begins when no other holds the agent's row.
LEMMA LockStep ==
    ASSUME SchedulingInv, NEW k \in Call, LockAgent(k)
    PROVE  SchedulingInv'
<1> USE DEF SchedulingInv
<1> DEFINE new == [calls[k] EXCEPT !.at = "accept"]
<1>1. /\ calls[k].at = "lock" /\ ~Locked(calls[k].agent)
      /\ calls' = [calls EXCEPT ![k] = new]
      /\ UNCHANGED <<tasks, queue, agents, clients, reports, timeouts, overtaken, doubled>>
  BY DEF LockAgent, rows, history
<1>2. /\ new \in Handler /\ new.at = "accept"
      /\ new.agent = calls[k].agent /\ new.tasks = calls[k].tasks
  BY DEF Shape, Handler
<1> HIDE DEF new
<1>3. /\ calls' \in [Call -> Handler] /\ calls'[k] = new
      /\ \A l \in Call : l # k => calls'[l] = calls[l]
  BY <1>1, <1>2 DEF Shape
<1>4. calls[k].tasks = {}
  BY <1>1 DEF OutcomeInv, NothingAccepted
<1>5. CallersKnown'
  BY <1>1, <1>2, <1>3, StillKnown
<1>6. Shape'
  BY <1>1, <1>3, <1>5 DEF Shape, TaskLike, CallerLike
<1>7. \A a : Revoked(a)' <=> Revoked(a)
  BY <1>1 DEF Revoked
<1>8. SoleReporter'
  <2>1. ASSUME NEW l \in Call, l # k, Handling(l)', calls'[l].agent = calls'[k].agent,
               ~Revoked(calls[k].agent)'
        PROVE  FALSE
    <3>1. Handling(l) /\ calls[l].agent = calls[k].agent /\ ~Revoked(calls[k].agent)
      BY <1>2, <1>3, <1>7, <2>1 DEF Handling
    <3>2. calls[l].agent \in Agent /\ agents[calls[l].agent].status # "absent"
      BY <3>1 DEF Shape, CallersKnown, Handling
    <3>3. Active(calls[k].agent)
      <4>1. agents[calls[l].agent].status = "active"
        BY <3>1, <3>2 DEF Revoked, Shape, AgentRow
      <4>2. calls[l].agent # NoAgent
        BY <3>2, SchedulingAssumption
      <4> QED
        BY <3>1, <4>1, <4>2 DEF Active
    <3> QED
      BY <1>1, <3>1, <3>3 DEF Locked, Handling
  <2> SUFFICES ASSUME NEW l \in Call, NEW m \in Call, l # m, Handling(l)', Handling(m)',
                      calls'[l].agent = calls'[m].agent, ~Revoked(calls[l].agent)'
               PROVE  FALSE
    BY DEF SoleReporter
  <2>2. CASE l = k
    BY <2>1, <2>2
  <2>3. CASE m = k
    <3>1. ~Revoked(calls[m].agent)'
      OBVIOUS
    <3> QED
      BY <2>1, <2>3, <3>1
  <2>4. CASE l # k /\ m # k
    BY <1>3, <1>7, <2>4 DEF OutcomeInv, SoleReporter, Handling
  <2> QED
    BY <2>2, <2>3, <2>4
<1>9. NothingAccepted'
  BY <1>2, <1>3 DEF OutcomeInv, NothingAccepted
<1>10. AcceptedUnreported'
  BY <1>1, <1>2, <1>3, <1>4, <1>7 DEF OutcomeInv, AcceptedUnreported, Handling
<1>11. OpenUnsettled' /\ OneOutcomePerOpening'
  BY <1>1 DEF OutcomeInv, OpenUnsettled, OneOutcomePerOpening, Open, Revoked
<1>12. QueueInv'
  BY <1>1, QuietQueue DEF Open
<1> QED
  BY <1>6, <1>8, <1>9, <1>10, <1>11, <1>12 DEF OutcomeInv

\* acceptResult takes an open task of the agent, which has no result yet.
LEMMA AcceptStep ==
    ASSUME SchedulingInv, NEW k \in Call, NEW t \in Task, AcceptResult(k, t)
    PROVE  SchedulingInv'
<1> USE DEF SchedulingInv
<1> DEFINE accepted == IF Acceptable(k, t) THEN {t} ELSE {}
           new == [calls[k] EXCEPT !.others = calls[k].others \ {t},
                                   !.tasks = calls[k].tasks \cup accepted]
<1>1. /\ calls[k].at = "accept" /\ calls' = [calls EXCEPT ![k] = new]
      /\ UNCHANGED <<tasks, queue, agents, clients, reports, timeouts, overtaken, doubled>>
  BY DEF AcceptResult, rows, history
<1>2. /\ accepted \subseteq Task
      /\ \A u \in accepted : Open(u) /\ tasks[u].agent = calls[k].agent
  BY DEF Acceptable
<1> HIDE DEF accepted
<1>3. /\ new \in Handler /\ new.at = "accept"
      /\ new.agent = calls[k].agent /\ new.tasks = calls[k].tasks \cup accepted
  BY <1>1, <1>2 DEF Shape, Handler
<1> HIDE DEF new
<1>4. /\ calls' \in [Call -> Handler] /\ calls'[k] = new
      /\ \A l \in Call : l # k => calls'[l] = calls[l]
  BY <1>1, <1>3 DEF Shape
<1>5. CallersKnown'
  BY <1>1, <1>3, <1>4, StillKnown
<1>6. Shape'
  BY <1>1, <1>4, <1>5 DEF Shape, TaskLike, CallerLike
<1>7. \A a : Revoked(a)' <=> Revoked(a)
  BY <1>1 DEF Revoked
<1>8. \A l \in Call : calls'[l].at = calls[l].at /\ calls'[l].agent = calls[l].agent
  BY <1>1, <1>3, <1>4
<1>9. SoleReporter'
  BY <1>7, <1>8 DEF OutcomeInv, SoleReporter, Handling
<1>10. NothingAccepted'
  BY <1>3, <1>4 DEF OutcomeInv, NothingAccepted
<1>11. AcceptedUnreported'
  <2> SUFFICES ASSUME NEW l \in Call, Handling(l)', NEW u \in calls'[l].tasks
               PROVE  /\ tasks'[u].agent = calls'[l].agent
                      /\ timeouts'[u] = 0 \/ u \in overtaken'
                      /\ ~Revoked(calls[l].agent)' => reports'[u] = 0
    BY DEF AcceptedUnreported
  <2>1. Handling(l)
    BY <1>8 DEF Handling
  <2>2. CASE u \in calls[l].tasks
    BY <1>1, <1>7, <1>8, <2>1, <2>2 DEF OutcomeInv, AcceptedUnreported
  <2>3. CASE u \notin calls[l].tasks
    <3>1. l = k /\ u \in accepted
      BY <1>3, <1>4, <2>3
    <3>2. /\ tasks[u].agent = calls[k].agent /\ reports[u] = 0 /\ timeouts[u] = 0
      BY <1>2, <3>1 DEF OutcomeInv, OpenUnsettled
    <3> QED
      BY <1>1, <1>8, <3>1, <3>2
  <2> QED
    BY <2>2, <2>3
<1>12. OpenUnsettled' /\ OneOutcomePerOpening'
  BY <1>1 DEF OutcomeInv, OpenUnsettled, OneOutcomePerOpening, Open, Revoked
<1>13. QueueInv'
  BY <1>1, QuietQueue DEF Open
<1> QED
  BY <1>6, <1>9, <1>10, <1>11, <1>12, <1>13 DEF OutcomeInv

\* The transaction commits: the accepted results are recorded, and the row is free.
LEMMA CommitStep ==
    ASSUME SchedulingInv, NEW k \in Call, CommitReport(k)
    PROVE  SchedulingInv'
<1> USE DEF SchedulingInv
<1> DEFINE got == calls[k].tasks
<1>1. /\ calls[k].at = "accept"
      /\ agents' = IF Active(calls[k].agent)
                   THEN [agents EXCEPT ![calls[k].agent].capable = calls[k].capable] ELSE agents
      /\ tasks' = Mark(got, "completed")
      /\ reports' = [t \in Task |-> IF t \in got THEN reports[t] + 1 ELSE reports[t]]
      /\ calls' = [calls EXCEPT ![k] = Free]
      /\ clients' = IF calls[k].awaited THEN [clients EXCEPT ![calls[k].agent] = Idle]
                                        ELSE clients
      /\ UNCHANGED <<queue, timeouts, overtaken, doubled>>
  BY DEF CommitReport
<1>2. /\ calls[k].agent \in Agent /\ got \in SUBSET Task /\ calls[k].capable \in BOOLEAN
  BY <1>1 DEF Shape, Handler, CallersKnown
<1>3. \A t \in got : /\ tasks[t].agent = calls[k].agent
                     /\ timeouts[t] = 0 \/ t \in overtaken
                     /\ ~Revoked(calls[k].agent) => reports[t] = 0
  BY <1>1 DEF OutcomeInv, AcceptedUnreported, Handling
<1> HIDE DEF got
<1>4. /\ tasks' = [t \in Task |-> tasks'[t]]
      /\ \A t \in Task : /\ TaskLike(tasks'[t])
                         /\ tasks'[t].agent = tasks[t].agent
                         /\ tasks'[t].check = tasks[t].check
                         /\ tasks'[t].status = IF t \in got THEN "completed" ELSE tasks[t].status
  BY <1>1, MarkedTasks
<1>5. /\ agents' \in [Agent -> AgentRow]
      /\ \A a \in Agent : agents'[a].status = agents[a].status
  BY <1>1, <1>2 DEF Shape, AgentRow
<1>6. \A a : Revoked(a)' <=> Revoked(a)
  BY <1>5 DEF Revoked
<1>7. /\ calls' \in [Call -> Handler] /\ calls'[k] = Free
      /\ \A l \in Call : l # k => calls'[l] = calls[l]
  BY <1>1, IdleCalls DEF Shape
<1>8. clients' \in [Agent -> Client]
  BY <1>1, IdleCalls DEF Shape
<1>9. /\ reports' \in [Task -> Nat]
      /\ \A t \in Task : reports'[t] = IF t \in got THEN reports[t] + 1 ELSE reports[t]
  BY <1>1 DEF Shape
<1>10. \A l \in Call : Handling(l)' => Handling(l) /\ l # k /\ calls'[l] = calls[l]
  BY <1>7, IdleCalls DEF Handling
<1>11. \A t \in Task : Open(t)' => Open(t) /\ t \notin got
  BY <1>4 DEF Open
<1>12. Shape'
  <2>1. \A t \in Task : TaskLike(tasks[t])'
    BY <1>4
  <2>2. CallersKnown'
    <3>1. \A l \in Call : calls'[l].at # "free" =>
             calls[l].at # "free" /\ calls'[l].agent = calls[l].agent
      BY <1>7, IdleCalls
    <3>2. \A a \in Agent : agents[a].status # "absent" => agents'[a].status # "absent"
      BY <1>5
    <3> QED
      BY <3>1, <3>2, StillKnown
  <2> QED
    BY <1>1, <1>4, <1>5, <1>7, <1>8, <1>9, <2>1, <2>2 DEF Shape, CallerLike
<1>13. OpenUnsettled'
  BY <1>1, <1>9, <1>11 DEF OutcomeInv, OpenUnsettled
<1>14. SoleReporter'
  BY <1>6, <1>10 DEF OutcomeInv, SoleReporter
<1>15. NothingAccepted'
  BY <1>7, IdleCalls DEF OutcomeInv, NothingAccepted
<1>16. AcceptedUnreported'
  <2> SUFFICES ASSUME NEW l \in Call, Handling(l)', NEW t \in calls'[l].tasks
               PROVE  /\ tasks'[t].agent = calls'[l].agent
                      /\ timeouts'[t] = 0 \/ t \in overtaken'
                      /\ ~Revoked(calls[l].agent)' => reports'[t] = 0
    BY DEF AcceptedUnreported
  <2>1. Handling(l) /\ l # k /\ calls'[l] = calls[l] /\ t \in calls[l].tasks /\ t \in Task
    BY <1>10 DEF Shape, Handler
  <2>2. /\ tasks[t].agent = calls[l].agent
        /\ timeouts[t] = 0 \/ t \in overtaken
        /\ ~Revoked(calls[l].agent) => reports[t] = 0
    BY <2>1 DEF OutcomeInv, AcceptedUnreported
  <2>3. ~Revoked(calls[l].agent) => t \notin got
    BY <1>1, <1>3, <2>1, <2>2 DEF OutcomeInv, SoleReporter, Handling
  <2> QED
    BY <1>1, <1>4, <1>6, <1>9, <2>1, <2>2, <2>3
<1>17. OneOutcomePerOpening'
  <2> SUFFICES ASSUME NEW t \in Task
               PROVE  /\ timeouts'[t] <= 1
                      /\ ~Revoked(tasks[t].agent)' =>
                            /\ reports'[t] <= 1
                            /\ t \notin overtaken' => reports'[t] + timeouts'[t] <= 1
    BY DEF OneOutcomePerOpening
  <2>1. /\ timeouts[t] <= 1
        /\ ~Revoked(tasks[t].agent) => /\ reports[t] <= 1
                                       /\ t \notin overtaken => reports[t] + timeouts[t] <= 1
    BY DEF OutcomeInv, OneOutcomePerOpening
  <2>2. CASE t \in got
    <3>1. /\ timeouts[t] = 0 \/ t \in overtaken
          /\ ~Revoked(tasks[t].agent) => reports[t] = 0
      BY <1>3, <2>2
    <3> QED
      BY <1>1, <1>4, <1>6, <1>9, <2>1, <2>2, <3>1
  <2>3. CASE t \notin got
    BY <1>1, <1>4, <1>6, <1>9, <2>1, <2>3
  <2> QED
    BY <2>2, <2>3
<1>18. QueueInv'
  BY <1>1, <1>4, <1>11, QuietQueue
<1> QED
  BY <1>12, <1>13, <1>14, <1>15, <1>16, <1>17, <1>18 DEF OutcomeInv

-----------------------------------------------------------------------------
(* Every step.                                                             *)

\* The scheduler's pass keeps the invariant.
LEMMA TickSteps ==
    ASSUME SchedulingInv, TickStep
    PROVE  SchedulingInv'
<1>1. CASE TickStart
  <2>1. PICK S : tasks' = Mark(S, "expired") /\ \A t \in S : t \in Task /\ Open(t)
    BY <1>1, ReconciledTasks DEF TickStart
  <2>2. UNCHANGED <<agents, queue, calls, clients, reports, timeouts, overtaken, doubled>>
    BY <1>1 DEF TickStart, history
  <2> QED
    BY <2>1, <2>2, SettlingStep DEF SchedulingInv, Shape
<1>2. CASE ListExpired \/ RecordTimeout \/ ListDue \/ StartDue \/ TickEnd
  BY <1>2, ElsewhereStep DEF ListExpired, RecordTimeout, ListDue, StartDue, TickEnd, rows, history
<1>3. CASE Sweep
  <2> DEFINE S == {t \in Task : Open(t) /\ tasks[t].old}
  <2>1. tasks' = Mark(S, "expired") /\ \A t \in S : t \in Task => Open(t)
    BY <1>3 DEF Sweep
  <2>2. UNCHANGED <<agents, queue, calls, clients, reports, timeouts, overtaken, doubled>>
    BY <1>3 DEF Sweep, history
  <2> HIDE DEF S
  <2> QED
    BY <2>1, <2>2, SettlingStep DEF SchedulingInv, Shape
<1>4. CASE QueueDue
  <2> DEFINE row == Head(tick.due)
             new == [at |-> IF row.served THEN "asking" ELSE "scheduling",
                     check |-> row.check, agent |-> row.agent, rival |-> FALSE]
  <2>1. /\ queue' = [queue EXCEPT ![Scheduler] = new]
        /\ UNCHANGED <<tasks, agents, calls, clients, reports, timeouts, overtaken, doubled>>
    BY <1>4 DEF QueueDue, rows, history
  <2>2. CallerLike(new) /\ new.at # "inserting"
    BY DEF CallerLike
  <2>3. Scheduler \in Queuer
    BY DEF Queuer
  <2> HIDE DEF new
  <2> QED
    BY <2>1, <2>2, <2>3, CallerStep
<1> QED
  BY <1>1, <1>2, <1>3, <1>4, ExpireTaskStep DEF TickStep

\* Callers of queueAgentTask keep the invariant.
LEMMA QueueSteps ==
    ASSUME SchedulingInv, NEW q \in Queuer, QueueStep(q)
    PROVE  SchedulingInv'
<1>0. CallerLike(queue[q])
  BY DEF SchedulingInv, Shape
<1>1. CASE Ask(q)
  <2> DEFINE pending == HasOpenTask(queue[q].check, queue[q].agent)
             new == CASE ~pending                 -> [queue[q] EXCEPT !.at = "inserting"]
                      [] pending /\ q = Scheduler -> [queue[q] EXCEPT !.at = "scheduling"]
                      [] OTHER                    -> IdleQueue
  <2>1. /\ queue' = [queue EXCEPT ![q] = new]
        /\ UNCHANGED <<tasks, agents, calls, clients, reports, timeouts, overtaken, doubled>>
    BY <1>1 DEF Ask, rows, history
  <2>2. CallerLike(new) /\ (new.at = "inserting" => ~HasOpenTask(new.check, new.agent))
    <3>1. CASE ~pending
      <4> DEFINE next == [queue[q] EXCEPT !.at = "inserting"]
      <4>1. new = next
        BY <3>1
      <4>2. CallerLike(next) /\ next.check = queue[q].check /\ next.agent = queue[q].agent
        BY <1>0 DEF CallerLike
      <4> HIDE DEF next, new
      <4> QED
        BY <3>1, <4>1, <4>2 DEF CallerLike
    <3>2. CASE pending /\ q = Scheduler
      <4> DEFINE next == [queue[q] EXCEPT !.at = "scheduling"]
      <4>1. new = next
        BY <3>2
      <4>2. CallerLike(next) /\ next.at = "scheduling"
        BY <1>0 DEF CallerLike
      <4> HIDE DEF next, new
      <4> QED
        BY <4>1, <4>2 DEF CallerLike
    <3>3. CASE pending /\ q # Scheduler
      <4>1. new = IdleQueue
        BY <3>3
      <4> HIDE DEF new
      <4> QED
        BY <4>1, IdleCalls DEF CallerLike
    <3> QED
      BY <3>1, <3>2, <3>3
  <2> HIDE DEF new
  <2> QED
    BY <2>1, <2>2, CallerStep
<1>2. CASE Schedule(q)
  <2>1. /\ queue' = [queue EXCEPT ![q] = IdleQueue]
        /\ UNCHANGED <<tasks, agents, calls, clients, reports, timeouts, overtaken, doubled>>
    BY <1>2 DEF Schedule, history
  <2> QED
    BY <2>1, IdleCalls, CallerStep
<1> QED
  BY <1>1, <1>2, InsertStep DEF QueueStep

\* Operators, who edit checks, create and revoke agents and run checks now, keep it.
LEMMA OperatorSteps ==
    ASSUME SchedulingInv, OperatorStep
    PROVE  SchedulingInv'
<1>1. ASSUME NEW enabled \in BOOLEAN, WriteEdit(enabled)
      PROVE  SchedulingInv'
  BY <1>1, ElsewhereStep DEF WriteEdit, history
<1>2. ASSUME NEW c \in Check, NEW a \in Agent \cup {NoAgent}, EditBegin(c, a)
      PROVE  SchedulingInv'
  BY <1>2, ElsewhereStep DEF EditBegin, rows, history
<1>3. ASSUME NEW a \in Agent, CreateAgent(a) \/ Revoke(a)
      PROVE  SchedulingInv'
  <2>1. PICK S : tasks' = Mark(S, "expired") /\ \A t \in S : t \in Task /\ Open(t)
    BY <1>3, ReconciledTasks DEF CreateAgent, Revoke
  <2>2. UNCHANGED <<queue, calls, clients, reports, timeouts, overtaken, doubled>>
    BY <1>3 DEF CreateAgent, Revoke, history
  <2>3. agents \in [Agent -> AgentRow]
    BY DEF SchedulingInv, Shape
  <2>4. /\ agents' \in [Agent -> AgentRow]
        /\ \A b \in Agent : /\ agents[b].status # "absent" => agents'[b].status # "absent"
                            /\ agents[b].status = "revoked" => agents'[b].status = "revoked"
    <3>1. CASE CreateAgent(a)
      BY <2>3, <3>1 DEF CreateAgent, AgentRow
    <3>2. CASE Revoke(a)
      BY <2>3, <3>2 DEF Revoke, AgentRow
    <3> QED
      BY <1>3, <3>1, <3>2
  <2> QED
    BY <2>1, <2>2, <2>4, SettlingStep
<1>4. ASSUME NEW r \in Request, NEW c \in Check, RunNow(r, c)
      PROVE  SchedulingInv'
  <2>1. UNCHANGED <<tasks, agents, calls, clients, reports, timeouts, overtaken, doubled>>
    BY <1>4 DEF RunNow, rows, history
  <2>2. CASE queue' = queue
    BY <2>1, <2>2, ElsewhereStep
  <2>3. CASE queue' # queue
    <3> DEFINE new == [at |-> "asking", check |-> c, agent |-> checks[c].agent, rival |-> FALSE]
    <3>1. queue' = [queue EXCEPT ![r] = new]
      BY <1>4, <2>3 DEF RunNow
    <3>2. CallerLike(new) /\ new.at # "inserting"
      BY DEF CallerLike
    <3>3. r \in Queuer
      BY DEF Queuer
    <3> HIDE DEF new
    <3> QED
      BY <2>1, <3>1, <3>2, <3>3, CallerStep
  <2> QED
    BY <2>2, <2>3
<1> QED
  BY <1>1, <1>2, <1>3, <1>4 DEF OperatorStep

\* The handlers of polls and heartbeats keep the invariant.
LEMMA CallSteps ==
    ASSUME SchedulingInv, NEW k \in Call, CallStep(k)
    PROVE  SchedulingInv'
<1>1. CASE SelectTasks(k)
  <2> DEFINE mine == {t \in Task : Open(t) /\ tasks[t].agent = calls[k].agent}
             supported == {t \in mine : checks[tasks[t].check].enabled /\ calls[k].capable}
             new == [calls[k] EXCEPT !.at = IF supported = mine THEN "claim" ELSE "expire",
                                     !.tasks = supported, !.others = mine \ supported]
  <2>1. /\ calls[k].at = "select"
        /\ UNCHANGED <<tasks, queue, agents, reports, timeouts, overtaken, doubled>>
        /\ \/ AnswerPoll(k, {})
           \/ calls' = [calls EXCEPT ![k] = new] /\ clients' = clients
    BY <1>1 DEF SelectTasks, rows, history
  <2>2. /\ new \in Handler /\ new.at \in {"claim", "expire"} /\ new.agent = calls[k].agent
    <3>1. mine \in SUBSET Task /\ supported \in SUBSET Task
      OBVIOUS
    <3> HIDE DEF mine, supported
    <3> QED
      BY <3>1 DEF SchedulingInv, Shape, Handler
  <2> HIDE DEF new
  <2>3. /\ calls' \in [Call -> Handler] /\ clients' \in [Agent -> Client]
        /\ calls'[k].at \in {"free", "claim", "expire"}
        /\ calls'[k].at # "free" => calls'[k].agent = calls[k].agent
        /\ \A l \in Call : l # k => calls'[l] = calls[l]
    <3>1. CASE AnswerPoll(k, {})
      <4>1. {} \in SUBSET Task
        OBVIOUS
      <4> QED
        BY <3>1, <4>1, Answered, IdleCalls DEF SchedulingInv
    <3>2. CASE calls' = [calls EXCEPT ![k] = new] /\ clients' = clients
      BY <2>2, <3>2 DEF SchedulingInv, Shape
    <3> QED
      BY <2>1, <3>1, <3>2
  <2>4. CallersKnown'
    BY <2>1, <2>3, StillKnown DEF SchedulingInv
  <2>5. NothingAccepted'
    BY <2>3 DEF SchedulingInv, OutcomeInv, NothingAccepted
  <2>6. \A l \in Call : Handling(l)' => Handling(l) /\ calls'[l] = calls[l]
    BY <2>3 DEF Handling
  <2>7. \A l \in Call : Handling(l)' => /\ Handling(l) /\ calls'[l].agent = calls[l].agent
                                        /\ calls'[l].tasks \subseteq calls[l].tasks
    BY <2>6
  <2> QED
    BY <2>1, <2>3, <2>4, <2>5, <2>7, HandlerStep
<1> QED
  BY <1>1, ExpireUnsupportedStep, ClaimStep, LockStep, CommitStep, AcceptStep DEF CallStep

\* The agent begins a request.
LEMMA RequestStep ==
    ASSUME SchedulingInv, NEW a \in Agent, NEW k \in Call, NEW new \in Handler,
           NEW client \in Client,
           Active(a), calls[k] = Free, new.agent = a, new.at \in {"select", "lock"},
           new.tasks = {},
           calls' = [calls EXCEPT ![k] = new], clients' = [clients EXCEPT ![a] = client],
           UNCHANGED <<tasks, queue, agents, reports, timeouts, overtaken, doubled>>
    PROVE  SchedulingInv'
<1>1. /\ calls' \in [Call -> Handler] /\ clients' \in [Agent -> Client]
      /\ calls'[k] = new /\ \A l \in Call : l # k => calls'[l] = calls[l]
  BY DEF SchedulingInv, Shape
<1>2. CallersKnown'
  BY <1>1 DEF SchedulingInv, Shape, CallersKnown, Active
<1>3. NothingAccepted'
  BY <1>1 DEF SchedulingInv, OutcomeInv, NothingAccepted
<1>4. \A l \in Call : Handling(l)' => Handling(l) /\ calls'[l] = calls[l]
  BY <1>1 DEF Handling
<1>5. \A l \in Call : Handling(l)' => /\ Handling(l) /\ calls'[l].agent = calls[l].agent
                                      /\ calls'[l].tasks \subseteq calls[l].tasks
  BY <1>4
<1> QED
  BY <1>1, <1>2, <1>3, <1>5, HandlerStep

\* Agents that send and give up requests keep the invariant.
LEMMA ClientSteps ==
    ASSUME SchedulingInv, NEW a \in Agent, ClientStep(a)
    PROVE  SchedulingInv'
<1>0. [at |-> "polling", tasks |-> {}] \in Client /\ [at |-> "reporting", tasks |-> {}] \in Client
  BY DEF Client
<1>1. ASSUME NEW k \in Call, StartPoll(a, k)
      PROVE  SchedulingInv'
  <2> DEFINE new == [Free EXCEPT !.at = "select", !.agent = a, !.capable = agents[a].capable,
                                 !.awaited = TRUE]
  <2>1. /\ Active(a) /\ calls[k] = Free /\ calls' = [calls EXCEPT ![k] = new]
        /\ clients' = [clients EXCEPT ![a] = [at |-> "polling", tasks |-> {}]]
        /\ UNCHANGED <<tasks, queue, agents, reports, timeouts, overtaken, doubled>>
    BY <1>1 DEF StartPoll, rows, history
  <2>2. new \in Handler /\ new.agent = a /\ new.at = "select" /\ new.tasks = {}
    BY DEF SchedulingInv, Shape, AgentRow, Handler, Free
  <2> HIDE DEF new
  <2> QED
    BY <1>0, <2>1, <2>2, RequestStep
<1>2. ASSUME NEW k \in Call, NEW capable \in Capability, StartReport(a, k, capable)
      PROVE  SchedulingInv'
  <2> DEFINE new == [Free EXCEPT !.at = "lock", !.agent = a, !.capable = capable,
                                 !.others = clients[a].tasks, !.awaited = TRUE]
  <2>1. /\ Active(a) /\ calls[k] = Free /\ calls' = [calls EXCEPT ![k] = new]
        /\ clients' = [clients EXCEPT ![a] = [at |-> "reporting", tasks |-> {}]]
        /\ UNCHANGED <<tasks, queue, agents, reports, timeouts, overtaken, doubled>>
    BY <1>2 DEF StartReport, rows, history
  <2>2. new \in Handler /\ new.agent = a /\ new.at = "lock" /\ new.tasks = {}
    <3>1. capable \in BOOLEAN /\ clients[a].tasks \in SUBSET Task
      BY SchedulingAssumption DEF SchedulingInv, Shape, Client
    <3> QED
      BY <3>1 DEF Handler, Free
  <2> HIDE DEF new
  <2> QED
    BY <1>0, <2>1, <2>2, RequestStep
<1>3. CASE GiveUp(a)
  <2>1. /\ clients' = [clients EXCEPT ![a] = Idle] /\ calls' = Forgotten(a)
        /\ UNCHANGED <<tasks, queue, agents, reports, timeouts, overtaken, doubled>>
    BY <1>3 DEF GiveUp, rows, history
  <2>2. \A l \in Call : /\ calls'[l] \in Handler
                        /\ calls'[l].at = calls[l].at /\ calls'[l].agent = calls[l].agent
                        /\ calls'[l].tasks = calls[l].tasks
    BY <2>1 DEF Forgotten, SchedulingInv, Shape, Handler
  <2>3. calls' \in [Call -> Handler] /\ clients' \in [Agent -> Client]
    <3>1. calls' = [l \in Call |-> IF calls[l].agent = a THEN [calls[l] EXCEPT !.awaited = FALSE]
                                                        ELSE calls[l]]
      BY <2>1 DEF Forgotten
    <3>2. calls' = [l \in Call |-> calls'[l]]
      BY <3>1
    <3> QED
      BY <2>1, <2>2, <3>2, IdleCalls DEF SchedulingInv, Shape
  <2>4. CallersKnown'
    BY <2>1, <2>2, StillKnown DEF SchedulingInv
  <2>5. NothingAccepted'
    BY <2>2 DEF SchedulingInv, OutcomeInv, NothingAccepted
  <2>6. \A l \in Call : Handling(l)' => /\ Handling(l) /\ calls'[l].agent = calls[l].agent
                                        /\ calls'[l].tasks \subseteq calls[l].tasks
    BY <2>2 DEF Handling
  <2> QED
    BY <2>1, <2>3, <2>4, <2>5, <2>6, HandlerStep
<1> QED
  BY <1>1, <1>2, <1>3 DEF ClientStep

\* Failed statements, passes and calls and restarts of the process keep the invariant.
LEMMA FailureSteps ==
    ASSUME SchedulingInv, Failure
    PROVE  SchedulingInv'
<1>1. CASE TickFails
  <2>1. /\ queue' = [queue EXCEPT ![Scheduler] = IdleQueue]
        /\ UNCHANGED <<tasks, agents, calls, clients, reports, timeouts, overtaken, doubled>>
    BY <1>1 DEF TickFails, rows, history
  <2>2. Scheduler \in Queuer
    BY DEF Queuer
  <2> QED
    BY <2>1, <2>2, IdleCalls, CallerStep
<1>2. ASSUME NEW c \in Check, ScheduleFails(c) \/ RecordFails(c)
      PROVE  SchedulingInv'
  BY <1>2, ElsewhereStep DEF ScheduleFails, RecordFails, rows, history
<1>3. ASSUME NEW k \in Call, CallFails(k)
      PROVE  SchedulingInv'
  <2>1. /\ calls' = [calls EXCEPT ![k] = Free]
        /\ clients' = IF calls[k].awaited THEN [clients EXCEPT ![calls[k].agent] = Idle]
                                          ELSE clients
        /\ UNCHANGED <<tasks, queue, agents, reports, timeouts, overtaken, doubled>>
    BY <1>3 DEF CallFails, rows, history
  <2>2. /\ calls' \in [Call -> Handler] /\ clients' \in [Agent -> Client]
        /\ calls'[k] = Free /\ \A l \in Call : l # k => calls'[l] = calls[l]
    BY <2>1, IdleCalls DEF SchedulingInv, Shape
  <2>3. \A l \in Call : calls'[l].at # "free" => calls[l].at # "free" /\ calls'[l] = calls[l]
    BY <2>2, IdleCalls
  <2>4. CallersKnown'
    <3>1. \A l \in Call : calls'[l].at # "free" =>
             calls[l].at # "free" /\ calls'[l].agent = calls[l].agent
      BY <2>3
    <3> QED
      BY <2>1, <3>1, StillKnown DEF SchedulingInv
  <2>5. NothingAccepted'
    BY <2>3 DEF SchedulingInv, OutcomeInv, NothingAccepted
  <2>6. \A l \in Call : Handling(l)' => /\ Handling(l) /\ calls'[l].agent = calls[l].agent
                                        /\ calls'[l].tasks \subseteq calls[l].tasks
    BY <2>3 DEF Handling
  <2> QED
    BY <2>1, <2>2, <2>4, <2>5, <2>6, HandlerStep
<1>4. CASE Restart
  <2>1. /\ queue' = [q \in Queuer |-> IdleQueue] /\ calls' = [k \in Call |-> Free]
        /\ clients' = [a \in Agent |-> IF clients[a].at \in {"polling", "reporting"} THEN Idle
                                       ELSE clients[a]]
        /\ UNCHANGED <<tasks, agents, reports, timeouts, overtaken, doubled>>
    BY <1>4 DEF Restart, rows, history
  <2>2. /\ \A q \in Queuer : CallerLike(queue'[q]) /\ queue'[q].at = "idle"
        /\ \A k \in Call : calls'[k].at = "free"
        /\ calls' \in [Call -> Handler] /\ clients' \in [Agent -> Client]
    BY <2>1, IdleCalls DEF SchedulingInv, Shape
  <2>3. \A q \in Queuer : CallerLike(queue[q])'
    BY <2>2
  <2>4. Shape'
    BY <2>1, <2>2, <2>3 DEF SchedulingInv, Shape, TaskLike, CallersKnown
  <2>5. OutcomeInv'
    <3>1. NothingAccepted'
      BY <2>2 DEF NothingAccepted
    <3> QED
      BY <2>1, <2>2, <3>1, QuietOutcomes DEF SchedulingInv, Handling, Open
  <2>6. QueueInv'
    BY <2>1, <2>2, QuietQueue DEF SchedulingInv, Open
  <2> QED
    BY <2>4, <2>5, <2>6 DEF SchedulingInv
<1> QED
  BY <1>1, <1>2, <1>3, <1>4 DEF Failure

\* A task becomes overdue.
LEMMA AgeStep ==
    ASSUME SchedulingInv, NEW t \in Task, AgeTask(t)
    PROVE  SchedulingInv'
<1>1. /\ tasks' = [tasks EXCEPT ![t].old = TRUE]
      /\ UNCHANGED <<agents, queue, calls, clients, reports, timeouts, overtaken, doubled>>
  BY DEF AgeTask, history
<1> DEFINE new == [tasks[t] EXCEPT !.old = TRUE]
<1>2. /\ TaskLike(new) /\ new.agent = tasks[t].agent /\ new.check = tasks[t].check
      /\ new.status = tasks[t].status
  <2>1. TaskLike(tasks[t])
    BY DEF SchedulingInv, Shape
  <2> QED
    BY <2>1 DEF TaskLike
<1>3. tasks' = [u \in Task |-> IF u = t THEN new ELSE tasks[u]]
  BY <1>1 DEF SchedulingInv, Shape
<1> HIDE DEF new
<1>4. /\ tasks' = [u \in Task |-> tasks'[u]]
      /\ \A u \in Task : tasks'[u] = IF u = t THEN new ELSE tasks[u]
  BY <1>3
<1>5. \A u \in Task : /\ TaskLike(tasks'[u])
                      /\ tasks'[u].agent = tasks[u].agent /\ tasks'[u].check = tasks[u].check
                      /\ Open(u)' => Open(u)
  BY <1>2, <1>4 DEF SchedulingInv, Shape, Open
<1>6. \A u \in Task : TaskLike(tasks[u])'
  BY <1>5
<1>7. Shape'
  BY <1>1, <1>4, <1>6 DEF SchedulingInv, Shape, CallerLike, CallersKnown
<1>8. OutcomeInv'
  <2>1. NothingAccepted'
    BY <1>1 DEF SchedulingInv, OutcomeInv, NothingAccepted
  <2> QED
    BY <1>1, <1>5, <2>1, QuietOutcomes DEF SchedulingInv, Handling
<1>9. QueueInv'
  BY <1>1, <1>5, QuietQueue DEF SchedulingInv
<1> QED
  BY <1>7, <1>8, <1>9 DEF SchedulingInv

\* Every step keeps the invariant.
LEMMA SchedulingStep == SchedulingInv /\ [Next]_vars => SchedulingInv'
<1> SUFFICES ASSUME SchedulingInv, [Next]_vars PROVE SchedulingInv'
  OBVIOUS
<1>1. ASSUME NEW c \in Check, ProbeStep(c) \/ RecordProbe(c) \/ BecomeDue(c)
      PROVE  SchedulingInv'
  BY <1>1, ElsewhereStep DEF ProbeStep, ScheduleProbe, FinishProbe, RecordProbe, BecomeDue, rows,
                             history
<1>2. CASE UNCHANGED vars
  BY <1>2, ElsewhereStep DEF vars, rows, history
<1> QED
  BY <1>1, <1>2, TickSteps, QueueSteps, OperatorSteps, CallSteps, ClientSteps, FailureSteps,
     AgeStep DEF Next

-----------------------------------------------------------------------------
(* The line of due checks.                                                 *)

\* Some numbers have a least one: that of the smallest interval from 0.
LEMMA LeastOne ==
    ASSUME NEW T, T \subseteq Nat, T # {}
    PROVE  \E m \in T : \A y \in T : m <= y
<1> DEFINE Below(x) == 0 .. x
           intervals == {Below(x) : x \in T}
           smaller == StrictSubsetOrdering(Nat)
<1>1. \A x \in Nat : Below(x) \in FiniteSubsetsOf(Nat)
  BY FS_Interval DEF FiniteSubsetsOf
<1>2. IsWellFoundedOn(smaller, FiniteSubsetsOf(Nat))
  BY FS_StrictSubsetOrderingWellFounded
<1>3. intervals \subseteq FiniteSubsetsOf(Nat) /\ intervals # {}
  BY <1>1
<1>4. \E i \in intervals : \A j \in intervals : ~(<<j, i>> \in smaller)
  <2> HIDE DEF intervals, smaller
  <2> QED
    BY <1>2, <1>3, WFMin
<1>5. PICK x \in T : \A j \in intervals : ~(<<j, Below(x)>> \in smaller)
  BY <1>4
<1>6. \A y \in T : x <= y
  <2> SUFFICES ASSUME NEW y \in T, y < x PROVE FALSE
    OBVIOUS
  <2>1. Below(y) \subseteq Below(x) /\ Below(y) # Below(x)
    <3>1. x \in Below(x) /\ x \notin Below(y)
      OBVIOUS
    <3> QED
      BY <3>1
  <2>2. <<Below(y), Below(x)>> \in smaller
    BY <2>1 DEF StrictSubsetOrdering
  <2> QED
    BY <1>5, <2>2
<1> QED
  BY <1>6

\* A line of checks, each in it once.
Line(s, S) == s \in Seq(Check) /\ IsInjective(s) /\ ToSet(s) = S

\* The same, place by place.
LEMMA LinePlaces ==
    ASSUME NEW s, NEW S
    PROVE  Line(s, S) <=> /\ s \in Seq(Check) /\ Len(s) \in Nat
                          /\ \A i, j \in 1 .. Len(s) : s[i] = s[j] => i = j
                          /\ \A i \in 1 .. Len(s) : s[i] \in S
                          /\ \A c \in S : \E i \in 1 .. Len(s) : s[i] = c
<1> SUFFICES ASSUME s \in Seq(Check)
             PROVE  Line(s, S) <=> /\ Len(s) \in Nat
                                   /\ \A i, j \in 1 .. Len(s) : s[i] = s[j] => i = j
                                   /\ \A i \in 1 .. Len(s) : s[i] \in S
                                   /\ \A c \in S : \E i \in 1 .. Len(s) : s[i] = c
  BY DEF Line
<1>1. DOMAIN s = 1 .. Len(s) /\ Len(s) \in Nat
  BY LenProperties
<1> QED
  BY <1>1 DEF Line, IsInjective, ToSet

\* Nobody stands in an empty line.
LEMMA EmptyLine == Line(<<>>, {})
<1>1. <<>> \in Seq(Check) /\ Len(<<>>) = 0
  BY EmptySeq
<1>2. \A i \in 1 .. 0 : FALSE
  OBVIOUS
<1> QED
  BY <1>1, <1>2, LinePlaces

\* Who joins the line was not in it.
LEMMA LongerLine ==
    ASSUME NEW s, NEW S, Line(s, S), NEW c \in Check, c \notin S
    PROVE  Line(Append(s, c), S \cup {c})
<1>1. /\ s \in Seq(Check) /\ Len(s) \in Nat
      /\ \A i, j \in 1 .. Len(s) : s[i] = s[j] => i = j
      /\ \A i \in 1 .. Len(s) : s[i] \in S
      /\ \A d \in S : \E i \in 1 .. Len(s) : s[i] = d
  BY LinePlaces
<1> DEFINE t == Append(s, c)
<1>2. /\ t \in Seq(Check) /\ Len(t) = Len(s) + 1 /\ t[Len(s) + 1] = c
      /\ \A i \in 1 .. Len(s) : t[i] = s[i]
  BY <1>1, AppendProperties
<1> HIDE DEF t
<1>3. \A i \in 1 .. Len(t) : i = Len(s) + 1 \/ i \in 1 .. Len(s)
  BY <1>1, <1>2
<1>4. \A i, j \in 1 .. Len(t) : t[i] = t[j] => i = j
  BY <1>1, <1>2, <1>3
<1>5. \A i \in 1 .. Len(t) : t[i] \in S \cup {c}
  BY <1>1, <1>2, <1>3
<1>6. \A d \in S \cup {c} : \E i \in 1 .. Len(t) : t[i] = d
  BY <1>1, <1>2
<1>7. Len(t) \in Nat
  BY <1>1, <1>2
<1>8. Line(t, S \cup {c})
  BY <1>2, <1>4, <1>5, <1>6, <1>7, LinePlaces
<1> QED
  BY <1>8 DEF t

\* Two lines become one.
LEMMA JoinedLines ==
    ASSUME NEW s, NEW S, Line(s, S), NEW t, NEW T, Line(t, T), S \cap T = {}
    PROVE  Line(s \o t, S \cup T)
<1>1. /\ s \in Seq(Check) /\ Len(s) \in Nat
      /\ \A i, j \in 1 .. Len(s) : s[i] = s[j] => i = j
      /\ \A i \in 1 .. Len(s) : s[i] \in S
      /\ \A d \in S : \E i \in 1 .. Len(s) : s[i] = d
  BY LinePlaces
<1>2. /\ t \in Seq(Check) /\ Len(t) \in Nat
      /\ \A i, j \in 1 .. Len(t) : t[i] = t[j] => i = j
      /\ \A i \in 1 .. Len(t) : t[i] \in T
      /\ \A d \in T : \E i \in 1 .. Len(t) : t[i] = d
  BY LinePlaces
<1> DEFINE u == s \o t
<1>3. /\ u \in Seq(Check) /\ Len(u) = Len(s) + Len(t)
      /\ \A i \in 1 .. Len(s) + Len(t) : u[i] = IF i <= Len(s) THEN s[i] ELSE t[i - Len(s)]
  BY <1>1, <1>2, ConcatProperties
<1> HIDE DEF u
<1>4. \A i \in 1 .. Len(u) : \/ i \in 1 .. Len(s) /\ u[i] = s[i]
                             \/ i - Len(s) \in 1 .. Len(t) /\ u[i] = t[i - Len(s)]
  BY <1>1, <1>2, <1>3
<1>5. ASSUME NEW i \in 1 .. Len(u), NEW j \in 1 .. Len(u), u[i] = u[j] PROVE i = j
  <2>1. CASE i \in 1 .. Len(s) /\ u[i] = s[i] /\ j \in 1 .. Len(s) /\ u[j] = s[j]
    BY <1>1, <1>5, <2>1
  <2>2. CASE /\ i - Len(s) \in 1 .. Len(t) /\ u[i] = t[i - Len(s)]
             /\ j - Len(s) \in 1 .. Len(t) /\ u[j] = t[j - Len(s)]
    <3>1. i - Len(s) = j - Len(s)
      BY <1>2, <1>5, <2>2
    <3> QED
      BY <1>1, <1>2, <1>3, <3>1
  <2>3. CASE i \in 1 .. Len(s) /\ u[i] = s[i] /\ j - Len(s) \in 1 .. Len(t) /\ u[j] = t[j - Len(s)]
    BY <1>1, <1>2, <1>5, <2>3
  <2>4. CASE j \in 1 .. Len(s) /\ u[j] = s[j] /\ i - Len(s) \in 1 .. Len(t) /\ u[i] = t[i - Len(s)]
    BY <1>1, <1>2, <1>5, <2>4
  <2> QED
    BY <1>4, <2>1, <2>2, <2>3, <2>4
<1>6. \A i \in 1 .. Len(u) : u[i] \in S \cup T
  BY <1>1, <1>2, <1>4
<1>7. ASSUME NEW d \in S \cup T PROVE \E i \in 1 .. Len(u) : u[i] = d
  <2>1. CASE d \in S
    <3>1. PICK i \in 1 .. Len(s) : s[i] = d
      BY <1>1, <2>1
    <3> QED
      BY <1>1, <1>2, <1>3, <3>1
  <2>2. CASE d \in T
    <3>1. PICK i \in 1 .. Len(t) : t[i] = d
      BY <1>2, <2>2
    <3>2. i + Len(s) \in 1 .. Len(u) /\ ~(i + Len(s) <= Len(s)) /\ (i + Len(s)) - Len(s) = i
      BY <1>1, <1>2, <1>3, <3>1
    <3>3. u[i + Len(s)] = d
      BY <1>1, <1>2, <1>3, <3>1, <3>2
    <3> QED
      BY <3>2, <3>3
  <2> QED
    BY <2>1, <2>2
<1>8. Len(u) \in Nat
  BY <1>1, <1>2, <1>3
<1>9. Line(u, S \cup T)
  BY <1>3, <1>5, <1>6, <1>7, <1>8, LinePlaces
<1> QED
  BY <1>9 DEF u

\* One part of a line, then somebody, then the other part.
LEMMA InsertedLine ==
    ASSUME NEW s, NEW S, Line(s, S), NEW c \in Check, c \notin S, NEW i \in 1 .. Len(s) + 1
    PROVE  Line(InsertAt(s, i, c), S \cup {c})
<1>1. /\ s \in Seq(Check) /\ Len(s) \in Nat
      /\ \A k, j \in 1 .. Len(s) : s[k] = s[j] => k = j
      /\ \A j \in 1 .. Len(s) : s[j] \in S
      /\ \A d \in S : \E j \in 1 .. Len(s) : s[j] = d
      /\ \A j \in 1 .. Len(s) : s[j] \in Check
  BY LinePlaces, ElementOfSeq
<1> DEFINE a == SubSeq(s, 1, i - 1)
           b == SubSeq(s, i, Len(s))
           A == {s[j] : j \in 1 .. i - 1}
           B == {s[j] : j \in i .. Len(s)}
<1>2. Line(a, A)
  <2>1. /\ a \in Seq(Check) /\ Len(a) = i - 1 /\ Len(a) \in Nat
        /\ \A j \in 1 .. i - 1 : a[j] = s[j]
    <3>1. \A j \in 1 .. i - 1 : s[j] \in Check
      BY <1>1
    <3>2. /\ a \in Seq(Check) /\ Len(a) = IF 1 <= i - 1 THEN (i - 1) - 1 + 1 ELSE 0
          /\ \A j \in 1 .. (i - 1) - 1 + 1 : a[j] = s[1 + j - 1]
      <4>1. i - 1 \in Int
        OBVIOUS
      <4> QED
        BY <3>1, <4>1, SubSeqProperties
    <3> HIDE DEF a
    <3> QED
      BY <1>1, <3>2
  <2> HIDE DEF a
  <2>2. \A j \in 1 .. i - 1 : j \in 1 .. Len(s)
    BY <1>1
  <2>3. \A j, k \in 1 .. Len(a) : a[j] = a[k] => j = k
    BY <1>1, <2>1, <2>2
  <2>4. \A j \in 1 .. Len(a) : a[j] \in A
    BY <2>1
  <2>5. \A d \in A : \E j \in 1 .. Len(a) : a[j] = d
    BY <2>1
  <2> HIDE DEF A
  <2> QED
    BY <2>1, <2>3, <2>4, <2>5, LinePlaces
<1>3. Line(b, B)
  <2>1. /\ b \in Seq(Check) /\ Len(b) = Len(s) - i + 1 /\ Len(b) \in Nat
        /\ \A j \in 1 .. Len(b) : b[j] = s[j + i - 1]
    <3>1. \A j \in i .. Len(s) : s[j] \in Check
      BY <1>1
    <3>2. /\ b \in Seq(Check) /\ Len(b) = IF i <= Len(s) THEN Len(s) - i + 1 ELSE 0
          /\ \A j \in 1 .. Len(s) - i + 1 : b[j] = s[i + j - 1]
      BY <1>1, <3>1, SubSeqProperties
    <3> HIDE DEF b
    <3> QED
      BY <1>1, <3>2
  <2> HIDE DEF b
  <2>2. \A j \in 1 .. Len(b) : j + i - 1 \in i .. Len(s) /\ j + i - 1 \in 1 .. Len(s)
    BY <1>1, <2>1
  <2>3. \A j, k \in 1 .. Len(b) : b[j] = b[k] => j = k
    <3> SUFFICES ASSUME NEW j \in 1 .. Len(b), NEW k \in 1 .. Len(b), b[j] = b[k] PROVE j = k
      OBVIOUS
    <3>1. j + i - 1 = k + i - 1
      BY <1>1, <2>1, <2>2
    <3> QED
      BY <3>1, <2>1
  <2>4. \A j \in 1 .. Len(b) : b[j] \in B
    BY <2>1, <2>2
  <2>5. \A d \in B : \E j \in 1 .. Len(b) : b[j] = d
    <3> SUFFICES ASSUME NEW j \in i .. Len(s) PROVE \E k \in 1 .. Len(b) : b[k] = s[j]
      OBVIOUS
    <3>1. j - i + 1 \in 1 .. Len(b) /\ (j - i + 1) + i - 1 = j
      BY <1>1, <2>1
    <3> QED
      BY <2>1, <3>1
  <2> HIDE DEF B
  <2> QED
    BY <2>1, <2>3, <2>4, <2>5, LinePlaces
<1>4. Line(<<c>>, {c})
  <2>1. Line(Append(<<>>, c), {} \cup {c})
    BY EmptyLine, LongerLine
  <2>2. Append(<<>>, c) = <<c>> /\ {} \cup {c} = {c}
    OBVIOUS
  <2> QED
    BY <2>1, <2>2
<1>5. A \cup B = S /\ A \cap B = {}
  <2>1. A \subseteq S /\ B \subseteq S
    BY <1>1
  <2>2. \A d \in S : d \in A \cup B
    <3> SUFFICES ASSUME NEW d \in S PROVE d \in A \cup B
      OBVIOUS
    <3>1. PICK j \in 1 .. Len(s) : s[j] = d
      BY <1>1
    <3>2. j \in 1 .. i - 1 \/ j \in i .. Len(s)
      BY <1>1
    <3> QED
      BY <3>1, <3>2
  <2>3. A \cap B = {}
    <3> SUFFICES ASSUME NEW j \in 1 .. i - 1, NEW k \in i .. Len(s), s[j] = s[k] PROVE FALSE
      OBVIOUS
    <3>1. j = k
      BY <1>1
    <3> QED
      BY <3>1
  <2> QED
    BY <2>1, <2>2, <2>3
<1> HIDE DEF a, b, A, B
<1>6. Line(a \o <<c>>, A \cup {c})
  <2>1. A \cap {c} = {}
    BY <1>5
  <2> QED
    BY <1>2, <1>4, <2>1, JoinedLines
<1>7. Line((a \o <<c>>) \o b, (A \cup {c}) \cup B)
  <2>1. (A \cup {c}) \cap B = {}
    BY <1>5
  <2> QED
    BY <1>3, <1>6, <2>1, JoinedLines
<1>8. (A \cup {c}) \cup B = S \cup {c}
  BY <1>5
<1>9. InsertAt(s, i, c) = (a \o <<c>>) \o b
  BY DEF InsertAt, a, b
<1> QED
  BY <1>7, <1>8, <1>9

\* Who stays in a line keeps a place of his own.
LEMMA ShorterLine ==
    ASSUME NEW s, NEW S, Line(s, S), NEW K
    PROVE  Line(Staying(s, K), S \cap K)
<1> DEFINE n == Len(s)
           First(i) == {s[j] : j \in 1 .. i} \cap K
           Made(f, i) == f[i] = IF i = 0 THEN <<>>
                                ELSE IF s[i] \in K THEN Append(f[i - 1], s[i]) ELSE f[i - 1]
           Fine(f, m) == \A i \in 0 .. m : Made(f, i) /\ Line(f[i], First(i))
           bad == {m \in 0 .. n : ~ \E f \in [0 .. m -> Seq(Check)] : Fine(f, m)}
<1>1. /\ s \in Seq(Check) /\ n \in Nat
      /\ \A i, j \in 1 .. n : s[i] = s[j] => i = j
      /\ \A i \in 1 .. n : s[i] \in S
      /\ \A d \in S : \E i \in 1 .. n : s[i] = d
      /\ \A i \in 1 .. n : s[i] \in Check
  BY LinePlaces, ElementOfSeq
<1>2. bad = {}
  <2> SUFFICES ASSUME bad # {} PROVE FALSE
    OBVIOUS
  <2>1. PICK m \in bad : \A k \in bad : m <= k
    <3>1. bad \subseteq Nat
      BY <1>1
    <3> HIDE DEF bad
    <3> QED
      BY <3>1, LeastOne
  <2>2. m \in 0 .. n /\ ~ \E f \in [0 .. m -> Seq(Check)] : Fine(f, m)
    OBVIOUS
  <2>3. m # 0
    <3> SUFFICES ASSUME m = 0 PROVE \E f \in [0 .. 0 -> Seq(Check)] : Fine(f, 0)
      BY <2>2
    <3> DEFINE g == [i \in 0 .. 0 |-> <<>>]
    <3>1. g \in [0 .. 0 -> Seq(Check)] /\ g[0] = <<>> /\ \A i \in 0 .. 0 : i = 0
      BY EmptySeq
    <3>2. First(0) = {}
      OBVIOUS
    <3>3. Line(g[0], First(0))
      BY <3>1, <3>2, EmptyLine
    <3> HIDE DEF g
    <3>4. Fine(g, 0)
      BY <3>1, <3>3
    <3> QED
      BY <3>1, <3>4
  <2>4. m - 1 \in 0 .. n /\ m \in 1 .. n /\ m - 1 \notin bad
    <3>1. m \in 0 .. n
      BY <2>2
    <3> HIDE DEF bad, n
    <3> QED
      BY <1>1, <2>1, <2>3, <3>1
  <2>5. PICK f \in [0 .. m - 1 -> Seq(Check)] : Fine(f, m - 1)
    BY <2>4
  <2> DEFINE v == IF s[m] \in K THEN Append(f[m - 1], s[m]) ELSE f[m - 1]
             g == [i \in 0 .. m |-> IF i = m THEN v ELSE f[i]]
  <2> HIDE DEF bad
  <2>6. Line(f[m - 1], First(m - 1)) /\ m - 1 \in 0 .. m - 1
    BY <2>4, <2>5
  <2>7. First(m) = IF s[m] \in K THEN First(m - 1) \cup {s[m]} ELSE First(m - 1)
    <3>1. 1 .. m = (1 .. m - 1) \cup {m}
      BY <2>4
    <3> QED
      BY <3>1
  <2>8. s[m] \notin First(m - 1) /\ s[m] \in Check
    <3>1. \A j \in 1 .. m - 1 : j \in 1 .. n /\ j # m
      BY <1>1, <2>4
    <3> HIDE DEF n
    <3> QED
      BY <1>1, <2>4, <3>1
  <2>9. Line(v, First(m))
    <3> HIDE DEF First
    <3> QED
      BY <2>6, <2>7, <2>8, LongerLine
  <2>10. v \in Seq(Check)
    BY <2>9 DEF Line
  <2>11. g \in [0 .. m -> Seq(Check)]
    <3>1. \A i \in 0 .. m : i = m \/ i \in 0 .. m - 1
      BY <2>4
    <3> HIDE DEF v
    <3> QED
      BY <2>5, <2>10, <3>1
  <2>12. ASSUME NEW i \in 0 .. m PROVE Made(g, i) /\ Line(g[i], First(i))
    <3>1. CASE i = m
      <4>1. g[m] = v /\ g[m - 1] = f[m - 1]
        BY <2>4
      <4> HIDE DEF g, First
      <4> QED
        BY <2>4, <2>9, <3>1, <4>1
    <3>2. CASE i # m
      <4>1. i \in 0 .. m - 1 /\ g[i] = f[i] /\ (i # 0 => i - 1 \in 0 .. m /\ i - 1 # m)
        BY <2>4, <3>2
      <4>2. i # 0 => g[i - 1] = f[i - 1]
        BY <4>1
      <4>3. Made(f, i) /\ Line(f[i], First(i))
        BY <2>5, <4>1
      <4> HIDE DEF g, First
      <4> QED
        BY <4>1, <4>2, <4>3
    <3> QED
      BY <3>1, <3>2
  <2>13. Fine(g, m)
    BY <2>12
  <2> HIDE DEF g, Fine
  <2> QED
    BY <2>2, <2>11, <2>13
<1>3. PICK f \in [0 .. n -> Seq(Check)] : Fine(f, n)
  <2>1. n \in 0 .. n
    BY <1>1
  <2> QED
    BY <1>2, <2>1
<1> DEFINE Left == CHOOSE left : left = [i \in 0 .. Len(s) |->
                      IF i = 0 THEN <<>>
                      ELSE IF s[i] \in K THEN Append(left[i - 1], s[i]) ELSE left[i - 1]]
<1>4. f = [i \in 0 .. Len(s) |-> IF i = 0 THEN <<>>
                                 ELSE IF s[i] \in K THEN Append(f[i - 1], s[i]) ELSE f[i - 1]]
  BY <1>3
<1>5. Left = [i \in 0 .. Len(s) |-> IF i = 0 THEN <<>>
                                    ELSE IF s[i] \in K THEN Append(Left[i - 1], s[i])
                                                       ELSE Left[i - 1]]
  BY <1>4
<1>6. Staying(s, K) = Left[Len(s)]
  BY DEF Staying
<1> HIDE DEF Left
\* There is one such function only.
<1>7. \A i \in 0 .. n : Left[i] = f[i]
  <2> DEFINE other == {i \in 0 .. n : Left[i] # f[i]}
  <2> SUFFICES ASSUME other # {} PROVE FALSE
    OBVIOUS
  <2>1. PICK m \in other : \A k \in other : m <= k
    <3>1. other \subseteq Nat
      BY <1>1
    <3> HIDE DEF other
    <3> QED
      BY <3>1, LeastOne
  <2>2. m \in 0 .. n /\ Left[m] # f[m]
    OBVIOUS
  <2>3. Left[m] = IF m = 0 THEN <<>> ELSE IF s[m] \in K THEN Append(Left[m - 1], s[m]) ELSE Left[m - 1]
    BY <1>5, <2>2
  <2>4. f[m] = IF m = 0 THEN <<>> ELSE IF s[m] \in K THEN Append(f[m - 1], s[m]) ELSE f[m - 1]
    BY <1>3, <2>2
  <2>5. m # 0 => m - 1 \in 0 .. n /\ m - 1 \notin other
    BY <1>1, <2>1, <2>2
  <2>6. m # 0 => Left[m - 1] = f[m - 1]
    BY <2>5
  <2> QED
    BY <2>2, <2>3, <2>4, <2>6
<1>8. Line(f[n], First(n))
  <2>1. n \in 0 .. n
    BY <1>1
  <2> QED
    BY <1>3, <2>1
<1>9. First(n) = S \cap K
  <2>1. {s[j] : j \in 1 .. n} = S
    BY <1>1
  <2> QED
    BY <2>1
<1>10. Staying(s, K) = f[n]
  <2>1. n \in 0 .. n
    BY <1>1
  <2> QED
    BY <1>6, <1>7, <2>1
<1> QED
  BY <1>8, <1>9, <1>10

\* The rows of one statement, in some order.
LEMMA AnyLine ==
    ASSUME NEW S \in SUBSET Check, NEW s \in SetToSeqs(S)
    PROVE  Line(s, S)
<1> DEFINE n == Cardinality(S)
<1>1. IsFiniteSet(S) /\ n \in Nat
  BY SchedulingAssumption, FS_Subset, FS_CardinalityType
<1>2. s \in [1 .. n -> S] /\ \A i, j \in 1 .. n : i # j => s[i] # s[j]
  BY DEF SetToSeqs
<1>3. s \in Injection(1 .. n, S)
  BY <1>2 DEF Injection, IsInjective
<1>4. Cardinality(1 .. n) = n
  BY <1>1, FS_Interval
<1>5. s \in Surjection(1 .. n, S)
  BY <1>1, <1>3, <1>4, FS_Injection
<1>6. \A d \in S : \E i \in 1 .. n : s[i] = d
  BY <1>5 DEF Surjection
<1>7. s \in Seq(Check) /\ Len(s) = n
  <2>1. s \in [1 .. n -> Check]
    BY <1>2
  <2> QED
    BY <1>1, <2>1, SeqDef
<1> HIDE DEF n
<1> QED
  BY <1>1, <1>2, <1>6, <1>7, LinePlaces

-----------------------------------------------------------------------------
(* Types.                                                                  *)

Due == {c \in Check : checks[c].next = "due"}

RowsTyped == /\ checks \in [Check -> CheckRow] /\ tasks \in [Task -> TaskRow]
             /\ Line(line, Due)

WorkTyped == /\ tick \in Tick /\ queue \in [Queuer -> Queueing]
             /\ running \subseteq Check
             /\ probes \in [Check -> {"none", "scheduling", "probing"}]
             /\ recording \in [Check -> 0 .. MaxPending]
             /\ edit \in Edit
             /\ changes \in 0 .. MaxChanges /\ late \in 0 .. MaxLate /\ faults \in 0 .. MaxFaults
             /\ overtaken \subseteq Task /\ doubled \subseteq Check

\* What is at work is at work for a check.
ChecksKnown ==
    /\ \A t \in Task : Open(t) => tasks[t].check \in Check
    /\ \A k \in Call : \A t \in calls[k].tasks : tasks[t].check \in Check
    /\ \A q \in Queuer : queue[q].at # "idle" => queue[q].check \in Check
    /\ edit # NoEdit => edit.check \in Check

Awaits(k) == IF calls[k].at \in {"lock", "accept"} THEN "reporting" ELSE "polling"

\* An agent waits for one answer at most, of a handler that is at work on it.
AwaitedOnce ==
    \A k \in Call : calls[k].awaited =>
        /\ calls[k].at # "free" /\ clients[calls[k].agent].at = Awaits(k)
        /\ \A l \in Call : calls[l].awaited /\ calls[l].agent = calls[k].agent => l = k

TypesInv == SchedulingInv /\ RowsTyped /\ WorkTyped /\ ChecksKnown /\ AwaitedOnce

\* Types follow.
LEMMA TypesFollow == TypesInv => TypeOK
BY DEF TypesInv, SchedulingInv, Shape, RowsTyped, WorkTyped, AwaitedOnce, Awaits, TypeOK, Line, Due

-----------------------------------------------------------------------------
(* The rows.                                                               *)

\* A statement that changes no row keeps their types.
LEMMA SameRows == ASSUME RowsTyped, UNCHANGED <<checks, tasks, line>> PROVE RowsTyped'
BY DEF RowsTyped, Due

\* An UPDATE of the status keeps the type of the tasks.
LEMMA MarkedRows ==
    ASSUME tasks \in [Task -> TaskRow], NEW S,
           NEW status \in {"pending", "claimed", "completed", "expired"}
    PROVE  Mark(S, status) \in [Task -> TaskRow]
BY DEF Mark, TaskRow

\* scheduleNext takes the check out of the line.
LEMMA ScheduledRows ==
    ASSUME RowsTyped, NEW c \in Check, ScheduleNext(c), UNCHANGED tasks
    PROVE  RowsTyped'
<1>1. checks \in [Check -> CheckRow] /\ Line(line, Due)
  BY DEF RowsTyped
<1>2. checks' = [checks EXCEPT ![c].next = "later"] /\ line' = Staying(line, Check \ {c})
  BY DEF ScheduleNext
<1>3. /\ checks' \in [Check -> CheckRow]
      /\ \A d \in Check : checks'[d].next = IF d = c THEN "later" ELSE checks[d].next
  BY <1>1, <1>2 DEF CheckRow
<1>4. Due' = Due \cap (Check \ {c})
  BY <1>3 DEF Due
<1>5. Line(line', Due')
  BY <1>1, <1>2, <1>4, ShorterLine
<1> QED
  BY <1>3, <1>5 DEF RowsTyped, Line

\* Rows set due in one statement join the line, others leave it.
LEMMA RequeuedLine ==
    ASSUME RowsTyped, NEW now \in SUBSET Check, NEW gone, Requeue(now, gone),
           now \cap gone = {},
           \A c \in Check : checks'[c].next = IF c \in now THEN "due"
                                              ELSE IF c \in gone THEN "never" ELSE checks[c].next
    PROVE  Line(line', Due')
<1>1. PICK s \in SetToSeqs(now) : line' = Staying(line, Check \ (now \cup gone)) \o s
  BY DEF Requeue
<1> DEFINE stay == Due \cap (Check \ (now \cup gone))
<1>2. Line(Staying(line, Check \ (now \cup gone)), stay)
  BY ShorterLine DEF RowsTyped
<1>3. Line(s, now)
  BY <1>1, AnyLine
<1>4. stay \cap now = {} /\ Due' = stay \cup now
  BY DEF Due
<1> HIDE DEF stay
<1>5. Line(line', stay \cup now)
  BY <1>1, <1>2, <1>3, <1>4, JoinedLines
<1> QED
  BY <1>4, <1>5

\* reconcileAgentRelationships keeps the types.
LEMMA ReconciledRows ==
    ASSUME RowsTyped, NEW as \in [Agent -> AgentRow], Reconcile(as)
    PROVE  RowsTyped'
<1> DEFINE serves(a)  == as[a].status = "active" /\ as[a].capable
           heirs      == {a \in Agent : as[a].status = "active"}
           assigned   == {c \in Check : checks[c].agent # NoAgent}
           moved      == {c \in assigned : as[checks[c].agent].status = "revoked" /\ heirs # {}}
           owner      == [c \in Check |-> IF c \in moved THEN CHOOSE a \in heirs : TRUE
                                                         ELSE checks[c].agent]
           served     == {c \in assigned : serves(owner[c])}
           now        == {c \in served : /\ checks[c].enabled
                                         /\ c \in moved \/ checks[c].next = "never"}
           gone       == (assigned \ served) \cup {c \in moved : ~checks[c].enabled}
<1>1. /\ checks' = [c \in Check |->
                       [checks[c] EXCEPT !.agent = owner[c],
                                         !.next = IF c \in now THEN "due"
                                                  ELSE IF c \in gone THEN "never" ELSE @]]
      /\ Requeue(now, gone)
  BY DEF Reconcile
<1>2. PICK S : tasks' = Mark(S, "expired")
  BY ReconciledTasks
<1>3. checks \in [Check -> CheckRow] /\ tasks \in [Task -> TaskRow]
  BY DEF RowsTyped
<1>4. now \in SUBSET Check /\ now \cap gone = {}
  <2>1. now \subseteq served /\ served \subseteq assigned /\ assigned \subseteq Check
    OBVIOUS
  <2>2. \A c \in now : checks[c].enabled
    OBVIOUS
  <2>3. \A c \in gone : c \notin served \/ ~checks[c].enabled
    OBVIOUS
  <2> HIDE DEF now, gone, served, assigned
  <2> QED
    BY <2>1, <2>2, <2>3
<1>5. \A c \in Check : owner[c] \in Agent \cup {NoAgent}
  <2> SUFFICES ASSUME NEW c \in Check PROVE owner[c] \in Agent \cup {NoAgent}
    OBVIOUS
  <2>1. CASE c \in moved
    <3>1. heirs # {} /\ owner[c] = CHOOSE a \in heirs : TRUE
      BY <2>1
    <3>2. owner[c] \in heirs
      <4> HIDE DEF heirs, owner
      <4> QED
        BY <3>1
    <3> QED
      BY <3>2
  <2>2. CASE c \notin moved
    <3>1. owner[c] = checks[c].agent
      BY <2>2
    <3> HIDE DEF owner
    <3> QED
      BY <1>3, <3>1 DEF CheckRow
  <2> QED
    BY <2>1, <2>2
<1> HIDE DEF now, gone, owner
<1>6. /\ checks' \in [Check -> CheckRow]
      /\ \A c \in Check : checks'[c].next = IF c \in now THEN "due"
                                            ELSE IF c \in gone THEN "never" ELSE checks[c].next
  BY <1>1, <1>3, <1>5 DEF CheckRow
<1>7. Line(line', Due')
  BY <1>1, <1>4, <1>6, RequeuedLine
<1>8. tasks' \in [Task -> TaskRow]
  BY <1>2, <1>3, MarkedRows
<1> QED
  BY <1>6, <1>7, <1>8 DEF RowsTyped, Line

\* An edit writes the route and the time, which may be any place in the line.
LEMMA EditedRows ==
    ASSUME RowsTyped, WorkTyped, ChecksKnown, NEW enabled \in BOOLEAN, WriteEdit(enabled)
    PROVE  RowsTyped'
<1> DEFINE c    == edit.check
           next == CASE ~enabled             -> "never"
                     [] edit.next = "never"  -> "due"
                     [] OTHER                -> edit.next
           rest == Staying(line, Check \ {c})
           new  == [agent |-> edit.agent, enabled |-> enabled, next |-> next]
<1>1. /\ edit # NoEdit /\ checks' = [checks EXCEPT ![c] = new] /\ tasks' = tasks
      /\ IF next = "due" THEN \E i \in 1 .. Len(rest) + 1 : line' = InsertAt(rest, i, c)
                         ELSE line' = rest
  BY DEF WriteEdit
<1>2. c \in Check /\ edit \in Edit
  BY <1>1 DEF ChecksKnown, WorkTyped
<1>3. new \in CheckRow /\ new.next = next
  BY <1>2 DEF CheckRow, Edit
<1> HIDE DEF c, next, new
<1>4. checks \in [Check -> CheckRow] /\ tasks \in [Task -> TaskRow] /\ Line(line, Due)
  BY DEF RowsTyped
<1>5. /\ checks' \in [Check -> CheckRow]
      /\ \A d \in Check : checks'[d] = IF d = c THEN new ELSE checks[d]
  BY <1>1, <1>2, <1>3, <1>4
<1> DEFINE stay == Due \cap (Check \ {c})
<1>6. Line(rest, stay)
  BY <1>4, ShorterLine
<1> HIDE DEF rest
<1>7. Line(line', Due')
  <2>1. CASE next = "due"
    <3>1. PICK i \in 1 .. Len(rest) + 1 : line' = InsertAt(rest, i, c)
      BY <1>1, <2>1
    <3>2. Line(line', stay \cup {c})
      BY <1>2, <1>6, <3>1, InsertedLine
    <3>3. Due' = stay \cup {c}
      BY <1>2, <1>3, <1>5, <2>1 DEF Due
    <3> QED
      BY <3>2, <3>3
  <2>2. CASE next # "due"
    <3>1. Due' = stay
      BY <1>2, <1>3, <1>5, <2>2 DEF Due
    <3> QED
      BY <1>1, <1>6, <2>2, <3>1
  <2> QED
    BY <2>1, <2>2
<1> QED
  BY <1>1, <1>4, <1>5, <1>7 DEF RowsTyped, Line

\* A check whose time comes joins the line.
LEMMA DueRows ==
    ASSUME RowsTyped, NEW c \in Check, BecomeDue(c)
    PROVE  RowsTyped'
<1>1. checks \in [Check -> CheckRow] /\ tasks \in [Task -> TaskRow] /\ Line(line, Due)
  BY DEF RowsTyped
<1>2. tasks' = tasks
  BY DEF BecomeDue
<1>3. CASE checks[c].next = "later"
  <2>1. checks' = [checks EXCEPT ![c].next = "due"] /\ line' = Append(line, c)
    BY <1>3 DEF BecomeDue
  <2>2. /\ checks' \in [Check -> CheckRow]
        /\ \A d \in Check : checks'[d].next = IF d = c THEN "due" ELSE checks[d].next
    BY <1>1, <2>1 DEF CheckRow
  <2>3. c \notin Due /\ Due' = Due \cup {c}
    BY <1>3, <2>2 DEF Due
  <2>4. Line(line', Due')
    BY <1>1, <2>1, <2>3, LongerLine
  <2> QED
    BY <1>1, <1>2, <2>2, <2>4 DEF RowsTyped, Line
<1>4. CASE checks[c].next # "later"
  BY <1>2, <1>4, SameRows DEF BecomeDue
<1> QED
  BY <1>3, <1>4

\* Every step keeps the types of the rows.
LEMMA RowsStep ==
    ASSUME TypesInv, Next
    PROVE  RowsTyped'
<1>0. RowsTyped /\ WorkTyped /\ ChecksKnown /\ agents \in [Agent -> AgentRow]
  BY DEF TypesInv, SchedulingInv, Shape
<1>1. checks \in [Check -> CheckRow] /\ tasks \in [Task -> TaskRow] /\ Line(line, Due)
  BY <1>0 DEF RowsTyped
\* An UPDATE of agent_tasks alone.
<1>2. ASSUME UNCHANGED <<checks, line>>,
             \/ tasks' = tasks
             \/ \E S : \E status \in {"pending", "claimed", "completed", "expired"} :
                    tasks' = Mark(S, status)
      PROVE  RowsTyped'
  <2>1. tasks' \in [Task -> TaskRow]
    BY <1>1, <1>2, MarkedRows
  <2> QED
    BY <1>1, <1>2, <2>1 DEF RowsTyped, Due
<1>3. CASE TickStep
  <2>1. CASE TickStart
    BY <1>0, <2>1, ReconciledRows DEF TickStart
  <2>2. CASE ListExpired \/ RecordTimeout \/ ListDue \/ QueueDue \/ StartDue \/ TickEnd
    BY <1>0, <2>2, SameRows
       DEF ListExpired, RecordTimeout, ListDue, QueueDue, StartDue, TickEnd, rows
  <2>3. CASE Sweep
    BY <1>2, <2>3 DEF Sweep
  <2>4. ASSUME NEW t \in Task, ExpireTask(t) PROVE RowsTyped'
    BY <1>2, <2>4 DEF ExpireTask
  <2> QED
    BY <1>3, <2>1, <2>2, <2>3, <2>4 DEF TickStep
<1>4. CASE OperatorStep
  <2>1. ASSUME NEW enabled \in BOOLEAN, WriteEdit(enabled) PROVE RowsTyped'
    BY <1>0, <2>1, EditedRows
  <2>2. ASSUME NEW a \in Agent, CreateAgent(a) \/ Revoke(a) PROVE RowsTyped'
    <3>1. agents' \in [Agent -> AgentRow]
      BY <1>0, <2>2 DEF CreateAgent, Revoke, AgentRow
    <3> QED
      BY <1>0, <2>2, <3>1, ReconciledRows DEF CreateAgent, Revoke
  <2>3. ASSUME NEW c \in Check, NEW a \in Agent \cup {NoAgent}, EditBegin(c, a) PROVE RowsTyped'
    BY <1>0, <2>3, SameRows DEF EditBegin, rows
  <2>4. ASSUME NEW r \in Request, NEW c \in Check, RunNow(r, c) PROVE RowsTyped'
    BY <1>0, <2>4, SameRows DEF RunNow, rows
  <2> QED
    BY <1>4, <2>1, <2>2, <2>3, <2>4 DEF OperatorStep
<1>5. CASE Failure
  BY <1>0, <1>5, SameRows DEF Failure, TickFails, Restart, ScheduleFails, RecordFails, CallFails,
                              rows
<1>6. ASSUME NEW q \in Queuer, QueueStep(q) PROVE RowsTyped'
  <2>1. CASE Ask(q)
    BY <1>0, <2>1, SameRows DEF Ask, rows
  <2>2. CASE Schedule(q)
    <3>1. queue[q].check \in Check
      BY <1>0, <2>2 DEF Schedule, ChecksKnown
    <3> QED
      BY <1>0, <2>2, <3>1, ScheduledRows DEF Schedule
  <2>3. ASSUME NEW t \in Task, Insert(q, t) PROVE RowsTyped'
    <3> DEFINE row == [status |-> "pending", agent |-> queue[q].agent,
                       check |-> queue[q].check, old |-> FALSE]
    <3>1. tasks' = [tasks EXCEPT ![t] = row] /\ UNCHANGED <<checks, line>>
      BY <2>3 DEF Insert
    <3>2. row \in TaskRow
      BY <1>0 DEF WorkTyped, Queueing, TaskRow
    <3> HIDE DEF row
    <3>3. tasks' \in [Task -> TaskRow]
      BY <1>1, <3>1, <3>2
    <3> QED
      BY <1>1, <3>1, <3>3 DEF RowsTyped, Due
  <2> QED
    BY <1>6, <2>1, <2>2, <2>3 DEF QueueStep
<1>7. ASSUME NEW c \in Check, ProbeStep(c) \/ RecordProbe(c) \/ BecomeDue(c) PROVE RowsTyped'
  <2>1. CASE ScheduleProbe(c)
    BY <1>0, <2>1, ScheduledRows DEF ScheduleProbe
  <2>2. CASE FinishProbe(c) \/ RecordProbe(c)
    BY <1>0, <2>2, SameRows DEF FinishProbe, RecordProbe, rows
  <2> QED
    BY <1>0, <1>7, <2>1, <2>2, DueRows DEF ProbeStep
<1>8. ASSUME NEW t \in Task, AgeTask(t) PROVE RowsTyped'
  <2>1. tasks' = [tasks EXCEPT ![t].old = TRUE] /\ UNCHANGED <<checks, line>>
    BY <1>8 DEF AgeTask
  <2>2. tasks' \in [Task -> TaskRow]
    BY <1>1, <2>1 DEF TaskRow
  <2> QED
    BY <1>1, <2>1, <2>2 DEF RowsTyped, Due
<1>9. ASSUME NEW k \in Call, CallStep(k) PROVE RowsTyped'
  <2>1. CASE SelectTasks(k) \/ LockAgent(k) \/ \E t \in Task : AcceptResult(k, t)
    BY <1>0, <2>1, SameRows DEF SelectTasks, LockAgent, AcceptResult, rows
  <2>2. CASE ExpireUnsupported(k)
    BY <1>2, <2>2 DEF ExpireUnsupported
  <2>3. CASE ClaimTasks(k)
    BY <1>2, <2>3 DEF ClaimTasks
  <2>4. CASE CommitReport(k)
    BY <1>2, <2>4 DEF CommitReport
  <2> QED
    BY <1>9, <2>1, <2>2, <2>3, <2>4 DEF CallStep
<1>10. ASSUME NEW a \in Agent, ClientStep(a) PROVE RowsTyped'
  BY <1>0, <1>10, SameRows DEF ClientStep, GiveUp, StartPoll, StartReport, rows
<1> QED
  BY <1>3, <1>4, <1>5, <1>6, <1>7, <1>8, <1>9, <1>10 DEF Next

-----------------------------------------------------------------------------
(* What is at work.                                                        *)

\* A step that touches nothing of what the API has in hand keeps its types.
LEMMA SameWork ==
    ASSUME WorkTyped,
           UNCHANGED <<tick, queue, running, probes, recording, edit, changes, late, faults,
                       overtaken, doubled>>
    PROVE  WorkTyped'
BY DEF WorkTyped

\* The rows the scheduler lists are due checks with their routes.
LEMMA ListedRows ==
    ASSUME RowsTyped
    PROVE  DueChecks \in Seq(Listed)
<1> DEFINE d == Staying(line, {c \in Check : checks[c].enabled})
           n == IF Len(d) < MaxListed THEN Len(d) ELSE MaxListed
           s == Limited(d)
<1>1. s \in Seq(Check)
  <2>1. d \in Seq(Check)
    BY ShorterLine DEF RowsTyped, Line
  <2> HIDE DEF d
  <2>2. Len(d) \in Nat
    BY <2>1, LenProperties
  <2>3. n \in 0 .. Len(d)
    BY <2>2, SchedulingAssumption DEF SchedulingAssumption
  <2> HIDE DEF n
  <2>4. SubSeq(d, 1, n) \in Seq(Check)
    BY <2>1, <2>3, SubSeqProperties
  <2> QED
    BY <2>4 DEF n, Limited
<1> HIDE DEF s
<1>2. Len(s) \in Nat /\ DOMAIN s = 1 .. Len(s) /\ \A i \in 1 .. Len(s) : s[i] \in Check
  BY <1>1, LenProperties, ElementOfSeq
<1> DEFINE row(i) == [check |-> s[i], agent |-> checks[s[i]].agent,
                      served |-> Serves(checks[s[i]].agent)]
<1>3. \A i \in 1 .. Len(s) : row(i) \in Listed
  <2> SUFFICES ASSUME NEW i \in 1 .. Len(s) PROVE row(i) \in Listed
    OBVIOUS
  <2>1. s[i] \in Check /\ checks[s[i]].agent \in Agent \cup {NoAgent}
    BY <1>2 DEF RowsTyped, CheckRow
  <2>2. Serves(checks[s[i]].agent) \in BOOLEAN
    BY DEF Serves, Active
  <2> QED
    BY <2>1, <2>2 DEF Listed
<1> HIDE DEF row
<1>4. [i \in 1 .. Len(s) |-> row(i)] \in Seq(Listed)
  BY <1>2, <1>3, SeqDef
<1>5. DueChecks = [i \in 1 .. Len(s) |-> row(i)]
  BY <1>2 DEF DueChecks, Rows, d, s, row
<1> QED
  BY <1>4, <1>5

\* executeDirect begins for checks.
LEMMA StartedProbes ==
    ASSUME WorkTyped, NEW S \in SUBSET Check, StartProbes(S)
    PROVE  /\ running' \subseteq Check
           /\ probes' \in [Check -> {"none", "scheduling", "probing"}]
           /\ recording' = recording
BY DEF WorkTyped, StartProbes

\* What the scheduler leaves of its list when it starts the direct checks at its front.
LEMMA StartedDue ==
    ASSUME WorkTyped, StartDue
    PROVE  WorkTyped'
<1> DEFINE due       == tick.due
           ahead     == {i \in DOMAIN due : \A j \in 1 .. i : due[j].agent = NoAgent}
           before(i) == running \cup {due[j].check : j \in 1 .. i - 1}
           taken     == {i \in ahead : Cardinality(before(i)) < MaxRunning}
           started   == {due[i].check : i \in taken}
           m         == Cardinality(ahead) + 1
           rest      == SubSeq(due, m, Len(due))
<1>1. /\ tick' = [tick EXCEPT !.due = rest] /\ StartProbes(started)
      /\ UNCHANGED <<queue, edit, changes, late, faults, overtaken, doubled>>
  BY DEF StartDue, bounds, history
<1>2. due \in Seq(Listed) /\ tick \in Tick
  BY DEF WorkTyped, Tick
<1> HIDE DEF due
<1>3. Len(due) \in Nat /\ DOMAIN due = 1 .. Len(due) /\ \A i \in 1 .. Len(due) : due[i] \in Listed
  BY <1>2, LenProperties, ElementOfSeq
<1>4. started \in SUBSET Check
  <2>1. \A i \in taken : due[i].check \in Check
    BY <1>3 DEF Listed
  <2> HIDE DEF taken
  <2> QED
    BY <2>1
<1>5. m \in Nat \ {0}
  <2>1. IsFiniteSet(1 .. Len(due))
    BY <1>3, FS_Interval
  <2>2. ahead \subseteq 1 .. Len(due)
    BY <1>3
  <2> HIDE DEF ahead
  <2>3. Cardinality(ahead) \in Nat
    BY <2>1, <2>2, FS_Subset, FS_CardinalityType
  <2> QED
    BY <2>3
<1> HIDE DEF m, started
<1>6. rest \in Seq(Listed)
  <2>1. \A i \in m .. Len(due) : due[i] \in Listed
    BY <1>3, <1>5
  <2> QED
    BY <1>3, <1>5, <2>1, SubSeqProperties
<1> HIDE DEF rest
<1>7. tick' \in Tick
  BY <1>1, <1>2, <1>6 DEF Tick
<1> QED
  BY <1>1, <1>4, <1>7, StartedProbes DEF WorkTyped

\* The scheduler's pass keeps the types.
LEMMA TickWork ==
    ASSUME TypesInv, TickStep
    PROVE  WorkTyped'
<1>0. WorkTyped /\ RowsTyped /\ tick \in Tick
  BY DEF TypesInv, WorkTyped
<1>1. ASSUME tick' \in Tick,
             UNCHANGED <<queue, running, probes, recording, edit, changes, late, faults,
                         overtaken, doubled>>
      PROVE  WorkTyped'
  BY <1>0, <1>1 DEF WorkTyped
<1>2. CASE TickStart
  BY <1>0, <1>1, <1>2 DEF TickStart, Tick, direct, bounds, history
<1>3. CASE ListExpired
  <2>1. OverdueTasks \in SUBSET Task
    BY DEF OverdueTasks
  <2> QED
    BY <1>0, <1>1, <1>3, <2>1 DEF ListExpired, Tick, direct, bounds, history
<1>4. CASE RecordTimeout
  BY <1>0, <1>1, <1>4 DEF RecordTimeout, Tick, direct, bounds, history
<1>5. CASE Sweep
  BY <1>0, <1>1, <1>5 DEF Sweep, Tick, direct, bounds, history
<1>6. CASE ListDue
  <2>1. DueChecks \in Seq(Listed)
    BY <1>0, ListedRows
  <2>2. tick' \in Tick
    BY <1>0, <1>6, <2>1 DEF ListDue, Tick
  <2> QED
    BY <1>1, <1>6, <2>2 DEF ListDue, direct, bounds, history
<1>7. CASE QueueDue
  <2> DEFINE row == Head(tick.due)
             new == [at |-> IF row.served THEN "asking" ELSE "scheduling",
                     check |-> row.check, agent |-> row.agent, rival |-> FALSE]
  <2>1. /\ tick.due # <<>> /\ tick' = [tick EXCEPT !.due = Tail(tick.due)]
        /\ queue' = [queue EXCEPT ![Scheduler] = new]
        /\ UNCHANGED <<running, probes, recording, edit, changes, late, faults, overtaken, doubled>>
    BY <1>7 DEF QueueDue, direct, bounds, history
  <2>2. tick.due \in Seq(Listed)
    BY <1>0 DEF Tick
  <2>3. row \in Listed /\ Tail(tick.due) \in Seq(Listed)
    BY <2>1, <2>2, HeadTailProperties
  <2> HIDE DEF row
  <2>4. new \in Queueing
    BY <2>3 DEF Listed, Queueing
  <2> HIDE DEF new
  <2>5. tick' \in Tick
    BY <1>0, <2>1, <2>3 DEF Tick
  <2>6. queue' \in [Queuer -> Queueing]
    BY <1>0, <2>1, <2>4 DEF WorkTyped
  <2> QED
    BY <1>0, <2>1, <2>5, <2>6 DEF WorkTyped
<1>8. CASE TickEnd
  <2>1. IdleTick \in Tick
    BY EmptySeq DEF IdleTick, Tick
  <2> QED
    BY <1>1, <1>8, <2>1 DEF TickEnd, direct, bounds, history
<1>9. ASSUME NEW t \in Task, ExpireTask(t) PROVE WorkTyped'
  <2>1. UNCHANGED <<queue, running, probes, recording, edit, changes, late, faults, doubled>>
    BY <1>9 DEF ExpireTask, direct, bounds
  <2>2. overtaken' \subseteq Task
    BY <1>0, <1>9 DEF ExpireTask, WorkTyped
  <2>3. tick' \in Tick
    <3>1. tasks[t].check \in Check \cup {NoCheck}
      BY <1>0 DEF RowsTyped, TaskRow
    <3> QED
      BY <1>0, <1>9, <3>1 DEF ExpireTask, Tick
  <2> QED
    BY <1>0, <2>1, <2>2, <2>3 DEF WorkTyped
<1> QED
  BY <1>0, <1>2, <1>3, <1>4, <1>5, <1>6, <1>7, <1>8, <1>9, StartedDue DEF TickStep

\* Callers of queueAgentTask keep them.
LEMMA QueueWork ==
    ASSUME TypesInv, NEW q \in Queuer, QueueStep(q)
    PROVE  WorkTyped'
<1>0. WorkTyped /\ ChecksKnown /\ queue[q] \in Queueing /\ IdleQueue \in Queueing
  BY DEF TypesInv, WorkTyped, Queueing, IdleQueue
<1>1. ASSUME NEW new \in Queueing, queue' = [queue EXCEPT ![q] = new],
             UNCHANGED <<tick, running, probes, recording, edit, changes, late, faults,
                         overtaken, doubled>>
      PROVE  WorkTyped'
  BY <1>0, <1>1 DEF WorkTyped
<1>2. CASE Ask(q)
  <2> DEFINE pending == HasOpenTask(queue[q].check, queue[q].agent)
             new == CASE ~pending                 -> [queue[q] EXCEPT !.at = "inserting"]
                      [] pending /\ q = Scheduler -> [queue[q] EXCEPT !.at = "scheduling"]
                      [] OTHER                    -> IdleQueue
  <2>1. queue' = [queue EXCEPT ![q] = new]
    BY <1>2 DEF Ask
  <2>2. new \in Queueing
    <3> HIDE DEF pending
    <3>1. [queue[q] EXCEPT !.at = "inserting"] \in Queueing
      BY <1>0 DEF Queueing
    <3>2. [queue[q] EXCEPT !.at = "scheduling"] \in Queueing
      BY <1>0 DEF Queueing
    <3> QED
      BY <1>0, <3>1, <3>2
  <2>3. UNCHANGED <<tick, running, probes, recording, edit, changes, late, faults, overtaken,
                    doubled>>
    BY <1>2 DEF Ask, direct, bounds, history
  <2> HIDE DEF new
  <2> QED
    BY <1>1, <2>1, <2>2, <2>3
<1>3. CASE Schedule(q)
  BY <1>0, <1>1, <1>3 DEF Schedule, direct, bounds, history
<1>4. ASSUME NEW t \in Task, Insert(q, t) PROVE WorkTyped'
  <2>1. UNCHANGED <<running, probes, recording, edit, changes, late, faults>>
    BY <1>4 DEF Insert, direct, bounds
  <2>2. tick' \in Tick /\ overtaken' \subseteq Task
    BY <1>0, <1>4 DEF Insert, Forget, WorkTyped, Tick
  <2>3. doubled' \subseteq Check
    BY <1>0, <1>4 DEF Insert, ChecksKnown, WorkTyped
  <2>4. queue' \in [Queuer -> Queueing]
    <3> DEFINE twin(p) == /\ p # q /\ queue[p].at = "inserting"
                          /\ queue[p].check = queue[q].check /\ queue[p].agent = queue[q].agent
               new(p) == IF p = q THEN [queue[q] EXCEPT !.at = "scheduling"]
                         ELSE IF twin(p) THEN [queue[p] EXCEPT !.rival = TRUE] ELSE queue[p]
    <3>1. queue' = [p \in Queuer |-> new(p)]
      BY <1>4 DEF Insert
    <3>2. ASSUME NEW p \in Queuer PROVE new(p) \in Queueing
      <4> HIDE DEF twin
      <4>1. queue[p] \in Queueing
        BY <1>0 DEF WorkTyped
      <4>2. [queue[p] EXCEPT !.rival = TRUE] \in Queueing
        BY <4>1 DEF Queueing
      <4>3. [queue[q] EXCEPT !.at = "scheduling"] \in Queueing
        BY <1>0 DEF Queueing
      <4> QED
        BY <4>1, <4>2, <4>3
    <3> HIDE DEF new
    <3> QED
      BY <3>1, <3>2
  <2> QED
    BY <1>0, <2>1, <2>2, <2>3, <2>4 DEF WorkTyped
<1> QED
  BY <1>2, <1>3, <1>4 DEF QueueStep

\* Every step keeps the types of what is at work.
LEMMA WorkStep ==
    ASSUME TypesInv, Next
    PROVE  WorkTyped'
<1>0. WorkTyped /\ RowsTyped /\ ChecksKnown
  BY DEF TypesInv
<1>1. IdleTick \in Tick /\ IdleQueue \in Queueing /\ NoEdit \in Edit /\ Scheduler \in Queuer
  BY EmptySeq DEF IdleTick, Tick, IdleQueue, Queueing, NoEdit, Edit, Queuer
<1>2. changes \in Nat /\ late \in Nat /\ faults \in Nat
  BY <1>0 DEF WorkTyped
<1>3. CASE OperatorStep
  <2>1. ASSUME NEW enabled \in BOOLEAN, WriteEdit(enabled) PROVE WorkTyped'
    BY <1>0, <1>1, <2>1 DEF WriteEdit, WorkTyped, direct, bounds, history
  <2>2. ASSUME NEW a \in Agent, CreateAgent(a) \/ Revoke(a) PROVE WorkTyped'
    BY <1>0, <1>2, <2>2, SchedulingAssumption
       DEF CreateAgent, Revoke, Change, WorkTyped, direct, history
  <2>3. ASSUME NEW c \in Check, NEW a \in Agent \cup {NoAgent}, EditBegin(c, a) PROVE WorkTyped'
    <3>1. edit' \in Edit
      BY <1>0, <2>3 DEF EditBegin, RowsTyped, CheckRow, Edit
    <3>2. changes' \in 0 .. MaxChanges
      BY <1>2, <2>3, SchedulingAssumption DEF EditBegin, Change
    <3> QED
      BY <1>0, <2>3, <3>1, <3>2 DEF EditBegin, WorkTyped, direct, history
  <2>4. ASSUME NEW r \in Request, NEW c \in Check, RunNow(r, c) PROVE WorkTyped'
    <3>1. /\ changes' \in 0 .. MaxChanges
          /\ UNCHANGED <<tick, edit, late, faults, overtaken, doubled>>
      BY <1>2, <2>4, SchedulingAssumption DEF RunNow, Change, history
    <3>2. CASE StartProbes({c}) /\ queue' = queue
      BY <1>0, <3>1, <3>2, StartedProbes DEF WorkTyped
    <3>3. CASE ~(StartProbes({c}) /\ queue' = queue)
      <4> DEFINE new == [at |-> "asking", check |-> c, agent |-> checks[c].agent, rival |-> FALSE]
      <4>1. queue' = [queue EXCEPT ![r] = new] /\ UNCHANGED <<running, probes, recording>>
        BY <2>4, <3>3 DEF RunNow, direct
      <4>2. new \in Queueing
        BY <1>0 DEF RowsTyped, CheckRow, Queueing
      <4> HIDE DEF new
      <4>3. queue' \in [Queuer -> Queueing]
        BY <1>0, <4>1, <4>2 DEF WorkTyped
      <4> QED
        BY <1>0, <3>1, <4>1, <4>3 DEF WorkTyped
    <3> QED
      BY <3>2, <3>3
  <2> QED
    BY <1>3, <2>1, <2>2, <2>3, <2>4 DEF OperatorStep
<1>4. CASE Failure
  <2>1. Fault => faults' \in 0 .. MaxFaults
    BY <1>2, SchedulingAssumption DEF Fault
  <2>2. CASE TickFails
    <3>1. queue' \in [Queuer -> Queueing]
      BY <1>0, <1>1, <2>2 DEF TickFails, WorkTyped
    <3> QED
      BY <1>0, <1>1, <2>1, <2>2, <3>1 DEF TickFails, WorkTyped, direct, history
  <2>3. CASE Restart
    <3>1. /\ queue' \in [Queuer -> Queueing] /\ tick' \in Tick /\ edit' \in Edit
          /\ running' \subseteq Check
          /\ probes' \in [Check -> {"none", "scheduling", "probing"}]
          /\ recording' \in [Check -> 0 .. MaxPending]
      BY <1>1, <2>3, SchedulingAssumption DEF Restart
    <3> QED
      BY <1>0, <2>1, <2>3, <3>1 DEF Restart, WorkTyped, history
  <2>4. ASSUME NEW c \in Check, ScheduleFails(c) PROVE WorkTyped'
    BY <1>0, <2>1, <2>4 DEF ScheduleFails, WorkTyped, history
  <2>5. ASSUME NEW c \in Check, RecordFails(c) PROVE WorkTyped'
    <3>1. recording' \in [Check -> 0 .. MaxPending]
      BY <1>0, <2>5, SchedulingAssumption DEF RecordFails, WorkTyped
    <3> QED
      BY <1>0, <2>1, <2>5, <3>1 DEF RecordFails, WorkTyped, history
  <2>6. ASSUME NEW k \in Call, CallFails(k) PROVE WorkTyped'
    BY <1>0, <2>1, <2>6 DEF CallFails, WorkTyped, direct, history
  <2> QED
    BY <1>4, <2>2, <2>3, <2>4, <2>5, <2>6 DEF Failure
<1>5. ASSUME NEW c \in Check, ProbeStep(c) \/ RecordProbe(c) \/ BecomeDue(c) PROVE WorkTyped'
  <2>1. CASE ScheduleProbe(c)
    BY <1>0, <2>1 DEF ScheduleProbe, WorkTyped, bounds, history
  <2>2. CASE FinishProbe(c)
    <3>1. recording' \in [Check -> 0 .. MaxPending]
      BY <1>0, <2>2, SchedulingAssumption DEF FinishProbe, WorkTyped
    <3> QED
      BY <1>0, <2>2, <3>1 DEF FinishProbe, WorkTyped, bounds, history
  <2>3. CASE RecordProbe(c)
    <3>1. recording' \in [Check -> 0 .. MaxPending]
      BY <1>0, <2>3, SchedulingAssumption DEF RecordProbe, WorkTyped
    <3> QED
      BY <1>0, <2>3, <3>1 DEF RecordProbe, WorkTyped, bounds, history
  <2>4. CASE BecomeDue(c)
    <3>1. edit' \in Edit
      BY <1>0, <2>4 DEF BecomeDue, WorkTyped, Edit
    <3> QED
      BY <1>0, <2>4, <3>1 DEF BecomeDue, WorkTyped, direct, bounds, history
  <2> QED
    BY <1>5, <2>1, <2>2, <2>3, <2>4 DEF ProbeStep
<1>6. ASSUME NEW t \in Task, AgeTask(t) PROVE WorkTyped'
  BY <1>0, <1>6, SameWork DEF AgeTask, direct, bounds, history
<1>7. ASSUME NEW k \in Call, CallStep(k) PROVE WorkTyped'
  <2>1. CASE SelectTasks(k) \/ LockAgent(k) \/ \E t \in Task : AcceptResult(k, t)
    BY <1>0, <2>1, SameWork DEF SelectTasks, LockAgent, AcceptResult, direct, bounds, history
  <2>2. CASE ExpireUnsupported(k)
    BY <1>0, <2>2, SameWork DEF ExpireUnsupported, direct, bounds, history
  <2>3. CASE ClaimTasks(k)
    <3> DEFINE reopened == {t \in calls[k].tasks : ~Open(t)}
    <3>1. /\ reopened # {} => late < MaxLate
          /\ late' = IF reopened # {} THEN late + 1 ELSE late
          /\ overtaken' = overtaken \ reopened
          /\ doubled' = doubled \cup {tasks[t].check : t \in reopened}
          /\ UNCHANGED <<tick, queue, running, probes, recording, edit, changes, faults>>
      BY <2>3 DEF ClaimTasks, direct
    <3>2. \A t \in reopened : tasks[t].check \in Check
      BY <1>0 DEF ChecksKnown
    <3> HIDE DEF reopened
    <3>3. late' \in 0 .. MaxLate
      BY <1>0, <3>1, SchedulingAssumption DEF WorkTyped
    <3>4. doubled' \subseteq Check
      BY <1>0, <3>1, <3>2 DEF WorkTyped
    <3> QED
      BY <1>0, <3>1, <3>3, <3>4 DEF WorkTyped
  <2>4. CASE CommitReport(k)
    BY <1>0, <2>4, SameWork DEF CommitReport, direct, bounds, history
  <2> QED
    BY <1>7, <2>1, <2>2, <2>3, <2>4 DEF CallStep
<1>8. ASSUME NEW a \in Agent, ClientStep(a) PROVE WorkTyped'
  BY <1>0, <1>8, SameWork DEF ClientStep, GiveUp, StartPoll, StartReport, direct, bounds, history
<1> QED
  BY <1>3, <1>4, <1>5, <1>6, <1>7, <1>8, TickWork, QueueWork DEF Next

-----------------------------------------------------------------------------
(* Checks that are known, and agents that wait.                            *)

\* What is at work stays at work for checks.
LEMMA KnownStep ==
    ASSUME TypesInv, Next
    PROVE  ChecksKnown'
<1>0. ChecksKnown /\ WorkTyped /\ RowsTyped /\ Shape /\ calls \in [Call -> Handler]
  BY DEF TypesInv, SchedulingInv, Shape
\* Tasks keep their checks, or get those of callers of queueAgentTask; handlers hold what
\* they held, or what is open.
<1>1. ASSUME \A t \in Task : \/ tasks'[t].check = tasks[t].check
                             \/ tasks'[t].check \in Check,
             \A t \in Task : Open(t)' => Open(t) \/ tasks'[t].check \in Check,
             \A k \in Call : \A t \in calls'[k].tasks :
                 t \in Task /\ (t \in calls[k].tasks \/ Open(t)),
             \A q \in Queuer : queue'[q].at # "idle" => queue'[q].check \in Check,
             edit' # NoEdit => edit'.check \in Check
      PROVE  ChecksKnown'
  <2>1. \A t \in Task : tasks[t].check \in Check => tasks'[t].check \in Check
    BY <1>1
  <2>2. \A k \in Call : \A t \in calls'[k].tasks : tasks'[t].check \in Check
    BY <1>0, <1>1, <2>1 DEF ChecksKnown
  <2>3. \A t \in Task : Open(t)' => tasks'[t].check \in Check
    BY <1>0, <1>1, <2>1 DEF ChecksKnown
  <2> QED
    BY <1>1, <2>2, <2>3 DEF ChecksKnown
<1>2. \A k \in Call : \A t \in calls[k].tasks : t \in Task
  BY <1>0 DEF Handler
<1>3. \A q \in Queuer : queue[q].at # "idle" => queue[q].check \in Check
  BY <1>0 DEF ChecksKnown
<1>4. edit # NoEdit => edit.check \in Check
  BY <1>0 DEF ChecksKnown
<1>5. IdleQueue.at = "idle" /\ Free.tasks = {} /\ \A q \in Queuer : queue[q] \in Queueing
  BY <1>0 DEF IdleQueue, Free, WorkTyped
\* An UPDATE of the status.
<1>6. ASSUME NEW S, NEW status \in {"pending", "claimed", "completed", "expired"},
             tasks' = Mark(S, status)
      PROVE  \A t \in Task : /\ tasks'[t].check = tasks[t].check
                             /\ tasks'[t].status = IF t \in S THEN status ELSE tasks[t].status
  BY <1>0, <1>6, MarkedTasks
<1>7. ASSUME UNCHANGED <<calls, queue, edit>>,
             tasks' = tasks \/ \E S : tasks' = Mark(S, "expired")
      PROVE  ChecksKnown'
  <2>1. \A t \in Task : tasks'[t].check = tasks[t].check /\ (Open(t)' => Open(t))
    <3>1. CASE tasks' = tasks
      BY <3>1 DEF Open
    <3>2. CASE tasks' # tasks
      <4>1. PICK S : tasks' = Mark(S, "expired")
        BY <1>7, <3>2
      <4> QED
        BY <1>6, <4>1 DEF Open
    <3> QED
      BY <3>1, <3>2
  <2> QED
    BY <1>1, <1>2, <1>3, <1>4, <1>7, <2>1
<1>8. CASE TickStep
  <2>1. CASE TickStart
    <3>1. PICK S : tasks' = Mark(S, "expired")
      BY <2>1, ReconciledTasks DEF TickStart
    <3> QED
      BY <1>7, <2>1, <3>1 DEF TickStart
  <2>2. CASE ListExpired \/ RecordTimeout \/ ListDue \/ StartDue \/ TickEnd
    BY <1>7, <2>2 DEF ListExpired, RecordTimeout, ListDue, StartDue, TickEnd, rows
  <2>3. CASE Sweep
    BY <1>7, <2>3 DEF Sweep
  <2>4. ASSUME NEW t \in Task, ExpireTask(t) PROVE ChecksKnown'
    BY <1>7, <2>4 DEF ExpireTask
  <2>5. CASE QueueDue
    <3> DEFINE row == Head(tick.due)
               new == [at |-> IF row.served THEN "asking" ELSE "scheduling",
                       check |-> row.check, agent |-> row.agent, rival |-> FALSE]
    <3>1. /\ tick.due # <<>> /\ queue' = [queue EXCEPT ![Scheduler] = new]
          /\ UNCHANGED <<tasks, calls, edit>>
      BY <2>5 DEF QueueDue, rows
    <3>2. tick.due \in Seq(Listed)
      BY <1>0 DEF WorkTyped, Tick
    <3>3. new.check \in Check
      <4>1. row \in Listed
        BY <3>1, <3>2, HeadTailProperties
      <4> HIDE DEF row
      <4> QED
        BY <4>1 DEF Listed
    <3> HIDE DEF new
    <3>4. \A q \in Queuer : queue'[q].at # "idle" => queue'[q].check \in Check
      BY <1>0, <1>3, <3>1, <3>3 DEF WorkTyped
    <3> QED
      BY <1>1, <1>2, <1>4, <3>1, <3>4 DEF Open
  <2> QED
    BY <1>8, <2>1, <2>2, <2>3, <2>4, <2>5 DEF TickStep
<1>9. CASE OperatorStep
  <2>1. ASSUME NEW enabled \in BOOLEAN, WriteEdit(enabled) PROVE ChecksKnown'
    BY <1>1, <1>2, <1>3, <2>1 DEF WriteEdit, Open
  <2>2. ASSUME NEW a \in Agent, CreateAgent(a) \/ Revoke(a) PROVE ChecksKnown'
    <3>1. PICK S : tasks' = Mark(S, "expired")
      BY <2>2, ReconciledTasks DEF CreateAgent, Revoke
    <3> QED
      BY <1>7, <2>2, <3>1 DEF CreateAgent, Revoke
  <2>3. ASSUME NEW c \in Check, NEW a \in Agent \cup {NoAgent}, EditBegin(c, a)
        PROVE  ChecksKnown'
    BY <1>1, <1>2, <1>3, <2>3 DEF EditBegin, Open, rows
  <2>4. ASSUME NEW r \in Request, NEW c \in Check, RunNow(r, c) PROVE ChecksKnown'
    <3>1. UNCHANGED <<tasks, calls, edit>>
      BY <2>4 DEF RunNow, rows
    <3>2. \A q \in Queuer : queue'[q].at # "idle" => queue'[q].check \in Check
      BY <1>0, <1>3, <2>4 DEF RunNow, WorkTyped
    <3> QED
      BY <1>1, <1>2, <1>4, <3>1, <3>2 DEF Open
  <2> QED
    BY <1>9, <2>1, <2>2, <2>3, <2>4 DEF OperatorStep
<1>10. CASE Failure
  <2>1. CASE TickFails
    <3>1. \A q \in Queuer : queue'[q].at # "idle" => queue'[q].check \in Check
      BY <1>0, <1>3, <1>5, <2>1 DEF TickFails, WorkTyped
    <3> QED
      BY <1>1, <1>2, <1>4, <2>1, <3>1 DEF TickFails, Open, rows
  <2>2. CASE Restart
    BY <1>1, <1>5, <2>2 DEF Restart, Open, rows
  <2>3. ASSUME NEW c \in Check, ScheduleFails(c) \/ RecordFails(c) PROVE ChecksKnown'
    BY <1>7, <2>3 DEF ScheduleFails, RecordFails, rows
  <2>4. ASSUME NEW k \in Call, CallFails(k) PROVE ChecksKnown'
    <3>1. \A l \in Call : \A t \in calls'[l].tasks : t \in calls[l].tasks
      BY <1>0, <1>5, <2>4 DEF CallFails
    <3> QED
      BY <1>1, <1>2, <1>3, <1>4, <2>4, <3>1 DEF CallFails, Open, rows
  <2> QED
    BY <1>10, <2>1, <2>2, <2>3, <2>4 DEF Failure
<1>11. ASSUME NEW q \in Queuer, QueueStep(q) PROVE ChecksKnown'
  <2>1. CASE Ask(q)
    <3>1. queue'[q].at # "idle" => queue[q].at # "idle" /\ queue'[q].check = queue[q].check
      BY <1>0, <1>5, <2>1 DEF Ask, WorkTyped, Queueing
    <3>2. \A p \in Queuer : p # q => queue'[p] = queue[p]
      BY <1>0, <2>1 DEF Ask, WorkTyped
    <3>3. \A p \in Queuer : queue'[p].at # "idle" => queue'[p].check \in Check
      BY <1>3, <3>1, <3>2
    <3> QED
      BY <1>1, <1>2, <1>4, <2>1, <3>3 DEF Ask, Open, rows
  <2>2. CASE Schedule(q)
    <3>1. \A p \in Queuer : queue'[p].at # "idle" => queue'[p].check \in Check
      BY <1>0, <1>3, <1>5, <2>2 DEF Schedule, WorkTyped
    <3> QED
      BY <1>1, <1>2, <1>4, <2>2, <3>1 DEF Schedule, Open
  <2>3. ASSUME NEW t \in Task, Insert(q, t) PROVE ChecksKnown'
    <3>1. queue[q].at = "inserting" /\ queue[q].check \in Check
      BY <1>3, <2>3 DEF Insert
    <3>2. \A u \in Task : /\ u = t => tasks'[u].check = queue[q].check
                          /\ u # t => tasks'[u] = tasks[u]
      BY <1>0, <2>3 DEF Insert, RowsTyped
    <3>3. \A k \in Call : \A u \in calls'[k].tasks : u \in calls[k].tasks
      BY <1>0, <2>3 DEF Insert, Forget, Handler
    <3>4. \A p \in Queuer : queue'[p].at # "idle" => queue'[p].check \in Check
      <4> SUFFICES ASSUME NEW p \in Queuer, queue'[p].at # "idle" PROVE queue'[p].check \in Check
        OBVIOUS
      <4>1. queue'[p].check = queue[p].check /\ (p = q \/ queue'[p].at = queue[p].at)
        BY <1>5, <2>3 DEF Insert, Queueing
      <4> QED
        BY <1>3, <3>1, <4>1
    <3>5. edit' = edit
      BY <2>3 DEF Insert
    <3> QED
      BY <1>1, <1>2, <1>4, <3>1, <3>2, <3>3, <3>4, <3>5 DEF Open
  <2> QED
    BY <1>11, <2>1, <2>2, <2>3 DEF QueueStep
<1>12. ASSUME NEW c \in Check, ProbeStep(c) \/ RecordProbe(c) \/ BecomeDue(c) PROVE ChecksKnown'
  <2>1. UNCHANGED <<tasks, calls, queue>>
    BY <1>12 DEF ProbeStep, ScheduleProbe, FinishProbe, RecordProbe, BecomeDue, rows
  <2>2. edit' # NoEdit => edit'.check \in Check
    <3>1. CASE edit' = edit
      BY <1>4, <3>1
    <3>2. CASE edit' # edit
      <4>1. edit.check = c /\ edit' = [edit EXCEPT !.next = "due"]
        BY <1>12, <3>2
           DEF ProbeStep, ScheduleProbe, FinishProbe, RecordProbe, BecomeDue, rows
      <4> QED
        BY <1>0, <4>1 DEF WorkTyped, Edit
    <3> QED
      BY <3>1, <3>2
  <2> QED
    BY <1>1, <1>2, <1>3, <2>1, <2>2 DEF Open
<1>13. ASSUME NEW t \in Task, AgeTask(t) PROVE ChecksKnown'
  <2>1. \A u \in Task : tasks'[u].check = tasks[u].check /\ tasks'[u].status = tasks[u].status
    BY <1>0, <1>13 DEF AgeTask, RowsTyped, TaskRow
  <2> QED
    BY <1>1, <1>2, <1>3, <1>4, <1>13, <2>1 DEF AgeTask, Open
<1>14. ASSUME NEW k \in Call, CallStep(k) PROVE ChecksKnown'
  <2>1. queue' = queue /\ edit' = edit
    BY <1>14 DEF CallStep, SelectTasks, ExpireUnsupported, ClaimTasks, LockAgent, CommitReport,
                 AcceptResult, rows
  <2>2. ASSUME \A l \in Call : l # k => calls'[l] = calls[l],
               \A t \in calls'[k].tasks : t \in Task /\ (t \in calls[k].tasks \/ Open(t)),
               \A t \in Task : /\ tasks'[t].check = tasks[t].check
                               /\ Open(t)' => Open(t) \/ tasks'[t].check \in Check
        PROVE  ChecksKnown'
    BY <1>1, <1>2, <1>3, <1>4, <2>1, <2>2
  <2>3. ASSUME NEW got, AnswerPoll(k, got)
        PROVE  calls'[k].tasks = {} /\ \A l \in Call : l # k => calls'[l] = calls[l]
    BY <1>0, <1>5, <2>3 DEF AnswerPoll
  <2>4. CASE SelectTasks(k)
    <3> DEFINE mine == {t \in Task : Open(t) /\ tasks[t].agent = calls[k].agent}
               supported == {t \in mine : checks[tasks[t].check].enabled /\ calls[k].capable}
               new == [calls[k] EXCEPT !.at = IF supported = mine THEN "claim" ELSE "expire",
                                       !.tasks = supported, !.others = mine \ supported]
    <3>1. tasks' = tasks /\ (AnswerPoll(k, {}) \/ calls' = [calls EXCEPT ![k] = new])
      BY <2>4 DEF SelectTasks, rows
    <3>2. new.tasks = supported /\ \A t \in supported : t \in Task /\ Open(t)
      BY <1>0 DEF Handler
    <3> HIDE DEF new, supported
    <3>3. CASE AnswerPoll(k, {})
      BY <2>2, <2>3, <3>1, <3>3 DEF Open
    <3>4. CASE calls' = [calls EXCEPT ![k] = new]
      BY <1>0, <2>2, <3>1, <3>2, <3>4 DEF Open
    <3> QED
      BY <3>1, <3>3, <3>4
  <2>5. CASE ExpireUnsupported(k)
    <3>1. tasks' = Mark(calls[k].others, "expired")
      BY <2>5 DEF ExpireUnsupported
    <3>2. \A t \in Task : tasks'[t].check = tasks[t].check /\ (Open(t)' => Open(t))
      BY <1>6, <3>1 DEF Open
    <3>3. /\ \A l \in Call : l # k => calls'[l] = calls[l]
          /\ \A t \in calls'[k].tasks : t \in calls[k].tasks
      <4>1. CASE AnswerPoll(k, {})
        BY <2>3, <4>1
      <4>2. CASE ~AnswerPoll(k, {})
        BY <1>0, <2>5, <4>2 DEF ExpireUnsupported, Handler
      <4> QED
        BY <4>1, <4>2
    <3> QED
      BY <1>2, <2>2, <3>2, <3>3
  <2>6. CASE ClaimTasks(k)
    <3>1. tasks' = Mark(calls[k].tasks, "claimed") /\ AnswerPoll(k, calls[k].tasks)
      BY <2>6 DEF ClaimTasks
    <3>2. \A t \in Task : /\ tasks'[t].check = tasks[t].check
                          /\ Open(t)' => Open(t) \/ t \in calls[k].tasks
      BY <1>6, <3>1 DEF Open
    <3>3. \A t \in Task : t \in calls[k].tasks => tasks'[t].check \in Check
      BY <1>0, <3>2 DEF ChecksKnown
    <3> QED
      BY <2>2, <2>3, <3>1, <3>2, <3>3
  <2>7. CASE LockAgent(k)
    <3>1. /\ \A l \in Call : l # k => calls'[l] = calls[l]
          /\ calls'[k].tasks = calls[k].tasks /\ tasks' = tasks
      BY <1>0, <2>7 DEF LockAgent, Handler, rows
    <3> QED
      BY <1>2, <2>2, <3>1 DEF Open
  <2>8. CASE CommitReport(k)
    <3>1. tasks' = Mark(calls[k].tasks, "completed") /\ calls' = [calls EXCEPT ![k] = Free]
      BY <2>8 DEF CommitReport
    <3>2. \A t \in Task : tasks'[t].check = tasks[t].check /\ (Open(t)' => Open(t))
      BY <1>6, <3>1 DEF Open
    <3>3. calls'[k].tasks = {} /\ \A l \in Call : l # k => calls'[l] = calls[l]
      BY <1>0, <1>5, <3>1
    <3> QED
      BY <2>2, <3>2, <3>3
  <2>9. ASSUME NEW t \in Task, AcceptResult(k, t) PROVE ChecksKnown'
    <3>1. /\ \A l \in Call : l # k => calls'[l] = calls[l]
          /\ \A u \in calls'[k].tasks : u \in calls[k].tasks \/ (u = t /\ Open(t))
          /\ tasks' = tasks
      BY <1>0, <2>9 DEF AcceptResult, Acceptable, Handler, rows
    <3> QED
      BY <1>2, <2>2, <3>1 DEF Open
  <2> QED
    BY <1>14, <2>4, <2>5, <2>6, <2>7, <2>8, <2>9 DEF CallStep
<1>15. ASSUME NEW a \in Agent, ClientStep(a) PROVE ChecksKnown'
  <2>1. UNCHANGED <<tasks, queue, edit>>
    BY <1>15 DEF ClientStep, GiveUp, StartPoll, StartReport, rows
  <2>2. \A k \in Call : \A t \in calls'[k].tasks : t \in calls[k].tasks
    <3>1. CASE GiveUp(a)
      BY <1>0, <3>1 DEF GiveUp, Forgotten, Handler
    <3>2. ASSUME NEW k \in Call, StartPoll(a, k)
          PROVE  \A l \in Call : \A t \in calls'[l].tasks : t \in calls[l].tasks
      BY <1>0, <3>2 DEF StartPoll, Free
    <3>3. ASSUME NEW k \in Call, NEW capable, StartReport(a, k, capable)
          PROVE  \A l \in Call : \A t \in calls'[l].tasks : t \in calls[l].tasks
      BY <1>0, <3>3 DEF StartReport, Free
    <3> QED
      BY <1>15, <3>1, <3>2, <3>3 DEF ClientStep
  <2> QED
    BY <1>1, <1>2, <1>3, <1>4, <2>1, <2>2 DEF Open
<1> QED
  BY <1>8, <1>9, <1>10, <1>11, <1>12, <1>13, <1>14, <1>15 DEF Next

\* Handlers that go on are awaited as before, or not any more.
LEMMA StillAwaited ==
    ASSUME AwaitedOnce,
           \A k \in Call : calls'[k].awaited =>
               /\ calls[k].awaited /\ calls'[k].agent = calls[k].agent
               /\ calls'[k].at # "free" /\ Awaits(k)' = Awaits(k)
               /\ clients'[calls[k].agent].at = clients[calls[k].agent].at
    PROVE  AwaitedOnce'
BY DEF AwaitedOnce

\* A step that leaves handlers and agents alone.
LEMMA SameCalls ==
    ASSUME AwaitedOnce, UNCHANGED <<calls, clients>>
    PROVE  AwaitedOnce'
BY DEF AwaitedOnce, Awaits

\* The handler ends; the agent, if it waits for this one, gets its answer.
LEMMA AnsweredOnce ==
    ASSUME AwaitedOnce, CallersKnown, calls \in [Call -> Handler], clients \in [Agent -> Client],
           NEW k \in Call, NEW next, calls' = [calls EXCEPT ![k] = Free],
           clients' = IF calls[k].awaited THEN [clients EXCEPT ![calls[k].agent] = next]
                                          ELSE clients
    PROVE  AwaitedOnce'
<1>1. calls'[k] = Free /\ ~Free.awaited /\ \A l \in Call : l # k => calls'[l] = calls[l]
  BY DEF Free
<1>2. ASSUME NEW l \in Call, calls'[l].awaited
      PROVE  /\ calls[l].awaited /\ calls'[l].agent = calls[l].agent
             /\ calls'[l].at # "free" /\ Awaits(l)' = Awaits(l)
             /\ clients'[calls[l].agent].at = clients[calls[l].agent].at
  <2>1. l # k /\ calls'[l] = calls[l] /\ calls[l].awaited
    BY <1>1, <1>2
  <2>2. calls[l].at # "free" /\ calls[l].agent \in Agent
    BY <2>1 DEF AwaitedOnce, CallersKnown
  <2>3. calls[k].awaited => calls[k].agent # calls[l].agent
    BY <2>1 DEF AwaitedOnce
  <2>4. clients'[calls[l].agent] = clients[calls[l].agent]
    BY <2>2, <2>3
  <2> QED
    BY <2>1, <2>2, <2>4 DEF Awaits
<1> QED
  BY <1>2, StillAwaited

\* The agent that begins a request waits for no other.
LEMMA BegunOnce ==
    ASSUME AwaitedOnce, CallersKnown, calls \in [Call -> Handler], clients \in [Agent -> Client],
           NEW a \in Agent, NEW k \in Call, NEW new \in Handler, NEW next \in Client,
           clients[a].at \in {"idle", "executing"},
           new.agent = a,
           \/ new.at = "select" /\ next.at = "polling"
           \/ new.at = "lock" /\ next.at = "reporting",
           calls' = [calls EXCEPT ![k] = new], clients' = [clients EXCEPT ![a] = next]
    PROVE  AwaitedOnce'
<1>1. calls'[k] = new /\ \A l \in Call : l # k => calls'[l] = calls[l]
  OBVIOUS
<1>2. \A l \in Call : calls[l].awaited => /\ calls[l].agent # a /\ calls[l].agent \in Agent
                                          /\ calls[l].at # "free"
  <2> SUFFICES ASSUME NEW l \in Call, calls[l].awaited
               PROVE  calls[l].agent # a /\ calls[l].agent \in Agent /\ calls[l].at # "free"
    OBVIOUS
  <2>1. calls[l].at # "free" /\ clients[calls[l].agent].at \in {"reporting", "polling"}
    BY DEF AwaitedOnce, Awaits
  <2> QED
    BY <2>1 DEF CallersKnown
<1> SUFFICES ASSUME NEW l \in Call, calls'[l].awaited
             PROVE  /\ calls'[l].at # "free" /\ clients'[calls'[l].agent].at = Awaits(l)'
                    /\ \A m \in Call : /\ calls'[m].awaited /\ calls'[m].agent = calls'[l].agent
                                       => m = l
  BY DEF AwaitedOnce
<1>3. CASE l = k
  <2>1. clients'[a].at = Awaits(k)'
    BY <1>1 DEF Awaits
  <2> QED
    BY <1>1, <1>2, <1>3, <2>1
<1>4. CASE l # k
  <2>1. calls'[l] = calls[l] /\ calls[l].agent # a /\ calls[l].agent \in Agent
    BY <1>1, <1>2, <1>4
  <2>2. clients'[calls[l].agent] = clients[calls[l].agent]
    BY <2>1
  <2>3. \A m \in Call : calls'[m].awaited /\ calls'[m].agent = calls[l].agent => m = l
    BY <1>1, <2>1 DEF AwaitedOnce
  <2> QED
    BY <2>1, <2>2, <2>3 DEF AwaitedOnce, Awaits
<1> QED
  BY <1>3, <1>4

\* In every step agents wait for one answer at most.
LEMMA AwaitedStep ==
    ASSUME TypesInv, Next
    PROVE  AwaitedOnce'
<1>0. /\ AwaitedOnce /\ CallersKnown /\ calls \in [Call -> Handler]
      /\ clients \in [Agent -> Client] /\ agents \in [Agent -> AgentRow]
  BY DEF TypesInv, SchedulingInv, Shape
<1>1. CASE TickStep
  BY <1>0, <1>1, SameCalls DEF TickStep, TickStart, ListExpired, ExpireTask, RecordTimeout, Sweep,
                              ListDue, QueueDue, StartDue, TickEnd
<1>2. CASE OperatorStep
  BY <1>0, <1>2, SameCalls DEF OperatorStep, WriteEdit, CreateAgent, Revoke, EditBegin, RunNow
<1>3. CASE Failure
  <2>1. CASE TickFails
    BY <1>0, <2>1, SameCalls DEF TickFails
  <2>2. CASE Restart
    BY <2>2 DEF Restart, AwaitedOnce, Free
  <2>3. ASSUME NEW c \in Check, ScheduleFails(c) \/ RecordFails(c) PROVE AwaitedOnce'
    BY <1>0, <2>3, SameCalls DEF ScheduleFails, RecordFails
  <2>4. ASSUME NEW k \in Call, CallFails(k) PROVE AwaitedOnce'
    BY <1>0, <2>4, AnsweredOnce DEF CallFails
  <2> QED
    BY <1>3, <2>1, <2>2, <2>3, <2>4 DEF Failure
<1>4. ASSUME NEW q \in Queuer, QueueStep(q) PROVE AwaitedOnce'
  <2>1. CASE Ask(q) \/ Schedule(q)
    BY <1>0, <2>1, SameCalls DEF Ask, Schedule
  <2>2. ASSUME NEW t \in Task, Insert(q, t) PROVE AwaitedOnce'
    <3>1. \A k \in Call : /\ calls'[k].awaited = calls[k].awaited
                          /\ calls'[k].agent = calls[k].agent /\ calls'[k].at = calls[k].at
      BY <1>0, <2>2 DEF Insert, Forget, Handler
    <3>2. \A a \in Agent : clients'[a].at = clients[a].at
      BY <1>0, <2>2 DEF Insert, Forget, Client
    <3>3. \A k \in Call : calls[k].awaited => calls[k].at # "free" /\ calls[k].agent \in Agent
      BY <1>0 DEF AwaitedOnce, CallersKnown
    <3>4. \A k \in Call : Awaits(k)' = Awaits(k)
      BY <3>1 DEF Awaits
    <3> QED
      BY <1>0, <3>1, <3>2, <3>3, <3>4, StillAwaited
  <2> QED
    BY <1>4, <2>1, <2>2 DEF QueueStep
<1>5. ASSUME NEW c \in Check, ProbeStep(c) \/ RecordProbe(c) \/ BecomeDue(c) PROVE AwaitedOnce'
  BY <1>0, <1>5, SameCalls DEF ProbeStep, ScheduleProbe, FinishProbe, RecordProbe, BecomeDue
<1>6. ASSUME NEW t \in Task, AgeTask(t) PROVE AwaitedOnce'
  BY <1>0, <1>6, SameCalls DEF AgeTask
<1>7. ASSUME NEW k \in Call, CallStep(k) PROVE AwaitedOnce'
\* The handler goes on, and is a poll or a heartbeat as before.
  <2>1. ASSUME NEW new, calls' = [calls EXCEPT ![k] = new], clients' = clients,
               new.awaited = calls[k].awaited, new.agent = calls[k].agent, new.at # "free",
               new.at \in {"lock", "accept"} <=> calls[k].at \in {"lock", "accept"}
        PROVE  AwaitedOnce'
    <3>1. calls'[k] = new /\ \A l \in Call : l # k => calls'[l] = calls[l]
      BY <1>0, <2>1
    <3>2. \A l \in Call : calls[l].awaited => calls[l].at # "free"
      BY <1>0 DEF AwaitedOnce
    <3>3. \A l \in Call : /\ calls'[l].awaited = calls[l].awaited
                          /\ calls'[l].agent = calls[l].agent
                          /\ Awaits(l)' = Awaits(l)
      <4> SUFFICES ASSUME NEW l \in Call
                   PROVE  /\ calls'[l].awaited = calls[l].awaited
                          /\ calls'[l].agent = calls[l].agent
                          /\ Awaits(l)' = Awaits(l)
        OBVIOUS
      <4>1. CASE l = k
        BY <2>1, <3>1, <4>1 DEF Awaits
      <4>2. CASE l # k
        BY <3>1, <4>2 DEF Awaits
      <4> QED
        BY <4>1, <4>2
    <3>4. \A l \in Call : calls'[l].awaited => calls'[l].at # "free"
      BY <2>1, <3>1, <3>2
    <3> QED
      BY <1>0, <2>1, <3>3, <3>4, StillAwaited
  <2>2. ASSUME NEW got, AnswerPoll(k, got) PROVE AwaitedOnce'
    BY <1>0, <2>2, AnsweredOnce DEF AnswerPoll
  <2>3. CASE SelectTasks(k)
    <3> DEFINE mine == {t \in Task : Open(t) /\ tasks[t].agent = calls[k].agent}
               supported == {t \in mine : checks[tasks[t].check].enabled /\ calls[k].capable}
               new == [calls[k] EXCEPT !.at = IF supported = mine THEN "claim" ELSE "expire",
                                       !.tasks = supported, !.others = mine \ supported]
    <3>1. /\ calls[k].at = "select"
          /\ AnswerPoll(k, {}) \/ (calls' = [calls EXCEPT ![k] = new] /\ clients' = clients)
      BY <2>3 DEF SelectTasks
    <3>2. /\ new.awaited = calls[k].awaited /\ new.agent = calls[k].agent
          /\ new.at \in {"claim", "expire"}
      <4> HIDE DEF mine, supported
      <4> QED
        BY <1>0 DEF Handler
    <3> HIDE DEF new
    <3> QED
      BY <2>1, <2>2, <3>1, <3>2
  <2>4. CASE ExpireUnsupported(k)
    <3> DEFINE new == [calls[k] EXCEPT !.at = "claim", !.others = {}]
    <3>1. /\ calls[k].at = "expire"
          /\ AnswerPoll(k, {}) \/ (calls' = [calls EXCEPT ![k] = new] /\ clients' = clients)
      BY <2>4 DEF ExpireUnsupported
    <3>2. /\ new.awaited = calls[k].awaited /\ new.agent = calls[k].agent /\ new.at = "claim"
      BY <1>0 DEF Handler
    <3> HIDE DEF new
    <3> QED
      BY <2>1, <2>2, <3>1, <3>2
  <2>5. CASE ClaimTasks(k)
    BY <2>2, <2>5 DEF ClaimTasks
  <2>6. CASE LockAgent(k)
    <3> DEFINE new == [calls[k] EXCEPT !.at = "accept"]
    <3>1. calls[k].at = "lock" /\ calls' = [calls EXCEPT ![k] = new] /\ clients' = clients
      BY <2>6 DEF LockAgent
    <3>2. /\ new.awaited = calls[k].awaited /\ new.agent = calls[k].agent /\ new.at = "accept"
      BY <1>0 DEF Handler
    <3> HIDE DEF new
    <3> QED
      BY <2>1, <3>1, <3>2
  <2>7. CASE CommitReport(k)
    BY <1>0, <2>7, AnsweredOnce DEF CommitReport
  <2>8. ASSUME NEW t \in Task, AcceptResult(k, t) PROVE AwaitedOnce'
    <3> DEFINE new == [calls[k] EXCEPT
                          !.others = calls[k].others \ {t},
                          !.tasks = calls[k].tasks \cup (IF Acceptable(k, t) THEN {t} ELSE {})]
    <3>1. calls[k].at = "accept" /\ calls' = [calls EXCEPT ![k] = new] /\ clients' = clients
      BY <2>8 DEF AcceptResult
    <3>2. /\ new.awaited = calls[k].awaited /\ new.agent = calls[k].agent
          /\ new.at = calls[k].at
      BY <1>0 DEF Handler
    <3> HIDE DEF new
    <3> QED
      BY <2>1, <3>1, <3>2
  <2> QED
    BY <1>7, <2>3, <2>4, <2>5, <2>6, <2>7, <2>8 DEF CallStep
<1>8. ASSUME NEW a \in Agent, ClientStep(a) PROVE AwaitedOnce'
  <2>1. CASE GiveUp(a)
    <3>1. clients' = [clients EXCEPT ![a] = Idle]
      BY <2>1 DEF GiveUp
    <3>2. \A l \in Call : IF calls[l].agent = a THEN ~calls'[l].awaited
                                                ELSE calls'[l] = calls[l]
      BY <1>0, <2>1 DEF GiveUp, Forgotten, Handler
    <3>3. \A l \in Call : calls[l].awaited => calls[l].at # "free" /\ calls[l].agent \in Agent
      BY <1>0 DEF AwaitedOnce, CallersKnown
    <3>4. \A l \in Call : calls'[l].awaited => calls'[l] = calls[l] /\ calls[l].agent # a
      BY <3>2
    <3>5. \A l \in Call : calls'[l].awaited => Awaits(l)' = Awaits(l)
      BY <3>4 DEF Awaits
    <3>6. \A l \in Call : calls'[l].awaited => clients'[calls[l].agent] = clients[calls[l].agent]
      BY <1>0, <3>1, <3>3, <3>4
    <3> QED
      BY <1>0, <3>3, <3>4, <3>5, <3>6, StillAwaited
  <2>2. ASSUME NEW k \in Call, StartPoll(a, k) PROVE AwaitedOnce'
    <3> DEFINE new  == [Free EXCEPT !.at = "select", !.agent = a, !.capable = agents[a].capable,
                                    !.awaited = TRUE]
               next == [at |-> "polling", tasks |-> {}]
    <3>1. /\ clients[a].at \in {"idle", "executing"} /\ calls' = [calls EXCEPT ![k] = new]
          /\ clients' = [clients EXCEPT ![a] = next]
      BY <2>2 DEF StartPoll
    <3>2. agents[a].capable \in BOOLEAN
      BY <1>0 DEF AgentRow
    <3>3. new \in Handler /\ new.agent = a /\ new.at = "select"
      BY <3>2 DEF Free, Handler
    <3>4. next \in Client /\ next.at = "polling"
      BY DEF Client
    <3> HIDE DEF new, next
    <3> QED
      BY <1>0, <3>1, <3>3, <3>4, BegunOnce
  <2>3. ASSUME NEW k \in Call, NEW capable \in Capability, StartReport(a, k, capable)
        PROVE  AwaitedOnce'
    <3> DEFINE new  == [Free EXCEPT !.at = "lock", !.agent = a, !.capable = capable,
                                    !.others = clients[a].tasks, !.awaited = TRUE]
               next == [at |-> "reporting", tasks |-> {}]
    <3>1. /\ clients[a].at \in {"idle", "executing"} /\ calls' = [calls EXCEPT ![k] = new]
          /\ clients' = [clients EXCEPT ![a] = next]
      BY <2>3 DEF StartReport
    <3>2. capable \in BOOLEAN /\ clients[a].tasks \in SUBSET Task
      BY <1>0, SchedulingAssumption DEF Client
    <3>3. new \in Handler /\ new.agent = a /\ new.at = "lock"
      BY <3>2 DEF Free, Handler
    <3>4. next \in Client /\ next.at = "reporting"
      BY DEF Client
    <3> HIDE DEF new, next
    <3> QED
      BY <1>0, <3>1, <3>3, <3>4, BegunOnce
  <2> QED
    BY <1>8, <2>1, <2>2, <2>3 DEF ClientStep
<1> QED
  BY <1>1, <1>2, <1>3, <1>4, <1>5, <1>6, <1>7, <1>8 DEF Next

\* At the start nothing is at work.
LEMMA TypesInit == Init => TypesInv
<1> SUFFICES ASSUME Init PROVE TypesInv
  OBVIOUS
<1>1. RowsTyped
  <2>1. PICK first \in Agent, status \in {"active", "revoked"}, remote \in SUBSET Check :
           LET due == IF status = "active" THEN Check ELSE Check \ remote
           IN  /\ checks = [c \in Check |-> [agent |-> IF c \in remote THEN first ELSE NoAgent,
                                             enabled |-> TRUE,
                                             next |-> IF c \in due THEN "due" ELSE "never"]]
               /\ line \in SetToSeqs(due)
    BY DEF Init
  <2> DEFINE due == IF status = "active" THEN Check ELSE Check \ remote
  <2>2. due \in SUBSET Check
    OBVIOUS
  <2>3. /\ checks = [c \in Check |-> [agent |-> IF c \in remote THEN first ELSE NoAgent,
                                      enabled |-> TRUE,
                                      next |-> IF c \in due THEN "due" ELSE "never"]]
        /\ line \in SetToSeqs(due)
    BY <2>1
  <2> HIDE DEF due
  <2>4. checks \in [Check -> CheckRow] /\ Due = due
    BY <2>2, <2>3 DEF CheckRow, Due
  <2>5. tasks \in [Task -> TaskRow]
    BY DEF Init, NoTask, TaskRow
  <2> QED
    BY <2>2, <2>3, <2>4, <2>5, AnyLine DEF RowsTyped
<1>2. WorkTyped
  <2>1. IdleTick \in Tick
    BY EmptySeq DEF IdleTick, Tick
  <2>2. IdleQueue \in Queueing /\ NoEdit \in Edit
    BY DEF IdleQueue, Queueing, NoEdit, Edit
  <2>3. recording \in [Check -> 0 .. MaxPending]
    BY SchedulingAssumption DEF Init
  <2> QED
    BY <2>1, <2>2, <2>3, SchedulingAssumption DEF Init, WorkTyped
<1>3. ChecksKnown
  BY DEF Init, ChecksKnown, NoTask, Open, Free, IdleQueue
<1>4. AwaitedOnce
  BY DEF Init, AwaitedOnce, Free
<1> QED
  BY <1>1, <1>2, <1>3, <1>4, SchedulingInit DEF TypesInv

\* Every step keeps the types.
LEMMA TypesStep == TypesInv /\ [Next]_vars => TypesInv'
<1> SUFFICES ASSUME TypesInv, [Next]_vars PROVE TypesInv'
  OBVIOUS
<1>1. SchedulingInv'
  BY SchedulingStep DEF TypesInv
<1>2. CASE UNCHANGED vars
  <2>1. RowsTyped /\ WorkTyped /\ ChecksKnown /\ AwaitedOnce
    BY DEF TypesInv
  <2>2. RowsTyped' /\ WorkTyped' /\ AwaitedOnce'
    BY <1>2, <2>1, SameRows, SameWork, SameCalls DEF vars, rows, direct, bounds, history
  <2>3. ChecksKnown'
    BY <1>2, <2>1 DEF ChecksKnown, Open, vars, rows
  <2> QED
    BY <1>1, <2>2, <2>3 DEF TypesInv
<1>3. CASE Next
  BY <1>1, <1>3, RowsStep, WorkStep, KnownStep, AwaitedStep DEF TypesInv
<1> QED
  BY <1>2, <1>3

-----------------------------------------------------------------------------
(* Theorems.                                                               *)

\* The invariant holds of every behaviour.
LEMMA SchedulingInvariant == Spec => []SchedulingInv
BY SchedulingInit, SchedulingStep, PTL DEF Spec

\* An opened task ends in one result at most, but for the races the property names
\* (AgentsService.acceptResult, CheckOrchestratorService.expireAgentTasks).
THEOREM TasksEndOnce == Spec => []OneOutcomePerOpening
BY SchedulingInvariant, PTL DEF SchedulingInv, OutcomeInv

\* A check has one open task for an agent at most, but for the races the property names
\* (CheckOrchestratorService.queueAgentTask).
THEOREM TasksAreQueuedOnce == Spec => []OneOpenTask
BY SchedulingInvariant, PTL DEF SchedulingInv, QueueInv

\* Every variable keeps its type; the line is the checks whose next_check_at has come, each
\* of them once, and an agent waits for the answer of one handler, the one that is at work
\* on its request (CheckOrchestratorService.scheduleNext and queueAgentTask,
\* AgentsService.reconcileAgentRelationships, poll and heartbeat).
THEOREM TypeCorrect == Spec => []TypeOK
BY TypesInit, TypesStep, TypesFollow, PTL DEF Spec

=============================================================================
