--------------------------- MODULE TelemetryProofs ---------------------------
(***************************************************************************)
(* Proofs about Telemetry, for stores, batches, requests and snapshots of  *)
(* any number, any readings and any conditions an administrator may enter: *)
(* no snapshot is lost between the store and the API, the API evaluates    *)
(* the newest one and none twice, and a rule follows the values it saw.    *)
(***************************************************************************)
EXTENDS Telemetry, FiniteSetTheorems, TLAPS

-----------------------------------------------------------------------------
(* The first and the last of some snapshots.                               *)

\* Some naturals have a least one: that of the smallest interval from 0.
LEMMA LeastOne ==
    ASSUME NEW T, T \subseteq Nat, T # {}
    PROVE  Min(T) \in T /\ \A y \in T : Min(T) <= y
<1> DEFINE Below(x) == 0 .. x
           intervals == {Below(x) : x \in T}
           smaller == StrictSubsetOrdering(Nat)
<1>1. \A x \in Nat : Below(x) \in FiniteSubsetsOf(Nat)
  BY FS_Interval DEF FiniteSubsetsOf
<1>2. IsWellFoundedOn(smaller, FiniteSubsetsOf(Nat))
  BY FS_StrictSubsetOrderingWellFounded
<1>3. intervals \subseteq FiniteSubsetsOf(Nat) /\ intervals # {}
  BY <1>1
<1>4. \E i \in intervals : \A j \in intervals : ~(<<j, i>> \in smaller)
  <2> HIDE DEF intervals, smaller
  <2> QED
    BY <1>2, <1>3, WFMin
<1>5. PICK x \in T : \A j \in intervals : ~(<<j, Below(x)>> \in smaller)
  BY <1>4
<1>6. \A y \in T : x <= y
  <2> SUFFICES ASSUME NEW y \in T, y < x PROVE FALSE
    OBVIOUS
  <2>1. Below(y) \subseteq Below(x) /\ Below(y) # Below(x)
    <3>1. x \in Below(x) /\ x \notin Below(y)
      OBVIOUS
    <3> QED
      BY <3>1
  <2>2. <<Below(y), Below(x)>> \in smaller
    BY <2>1 DEF StrictSubsetOrdering
  <2> QED
    BY <1>5, <2>2
<1> QED
  BY <1>6 DEF Min

\* Some snapshots have a last one.
LEMMA LastOne ==
    ASSUME NEW n \in Nat, NEW T, T \subseteq 0 .. n, T # {}
    PROVE  Max(T) \in T /\ \A y \in T : y <= Max(T)
<1> DEFINE U == {n - y : y \in T}
<1>1. U \subseteq Nat /\ U # {}
  <2>1. \A y \in T : n - y \in Nat
    OBVIOUS
  <2> QED
    BY <2>1
<1>2. Min(U) \in U /\ \A z \in U : Min(U) <= z
  BY <1>1, LeastOne
<1>3. PICK x \in T : Min(U) = n - x
  BY <1>2
<1>4. \A y \in T : n - x <= n - y
  BY <1>2, <1>3
<1>5. \A y \in T : y <= x
  BY <1>4
<1> QED
  BY <1>5 DEF Max



-----------------------------------------------------------------------------
(* The rule.                                                               *)

\* A rule with coherent counters.
RuleFits(row) ==
    /\ row \in Rule
    /\ row.active => row.enabled /\ row.matches = 0
    /\ row.matches < row.condition.required /\ row.recoveries < row.condition.required

\* What is known of the constants.
LEMMA Parameters ==
    /\ Retained \in Nat \ {0} /\ BatchSize \in Nat \ {0} /\ MaxBatches \in Nat \ {0}
    /\ Tolerance \in Nat /\ MaxSnapshots \in Nat /\ MaxTime \in Nat
    /\ MaxFaults \in Nat /\ MaxToggles \in Nat /\ MaxEdits \in Nat
    /\ None \notin Int
    /\ \A reading \in Reading : /\ reading.value \in Int \cup {None}
                               /\ reading.skew \in Nat /\ reading.bad \in BOOLEAN
    /\ \A condition \in Conditions : Valid(condition) /\ condition \in Condition
BY TelemetryAssumption, NoneAssumption DEF Valid

\* A value a rule evaluates, an active one and an inactive one: its columns then.
LEMMA EvaluatedRule ==
    ASSUME NEW row \in Rule, NEW value, NEW at \in Nat, Evaluates(row, value, at)
    PROVE  LET new == Evaluated(row, value, at)
               back == CountedBack(row, value)
               matches == Counted(row, value)
               required == row.condition.required
           IN  /\ new \in Rule
               /\ new.exists = row.exists /\ new.enabled = row.enabled
               /\ new.condition = row.condition /\ new.last = at
               /\ required \in Nat \ {0} /\ back \in Nat /\ matches \in Nat
               /\ row.active /\ back < required =>
                     new.active /\ new.matches = 0 /\ new.recoveries = back
               /\ row.active /\ ~(back < required) =>
                     ~new.active /\ new.matches = 0 /\ new.recoveries = 0
               /\ ~row.active /\ matches >= required =>
                     new.active /\ new.matches = 0 /\ new.recoveries = 0
               /\ ~row.active /\ ~(matches >= required) =>
                     ~new.active /\ new.matches = matches /\ new.recoveries = 0
<1> DEFINE new == Evaluated(row, value, at)
           back == CountedBack(row, value)
           matches == Counted(row, value)
           required == row.condition.required
           Written(active, hits, turns) ==
              /\ new \in Rule
              /\ new.exists = row.exists /\ new.enabled = row.enabled
              /\ new.condition = row.condition /\ new.last = at
              /\ new.active = active /\ new.matches = hits /\ new.recoveries = turns
<1>1. required \in Nat \ {0} /\ back \in Nat /\ matches \in Nat
  BY DEF CountedBack, Counted, Rule, Condition
<1>2. CASE row.active /\ back < required
  <2>1. (back < required) = TRUE
    BY <1>2
  <2>2. new = [row EXCEPT !.active = (back < required), !.matches = 0,
                          !.recoveries = back, !.last = at]
    BY <1>2, <2>1 DEF Evaluated, Relieved
  <2>3. new = [row EXCEPT !.active = TRUE, !.matches = 0, !.recoveries = back, !.last = at]
    BY <2>1, <2>2
  <2>4. Written(TRUE, 0, back)
    <3> HIDE DEF new, back, matches, required
    <3> QED
      BY <1>1, <2>3 DEF Rule, Written
  <2> QED
    BY <1>1, <1>2, <2>4
<1>3. CASE row.active /\ ~(back < required)
  <2>1. (back < required) = FALSE
    BY <1>3
  <2>2. new = [row EXCEPT !.active = (back < required), !.matches = 0,
                          !.recoveries = 0, !.last = at]
    BY <1>3, <2>1 DEF Evaluated, Relieved
  <2>3. new = [row EXCEPT !.active = FALSE, !.matches = 0, !.recoveries = 0, !.last = at]
    BY <2>1, <2>2
  <2>4. Written(FALSE, 0, 0)
    <3> HIDE DEF new, back, matches, required
    <3> QED
      BY <1>1, <2>3 DEF Rule, Written
  <2> QED
    BY <1>1, <1>3, <2>4
<1>4. CASE ~row.active /\ matches >= required
  <2>1. (matches >= required) = TRUE
    BY <1>4
  <2>2. new = [row EXCEPT !.active = (matches >= required), !.matches = 0,
                          !.recoveries = 0, !.last = at]
    BY <1>4, <2>1 DEF Evaluated, Watched
  <2>3. new = [row EXCEPT !.active = TRUE, !.matches = 0, !.recoveries = 0, !.last = at]
    BY <2>1, <2>2
  <2>4. Written(TRUE, 0, 0)
    <3> HIDE DEF new, back, matches, required
    <3> QED
      BY <1>1, <2>3 DEF Rule, Written
  <2> QED
    BY <1>1, <1>4, <2>4
<1>5. CASE ~row.active /\ ~(matches >= required)
  <2>1. (matches >= required) = FALSE
    BY <1>5
  <2>2. new = [row EXCEPT !.active = (matches >= required), !.matches = matches,
                          !.recoveries = 0, !.last = at]
    BY <1>5, <2>1 DEF Evaluated, Watched
  <2>3. new = [row EXCEPT !.active = FALSE, !.matches = matches, !.recoveries = 0, !.last = at]
    BY <2>1, <2>2
  <2>4. Written(FALSE, matches, 0)
    <3> HIDE DEF new, back, matches, required
    <3> QED
      BY <1>1, <2>3 DEF Rule, Written
  <2> QED
    BY <1>1, <1>5, <2>4
<1> QED
  BY <1>2, <1>3, <1>4, <1>5

\* A value leaves the rule coherent.
LEMMA EvaluatedFits ==
    ASSUME NEW row, RuleFits(row), NEW value, NEW at \in Nat
    PROVE  RuleFits(Evaluated(row, value, at))
<1> DEFINE new == Evaluated(row, value, at)
<1>1. CASE ~Evaluates(row, value, at)
  BY <1>1 DEF Evaluated
<1>2. CASE Evaluates(row, value, at)
  <2> HIDE DEF new
  <2>1. row \in Rule /\ row.enabled
    BY <1>2 DEF RuleFits, Evaluates
  <2>2. new.matches < new.condition.required /\ new.recoveries < new.condition.required
    BY <1>2, <2>1, EvaluatedRule DEF new
  <2>3. new.active => new.enabled /\ new.matches = 0
    BY <1>2, <2>1, EvaluatedRule DEF new
  <2>4. new \in Rule
    BY <1>2, <2>1, EvaluatedRule DEF new
  <2> QED
    BY <2>2, <2>3, <2>4 DEF RuleFits, new
<1> QED
  BY <1>1, <1>2

\* An administrator enters a coherent rule.
LEMMA EditedFits ==
    ASSUME NEW condition \in Conditions, NEW enabled \in BOOLEAN
    PROVE  /\ RuleFits(Created(condition, enabled))
           /\ \A row : RuleFits(row) => RuleFits(Edited(row, condition, enabled))
           /\ \A row : RuleFits(row) => RuleFits(Absent(row.condition))
<1>1. condition.required \in Nat \ {0} /\ condition \in Condition
  BY Parameters DEF Condition
<1>2. RuleFits(Created(condition, enabled))
  <2> DEFINE base == Absent(condition)
             new  == Created(condition, enabled)
  <2>1. /\ base \in Rule /\ base.condition = condition /\ ~base.active
        /\ base.matches = 0 /\ base.recoveries = 0
    BY <1>1 DEF Absent, Rule
  <2>2. new = [base EXCEPT !.exists = TRUE, !.enabled = enabled]
    BY DEF Created
  <2> HIDE DEF base, new
  <2>3. new \in Rule
    BY <2>1, <2>2 DEF Rule
  <2>4. new.condition = condition /\ ~new.active /\ new.matches = 0 /\ new.recoveries = 0
    BY <2>1, <2>2 DEF Rule
  <2> QED
    BY <1>1, <2>3, <2>4 DEF RuleFits, new
<1>3. ASSUME NEW row, RuleFits(row)
      PROVE  RuleFits(Edited(row, condition, enabled))
  <2> DEFINE new == Edited(row, condition, enabled)
  <2>1. new = [row EXCEPT !.condition = condition, !.enabled = enabled,
                          !.active = row.active /\ enabled, !.matches = 0, !.recoveries = 0]
    BY <1>3 DEF Edited, RuleFits, Rule
  <2> HIDE DEF new
  <2>2. new \in Rule
    BY <1>1, <1>3, <2>1 DEF RuleFits, Rule
  <2>3. /\ new.condition = condition /\ new.enabled = enabled /\ new.matches = 0
        /\ new.recoveries = 0 /\ new.active = (row.active /\ enabled)
    BY <1>3, <2>1 DEF RuleFits, Rule
  <2> QED
    BY <1>1, <2>2, <2>3 DEF RuleFits, new
<1>4. ASSUME NEW row, RuleFits(row)
      PROVE  RuleFits(Absent(row.condition))
  BY <1>4 DEF RuleFits, Absent, Rule, Condition
<1> QED
  BY <1>2, <1>3, <1>4

-----------------------------------------------------------------------------
(* Types.                                                                  *)

\* What is known of the uploader's state beyond its type: it has rounds left when it
\* loads.
RoundsLeft == uploader.pc \in {"configuring", "loading"} => uploader.round < MaxBatches

\* Requests and the uploader take no other form.
LEMMA Forms ==
    /\ Unused.pc = "unused" /\ Unused \notin Sent
    /\ \A sent \in Sent : sent # Unused /\ sent.pc # "unused" /\ sent.batch \subseteq Position
                          /\ sent.newest \in {0} \cup Position
    /\ Resting \in Uploader /\ Resting.pc = "idle"
    /\ Silent \in [event: {"none", "triggered", "recovered"}, at: Nat]
BY Parameters DEF Unused, Sent, Resting, Uploader, Silent

\* No rounds and nobody in the API, at first.
LEMMA TypeInit == Init => TypeOK /\ RoundsLeft
<1> SUFFICES ASSUME Init PROVE TypeOK /\ RoundsLeft
  OBVIOUS
<1>1. RuleFits(rule)
  <2>1. \A condition \in Conditions : RuleFits(Created(condition, TRUE))
    BY EditedFits
  <2>2. \A condition \in Conditions : RuleFits(Absent(condition))
    BY Parameters DEF RuleFits, Absent, Rule, Condition
  <2> QED
    BY <2>1, <2>2 DEF Init
<1>3. snapshots \in Seq(Snapshot) /\ Len(snapshots) = 0
  BY DEF Init
<1>4. now \in 1 .. (MaxTime + 1) /\ budget \in [faults: 0 .. MaxFaults, toggles: 0 .. MaxToggles, edits: 0 .. MaxEdits]
  BY Parameters DEF Init
<1>5. RoundsLeft
  BY Forms DEF Init, RoundsLeft
<1>6. /\ requests \in [Request -> {Unused} \cup Sent] /\ stored \in [Position -> Nat]
      /\ uploader \in Uploader /\ collector \in Collector /\ values \in Seq(Int)
      /\ told \in [event: {"none", "triggered", "recovered"}, at: Nat]
  BY Forms DEF Init, Collector
<1>7. /\ Len(snapshots) <= MaxSnapshots /\ store \subseteq 1 .. Len(snapshots)
      /\ {pruned, cleared, refused, evaluated, skipped} \subseteq SUBSET (1 .. Len(snapshots))
      /\ off \in BOOLEAN /\ wanted \in BOOLEAN
  <2>1. Len(snapshots) <= MaxSnapshots
    BY <1>3, Parameters
  <2>2. /\ store = {} /\ pruned = {} /\ cleared = {} /\ refused = {} /\ evaluated = {}
        /\ skipped = {} /\ off = FALSE /\ wanted = TRUE
    BY DEF Init
  <2> QED
    BY <2>1, <2>2
<1>8. /\ rule \in Rule
      /\ rule.active => rule.enabled /\ rule.matches = 0
      /\ rule.matches < rule.condition.required /\ rule.recoveries < rule.condition.required
  BY <1>1 DEF RuleFits
<1>9. TypeOK
  BY <1>3, <1>4, <1>6, <1>7, <1>8 DEF TypeOK
<1> QED
  BY <1>5, <1>9

\* A snapshot more.
LEMMA AddedTypes ==
    ASSUME now \in Nat, snapshots \in Seq(Snapshot), NEW reading \in Reading, Added(reading)
    PROVE  /\ snapshots' \in Seq(Snapshot) /\ Len(snapshots') = Len(snapshots) + 1
           /\ Len(snapshots') <= MaxSnapshots /\ Newest = Len(snapshots')
           /\ \A p \in 1 .. Len(snapshots) : snapshots'[p] = snapshots[p]
           /\ snapshots'[Newest].at >= now
<1> DEFINE new == [value |-> reading.value, at |-> now + reading.skew, bad |-> reading.bad]
<1>1. new \in Snapshot /\ new.at >= now /\ now \in Nat
  BY Parameters DEF Snapshot
<1>2. snapshots' = Append(snapshots, new) /\ snapshots \in Seq(Snapshot)
      /\ Len(snapshots) < MaxSnapshots
  BY DEF Added
<1> HIDE DEF new
<1> QED
  BY <1>1, <1>2, Parameters DEF Newest

\* The parts of the types, by who writes them.
BoundTypes == /\ now \in 1 .. (MaxTime + 1) /\ wanted \in BOOLEAN /\ off \in BOOLEAN
              /\ budget \in [faults: 0 .. MaxFaults, toggles: 0 .. MaxToggles, edits: 0 .. MaxEdits]

SnapshotTypes ==
    /\ snapshots \in Seq(Snapshot) /\ Len(snapshots) <= MaxSnapshots
    /\ store \subseteq 1 .. Len(snapshots)
    /\ pruned \subseteq 1 .. Len(snapshots) /\ cleared \subseteq 1 .. Len(snapshots)
    /\ refused \subseteq 1 .. Len(snapshots) /\ evaluated \subseteq 1 .. Len(snapshots)
    /\ skipped \subseteq 1 .. Len(snapshots)

AgentTypes == collector \in Collector /\ uploader \in Uploader /\ RoundsLeft

RequestTypes == requests \in [Request -> {Unused} \cup Sent] /\ stored \in [Position -> Nat]

RuleTypes == /\ RuleFits(rule) /\ values \in Seq(Int)
             /\ told \in [event: {"none", "triggered", "recovered"}, at: Nat]

\* The batches in the API are of snapshots there are, and a request that has stored one
\* names one of them.
BatchesExist ==
    \A r \in Request : requests[r] # Unused =>
        /\ requests[r].batch \subseteq 1 .. Len(snapshots)
        /\ requests[r].pc = "stored" => requests[r].newest \in 1 .. Len(snapshots)

\* They are all of the types.
LEMMA TypeParts ==
    TypeOK /\ RoundsLeft
    <=> BoundTypes /\ SnapshotTypes /\ AgentTypes /\ RequestTypes /\ RuleTypes
<1>1. (rule \in Rule
       /\ (rule.active => rule.enabled /\ rule.matches = 0)
       /\ rule.matches < rule.condition.required /\ rule.recoveries < rule.condition.required)
      <=> RuleFits(rule)
  BY Zenon DEF RuleFits
<1>2. ({pruned, cleared, refused, evaluated, skipped} \subseteq SUBSET (1 .. Len(snapshots)))
      <=> /\ pruned \subseteq 1 .. Len(snapshots) /\ cleared \subseteq 1 .. Len(snapshots)
          /\ refused \subseteq 1 .. Len(snapshots) /\ evaluated \subseteq 1 .. Len(snapshots)
          /\ skipped \subseteq 1 .. Len(snapshots)
  OBVIOUS
<1> QED
  BY <1>1, <1>2, Zenon DEF TypeOK, BoundTypes, SnapshotTypes, AgentTypes, RequestTypes, RuleTypes

\* Who writes the snapshots and the store.
LEMMA SnapshotWriters ==
    ASSUME Next
    PROVE  \/ (\E reading \in Reading : Added(reading))
              /\ (store' = store \cup {Newest} \/ store' = {Newest})
              /\ UNCHANGED <<pruned, cleared, refused, evaluated, skipped, requests>>
           \/ UNCHANGED snapshots
<1> QED
  BY DEF Next, Collection, Collect, Store, CollectFails, Prune, Cycle, Poll, Configure, Clear,
         CollectForTasks, CollectForTasksFails, Load, Acknowledge, Discard, RequestFails,
         Heartbeat, StoreBatch, EvaluateAlerts, Answer, Administration, SetWanted, CreateRule,
         UpdateRule, RemoveRule, Edits, Tick, Faults, Lose, TimeOut, Restart,
         history, server, agent

\* Who writes the clock, the settings and the bounds.
LEMMA BoundWriters ==
    ASSUME Next
    PROVE  /\ now' = now \/ (now < MaxTime /\ now' = now + 1)
           /\ wanted' = wanted \/ wanted' = ~wanted
           /\ off' = off \/ off' = TRUE \/ off' = (off /\ ~uploader.collect)
           /\ \/ budget' = budget
              \/ budget.faults < MaxFaults /\ budget' = [budget EXCEPT !.faults = @ + 1]
              \/ budget.toggles < MaxToggles /\ budget' = [budget EXCEPT !.toggles = @ + 1]
              \/ budget.edits < MaxEdits /\ budget' = [budget EXCEPT !.edits = @ + 1]
BY DEF Next, Collection, Collect, Store, CollectFails, Prune, Cycle, Poll, Configure, Clear,
       CollectForTasks, CollectForTasksFails, Load, Acknowledge, Discard, RequestFails,
       Heartbeat, StoreBatch, EvaluateAlerts, Answer, Administration, SetWanted, CreateRule,
       UpdateRule, RemoveRule, Edits, Tick, Faults, Lose, TimeOut, Restart, Fault,
       history, server, agent

\* Who writes the threads of the agent.
LEMMA AgentWriters ==
    ASSUME Next
    PROVE  \/ UNCHANGED <<collector, uploader>>
           \/ /\ UNCHANGED uploader
              /\ \E pc \in {"waiting", "collecting", "pruning"} :
                    collector' = [collector EXCEPT !.pc = pc]
           \/ \E tasks \in BOOLEAN : Poll(tasks)
           \/ Configure \/ Acknowledge \/ Discard
           \/ \E r \in Request : Load(r) \/ Answer(r)
           \/ uploader' = Resting /\ UNCHANGED collector
           \/ Restart
BY DEF Next, Collection, Collect, Store, CollectFails, Prune, Cycle, Clear,
       CollectForTasks, CollectForTasksFails, RequestFails,
       Heartbeat, StoreBatch, EvaluateAlerts, Administration, SetWanted, CreateRule,
       UpdateRule, RemoveRule, Edits, Tick, Faults, Lose, TimeOut,
       history, server, agent

\* Who writes the requests, and what the API keeps of snapshots.
LEMMA RequestWriters ==
    ASSUME Next
    PROVE  \/ \E r \in Request : \/ Load(r) \/ StoreBatch(r) \/ EvaluateAlerts(r)
                                 \/ Answer(r) \/ Lose(r)
           \/ UNCHANGED <<requests, stored, evaluated, skipped>>
BY DEF Next, Collection, Collect, Store, CollectFails, Prune, Cycle, Poll, Configure, Clear,
       CollectForTasks, CollectForTasksFails, Acknowledge, Discard, RequestFails,
       Heartbeat, Administration, SetWanted, CreateRule,
       UpdateRule, RemoveRule, Edits, Tick, Faults, TimeOut, Restart,
       history, server, agent

\* Who writes the rule.
LEMMA RuleWriters ==
    ASSUME Next
    PROVE  \/ \E r \in Request : EvaluateAlerts(r)
           \/ \E condition \in Conditions, enabled \in BOOLEAN :
                 CreateRule(condition, enabled) \/ UpdateRule(condition, enabled)
           \/ RemoveRule
           \/ UNCHANGED <<rule, values, told>>
BY DEF Next, Collection, Collect, Store, CollectFails, Prune, Cycle, Poll, Configure, Clear,
       CollectForTasks, CollectForTasksFails, Load, Acknowledge, Discard, RequestFails,
       Heartbeat, StoreBatch, Answer, Administration, SetWanted, Tick, Faults, Lose, TimeOut, Restart,
       history, server, agent

\* Who writes the store, and what is known of what left it.
LEMMA StoreWriters ==
    ASSUME Next
    PROVE  \/ UNCHANGED <<store, pruned, cleared, refused>>
           \/ Store \/ Prune \/ Clear \/ CollectForTasks \/ Acknowledge \/ Discard
BY DEF Next, Collection, Collect, CollectFails, Cycle, Poll, Configure,
       CollectForTasksFails, Load, RequestFails,
       Heartbeat, StoreBatch, EvaluateAlerts, Answer, Administration, SetWanted, CreateRule,
       UpdateRule, RemoveRule, Edits, Tick, Faults, Lose, TimeOut, Restart,
       history, server, agent

-----------------------------------------------------------------------------
(* Every step keeps the types.                                             *)

\* The clock, the settings and the bounds.
LEMMA BoundStep == ASSUME BoundTypes, Next PROVE BoundTypes'
<1>1. now' \in 1 .. (MaxTime + 1)
  BY BoundWriters, Parameters DEF BoundTypes
<1>2. wanted' \in BOOLEAN /\ off' \in BOOLEAN
  BY BoundWriters DEF BoundTypes
<1>3. budget' \in [faults: 0 .. MaxFaults, toggles: 0 .. MaxToggles, edits: 0 .. MaxEdits]
  <2> DEFINE Budget == [faults: 0 .. MaxFaults, toggles: 0 .. MaxToggles, edits: 0 .. MaxEdits]
  <2>1. CASE budget' = budget
    BY <2>1 DEF BoundTypes
  <2>2. CASE budget.faults < MaxFaults /\ budget' = [budget EXCEPT !.faults = @ + 1]
    BY <2>2, Parameters DEF BoundTypes
  <2>3. CASE budget.toggles < MaxToggles /\ budget' = [budget EXCEPT !.toggles = @ + 1]
    BY <2>3, Parameters DEF BoundTypes
  <2>4. CASE budget.edits < MaxEdits /\ budget' = [budget EXCEPT !.edits = @ + 1]
    BY <2>4, Parameters DEF BoundTypes
  <2> QED
    BY <2>1, <2>2, <2>3, <2>4, BoundWriters
<1> QED
  BY <1>1, <1>2, <1>3 DEF BoundTypes

\* The snapshots, the store and what became of them.
LEMMA SnapshotStep ==
    ASSUME BoundTypes, SnapshotTypes, AgentTypes, RequestTypes, BatchesExist, Next
    PROVE  SnapshotTypes' /\ BatchesExist' /\ Len(snapshots') >= Len(snapshots)
<1>1. ASSUME NEW reading \in Reading, Added(reading),
             store' = store \cup {Newest} \/ store' = {Newest},
             UNCHANGED <<pruned, cleared, refused, evaluated, skipped, requests>>
      PROVE  SnapshotTypes' /\ BatchesExist' /\ Len(snapshots') >= Len(snapshots)
  <2>1. /\ snapshots' \in Seq(Snapshot) /\ Len(snapshots') = Len(snapshots) + 1
        /\ Len(snapshots') <= MaxSnapshots /\ Newest = Len(snapshots') /\ Len(snapshots) \in Nat
    <3>1. now \in Nat /\ snapshots \in Seq(Snapshot)
      BY DEF BoundTypes, SnapshotTypes
    <3> QED
      BY <1>1, <3>1, AddedTypes
  <2>2. 1 .. Len(snapshots) \subseteq 1 .. Len(snapshots') /\ Newest \in 1 .. Len(snapshots')
    BY <2>1
  <2>3. SnapshotTypes'
    <3>1. store' \subseteq 1 .. Len(snapshots')
      BY <1>1, <2>2 DEF SnapshotTypes
    <3>2. \A T \in {pruned, cleared, refused, evaluated, skipped} :
              T \subseteq 1 .. Len(snapshots')
      BY <2>2 DEF SnapshotTypes
    <3>3. /\ pruned' \subseteq 1 .. Len(snapshots') /\ cleared' \subseteq 1 .. Len(snapshots')
          /\ refused' \subseteq 1 .. Len(snapshots') /\ evaluated' \subseteq 1 .. Len(snapshots')
          /\ skipped' \subseteq 1 .. Len(snapshots')
      BY <1>1, <3>2, Zenon
    <3> QED
      BY <2>1, <3>1, <3>3, Zenon DEF SnapshotTypes
  <2>4. BatchesExist'
    BY <1>1, <2>2 DEF BatchesExist
  <2> QED
    BY <2>1, <2>3, <2>4
<1>2. CASE UNCHANGED snapshots
  <2>1. store' \subseteq 1 .. Len(snapshots) /\ pruned' \subseteq 1 .. Len(snapshots)
        /\ cleared' \subseteq 1 .. Len(snapshots) /\ refused' \subseteq 1 .. Len(snapshots)
    <3>1. CASE UNCHANGED <<store, pruned, cleared, refused>>
      BY <3>1 DEF SnapshotTypes
    <3>2. CASE Prune \/ Clear \/ Acknowledge \/ Discard
      <4>1. Excess(store) \subseteq store
        BY DEF Excess
      <4>2. CASE Prune
        <5>1. store' = store \ Excess(store) /\ pruned' = pruned \cup Excess(store)
              /\ cleared' = cleared /\ refused' = refused
          BY <4>2 DEF Prune
        <5> QED
          BY <4>1, <5>1 DEF SnapshotTypes
      <4>3. CASE Clear
        BY <4>3 DEF SnapshotTypes, Clear
      <4>4. CASE Acknowledge
        BY <4>4 DEF SnapshotTypes, Acknowledge, history
      <4>5. CASE Discard
        <5>1. store' \subseteq store /\ pruned' = pruned /\ cleared' = cleared
              /\ refused' \subseteq refused \cup store
          BY <4>5 DEF Discard
        <5> QED
          BY <5>1 DEF SnapshotTypes
      <4> QED
        BY <3>2, <4>2, <4>3, <4>4, <4>5
    <3>3. ~Store /\ ~CollectForTasks
      <4>1. \A reading \in Reading : ~Added(reading)
        <5> SUFFICES ASSUME NEW reading \in Reading, Added(reading) PROVE FALSE
          OBVIOUS
        <5>1. now \in Nat /\ snapshots \in Seq(Snapshot) /\ Len(snapshots) \in Nat
          BY DEF BoundTypes, SnapshotTypes
        <5>2. Len(snapshots') = Len(snapshots) + 1
          BY <5>1, AddedTypes
        <5> QED
          BY <1>2, <5>1, <5>2
      <4> QED
        BY <4>1 DEF Store, CollectForTasks
    <3> QED
      BY <3>1, <3>2, <3>3, StoreWriters
  <2>2. evaluated' \subseteq 1 .. Len(snapshots) /\ skipped' \subseteq 1 .. Len(snapshots)
        /\ BatchesExist'
    <3>1. CASE UNCHANGED <<requests, stored, evaluated, skipped>>
      BY <1>2, <3>1 DEF SnapshotTypes, BatchesExist
    <3>2. ASSUME NEW r \in Request, Load(r)
          PROVE  UNCHANGED <<evaluated, skipped>> /\ BatchesExist'
      <4>1. Batch \subseteq 1 .. Len(snapshots)
        BY DEF Batch, SnapshotTypes
      <4>2. requests' = [requests EXCEPT ![r] = [pc |-> "sent", batch |-> Batch, newest |-> 0]]
        BY <3>2 DEF Load
      <4>3. \A q \in Request : requests'[q] = IF q = r THEN [pc |-> "sent", batch |-> Batch, newest |-> 0]
                                                    ELSE requests[q]
        BY <4>2 DEF RequestTypes
      <4> QED
        BY <1>2, <3>2, <4>1, <4>3 DEF Load, BatchesExist, history
    <3>3. ASSUME NEW r \in Request, StoreBatch(r)
          PROVE  UNCHANGED <<evaluated, skipped>> /\ BatchesExist'
      <4> DEFINE new == LatestInserted(requests[r].batch)
      <4>0. requests[r] \in Sent /\ requests[r] # Unused
        BY <3>3, Forms DEF StoreBatch, RequestTypes
      <4>1. new # 0 => new \in requests[r].batch
        <5>1. {0} \cup {p \in requests[r].batch : stored[p] = 0} \subseteq 0 .. MaxSnapshots
          BY <4>0, Forms, Parameters DEF Position
        <5> QED
          BY <5>1, LastOne, Parameters DEF LatestInserted
      <4>2. \A q \in Request : q # r => requests'[q] = requests[q]
        BY <3>3 DEF StoreBatch, RequestTypes
      <4>3. /\ requests'[r].batch = requests[r].batch
            /\ requests'[r].pc = "stored" => requests'[r].newest = new /\ new # 0
        BY <3>3, <4>0 DEF StoreBatch, RequestTypes, Sent
      <4>4. BatchesExist'
        BY <1>2, <4>0, <4>1, <4>2, <4>3 DEF BatchesExist
      <4> QED
        BY <3>3, <4>4 DEF StoreBatch, history
    <3>4. ASSUME NEW r \in Request, EvaluateAlerts(r)
          PROVE  evaluated' \subseteq 1 .. Len(snapshots) /\ UNCHANGED skipped /\ BatchesExist'
      <4>0. requests[r] \in Sent /\ requests[r] # Unused /\ requests[r].newest \in 1 .. Len(snapshots)
        BY <3>4, Forms DEF EvaluateAlerts, RequestTypes, BatchesExist
      <4>1. \A q \in Request : q # r => requests'[q] = requests[q]
        BY <3>4 DEF EvaluateAlerts, RequestTypes
      <4>2. requests'[r].batch = requests[r].batch /\ requests'[r].pc = "answered"
        BY <3>4, <4>0 DEF EvaluateAlerts, RequestTypes, Sent
      <4>3. BatchesExist'
        BY <1>2, <4>0, <4>1, <4>2 DEF BatchesExist
      <4> QED
        BY <3>4, <4>0, <4>3 DEF EvaluateAlerts, SnapshotTypes
    <3>5. ASSUME NEW r \in Request, Answer(r) \/ Lose(r)
          PROVE  /\ evaluated' = evaluated /\ skipped' \subseteq 1 .. Len(snapshots)
                 /\ BatchesExist'
      <4>1. requests' = [requests EXCEPT ![r] = Unused]
        BY <3>5 DEF Answer, Lose
      <4>2. \A q \in Request : q # r => requests'[q] = requests[q]
        BY <4>1 DEF RequestTypes
      <4>3. requests'[r] = Unused
        BY <4>1 DEF RequestTypes
      <4>4. BatchesExist'
        BY <1>2, <4>2, <4>3 DEF BatchesExist
      <4>5. requests[r].pc = "stored" => requests[r].newest \in 1 .. Len(snapshots)
        BY Forms DEF BatchesExist
      <4> QED
        BY <3>5, <4>4, <4>5 DEF Answer, Lose, SnapshotTypes, history
    <3> QED
      BY <3>1, <3>2, <3>3, <3>4, <3>5, RequestWriters DEF SnapshotTypes
  <2> QED
    BY <1>2, <2>1, <2>2 DEF SnapshotTypes
<1> QED
  BY <1>1, <1>2, SnapshotWriters

\* A batch is of the store, and the store of the snapshots.
LEMMA InStore ==
    ASSUME SnapshotTypes
    PROVE  /\ Len(snapshots) \in Nat /\ 1 .. Len(snapshots) \subseteq Position
           /\ Batch \subseteq store /\ Batch \subseteq Position
           /\ \A p \in 1 .. Len(snapshots) : snapshots[p] \in Snapshot
<1>1. Len(snapshots) \in Nat /\ Len(snapshots) <= MaxSnapshots
  BY DEF SnapshotTypes
<1>2. 1 .. Len(snapshots) \subseteq Position
  BY <1>1, Parameters DEF Position
<1>3. Batch \subseteq store
  BY DEF Batch
<1>4. \A p \in 1 .. Len(snapshots) : snapshots[p] \in Snapshot
  BY DEF SnapshotTypes
<1> QED
  BY <1>1, <1>2, <1>3, <1>4 DEF SnapshotTypes

\* The threads of the agent: the collector's place and the uploader's.
LEMMA AgentStep ==
    ASSUME BoundTypes, SnapshotTypes, AgentTypes, RequestTypes, Next
    PROVE  AgentTypes'
<1>0. /\ collector \in Collector /\ uploader \in Uploader /\ RoundsLeft
      /\ MaxBatches \in Nat \ {0} /\ uploader.round \in 0 .. MaxBatches
  BY Parameters DEF AgentTypes, Uploader
<1>1. CASE UNCHANGED <<collector, uploader>>
  BY <1>1 DEF AgentTypes, RoundsLeft
<1>2. CASE UNCHANGED uploader /\ \E pc \in {"waiting", "collecting", "pruning"} :
                                     collector' = [collector EXCEPT !.pc = pc]
  BY <1>0, <1>2 DEF AgentTypes, RoundsLeft, Collector
<1>3. ASSUME NEW tasks \in BOOLEAN, Poll(tasks) PROVE AgentTypes'
  <2>1. uploader' = [Resting EXCEPT !.pc = "configuring", !.tasks = tasks, !.collect = wanted]
        /\ collector' = collector
    BY <1>3 DEF Poll
  <2>2. uploader' \in Uploader /\ uploader'.round = 0
    BY <1>3, <2>1, Forms DEF Uploader, BoundTypes, Resting
  <2> QED
    BY <1>0, <2>1, <2>2 DEF AgentTypes, RoundsLeft
<1>4. ASSUME collector' \in Collector, uploader' = Resting PROVE AgentTypes'
  BY <1>4, Forms DEF AgentTypes, RoundsLeft
<1>5. CASE Configure
  <2>1. collector' = [collector EXCEPT !.enabled = uploader.collect]
    BY <1>5 DEF Configure
  <2>2. collector' \in Collector
    BY <1>0, <2>1 DEF Collector, Uploader
  <2>3. ASSUME NEW pc \in {"clearing", "loading"},
               uploader' = [uploader EXCEPT !.pc = pc, !.tasks = FALSE, !.collect = FALSE]
        PROVE  AgentTypes'
    <3>1. uploader' \in Uploader /\ uploader'.round = uploader.round
      BY <1>0, <2>3 DEF Uploader
    <3>2. uploader.round < MaxBatches
      BY <1>0, <1>5 DEF Configure, RoundsLeft
    <3> QED
      BY <2>2, <3>1, <3>2 DEF AgentTypes, RoundsLeft
  <2>4. \/ uploader' = Resting
        \/ uploader' = [uploader EXCEPT !.pc = "clearing", !.tasks = FALSE, !.collect = FALSE]
        \/ uploader' = [uploader EXCEPT !.pc = "loading", !.tasks = FALSE, !.collect = FALSE]
    BY <1>5 DEF Configure, At
  <2> QED
    BY <1>4, <2>2, <2>3, <2>4
<1>6. ASSUME NEW r \in Request, Load(r) PROVE AgentTypes'
  <2>1. uploader' = [uploader EXCEPT !.pc = "sending", !.batch = Batch,
                                     !.round = uploader.round + 1, !.request = r]
        /\ collector' = collector /\ uploader.round < MaxBatches
    BY <1>0, <1>6 DEF Load, RoundsLeft
  <2>2. Batch \subseteq Position
    BY InStore
  <2>3. uploader.round + 1 \in 0 .. MaxBatches
    BY <1>0, <2>1
  <2>4. uploader' \in Uploader /\ uploader'.pc = "sending"
    BY <1>0, <2>1, <2>2, <2>3 DEF Uploader
  <2> QED
    BY <1>0, <2>1, <2>4 DEF AgentTypes, RoundsLeft
<1>7. ASSUME NEW r \in Request, Answer(r) PROVE AgentTypes'
  <2>1. /\ collector' = collector
        /\ \/ uploader' = uploader
           \/ \E pc \in {"refused", "acknowledging"} :
                 uploader' = [uploader EXCEPT !.pc = pc, !.tasks = FALSE, !.collect = FALSE]
    BY <1>7 DEF Answer, At
  <2>2. uploader' = uploader \/ (uploader' \in Uploader /\ uploader'.pc \in {"refused", "acknowledging"})
    BY <1>0, <2>1 DEF Uploader
  <2> QED
    BY <1>0, <2>1, <2>2 DEF AgentTypes, RoundsLeft
<1>8. CASE Acknowledge \/ Discard
  <2> DEFINE rest == uploader.batch \ Dropped
  <2>1. /\ collector' = collector
        /\ \/ uploader' = [uploader EXCEPT !.batch = rest]
           \/ uploader' = Resting
           \/ uploader.round # MaxBatches
              /\ uploader' = [uploader EXCEPT !.pc = "loading", !.batch = {}, !.request = None]
    BY <1>8 DEF Acknowledge, Discard
  <2>2. uploader.pc \in {"acknowledging", "refused"}
    BY <1>8 DEF Acknowledge, Discard
  <2>3. CASE uploader' = [uploader EXCEPT !.batch = rest]
    <3>1. rest \subseteq Position
      BY <1>0 DEF Uploader
    <3>2. uploader' \in Uploader /\ uploader'.pc = uploader.pc
      BY <1>0, <2>3, <3>1 DEF Uploader
    <3> QED
      BY <1>0, <2>1, <2>2, <3>2 DEF AgentTypes, RoundsLeft
  <2>4. CASE /\ uploader.round # MaxBatches
             /\ uploader' = [uploader EXCEPT !.pc = "loading", !.batch = {}, !.request = None]
    <3>1. uploader' \in Uploader /\ uploader'.round = uploader.round
      BY <1>0, <2>4 DEF Uploader
    <3>2. uploader.round < MaxBatches
      BY <1>0, <2>4
    <3> QED
      BY <1>0, <2>1, <3>1, <3>2 DEF AgentTypes, RoundsLeft
  <2> QED
    BY <1>0, <1>4, <2>1, <2>3, <2>4
<1>9. CASE Restart
  <2>1. collector' \in Collector /\ uploader' = Resting
    BY <1>9 DEF Restart, Collector
  <2> QED
    BY <1>4, <2>1
<1> QED
  BY <1>0, <1>1, <1>2, <1>3, <1>4, <1>5, <1>6, <1>7, <1>8, <1>9, AgentWriters

\* The requests, and the rows of the snapshots.
LEMMA RequestStep ==
    ASSUME BoundTypes, SnapshotTypes, AgentTypes, RequestTypes, BatchesExist, Next
    PROVE  RequestTypes'
<1>0. requests \in [Request -> {Unused} \cup Sent] /\ stored \in [Position -> Nat]
  BY DEF RequestTypes
<1>1. CASE UNCHANGED <<requests, stored, evaluated, skipped>>
  BY <1>0, <1>1 DEF RequestTypes
<1>2. ASSUME NEW r \in Request, Load(r) PROVE RequestTypes'
  <2> DEFINE new == [pc |-> "sent", batch |-> Batch, newest |-> 0]
  <2>1. requests' = [requests EXCEPT ![r] = new] /\ stored' = stored
    BY <1>2 DEF Load
  <2>2. new \in Sent
    BY InStore DEF Sent
  <2> HIDE DEF new
  <2> QED
    BY <1>0, <2>1, <2>2 DEF RequestTypes
<1>3. ASSUME NEW r \in Request, StoreBatch(r) PROVE RequestTypes'
  <2> DEFINE newest == LatestInserted(requests[r].batch)
  <2>0. requests[r] \in Sent
    BY <1>0, <1>3, Forms DEF StoreBatch
  <2>1. newest \in {0} \cup Position
    <3>1. {0} \cup {p \in requests[r].batch : stored[p] = 0} \subseteq 0 .. MaxSnapshots
      BY <2>0, Forms, Parameters DEF Position
    <3> QED
      BY <3>1, LastOne, Parameters DEF LatestInserted, Position
  <2>2. stored' \in [Position -> Nat]
    <3>1. \A p \in requests[r].batch : ObservedAt(p) \in Nat
      <4> SUFFICES ASSUME NEW p \in requests[r].batch PROVE ObservedAt(p) \in Nat
        OBVIOUS
      <4>1. p \in 1 .. Len(snapshots)
        BY <2>0, Forms DEF BatchesExist
      <4>2. snapshots[p].at \in Nat /\ now \in Nat
        BY <4>1, InStore DEF Snapshot, BoundTypes
      <4> QED
        BY <4>2 DEF ObservedAt
    <3> QED
      BY <1>0, <1>3, <3>1 DEF StoreBatch
  <2>3. \E pc \in {"refused", "answered", "stored"}, n \in {0} \cup Position :
           requests' = [requests EXCEPT ![r] = [requests[r] EXCEPT !.pc = pc, !.newest = n]]
    <3>1. CASE Refuses(requests[r].batch)
      <4>1. requests' = [requests EXCEPT ![r].pc = "refused"]
        BY <1>3, <3>1 DEF StoreBatch
      <4>2. requests' = [requests EXCEPT ![r] = [requests[r] EXCEPT !.pc = "refused",
                                                                   !.newest = requests[r].newest]]
        BY <1>0, <2>0, <4>1 DEF Sent
      <4> QED
        BY <2>0, <4>2 DEF Sent
    <3>2. CASE ~Refuses(requests[r].batch)
      <4> DEFINE pc == IF newest = 0 THEN "answered" ELSE "stored"
      <4>1. requests' = [requests EXCEPT ![r].pc = pc, ![r].newest = newest]
        BY <1>3, <3>2 DEF StoreBatch
      <4> HIDE DEF newest
      <4>2. requests' = [requests EXCEPT ![r] = [requests[r] EXCEPT !.pc = pc, !.newest = newest]]
        BY <1>0, <2>0, <4>1 DEF Sent
      <4> QED
        BY <2>1, <4>2
    <3> QED
      BY <3>1, <3>2
  <2>4. PICK pc \in {"refused", "answered", "stored"}, n \in {0} \cup Position :
           requests' = [requests EXCEPT ![r] = [requests[r] EXCEPT !.pc = pc, !.newest = n]]
    BY <2>3
  <2>5. [requests[r] EXCEPT !.pc = pc, !.newest = n] \in Sent
    BY <2>0 DEF Sent
  <2> QED
    BY <1>0, <2>2, <2>4, <2>5 DEF RequestTypes
<1>4. ASSUME NEW r \in Request, EvaluateAlerts(r) PROVE RequestTypes'
  <2>1. requests' = [requests EXCEPT ![r].pc = "answered"] /\ stored' = stored
        /\ requests[r] \in Sent
    BY <1>0, <1>4, Forms DEF EvaluateAlerts
  <2>2. [requests[r] EXCEPT !.pc = "answered"] \in Sent
    BY <2>1 DEF Sent
  <2> QED
    BY <1>0, <2>1, <2>2 DEF RequestTypes
<1>5. ASSUME NEW r \in Request, Answer(r) \/ Lose(r) PROVE RequestTypes'
  BY <1>0, <1>5 DEF RequestTypes, Answer, Lose
<1> QED
  BY <1>1, <1>2, <1>3, <1>4, <1>5, RequestWriters

\* The rule, the values it has seen and its latest notification.
LEMMA RuleStep ==
    ASSUME SnapshotTypes, RequestTypes, RuleTypes, BatchesExist, Next
    PROVE  RuleTypes'
<1>0. /\ RuleFits(rule) /\ values \in Seq(Int)
      /\ told \in [event: {"none", "triggered", "recovered"}, at: Nat]
  BY DEF RuleTypes
<1>1. CASE UNCHANGED <<rule, values, told>>
  BY <1>0, <1>1 DEF RuleTypes, RuleFits
<1>2. ASSUME NEW new, RuleFits(new), rule' = new, values' = <<>>,
             told' \in {told, Silent, [told EXCEPT !.event = "none"]}
      PROVE  RuleTypes'
  <2>1. told' \in [event: {"none", "triggered", "recovered"}, at: Nat]
    BY <1>0, <1>2, Forms
  <2> QED
    BY <1>2, <2>1 DEF RuleTypes, RuleFits
<1>3. ASSUME NEW condition \in Conditions, NEW enabled \in BOOLEAN,
             CreateRule(condition, enabled) \/ UpdateRule(condition, enabled)
      PROVE  RuleTypes'
  <2>1. \E new : RuleFits(new) /\ Edits(new)
    BY <1>0, <1>3, EditedFits DEF CreateRule, UpdateRule
  <2>2. PICK new : RuleFits(new) /\ Edits(new)
    BY <2>1
  <2>3. /\ rule' = new /\ values' = <<>>
        /\ told' \in {told, Silent, [told EXCEPT !.event = "none"]}
    BY <2>2 DEF Edits
  <2> QED
    BY <1>2, <2>2, <2>3
<1>4. CASE RemoveRule
  <2> DEFINE new == Absent(rule.condition)
  <2>1. RuleFits(new) /\ Edits(new)
    BY <1>0, <1>4, EditedFits, Parameters, TelemetryAssumption DEF RemoveRule
  <2> HIDE DEF new
  <2>3. /\ rule' = new /\ values' = <<>>
        /\ told' \in {told, Silent, [told EXCEPT !.event = "none"]}
    BY <2>1 DEF Edits
  <2> QED
    BY <1>2, <2>1, <2>3
<1>5. ASSUME NEW r \in Request, EvaluateAlerts(r) PROVE RuleTypes'
  <2> DEFINE p == requests[r].newest
             value == snapshots[p].value
             at == stored[p]
  <2>1. p \in 1 .. Len(snapshots) /\ p \in Position
    BY <1>5, Forms, InStore DEF EvaluateAlerts, BatchesExist
  <2>2. value \in Int \cup {None} /\ at \in Nat
    BY <2>1, InStore DEF Snapshot, RequestTypes
  <2>3. /\ rule' = Evaluated(rule, value, at) /\ told' = Notified(rule, rule')
        /\ values' = IF Evaluates(rule, value, at) THEN Append(values, value) ELSE values
    BY <1>5 DEF EvaluateAlerts
  <2> HIDE DEF p, value, at
  <2>4. RuleFits(rule')
    BY <1>0, <2>2, <2>3, EvaluatedFits
  <2>5. values' \in Seq(Int)
    <3>1. Evaluates(rule, value, at) => value \in Int
      BY <2>2 DEF Evaluates
    <3> QED
      BY <1>0, <2>3, <3>1
  <2>6. told' \in [event: {"none", "triggered", "recovered"}, at: Nat]
    <3>1. rule'.last \in Nat
      BY <2>4 DEF RuleFits, Rule
    <3> QED
      BY <1>0, <2>3, <3>1 DEF Notified
  <2> QED
    BY <2>4, <2>5, <2>6 DEF RuleTypes, RuleFits
<1> QED
  BY <1>1, <1>3, <1>4, <1>5, RuleWriters

\* What every reachable state has.
Typed == TypeOK /\ RoundsLeft /\ BatchesExist

\* Every step keeps it.
LEMMA TypeStep == ASSUME Typed, [Next]_vars PROVE Typed' /\ Len(snapshots') >= Len(snapshots)
<1>1. CASE Next
  <2>1. BoundTypes /\ SnapshotTypes /\ AgentTypes /\ RequestTypes /\ RuleTypes /\ BatchesExist
    BY TypeParts DEF Typed
  <2>2. BoundTypes' /\ SnapshotTypes' /\ AgentTypes' /\ RequestTypes' /\ RuleTypes'
        /\ BatchesExist' /\ Len(snapshots') >= Len(snapshots)
    BY <1>1, <2>1, BoundStep, SnapshotStep, AgentStep, RequestStep, RuleStep
  <2>3. (TypeOK /\ RoundsLeft)'
    <3>1. (BoundTypes /\ SnapshotTypes /\ AgentTypes /\ RequestTypes /\ RuleTypes)'
          => (TypeOK /\ RoundsLeft)'
      BY TypeParts, PTL
    <3> QED
      BY <2>2, <3>1
  <2> QED
    BY <2>2, <2>3 DEF Typed
<1>2. CASE UNCHANGED vars
  <2>1. Typed'
    BY <1>2, Zenon DEF Typed, TypeOK, RoundsLeft, BatchesExist, vars, agent, server, history
  <2> QED
    BY <1>2, <2>1, InStore, TypeParts DEF vars, Typed
<1> QED
  BY <1>1, <1>2

\* Every state is of its types: the counters of the rule never pass what it requires, and
\* the uploader never loads more batches in a cycle than it may (cycle, evaluate).
THEOREM TypeCorrect == Spec => []TypeOK
<1>1. Init => Typed
  BY TypeInit, Forms DEF Typed, Init, BatchesExist
<1>2. Typed /\ [Next]_vars => Typed'
  BY TypeStep
<1> QED
  BY <1>1, <1>2, PTL DEF Spec, Typed

-----------------------------------------------------------------------------
(* No snapshot is lost.                                                    *)

\* A store that is pruned keeps its last snapshot, and a batch has the first one.
LEMMA LastKept ==
    ASSUME SnapshotTypes, store # {}
    PROVE  store \ Excess(store) # {} /\ Batch # {}
<1>1. store \subseteq 0 .. Len(snapshots) /\ store \subseteq Nat /\ Len(snapshots) \in Nat
  BY DEF SnapshotTypes
<1>2. PICK last \in store : \A y \in store : y <= last
  BY <1>1, LastOne
<1>3. {q \in store : q >= last} = {last}
  <2>1. \A q \in store : q >= last => q = last
    BY <1>1, <1>2
  <2>2. last >= last
    BY <1>1
  <2> QED
    BY <2>1, <2>2, Zenon
<1>4. PICK first \in store : \A y \in store : first <= y
  BY <1>1, LeastOne
<1>5. {q \in store : q <= first} = {first}
  <2>1. \A q \in store : q <= first => q = first
    BY <1>1, <1>4
  <2>2. first <= first
    BY <1>1
  <2> QED
    BY <2>1, <2>2, Zenon
<1>6. Cardinality({last}) = 1 /\ Cardinality({first}) = 1
  BY FS_Singleton
<1>7. last \notin Excess(store)
  BY <1>3, <1>6, Parameters DEF Excess
<1>8. first \in Batch
  BY <1>4, <1>5, <1>6, Parameters DEF Batch
<1> QED
  BY <1>7, <1>8

\* No snapshot was observed at time 0, which the rows of the API take for none.
Observed == \A p \in 1 .. Len(snapshots) : snapshots[p].at >= 1

\* What a request has stored is there.
StoredThere ==
    \A r \in Request : requests[r].pc \in {"stored", "answered"} =>
        \A p \in requests[r].batch : stored[p] # 0

\* The batch of a cycle that goes on is the one its request carries, and there is one to
\* load.
BatchCarried ==
    /\ uploader.pc = "configuring" => uploader.round = 0
    /\ uploader.pc = "loading" /\ uploader.round > 0 => store # {}
    /\ uploader.pc \in {"sending", "acknowledging", "refused"} => uploader.batch # {}
    /\ uploader.pc = "sending" =>
           /\ uploader.request \in Request
           /\ requests[uploader.request] # Unused
                  => requests[uploader.request].batch = uploader.batch

\* What is removed from the store was stored by the API.
AcknowledgedThere ==
    uploader.pc = "acknowledging" => \A p \in uploader.batch : stored[p] # 0

\* What makes NothingLost inductive.
CycleInv == Observed /\ StoredThere /\ BatchCarried /\ AcknowledgedThere /\ NothingLost

\* A snapshot the API has stored keeps its row.
LEMMA RowsStay ==
    ASSUME Typed, Observed, Next
    PROVE  /\ \A p \in Position : stored[p] # 0 => stored'[p] = stored[p]
           /\ \A r \in Request : StoreBatch(r) /\ requests'[r].pc # "refused" =>
                  \A p \in requests[r].batch : stored'[p] # 0
<1>0. stored \in [Position -> Nat] /\ BoundTypes /\ SnapshotTypes /\ RequestTypes
  BY TypeParts DEF Typed, RequestTypes
<1>1. CASE UNCHANGED stored /\ \A r \in Request : ~StoreBatch(r)
  BY <1>1
<1>2. ASSUME NEW r \in Request, StoreBatch(r)
      PROVE  /\ \A p \in Position : stored[p] # 0 => stored'[p] = stored[p]
             /\ requests'[r].pc # "refused" => \A p \in requests[r].batch : stored'[p] # 0
  <2>0. requests[r] \in Sent /\ requests[r] # Unused
    BY <1>0, <1>2, Forms DEF StoreBatch, RequestTypes
  <2>1. CASE Refuses(requests[r].batch)
    <3>1. stored' = stored /\ requests' = [requests EXCEPT ![r].pc = "refused"]
      BY <1>2, <2>1 DEF StoreBatch
    <3>2. requests'[r].pc = "refused"
      BY <1>0, <2>0, <3>1 DEF RequestTypes, Sent
    <3> QED
      BY <3>1, <3>2
  <2>2. CASE ~Refuses(requests[r].batch)
    <3>1. stored' = [p \in Position |->
                       IF p \in requests[r].batch /\ stored[p] = 0 THEN ObservedAt(p) ELSE stored[p]]
      BY <1>2, <2>2 DEF StoreBatch
    <3>2. \A p \in requests[r].batch : p \in Position /\ ObservedAt(p) # 0
      <4> SUFFICES ASSUME NEW p \in requests[r].batch PROVE p \in Position /\ ObservedAt(p) # 0
        OBVIOUS
      <4>1. p \in 1 .. Len(snapshots)
        BY <2>0 DEF Typed, BatchesExist
      <4>2. snapshots[p].at \in Nat /\ snapshots[p].at >= 1 /\ now \in Nat /\ now >= 1
            /\ p \in Position
        BY <1>0, <4>1, InStore DEF Snapshot, BoundTypes, Observed
      <4> QED
        BY <4>2 DEF ObservedAt
    <3> QED
      BY <1>0, <3>1, <3>2
  <2> QED
    BY <2>1, <2>2
<1>3. (\E r \in Request : StoreBatch(r)) \/ UNCHANGED stored
  BY DEF Next, Collection, Collect, Store, CollectFails, Prune, Cycle, Poll, Configure, Clear,
         CollectForTasks, CollectForTasksFails, Load, Acknowledge, Discard, RequestFails,
         Heartbeat, EvaluateAlerts, Answer, Administration, SetWanted, CreateRule,
         UpdateRule, RemoveRule, Edits, Tick, Faults, Lose, TimeOut, Restart,
         history, server, agent
<1> QED
  BY <1>1, <1>2, <1>3

\* Observation times are later than 0.
LEMMA ObservedStep == ASSUME Typed, Observed, Next PROVE Observed'
<1>0. BoundTypes /\ SnapshotTypes
  BY TypeParts DEF Typed
<1>1. ASSUME NEW reading \in Reading, Added(reading) PROVE Observed'
  <2>1. now \in Nat /\ now >= 1 /\ snapshots \in Seq(Snapshot) /\ Len(snapshots) \in Nat
    BY <1>0 DEF BoundTypes, SnapshotTypes
  <2>2. /\ snapshots' \in Seq(Snapshot) /\ Len(snapshots') = Len(snapshots) + 1
        /\ Newest = Len(snapshots')
        /\ \A p \in 1 .. Len(snapshots) : snapshots'[p] = snapshots[p]
        /\ snapshots'[Newest].at >= now
    BY <1>1, <2>1, AddedTypes
  <2>3. snapshots'[Newest] \in Snapshot
    BY <2>1, <2>2
  <2>4. snapshots'[Newest].at >= 1
    BY <2>1, <2>2, <2>3 DEF Snapshot
  <2> QED
    BY <2>1, <2>2, <2>4 DEF Observed
<1>2. CASE UNCHANGED snapshots
  BY <1>2 DEF Observed
<1> QED
  BY <1>1, <1>2, SnapshotWriters

\* The requests go on having what they say they have stored.
LEMMA StoredStep ==
    ASSUME Typed, Observed, StoredThere, Next
    PROVE  StoredThere'
<1>0. RequestTypes /\ \A r \in Request : requests[r] # Unused => requests[r].batch \subseteq Position
  BY TypeParts, Forms DEF Typed, RequestTypes
<1>1. \A r \in Request : requests'[r] = requests[r] /\ requests[r].pc \in {"stored", "answered"}
                         => \A p \in requests'[r].batch : stored'[p] # 0
  BY <1>0, RowsStay, Forms DEF StoredThere
<1>2. CASE UNCHANGED <<requests, stored, evaluated, skipped>>
  BY <1>2 DEF StoredThere
<1>3. ASSUME NEW r \in Request, Load(r) \/ StoreBatch(r) \/ EvaluateAlerts(r) \/ Answer(r) \/ Lose(r)
      PROVE  StoredThere'
  <2>1. \A q \in Request : q # r => requests'[q] = requests[q]
    BY <1>0, <1>3 DEF Load, StoreBatch, EvaluateAlerts, Answer, Lose, RequestTypes
  <2>2. requests'[r].pc \in {"stored", "answered"} => \A p \in requests'[r].batch : stored'[p] # 0
    <3>1. CASE Load(r)
      <4>1. requests'[r].pc = "sent"
        BY <1>0, <3>1 DEF Load, RequestTypes
      <4> QED
        BY <4>1
    <3>2. CASE StoreBatch(r)
      <4>0. requests[r] \in Sent
        BY <1>0, <3>2, Forms DEF StoreBatch, RequestTypes
      <4>1. requests'[r].batch = requests[r].batch
        BY <1>0, <3>2, <4>0 DEF StoreBatch, RequestTypes, Sent
      <4> QED
        BY <3>2, <4>1, RowsStay
    <3>3. CASE EvaluateAlerts(r)
      <4>0. requests[r] \in Sent /\ requests[r].pc = "stored"
        BY <1>0, <3>3, Forms DEF EvaluateAlerts, RequestTypes
      <4>1. requests'[r].batch = requests[r].batch /\ stored' = stored
        BY <1>0, <3>3, <4>0 DEF EvaluateAlerts, RequestTypes, Sent
      <4> QED
        BY <4>0, <4>1 DEF StoredThere
    <3>4. CASE Answer(r) \/ Lose(r)
      <4>1. requests'[r] = Unused
        BY <1>0, <3>4 DEF Answer, Lose, RequestTypes
      <4> QED
        BY <4>1, Forms
    <3> QED
      BY <1>3, <3>1, <3>2, <3>3, <3>4
  <2> QED
    BY <1>1, <2>1, <2>2 DEF StoredThere
<1> QED
  BY <1>2, <1>3, RequestWriters

\* Who empties the store.
LEMMA StoreEmptied ==
    ASSUME Typed, store # {}, Next
    PROVE  store' # {} \/ Clear \/ Acknowledge \/ Discard
<1>0. SnapshotTypes
  BY TypeParts DEF Typed
<1>1. CASE Store \/ CollectForTasks
  BY <1>1 DEF Store, CollectForTasks
<1>2. CASE Prune
  BY <1>0, <1>2, LastKept DEF Prune
<1> QED
  BY <1>1, <1>2, StoreWriters
\* The batch of a cycle.
LEMMA BatchStep ==
    ASSUME Typed, BatchCarried, Next
    PROVE  BatchCarried'
<1>0. /\ uploader \in Uploader /\ RequestTypes /\ SnapshotTypes
  BY TypeParts DEF Typed, AgentTypes
<1>1. CASE uploader' = Resting
  BY <1>1, Forms DEF BatchCarried
<1>2. ASSUME UNCHANGED uploader, \A r \in Request : ~Load(r), ~Clear, ~Acknowledge, ~Discard
      PROVE  BatchCarried'
  <2>1. uploader.pc = "loading" /\ uploader.round > 0 => store' # {}
    BY <1>2, StoreEmptied DEF BatchCarried
  <2>2. ASSUME NEW r \in Request, requests'[r] # Unused
        PROVE  requests[r] # Unused /\ requests'[r].batch = requests[r].batch
    <3>1. CASE requests'[r] = requests[r]
      BY <2>2, <3>1
    <3>2. ASSUME NEW q \in Request, StoreBatch(q) \/ EvaluateAlerts(q)
          PROVE  requests[r] # Unused /\ requests'[r].batch = requests[r].batch
      <4>1. requests[q] \in Sent /\ requests[q] # Unused
        BY <1>0, <3>2, Forms DEF StoreBatch, EvaluateAlerts, RequestTypes
      <4>2. requests'[q].batch = requests[q].batch
        BY <1>0, <3>2, <4>1 DEF StoreBatch, EvaluateAlerts, RequestTypes, Sent
      <4>3. q # r => requests'[r] = requests[r]
        BY <1>0, <3>2 DEF StoreBatch, EvaluateAlerts, RequestTypes
      <4> QED
        BY <2>2, <4>1, <4>2, <4>3
    <3>3. ASSUME NEW q \in Request, Answer(q) \/ Lose(q)
          PROVE  requests'[r] = requests[r]
      <4>1. requests' = [requests EXCEPT ![q] = Unused]
        BY <3>3 DEF Answer, Lose
      <4> QED
        BY <1>0, <2>2, <4>1 DEF RequestTypes
    <3> QED
      BY <1>2, <3>1, <3>2, <3>3, RequestWriters
  <2> QED
    BY <1>2, <2>1, <2>2 DEF BatchCarried
<1>3. ASSUME NEW r \in Request, Load(r) PROVE BatchCarried'
  <2>1. /\ uploader' = [uploader EXCEPT !.pc = "sending", !.batch = Batch,
                                        !.round = uploader.round + 1, !.request = r]
        /\ requests' = [requests EXCEPT ![r] = [pc |-> "sent", batch |-> Batch, newest |-> 0]]
        /\ store # {}
    BY <1>3 DEF Load, BatchCarried
  <2>2. uploader'.pc = "sending" /\ uploader'.batch = Batch /\ uploader'.request = r
    BY <1>0, <2>1 DEF Uploader
  <2>3. requests'[r].batch = Batch
    BY <1>0, <2>1 DEF RequestTypes
  <2>4. Batch # {}
    BY <1>0, <2>1, LastKept
  <2> QED
    BY <2>2, <2>3, <2>4 DEF BatchCarried
<1>4. ASSUME NEW r \in Request, Answer(r), uploader' # uploader PROVE BatchCarried'
  <2>1. /\ uploader.pc = "sending"
        /\ \E pc \in {"refused", "acknowledging"} :
              uploader' = [uploader EXCEPT !.pc = pc, !.tasks = FALSE, !.collect = FALSE]
    BY <1>4 DEF Answer, Awaited, At
  <2>2. uploader'.pc \in {"refused", "acknowledging"} /\ uploader'.batch = uploader.batch
    BY <1>0, <2>1 DEF Uploader
  <2> QED
    BY <2>1, <2>2 DEF BatchCarried
<1>5. CASE Acknowledge \/ Discard
  <2> DEFINE rest == uploader.batch \ Dropped
  <2>1. /\ \/ rest # {} /\ uploader' = [uploader EXCEPT !.batch = rest]
           \/ uploader' = Resting
           \/ store' # {}
              /\ uploader' = [uploader EXCEPT !.pc = "loading", !.batch = {}, !.request = None]
        /\ uploader.pc \in {"acknowledging", "refused"}
    BY <1>5 DEF Acknowledge, Discard
  <2>2. CASE rest # {} /\ uploader' = [uploader EXCEPT !.batch = rest]
    <3>1. uploader'.pc = uploader.pc /\ uploader'.batch = rest
      BY <1>0, <2>2 DEF Uploader
    <3> QED
      BY <2>1, <2>2, <3>1 DEF BatchCarried
  <2>3. CASE /\ store' # {}
             /\ uploader' = [uploader EXCEPT !.pc = "loading", !.batch = {}, !.request = None]
    <3>1. uploader'.pc = "loading"
      BY <1>0, <2>3 DEF Uploader
    <3> QED
      BY <2>3, <3>1 DEF BatchCarried
  <2> QED
    BY <1>1, <2>1, <2>2, <2>3
<1>6. ASSUME NEW tasks \in BOOLEAN, Poll(tasks) PROVE BatchCarried'
  <2>1. uploader'.pc = "configuring" /\ uploader'.round = 0
    BY <1>6, Forms DEF Poll, Resting
  <2> QED
    BY <2>1 DEF BatchCarried
<1>7. CASE Configure
  <2>1. \/ uploader' = Resting
        \/ uploader' = [uploader EXCEPT !.pc = "clearing", !.tasks = FALSE, !.collect = FALSE]
        \/ uploader' = [uploader EXCEPT !.pc = "loading", !.tasks = FALSE, !.collect = FALSE]
    BY <1>7 DEF Configure, At
  <2>2. uploader.round = 0
    BY <1>7 DEF Configure, BatchCarried
  <2>3. \/ uploader' = Resting
        \/ uploader'.pc \in {"clearing", "loading"} /\ uploader'.round = 0
    BY <1>0, <2>1, <2>2 DEF Uploader
  <2> QED
    BY <1>1, <2>3 DEF BatchCarried
<1>8. uploader' = Resting \/ UNCHANGED uploader \/ Configure \/ Acknowledge \/ Discard
      \/ (\E tasks \in BOOLEAN : Poll(tasks)) \/ (\E r \in Request : Load(r) \/ Answer(r))
  BY AgentWriters DEF Restart
<1>9. Clear => uploader' = Resting
  BY DEF Clear
<1> QED
  BY <1>1, <1>2, <1>3, <1>4, <1>5, <1>6, <1>7, <1>8, <1>9

\* What is acknowledged has been stored.
LEMMA AcknowledgedStep ==
    ASSUME Typed, Observed, StoredThere, BatchCarried, AcknowledgedThere, Next
    PROVE  AcknowledgedThere'
<1>0. uploader \in Uploader /\ uploader.batch \subseteq Position
  BY TypeParts DEF Typed, AgentTypes, Uploader
<1>1. ASSUME uploader'.pc = uploader.pc, uploader'.batch \subseteq uploader.batch
      PROVE  AcknowledgedThere'
  BY <1>0, <1>1, RowsStay DEF AcknowledgedThere
<1>2. ASSUME NEW r \in Request, Answer(r), uploader' # uploader PROVE AcknowledgedThere'
  <2>1. CASE requests[r].pc = "refused"
    <3>1. uploader' = [uploader EXCEPT !.pc = "refused", !.tasks = FALSE, !.collect = FALSE]
      BY <1>2, <2>1 DEF Answer, At
    <3>2. uploader'.pc = "refused"
      BY <1>0, <3>1 DEF Uploader
    <3> QED
      BY <3>2 DEF AcknowledgedThere
  <2>2. CASE requests[r].pc # "refused"
    <3>1. /\ uploader' = [uploader EXCEPT !.pc = "acknowledging", !.tasks = FALSE, !.collect = FALSE]
          /\ requests[r].pc = "answered" /\ uploader.pc = "sending" /\ uploader.request = r
          /\ stored' = stored
      BY <1>2, <2>2 DEF Answer, At, Awaited
    <3>2. requests[r].batch = uploader.batch
      BY <3>1, Forms DEF BatchCarried
    <3>3. uploader'.batch = uploader.batch
      BY <1>0, <3>1 DEF Uploader
    <3> QED
      BY <3>1, <3>2, <3>3 DEF AcknowledgedThere, StoredThere
  <2> QED
    BY <2>1, <2>2
<1>3. CASE Acknowledge \/ Discard
  <2> DEFINE rest == uploader.batch \ Dropped
  <2>1. \/ uploader' = [uploader EXCEPT !.batch = rest]
        \/ uploader' = Resting
        \/ uploader' = [uploader EXCEPT !.pc = "loading", !.batch = {}, !.request = None]
    BY <1>3 DEF Acknowledge, Discard
  <2>2. CASE uploader' = [uploader EXCEPT !.batch = rest]
    <3>1. uploader'.pc = uploader.pc /\ uploader'.batch \subseteq uploader.batch
      BY <1>0, <2>2 DEF Uploader
    <3> QED
      BY <1>1, <3>1
  <2>3. CASE uploader' # [uploader EXCEPT !.batch = rest]
    <3>1. uploader'.pc \in {"idle", "loading"}
      BY <1>0, <2>1, <2>3, Forms DEF Uploader
    <3> QED
      BY <3>1 DEF AcknowledgedThere
  <2> QED
    BY <2>2, <2>3
<1>4. CASE uploader'.pc # "acknowledging"
  BY <1>4 DEF AcknowledgedThere
<1>5. ASSUME \/ uploader' = Resting
             \/ Configure
             \/ \E tasks \in BOOLEAN : Poll(tasks)
             \/ \E r \in Request : Load(r)
      PROVE  uploader'.pc # "acknowledging"
  <2>1. \/ uploader' = Resting
        \/ \E pc \in {"clearing", "loading"} :
              uploader' = [uploader EXCEPT !.pc = pc, !.tasks = FALSE, !.collect = FALSE]
        \/ \E tasks \in BOOLEAN :
              uploader' = [Resting EXCEPT !.pc = "configuring", !.tasks = tasks, !.collect = wanted]
        \/ \E r \in Request :
              uploader' = [uploader EXCEPT !.pc = "sending", !.batch = Batch,
                                           !.round = uploader.round + 1, !.request = r]
    BY <1>5, Zenon DEF Configure, Poll, Load, At
  <2> QED
    BY <1>0, <2>1, Forms DEF Uploader, Resting
<1>6. uploader' = Resting \/ UNCHANGED uploader \/ Configure \/ Acknowledge \/ Discard
      \/ (\E tasks \in BOOLEAN : Poll(tasks)) \/ (\E r \in Request : Load(r) \/ Answer(r))
  BY AgentWriters DEF Restart
<1> QED
  BY <1>1, <1>2, <1>3, <1>4, <1>5, <1>6

\* Nothing leaves the store but what was stored or is accounted for.
LEMMA LostStep ==
    ASSUME Typed, CycleInv, Next
    PROVE  NothingLost'
<1>0. /\ SnapshotTypes /\ uploader \in Uploader /\ RequestTypes
      /\ \A p \in 1 .. Len(snapshots) : p \in Position
  BY TypeParts, InStore DEF Typed, AgentTypes
<1>1. \A p \in 1 .. Len(snapshots) : stored[p] # 0 => stored'[p] # 0
  BY <1>0, RowsStay DEF CycleInv
<1>2. \A p \in 1 .. Len(snapshots) :
          p \in store \cup pruned \cup cleared \cup refused \/ stored[p] # 0
  BY DEF CycleInv, NothingLost
<1>3. ASSUME NEW reading \in Reading, Added(reading),
             store' = store \cup {Newest} \/ (store' = {Newest} /\ store = {}),
             UNCHANGED <<pruned, cleared, refused>>
      PROVE  NothingLost'
  <2>1. Len(snapshots') = Len(snapshots) + 1 /\ Newest = Len(snapshots') /\ Len(snapshots) \in Nat
    <3>1. now \in Nat /\ snapshots \in Seq(Snapshot) /\ Len(snapshots) \in Nat
      BY <1>0, TypeParts DEF Typed, BoundTypes, SnapshotTypes
    <3> QED
      BY <1>3, <3>1, AddedTypes
  <2>2. SUFFICES ASSUME NEW p \in 1 .. Len(snapshots')
                 PROVE  p \in store' \cup pruned \cup cleared \cup refused \/ stored'[p] # 0
    BY <1>3 DEF NothingLost
  <2>3. CASE p = Newest
    BY <1>3, <2>3
  <2>4. CASE p # Newest
    <3>1. p \in 1 .. Len(snapshots)
      BY <2>1, <2>4
    <3> QED
      BY <1>1, <1>2, <1>3, <3>1
  <2> QED
    BY <2>3, <2>4
<1>4. ASSUME UNCHANGED snapshots,
             \A p \in store : p \in store' \cup pruned' \cup cleared' \cup refused' \/ stored[p] # 0,
             pruned \subseteq pruned', cleared \subseteq cleared', refused \subseteq refused'
      PROVE  NothingLost'
  BY <1>1, <1>2, <1>4 DEF NothingLost
<1>5. CASE Store \/ CollectForTasks
  <2>1. \E reading \in Reading : Added(reading)
    BY <1>5 DEF Store, CollectForTasks
  <2> QED
    BY <1>3, <1>5, <2>1 DEF Store, CollectForTasks, history
<1>6. CASE Prune
  <2>1. /\ UNCHANGED snapshots /\ store' = store \ Excess(store)
        /\ pruned' = pruned \cup Excess(store) /\ cleared' = cleared /\ refused' = refused
    BY <1>6 DEF Prune
  <2> QED
    BY <1>4, <2>1
<1>7. CASE Clear
  BY <1>4, <1>7 DEF Clear
<1>8. CASE Acknowledge
  <2>1. Dropped \subseteq uploader.batch
    <3>1. uploader.batch # {} /\ uploader.batch \subseteq Nat
      BY <1>0, <1>8 DEF Acknowledge, CycleInv, BatchCarried, Uploader, Position
    <3> QED
      BY <3>1, LeastOne DEF Dropped
  <2>2. \A p \in Dropped : stored[p] # 0
    BY <1>8, <2>1 DEF Acknowledge, CycleInv, AcknowledgedThere
  <2> QED
    BY <1>4, <1>8, <2>2 DEF Acknowledge, history
<1>9. CASE Discard
  <2>1. /\ UNCHANGED snapshots /\ store' = store \ RefusedFiles
        /\ refused' = refused \cup (store \cap RefusedFiles) /\ cleared' = cleared /\ pruned' = pruned
    BY <1>9 DEF Discard
  <2> QED
    BY <1>4, <2>1
<1>10. CASE UNCHANGED <<store, pruned, cleared, refused>> /\ ~Store /\ ~CollectForTasks
  <2>1. CASE UNCHANGED snapshots
    BY <1>4, <1>10, <2>1
  <2>2. CASE \E reading \in Reading : Added(reading) /\ (store' = store \cup {Newest} \/ store' = {Newest})
    <3>1. PICK reading \in Reading : Added(reading) /\ (store' = store \cup {Newest} \/ store' = {Newest})
      BY <2>2
    <3>2. Newest \in store' /\ store' = store
      BY <1>10, <3>1
    <3> QED
      BY <1>3, <1>10, <3>1, <3>2
  <2> QED
    BY <2>1, <2>2, SnapshotWriters
<1> QED
  BY <1>5, <1>6, <1>7, <1>8, <1>9, <1>10, StoreWriters

\* The types and the parts, together.
LEMMA CycleStep == ASSUME Typed, CycleInv, [Next]_vars PROVE CycleInv'
<1>1. CASE Next
  BY <1>1, ObservedStep, StoredStep, BatchStep, AcknowledgedStep, LostStep DEF CycleInv
<1>2. CASE UNCHANGED vars
  BY <1>2 DEF CycleInv, Observed, StoredThere, BatchCarried, AcknowledgedThere, NothingLost,
              vars, agent, server, history
<1> QED
  BY <1>1, <1>2

\* No snapshot is lost between the agent's store and the API, whatever fails: a batch is
\* removed from the store only once the API has committed it (upload_batch, heartbeat).
THEOREM SnapshotsKept == Spec => []NothingLost
<1>1. Init => Typed
  BY TypeInit, Forms DEF Typed, Init, BatchesExist
<1>2. Init => CycleInv
  BY Forms DEF Init, CycleInv, Observed, StoredThere, BatchCarried, AcknowledgedThere, NothingLost,
               Resting
<1>3. Typed /\ CycleInv /\ [Next]_vars => Typed' /\ CycleInv'
  BY TypeStep, CycleStep
<1> QED
  BY <1>1, <1>2, <1>3, PTL DEF Spec, CycleInv

-----------------------------------------------------------------------------
(* Telemetry that is switched off.                                         *)

\* A collector that is off waits, and the store is cleared while it is off.
CollectorRests ==
    /\ ~collector.enabled => collector.pc = "waiting"
    /\ uploader.pc = "clearing" => ~collector.enabled

\* An agent that has obeyed uploads nothing and collects nothing.
NothingGoesOn ==
    off => ~collector.enabled /\ uploader.pc \in {"idle", "configuring", "clearing"}

\* What makes NothingKeptWhenOff inductive.
OffInv == CollectorRests /\ NothingGoesOn /\ NothingKeptWhenOff

\* Every step keeps it.
LEMMA OffStep == ASSUME Typed, OffInv, [Next]_vars PROVE OffInv'
<1>0. collector \in Collector /\ uploader \in Uploader
  BY TypeParts DEF Typed, AgentTypes
<1>1. CASE UNCHANGED <<store, collector, uploader, off>>
  BY <1>1 DEF OffInv, CollectorRests, NothingGoesOn, NothingKeptWhenOff
<1>2. CASE Collect
  BY <1>0, <1>2 DEF Collect, Collector, history, OffInv, CollectorRests, NothingGoesOn, NothingKeptWhenOff
<1>3. CASE Store
  <2>1. collector.enabled /\ ~off
    BY <1>3 DEF Store, OffInv, CollectorRests, NothingGoesOn
  <2> QED
    BY <1>0, <1>3, <2>1 DEF Store, Collector, history, OffInv, CollectorRests, NothingGoesOn, NothingKeptWhenOff
<1>4. CASE CollectFails
  BY <1>0, <1>4 DEF CollectFails, Collector, history, OffInv, CollectorRests, NothingGoesOn, NothingKeptWhenOff
<1>5. CASE Prune
  BY <1>0, <1>5 DEF Prune, Collector, OffInv, CollectorRests, NothingGoesOn, NothingKeptWhenOff
<1>6. ASSUME NEW tasks \in BOOLEAN, Poll(tasks) PROVE OffInv'
  <2>1. uploader'.pc = "configuring"
    BY <1>6, Forms DEF Poll, Resting
  <2> QED
    BY <1>6, <2>1 DEF Poll, history, OffInv, CollectorRests, NothingGoesOn, NothingKeptWhenOff
<1>7. CASE Configure
  <2>1. collector' = [collector EXCEPT !.enabled = uploader.collect] /\ store' = store
        /\ off' = (off /\ ~uploader.collect) /\ uploader.pc = "configuring"
    BY <1>7 DEF Configure
  <2>2. collector'.enabled = uploader.collect /\ collector'.pc = collector.pc
        /\ uploader.collect \in BOOLEAN
    BY <1>0, <2>1 DEF Collector, Uploader
  <2>3. ~collector'.enabled => collector'.pc = "waiting"
    BY <1>7, <2>2 DEF Configure, Confirmed, Commanded, OffInv, CollectorRests
  <2>4. CASE ~uploader.collect
    <3>1. uploader' = [uploader EXCEPT !.pc = "clearing", !.tasks = FALSE, !.collect = FALSE]
      BY <1>7, <2>4 DEF Configure, At
    <3>2. uploader'.pc = "clearing"
      BY <1>0, <3>1 DEF Uploader
    <3> QED
      BY <2>1, <2>2, <2>3, <2>4, <3>2 DEF OffInv, CollectorRests, NothingGoesOn, NothingKeptWhenOff
  <2>5. CASE uploader.collect
    <3>1. uploader' = Resting \/ uploader' = [uploader EXCEPT !.pc = "loading", !.tasks = FALSE, !.collect = FALSE]
      BY <1>7, <2>5 DEF Configure, At
    <3>2. uploader'.pc # "clearing"
      BY <1>0, <3>1, Forms DEF Uploader
    <3>3. ~off'
      BY <2>1, <2>5
    <3> QED
      BY <2>3, <3>2, <3>3 DEF OffInv, CollectorRests, NothingGoesOn, NothingKeptWhenOff
  <2> QED
    BY <2>2, <2>4, <2>5
<1>8. CASE Clear
  BY <1>8, Forms DEF Clear, OffInv, CollectorRests, NothingGoesOn, NothingKeptWhenOff
<1>9. ASSUME ~off, UNCHANGED <<collector, off>>, uploader'.pc # "clearing"
      PROVE  OffInv'
  BY <1>9 DEF OffInv, CollectorRests, NothingGoesOn, NothingKeptWhenOff
<1>10. CASE CollectForTasks \/ CollectForTasksFails
  BY <1>9, <1>10, Forms DEF CollectForTasks, CollectForTasksFails, history, OffInv, NothingGoesOn
<1>11. ASSUME NEW r \in Request, Load(r) PROVE OffInv'
  <2>1. uploader'.pc = "sending"
    BY <1>0, <1>11 DEF Load, Uploader
  <2> QED
    BY <1>9, <1>11, <2>1 DEF Load, history, OffInv, NothingGoesOn
<1>12. CASE Acknowledge \/ Discard
  <2> DEFINE rest == uploader.batch \ Dropped
  <2>1. /\ \/ uploader' = [uploader EXCEPT !.batch = rest]
           \/ uploader' = Resting
           \/ uploader' = [uploader EXCEPT !.pc = "loading", !.batch = {}, !.request = None]
        /\ uploader.pc \in {"acknowledging", "refused"} /\ UNCHANGED <<collector, off>>
    BY <1>12 DEF Acknowledge, Discard, history
  <2>2. uploader'.pc # "clearing"
    BY <1>0, <2>1, Forms DEF Uploader
  <2> QED
    BY <1>9, <2>1, <2>2 DEF OffInv, NothingGoesOn
<1>13. CASE RequestFails \/ TimeOut
  BY <1>9, <1>13, Forms DEF RequestFails, TimeOut, history, OffInv, NothingGoesOn
<1>14. ASSUME NEW r \in Request, Answer(r) PROVE OffInv'
  <2>1. CASE UNCHANGED uploader
    BY <1>1, <1>14, <2>1 DEF Answer, history
  <2>2. CASE uploader' # uploader
    <3>1. /\ uploader.pc = "sending" /\ UNCHANGED <<collector, off>>
          /\ \E pc \in {"refused", "acknowledging"} :
                uploader' = [uploader EXCEPT !.pc = pc, !.tasks = FALSE, !.collect = FALSE]
      BY <1>14, <2>2 DEF Answer, Awaited, At, history
    <3>2. uploader'.pc # "clearing"
      BY <1>0, <3>1 DEF Uploader
    <3> QED
      BY <1>9, <3>1, <3>2 DEF OffInv, NothingGoesOn
  <2> QED
    BY <2>1, <2>2
<1>15. CASE Restart
  BY <1>15, Forms DEF Restart, history, OffInv, CollectorRests, NothingGoesOn, NothingKeptWhenOff
<1>16. ASSUME NEW r \in Request, StoreBatch(r) \/ EvaluateAlerts(r) \/ Lose(r)
       PROVE  UNCHANGED <<store, collector, uploader, off>>
  BY <1>16 DEF StoreBatch, EvaluateAlerts, Lose, agent, history
<1>17. CASE Administration \/ Tick \/ UNCHANGED vars
  BY <1>1, <1>17 DEF Administration, SetWanted, CreateRule, UpdateRule, RemoveRule, Edits, Tick,
                    vars, agent, history
<1> QED
  BY <1>1, <1>2, <1>3, <1>4, <1>5, <1>6, <1>7, <1>8, <1>10, <1>11, <1>12, <1>13, <1>14, <1>15,
     <1>16, <1>17 DEF Next, Collection, Cycle, Heartbeat, Faults

\* Without telemetry nothing is kept on the host, restarts included: the store is cleared
\* once the collector thread has confirmed that it is off (cycle, configure).
THEOREM NothingKept == Spec => []NothingKeptWhenOff
<1>1. Init => Typed /\ OffInv
  <2> SUFFICES ASSUME Init PROVE Typed /\ OffInv
    OBVIOUS
  <2>1. Typed
    BY TypeInit, Forms DEF Typed, Init, BatchesExist
  <2>2. /\ collector = [enabled |-> FALSE, pc |-> "waiting"] /\ store = {} /\ off = FALSE
        /\ uploader.pc = "idle"
    BY Forms DEF Init
  <2> QED
    BY <2>1, <2>2 DEF OffInv, CollectorRests, NothingGoesOn, NothingKeptWhenOff
<1>2. Typed /\ OffInv /\ [Next]_vars => Typed' /\ OffInv'
  BY TypeStep, OffStep
<1> QED
  BY <1>1, <1>2, PTL DEF Spec, OffInv

-----------------------------------------------------------------------------
(* A full store.                                                           *)

\* A snapshot a full store drops has the retained ones after it.
LEMMA DroppedOld ==
    ASSUME SnapshotTypes, NEW p \in Excess(store)
    PROVE  p + Retained <= Len(snapshots)
<1> DEFINE later == {q \in store : q >= p}
<1>1. /\ p \in Nat /\ Len(snapshots) \in Nat /\ store \subseteq 1 .. Len(snapshots)
      /\ p \in 1 .. Len(snapshots)
  BY DEF SnapshotTypes, Excess
<1>2. later \subseteq p .. Len(snapshots)
  <2> SUFFICES ASSUME NEW q \in store, q >= p PROVE q \in p .. Len(snapshots)
    OBVIOUS
  <2> QED
    BY <1>1
<1>3. IsFiniteSet(p .. Len(snapshots)) /\ Cardinality(p .. Len(snapshots)) = Len(snapshots) - p + 1
  BY <1>1, FS_Interval
<1>4. IsFiniteSet(later) /\ Cardinality(later) <= Len(snapshots) - p + 1
  BY <1>2, <1>3, FS_Subset
<1>5. Cardinality(later) \in Nat
  BY <1>4, FS_CardinalityType
<1>6. Cardinality(later) > Retained
  BY DEF Excess
<1> HIDE DEF later
<1> QED
  BY <1>1, <1>4, <1>5, <1>6, Parameters

\* A full store drops its oldest snapshots only, whatever the other thread removes in
\* between (SnapshotStore.prune).
THEOREM OldestGo == Spec => []OldestDropped
<1>1. Init => Typed /\ OldestDropped
  BY TypeInit, Forms DEF Typed, Init, BatchesExist, OldestDropped
<1>2. Typed /\ OldestDropped /\ [Next]_vars => Typed' /\ OldestDropped'
  <2> SUFFICES ASSUME Typed, OldestDropped, [Next]_vars PROVE Typed' /\ OldestDropped'
    OBVIOUS
  <2>1. /\ SnapshotTypes /\ SnapshotTypes'
        /\ Len(snapshots) \in Nat /\ Len(snapshots') \in Nat /\ Len(snapshots') >= Len(snapshots)
        /\ Typed'
    <3>1. (TypeOK /\ RoundsLeft)' => SnapshotTypes'
      BY TypeParts, PTL
    <3>2. Len(snapshots') \in Nat /\ Len(snapshots) \in Nat
      BY TypeStep, <3>1, TypeParts DEF Typed, SnapshotTypes
    <3> QED
      BY TypeStep, <3>1, <3>2, TypeParts DEF Typed
  <2>2. pruned' = pruned \/ pruned' = pruned \cup Excess(store)
    <3>1. CASE Next
      BY <3>1, StoreWriters DEF Store, Prune, Clear, CollectForTasks, Acknowledge, Discard, history
    <3> QED
      BY <3>1 DEF vars, history
  <2>3. \A p \in pruned' : p + Retained <= Len(snapshots)
    BY <2>1, <2>2, DroppedOld DEF OldestDropped
  <2>4. \A p \in pruned' : p \in Nat
    BY <2>1 DEF SnapshotTypes
  <2> QED
    BY <2>1, <2>3, <2>4, Parameters DEF OldestDropped
<1> QED
  BY <1>1, <1>2, PTL DEF Spec

-----------------------------------------------------------------------------
(* Which snapshots the API evaluates.                                      *)

\* The snapshots the API has.
Held == {p \in Position : stored[p] # 0}

\* The ones it is about to take to the rules.
Due == {requests[r].newest : r \in {q \in Request : requests[q].pc = "stored"}}

\* A snapshot is due once, and not when it has been evaluated.
DueOnce ==
    /\ evaluated \subseteq Held
    /\ \A r \in Request : requests[r].pc = "stored" =>
           /\ requests[r].newest \in Held \ evaluated
           /\ \A q \in Request : requests[q].pc = "stored" /\ q # r
                                 => requests[q].newest # requests[r].newest

\* The newest one was evaluated, is due, or was when the API failed.
NewestDue == Held # {} => Max(Held) \in evaluated \cup skipped \cup Due

\* What makes both properties of this section inductive.
EvaluationInv == Observed /\ DueOnce /\ NewestDue

\* A batch that is stored: nothing changes, or the newest of the snapshots that are new is
\* due.
LEMMA BatchStored ==
    ASSUME Typed, Observed, NEW r \in Request, StoreBatch(r)
    PROVE  /\ requests[r].pc = "sent" /\ requests[r].batch \subseteq Position
           /\ UNCHANGED <<evaluated, skipped>>
           /\ \A q \in Request : q # r => requests'[q] = requests[q]
           /\ \/ Held' = Held /\ requests'[r].pc # "stored"
              \/ /\ Held' = Held \cup requests[r].batch
                 /\ requests'[r].pc = "stored" /\ requests'[r].newest \in requests[r].batch \ Held
                 /\ \A p \in requests[r].batch \ Held : p <= requests'[r].newest
<1> DEFINE batch == requests[r].batch
           new == {p \in batch : stored[p] = 0}
           newest == LatestInserted(batch)
<1>0. /\ RequestTypes /\ requests[r] \in Sent /\ requests[r] # Unused /\ requests[r].pc = "sent"
      /\ batch \subseteq Position /\ stored \in [Position -> Nat] /\ RequestTypes'
  <2>1. (TypeOK /\ RoundsLeft)' => RequestTypes'
    BY TypeParts, PTL
  <2>2. Typed'
    BY TypeStep DEF Next, Heartbeat
  <2>3. RequestTypes /\ requests[r] \in Sent /\ requests[r] # Unused /\ requests[r].pc = "sent"
    BY TypeParts, Forms DEF Typed, StoreBatch, RequestTypes
  <2> QED
    BY <2>1, <2>2, <2>3, Forms DEF Typed, RequestTypes
<1>1. /\ UNCHANGED <<evaluated, skipped>>
      /\ \A q \in Request : q # r => requests'[q] = requests[q]
  BY <1>0 DEF StoreBatch, history, RequestTypes
<1>2. CASE Refuses(batch)
  <2>1. requests' = [requests EXCEPT ![r].pc = "refused"] /\ stored' = stored
    BY <1>2 DEF StoreBatch
  <2>2. requests'[r].pc = "refused"
    BY <1>0, <2>1 DEF RequestTypes, Sent
  <2> QED
    BY <1>0, <1>1, <2>1, <2>2 DEF Held
<1>3. CASE ~Refuses(batch)
  <2>1. /\ stored' = [p \in Position |->
                        IF p \in batch /\ stored[p] = 0 THEN ObservedAt(p) ELSE stored[p]]
        /\ requests' = [requests EXCEPT ![r].pc = IF newest = 0 THEN "answered" ELSE "stored",
                                        ![r].newest = newest]
    BY <1>3 DEF StoreBatch
  <2>2. newest \in {0} \cup new /\ \A p \in new : p <= newest
    <3>1. {0} \cup new \subseteq 0 .. MaxSnapshots
      BY <1>0, Parameters DEF Position
    <3>2. {0} \cup new # {} /\ newest = Max({0} \cup new)
      BY DEF LatestInserted
    <3> HIDE DEF new, newest
    <3> QED
      BY <3>1, <3>2, LastOne, Parameters
  <2>3. /\ requests'[r].pc = (IF newest = 0 THEN "answered" ELSE "stored")
        /\ requests'[r].newest = newest
    <3> HIDE DEF newest
    <3> QED
      BY <1>0, <2>1 DEF RequestTypes, Sent
  <2>4. \A p \in batch : stored'[p] # 0
    BY <1>0, <2>3, RowsStay DEF Next, Heartbeat
  <2>5. Held' = Held \cup batch
    <3>1. \A p \in Position : p \notin batch => stored'[p] = stored[p]
      BY <2>1
    <3>2. \A p \in Position : stored'[p] # 0 <=> stored[p] # 0 \/ p \in batch
      BY <1>0, <2>1, <2>4, <3>1
    <3> QED
      BY <1>0, <3>2 DEF Held
  <2>6. new = batch \ Held
    BY <1>0 DEF Held
  <2>7. CASE newest = 0
    <3>1. new = {}
      BY <1>0, <2>2, <2>7 DEF Position
    <3>2. batch \subseteq Held
      BY <2>6, <3>1
    <3> QED
      BY <1>0, <1>1, <2>3, <2>5, <2>7, <3>2
  <2>8. CASE newest # 0
    BY <1>0, <1>1, <2>2, <2>3, <2>5, <2>6, <2>8
  <2> QED
    BY <2>7, <2>8
<1> QED
  BY <1>2, <1>3

\* What the API has, it keeps.
LEMMA HeldStep ==
    ASSUME Typed, Observed, Next, \A r \in Request : ~StoreBatch(r)
    PROVE  Held' = Held
<1>1. stored' = stored
  BY DEF Next, Collection, Collect, Store, CollectFails, Prune, Cycle, Poll, Configure, Clear,
         CollectForTasks, CollectForTasksFails, Load, Acknowledge, Discard, RequestFails,
         Heartbeat, EvaluateAlerts, Answer, Administration, SetWanted, CreateRule,
         UpdateRule, RemoveRule, Edits, Tick, Faults, Lose, TimeOut, Restart,
         history, server, agent
<1> QED
  BY <1>1 DEF Held

\* The requests a step leaves alone, and the one it is about.
LEMMA EvaluationStep ==
    ASSUME Typed, EvaluationInv, [Next]_vars
    PROVE  EvaluationInv'
<1>0. RequestTypes /\ Observed /\ DueOnce /\ NewestDue
  BY TypeParts DEF Typed, EvaluationInv
<1>1. ASSUME Held' = Held, UNCHANGED <<evaluated, skipped>>,
             \A r \in Request : requests'[r].pc = "stored" => requests'[r] = requests[r],
             \A r \in Request : requests[r].pc = "stored" => requests'[r] = requests[r]
      PROVE  DueOnce' /\ NewestDue'
  <2>1. Due' = Due
    <3>1. {q \in Request : requests'[q].pc = "stored"} = {q \in Request : requests[q].pc = "stored"}
      BY <1>1
    <3> QED
      BY <1>1, <3>1 DEF Due
  <2> QED
    BY <1>0, <1>1, <2>1 DEF DueOnce, NewestDue
<1>2. ASSUME NEW r \in Request, StoreBatch(r) PROVE DueOnce' /\ NewestDue'
  <2> DEFINE batch == requests[r].batch
             newest == requests'[r].newest
  <2>1. CASE Held' = Held /\ requests'[r].pc # "stored"
    BY <1>0, <1>1, <1>2, <2>1, BatchStored
  <2>2. CASE /\ Held' = Held \cup batch
             /\ requests'[r].pc = "stored" /\ newest \in batch \ Held
             /\ \A p \in batch \ Held : p <= newest
    <3>0. /\ requests[r].pc = "sent" /\ batch \subseteq Position
          /\ evaluated' = evaluated /\ skipped' = skipped
          /\ \A q \in Request : q # r => requests'[q] = requests[q]
      BY <1>0, <1>2, BatchStored
    <3>1. DueOnce'
      <4>1. evaluated' \subseteq Held'
        BY <1>0, <2>2, <3>0 DEF DueOnce
      <4>2. ASSUME NEW q \in Request, requests'[q].pc = "stored"
            PROVE  /\ requests'[q].newest \in Held' \ evaluated'
                   /\ q # r => requests'[q].newest \in Held
        BY <1>0, <2>2, <3>0, <4>2 DEF DueOnce
      <4>3. ASSUME NEW q \in Request, requests'[q].pc = "stored",
                   NEW s \in Request, requests'[s].pc = "stored", s # q
            PROVE  requests'[s].newest # requests'[q].newest
        BY <1>0, <2>2, <3>0, <4>2, <4>3 DEF DueOnce
      <4> QED
        BY <4>1, <4>2, <4>3 DEF DueOnce
    <3>2. newest \in Due'
      BY <2>2 DEF Due
    <3>3. Due \subseteq Due'
      <4> SUFFICES ASSUME NEW q \in Request, requests[q].pc = "stored"
                   PROVE  requests[q].newest \in Due'
        BY DEF Due
      <4>1. requests'[q] = requests[q]
        BY <3>0
      <4> QED
        BY <4>1 DEF Due
    <3>4. Max(Held') \in Held' /\ \A p \in Held' : p <= Max(Held')
      <4>1. Held' \subseteq 0 .. MaxSnapshots /\ Held' # {}
        BY <2>2, <3>0, Parameters DEF Held, Position
      <4> QED
        BY <4>1, LastOne, Parameters
    <3>5. Held' \subseteq Nat
      BY <2>2, <3>0 DEF Held, Position
    <3>6. CASE Max(Held') \in Held
      <4>1. Max(Held) \in Held /\ \A p \in Held : p <= Max(Held)
        <5>1. Held \subseteq 0 .. MaxSnapshots /\ Held # {}
          BY <3>6, Parameters DEF Held, Position
        <5> QED
          BY <5>1, LastOne, Parameters
      <4>2. Max(Held') = Max(Held)
        <5>1. Max(Held) <= Max(Held') /\ Max(Held') <= Max(Held)
          BY <2>2, <3>4, <3>6, <4>1
        <5>2. Max(Held) \in Nat /\ Max(Held') \in Nat
          BY <2>2, <3>4, <3>5, <4>1
        <5> QED
          BY <5>1, <5>2
      <4> QED
        BY <1>0, <3>0, <3>1, <3>3, <3>6, <4>2 DEF NewestDue
    <3>7. CASE Max(Held') \notin Held
      <4>1. Max(Held') = newest
        <5>1. Max(Held') <= newest /\ newest <= Max(Held') /\ newest \in Held'
          BY <2>2, <3>4, <3>7
        <5> QED
          BY <3>4, <3>5, <5>1
      <4> QED
        BY <3>1, <3>2, <4>1 DEF NewestDue
    <3> QED
      BY <3>6, <3>7
  <2> QED
    BY <1>0, <1>2, <2>1, <2>2, BatchStored
<1>3. ASSUME NEW r \in Request, requests[r].pc = "stored", Held' = Held,
             requests'[r].pc # "stored", \A q \in Request : q # r => requests'[q] = requests[q],
             \/ evaluated' = evaluated \cup {requests[r].newest} /\ skipped' = skipped
             \/ skipped' = skipped \cup {requests[r].newest} /\ evaluated' = evaluated
      PROVE  DueOnce' /\ NewestDue'
  <2>1. DueOnce'
    BY <1>0, <1>3 DEF DueOnce
  <2>2. Due \subseteq Due' \cup {requests[r].newest}
    <3> SUFFICES ASSUME NEW q \in Request, requests[q].pc = "stored", q # r
                 PROVE  requests[q].newest \in Due'
      BY DEF Due
    <3>1. requests'[q] = requests[q]
      BY <1>3
    <3> QED
      BY <3>1 DEF Due
  <2> QED
    BY <1>0, <1>3, <2>1, <2>2 DEF NewestDue
<1>4. ASSUME NEW r \in Request, EvaluateAlerts(r), Held' = Held PROVE DueOnce' /\ NewestDue'
  <2>0. requests[r] \in Sent
    BY <1>0, <1>4, Forms DEF EvaluateAlerts, RequestTypes
  <2>1. /\ requests[r].pc = "stored" /\ requests'[r].pc = "answered"
        /\ \A q \in Request : q # r => requests'[q] = requests[q]
        /\ evaluated' = evaluated \cup {requests[r].newest} /\ skipped' = skipped
    BY <1>0, <1>4, <2>0 DEF EvaluateAlerts, RequestTypes, Sent
  <2> QED
    BY <1>3, <1>4, <2>1
<1>5. ASSUME NEW r \in Request, Load(r) \/ Answer(r) \/ Lose(r), Held' = Held
      PROVE  DueOnce' /\ NewestDue'
  <2>1. \A q \in Request : q # r => requests'[q] = requests[q]
    BY <1>0, <1>5 DEF Load, Answer, Lose, RequestTypes
  <2>2. requests'[r].pc # "stored" /\ evaluated' = evaluated
    BY <1>0, <1>5, Forms DEF Load, Answer, Lose, RequestTypes, history
  <2>3. CASE Lose(r) /\ requests[r].pc = "stored"
    BY <1>3, <1>5, <2>1, <2>2, <2>3 DEF Lose
  <2>4. CASE requests[r].pc # "stored"
    <3>1. UNCHANGED skipped
      BY <1>5, <2>4 DEF Load, Answer, Lose, history
    <3> QED
      BY <1>1, <1>5, <2>1, <2>2, <2>4, <3>1
  <2>5. Lose(r) \/ requests[r].pc # "stored"
    BY <1>5, Forms DEF Load, Answer
  <2> QED
    BY <2>3, <2>4, <2>5
<1>6. CASE Next
  <2>1. Observed'
    BY <1>0, <1>6, ObservedStep
  <2>2. CASE \E r \in Request : StoreBatch(r)
    BY <1>2, <2>1, <2>2 DEF EvaluationInv
  <2>3. CASE \A r \in Request : ~StoreBatch(r)
    <3>1. Held' = Held
      BY <1>0, <1>6, <2>3, HeldStep
    <3>2. CASE UNCHANGED <<requests, stored, evaluated, skipped>>
      BY <1>1, <2>1, <3>1, <3>2 DEF EvaluationInv
    <3> QED
      BY <1>4, <1>5, <1>6, <2>1, <2>3, <3>1, <3>2, RequestWriters DEF EvaluationInv
  <2> QED
    BY <2>2, <2>3
<1>7. CASE UNCHANGED vars
  <2>1. Held' = Held /\ UNCHANGED <<requests, evaluated, skipped>>
    BY <1>7 DEF Held, vars, server, history
  <2>2. Observed'
    BY <1>0, <1>7 DEF Observed, vars
  <2> QED
    BY <1>1, <2>1, <2>2 DEF EvaluationInv
<1> QED
  BY <1>6, <1>7

\* It holds throughout.
LEMMA EvaluationInvariant == Spec => [](Typed /\ EvaluationInv)
<1>1. Init => Typed /\ EvaluationInv
  <2> SUFFICES ASSUME Init PROVE Typed /\ EvaluationInv
    OBVIOUS
  <2>1. Typed
    BY TypeInit, Forms DEF Typed, Init, BatchesExist
  <2>2. Held = {} /\ evaluated = {} /\ \A r \in Request : requests[r].pc = "unused"
    BY Forms DEF Held, Init
  <2>3. Observed
    BY DEF Init, Observed
  <2> QED
    BY <2>1, <2>2, <2>3 DEF EvaluationInv, DueOnce, NewestDue
<1>2. Typed /\ EvaluationInv /\ [Next]_vars => Typed' /\ EvaluationInv'
  BY TypeStep, EvaluationStep
<1> QED
  BY <1>1, <1>2, PTL DEF Spec

\* The newest snapshot the API holds is evaluated, in whatever order and however often
\* batches arrive, unless the API fails in between (heartbeat, evaluate).
THEOREM NewestIsEvaluated == Spec => []NewestEvaluated
<1>1. EvaluationInv => NewestEvaluated
  <2> SUFFICES ASSUME EvaluationInv, Held # {}, \A r \in Request : requests[r].pc # "stored"
               PROVE  Max(Held) \in evaluated \cup skipped
    BY DEF NewestEvaluated, Held
  <2>1. Due = {}
    BY DEF Due
  <2> QED
    BY <2>1 DEF EvaluationInv, NewestDue
<1> QED
  BY <1>1, EvaluationInvariant, PTL

\* No snapshot is evaluated twice, though it is uploaded twice (heartbeat).
THEOREM NoneTwice == Spec => EvaluatedOnce
<1> DEFINE Once == \A r \in Request : EvaluateAlerts(r) => requests[r].newest \notin evaluated
<1>1. EvaluationInv => [Once]_vars
  BY DEF EvaluationInv, DueOnce, EvaluateAlerts
<1> QED
  BY <1>1, EvaluationInvariant, PTL DEF EvaluatedOnce

-----------------------------------------------------------------------------
(* What a rule says of its values.                                         *)

\* The last n values since the rule was edited match, or have recovered.
MatchedLast(n) ==
    \A i \in 1 .. Len(values) : i > Len(values) - n => Matches(rule.condition, values[i])
RecoveredLast(n) ==
    \A i \in 1 .. Len(values) : i > Len(values) - n => Recovered(rule.condition, values[i])

\* The counters of a rule count values that match, or have recovered, in a row.
CountersCount ==
    /\ rule.matches <= Len(values) /\ rule.recoveries <= Len(values)
    /\ ~rule.active => MatchedLast(rule.matches)
    /\ rule.active => RecoveredLast(rule.recoveries)

\* The value before them does not, so they count all of those.
CountersComplete ==
    Settles(rule.condition) =>
        /\ ~rule.active /\ rule.matches < Len(values)
               => ~Matches(rule.condition, values[Len(values) - rule.matches])
        /\ rule.active /\ rule.recoveries < Len(values)
               => ~Recovered(rule.condition, values[Len(values) - rule.recoveries])

\* The latest notification tells what the rule is, and is not of a later value.
ToldIt ==
    /\ told.event = "triggered" <=> rule.active
    /\ told.at <= rule.last
    /\ ~rule.exists => told = Silent /\ ~rule.active

\* What makes the properties of rules inductive.
AlertInv == Valid(rule.condition) /\ CountersCount /\ CountersComplete /\ ToldIt

\* A condition that settles is not met and ended by one value.
LEMMA EitherOr ==
    ASSUME NEW condition, Valid(condition), Settles(condition), NEW value \in Int
    PROVE  ~(Matches(condition, value) /\ Recovered(condition, value))
<1>1. /\ condition.operator \in Operators /\ condition.threshold \in Int
      /\ condition.recovery \in Int \cup {None}
  BY DEF Valid, Condition
<1>2. CASE condition.operator = "equals"
  BY <1>1, <1>2, NoneAssumption DEF Settles, Matches, Recovered, Compare
<1>3. CASE condition.operator = "greaterThan"
  BY <1>1, <1>3, NoneAssumption DEF Valid, Matches, Recovered, Compare
<1>4. CASE condition.operator = "greaterThanOrEqual"
  BY <1>1, <1>4, NoneAssumption DEF Valid, Matches, Recovered, Compare
<1>5. CASE condition.operator = "lessThan"
  BY <1>1, <1>5, NoneAssumption DEF Valid, Matches, Recovered, Compare
<1>6. CASE condition.operator = "lessThanOrEqual"
  BY <1>1, <1>6, NoneAssumption DEF Valid, Matches, Recovered, Compare
<1> QED
  BY <1>1, <1>2, <1>3, <1>4, <1>5, <1>6 DEF Operators

\* What an administrator does to the rule and its latest notification.
AdministratorEdits ==
    /\ rule'.matches = 0 /\ rule'.recoveries = 0 /\ values' = <<>>
    /\ told' = told \/ told'.event = "none"
    /\ (ToldIt => ToldIt') /\ Valid(rule'.condition)

\* What a value does.
ValueArrives(value, at) ==
    /\ Evaluates(rule, value, at) /\ value \in Int /\ at \in Nat
    /\ rule' = Evaluated(rule, value, at) /\ told' = Notified(rule, rule')
    /\ values' = Append(values, value)

\* The rule changes in no other way.
LEMMA RuleChanges ==
    ASSUME Typed, Valid(rule.condition), Next
    PROVE  \/ UNCHANGED <<rule, values, told>>
           \/ AdministratorEdits
           \/ \E value, at : ValueArrives(value, at)
<1>0. /\ RuleFits(rule) /\ rule \in Rule /\ values \in Seq(Int) /\ SnapshotTypes /\ RequestTypes
      /\ told \in [event: {"none", "triggered", "recovered"}, at: Nat]
  BY TypeParts DEF Typed, RuleTypes, RuleFits
<1>1. ASSUME NEW new \in Rule, Edits(new), new.matches = 0, new.recoveries = 0, Valid(new.condition),
             new.active => rule.active /\ rule.exists /\ new.exists,
             (rule.exists /\ new.exists) \/ ~new.exists \/ (~rule.exists /\ ~new.active),
             rule.exists /\ new.exists => new.last = rule.last
      PROVE  AdministratorEdits
  <2>1. /\ rule' = new /\ values' = <<>>
        /\ told' = IF rule.exists /\ ~new.exists THEN Silent
                   ELSE IF rule.active /\ ~new.active THEN [told EXCEPT !.event = "none"]
                   ELSE told
    BY <1>1 DEF Edits
  <2>2. CASE rule.exists /\ ~new.exists
    <3>1. told' = Silent /\ ~new.active /\ new.last \in Nat
      BY <1>1, <2>1, <2>2 DEF Rule
    <3> QED
      BY <1>1, <2>1, <2>2, <3>1 DEF AdministratorEdits, ToldIt, Silent
  <2>3. CASE ~(rule.exists /\ ~new.exists) /\ rule.active /\ ~new.active
    <3>1. told'.event = "none" /\ told'.at = told.at
      BY <1>0, <2>1, <2>3
    <3>2. ToldIt => ToldIt'
      BY <1>0, <1>1, <2>1, <2>3, <3>1 DEF ToldIt
    <3> QED
      BY <1>1, <2>1, <3>1, <3>2 DEF AdministratorEdits
  <2>4. CASE ~(rule.exists /\ ~new.exists) /\ ~(rule.active /\ ~new.active)
    <3>1. told' = told /\ new.last \in Nat
      BY <1>1, <2>1, <2>4 DEF Rule
    <3>2. ToldIt => ToldIt'
      BY <1>0, <1>1, <2>1, <2>4, <3>1 DEF ToldIt, Silent
    <3> QED
      BY <1>1, <2>1, <3>1, <3>2 DEF AdministratorEdits
  <2> QED
    BY <2>2, <2>3, <2>4
<1>2. ASSUME NEW condition \in Conditions, NEW enabled \in BOOLEAN, CreateRule(condition, enabled)
      PROVE  AdministratorEdits
  <2> DEFINE base == Absent(condition)
             new  == Created(condition, enabled)
  <2>1. /\ base \in Rule /\ base.condition = condition /\ ~base.active
        /\ base.matches = 0 /\ base.recoveries = 0
    BY Parameters DEF Absent, Rule, Condition
  <2>2. new = [base EXCEPT !.exists = TRUE, !.enabled = enabled] /\ Edits(new) /\ ~rule.exists
    BY <1>2 DEF Created, CreateRule
  <2> HIDE DEF base, new
  <2>3. new \in Rule /\ new.condition = condition /\ ~new.active /\ new.matches = 0
        /\ new.recoveries = 0
    BY <2>1, <2>2 DEF Rule
  <2> QED
    BY <1>1, <2>2, <2>3, Parameters
<1>3. ASSUME NEW condition \in Conditions, NEW enabled \in BOOLEAN, UpdateRule(condition, enabled)
      PROVE  AdministratorEdits
  <2> DEFINE new == Edited(rule, condition, enabled)
  <2>1. /\ new = [rule EXCEPT !.condition = condition, !.enabled = enabled,
                              !.active = rule.active /\ enabled, !.matches = 0, !.recoveries = 0]
        /\ Edits(new) /\ rule.exists
    BY <1>0, <1>3 DEF Edited, UpdateRule, Rule
  <2> HIDE DEF new
  <2>2. /\ new \in Rule /\ new.condition = condition /\ new.active = (rule.active /\ enabled)
        /\ new.matches = 0 /\ new.recoveries = 0 /\ new.last = rule.last /\ new.exists = rule.exists
    BY <1>0, <2>1, Parameters DEF Rule
  <2>3. new.active => rule.active
    BY <2>2
  <2> QED
    BY <1>1, <2>1, <2>2, <2>3, Parameters
<1>4. CASE RemoveRule
  <2> DEFINE new == Absent(rule.condition)
  <2>1. /\ new \in Rule /\ ~new.exists /\ ~new.active /\ new.matches = 0 /\ new.recoveries = 0
        /\ new.condition = rule.condition
    BY <1>0 DEF Absent, Rule
  <2>2. Edits(new)
    BY <1>4 DEF RemoveRule
  <2> HIDE DEF new
  <2> QED
    BY <1>1, <2>1, <2>2
<1>5. ASSUME NEW r \in Request, EvaluateAlerts(r)
      PROVE  UNCHANGED <<rule, values, told>> \/ \E value, at : ValueArrives(value, at)
  <2> DEFINE p == requests[r].newest
             value == snapshots[p].value
             at == stored[p]
  <2>1. p \in 1 .. Len(snapshots) /\ p \in Position
    BY <1>0, <1>5, Forms, InStore DEF EvaluateAlerts, Typed, BatchesExist
  <2>2. value \in Int \cup {None} /\ at \in Nat
    BY <1>0, <2>1, InStore DEF Snapshot, RequestTypes
  <2>3. /\ rule' = Evaluated(rule, value, at) /\ told' = Notified(rule, rule')
        /\ values' = IF Evaluates(rule, value, at) THEN Append(values, value) ELSE values
    BY <1>5 DEF EvaluateAlerts
  <2> HIDE DEF p, value, at
  <2>4. CASE Evaluates(rule, value, at)
    <3>1. value \in Int
      BY <2>2, <2>4 DEF Evaluates
    <3> QED
      BY <2>2, <2>3, <2>4, <3>1 DEF ValueArrives
  <2>5. CASE ~Evaluates(rule, value, at)
    BY <2>3, <2>5 DEF Evaluated, Notified
  <2> QED
    BY <2>4, <2>5
<1> QED
  BY <1>2, <1>3, <1>4, <1>5, RuleWriters

\* A value that arrives: the counters count it, and a notification that follows is
\* confirmed by the values and later than the one before.
LEMMA ValueCounted ==
    ASSUME Typed, AlertInv, NEW value, NEW at, ValueArrives(value, at)
    PROVE  /\ AlertInv'
           /\ told' # told => told'.event # told.event /\ told'.at > told.at /\ told'.event # "none"
           /\ told'.event = "recovered" /\ told' # told => told.event = "triggered"
           /\ told'.event = "triggered" /\ told' # told => AllMatch'
           /\ told'.event = "recovered" /\ told' # told => AllRecovered'
<1> DEFINE required == rule.condition.required
           matches == Counted(rule, value)
           back == CountedBack(rule, value)
           n == Len(values)
<1>0. /\ rule \in Rule /\ RuleFits(rule) /\ values \in Seq(Int) /\ n \in Nat /\ value \in Int /\ at \in Nat
      /\ told \in [event: {"none", "triggered", "recovered"}, at: Nat]
      /\ rule.matches \in Nat /\ rule.recoveries \in Nat /\ rule.last \in Nat
      /\ rule.matches < required /\ rule.recoveries < required
  BY TypeParts DEF Typed, RuleTypes, RuleFits, Rule, ValueArrives
<1>1. /\ rule'.exists = rule.exists /\ rule'.condition = rule.condition /\ rule'.last = at
      /\ required \in Nat \ {0} /\ back \in Nat /\ matches \in Nat
      /\ rule.active /\ back < required =>
            rule'.active /\ rule'.matches = 0 /\ rule'.recoveries = back
      /\ rule.active /\ ~(back < required) =>
            ~rule'.active /\ rule'.matches = 0 /\ rule'.recoveries = 0
      /\ ~rule.active /\ matches >= required =>
            rule'.active /\ rule'.matches = 0 /\ rule'.recoveries = 0
      /\ ~rule.active /\ ~(matches >= required) =>
            ~rule'.active /\ rule'.matches = matches /\ rule'.recoveries = 0
      /\ rule.active \in BOOLEAN /\ rule'.active \in BOOLEAN
  <2>1. rule' = Evaluated(rule, value, at) /\ Evaluates(rule, value, at)
    BY DEF ValueArrives
  <2> QED
    BY <1>0, <2>1, EvaluatedRule DEF Rule
<1>2. /\ Len(values') = n + 1 /\ values'[n + 1] = value /\ values' \in Seq(Int)
      /\ \A i \in 1 .. n : values'[i] = values[i]
      /\ rule.exists /\ at > rule.last
  BY <1>0 DEF ValueArrives, Evaluates
<1>3. /\ Matches(rule.condition, value) => matches = rule.matches + 1
      /\ ~Matches(rule.condition, value) => matches = 0
      /\ Recovered(rule.condition, value) => back = rule.recoveries + 1
      /\ ~Recovered(rule.condition, value) => back = 0
  BY DEF Counted, CountedBack
<1>4. Settles(rule.condition) => ~(Matches(rule.condition, value) /\ Recovered(rule.condition, value))
  BY <1>0, EitherOr DEF AlertInv
<1>5. Valid(rule'.condition) /\ (Settles(rule'.condition) <=> Settles(rule.condition))
  BY <1>1 DEF AlertInv
<1>6. told' = Notified(rule, rule')
  BY DEF ValueArrives
<1>7. told.at < at
  BY <1>0, <1>2 DEF AlertInv, ToldIt
<1>8. ASSUME NEW m \in Nat, MatchedLast(m), Matches(rule.condition, value), NEW i \in 1 .. (n + 1), i > n - m
      PROVE  Matches(rule'.condition, values'[i])
  <2>1. CASE i = n + 1
    BY <1>1, <1>2, <1>8, <2>1
  <2>2. CASE i # n + 1
    <3>1. i \in 1 .. n /\ values'[i] = values[i]
      BY <1>0, <1>2, <2>2
    <3> QED
      BY <1>1, <1>8, <3>1 DEF MatchedLast
  <2> QED
    BY <2>1, <2>2
<1>9. ASSUME NEW m \in Nat, RecoveredLast(m), Recovered(rule.condition, value), NEW i \in 1 .. (n + 1), i > n - m
      PROVE  Recovered(rule'.condition, values'[i])
  <2>1. CASE i = n + 1
    BY <1>1, <1>2, <1>9, <2>1
  <2>2. CASE i # n + 1
    <3>1. i \in 1 .. n /\ values'[i] = values[i]
      BY <1>0, <1>2, <2>2
    <3> QED
      BY <1>1, <1>9, <3>1 DEF RecoveredLast
  <2> QED
    BY <2>1, <2>2
<1>10. CASE ~rule.active /\ ~(matches >= required)
  <2>1. told' = told /\ ~rule'.active /\ rule'.matches = matches /\ rule'.recoveries = 0
    BY <1>1, <1>6, <1>10 DEF Notified
  <2>2. CountersCount' /\ CountersComplete'
    <3>1. CASE Matches(rule.condition, value)
      <4>1. matches = rule.matches + 1
        BY <1>3, <3>1
      <4>2. rule.matches <= n /\ MatchedLast(rule.matches)
        BY <1>10 DEF AlertInv, CountersCount
      <4>3. MatchedLast(rule.matches)'
        <5>1. rule'.matches = rule.matches + 1
          BY <2>1, <4>1
        <5>2. \A i \in 1 .. (n + 1) : i > n - rule.matches => Matches(rule'.condition, values'[i])
          BY <1>0, <1>8, <3>1, <4>2
        <5>3. \A i \in 1 .. (n + 1) : i > (n + 1) - (rule.matches + 1) => i > n - rule.matches
          BY <1>0
        <5> QED
          BY <1>2, <5>1, <5>2, <5>3 DEF MatchedLast
      <4>4. CountersCount'
        BY <1>0, <1>2, <2>1, <4>1, <4>2, <4>3 DEF CountersCount
      <4>5. ASSUME Settles(rule.condition), rule.matches + 1 < n + 1
            PROVE  ~Matches(rule.condition, values'[n + 1 - (rule.matches + 1)])
        <5>1. n + 1 - (rule.matches + 1) = n - rule.matches /\ n - rule.matches \in 1 .. n
          <6>1. \A a, b \in Nat : a + 1 < b + 1 => b + 1 - (a + 1) = b - a /\ b - a \in 1 .. b
            OBVIOUS
          <6> HIDE DEF n
          <6> QED
            BY <1>0, <4>5, <6>1
        <5>2. ~Matches(rule.condition, values[n - rule.matches])
          BY <1>0, <1>10, <4>5 DEF AlertInv, CountersComplete
        <5> QED
          BY <1>2, <5>1, <5>2
      <4>6. CountersComplete'
        BY <1>1, <1>2, <1>5, <2>1, <4>1, <4>5 DEF CountersComplete
      <4> QED
        BY <4>4, <4>6
    <3>2. CASE ~Matches(rule.condition, value)
      BY <1>0, <1>1, <1>2, <1>3, <2>1, <3>2 DEF CountersCount, CountersComplete, MatchedLast
    <3> QED
      BY <3>1, <3>2
  <2>3. ToldIt'
    BY <1>0, <1>1, <1>2, <1>7, <1>10, <2>1 DEF AlertInv, ToldIt
  <2> QED
    BY <1>5, <2>1, <2>2, <2>3 DEF AlertInv
<1>11. CASE rule.active /\ back < required
  <2>1. told' = told /\ rule'.active /\ rule'.matches = 0 /\ rule'.recoveries = back
    BY <1>1, <1>6, <1>11 DEF Notified
  <2>2. CountersCount' /\ CountersComplete'
    <3>1. CASE Recovered(rule.condition, value)
      <4>1. back = rule.recoveries + 1
        BY <1>3, <3>1
      <4>2. rule.recoveries <= n /\ RecoveredLast(rule.recoveries)
        BY <1>11 DEF AlertInv, CountersCount
      <4>3. RecoveredLast(rule.recoveries)'
        <5>1. rule'.recoveries = rule.recoveries + 1
          BY <2>1, <4>1
        <5>2. \A i \in 1 .. (n + 1) : i > n - rule.recoveries => Recovered(rule'.condition, values'[i])
          BY <1>0, <1>9, <3>1, <4>2
        <5>3. \A i \in 1 .. (n + 1) : i > (n + 1) - (rule.recoveries + 1) => i > n - rule.recoveries
          BY <1>0
        <5> QED
          BY <1>2, <5>1, <5>2, <5>3 DEF RecoveredLast
      <4>4. CountersCount'
        BY <1>0, <1>2, <2>1, <4>1, <4>2, <4>3 DEF CountersCount
      <4>5. ASSUME Settles(rule.condition), rule.recoveries + 1 < n + 1
            PROVE  ~Recovered(rule.condition, values'[n + 1 - (rule.recoveries + 1)])
        <5>1. n + 1 - (rule.recoveries + 1) = n - rule.recoveries /\ n - rule.recoveries \in 1 .. n
          <6>1. \A a, b \in Nat : a + 1 < b + 1 => b + 1 - (a + 1) = b - a /\ b - a \in 1 .. b
            OBVIOUS
          <6> HIDE DEF n
          <6> QED
            BY <1>0, <4>5, <6>1
        <5>2. ~Recovered(rule.condition, values[n - rule.recoveries])
          BY <1>0, <1>11, <4>5 DEF AlertInv, CountersComplete
        <5> QED
          BY <1>2, <5>1, <5>2
      <4>6. CountersComplete'
        BY <1>1, <1>2, <1>5, <2>1, <4>1, <4>5 DEF CountersComplete
      <4> QED
        BY <4>4, <4>6
    <3>2. CASE ~Recovered(rule.condition, value)
      BY <1>0, <1>1, <1>2, <1>3, <2>1, <3>2 DEF CountersCount, CountersComplete, RecoveredLast
    <3> QED
      BY <3>1, <3>2
  <2>3. ToldIt'
    BY <1>0, <1>1, <1>2, <1>7, <1>11, <2>1 DEF AlertInv, ToldIt
  <2> QED
    BY <1>5, <2>1, <2>2, <2>3 DEF AlertInv
<1>12. CASE ~rule.active /\ matches >= required
  <2>1. /\ rule'.active /\ rule'.matches = 0 /\ rule'.recoveries = 0
        /\ told' = [event |-> "triggered", at |-> at]
    BY <1>1, <1>6, <1>12 DEF Notified
  <2>2. Matches(rule.condition, value) /\ matches = rule.matches + 1 /\ required = rule.matches + 1
    BY <1>0, <1>1, <1>3, <1>12
  <2>3. CountersCount' /\ CountersComplete'
    BY <1>0, <1>1, <1>2, <1>4, <2>1, <2>2 DEF CountersCount, CountersComplete, RecoveredLast
  <2>4. ToldIt' /\ told'.event = "triggered" /\ told'.at = at /\ told.event # "triggered"
    BY <1>0, <1>1, <1>2, <1>12, <2>1 DEF AlertInv, ToldIt
  <2>5. AllMatch'
    <3>1. rule.matches <= n /\ MatchedLast(rule.matches)
      BY <1>12 DEF AlertInv, CountersCount
    <3>2. ASSUME NEW i \in Latest' PROVE Matches(rule'.condition, values'[i])
      <4>1. i \in (Len(values') - rule'.condition.required + 1) .. Len(values')
        BY <3>2 DEF Latest
      <4>2. Len(values') = n + 1 /\ rule'.condition.required = rule.matches + 1
        BY <1>1, <1>2, <2>2
      <4>3. i \in 1 .. (n + 1) /\ i > n - rule.matches
        BY <1>0, <3>1, <4>1, <4>2
      <4> QED
        BY <1>0, <1>8, <2>2, <3>1, <4>3
    <3>3. Len(values') >= rule'.condition.required
      BY <1>0, <1>1, <1>2, <2>2, <3>1
    <3> QED
      BY <3>2, <3>3, Zenon DEF AllMatch
  <2> QED
    BY <1>5, <1>7, <2>3, <2>4, <2>5 DEF AlertInv
<1>13. CASE rule.active /\ ~(back < required)
  <2>1. /\ ~rule'.active /\ rule'.matches = 0 /\ rule'.recoveries = 0
        /\ told' = [event |-> "recovered", at |-> at]
    BY <1>1, <1>6, <1>13 DEF Notified
  <2>2. Recovered(rule.condition, value) /\ back = rule.recoveries + 1 /\ required = rule.recoveries + 1
    BY <1>0, <1>1, <1>3, <1>13
  <2>3. CountersCount' /\ CountersComplete'
    BY <1>0, <1>1, <1>2, <1>4, <2>1, <2>2 DEF CountersCount, CountersComplete, MatchedLast
  <2>4. ToldIt' /\ told'.event = "recovered" /\ told'.at = at /\ told.event = "triggered"
    BY <1>0, <1>1, <1>2, <1>13, <2>1 DEF AlertInv, ToldIt
  <2>5. AllRecovered'
    <3>1. rule.recoveries <= n /\ RecoveredLast(rule.recoveries)
      BY <1>13 DEF AlertInv, CountersCount
    <3>2. ASSUME NEW i \in Latest' PROVE Recovered(rule'.condition, values'[i])
      <4>1. i \in (Len(values') - rule'.condition.required + 1) .. Len(values')
        BY <3>2 DEF Latest
      <4>2. Len(values') = n + 1 /\ rule'.condition.required = rule.recoveries + 1
        BY <1>1, <1>2, <2>2
      <4>3. i \in 1 .. (n + 1) /\ i > n - rule.recoveries
        BY <1>0, <3>1, <4>1, <4>2
      <4> QED
        BY <1>0, <1>9, <2>2, <3>1, <4>3
    <3>3. Len(values') >= rule'.condition.required
      BY <1>0, <1>1, <1>2, <2>2, <3>1
    <3> QED
      BY <3>2, <3>3, Zenon DEF AllRecovered
  <2> QED
    BY <1>5, <1>7, <2>3, <2>4, <2>5 DEF AlertInv
<1> QED
  BY <1>1, <1>10, <1>11, <1>12, <1>13

\* The rule has what it counts, whatever it is made to do.
LEMMA AlertStep ==
    ASSUME Typed, AlertInv, [Next]_vars
    PROVE  /\ AlertInv'
           /\ told'.event # told.event =>
                 /\ told'.event = "triggered" => AllMatch'
                 /\ told'.event = "recovered" => AllRecovered'
           /\ told' # told /\ told'.event # "none"
                 => /\ told'.event # told.event /\ told'.at > told.at
                    /\ told'.event = "recovered" => told.event = "triggered"
<1>0. Valid(rule.condition) /\ rule.matches \in Nat /\ rule.recoveries \in Nat
  BY TypeParts DEF Typed, RuleTypes, RuleFits, Rule, AlertInv
<1>1. CASE UNCHANGED <<rule, values, told>>
  BY <1>1 DEF AlertInv, CountersCount, CountersComplete, MatchedLast, RecoveredLast, ToldIt
<1>2. CASE AdministratorEdits
  <2>1. AlertInv'
    <3>1. Len(values') = 0 /\ rule'.matches = 0 /\ rule'.recoveries = 0
      BY <1>2 DEF AdministratorEdits
    <3>2. CountersCount' /\ CountersComplete'
      BY <3>1 DEF CountersCount, CountersComplete, MatchedLast, RecoveredLast
    <3> QED
      BY <1>2, <3>2 DEF AdministratorEdits, AlertInv
  <2> QED
    BY <1>2, <2>1 DEF AdministratorEdits
<1>3. ASSUME NEW value, NEW at, ValueArrives(value, at)
      PROVE  /\ AlertInv'
             /\ told'.event # told.event =>
                   /\ told'.event = "triggered" => AllMatch'
                   /\ told'.event = "recovered" => AllRecovered'
             /\ told' # told /\ told'.event # "none"
                   => /\ told'.event # told.event /\ told'.at > told.at
                      /\ told'.event = "recovered" => told.event = "triggered"
  BY <1>3, ValueCounted
<1> QED
  BY <1>0, <1>1, <1>2, <1>3, RuleChanges DEF vars, history, server

\* It holds throughout.
LEMMA AlertInvariant == Spec => [](Typed /\ AlertInv)
<1>1. Init => Typed /\ AlertInv
  <2> SUFFICES ASSUME Init PROVE Typed /\ AlertInv
    OBVIOUS
  <2>1. Typed
    BY TypeInit, Forms DEF Typed, Init, BatchesExist
  <2>2. /\ values = <<>> /\ Len(values) = 0 /\ told = Silent
        /\ rule.matches = 0 /\ rule.recoveries = 0 /\ rule.last = 0 /\ ~rule.active
        /\ Valid(rule.condition)
    <3>1. PICK condition \in Conditions : rule = Absent(condition) \/ rule = Created(condition, TRUE)
      BY DEF Init
    <3>2. /\ rule.matches = 0 /\ rule.recoveries = 0 /\ rule.last = 0 /\ ~rule.active
          /\ rule.condition = condition
      <4> DEFINE base == Absent(condition)
      <4>1. /\ base.matches = 0 /\ base.recoveries = 0 /\ base.last = 0 /\ ~base.active
            /\ base.condition = condition /\ base \in Rule
        BY Parameters DEF Absent, Rule, Condition
      <4>2. rule = base \/ rule = [base EXCEPT !.exists = TRUE, !.enabled = TRUE]
        BY <3>1 DEF Created
      <4> HIDE DEF base
      <4> QED
        BY <4>1, <4>2 DEF Rule
    <3> QED
      BY <3>2, Parameters DEF Init
  <2> QED
    BY <2>1, <2>2 DEF AlertInv, CountersCount, CountersComplete, MatchedLast, RecoveredLast, ToldIt,
                      Silent
<1>2. Typed /\ AlertInv /\ [Next]_vars => Typed' /\ AlertInv'
  BY TypeStep, AlertStep
<1> QED
  BY <1>1, <1>2, PTL DEF Spec

\* A rule that tells its values apart is active when the last ones match, as many as it
\* requires, and inactive when they have recovered (evaluate).
THEOREM RuleFollows == Spec => []AlertFollowsValues
<1>1. Typed /\ AlertInv => AlertFollowsValues
  <2> SUFFICES ASSUME Typed, AlertInv, Settles(rule.condition) PROVE AlertFollowsValues
    BY DEF AlertFollowsValues
  <2> DEFINE required == rule.condition.required
             n == Len(values)
  <2>1. /\ rule.matches \in Nat /\ rule.recoveries \in Nat /\ required \in Nat /\ n \in Nat
        /\ rule.matches < required /\ rule.recoveries < required
    BY TypeParts DEF Typed, RuleTypes, RuleFits, Rule, Condition
  <2>2. \A k \in Nat : k < required /\ n >= required
                     => k < n /\ n - k \in (n - required + 1) .. n
    <3> HIDE DEF n, required
    <3> QED
      BY <2>1
  <2>3. AllMatch => rule.active
    <3> SUFFICES ASSUME AllMatch, ~rule.active PROVE FALSE
      OBVIOUS
    <3>1. n - rule.matches \in Latest /\ rule.matches < n
      BY <2>1, <2>2 DEF AllMatch, Latest
    <3>2. Matches(rule.condition, values[n - rule.matches])
      BY <3>1 DEF AllMatch
    <3> QED
      BY <3>1, <3>2 DEF AlertInv, CountersComplete
  <2>4. AllRecovered => ~rule.active
    <3> SUFFICES ASSUME AllRecovered, rule.active PROVE FALSE
      OBVIOUS
    <3>1. n - rule.recoveries \in Latest /\ rule.recoveries < n
      BY <2>1, <2>2 DEF AllRecovered, Latest
    <3>2. Recovered(rule.condition, values[n - rule.recoveries])
      BY <3>1 DEF AllRecovered
    <3> QED
      BY <3>1, <3>2 DEF AlertInv, CountersComplete
  <2> QED
    BY <2>3, <2>4 DEF AlertFollowsValues
<1> QED
  BY <1>1, AlertInvariant, PTL

\* No alert is triggered or recovered by fewer values than its rule requires, though rules
\* are edited in between (evaluate, update).
THEOREM AlertsConfirmed == Spec => AlertsAreConfirmed
<1> DEFINE Confirms ==
      told'.event # told.event =>
         /\ told'.event = "triggered" => AllMatch'
         /\ told'.event = "recovered" => AllRecovered'
<1>1. Typed /\ AlertInv /\ [Next]_vars => [Confirms]_vars
  BY AlertStep
<1> QED
  BY <1>1, AlertInvariant, PTL DEF AlertsAreConfirmed, Spec

\* The notifications a rule enqueues take turns, each of a later observation than the one
\* before, in whatever order batches are evaluated (evaluate).
THEOREM NotificationsTakeTurns == Spec => AlertsInOrder
<1> DEFINE TakesTurn ==
      (told' # told /\ told'.event # "none")
       => told'.event # told.event /\ told'.at > told.at
          /\ (told'.event = "recovered" => told.event = "triggered")
<1>1. Typed /\ AlertInv /\ [Next]_vars => [TakesTurn]_vars
  BY AlertStep
<1>2. Spec => [][TakesTurn]_vars
  BY <1>1, AlertInvariant, PTL DEF Spec
<1> QED
  BY <1>2 DEF AlertsInOrder

=============================================================================
