-------------------------- MODULE HeartbeatsProofs --------------------------
(***************************************************************************)
(* Proofs about Heartbeats, for any monitors, processes, intervals and     *)
(* lags: an alarm is raised only after the deadline of the latest ping,    *)
(* and incidents follow the status of their monitor, but for the races the *)
(* properties name.                                                        *)
(*                                                                         *)
(* The invariant says of every call of update and remove that nobody has   *)
(* raced yet how the row it carries and the incident relate to the rows    *)
(* and incidents of the moment, and of every row how its deadline relates  *)
(* to the one promised.                                                    *)
(***************************************************************************)
EXTENDS Heartbeats, TLAPS

-----------------------------------------------------------------------------
(* Rows.                                                                   *)

\* The assumption on the constants, taken apart.
LEMMA Parameters ==
    /\ Interval \in Int /\ Interval >= 1 /\ Runtime \in Int /\ Runtime >= 1
    /\ Grace \in Int /\ Grace >= 0 /\ MaxLag \in Int /\ MaxLag >= 0
    /\ None \notin Int /\ None \notin Monitor
BY HeartbeatAssumption

\* Changed in its state columns, a row stays one if they fit together.
LEMMA ChangedRow ==
    ASSUME NEW row \in MonitorRow, NEW enabled \in BOOLEAN, NEW status \in Status,
           NEW running \in {None} \cup Elapsed, NEW expected \in {None} \cup Ahead,
           enabled <=> status # "paused",
           enabled <=> expected # None,
           running # None => status = "up"
    PROVE  [row EXCEPT !.enabled = enabled, !.status = status,
                       !.running = running, !.expected = expected] \in MonitorRow
BY DEF MonitorRow, Coherent

\* The bounds of a monitor's times are whole numbers, whatever the constants.
LEMMA Times ==
    /\ Interval \in Ahead
    /\ \A lag \in Lag : Interval - lag \in Ahead /\ lag \in Elapsed
BY Parameters DEF Ahead, Elapsed, Lowest, Longest, Lag

\* A monitor that starts, that is paused and none at all have coherent rows.
LEMMA StartingRows ==
    /\ Absent \in MonitorRow
    /\ \A row \in MonitorRow :
          /\ Restarted(row) \in MonitorRow /\ Paused(row) \in MonitorRow
          /\ Restarted(row).exists = row.exists /\ Paused(row).exists = row.exists
          /\ Restarted(row).enabled /\ ~Paused(row).enabled
          /\ Restarted(row).status = "pending" /\ Paused(row).status = "paused"
          /\ Restarted(row).running = None /\ Restarted(row).expected = Interval
<1>1. Absent \in MonitorRow
  BY DEF MonitorRow, Coherent, Absent, Status
<1>2. Interval # None
  BY Parameters
<1>3. ASSUME NEW row \in MonitorRow
      PROVE  Restarted(row) \in MonitorRow
  BY <1>2, Times, ChangedRow DEF Restarted, Status
<1>4. ASSUME NEW row \in MonitorRow
      PROVE  Paused(row) \in MonitorRow
  BY ChangedRow DEF Paused, Status
<1>5. ASSUME NEW row \in MonitorRow
      PROVE  /\ Restarted(row).exists = row.exists /\ Paused(row).exists = row.exists
             /\ Restarted(row).enabled /\ ~Paused(row).enabled
             /\ Restarted(row).status = "pending" /\ Paused(row).status = "paused"
             /\ Restarted(row).running = None /\ Restarted(row).expected = Interval
  BY DEF MonitorRow, Restarted, Paused
<1> QED
  BY <1>1, <1>3, <1>4, <1>5

\* What a ping writes.
LEMMA SignalledRow ==
    ASSUME NEW row \in MonitorRow, row.enabled, NEW kind \in Kind, NEW lag \in Lag
    PROVE  /\ Signalled(row, kind, lag) \in MonitorRow
           /\ Signalled(row, kind, lag).exists = row.exists
           /\ Signalled(row, kind, lag).enabled
           /\ Signalled(row, kind, lag).status = IF kind = "failed" THEN "down" ELSE "up"
           /\ Signalled(row, kind, lag).running = IF kind = "started" THEN lag ELSE None
           /\ Signalled(row, kind, lag).expected = Interval - lag
<1> DEFINE status   == IF kind = "failed" THEN "down" ELSE "up"
           running  == IF kind = "started" THEN lag ELSE None
           expected == Interval - lag
<1>1. status \in Status /\ status # "paused" /\ (running # None => status = "up")
  BY DEF Status
<1>2. running \in {None} \cup Elapsed /\ expected \in {None} \cup Ahead
  BY Times
<1>3. expected # None
  BY Parameters, Times DEF Ahead
<1>4. [row EXCEPT !.enabled = TRUE, !.status = status, !.running = running,
                  !.expected = expected] \in MonitorRow
  <2> HIDE DEF status, running, expected
  <2> QED
    BY <1>1, <1>2, <1>3, ChangedRow
<1>5. Signalled(row, kind, lag) = [row EXCEPT !.enabled = TRUE, !.status = status,
                                              !.running = running, !.expected = expected]
  <2> HIDE DEF status, running, expected
  <2>1. [row EXCEPT !.status = status, !.running = running, !.expected = expected]
        = [row EXCEPT !.enabled = TRUE, !.status = status, !.running = running,
                      !.expected = expected]
    BY DEF MonitorRow
  <2> QED
    BY <2>1 DEF Signalled, status, running, expected
<1>6. LET new == [row EXCEPT !.status = status, !.running = running, !.expected = expected]
      IN  /\ new.exists = row.exists /\ new.enabled = row.enabled
          /\ new.status = status /\ new.running = running /\ new.expected = expected
  <2> HIDE DEF status, running, expected
  <2> QED
    BY DEF MonitorRow
<1> QED
  BY <1>4, <1>5, <1>6 DEF Signalled

\* What a miss writes.
LEMMA MissedRow ==
    ASSUME NEW row \in MonitorRow, row.enabled
    PROVE  LET missed == [row EXCEPT !.status = "down", !.running = None]
           IN  /\ missed \in MonitorRow
               /\ missed.exists = row.exists /\ missed.status = "down"
BY DEF MonitorRow, Coherent, Status

\* A reschedule keeps the row but for the time it is expected.
LEMMA RescheduledRow ==
    ASSUME NEW row \in MonitorRow, row.enabled
    PROVE  LET new == [row EXCEPT !.expected = Interval]
           IN  /\ new \in MonitorRow
               /\ new.enabled /\ new.status = row.status
               /\ new.running = row.running /\ new.expected = Interval
<1>1. Interval \in Ahead /\ Interval # None
  BY Times, Parameters
<1> QED
  BY <1>1 DEF MonitorRow, Coherent

\* What update writes.
LEMMA EditedRow ==
    ASSUME NEW row \in MonitorRow, NEW enabled \in BOOLEAN, NEW moved \in BOOLEAN,
           NEW rescheduled \in BOOLEAN
    PROVE  Edited(row, enabled, moved, rescheduled) \in MonitorRow
BY StartingRows, RescheduledRow DEF Edited

\* Time leaves a row coherent, and the same but for its times.
LEMMA OlderRow ==
    ASSUME NEW row \in MonitorRow
    PROVE  /\ Older(row) \in MonitorRow
           /\ Older(row).exists = row.exists /\ Older(row).enabled = row.enabled
           /\ Older(row).status = row.status
           /\ Older(row).running = None <=> row.running = None
           /\ Older(row).expected = None <=> row.expected = None
<1> DEFINE running  == IF row.running = None THEN None ELSE AtMost(row.running + 1, Longest)
           expected == IF row.expected = None THEN None ELSE AtLeast(row.expected - 1, Lowest)
<1>1. row.running \in {None} \cup Elapsed /\ row.expected \in {None} \cup Ahead
  BY DEF MonitorRow
<1>2. /\ running \in {None} \cup Elapsed /\ (running = None <=> row.running = None)
      /\ expected \in {None} \cup Ahead /\ (expected = None <=> row.expected = None)
  BY <1>1, Parameters DEF AtLeast, AtMost, Ahead, Elapsed, Lowest, Longest
<1>3. Older(row) = [row EXCEPT !.running = running, !.expected = expected]
  BY DEF Older
<1> HIDE DEF running, expected
<1>4. LET new == [row EXCEPT !.running = running, !.expected = expected]
      IN  /\ new \in MonitorRow
          /\ new.exists = row.exists /\ new.enabled = row.enabled /\ new.status = row.status
          /\ new.running = running /\ new.expected = expected
  BY <1>2 DEF MonitorRow, Coherent
<1> QED
  BY <1>2, <1>3, <1>4

\* The deadline of an enabled row is a number that does not lie further back than any
\* promise is kept, and comes nearer by at most a tick at a time.
LEMMA DeadlineOfRow ==
    ASSUME NEW row \in MonitorRow, row.enabled
    PROVE  /\ HasDeadline(row)
           /\ Deadline(row) \in Int
           /\ Lowest <= Deadline(row)
           /\ Deadline(row) - 1 <= Deadline(Older(row))
           /\ Lowest <= Deadline(Older(row))
<1>1. /\ row.running \in {None} \cup Elapsed /\ row.expected \in Ahead
      /\ Older(row).running = IF row.running = None THEN None ELSE AtMost(row.running + 1, Longest)
      /\ Older(row).expected = AtLeast(row.expected - 1, Lowest)
  BY Parameters DEF MonitorRow, Coherent, Older, Ahead
<1> QED
  BY <1>1, Parameters
     DEF Deadline, HasDeadline, AtLeast, AtMost, Ahead, Elapsed, Lowest, Longest

-----------------------------------------------------------------------------
(* Types.                                                                  *)

\* A call of update or remove that has read its row, told from none by its step.
LEMMA CallOfEditor ==
    ASSUME TypeOK, NEW e \in Editor
    PROVE  /\ editors[e] # Idle => editors[e] \in Edit
           /\ editors[e] # Idle <=> editors[e].pc \in {"resolving", "resolved", "writing"}
BY DEF TypeOK, Edit, Idle

\* Changed marks the calls on m as raced and nothing else.
LEMMA ChangedCalls ==
    ASSUME TypeOK, NEW m \in Monitor
    PROVE  /\ Changed(m) \in [Editor -> {Idle} \cup Edit]
           /\ \A e \in Editor :
                 /\ Changed(m)[e] = Idle <=> editors[e] = Idle
                 /\ editors[e] # Idle =>
                       /\ Changed(m)[e] \in Edit
                       /\ Changed(m)[e].pc = editors[e].pc
                       /\ Changed(m)[e].monitor = editors[e].monitor
                       /\ Changed(m)[e].row = editors[e].row
                       /\ Changed(m)[e].raced <=> editors[e].raced \/ editors[e].monitor = m
<1>1. ASSUME NEW e \in Editor, editors[e] # Idle, editors[e].monitor = m
      PROVE  LET new == [editors[e] EXCEPT !.raced = TRUE]
             IN  /\ new \in Edit /\ new # Idle
                 /\ new.pc = editors[e].pc /\ new.monitor = editors[e].monitor
                 /\ new.row = editors[e].row /\ new.raced
  <2>1. editors[e] \in Edit
    BY <1>1, CallOfEditor
  <2> QED
    BY <2>1 DEF Edit, Idle
<1>2. \A e \in Editor : Changed(m)[e] = IF editors[e] # Idle /\ editors[e].monitor = m
                                        THEN [editors[e] EXCEPT !.raced = TRUE]
                                        ELSE editors[e]
  BY DEF Changed
<1>3. ASSUME NEW e \in Editor
      PROVE  /\ Changed(m)[e] \in {Idle} \cup Edit
             /\ Changed(m)[e] = Idle <=> editors[e] = Idle
             /\ editors[e] # Idle =>
                       /\ Changed(m)[e] \in Edit
                       /\ Changed(m)[e].pc = editors[e].pc
                       /\ Changed(m)[e].monitor = editors[e].monitor
                       /\ Changed(m)[e].row = editors[e].row
                       /\ Changed(m)[e].raced <=> editors[e].raced \/ editors[e].monitor = m
  <2>1. CASE editors[e] # Idle /\ editors[e].monitor = m
    BY <2>1, <1>1, <1>2
  <2>2. CASE ~(editors[e] # Idle /\ editors[e].monitor = m)
    <3>1. Changed(m)[e] = editors[e]
      BY <2>2, <1>2
    <3> QED
      BY <3>1, <2>2, CallOfEditor
  <2> QED
    BY <2>1, <2>2
<1>4. Changed(m) \in [Editor -> {Idle} \cup Edit]
  BY <1>3 DEF Changed
<1> QED
  BY <1>3, <1>4

\* Overtake marks pings as late and nothing else.
LEMMA OvertakenPings ==
    ASSUME TypeOK, NEW m \in Monitor, NEW ago
    PROVE  Overtake(m, ago) \in [Signal -> {None} \cup Ping]
<1>1. ASSUME NEW s \in Signal, signals[s] # None
      PROVE  [signals[s] EXCEPT !.late = TRUE] \in Ping
  BY <1>1 DEF TypeOK, Ping
<1> QED
  BY <1>1 DEF TypeOK, Overtake

\* Promise moves the promise of m only, and not once it is void.
LEMMA PromiseMade ==
    ASSUME TypeOK, NEW m \in Monitor, NEW left \in Int, Promise(m, left)
    PROVE  /\ promised' \in [Monitor -> Int]
           /\ promised'[m] = IF m \in raced THEN promised[m] ELSE left
           /\ \A n \in Monitor : n # m => promised'[n] = promised[n]
BY DEF TypeOK, Promise

\* The types hold when no monitor has been created.
LEMMA TypeInit == Init => TypeOK
<1> SUFFICES ASSUME Init PROVE TypeOK
  OBVIOUS
<1>1. monitors \in [Monitor -> MonitorRow]
  BY StartingRows DEF Init
<1> QED
  BY <1>1 DEF Init, TypeOK

\* The row a locked transaction leaves has the type of rows.
LEMMA CommittedTypes ==
    ASSUME TypeOK, NEW m \in Monitor, NEW row \in MonitorRow, Committed(m, row)
    PROVE  /\ monitors' \in [Monitor -> MonitorRow]
           /\ monitors'[m] = row
           /\ \A n \in Monitor : n # m => monitors'[n] = monitors[n]
           /\ settled' \subseteq Monitor
           /\ \A n \in settled : n \in settled' \/ (n = m /\ ~(row.exists /\ row.status = "down"))
BY DEF TypeOK, Committed

\* Every step of the senders, the passes and the operators keeps the types.
LEMMA TypeStep == TypeOK /\ [Next]_vars => TypeOK'
<1> SUFFICES ASSUME TypeOK, [Next]_vars PROVE TypeOK'
  OBVIOUS
<1>1. ASSUME NEW m \in Monitor, NEW enabled \in BOOLEAN, Create(m, enabled)
      PROVE  TypeOK'
  <2> DEFINE row == [Absent EXCEPT !.exists = TRUE]
             new == IF enabled THEN Restarted(row) ELSE Paused(row)
  <2>1. row \in MonitorRow
    BY DEF Absent, MonitorRow, Coherent, Status
  <2>2. new \in MonitorRow
    BY <2>1, StartingRows
  <2>3. Committed(m, new)
    BY <1>1 DEF Create
  <2>4. Interval + Grace \in Int
    BY Parameters
  <2> HIDE DEF new
  <2>5. /\ monitors' \in [Monitor -> MonitorRow] /\ settled' \subseteq Monitor
    BY <2>2, <2>3, CommittedTypes
  <2> QED
    BY <1>1, <2>4, <2>5 DEF Create, TypeOK, calls
<1>2. ASSUME NEW m \in Monitor, NEW enabled \in BOOLEAN, SetReporting(m, enabled)
      PROVE  TypeOK'
  <2> DEFINE new == IF enabled THEN Restarted(monitors[m]) ELSE Paused(monitors[m])
  <2>1. new \in MonitorRow
    BY StartingRows DEF TypeOK
  <2>2. Committed(m, new)
    BY <1>2 DEF SetReporting
  <2> HIDE DEF new
  <2>3. monitors' \in [Monitor -> MonitorRow] /\ settled' \subseteq Monitor
    BY <2>1, <2>2, CommittedTypes
  <2>4. editors' \in [Editor -> {Idle} \cup Edit]
    BY <1>2, ChangedCalls DEF SetReporting
  <2>5. signals' \in [Signal -> {None} \cup Ping]
    BY <1>2, OvertakenPings DEF SetReporting, TypeOK
  <2>6. promised' \in [Monitor -> Int]
    <3>1. Interval + Grace \in Int
      BY Parameters
    <3> QED
      BY <1>2, <3>1, PromiseMade DEF SetReporting, TypeOK
  <2>7. open' \subseteq Monitor
    BY <1>2 DEF SetReporting, ResolveIncident, TypeOK
  <2> QED
    BY <1>2, <2>3, <2>4, <2>5, <2>6, <2>7 DEF SetReporting, TypeOK
<1>3. ASSUME NEW s \in Signal, NEW m \in Monitor, NEW kind \in Kind, Receive(s, m, kind)
      PROVE  TypeOK'
  <2>1. [monitor |-> m, kind |-> kind, lag |-> 0, late |-> FALSE] \in Ping
    BY Parameters DEF Ping, Lag
  <2> QED
    BY <1>3, <2>1 DEF Receive, TypeOK, history
<1>4. ASSUME NEW s \in Signal, CommitSignal(s)
      PROVE  TypeOK'
  <2> DEFINE m == signals[s].monitor
             kind == signals[s].kind
             lag == signals[s].lag
             new == Signalled(monitors[m], kind, lag)
  <2>1. signals[s] \in Ping
    BY <1>4 DEF CommitSignal, TypeOK
  <2>2. m \in Monitor /\ kind \in Kind /\ lag \in Lag /\ monitors[m] \in MonitorRow
    BY <2>1 DEF Ping, TypeOK
  <2>3. CASE monitors[m].exists /\ monitors[m].enabled
    <3>1. Committed(m, new)
      BY <1>4, <2>3 DEF CommitSignal
    <3>2. new \in MonitorRow
      BY <2>2, <2>3, SignalledRow
    <3>3. monitors' \in [Monitor -> MonitorRow] /\ settled' \subseteq Monitor
      BY <2>2, <3>1, <3>2, CommittedTypes
    <3>4. signals' \in [Signal -> {None} \cup Ping]
      BY <1>4, <2>2, <2>3, OvertakenPings DEF CommitSignal
    <3>5. editors' \in [Editor -> {Idle} \cup Edit]
      BY <1>4, <2>2, <2>3, ChangedCalls DEF CommitSignal
    <3>6. promised' \in [Monitor -> Int] /\ overtaken' \subseteq Monitor
      <4>1. CASE signals[s].late
        BY <1>4, <2>2, <2>3, <4>1 DEF CommitSignal, TypeOK
      <4>2. CASE ~signals[s].late
        <5>1. Grace - lag + (IF kind = "started" THEN Runtime ELSE Interval) \in Int
          BY <2>2, Parameters DEF Lag
        <5>2. Promise(m, Grace - lag + IF kind = "started" THEN Runtime ELSE Interval)
          BY <1>4, <2>3, <4>2 DEF CommitSignal
        <5>3. overtaken' \subseteq Monitor
          BY <1>4, <2>3, <4>2 DEF CommitSignal, TypeOK
        <5> QED
          BY <2>2, <5>1, <5>2, <5>3, PromiseMade
      <4> QED
        BY <4>1, <4>2
    <3>7. open' \subseteq Monitor
      BY <1>4, <2>2, <2>3 DEF CommitSignal, OpenIncident, ResolveIncident, TypeOK
    <3> QED
      BY <1>4, <3>3, <3>4, <3>5, <3>6, <3>7 DEF CommitSignal, TypeOK
  <2>4. CASE ~(monitors[m].exists /\ monitors[m].enabled)
    BY <1>4, <2>4 DEF CommitSignal, TypeOK
  <2> QED
    BY <2>3, <2>4
<1>5. ASSUME NEW s \in Sweeper, StartSweep(s)
      PROVE  TypeOK'
  <2> DEFINE rows == {m \in Monitor : Due(monitors[m]) /\ Overdue(monitors[m], 0)}
  <2>1. [pc |-> "sweeping", lag |-> 0, rows |-> rows] \in Pass
    BY Parameters DEF Pass, Lag
  <2> HIDE DEF rows
  <2> QED
    BY <1>5, <2>1 DEF StartSweep, TypeOK, history, rows
<1>6. ASSUME NEW s \in Sweeper, NEW m \in Monitor, RecordMiss(s, m)
      PROVE  TypeOK'
  <2> DEFINE new == [monitors[m] EXCEPT !.status = "down", !.running = None]
  <2>1. sweepers' \in [Sweeper -> {Idle} \cup Pass]
    <3>1. sweepers[s] \in Pass
      BY <1>6 DEF RecordMiss, TypeOK
    <3>2. [sweepers[s] EXCEPT !.rows = sweepers[s].rows \ {m}] \in Pass
      BY <3>1 DEF Pass
    <3> QED
      BY <1>6, <3>2 DEF RecordMiss, TypeOK
  <2>2. CASE StillMissing(monitors[m], sweepers[s].lag)
    <3>1. new \in MonitorRow
      BY <2>2, MissedRow DEF StillMissing, TypeOK
    <3>2. Committed(m, new)
      BY <1>6, <2>2 DEF RecordMiss
    <3> HIDE DEF new
    <3>3. monitors' \in [Monitor -> MonitorRow] /\ settled' \subseteq Monitor
      BY <3>1, <3>2, CommittedTypes
    <3>4. editors' \in [Editor -> {Idle} \cup Edit] /\ open' \subseteq Monitor
      BY <1>6, <2>2, ChangedCalls DEF RecordMiss, OpenIncident, TypeOK
    <3> QED
      BY <1>6, <2>1, <3>3, <3>4 DEF RecordMiss, TypeOK
  <2>3. CASE ~StillMissing(monitors[m], sweepers[s].lag)
    BY <1>6, <2>1, <2>3 DEF RecordMiss, TypeOK
  <2> QED
    BY <2>2, <2>3
<1>7. ASSUME NEW e \in Editor, NEW m \in Monitor, Update(e, m) \/ Remove(e, m)
      PROVE  TypeOK'
  <2>1. PICK row, resolves : row \in MonitorRow /\ StartEdit(e, m, row, resolves)
    BY <1>7, EditedRow, StartingRows DEF Update, Remove, TypeOK
  <2>2. [pc |-> IF resolves THEN "resolving" ELSE "writing", monitor |-> m, row |-> row,
         raced |-> FALSE] \in Edit
    BY <2>1 DEF Edit
  <2> QED
    BY <2>1, <2>2 DEF StartEdit, TypeOK, history
<1>8. ASSUME NEW e \in Editor, ResolveForEdit(e)
      PROVE  TypeOK'
  <2>1. editors[e] \in Edit
    BY <1>8, CallOfEditor DEF ResolveForEdit
  <2>2. [editors[e] EXCEPT !.pc = "resolved"] \in Edit
    BY <2>1 DEF Edit
  <2> QED
    BY <1>8, <2>2 DEF ResolveForEdit, ResolveIncident, TypeOK, history
<1>9. ASSUME NEW e \in Editor, WriteEdit(e)
      PROVE  TypeOK'
  <2> DEFINE m == editors[e].monitor
             row == editors[e].row
  <2>1. editors[e] \in Edit
    BY <1>9, CallOfEditor DEF WriteEdit
  <2>2. m \in Monitor /\ row \in MonitorRow
    BY <2>1 DEF Edit
  <2>3. editors' \in [Editor -> {Idle} \cup Edit]
    BY <1>9, <2>2, ChangedCalls DEF WriteEdit
  <2>4. CASE monitors[m].exists
    <3>1. Committed(m, row)
      BY <1>9, <2>4 DEF WriteEdit
    <3>2. monitors' \in [Monitor -> MonitorRow] /\ settled' \subseteq Monitor
      BY <2>2, <3>1, CommittedTypes
    <3>3. open' \subseteq Monitor /\ operators' \in [Operator -> {None} \cup Monitor]
      BY <1>9, <2>4 DEF WriteEdit, TypeOK
    <3>4. signals' \in [Signal -> {None} \cup Ping]
      BY <1>9, <2>2, <2>4, OvertakenPings DEF WriteEdit, TypeOK
    <3>5. promised' \in [Monitor -> Int]
      <4>1. Lowest \in Int
        BY Parameters DEF Lowest
      <4>2. CASE row.status = "pending" /\ ~editors[e].raced
        <5>1. row.expected + Grace \in Int
          BY <2>2, <4>2, Parameters DEF MonitorRow, Coherent, Ahead, Lowest
        <5>2. Promise(m, row.expected + Grace)
          BY <1>9, <2>4, <4>2 DEF WriteEdit
        <5> QED
          BY <2>2, <5>1, <5>2, PromiseMade
      <4>3. CASE ~(row.status = "pending" /\ ~editors[e].raced)
        BY <1>9, <2>4, <4>1, <4>3 DEF WriteEdit, TypeOK
      <4> QED
        BY <4>2, <4>3
    <3>6. raced' \subseteq Monitor
      BY <1>9, <2>2, <2>4 DEF WriteEdit, TypeOK
    <3> QED
      BY <1>9, <2>3, <3>2, <3>3, <3>4, <3>5, <3>6 DEF WriteEdit, TypeOK
  <2>5. CASE ~monitors[m].exists
    BY <1>9, <2>3, <2>5 DEF WriteEdit, TypeOK
  <2> QED
    BY <2>4, <2>5
<1>10. ASSUME NEW o \in Operator, NEW m \in Monitor, ReadIncident(o, m)
       PROVE  TypeOK'
  BY <1>10 DEF ReadIncident, TypeOK, history
<1>11. ASSUME NEW o \in Operator, PostUpdate(o)
       PROVE  TypeOK'
  <2>1. operators[o] \in Monitor
    BY <1>11 DEF PostUpdate, TypeOK
  <2> QED
    BY <1>11, <2>1 DEF PostUpdate, TypeOK
<1>12. CASE Tick
  <2>1. monitors' \in [Monitor -> MonitorRow]
    BY <1>12, OlderRow DEF Tick, TypeOK
  <2>2. ASSUME NEW s \in Signal, signals[s] # None
        PROVE  [signals[s] EXCEPT !.lag = @ + 1] \in Ping
    BY <1>12, <2>2, Parameters DEF Tick, TypeOK, Ping, Lag
  <2>3. ASSUME NEW s \in Sweeper, sweepers[s] # Idle
        PROVE  [sweepers[s] EXCEPT !.lag = @ + 1] \in Pass
    BY <1>12, <2>3, Parameters DEF Tick, TypeOK, Pass, Lag
  <2>4. ASSUME NEW e \in Editor, editors[e] # Idle
        PROVE  [editors[e] EXCEPT !.row = Older(@)] \in Edit
    BY <2>4, OlderRow, CallOfEditor DEF Edit
  <2>5. promised' \in [Monitor -> Int]
    BY <1>12, Parameters DEF Tick, TypeOK, AtLeast, Lowest
  <2>6. signals' \in [Signal -> {None} \cup Ping]
    BY <1>12, <2>2 DEF Tick
  <2>7. sweepers' \in [Sweeper -> {Idle} \cup Pass]
    BY <1>12, <2>3 DEF Tick
  <2>8. editors' \in [Editor -> {Idle} \cup Edit]
    BY <1>12, <2>4 DEF Tick
  <2> QED
    BY <1>12, <2>1, <2>5, <2>6, <2>7, <2>8 DEF Tick, TypeOK
<1>13. CASE Fail
  <2>1. \A e \in Editor : editors[e] # Idle => editors[e].monitor \in Monitor
    BY CallOfEditor DEF Edit
  <2> QED
    BY <1>13, <2>1 DEF Fail, TypeOK
<1>14. CASE UNCHANGED vars
  BY <1>14 DEF vars, calls, history, TypeOK
<1> QED
  BY <1>1, <1>2, <1>3, <1>4, <1>5, <1>6, <1>7, <1>8, <1>9, <1>10, <1>11, <1>12, <1>13, <1>14
     DEF Next, RecordMisses

\* Rows, calls and incidents keep their types (heartbeats.service.ts).
THEOREM TypeCorrect == Spec => []TypeOK
BY TypeInit, TypeStep, PTL DEF Spec

-----------------------------------------------------------------------------
(* Incidents and the status of their monitor.                              *)

\* Incidents, and the calls of addUpdate that read one, are of monitors there are.
Existing ==
    /\ \A m \in open : monitors[m].exists
    /\ \A o \in Operator : operators[o] # None => monitors[operators[o]].exists

\* A call of update or remove writes "down" only if it resolves no incident, and,
\* while nobody has raced it, agrees with the row and the incident there are.
EditsFit ==
    \A e \in Editor : editors[e] # Idle =>
       LET edit == editors[e]  m == edit.monitor IN
       /\ edit.pc # "writing" => edit.row.status # "down"
       /\ ~edit.raced /\ edit.pc = "resolved" => m \notin open \/ m \in reopened
       /\ ~edit.raced /\ edit.pc = "writing" =>
             (edit.row.status = "down" <=> monitors[m].status = "down")

IncidentInv == Existing /\ EditsFit /\ OpenIncidentMeansDown /\ DownHasIncident

\* The incidents' invariant holds when no monitor has been created.
LEMMA IncidentInit == Init => IncidentInv
<1> SUFFICES ASSUME Init PROVE IncidentInv
  OBVIOUS
<1> QED
  BY DEF Init, Absent, IncidentInv, Existing, EditsFit, OpenIncidentMeansDown, DownHasIncident

\* A transaction that holds the lock of the row, tells the edits that have read it,
\* and leaves an incident open if and only if it leaves the monitor down.
LEMMA LockedIncident ==
    ASSUME TypeOK, IncidentInv, NEW m \in Monitor, NEW row \in MonitorRow,
           monitors[m].exists, row.exists, Committed(m, row), editors' = Changed(m),
           UNCHANGED <<operators, raced, reopened>>,
           \/ OpenIncident(m) /\ row.status = "down"
           \/ ResolveIncident(m) /\ row.status # "down"
           \/ UNCHANGED open /\ row.status # "down" /\ monitors[m].status # "down"
    PROVE  IncidentInv'
<1>1. /\ monitors'[m] = row
      /\ \A n \in Monitor : n # m => monitors'[n] = monitors[n] /\ (n \in open' <=> n \in open)
      /\ \A n \in settled : n # m => n \in settled'
      /\ open' \subseteq Monitor
  BY CommittedTypes DEF OpenIncident, ResolveIncident, TypeOK
<1>2. \A e \in Editor :
         /\ editors'[e] = Idle <=> editors[e] = Idle
         /\ editors[e] # Idle => /\ editors'[e].pc = editors[e].pc
                                 /\ editors'[e].monitor = editors[e].monitor
                                 /\ editors'[e].row = editors[e].row
                                 /\ editors'[e].raced <=> editors[e].raced \/ editors[e].monitor = m
  BY ChangedCalls
<1>3. \A e \in Editor : editors[e] # Idle => editors[e].monitor \in Monitor
  BY CallOfEditor DEF Edit
<1>4. Existing'
  <2>1. \A n \in open' : n # m => n \in open
    BY <1>1
  <2>2. \A n \in Monitor : monitors[n].exists => monitors'[n].exists
    BY <1>1
  <2>3. \A n \in open' : n = m \/ monitors[n].exists
    BY <2>1 DEF IncidentInv, Existing
  <2>4. \A n \in open' : monitors'[n].exists
    BY <1>1, <2>2, <2>3
  <2> QED
    BY <2>2, <2>4 DEF IncidentInv, Existing, TypeOK
<1>5. EditsFit'
  <2> SUFFICES ASSUME NEW e \in Editor, editors'[e] # Idle
               PROVE  LET edit == editors'[e]  n == edit.monitor IN
                      /\ edit.pc # "writing" => edit.row.status # "down"
                      /\ ~edit.raced /\ edit.pc = "resolved" => n \notin open' \/ n \in reopened'
                      /\ ~edit.raced /\ edit.pc = "writing" =>
                            (edit.row.status = "down" <=> monitors'[n].status = "down")
    BY DEF EditsFit
  <2> QED
    BY <1>1, <1>2, <1>3 DEF IncidentInv, EditsFit
<1>6. OpenIncidentMeansDown'
  BY <1>1 DEF OpenIncident, ResolveIncident, IncidentInv, OpenIncidentMeansDown
<1>7. DownHasIncident'
  <2> SUFFICES ASSUME NEW n \in Monitor, monitors'[n].exists, monitors'[n].status = "down"
               PROVE  \/ n \in open' \cup settled' \cup raced'
                      \/ \E e \in Editor : editors'[e] # Idle /\ editors'[e].pc = "resolved"
                                                              /\ editors'[e].monitor = n
    BY DEF DownHasIncident
  <2>1. CASE n = m
    BY <1>1, <2>1 DEF OpenIncident
  <2>2. CASE n # m
    <3>1. monitors[n].exists /\ monitors[n].status = "down"
      BY <1>1, <2>2
    <3>2. \/ n \in open \cup settled \cup raced
          \/ \E e \in Editor : editors[e] # Idle /\ editors[e].pc = "resolved"
                                                 /\ editors[e].monitor = n
      BY <3>1 DEF IncidentInv, DownHasIncident
    <3> QED
      BY <1>1, <1>2, <2>2, <3>2
  <2> QED
    BY <2>1, <2>2
<1> QED
  BY <1>4, <1>5, <1>6, <1>7 DEF IncidentInv

\* What a call of update or remove reads is what the invariant says of one that
\* nobody has raced.
LEMMA ReadEdit ==
    ASSUME TypeOK, NEW e \in Editor, NEW m \in Monitor, Update(e, m) \/ Remove(e, m)
    PROVE  \E row \in MonitorRow, resolves \in BOOLEAN :
              /\ StartEdit(e, m, row, resolves)
              /\ resolves => row.status # "down"
              /\ ~resolves => (row.status = "down" <=> monitors[m].status = "down")
<1>1. monitors[m] \in MonitorRow
  BY DEF TypeOK
<1>2. CASE Update(e, m)
  <2>1. PICK enabled \in BOOLEAN, moved \in BOOLEAN, rescheduled \in BOOLEAN :
           StartEdit(e, m, Edited(monitors[m], enabled, moved, rescheduled),
                     Resolves(monitors[m], enabled, moved))
    BY <1>2 DEF Update
  <2> DEFINE row == Edited(monitors[m], enabled, moved, rescheduled)
             resolves == Resolves(monitors[m], enabled, moved)
  <2>2. row \in MonitorRow /\ resolves \in BOOLEAN
    BY <1>1, EditedRow DEF Resolves
  <2>3. /\ resolves => row.status # "down"
        /\ ~resolves => (row.status = "down" <=> monitors[m].status = "down")
    <3>1. CASE ~enabled \/ moved
      BY <1>1, <3>1, StartingRows DEF Edited, Resolves
    <3>2. CASE enabled /\ ~moved /\ ~monitors[m].enabled
      <4>1. monitors[m].status = "paused"
        BY <1>1, <3>2 DEF MonitorRow, Coherent
      <4> QED
        BY <1>1, <3>2, <4>1, StartingRows DEF Edited, Resolves
    <3>3. CASE enabled /\ ~moved /\ monitors[m].enabled
      BY <1>1, <3>3, RescheduledRow DEF Edited, Resolves
    <3> QED
      BY <3>1, <3>2, <3>3
  <2> HIDE DEF row, resolves
  <2>4. StartEdit(e, m, row, resolves)
    BY <2>1 DEF row, resolves
  <2> QED
    BY <2>2, <2>3, <2>4
<1>3. CASE Remove(e, m)
  <2>1. Absent \in MonitorRow /\ Absent.status # "down"
    BY StartingRows DEF Absent
  <2> QED
    BY <1>3, <2>1 DEF Remove
<1> QED
  BY <1>2, <1>3

\* The call that starts is the only one that changes.
LEMMA StartedEdit ==
    ASSUME TypeOK, NEW e \in Editor, NEW m \in Monitor, NEW row \in MonitorRow,
           NEW resolves \in BOOLEAN, StartEdit(e, m, row, resolves)
    PROVE  /\ editors[e] = Idle /\ monitors[m].exists
           /\ editors'[e] # Idle
           /\ editors'[e].pc = IF resolves THEN "resolving" ELSE "writing"
           /\ editors'[e].monitor = m /\ editors'[e].row = row /\ ~editors'[e].raced
           /\ \A f \in Editor : f # e => editors'[f] = editors[f]
<1> DEFINE new == [pc |-> IF resolves THEN "resolving" ELSE "writing", monitor |-> m,
                   row |-> row, raced |-> FALSE]
<1>1. /\ new.pc = IF resolves THEN "resolving" ELSE "writing"
      /\ new.monitor = m /\ new.row = row /\ ~new.raced
      /\ new # Idle
  BY DEF Idle
<1> HIDE DEF new
<1>2. editors' = [editors EXCEPT ![e] = new]
  BY DEF StartEdit, new
<1> QED
  BY <1>1, <1>2 DEF StartEdit, TypeOK

\* A step that leaves rows, incidents, edits and their history alone.
LEMMA UnchangedIncidents ==
    ASSUME IncidentInv,
           UNCHANGED <<monitors, open, editors, operators, raced, reopened, settled>>
    PROVE  IncidentInv'
BY DEF IncidentInv, Existing, EditsFit, OpenIncidentMeansDown, DownHasIncident

\* Every step keeps the incidents' invariant: commits of signals and misses open and resolve
\* with the status, and an edit knows whether its row has changed since it was read.
LEMMA IncidentStep == TypeOK /\ IncidentInv /\ [Next]_vars => IncidentInv'
<1> SUFFICES ASSUME TypeOK, IncidentInv, [Next]_vars PROVE IncidentInv'
  OBVIOUS
<1>0. \A e \in Editor : editors[e] # Idle => editors[e].monitor \in Monitor
  BY CallOfEditor DEF Edit
<1>1. ASSUME NEW m \in Monitor, NEW enabled \in BOOLEAN, Create(m, enabled)
      PROVE  IncidentInv'
  <2> DEFINE row == [Absent EXCEPT !.exists = TRUE]
             new == IF enabled THEN Restarted(row) ELSE Paused(row)
  <2>1. row \in MonitorRow
    BY DEF Absent, MonitorRow, Coherent, Status
  <2>2. new \in MonitorRow /\ new.status # "down" /\ new.exists
    BY <2>1, StartingRows DEF Absent
  <2>3. Committed(m, new)
    BY <1>1 DEF Create
  <2> HIDE DEF new
  <2>4. /\ monitors'[m] = new
        /\ \A n \in Monitor : n # m => monitors'[n] = monitors[n]
        /\ \A n \in settled : n # m => n \in settled'
    BY <2>2, <2>3, CommittedTypes
  <2>5. m \notin open /\ (\A o \in Operator : operators[o] # m)
    BY <1>1, Parameters DEF Create, IncidentInv, Existing
  <2>6. \A e \in Editor : editors[e] # Idle => editors[e].monitor # m
    BY <1>1 DEF Create, InUse
  <2>7. UNCHANGED <<open, editors, operators>>
    BY <1>1 DEF Create, calls
  <2>8. /\ \A n \in Monitor : n # m => /\ n \in raced => n \in raced'
                                       /\ n \in reopened => n \in reopened'
    BY <1>1 DEF Create
  <2>9. Existing'
    BY <2>4, <2>5, <2>7 DEF IncidentInv, Existing, TypeOK
  <2>10. EditsFit'
    BY <1>0, <2>4, <2>6, <2>7, <2>8 DEF IncidentInv, EditsFit
  <2>11. OpenIncidentMeansDown'
    BY <2>4, <2>5, <2>7, <2>8 DEF IncidentInv, OpenIncidentMeansDown
  <2>12. DownHasIncident'
    BY <2>2, <2>4, <2>7, <2>8 DEF IncidentInv, DownHasIncident
  <2> QED
    BY <2>9, <2>10, <2>11, <2>12 DEF IncidentInv
<1>2. ASSUME NEW m \in Monitor, NEW enabled \in BOOLEAN, SetReporting(m, enabled)
      PROVE  IncidentInv'
  <2> DEFINE new == IF enabled THEN Restarted(monitors[m]) ELSE Paused(monitors[m])
  <2>1. new \in MonitorRow /\ new.status # "down" /\ new.exists
    BY <1>2, StartingRows DEF SetReporting, TypeOK
  <2>2. Committed(m, new) /\ monitors[m].exists /\ editors' = Changed(m)
    BY <1>2 DEF SetReporting
  <2>3. \/ ResolveIncident(m)
        \/ UNCHANGED open /\ monitors[m].status # "down"
    BY <1>2 DEF SetReporting
  <2>4. UNCHANGED <<operators, raced, reopened>>
    BY <1>2 DEF SetReporting
  <2> HIDE DEF new
  <2> QED
    BY <2>1, <2>2, <2>3, <2>4, LockedIncident
<1>3. ASSUME NEW s \in Signal, NEW m \in Monitor, NEW kind \in Kind, Receive(s, m, kind)
      PROVE  IncidentInv'
  BY <1>3, UnchangedIncidents DEF Receive, history
<1>4. ASSUME NEW s \in Signal, CommitSignal(s)
      PROVE  IncidentInv'
  <2> DEFINE m == signals[s].monitor
             kind == signals[s].kind
             lag == signals[s].lag
             new == Signalled(monitors[m], kind, lag)
  <2>1. m \in Monitor /\ kind \in Kind /\ lag \in Lag /\ monitors[m] \in MonitorRow
    BY <1>4 DEF CommitSignal, TypeOK, Ping
  <2>2. CASE monitors[m].exists /\ monitors[m].enabled
    <3>1. /\ new \in MonitorRow /\ new.exists
          /\ new.status = IF kind = "failed" THEN "down" ELSE "up"
      BY <2>1, <2>2, SignalledRow
    <3>2. Committed(m, new) /\ editors' = Changed(m)
      BY <1>4, <2>2 DEF CommitSignal
    <3>3. UNCHANGED <<operators, raced, reopened>>
      BY <1>4 DEF CommitSignal
    <3>4. \/ OpenIncident(m) /\ kind = "failed"
          \/ ResolveIncident(m) /\ kind # "failed"
          \/ UNCHANGED open /\ kind # "failed" /\ monitors[m].status # "down"
      BY <1>4, <2>2 DEF CommitSignal, Recovers
    <3>5. \/ OpenIncident(m) /\ new.status = "down"
          \/ ResolveIncident(m) /\ new.status # "down"
          \/ UNCHANGED open /\ new.status # "down" /\ monitors[m].status # "down"
      BY <3>1, <3>4
    <3> HIDE DEF new
    <3> QED
      BY <2>1, <2>2, <3>1, <3>2, <3>3, <3>5, LockedIncident
  <2>3. CASE ~(monitors[m].exists /\ monitors[m].enabled)
    BY <1>4, <2>3, UnchangedIncidents DEF CommitSignal
  <2> QED
    BY <2>2, <2>3
<1>5. ASSUME NEW s \in Sweeper, StartSweep(s)
      PROVE  IncidentInv'
  BY <1>5, UnchangedIncidents DEF StartSweep, history
<1>6. ASSUME NEW s \in Sweeper, NEW m \in Monitor, RecordMiss(s, m)
      PROVE  IncidentInv'
  <2> DEFINE new == [monitors[m] EXCEPT !.status = "down", !.running = None]
  <2>1. CASE StillMissing(monitors[m], sweepers[s].lag)
    <3>1. new \in MonitorRow /\ new.exists /\ new.status = "down"
      BY <2>1, MissedRow DEF StillMissing, TypeOK
    <3>2. Committed(m, new) /\ editors' = Changed(m) /\ OpenIncident(m)
      BY <1>6, <2>1 DEF RecordMiss
    <3>3. UNCHANGED <<operators, raced, reopened>> /\ monitors[m].exists
      BY <1>6, <2>1 DEF RecordMiss, StillMissing
    <3> HIDE DEF new
    <3> QED
      BY <3>1, <3>2, <3>3, LockedIncident
  <2>2. CASE ~StillMissing(monitors[m], sweepers[s].lag)
    BY <1>6, <2>2, UnchangedIncidents DEF RecordMiss
  <2> QED
    BY <2>1, <2>2
<1>7. ASSUME NEW e \in Editor, NEW m \in Monitor, Update(e, m) \/ Remove(e, m)
      PROVE  IncidentInv'
  <2>1. PICK row \in MonitorRow, resolves \in BOOLEAN :
           /\ StartEdit(e, m, row, resolves)
           /\ resolves => row.status # "down"
           /\ ~resolves => (row.status = "down" <=> monitors[m].status = "down")
    BY <1>7, ReadEdit
  <2>2. /\ editors[e] = Idle
        /\ editors'[e].pc = IF resolves THEN "resolving" ELSE "writing"
        /\ editors'[e].monitor = m /\ editors'[e].row = row
        /\ \A f \in Editor : f # e => editors'[f] = editors[f]
    BY <2>1, StartedEdit
  <2>3. UNCHANGED <<monitors, open, operators, raced, reopened, settled>>
    BY <2>1 DEF StartEdit, history
  <2>4. EditsFit'
    BY <2>1, <2>2, <2>3 DEF IncidentInv, EditsFit
  <2>5. DownHasIncident'
    BY <2>2, <2>3 DEF IncidentInv, DownHasIncident
  <2> QED
    BY <2>3, <2>4, <2>5 DEF IncidentInv, Existing, OpenIncidentMeansDown
<1>8. ASSUME NEW e \in Editor, ResolveForEdit(e)
      PROVE  IncidentInv'
  <2> DEFINE m == editors[e].monitor
  <2>1. editors[e] \in Edit /\ editors[e] # Idle /\ editors[e].pc = "resolving" /\ m \in Monitor
    BY <1>8, <1>0, CallOfEditor DEF ResolveForEdit
  <2>2. /\ editors'[e] # Idle /\ editors'[e].pc = "resolved" /\ editors'[e].monitor = m
        /\ editors'[e].row = editors[e].row
        /\ \A f \in Editor : f # e => editors'[f] = editors[f]
    BY <1>8, <2>1 DEF ResolveForEdit, TypeOK, Edit, Idle
  <2>3. open' = open \ {m} /\ UNCHANGED <<monitors, operators, raced, reopened, settled>>
    BY <1>8 DEF ResolveForEdit, ResolveIncident, history
  <2>4. Existing'
    BY <2>3 DEF IncidentInv, Existing
  <2>5. EditsFit'
    BY <2>1, <2>2, <2>3 DEF IncidentInv, EditsFit
  <2>6. OpenIncidentMeansDown'
    BY <2>3 DEF IncidentInv, OpenIncidentMeansDown
  <2>7. DownHasIncident'
    BY <2>1, <2>2, <2>3 DEF IncidentInv, DownHasIncident
  <2> QED
    BY <2>4, <2>5, <2>6, <2>7 DEF IncidentInv
<1>9. ASSUME NEW e \in Editor, WriteEdit(e)
      PROVE  IncidentInv'
  <2> DEFINE m == editors[e].monitor
             row == editors[e].row
  <2>1. /\ editors[e] \in Edit /\ editors[e] # Idle /\ m \in Monitor /\ row \in MonitorRow
        /\ editors[e].pc \in {"resolved", "writing"}
    BY <1>9, CallOfEditor DEF WriteEdit, Edit
  <2>2. /\ editors'[e] = Idle
        /\ \A f \in Editor : f # e =>
              /\ editors'[f] = Idle <=> editors[f] = Idle
              /\ editors[f] # Idle => /\ editors'[f].pc = editors[f].pc
                                      /\ editors'[f].monitor = editors[f].monitor
                                      /\ editors'[f].row = editors[f].row
                                      /\ editors'[f].raced <=> \/ editors[f].raced
                                                               \/ editors[f].monitor = m
    <3>1. editors' = [Changed(m) EXCEPT ![e] = Idle]
      BY <1>9 DEF WriteEdit
    <3>2. Changed(m) \in [Editor -> {Idle} \cup Edit]
      BY <2>1, ChangedCalls
    <3>3. editors'[e] = Idle /\ \A f \in Editor : f # e => editors'[f] = Changed(m)[f]
      BY <3>1, <3>2
    <3> QED
      BY <2>1, <3>3, ChangedCalls
  <2>3. reopened' = reopened
    BY <1>9 DEF WriteEdit
  <2>4. CASE monitors[m].exists
    <3>1. /\ monitors'[m] = row
          /\ \A n \in Monitor : n # m => monitors'[n] = monitors[n]
          /\ \A n \in settled : n \in settled' \/ (n = m /\ ~(row.exists /\ row.status = "down"))
      BY <1>9, <2>1, <2>4, CommittedTypes DEF WriteEdit
    <3>2. /\ open' = IF row.exists THEN open ELSE open \ {m}
          /\ operators' = IF row.exists THEN operators
                          ELSE [o \in Operator |-> IF operators[o] = m THEN None
                                                   ELSE operators[o]]
          /\ raced' = IF editors[e].raced THEN raced \cup {m} ELSE raced
      BY <1>9, <2>4 DEF WriteEdit
    <3>3. Existing'
      <4>1. \A n \in open' : monitors'[n].exists
        BY <3>1, <3>2 DEF IncidentInv, Existing, TypeOK
      <4>2. \A o \in Operator : operators'[o] # None => monitors'[operators'[o]].exists
        BY <3>1, <3>2 DEF IncidentInv, Existing, TypeOK
      <4> QED
        BY <4>1, <4>2 DEF Existing
    <3>4. EditsFit'
      <4> SUFFICES ASSUME NEW f \in Editor, editors'[f] # Idle
                   PROVE  LET edit == editors'[f]  n == edit.monitor IN
                          /\ edit.pc # "writing" => edit.row.status # "down"
                          /\ ~edit.raced /\ edit.pc = "resolved" => n \notin open' \/ n \in reopened'
                          /\ ~edit.raced /\ edit.pc = "writing" =>
                                (edit.row.status = "down" <=> monitors'[n].status = "down")
        BY DEF EditsFit
      <4>1. f # e /\ editors[f] # Idle /\ editors[f].monitor \in Monitor
        BY <1>0, <2>2
      <4>2. open' \subseteq open
        BY <3>2
      <4> QED
        BY <2>2, <2>3, <3>1, <4>1, <4>2 DEF IncidentInv, EditsFit
    <3>5. OpenIncidentMeansDown'
      <4> SUFFICES ASSUME NEW n \in Monitor, n \in open'
                   PROVE  monitors'[n].status = "down" \/ n \in raced' \cup reopened'
        BY DEF OpenIncidentMeansDown
      <4>1. monitors[n].status = "down" \/ n \in raced \cup reopened
        BY <3>2 DEF IncidentInv, OpenIncidentMeansDown
      <4>2. CASE n # m
        BY <2>3, <3>1, <3>2, <4>1, <4>2
      <4>3. CASE n = m /\ editors[e].raced
        BY <3>2, <4>3
      <4>4. CASE n = m /\ ~editors[e].raced /\ editors[e].pc = "resolved"
        BY <2>1, <2>3, <3>2, <4>4 DEF IncidentInv, EditsFit
      <4>5. CASE n = m /\ ~editors[e].raced /\ editors[e].pc = "writing"
        BY <2>1, <2>3, <3>1, <3>2, <4>1, <4>5 DEF IncidentInv, EditsFit
      <4> QED
        BY <2>1, <4>2, <4>3, <4>4, <4>5
    <3>6. DownHasIncident'
      <4> SUFFICES ASSUME NEW n \in Monitor, monitors'[n].exists, monitors'[n].status = "down"
                   PROVE  \/ n \in open' \cup settled' \cup raced'
                          \/ \E f \in Editor : editors'[f] # Idle /\ editors'[f].pc = "resolved"
                                                                  /\ editors'[f].monitor = n
        BY DEF DownHasIncident
      <4>1. CASE n = m
        <5>1. editors[e].pc = "writing"
          BY <2>1, <3>1, <4>1 DEF IncidentInv, EditsFit
        <5>2. CASE editors[e].raced
          BY <3>2, <4>1, <5>2
        <5>3. CASE ~editors[e].raced
          <6>1. monitors[m].status = "down"
            BY <2>1, <3>1, <4>1, <5>1, <5>3 DEF IncidentInv, EditsFit
          <6>2. \/ m \in open \cup settled \cup raced
                \/ \E f \in Editor : editors[f] # Idle /\ editors[f].pc = "resolved"
                                                       /\ editors[f].monitor = m
            BY <2>1, <2>4, <6>1 DEF IncidentInv, DownHasIncident
          <6>3. row.exists /\ row.status = "down"
            BY <3>1, <4>1
          <6>4. m \in open \cup settled \cup raced => m \in open' \cup settled' \cup raced'
            BY <3>1, <3>2, <6>3
          <6> QED
            BY <2>2, <4>1, <5>1, <6>2, <6>4
        <5> QED
          BY <5>2, <5>3
      <4>2. CASE n # m
        <5>1. \/ n \in open \cup settled \cup raced
              \/ \E f \in Editor : editors[f] # Idle /\ editors[f].pc = "resolved"
                                                     /\ editors[f].monitor = n
          BY <3>1, <4>2 DEF IncidentInv, DownHasIncident
        <5> QED
          BY <2>2, <3>1, <3>2, <4>2, <5>1
      <4> QED
        BY <4>1, <4>2
    <3> QED
      BY <3>3, <3>4, <3>5, <3>6 DEF IncidentInv
  <2>5. CASE ~monitors[m].exists
    <3>1. UNCHANGED <<monitors, open, operators, raced, settled>>
      BY <1>9, <2>5 DEF WriteEdit
    <3>2. EditsFit'
      BY <2>2, <2>3, <3>1 DEF IncidentInv, EditsFit
    <3>3. DownHasIncident'
      BY <2>2, <2>5, <3>1 DEF IncidentInv, DownHasIncident
    <3> QED
      BY <2>3, <3>1, <3>2, <3>3 DEF IncidentInv, Existing, OpenIncidentMeansDown
  <2> QED
    BY <2>4, <2>5
<1>10. ASSUME NEW o \in Operator, NEW m \in Monitor, ReadIncident(o, m)
       PROVE  IncidentInv'
  BY <1>10 DEF ReadIncident, history, TypeOK, IncidentInv, Existing, EditsFit,
               OpenIncidentMeansDown, DownHasIncident
<1>11. ASSUME NEW o \in Operator, PostUpdate(o)
       PROVE  IncidentInv'
  <2> DEFINE m == operators[o]
  <2>1. m \in Monitor /\ monitors[m].exists
    BY <1>11 DEF PostUpdate, TypeOK, IncidentInv, Existing
  <2>2. UNCHANGED <<monitors, editors, raced>>
    BY <1>11 DEF PostUpdate
  <2>3. /\ \A p \in Operator : operators'[p] \in {None, operators[p]}
        /\ \A n \in Monitor : n # m => (n \in open' <=> n \in open)
        /\ reopened \subseteq reopened' /\ settled \subseteq settled'
        /\ m \in open' => m \in open \/ m \in reopened'
        /\ m \in open /\ monitors[m].status = "down" => m \in open' \/ m \in settled'
        /\ open' \subseteq Monitor
    BY <1>11, <2>1 DEF PostUpdate, TypeOK
  <2>4. Existing'
    BY <2>1, <2>2, <2>3 DEF IncidentInv, Existing, TypeOK
  <2>5. EditsFit'
    BY <1>0, <2>2, <2>3 DEF IncidentInv, EditsFit
  <2>6. OpenIncidentMeansDown'
    BY <2>2, <2>3 DEF IncidentInv, OpenIncidentMeansDown
  <2>7. DownHasIncident'
    BY <2>2, <2>3 DEF IncidentInv, DownHasIncident
  <2> QED
    BY <2>4, <2>5, <2>6, <2>7 DEF IncidentInv
<1>12. CASE Tick
  <2>1. \A m \in Monitor : monitors'[m].exists = monitors[m].exists
                           /\ monitors'[m].status = monitors[m].status
    BY <1>12, OlderRow DEF Tick, TypeOK
  <2>2. \A e \in Editor :
           /\ editors'[e] = Idle <=> editors[e] = Idle
           /\ editors[e] # Idle => /\ editors'[e].pc = editors[e].pc
                                   /\ editors'[e].monitor = editors[e].monitor
                                   /\ editors'[e].row.status = editors[e].row.status
                                   /\ editors'[e].raced = editors[e].raced
    <3>1. ASSUME NEW e \in Editor, editors[e] # Idle
          PROVE  LET new == [editors[e] EXCEPT !.row = Older(@)]
                 IN  /\ new # Idle /\ new.pc = editors[e].pc /\ new.monitor = editors[e].monitor
                     /\ new.row.status = editors[e].row.status /\ new.raced = editors[e].raced
      BY <3>1, CallOfEditor, OlderRow DEF Edit, Idle
    <3> QED
      BY <1>12, <3>1 DEF Tick
  <2>3. UNCHANGED <<open, operators, raced, reopened, settled>>
    BY <1>12 DEF Tick
  <2>4. Existing'
    BY <2>1, <2>3 DEF IncidentInv, Existing, TypeOK
  <2>5. EditsFit'
    BY <1>0, <2>1, <2>2, <2>3 DEF IncidentInv, EditsFit
  <2>6. OpenIncidentMeansDown'
    BY <2>1, <2>3 DEF IncidentInv, OpenIncidentMeansDown
  <2>7. DownHasIncident'
    BY <2>1, <2>2, <2>3 DEF IncidentInv, DownHasIncident
  <2> QED
    BY <2>4, <2>5, <2>6, <2>7 DEF IncidentInv
<1>13. CASE Fail
  <2>1. UNCHANGED <<monitors, open, operators, raced, reopened>>
    BY <1>13 DEF Fail
  <2>2. CASE UNCHANGED editors
    <3>1. UNCHANGED settled
      BY <1>13, <2>2 DEF Fail, TypeOK
    <3> QED
      BY <2>1, <2>2, <3>1, UnchangedIncidents
  <2>3. ASSUME NEW e \in Editor, editors[e] # Idle, editors' = [editors EXCEPT ![e] = Idle],
               settled' = IF editors[e].pc = "resolved"
                             /\ monitors[editors[e].monitor].status = "down"
                          THEN settled \cup {editors[e].monitor} ELSE settled
        PROVE  IncidentInv'
    <3>1. editors'[e] = Idle /\ \A f \in Editor : f # e => editors'[f] = editors[f]
      BY <2>3 DEF TypeOK
    <3>2. EditsFit'
      BY <2>1, <3>1 DEF IncidentInv, EditsFit
    <3>3. DownHasIncident'
      BY <2>1, <2>3, <3>1 DEF IncidentInv, DownHasIncident
    <3> QED
      BY <2>1, <3>2, <3>3 DEF IncidentInv, Existing, OpenIncidentMeansDown
  <2> QED
    BY <1>13, <2>2, <2>3 DEF Fail
<1>14. CASE UNCHANGED vars
  BY <1>14, UnchangedIncidents DEF vars, calls, history
<1> QED
  BY <1>1, <1>2, <1>3, <1>4, <1>5, <1>6, <1>7, <1>8, <1>9, <1>10, <1>11, <1>12, <1>13, <1>14
     DEF Next, RecordMisses

\* The incidents' invariant holds of every behaviour.
LEMMA IncidentInvariant == Spec => [](TypeOK /\ IncidentInv)
<1>1. TypeOK /\ IncidentInv /\ [Next]_vars => (TypeOK /\ IncidentInv)'
  BY TypeStep, IncidentStep
<1> QED
  BY TypeInit, IncidentInit, <1>1, PTL DEF Spec

\* A monitor's incident follows its status, whatever pings, passes, edits and operators
\* interleave (heartbeats.service.ts, incidents.service.ts), but for the ways its parts name.
THEOREM IncidentsFollow == Spec => []IncidentsFollowStatus
BY IncidentInvariant, PTL DEF IncidentInv, IncidentsFollowStatus

-----------------------------------------------------------------------------
(* Alarms and the deadline of the latest ping.                             *)

\* An edit that raced voids the promise until the monitor is removed.
PromisesVoid == \A m \in raced : promised[m] = Lowest

\* The row of a monitor that is waited for expects nothing sooner than promised,
\* unless its pings were committed out of order.
PromisesKept ==
    \A m \in Monitor \ overtaken :
       monitors[m].exists /\ monitors[m].status \in {"pending", "up"}
          => promised[m] <= Deadline(monitors[m])

\* Nor does the row that a call of update carries, while nobody has raced it.
EditsKeepPromise ==
    \A e \in Editor : editors[e] # Idle =>
       LET edit == editors[e] IN
       ~edit.raced /\ edit.row.status = "up" /\ edit.monitor \notin overtaken
          => promised[edit.monitor] <= Deadline(edit.row)

PromiseInv == PromisesVoid /\ PromisesKept /\ EditsKeepPromise

\* The promises' invariant holds when no monitor has been created.
LEMMA PromiseInit == Init => PromiseInv
BY DEF Init, Absent, PromiseInv, PromisesVoid, PromisesKept, EditsKeepPromise

\* A transaction that holds the lock, tells the edits, and sets a deadline no sooner
\* than promised.
LEMMA LockedPromise ==
    ASSUME TypeOK, PromiseInv, NEW m \in Monitor, NEW row \in MonitorRow,
           Committed(m, row), editors' = Changed(m), raced' = raced,
           \A n \in Monitor : n # m => /\ promised'[n] = promised[n]
                                       /\ n \in overtaken' <=> n \in overtaken,
           m \in raced => promised'[m] = Lowest,
           m \notin overtaken' /\ row.status \in {"pending", "up"}
              => promised'[m] <= Deadline(row)
    PROVE  PromiseInv'
<1>1. /\ monitors'[m] = row
      /\ \A n \in Monitor : n # m => monitors'[n] = monitors[n]
  BY CommittedTypes
<1>2. PromisesVoid'
  BY DEF PromiseInv, PromisesVoid, TypeOK
<1>3. PromisesKept'
  BY <1>1 DEF PromiseInv, PromisesKept
<1>4. EditsKeepPromise'
  <2> SUFFICES ASSUME NEW e \in Editor, editors'[e] # Idle, ~editors'[e].raced,
                      editors'[e].row.status = "up", editors'[e].monitor \notin overtaken'
               PROVE  promised'[editors'[e].monitor] <= Deadline(editors'[e].row)
    BY DEF EditsKeepPromise
  <2>1. /\ editors[e] # Idle /\ editors'[e].row = editors[e].row
        /\ editors'[e].monitor = editors[e].monitor
        /\ ~editors[e].raced /\ editors[e].monitor # m
    BY ChangedCalls
  <2>2. editors[e].monitor \in Monitor
    BY <2>1, CallOfEditor DEF Edit
  <2> QED
    BY <2>1, <2>2 DEF PromiseInv, EditsKeepPromise
<1> QED
  BY <1>2, <1>3, <1>4 DEF PromiseInv

\* A step that leaves rows, edits and promises alone.
LEMMA UnchangedPromises ==
    ASSUME PromiseInv, UNCHANGED <<monitors, editors, promised, overtaken, raced>>
    PROVE  PromiseInv'
BY DEF PromiseInv, PromisesVoid, PromisesKept, EditsKeepPromise

\* A monitor that starts has the deadline that is promised for it.
LEMMA RestartedDeadline ==
    ASSUME NEW row \in MonitorRow
    PROVE  Deadline(Restarted(row)) = Interval + Grace
BY StartingRows DEF Deadline

\* So has one that a ping reports of.
LEMMA SignalledDeadline ==
    ASSUME NEW row \in MonitorRow, row.enabled, NEW kind \in Kind, NEW lag \in Lag
    PROVE  Deadline(Signalled(row, kind, lag))
              = Grace - lag + IF kind = "started" THEN Runtime ELSE Interval
<1>1. lag \in Int /\ lag # None
  BY Parameters DEF Lag
<1> QED
  BY <1>1, SignalledRow, Parameters DEF Deadline

\* The row update makes of one that is up keeps its deadline, or moves it away.
LEMMA EditedDeadline ==
    ASSUME NEW row \in MonitorRow, NEW enabled \in BOOLEAN, NEW moved \in BOOLEAN,
           NEW rescheduled \in BOOLEAN,
           Edited(row, enabled, moved, rescheduled).status = "up"
    PROVE  /\ row.status = "up" /\ row.enabled
           /\ Deadline(row) <= Deadline(Edited(row, enabled, moved, rescheduled))
<1>1. enabled /\ row.enabled /\ ~moved
  BY StartingRows DEF Edited
<1>2. row.running \in {None} \cup Elapsed /\ row.expected \in Ahead
  BY <1>1 DEF MonitorRow, Coherent
<1>3. Deadline(row) \in Int /\ Interval + Grace \in Int
  BY <1>1, DeadlineOfRow, Parameters
<1>4. CASE rescheduled
  <2>1. Edited(row, enabled, moved, rescheduled) = [row EXCEPT !.expected = Interval]
    BY <1>1, <1>4 DEF Edited
  <2>2. LET new == [row EXCEPT !.expected = Interval]
        IN  new.status = row.status /\ new.running = row.running /\ new.expected = Interval
    BY <1>1, RescheduledRow
  <2> DEFINE new == Edited(row, enabled, moved, rescheduled)
  <2>3. new.status = row.status /\ new.running = row.running /\ new.expected = Interval
    BY <2>1, <2>2
  <2>4. new.status = "up"
    OBVIOUS
  <2> HIDE DEF new
  <2>5. row.expected \in Int /\ row.expected <= Interval
    BY <1>2, Parameters DEF Ahead, Lowest
  <2>6. Deadline(row) <= Deadline(new)
    BY <1>3, <2>3, <2>5, Parameters DEF Deadline
  <2> QED
    BY <1>1, <2>3, <2>4, <2>6 DEF new
<1>5. CASE ~rescheduled
  BY <1>1, <1>3, <1>5 DEF Edited
<1> QED
  BY <1>4, <1>5

\* Every step keeps the promises' invariant: the deadline a pass computes is never earlier
\* than what the sender last promised, apart from the races.
LEMMA PromiseStep == TypeOK /\ PromiseInv /\ [Next]_vars => PromiseInv'
<1> SUFFICES ASSUME TypeOK, PromiseInv, [Next]_vars PROVE PromiseInv'
  OBVIOUS
<1>0. \A e \in Editor : editors[e] # Idle =>
         editors[e].monitor \in Monitor /\ editors[e].row \in MonitorRow
  BY CallOfEditor DEF Edit
<1>1. ASSUME NEW m \in Monitor, NEW enabled \in BOOLEAN, Create(m, enabled)
      PROVE  PromiseInv'
  <2> DEFINE row == [Absent EXCEPT !.exists = TRUE]
             new == IF enabled THEN Restarted(row) ELSE Paused(row)
  <2>1. row \in MonitorRow
    BY DEF Absent, MonitorRow, Coherent, Status
  <2>2. /\ new \in MonitorRow
        /\ new.status \in {"pending", "up"} => Deadline(new) = Interval + Grace
    BY <2>1, StartingRows, RestartedDeadline
  <2>3. Committed(m, new)
    BY <1>1 DEF Create
  <2> HIDE DEF new
  <2>4. /\ monitors'[m] = new
        /\ \A n \in Monitor : n # m => monitors'[n] = monitors[n]
    BY <2>2, <2>3, CommittedTypes
  <2>5. \A e \in Editor : editors[e] # Idle => editors[e].monitor # m
    BY <1>1 DEF Create, InUse
  <2>6. /\ editors' = editors
        /\ promised'[m] = Interval + Grace /\ m \notin raced'
        /\ \A n \in Monitor : n # m => /\ promised'[n] = promised[n]
                                       /\ n \in overtaken' <=> n \in overtaken
                                       /\ n \in raced' <=> n \in raced
        /\ raced' \subseteq Monitor
    BY <1>1 DEF Create, calls, TypeOK
  <2>7. PromisesVoid'
    BY <2>6 DEF PromiseInv, PromisesVoid
  <2>8. PromisesKept'
    <3>1. Interval + Grace \in Int
      BY Parameters
    <3> QED
      BY <2>2, <2>4, <2>6, <3>1 DEF PromiseInv, PromisesKept
  <2>9. EditsKeepPromise'
    BY <1>0, <2>5, <2>6 DEF PromiseInv, EditsKeepPromise
  <2> QED
    BY <2>7, <2>8, <2>9 DEF PromiseInv
<1>2. ASSUME NEW m \in Monitor, NEW enabled \in BOOLEAN, SetReporting(m, enabled)
      PROVE  PromiseInv'
  <2> DEFINE new == IF enabled THEN Restarted(monitors[m]) ELSE Paused(monitors[m])
  <2>1. new \in MonitorRow
    BY StartingRows DEF TypeOK
  <2>2. Committed(m, new) /\ editors' = Changed(m) /\ UNCHANGED <<overtaken, raced>>
    BY <1>2 DEF SetReporting
  <2>3. /\ \A n \in Monitor : n # m => promised'[n] = promised[n]
        /\ m \in raced => promised'[m] = Lowest
        /\ new.status \in {"pending", "up"} => promised'[m] <= Deadline(new)
    <3>1. CASE enabled
      <4>1. Promise(m, Interval + Grace) /\ Interval + Grace \in Int /\ Lowest <= Interval + Grace
        BY <1>2, <3>1, Parameters DEF SetReporting, Lowest
      <4>2. new = Restarted(monitors[m]) /\ Deadline(new) = Interval + Grace
        BY <3>1, RestartedDeadline DEF TypeOK
      <4> HIDE DEF new
      <4>3. /\ promised'[m] = IF m \in raced THEN promised[m] ELSE Interval + Grace
            /\ \A n \in Monitor : n # m => promised'[n] = promised[n]
        BY <4>1, PromiseMade
      <4> QED
        BY <4>1, <4>2, <4>3 DEF PromiseInv, PromisesVoid
    <3>2. CASE ~enabled
      BY <1>2, <3>2, StartingRows DEF SetReporting, TypeOK, PromiseInv, PromisesVoid
    <3> QED
      BY <3>1, <3>2
  <2> HIDE DEF new
  <2> QED
    BY <2>1, <2>2, <2>3, LockedPromise
<1>3. ASSUME NEW s \in Signal, NEW m \in Monitor, NEW kind \in Kind, Receive(s, m, kind)
      PROVE  PromiseInv'
  BY <1>3, UnchangedPromises DEF Receive, history
<1>4. ASSUME NEW s \in Signal, CommitSignal(s)
      PROVE  PromiseInv'
  <2> DEFINE m == signals[s].monitor
             kind == signals[s].kind
             lag == signals[s].lag
             left == Grace - lag + IF kind = "started" THEN Runtime ELSE Interval
             new == Signalled(monitors[m], kind, lag)
  <2>1. m \in Monitor /\ kind \in Kind /\ lag \in Lag /\ monitors[m] \in MonitorRow
    BY <1>4 DEF CommitSignal, TypeOK, Ping
  <2>2. CASE monitors[m].exists /\ monitors[m].enabled
    <3>1. new \in MonitorRow /\ Deadline(new) = left /\ new.enabled
      BY <2>1, <2>2, SignalledRow, SignalledDeadline
    <3>2. Committed(m, new) /\ editors' = Changed(m) /\ raced' = raced
      BY <1>4, <2>2 DEF CommitSignal
    <3>3. left \in Int
      BY <2>1, Parameters DEF Lag
    <3>4. Lowest <= left
      BY <3>1, DeadlineOfRow
    <3>5. CASE signals[s].late
      <4>1. overtaken' = overtaken \cup {m} /\ promised' = promised
        BY <1>4, <2>2, <3>5 DEF CommitSignal
      <4> HIDE DEF new, left
      <4> QED
        BY <2>1, <3>1, <3>2, <4>1, LockedPromise DEF PromiseInv, PromisesVoid
    <3>6. CASE ~signals[s].late
      <4>1. overtaken' = overtaken \ {m} /\ Promise(m, left)
        BY <1>4, <2>2, <3>6 DEF CommitSignal
      <4> HIDE DEF new, left
      <4>2. /\ promised'[m] = IF m \in raced THEN promised[m] ELSE left
            /\ \A n \in Monitor : n # m => promised'[n] = promised[n]
        BY <2>1, <3>3, <4>1, PromiseMade
      <4>3. m \in raced => promised'[m] = Lowest
        BY <4>2 DEF PromiseInv, PromisesVoid
      <4>4. promised'[m] <= Deadline(new)
        BY <3>1, <3>3, <3>4, <4>2, <4>3
      <4>5. \A n \in Monitor : n # m => (n \in overtaken' <=> n \in overtaken)
        BY <4>1
      <4> QED
        BY <2>1, <3>1, <3>2, <4>2, <4>3, <4>4, <4>5, LockedPromise
    <3> QED
      BY <3>5, <3>6
  <2>3. CASE ~(monitors[m].exists /\ monitors[m].enabled)
    BY <1>4, <2>3, UnchangedPromises DEF CommitSignal
  <2> QED
    BY <2>2, <2>3
<1>5. ASSUME NEW s \in Sweeper, StartSweep(s)
      PROVE  PromiseInv'
  BY <1>5, UnchangedPromises DEF StartSweep, history
<1>6. ASSUME NEW s \in Sweeper, NEW m \in Monitor, RecordMiss(s, m)
      PROVE  PromiseInv'
  <2> DEFINE new == [monitors[m] EXCEPT !.status = "down", !.running = None]
  <2>1. CASE StillMissing(monitors[m], sweepers[s].lag)
    <3>1. new \in MonitorRow /\ new.status = "down"
      BY <2>1, MissedRow DEF StillMissing, TypeOK
    <3>2. Committed(m, new) /\ editors' = Changed(m)
      BY <1>6, <2>1 DEF RecordMiss
    <3>3. UNCHANGED <<promised, overtaken, raced>>
      BY <1>6 DEF RecordMiss
    <3> HIDE DEF new
    <3> QED
      BY <3>1, <3>2, <3>3, LockedPromise DEF PromiseInv, PromisesVoid
  <2>2. CASE ~StillMissing(monitors[m], sweepers[s].lag)
    BY <1>6, <2>2, UnchangedPromises DEF RecordMiss
  <2> QED
    BY <2>1, <2>2
<1>7. ASSUME NEW e \in Editor, NEW m \in Monitor, Update(e, m) \/ Remove(e, m)
      PROVE  PromiseInv'
  <2>1. PICK row \in MonitorRow, resolves \in BOOLEAN :
           /\ StartEdit(e, m, row, resolves)
           /\ row.status = "up" => /\ monitors[m].status = "up" /\ monitors[m].enabled
                                   /\ Deadline(monitors[m]) <= Deadline(row)
    <3>1. CASE Update(e, m)
      <4>1. PICK enabled \in BOOLEAN, moved \in BOOLEAN, rescheduled \in BOOLEAN :
               StartEdit(e, m, Edited(monitors[m], enabled, moved, rescheduled),
                         Resolves(monitors[m], enabled, moved))
        BY <3>1 DEF Update
      <4> DEFINE row == Edited(monitors[m], enabled, moved, rescheduled)
                 resolves == Resolves(monitors[m], enabled, moved)
      <4>2. /\ row \in MonitorRow /\ resolves \in BOOLEAN
            /\ row.status = "up" => /\ monitors[m].status = "up" /\ monitors[m].enabled
                                    /\ Deadline(monitors[m]) <= Deadline(row)
        BY EditedRow, EditedDeadline DEF Resolves, TypeOK
      <4>3. StartEdit(e, m, row, resolves)
        BY <4>1
      <4> HIDE DEF row, resolves
      <4> QED
        BY <4>2, <4>3
    <3>2. CASE Remove(e, m)
      <4>1. Absent \in MonitorRow /\ Absent.status # "up"
        BY StartingRows DEF Absent
      <4> QED
        BY <3>2, <4>1 DEF Remove
    <3> QED
      BY <1>7, <3>1, <3>2
  <2>2. /\ monitors[m].exists
        /\ editors'[e].monitor = m /\ editors'[e].row = row
        /\ \A f \in Editor : f # e => editors'[f] = editors[f]
    BY <2>1, StartedEdit
  <2>3. UNCHANGED <<monitors, promised, overtaken, raced>>
    BY <2>1 DEF StartEdit, history
  <2>4. ASSUME row.status = "up", m \notin overtaken
        PROVE  promised[m] <= Deadline(row)
    <3>1. promised[m] <= Deadline(monitors[m]) /\ Deadline(monitors[m]) <= Deadline(row)
      BY <2>1, <2>2, <2>4 DEF PromiseInv, PromisesKept
    <3>2. promised[m] \in Int /\ Deadline(monitors[m]) \in Int /\ Deadline(row) \in Int
      BY <2>1, <2>4, DeadlineOfRow DEF TypeOK, MonitorRow, Coherent
    <3> QED
      BY <3>1, <3>2
  <2>5. EditsKeepPromise'
    BY <2>2, <2>3, <2>4 DEF PromiseInv, EditsKeepPromise
  <2> QED
    BY <2>3, <2>5 DEF PromiseInv, PromisesVoid, PromisesKept
<1>8. ASSUME NEW e \in Editor, ResolveForEdit(e)
      PROVE  PromiseInv'
  <2>1. editors[e] \in Edit /\ editors[e] # Idle
    BY <1>8, CallOfEditor DEF ResolveForEdit
  <2>2. /\ editors'[e].raced = editors[e].raced /\ editors'[e].monitor = editors[e].monitor
        /\ editors'[e].row = editors[e].row
        /\ \A f \in Editor : f # e => editors'[f] = editors[f]
    BY <1>8, <2>1 DEF ResolveForEdit, TypeOK, Edit
  <2>3. UNCHANGED <<monitors, promised, overtaken, raced>>
    BY <1>8 DEF ResolveForEdit, history
  <2>4. EditsKeepPromise'
    BY <2>1, <2>2, <2>3 DEF PromiseInv, EditsKeepPromise
  <2> QED
    BY <2>3, <2>4 DEF PromiseInv, PromisesVoid, PromisesKept
<1>9. ASSUME NEW e \in Editor, WriteEdit(e)
      PROVE  PromiseInv'
  <2> DEFINE m == editors[e].monitor
             row == editors[e].row
  <2>1. editors[e] \in Edit /\ editors[e] # Idle /\ m \in Monitor /\ row \in MonitorRow
    BY <1>9, CallOfEditor DEF WriteEdit, Edit
  <2>2. /\ editors'[e] = Idle
        /\ \A f \in Editor : f # e => editors'[f] = Changed(m)[f]
    <3>1. editors' = [Changed(m) EXCEPT ![e] = Idle]
      BY <1>9 DEF WriteEdit
    <3>2. Changed(m) \in [Editor -> {Idle} \cup Edit]
      BY <2>1, ChangedCalls
    <3> QED
      BY <3>1, <3>2
  <2>3. \A f \in Editor : editors'[f] # Idle =>
           /\ editors[f] # Idle
           /\ editors'[f].monitor = editors[f].monitor
           /\ editors'[f].row = editors[f].row
           /\ editors'[f].raced <=> editors[f].raced \/ editors[f].monitor = m
    BY <2>1, <2>2, ChangedCalls
  <2>4. overtaken' = overtaken
    BY <1>9 DEF WriteEdit
  <2>5. ASSUME \A n \in Monitor : n # m => promised'[n] = promised[n]
        PROVE  EditsKeepPromise'
    <3> SUFFICES ASSUME NEW f \in Editor, editors'[f] # Idle, ~editors'[f].raced,
                        editors'[f].row.status = "up", editors'[f].monitor \notin overtaken'
                 PROVE  promised'[editors'[f].monitor] <= Deadline(editors'[f].row)
      BY DEF EditsKeepPromise
    <3>1. /\ editors[f] # Idle /\ editors'[f].row = editors[f].row
          /\ editors'[f].monitor = editors[f].monitor
          /\ ~editors[f].raced /\ editors[f].monitor # m /\ editors[f].monitor \in Monitor
      BY <1>0, <2>3
    <3> QED
      BY <2>4, <2>5, <3>1 DEF PromiseInv, EditsKeepPromise
  <2>6. CASE monitors[m].exists
    <3>1. /\ monitors'[m] = row
          /\ \A n \in Monitor : n # m => monitors'[n] = monitors[n]
      BY <1>9, <2>1, <2>6, CommittedTypes DEF WriteEdit
    <3>2. raced' = IF editors[e].raced THEN raced \cup {m} ELSE raced
      BY <1>9, <2>6 DEF WriteEdit
    <3>3. /\ \A n \in Monitor : n # m => promised'[n] = promised[n]
          /\ m \in raced' => promised'[m] = Lowest
          /\ row.exists /\ row.status \in {"pending", "up"} /\ m \notin overtaken
                => promised'[m] <= Deadline(row)
      <4>1. row.status \in {"pending", "up"} => Lowest <= Deadline(row) /\ Deadline(row) \in Int
        BY <2>1, DeadlineOfRow DEF MonitorRow, Coherent
      <4>2. CASE editors[e].raced
        <5>1. promised' = [promised EXCEPT ![m] = Lowest]
          BY <1>9, <2>6, <4>2 DEF WriteEdit
        <5> QED
          BY <2>1, <4>1, <5>1 DEF TypeOK
      <4>3. CASE ~editors[e].raced /\ row.status = "pending"
        <5>1. Promise(m, row.expected + Grace)
          BY <1>9, <2>6, <4>3 DEF WriteEdit
        <5>2. row.expected + Grace = Deadline(row) /\ row.expected + Grace \in Int
          BY <2>1, <4>3, Parameters DEF MonitorRow, Coherent, Deadline, Ahead, Lowest
        <5>3. /\ promised'[m] = IF m \in raced THEN promised[m] ELSE row.expected + Grace
              /\ \A n \in Monitor : n # m => promised'[n] = promised[n]
          BY <2>1, <5>1, <5>2, PromiseMade
        <5> QED
          BY <3>2, <4>1, <4>3, <5>2, <5>3 DEF PromiseInv, PromisesVoid
      <4>4. CASE ~editors[e].raced /\ row.status # "pending"
        <5>1. promised' = promised
          BY <1>9, <2>6, <4>4 DEF WriteEdit
        <5> QED
          BY <2>1, <3>2, <4>4, <5>1 DEF PromiseInv, PromisesVoid, EditsKeepPromise
      <4> QED
        BY <4>2, <4>3, <4>4
    <3>4. PromisesVoid'
      BY <2>1, <3>2, <3>3 DEF PromiseInv, PromisesVoid, TypeOK
    <3>5. PromisesKept'
      BY <2>4, <3>1, <3>3 DEF PromiseInv, PromisesKept
    <3> QED
      BY <2>5, <3>3, <3>4, <3>5 DEF PromiseInv
  <2>7. CASE ~monitors[m].exists
    <3>1. UNCHANGED <<monitors, promised, raced>>
      BY <1>9, <2>7 DEF WriteEdit
    <3> QED
      BY <2>4, <2>5, <3>1 DEF PromiseInv, PromisesVoid, PromisesKept
  <2> QED
    BY <2>6, <2>7
<1>10. ASSUME NEW o \in Operator, NEW m \in Monitor, ReadIncident(o, m)
       PROVE  PromiseInv'
  BY <1>10, UnchangedPromises DEF ReadIncident, history
<1>11. ASSUME NEW o \in Operator, PostUpdate(o)
       PROVE  PromiseInv'
  BY <1>11, UnchangedPromises DEF PostUpdate
<1>12. CASE Tick
  <2>1. \A m \in Monitor : /\ monitors'[m] = Older(monitors[m])
                           /\ promised'[m] = AtLeast(promised[m] - 1, Lowest)
    BY <1>12 DEF Tick
  <2>2. UNCHANGED <<overtaken, raced>>
    BY <1>12 DEF Tick
  <2>3. ASSUME NEW m \in Monitor, NEW row \in MonitorRow, row.enabled,
               promised[m] <= Deadline(row)
        PROVE  promised'[m] <= Deadline(Older(row))
    <3>1. /\ Deadline(row) \in Int /\ Deadline(row) - 1 <= Deadline(Older(row))
          /\ Lowest <= Deadline(Older(row))
      BY <2>3, DeadlineOfRow
    <3>2. Older(row) \in MonitorRow /\ Older(row).enabled
      BY <2>3, OlderRow
    <3>3. Deadline(Older(row)) \in Int
      BY <3>2, DeadlineOfRow
    <3>4. promised[m] \in Int /\ Lowest \in Int
      BY Parameters DEF TypeOK, Lowest
    <3> QED
      BY <2>1, <2>3, <3>1, <3>3, <3>4 DEF AtLeast
  <2>4. PromisesVoid'
    BY <2>1, <2>2, Parameters DEF PromiseInv, PromisesVoid, TypeOK, AtLeast, Lowest
  <2>5. PromisesKept'
    <3> SUFFICES ASSUME NEW m \in Monitor \ overtaken', monitors'[m].exists,
                        monitors'[m].status \in {"pending", "up"}
                 PROVE  promised'[m] <= Deadline(monitors'[m])
      BY DEF PromisesKept
    <3>1. monitors[m] \in MonitorRow
      BY DEF TypeOK
    <3>2. monitors[m].exists /\ monitors[m].status \in {"pending", "up"}
      BY <2>1, <3>1, OlderRow
    <3>3. monitors[m].enabled
      BY <3>1, <3>2 DEF MonitorRow, Coherent
    <3> QED
      BY <2>1, <2>2, <2>3, <3>1, <3>2, <3>3 DEF PromiseInv, PromisesKept
  <2>6. EditsKeepPromise'
    <3> SUFFICES ASSUME NEW e \in Editor, editors'[e] # Idle, ~editors'[e].raced,
                        editors'[e].row.status = "up", editors'[e].monitor \notin overtaken'
                 PROVE  promised'[editors'[e].monitor] <= Deadline(editors'[e].row)
      BY DEF EditsKeepPromise
    <3>1. editors[e] # Idle /\ editors'[e] = [editors[e] EXCEPT !.row = Older(@)]
      BY <1>12 DEF Tick
    <3>2. editors[e] \in Edit
      BY <3>1, CallOfEditor
    <3>3. /\ editors'[e].monitor = editors[e].monitor /\ editors'[e].raced = editors[e].raced
          /\ editors'[e].row = Older(editors[e].row)
      BY <3>1, <3>2 DEF Edit
    <3>4. /\ editors[e].row \in MonitorRow /\ editors[e].monitor \in Monitor
          /\ editors[e].row.status = "up"
      BY <3>2, <3>3, OlderRow DEF Edit
    <3>5. editors[e].row.enabled
      BY <3>4 DEF MonitorRow, Coherent
    <3> QED
      BY <2>2, <2>3, <3>1, <3>3, <3>4, <3>5 DEF PromiseInv, EditsKeepPromise
  <2> QED
    BY <2>4, <2>5, <2>6 DEF PromiseInv
<1>13. CASE Fail
  <2>1. UNCHANGED <<monitors, promised, overtaken, raced>>
    BY <1>13 DEF Fail
  <2>2. \A e \in Editor : editors'[e] # Idle => editors'[e] = editors[e]
    BY <1>13 DEF Fail, TypeOK
  <2>3. EditsKeepPromise'
    BY <2>1, <2>2 DEF PromiseInv, EditsKeepPromise
  <2> QED
    BY <2>1, <2>3 DEF PromiseInv, PromisesVoid, PromisesKept
<1>14. CASE UNCHANGED vars
  BY <1>14, UnchangedPromises DEF vars, calls, history
<1> QED
  BY <1>1, <1>2, <1>3, <1>4, <1>5, <1>6, <1>7, <1>8, <1>9, <1>10, <1>11, <1>12, <1>13, <1>14
     DEF Next, RecordMisses

\* A miss is recorded after the deadline of the latest ping, or of one committed
\* after a later one (HeartbeatsService.recordMiss).
THEOREM AlarmsAreReal == Spec => MissesAreReal
<1>1. TypeOK /\ PromiseInv /\ [Next]_vars => (TypeOK /\ PromiseInv)'
  BY TypeStep, PromiseStep
<1>2. ASSUME TypeOK, PromiseInv, NEW s \in Sweeper, NEW m \in Monitor, RecordMiss(s, m),
             monitors'[m] # monitors[m]
      PROVE  promised[m] + sweepers[s].lag <= 0 \/ m \in overtaken
  <2>1. StillMissing(monitors[m], sweepers[s].lag)
    BY <1>2 DEF RecordMiss
  <2>2. monitors[m].status \in {"pending", "up"}
    BY <1>2, <2>1 DEF StillMissing, TypeOK, MonitorRow, Coherent, Status
  <2>3. sweepers[s].lag \in Int /\ promised[m] \in Int /\ Deadline(monitors[m]) \in Int
    <3>1. sweepers[s] \in Pass
      BY <1>2 DEF RecordMiss, TypeOK
    <3> QED
      BY <1>2, <2>1, <3>1, DeadlineOfRow DEF StillMissing, TypeOK, Pass, Lag
  <2> QED
    BY <1>2, <2>1, <2>2, <2>3 DEF StillMissing, Overdue, PromiseInv, PromisesKept
<1>3. TypeOK /\ PromiseInv =>
         [\A s \in Sweeper, m \in Monitor :
             RecordMiss(s, m) /\ monitors'[m] # monitors[m] =>
                promised[m] + sweepers[s].lag <= 0 \/ m \in overtaken]_vars
  BY <1>2
<1> QED
  BY TypeInit, PromiseInit, <1>1, <1>3, PTL DEF Spec, MissesAreReal

=============================================================================
