--------------------- MODULE CheckIncidentsOutageProofs ---------------------
(***************************************************************************)
(* Proofs about the incidents of CheckIncidents: one open incident for a   *)
(* check, an incident for every outage, an announced opening before an     *)
(* announced resolution, and no opening announced twice.                   *)
(***************************************************************************)
EXTENDS CheckIncidentsProofs

-----------------------------------------------------------------------------
(* The inductive invariant, in named parts.                                *)

\* An identifier no incident was inserted with has no row.
AbsentIsBlank == \A i \in Incident : incidents[i].status = "absent" => incidents[i] = NoIncident

\* Only a row that was inserted is read for an update.
OperatorReads == \A o \in Operator : operator[o] # None => incidents[operator[o]].status # "absent"

\* An incident's opening is announced when and only when it is not kept quiet.
OpeningAnnounced ==
    \A i \in Incident :
        announced[i].opened =
            IF incidents[i].status = "absent" \/ incidents[i].suppressed THEN 0 ELSE 1

\* What the check has resolved is open again only where an operator reopened it.
ReopenedByOperator ==
    \A i \in Incident : incidents[i].status = "open" /\ incidents[i].closedByCheck => i \in reopened

\* What a transaction that has looked for an open incident still knows at its end.
MatchKnown(w) ==
    LET tx == recorder[w] IN
    /\ tx.pc = "locked" => tx.found = None
    /\ tx.pc = "matched" /\ tx.found = None => OpenIncidents(tx.check) \subseteq reopened
    /\ tx.pc = "matched" /\ tx.found # None =>
          /\ Unrecovered(tx.found, tx.check)
          /\ ~tx.quiet => announced[tx.found].opened > 0

MatchHolds == \A w \in Recorder : MatchKnown(w)

IncidentInvariant ==
    /\ AbsentIsBlank
    /\ OperatorReads
    /\ OpeningAnnounced
    /\ ReopenedByOperator
    /\ MatchHolds
    /\ ResolutionFollowsOpening
    /\ OneOpenIncident
    /\ OutageHasIncident

-----------------------------------------------------------------------------
(* What a step can do to an incident.                                      *)

Untouched(i) == incidents'[i] = incidents[i] /\ announced'[i] = announced[i]

\* Transaction w of record inserts it.
OpenedBy(i, w) ==
    /\ CommitDown(w)
    /\ recorder[w].found = None
    /\ incidents[i].status = "absent"
    /\ incidents'[i].status = "open"
    /\ incidents'[i].check = recorder[w].check
    /\ ~incidents'[i].closedByCheck
    /\ announced'[i].opened = IF incidents'[i].suppressed THEN announced[i].opened
                              ELSE Saturated(announced[i].opened + 1, 2)
    /\ announced'[i].resolved = announced[i].resolved
    /\ \A j \in Incident : j # i => incidents'[j] = incidents[j]

\* Transaction w of record resolves it.
ResolvedBy(i, w) ==
    /\ CommitRecovery(w)
    /\ recorder[w].found = i
    /\ incidents'[i].status = "resolved"
    /\ incidents'[i].suppressed = incidents[i].suppressed
    /\ announced'[i].opened = announced[i].opened
    /\ announced'[i].resolved => announced[i].resolved \/ ~recorder[w].quiet

\* An operator sets its status.
Posted(i) ==
    /\ \E o \in Operator : operator[o] = i
    /\ incidents'[i].status \in {"open", "resolved"}
    /\ incidents'[i].check = incidents[i].check
    /\ incidents'[i].suppressed = incidents[i].suppressed
    /\ incidents'[i].closedByCheck = incidents[i].closedByCheck
    /\ incidents[i].status = "resolved" /\ incidents'[i].status = "open" => i \in reopened'
    /\ announced'[i] = announced[i]

\* Its check is removed.
Detached(i) ==
    /\ incidents[i].check \in Check
    /\ ~checks'[incidents[i].check].exists
    /\ ~Locked(incidents[i].check)
    /\ UNCHANGED recorder
    /\ incidents'[i].check = None
    /\ incidents'[i].status = incidents[i].status
    /\ incidents'[i].suppressed = incidents[i].suppressed
    /\ incidents'[i].closedByCheck = incidents[i].closedByCheck
    /\ announced'[i] = announced[i]

\* Its suppression ends.
Released(i) ==
    /\ incidents[i].status = "open" /\ incidents[i].suppressed
    /\ ~incidents'[i].suppressed
    /\ incidents'[i].status = incidents[i].status
    /\ incidents'[i].check = incidents[i].check
    /\ incidents'[i].closedByCheck = incidents[i].closedByCheck
    /\ announced'[i].opened = Saturated(announced[i].opened + 1, 2)
    /\ announced'[i].resolved = announced[i].resolved

\* A commit that goes down inserts an incident or touches none.
LEMMA CommitDownIncident ==
    ASSUME TypeOK, NEW w \in Recorder, CommitDown(w), NEW i \in Incident
    PROVE  Untouched(i) \/ OpenedBy(i, w)
<1>0. /\ incidents \in [Incident -> IncidentRow]
      /\ announced \in [Incident -> [opened: 0 .. 2, resolved: BOOLEAN]]
  BY DEF TypeOK
<1>1. CASE UNCHANGED <<incidents, announced>>
  BY <1>1 DEF Untouched
<1>2. ASSUME recorder[w].found = None,
             NEW k \in Incident, NEW suppressed \in BOOLEAN,
             incidents[k].status = "absent",
             incidents' = [incidents EXCEPT ![k] =
                 [status |-> "open", check |-> recorder[w].check, suppressed |-> suppressed,
                  started |-> recorder[w].at, closedByCheck |-> FALSE]],
             IF suppressed THEN UNCHANGED announced
             ELSE Announce(k, "opened", Saturated(announced[k].opened + 1, 2))
      PROVE  Untouched(i) \/ OpenedBy(i, w)
  <2>1. CASE i = k
    <3>1. /\ incidents'[i].status = "open" /\ incidents'[i].check = recorder[w].check
          /\ incidents'[i].suppressed = suppressed /\ ~incidents'[i].closedByCheck
          /\ \A j \in Incident : j # i => incidents'[j] = incidents[j]
      BY <1>0, <1>2, <2>1
    <3>2. /\ announced'[i].resolved = announced[i].resolved
          /\ announced'[i].opened = IF suppressed THEN announced[i].opened
                                    ELSE Saturated(announced[i].opened + 1, 2)
      BY <1>0, <1>2, <2>1 DEF Announce
    <3>3. QED
      BY <1>2, <2>1, <3>1, <3>2 DEF OpenedBy
  <2>2. CASE i # k
    BY <1>0, <1>2, <2>2 DEF Untouched, Announce
  <2>3. QED
    BY <2>1, <2>2
<1>3. QED
  BY <1>1, <1>2 DEF CommitDown

\* A commit that recovers resolves the incident that was found or touches none.
LEMMA CommitRecoveryIncident ==
    ASSUME TypeOK, NEW w \in Recorder, CommitRecovery(w), NEW i \in Incident
    PROVE  Untouched(i) \/ ResolvedBy(i, w)
<1>0. /\ incidents \in [Incident -> IncidentRow]
      /\ announced \in [Incident -> [opened: 0 .. 2, resolved: BOOLEAN]]
  BY DEF TypeOK
<1>1. CASE UNCHANGED <<incidents, announced>>
  BY <1>1 DEF Untouched
<1>2. CASE /\ incidents' = [incidents EXCEPT ![recorder[w].found].status = "resolved",
                                             ![recorder[w].found].closedByCheck = TRUE]
           /\ IF recorder[w].quiet THEN UNCHANGED announced
              ELSE announced' = [announced EXCEPT ![recorder[w].found]["resolved"] = TRUE]
  <2>1. CASE i = recorder[w].found
    <3>1. incidents'[i].status = "resolved" /\ incidents'[i].suppressed = incidents[i].suppressed
      BY <1>0, <1>2, <2>1 DEF IncidentRow
    <3>2. /\ announced'[i].opened = announced[i].opened
          /\ announced'[i].resolved => announced[i].resolved \/ ~recorder[w].quiet
      BY <1>0, <1>2, <2>1
    <3>3. QED
      BY <2>1, <3>1, <3>2 DEF ResolvedBy
  <2>2. CASE i # recorder[w].found
    BY <1>0, <1>2, <2>2 DEF Untouched
  <2>3. QED
    BY <2>1, <2>2
<1>3. QED
  BY <1>1, <1>2 DEF CommitRecovery, Announce

LEMMA PostUpdateIncident ==
    ASSUME TypeOK, NEW o \in Operator, NEW status \in {"open", "resolved"}, PostUpdate(o, status),
           NEW i \in Incident
    PROVE  Untouched(i) \/ Posted(i)
<1>0. incidents \in [Incident -> IncidentRow]
  BY DEF TypeOK
<1>1. /\ incidents' = [incidents EXCEPT ![operator[o]].status = status]
      /\ UNCHANGED announced
      /\ reopened' = IF incidents[operator[o]].status = "resolved" /\ status = "open"
                     THEN reopened \cup {operator[o]} ELSE reopened
  BY DEF PostUpdate, history
<1>2. CASE i = operator[o]
  <2>1. /\ incidents'[i].status = status
        /\ incidents'[i].check = incidents[i].check
        /\ incidents'[i].suppressed = incidents[i].suppressed
        /\ incidents'[i].closedByCheck = incidents[i].closedByCheck
    BY <1>0, <1>1, <1>2 DEF IncidentRow
  <2>2. incidents[i].status = "resolved" /\ status = "open" => i \in reopened'
    BY <1>1, <1>2
  <2>3. QED
    BY <1>1, <1>2, <2>1, <2>2 DEF Posted
<1>3. CASE i # operator[o]
  BY <1>0, <1>1, <1>3 DEF Untouched
<1>4. QED
  BY <1>2, <1>3

LEMMA RemoveCheckIncident ==
    ASSUME TypeOK, NEW c \in Check, RemoveCheck(c), NEW i \in Incident
    PROVE  Untouched(i) \/ Detached(i)
<1>0. incidents \in [Incident -> IncidentRow] /\ checks \in [Check -> CheckRow]
  BY DEF TypeOK
<1>1. /\ ~Locked(c) /\ UNCHANGED <<recorder, announced>>
      /\ checks' = [checks EXCEPT ![c].exists = FALSE]
      /\ incidents' = [j \in Incident |-> IF incidents[j].check = c
                                          THEN [incidents[j] EXCEPT !.check = None]
                                          ELSE incidents[j]]
  BY DEF RemoveCheck, processes, history
<1>2. ~checks'[c].exists
  BY <1>0, <1>1 DEF CheckRow
<1>3. CASE incidents[i].check = c
  <2>1. incidents'[i] = [incidents[i] EXCEPT !.check = None] /\ incidents[i] \in IncidentRow
    BY <1>0, <1>1, <1>3
  <2>2. /\ incidents'[i].check = None
        /\ incidents'[i].status = incidents[i].status
        /\ incidents'[i].suppressed = incidents[i].suppressed
        /\ incidents'[i].closedByCheck = incidents[i].closedByCheck
    BY <2>1 DEF IncidentRow
  <2>3. QED
    BY <1>1, <1>2, <1>3, <2>2 DEF Detached
<1>4. CASE incidents[i].check # c
  BY <1>0, <1>1, <1>4 DEF Untouched
<1>5. QED
  BY <1>3, <1>4

LEMMA ReleaseIncident ==
    ASSUME TypeOK, NEW r \in Releaser, NEW k \in Incident, ReleaseSuppression(r, k),
           NEW i \in Incident
    PROVE  Untouched(i) \/ Released(i)
<1>0. /\ incidents \in [Incident -> IncidentRow]
      /\ announced \in [Incident -> [opened: 0 .. 2, resolved: BOOLEAN]]
  BY DEF TypeOK
<1>1. CASE UNCHANGED <<incidents, announced>>
  BY <1>1 DEF Untouched
<1>2. CASE /\ k \in Suppressed
           /\ incidents' = [incidents EXCEPT ![k].suppressed = FALSE]
           /\ Announce(k, "opened", Saturated(announced[k].opened + 1, 2))
  <2>1. CASE i = k
    <3>1. incidents[i].status = "open" /\ incidents[i].suppressed
      BY <1>2, <2>1 DEF Suppressed
    <3>2. /\ ~incidents'[i].suppressed
          /\ incidents'[i].status = incidents[i].status
          /\ incidents'[i].check = incidents[i].check
          /\ incidents'[i].closedByCheck = incidents[i].closedByCheck
      BY <1>0, <1>2, <2>1 DEF IncidentRow
    <3>3. /\ announced'[i].opened = Saturated(announced[i].opened + 1, 2)
          /\ announced'[i].resolved = announced[i].resolved
      BY <1>0, <1>2, <2>1 DEF Announce
    <3>4. QED
      BY <3>1, <3>2, <3>3 DEF Released
  <2>2. CASE i # k
    BY <1>0, <1>2, <2>2 DEF Untouched, Announce
  <2>3. QED
    BY <2>1, <2>2
<1>3. QED
  BY <1>1, <1>2 DEF ReleaseSuppression, Release

\* Every step does one of these to an incident.
LEMMA IncidentSteps ==
    ASSUME TypeOK, [Next]_vars, NEW i \in Incident
    PROVE  \/ Untouched(i)
           \/ \E w \in Recorder : OpenedBy(i, w) \/ ResolvedBy(i, w)
           \/ Posted(i) \/ Detached(i) \/ Released(i)
<1> USE DEF history, processes
<1>1. ASSUME UNCHANGED <<incidents, announced>> PROVE Untouched(i)
  BY <1>1 DEF Untouched
<1>2. ASSUME NEW w \in Recorder, NEW c \in Check, NEW result \in ResultStatus, NEW at \in Time,
             Lock(w, c, result, at)
      PROVE  Untouched(i)
  BY <1>1, <1>2 DEF Lock
<1>3. ASSUME NEW w \in Recorder, IgnoreStale(w) \/ FindIncident(w) \/ CommitState(w)
      PROVE  Untouched(i)
  BY <1>1, <1>3 DEF IgnoreStale, FindIncident, CommitState
<1>4. ASSUME NEW w \in Recorder, CommitDown(w) \/ CommitRecovery(w)
      PROVE  Untouched(i) \/ OpenedBy(i, w) \/ ResolvedBy(i, w)
  BY <1>4, CommitDownIncident, CommitRecoveryIncident
<1>5. ASSUME NEW e \in Editor,
             \/ \E c \in Check : ReadForEdit(e, c)
             \/ \E enabled \in BOOLEAN : WriteEdit(e, enabled)
      PROVE  Untouched(i)
  BY <1>1, <1>5 DEF ReadForEdit, WriteEdit
<1>6. ASSUME NEW c \in Check, RemoveCheck(c) PROVE Untouched(i) \/ Detached(i)
  BY <1>6, RemoveCheckIncident
<1>7. ASSUME NEW c \in Check, Reconcile(c) \/ ResumeCheck(c) PROVE Untouched(i)
  BY <1>1, <1>7 DEF Reconcile, ResumeCheck
<1>8. ASSUME NEW o \in Operator, NEW k \in Incident, ReadIncident(o, k) PROVE Untouched(i)
  BY <1>1, <1>8 DEF ReadIncident
<1>9. ASSUME NEW o \in Operator, NEW status \in {"open", "resolved"}, PostUpdate(o, status)
      PROVE  Untouched(i) \/ Posted(i)
  BY <1>9, PostUpdateIncident
<1>10. ASSUME NEW r \in Releaser, ListSuppressed(r) PROVE Untouched(i)
  BY <1>1, <1>10 DEF ListSuppressed
<1>11. ASSUME NEW r \in Releaser, NEW k \in Incident, ReleaseSuppression(r, k)
       PROVE  Untouched(i) \/ Released(i)
  BY <1>11, ReleaseIncident
<1>12. ASSUME NEW k \in Incident, ToggleMaintenance(k) PROVE Untouched(i)
  BY <1>1, <1>12 DEF ToggleMaintenance
<1>13. CASE UNCHANGED vars
  BY <1>1, <1>13 DEF vars
<1>14. QED
  BY <1>2, <1>3, <1>4, <1>5, <1>6, <1>7, <1>8, <1>9, <1>10, <1>11, <1>12, <1>13 DEF Next, Record

\* Nothing forgets that an operator reopened an incident, a transaction changes in
\* its own steps only, and so does what an operator has read.
LEMMA OtherSteps ==
    ASSUME TypeOK, [Next]_vars
    PROVE  /\ reopened \subseteq reopened'
           /\ \A v \in Recorder :
                 \/ recorder'[v] = recorder[v]
                 \/ recorder'[v] = Idle
                 \/ recorder'[v].pc = "locked" /\ recorder'[v].found = None
                 \/ FindIncident(v)
           /\ \A o \in Operator :
                 \/ operator'[o] \in {None, operator[o]}
                 \/ operator'[o] \in Incident /\ ReadIncident(o, operator'[o])
<1> USE DEF history, processes
<1>0. recorder \in [Recorder -> {Idle} \cup Transaction] /\ operator \in [Operator -> Incident \cup {None}]
  BY DEF TypeOK
<1> DEFINE Goal ==
           /\ reopened \subseteq reopened'
           /\ \A v \in Recorder :
                 \/ recorder'[v] = recorder[v]
                 \/ recorder'[v] = Idle
                 \/ recorder'[v].pc = "locked" /\ recorder'[v].found = None
                 \/ FindIncident(v)
           /\ \A o \in Operator :
                 \/ operator'[o] \in {None, operator[o]}
                 \/ operator'[o] \in Incident /\ ReadIncident(o, operator'[o])
<1>1. ASSUME UNCHANGED <<recorder, operator, reopened>> PROVE Goal
  BY <1>1
<1>2. ASSUME NEW w \in Recorder, NEW c \in Check, NEW result \in ResultStatus, NEW at \in Time,
             Lock(w, c, result, at)
      PROVE  Goal
  <2>1. /\ UNCHANGED <<operator, reopened>>
        /\ recorder' = [recorder EXCEPT ![w] =
               [pc |-> "locked", check |-> c, result |-> result, at |-> at,
                row |-> checks[c], found |-> None, quiet |-> FALSE]]
    BY <1>2 DEF Lock
  <2>2. QED
    BY <1>0, <2>1
<1>3. ASSUME NEW w \in Recorder, UNCHANGED <<operator, reopened>>,
             recorder' = [recorder EXCEPT ![w] = Idle]
      PROVE  Goal
  BY <1>0, <1>3
<1>4. ASSUME NEW w \in Recorder, IgnoreStale(w) PROVE Goal
  BY <1>3, <1>4 DEF IgnoreStale
<1>5. ASSUME NEW w \in Recorder, Commit(w) PROVE Goal
  BY <1>3, <1>5 DEF Commit, CommitState, CommitDown, CommitRecovery, WriteCheck
<1>6. ASSUME NEW w \in Recorder, FindIncident(w) PROVE Goal
  <2>1. UNCHANGED <<operator, reopened>>
    BY <1>6 DEF FindIncident
  <2>2. \A v \in Recorder : v # w => recorder'[v] = recorder[v]
    BY <1>6, FindIncidentEffect
  <2>3. QED
    BY <1>6, <2>1, <2>2
<1>7. ASSUME NEW e \in Editor,
             \/ \E c \in Check : ReadForEdit(e, c)
             \/ \E enabled \in BOOLEAN : WriteEdit(e, enabled)
      PROVE  Goal
  BY <1>1, <1>7 DEF ReadForEdit, WriteEdit
<1>8. ASSUME NEW c \in Check, RemoveCheck(c) \/ Reconcile(c) \/ ResumeCheck(c) PROVE Goal
  BY <1>1, <1>8 DEF RemoveCheck, Reconcile, ResumeCheck
<1>9. ASSUME NEW o \in Operator, NEW k \in Incident, ReadIncident(o, k) PROVE Goal
  <2>1. operator' = [operator EXCEPT ![o] = k] /\ UNCHANGED <<recorder, reopened>>
    BY <1>9 DEF ReadIncident
  <2>2. operator'[o] = k /\ \A p \in Operator : p # o => operator'[p] = operator[p]
    BY <1>0, <2>1
  <2>3. QED
    BY <1>9, <2>1, <2>2
<1>10. ASSUME NEW o \in Operator, NEW status \in {"open", "resolved"}, PostUpdate(o, status) PROVE Goal
  <2>1. operator' = [operator EXCEPT ![o] = None] /\ UNCHANGED recorder /\ reopened \subseteq reopened'
    BY <1>10 DEF PostUpdate
  <2>2. QED
    BY <1>0, <2>1
<1>11. ASSUME NEW r \in Releaser,
              ListSuppressed(r) \/ \E k \in Incident : ReleaseSuppression(r, k)
       PROVE  Goal
  BY <1>1, <1>11 DEF ListSuppressed, ReleaseSuppression
<1>12. ASSUME NEW k \in Incident, ToggleMaintenance(k) PROVE Goal
  BY <1>1, <1>12 DEF ToggleMaintenance
<1>13. CASE UNCHANGED vars
  BY <1>1, <1>13 DEF vars
<1>14. QED
  BY <1>2, <1>4, <1>5, <1>6, <1>7, <1>8, <1>9, <1>10, <1>11, <1>12, <1>13 DEF Next, Record, Commit

-----------------------------------------------------------------------------
(* Each part of the invariant is kept by every step.                       *)

\* A transaction that found an incident found an inserted one of its check.
LEMMA FoundIncident ==
    ASSUME TypeOK, MatchHolds, AbsentIsBlank, NEW w \in Recorder,
           recorder[w].pc = "matched", recorder[w].found # None
    PROVE  /\ recorder[w].found \in Incident /\ recorder[w].check \in Check
           /\ incidents[recorder[w].found].check = recorder[w].check
           /\ incidents[recorder[w].found].status # "absent"
<1>1. recorder[w].found \in Incident /\ recorder[w].check \in Check
  BY BusyTransaction DEF Busy, Transaction
<1>2. incidents[recorder[w].found].check = recorder[w].check
  BY DEF MatchHolds, MatchKnown, Unrecovered
<1>3. recorder[w].check # None
  BY <1>1, NoneAssumption
<1>4. QED
  BY <1>1, <1>2, <1>3 DEF AbsentIsBlank, NoIncident

LEMMA ResolvedWasFound ==
    ASSUME TypeOK, MatchHolds, AbsentIsBlank, NEW w \in Recorder, NEW i \in Incident, ResolvedBy(i, w)
    PROVE  /\ recorder[w].pc = "matched"
           /\ incidents[i].check = recorder[w].check /\ recorder[w].check \in Check
           /\ incidents[i].status # "absent"
<1>1. recorder[w].pc = "matched" /\ recorder[w].found = i /\ i # None
  BY NoneAssumption DEF ResolvedBy, CommitRecovery
<1>2. QED
  BY <1>1, FoundIncident

LEMMA AbsentStep ==
    TypeOK /\ AbsentIsBlank /\ MatchHolds /\ [Next]_vars => AbsentIsBlank'
<1> SUFFICES ASSUME TypeOK, AbsentIsBlank, MatchHolds, [Next]_vars, NEW i \in Incident,
                    incidents'[i].status = "absent"
             PROVE  incidents'[i] = NoIncident
  BY DEF AbsentIsBlank, NoIncident
<1>1. ~Posted(i) /\ ~Released(i) /\ \A w \in Recorder : ~OpenedBy(i, w) /\ ~ResolvedBy(i, w)
  BY DEF Posted, Released, OpenedBy, ResolvedBy
<1>2. ~Detached(i)
  BY NoneAssumption DEF Detached, AbsentIsBlank, NoIncident
<1>3. QED
  BY <1>1, <1>2, IncidentSteps DEF Untouched, AbsentIsBlank

\* An inserted incident stays inserted.
LEMMA InsertedStays ==
    ASSUME TypeOK, [Next]_vars, NEW i \in Incident, incidents[i].status # "absent"
    PROVE  incidents'[i].status # "absent"
BY IncidentSteps DEF Untouched, OpenedBy, ResolvedBy, Posted, Detached, Released

LEMMA OperatorStep ==
    TypeOK /\ OperatorReads /\ [Next]_vars => OperatorReads'
<1> SUFFICES ASSUME TypeOK, OperatorReads, [Next]_vars, NEW o \in Operator, operator'[o] # None
             PROVE  incidents'[operator'[o]].status # "absent"
  BY DEF OperatorReads
<1>1. CASE operator'[o] = operator[o]
  <2>1. operator[o] \in Incident
    BY <1>1 DEF TypeOK
  <2>2. QED
    BY <1>1, <2>1, InsertedStays DEF OperatorReads
<1>2. CASE operator'[o] \in Incident /\ ReadIncident(o, operator'[o])
  BY <1>2, InsertedStays DEF ReadIncident
<1>3. QED
  BY <1>1, <1>2, OtherSteps

LEMMA OpeningStep ==
    TypeOK /\ AbsentIsBlank /\ OperatorReads /\ MatchHolds /\ OpeningAnnounced /\ [Next]_vars
        => OpeningAnnounced'
<1> SUFFICES ASSUME TypeOK, AbsentIsBlank, OperatorReads, MatchHolds, OpeningAnnounced,
                    [Next]_vars, NEW i \in Incident
             PROVE  announced'[i].opened =
                        IF incidents'[i].status = "absent" \/ incidents'[i].suppressed THEN 0 ELSE 1
  BY DEF OpeningAnnounced
<1>1. announced[i].opened =
          IF incidents[i].status = "absent" \/ incidents[i].suppressed THEN 0 ELSE 1
  BY DEF OpeningAnnounced
<1>2. CASE Untouched(i) \/ Detached(i)
  BY <1>1, <1>2 DEF Untouched, Detached
<1>3. ASSUME NEW w \in Recorder, OpenedBy(i, w)
      PROVE  announced'[i].opened =
                 IF incidents'[i].status = "absent" \/ incidents'[i].suppressed THEN 0 ELSE 1
  BY <1>1, <1>3 DEF OpenedBy, Saturated
<1>4. ASSUME NEW w \in Recorder, ResolvedBy(i, w)
      PROVE  announced'[i].opened =
                 IF incidents'[i].status = "absent" \/ incidents'[i].suppressed THEN 0 ELSE 1
  <2>1. incidents[i].status # "absent"
    BY <1>4, ResolvedWasFound
  <2>2. QED
    BY <1>1, <1>4, <2>1 DEF ResolvedBy
<1>5. CASE Posted(i)
  <2>1. incidents[i].status # "absent"
    BY <1>5, NoneAssumption DEF Posted, OperatorReads
  <2>2. QED
    BY <1>1, <1>5, <2>1 DEF Posted
<1>6. CASE Released(i)
  BY <1>1, <1>6 DEF Released, Saturated
<1>7. QED
  BY <1>2, <1>3, <1>4, <1>5, <1>6, IncidentSteps

LEMMA ReopenedStep ==
    TypeOK /\ OperatorReads /\ ReopenedByOperator /\ [Next]_vars => ReopenedByOperator'
<1> SUFFICES ASSUME TypeOK, OperatorReads, ReopenedByOperator, [Next]_vars, NEW i \in Incident,
                    incidents'[i].status = "open", incidents'[i].closedByCheck
             PROVE  i \in reopened'
  BY DEF ReopenedByOperator
<1>1. reopened \subseteq reopened'
  BY OtherSteps
<1>2. CASE Untouched(i) \/ Detached(i) \/ Released(i)
  BY <1>1, <1>2 DEF Untouched, Detached, Released, ReopenedByOperator
<1>3. CASE Posted(i)
  <2>1. incidents[i].status \in {"open", "resolved"}
    BY <1>3, NoneAssumption DEF Posted, OperatorReads, TypeOK, IncidentRow
  <2>2. QED
    BY <1>1, <1>3, <2>1 DEF Posted, ReopenedByOperator
<1>4. \A w \in Recorder : ~OpenedBy(i, w) /\ ~ResolvedBy(i, w)
  BY DEF OpenedBy, ResolvedBy
<1>5. QED
  BY <1>2, <1>3, <1>4, IncidentSteps

LEMMA ResolutionStep ==
    TypeOK /\ AbsentIsBlank /\ MatchHolds /\ ResolutionFollowsOpening /\ [Next]_vars
        => ResolutionFollowsOpening'
<1> SUFFICES ASSUME TypeOK, AbsentIsBlank, MatchHolds, ResolutionFollowsOpening, [Next]_vars,
                    NEW i \in Incident, announced'[i].resolved
             PROVE  announced'[i].opened > 0
  BY DEF ResolutionFollowsOpening
<1>1. announced[i].opened \in 0 .. 2 /\ (announced[i].resolved => announced[i].opened > 0)
  BY DEF TypeOK, ResolutionFollowsOpening
<1>2. CASE Untouched(i) \/ Posted(i) \/ Detached(i)
  BY <1>1, <1>2 DEF Untouched, Posted, Detached
<1>3. CASE Released(i)
  BY <1>1, <1>3 DEF Released, Saturated
<1>4. ASSUME NEW w \in Recorder, OpenedBy(i, w) PROVE announced'[i].opened > 0
  BY <1>1, <1>4 DEF OpenedBy, Saturated
<1>5. ASSUME NEW w \in Recorder, ResolvedBy(i, w) PROVE announced'[i].opened > 0
  <2>1. recorder[w].pc = "matched" /\ recorder[w].found = i /\ i # None
    BY <1>5, NoneAssumption DEF ResolvedBy, CommitRecovery
  <2>2. ~recorder[w].quiet => announced[i].opened > 0
    BY <2>1 DEF MatchHolds, MatchKnown
  <2>3. QED
    BY <1>1, <1>5, <2>2 DEF ResolvedBy
<1>6. QED
  BY <1>2, <1>3, <1>4, <1>5, IncidentSteps

\* A transaction that stays open holds a row no committing one has.
LEMMA OpenTransaction ==
    ASSUME TypeOK, LockHeld, NEW v \in Recorder, NEW w \in Recorder,
           Busy(v), recorder'[v] = recorder[v], Commit(w)
    PROVE  recorder[w].check # recorder[v].check
<1>1. Busy(w) /\ WriteCheck(w)
  BY DEF Commit, CommitState, CommitDown, CommitRecovery, Busy
<1>2. recorder'[w] = Idle
  BY <1>1 DEF WriteCheck, TypeOK
<1>3. w # v
  BY <1>2 DEF Busy, Idle
<1>4. QED
  BY <1>1, <1>3 DEF LockHeld

\* No incident is opened for a check behind the back of the transaction that
\* found none open; operators may reopen one.
LEMMA NoneFoundStays ==
    ASSUME TypeOK, LockHeld, OperatorReads, MatchHolds, [Next]_vars, NEW v \in Recorder,
           recorder[v].pc = "matched", recorder[v].found = None, recorder'[v] = recorder[v],
           NEW i \in Incident, incidents'[i].status = "open", incidents'[i].check = recorder[v].check
    PROVE  i \in reopened'
<1>0. reopened \subseteq reopened'
  BY OtherSteps
<1>1. Busy(v) /\ recorder[v].check \in Check
  BY BusyTransaction DEF Busy, Transaction
<1>2. incidents[i].status = "open" /\ incidents[i].check = recorder[v].check => i \in reopened'
  BY <1>0 DEF MatchHolds, MatchKnown, OpenIncidents
<1>3. CASE Untouched(i) \/ Released(i)
  BY <1>2, <1>3 DEF Untouched, Released
<1>4. ASSUME NEW w \in Recorder PROVE ~OpenedBy(i, w) /\ ~ResolvedBy(i, w)
  BY <1>1, OpenTransaction DEF OpenedBy, ResolvedBy, Commit
<1>5. CASE Posted(i)
  <2>1. incidents[i].status \in {"open", "resolved"}
    BY <1>5, NoneAssumption DEF Posted, OperatorReads, TypeOK, IncidentRow
  <2>2. QED
    BY <1>2, <1>5, <2>1 DEF Posted
<1>6. ~Detached(i)
  BY <1>1, NoneAssumption DEF Detached
<1>7. QED
  BY <1>3, <1>4, <1>5, <1>6, IncidentSteps

\* The incident a transaction found is resolved by operators at most, until the
\* transaction ends, and stays announced.
LEMMA FoundStays ==
    ASSUME TypeOK, LockHeld, AbsentIsBlank, ReopenedByOperator, OpeningAnnounced, MatchHolds,
           [Next]_vars, NEW v \in Recorder,
           recorder[v].pc = "matched", recorder[v].found # None, recorder'[v] = recorder[v]
    PROVE  /\ Unrecovered(recorder[v].found, recorder[v].check)'
           /\ ~recorder[v].quiet => announced'[recorder[v].found].opened > 0
<1> DEFINE i == recorder[v].found
           c == recorder[v].check
<1>0. reopened \subseteq reopened'
  BY OtherSteps
<1>1. /\ Busy(v) /\ i \in Incident /\ c \in Check
      /\ incidents[i].check = c /\ incidents[i].status # "absent"
  BY FoundIncident DEF Busy
<1>2. /\ Unrecovered(i, c)
      /\ ~recorder[v].quiet => announced[i].opened > 0
      /\ announced[i].opened \in {0, 1}
  BY <1>1 DEF MatchHolds, MatchKnown, OpeningAnnounced
<1>3. ~incidents[i].closedByCheck \/ i \in reopened
  BY <1>1, <1>2 DEF Unrecovered, ReopenedByOperator
<1>4. CASE Untouched(i) \/ Posted(i)
  <2>1. /\ incidents'[i].check = c
        /\ incidents'[i].closedByCheck = incidents[i].closedByCheck
        /\ announced'[i] = announced[i]
    BY <1>1, <1>4 DEF Untouched, Posted
  <2>2. QED
    BY <1>0, <1>2, <1>3, <2>1 DEF Unrecovered
<1>5. CASE Released(i)
  BY <1>0, <1>1, <1>2, <1>3, <1>5 DEF Released, Unrecovered, Saturated
<1>6. ~Detached(i)
  BY <1>1 DEF Detached, Locked, Busy
<1>7. ASSUME NEW w \in Recorder PROVE ~OpenedBy(i, w) /\ ~ResolvedBy(i, w)
  <2>1. ~OpenedBy(i, w)
    BY <1>1 DEF OpenedBy
  <2>2. ASSUME ResolvedBy(i, w) PROVE FALSE
    <3>1. incidents[i].check = recorder[w].check
      BY <1>1, <2>2, ResolvedWasFound
    <3>2. recorder[w].check # c
      BY <1>1, <2>2, OpenTransaction DEF ResolvedBy, Commit
    <3>3. QED
      BY <1>1, <3>1, <3>2
  <2>3. QED
    BY <2>1, <2>2
<1>8. QED
  BY <1>1, <1>4, <1>5, <1>6, <1>7, IncidentSteps

LEMMA MatchStep ==
    /\ TypeOK /\ LockHeld /\ AbsentIsBlank /\ OperatorReads /\ OpeningAnnounced
    /\ ReopenedByOperator /\ MatchHolds /\ [Next]_vars
    => MatchHolds'
<1> SUFFICES ASSUME TypeOK, LockHeld, AbsentIsBlank, OperatorReads, OpeningAnnounced,
                    ReopenedByOperator, MatchHolds, [Next]_vars, NEW v \in Recorder
             PROVE  MatchKnown(v)'
  BY DEF MatchHolds
<1>1. CASE recorder'[v] = recorder[v]
  <2>1. recorder[v].pc = "locked" => recorder[v].found = None
    BY DEF MatchHolds, MatchKnown
  <2>2. recorder[v].pc = "matched" /\ recorder[v].found = None =>
            \A i \in Incident :
                incidents'[i].status = "open" /\ incidents'[i].check = recorder[v].check
                => i \in reopened'
    BY <1>1, NoneFoundStays
  <2>3. recorder[v].pc = "matched" /\ recorder[v].found # None =>
            /\ Unrecovered(recorder[v].found, recorder[v].check)'
            /\ ~recorder[v].quiet => announced'[recorder[v].found].opened > 0
    BY <1>1, FoundStays
  <2>4. QED
    BY <1>1, <2>1, <2>2, <2>3 DEF MatchKnown, OpenIncidents, Unrecovered
<1>2. CASE recorder'[v] = Idle
  BY <1>2 DEF MatchKnown, Idle
<1>3. CASE recorder'[v].pc = "locked" /\ recorder'[v].found = None
  BY <1>3 DEF MatchKnown
<1>4. CASE FindIncident(v)
  <2>1. UNCHANGED <<incidents, announced, reopened>> /\ recorder[v].pc = "locked"
    BY <1>4 DEF FindIncident, history
  <2>2. recorder[v].found = None
    BY <2>1 DEF MatchHolds, MatchKnown
  <2>3. /\ recorder'[v].pc = "matched" /\ recorder'[v].check = recorder[v].check
        /\ \/ OpenIncidents(recorder[v].check) = {} /\ recorder'[v].found = None
           \/ /\ recorder'[v].found \in OpenIncidents(recorder[v].check)
              /\ recorder'[v].quiet = incidents[recorder'[v].found].suppressed
    BY <1>4, <2>2, FindIncidentEffect
  <2>4. CASE OpenIncidents(recorder[v].check) = {} /\ recorder'[v].found = None
    BY <2>1, <2>3, <2>4 DEF OpenIncidents, MatchKnown
  <2>5. CASE /\ recorder'[v].found \in OpenIncidents(recorder[v].check)
             /\ recorder'[v].quiet = incidents[recorder'[v].found].suppressed
    <3> DEFINE i == recorder'[v].found
    <3>1. /\ i \in Incident /\ i # None
          /\ incidents[i].status = "open" /\ incidents[i].check = recorder[v].check
      BY <2>5, NoneAssumption DEF OpenIncidents
    <3>2. ~recorder'[v].quiet => announced[i].opened = 1
      BY <2>5, <3>1 DEF OpeningAnnounced
    <3>3. QED
      BY <2>1, <2>3, <3>1, <3>2 DEF Unrecovered, MatchKnown
  <2>6. QED
    BY <2>3, <2>4, <2>5
<1>5. QED
  BY <1>1, <1>2, <1>3, <1>4, OtherSteps

LEMMA OneOpenStep ==
    TypeOK /\ OperatorReads /\ MatchHolds /\ OneOpenIncident /\ [Next]_vars => OneOpenIncident'
<1> SUFFICES ASSUME TypeOK, OperatorReads, MatchHolds, OneOpenIncident, [Next]_vars,
                    NEW c \in Check, NEW i \in Incident, NEW j \in Incident, i # j,
                    incidents'[i].status = "open", incidents'[i].check = c, i \notin reopened',
                    incidents'[j].status = "open", incidents'[j].check = c, j \notin reopened'
             PROVE  FALSE
  BY DEF OneOpenIncident, OpenIncidents
<1>0. reopened \subseteq reopened'
  BY OtherSteps
<1>1. ASSUME NEW k \in Incident,
             incidents'[k].status = "open", incidents'[k].check = c, k \notin reopened'
      PROVE  k \in OpenIncidents(c) \ reopened \/ \E w \in Recorder : OpenedBy(k, w)
  <2>1. CASE Untouched(k) \/ Released(k)
    BY <1>0, <1>1, <2>1 DEF Untouched, Released, OpenIncidents
  <2>2. CASE Posted(k)
    <3>1. incidents[k].status \in {"open", "resolved"}
      BY <2>2, NoneAssumption DEF Posted, OperatorReads, TypeOK, IncidentRow
    <3>2. QED
      BY <1>0, <1>1, <2>2, <3>1 DEF Posted, OpenIncidents
  <2>3. ~Detached(k) /\ \A w \in Recorder : ~ResolvedBy(k, w)
    BY <1>1, NoneAssumption DEF Detached, ResolvedBy
  <2>4. QED
    BY <2>1, <2>2, <2>3, IncidentSteps
<1>2. ASSUME NEW w \in Recorder, NEW k \in Incident, NEW l \in Incident, k # l, OpenedBy(k, w),
             incidents'[k].check = c, incidents'[l].status = "open", incidents'[l].check = c,
             l \notin reopened'
      PROVE  FALSE
  <2>1. recorder[w].check = c /\ incidents[l].status = "open" /\ incidents[l].check = c
    BY <1>2 DEF OpenedBy
  <2>2. OpenIncidents(c) \subseteq reopened
    BY <1>2, <2>1 DEF MatchHolds, MatchKnown, OpenedBy, CommitDown
  <2>3. QED
    BY <1>0, <1>2, <2>1, <2>2 DEF OpenIncidents
<1>3. ~\E w \in Recorder : OpenedBy(i, w) \/ OpenedBy(j, w)
  BY <1>2
<1>4. QED
  BY <1>1, <1>3 DEF OneOpenIncident

\* Only its recovery takes from a check an incident it has not recovered from.
LEMMA UnrecoveredKept ==
    ASSUME TypeOK, AbsentIsBlank, ReopenedByOperator, [Next]_vars, NEW c \in Check,
           checks'[c].exists, NEW i \in Incident, Unrecovered(i, c),
           \A w \in Recorder : ~ResolvedBy(i, w)
    PROVE  Unrecovered(i, c)'
<1>1. reopened \subseteq reopened'
  BY OtherSteps
<1>2. incidents[i].check = c /\ incidents[i].status # "absent"
  BY NoneAssumption DEF Unrecovered, AbsentIsBlank, NoIncident
<1>3. ~incidents[i].closedByCheck \/ i \in reopened
  BY DEF Unrecovered, ReopenedByOperator
<1>4. CASE Untouched(i) \/ Posted(i) \/ Released(i)
  <2>1. incidents'[i].check = c /\ incidents'[i].closedByCheck = incidents[i].closedByCheck
    BY <1>2, <1>4 DEF Untouched, Posted, Released
  <2>2. QED
    BY <1>1, <1>3, <2>1 DEF Unrecovered
<1>5. ~Detached(i) /\ \A w \in Recorder : ~OpenedBy(i, w)
  BY <1>2 DEF Detached, OpenedBy
<1>6. QED
  BY <1>4, <1>5, IncidentSteps

LEMMA OutageStep ==
    /\ TypeOK /\ LockHeld /\ AbsentIsBlank /\ ReopenedByOperator /\ MatchHolds
    /\ OutageHasIncident /\ [Next]_vars
    => OutageHasIncident'
<1> SUFFICES ASSUME TypeOK, LockHeld, AbsentIsBlank, ReopenedByOperator, MatchHolds,
                    OutageHasIncident, [Next]_vars, NEW c \in Check, c \notin overwritten',
                    checks'[c].exists, checks'[c].status = "down"
             PROVE  \E i \in Incident : Unrecovered(i, c)'
  BY DEF OutageHasIncident
<1>1. ASSUME NEW w \in Recorder, CommitRecovery(w) PROVE recorder[w].check # c
  <2>1. NextStatus(recorder[w]) = "up"
    BY <1>1 DEF CommitRecovery, Recovers
  <2>2. recorder[w].row = checks[recorder[w].check]
    BY <1>1, CommitEffect DEF Commit
  <2>3. checks'[recorder[w].check].status = NextStatus(recorder[w])
    BY <1>1, <2>2, CommitEffect DEF Commit, NextStatus
  <2>4. QED
    BY <2>1, <2>3
<1>2. ASSUME NEW i \in Incident, Unrecovered(i, c) PROVE Unrecovered(i, c)'
  <2>1. \A w \in Recorder : ~ResolvedBy(i, w)
    BY <1>1, <1>2, ResolvedWasFound DEF ResolvedBy, Unrecovered
  <2>2. QED
    BY <1>2, <2>1, UnrecoveredKept
<1>3. ASSUME c \notin overwritten, checks[c].exists, checks[c].status = "down"
      PROVE  \E i \in Incident : Unrecovered(i, c)'
  BY <1>2, <1>3 DEF OutageHasIncident
<1>4. CASE NotEvaluated(c)
  BY <1>3, <1>4 DEF NotEvaluated, Breaching
<1>5. ASSUME NEW w \in Recorder, recorder[w].check = c, Commit(w)
      PROVE  \E i \in Incident : Unrecovered(i, c)'
  <2>1. /\ recorder[w].row = checks[c] /\ overwritten' = overwritten
        /\ checks'[c].exists = checks[c].exists
        /\ NextStatus(recorder[w]) = "down"
    BY <1>5, CommitEffect DEF NextStatus
  <2>2. CASE CommitState(w)
    <3>1. checks[c].status = "down"
      BY <2>1, <2>2 DEF CommitState, GoesDown
    <3>2. QED
      BY <1>3, <2>1, <3>1
  <2>3. CASE CommitDown(w)
    <3>1. CASE recorder[w].found # None
      <4>1. recorder[w].found \in Incident /\ Unrecovered(recorder[w].found, c)
        BY <1>5, <2>3, <3>1, FoundIncident DEF CommitDown, MatchHolds, MatchKnown
      <4>2. QED
        BY <1>2, <4>1
    <3>2. CASE recorder[w].found = None
      <4>1. incidents \in [Incident -> IncidentRow]
        BY DEF TypeOK
      <4>2. PICK k \in Incident, suppressed \in BOOLEAN :
                incidents' = [incidents EXCEPT ![k] =
                    [status |-> "open", check |-> recorder[w].check, suppressed |-> suppressed,
                     started |-> recorder[w].at, closedByCheck |-> FALSE]]
        BY <2>3, <3>2 DEF CommitDown
      <4>3. incidents'[k].status = "open" /\ incidents'[k].check = c
        BY <1>5, <4>1, <4>2
      <4>4. QED
        BY <4>3 DEF Unrecovered
    <3>3. QED
      BY <3>1, <3>2
  <2>4. QED
    BY <1>1, <1>5, <2>2, <2>3 DEF Commit
<1>6. QED
  BY <1>4, <1>5, RowSteps

-----------------------------------------------------------------------------
(* The theorems.                                                           *)

LEMMA IncidentInit == Init => IncidentInvariant
<1> SUFFICES ASSUME Init PROVE IncidentInvariant
  OBVIOUS
<1>1. AbsentIsBlank /\ OperatorReads /\ OpeningAnnounced /\ ReopenedByOperator
  BY DEF Init, AbsentIsBlank, OperatorReads, OpeningAnnounced, ReopenedByOperator, NoIncident
<1>2. MatchHolds
  BY DEF Init, MatchHolds, MatchKnown, Idle
<1>3. ResolutionFollowsOpening /\ OneOpenIncident
  BY DEF Init, ResolutionFollowsOpening, OneOpenIncident, OpenIncidents, NoIncident
<1>4. OutageHasIncident
  BY DEF Init, OutageHasIncident, NewCheck
<1>5. QED
  BY <1>1, <1>2, <1>3, <1>4 DEF IncidentInvariant

\* The inductive invariant of the incidents: what a transaction of record has read
\* of them stays true enough, until it commits, although operators, releases and
\* other transactions write them without its lock.
THEOREM IncidentsInvariant == Spec => []IncidentInvariant
<1>1. Init => IncidentInvariant
  BY IncidentInit
<1>2. TypeOK /\ LockHeld /\ IncidentInvariant /\ [Next]_vars => IncidentInvariant'
  BY AbsentStep, OperatorStep, OpeningStep, ReopenedStep, MatchStep, ResolutionStep,
     OneOpenStep, OutageStep DEF IncidentInvariant
<1>3. QED
  BY <1>1, <1>2, RowLocked, PTL DEF Spec

\* No number of concurrent records opens a second incident for a check.
THEOREM OneOpen == Spec => []OneOpenIncident
<1>1. IncidentInvariant => OneOpenIncident
  BY DEF IncidentInvariant
<1>2. QED
  BY <1>1, IncidentsInvariant, PTL

\* A check taken down by evaluations has an incident that only operators closed.
THEOREM OutagesHaveIncidents == Spec => []OutageHasIncident
<1>1. IncidentInvariant => OutageHasIncident
  BY DEF IncidentInvariant
<1>2. QED
  BY <1>1, IncidentsInvariant, PTL

\* The resolution of an incident is announced only after its opening was.
THEOREM ResolutionsFollowOpenings == Spec => []ResolutionFollowsOpening
<1>1. IncidentInvariant => ResolutionFollowsOpening
  BY DEF IncidentInvariant
<1>2. QED
  BY <1>1, IncidentsInvariant, PTL

\* However many processes release suppressions, no opening is announced twice.
THEOREM OpeningsAnnouncedOnce == Spec => []OpenedOnce
<1>1. IncidentInvariant => OpenedOnce
  BY DEF IncidentInvariant, OpeningAnnounced, OpenedOnce
<1>2. QED
  BY <1>1, IncidentsInvariant, PTL
=============================================================================
