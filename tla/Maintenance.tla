---------------------------- MODULE Maintenance ----------------------------
(***************************************************************************)
(* Maintenance windows and the passes that announce them                   *)
(* (MaintenanceService): create, update, cancel and remove by operators,   *)
(* and emitLifecycleEvents, which every API process runs all thirty        *)
(* seconds.  A pass reads all windows once and then announces what it      *)
(* found in one transaction each, an event of a window being the key that  *)
(* keeps two processes from announcing it twice.                           *)
(***************************************************************************)
EXTENDS MaintenanceWindow

CONSTANTS
    Window,      \* maintenance windows
    Scheduler,   \* API processes running emitLifecycleEvents
    Editor,      \* concurrent calls of update
    Shapes,      \* the shapes operators enter
    MaxTime,     \* bound: the clock runs from 0 to MaxTime
    LastEdit,    \* bound: operators act until then
    MaxLag,      \* bound: units between the start of a pass or call and its end
    MaxEdits,    \* bound: calls of create, update, cancel and remove
    MaxFaults    \* bound: passes that fail

ASSUME MaintenanceAssumption ==
    /\ Shapes \subseteq Shape /\ Shapes # {}
    /\ {MaxTime, LastEdit, MaxLag, MaxEdits, MaxFaults} \subseteq Nat
    \* bound: the part of the calendar that is given.
    /\ \A s \in Shapes : s.recurrence = "monthly" => Reaches(s.start) /\ Reaches(MaxTime)

VARIABLES
    now,        \* the clock
    windows,    \* Window -> row of maintenance_windows: [status, shape]
    events,     \* rows of maintenance_occurrence_events
    passes,     \* Scheduler -> pass of emitLifecycleEvents: [at, todo]
    editors,    \* Editor -> call of update that has read its window, or None
    passed,     \* when a pass was started last, None at first
    budget,     \* bound: [edits, faults] spent
    (* History: read by the properties only. *)
    changed,    \* Window -> when it was created, updated or cancelled last
    failed,     \* instants whose passes failed
    told,       \* notices enqueued
    repeated    \* a notice was enqueued twice

vars == <<now, windows, events, passes, editors, passed, budget, changed, failed, told, repeated>>

-----------------------------------------------------------------------------
(* Types.                                                                  *)

\* cancelled_at is kept as a status; the id of a removed window is not used again.
Row == [status: {"none", "open", "cancelled", "removed"}, shape: Shapes]

\* An occurrence is known by its start, as in the table.
Notice == [window: Window, start: Nat, event: {"started", "completed"}]

Stored(w) == windows[w].status \in {"open", "cancelled"}

Pass == [at: Nat, todo: SUBSET Notice]
Edit == [window: Window, shape: Shapes, at: Nat]

TypeOK ==
    /\ now \in 0 .. MaxTime
    /\ windows \in [Window -> Row]
    /\ events \subseteq Notice
    /\ \A e \in events : Stored(e.window)
    /\ passes \in [Scheduler -> Pass]
    /\ editors \in [Editor -> {None} \cup Edit]
    /\ passed \in {None} \cup 0 .. now
    /\ budget \in [edits: 0 .. MaxEdits, faults: 0 .. MaxFaults]
    /\ changed \in [Window -> 0 .. now]
    /\ failed \subseteq 0 .. now
    /\ told \subseteq Notice /\ repeated \in BOOLEAN

Resting == [at |-> 0, todo |-> {}]

Init ==
    /\ now = 0
    /\ windows = [w \in Window |->
                    [status |-> "none", shape |-> CHOOSE s \in Shapes : TRUE]]
    /\ events = {}
    /\ passes = [s \in Scheduler |-> Resting]
    /\ editors = [e \in Editor |-> None]
    /\ passed = None
    /\ budget = [edits |-> 0, faults |-> 0]
    /\ changed = [w \in Window |-> 0]
    /\ failed = {} /\ told = {} /\ repeated = FALSE

-----------------------------------------------------------------------------
(* Operators.                                                              *)

Open(w) == windows[w].status = "open"

Edits == /\ budget.edits < MaxEdits /\ now <= LastEdit
         /\ budget' = [budget EXCEPT !.edits = @ + 1]

Writes(w, row) == /\ windows' = [windows EXCEPT ![w] = row]
                  /\ changed' = [changed EXCEPT ![w] = now]

\* create; a start in the past is allowed.
Create(w, shape) ==
    /\ Edits
    /\ windows[w].status = "none"
    /\ Writes(w, [status |-> "open", shape |-> shape])
    /\ UNCHANGED <<now, events, passes, editors, passed, failed, told, repeated>>

\* update reads the window, which must not be cancelled, without a lock.
ReadWindow(e, w, shape) ==
    /\ Edits
    /\ editors[e] = None /\ Open(w)
    /\ editors' = [editors EXCEPT ![e] = [window |-> w, shape |-> shape, at |-> now]]
    /\ UNCHANGED <<now, windows, events, passes, passed, changed, failed, told, repeated>>

\* Its transaction writes every column but cancelled_at; on a window that is gone the
\* resources cannot be inserted and nothing is.
WriteWindow(e) ==
    /\ editors[e] # None
    /\ LET w == editors[e].window
       IN  IF Stored(w) THEN Writes(w, [windows[w] EXCEPT !.shape = editors[e].shape])
           ELSE UNCHANGED <<windows, changed>>
    /\ editors' = [editors EXCEPT ![e] = None]
    /\ UNCHANGED <<now, events, passes, passed, budget, failed, told, repeated>>

Cancel(w) ==
    /\ Edits
    /\ Open(w)
    /\ Writes(w, [windows[w] EXCEPT !.status = "cancelled"])
    /\ UNCHANGED <<now, events, passes, editors, passed, failed, told, repeated>>

\* Mutant: the events of the window stay.
RemoveAlone(w) ==
    /\ Edits
    /\ Stored(w)
    /\ Writes(w, [windows[w] EXCEPT !.status = "removed"])
    /\ UNCHANGED <<now, events, passes, editors, passed, failed, told, repeated>>

\* remove takes the events of the window with it.
Remove(w) ==
    /\ Edits
    /\ Stored(w)
    /\ Writes(w, [windows[w] EXCEPT !.status = "removed"])
    /\ events' = {e \in events : e.window # w}
    /\ UNCHANGED <<now, passes, editors, passed, failed, told, repeated>>

-----------------------------------------------------------------------------
(* emitLifecycleEvents.                                                    *)

NoticeOf(w, k, event) ==
    [window |-> w, start |-> Start(windows[w].shape, k), event |-> event]

\* What a pass that starts now is to announce.
Due == {NoticeOf(w, Current(windows[w].shape, now), "started") :
           w \in {w \in Window : Open(w) /\ Current(windows[w].shape, now) # None}}
       \cup
       {NoticeOf(w, Completed(windows[w].shape, now), "completed") :
           w \in {w \in Window : Open(w) /\ Completed(windows[w].shape, now) # None}}

StartPass(s) ==
    /\ passes[s].todo = {}
    /\ passes' = [passes EXCEPT ![s] = IF Due = {} THEN Resting
                                          ELSE [at |-> now, todo |-> Due]]
    /\ passed' = now
    /\ UNCHANGED <<now, windows, events, editors, budget, changed, failed, told, repeated>>

\* A window's start is announced before its completion; the code takes one window after
\* the other, the model mixes them.
Turn(s, n) == n.event = "completed" => \A o \in passes[s].todo : o.window # n.window \/ o = n

\* Mutant: the event is not looked up.
IsNewAlways(n) == TRUE

\* INSERT ... ON CONFLICT DO NOTHING.
IsNew(n) == n \notin events

\* emitOccurrence; a window that is gone fails the pass, which takes the rest with it.
Emit(s, n) ==
    /\ n \in passes[s].todo /\ Turn(s, n)
    /\ IF ~Stored(n.window)
       THEN /\ passes' = [passes EXCEPT ![s] = Resting]
            /\ failed' = failed \cup {passes[s].at}
            /\ UNCHANGED <<events, told, repeated>>
       ELSE /\ passes' = [passes EXCEPT ![s] = IF @.todo = {n} THEN Resting
                                              ELSE [at |-> @.at, todo |-> @.todo \ {n}]]
            /\ events' = events \cup {n}
            /\ told' = IF IsNew(n) THEN told \cup {n} ELSE told
            /\ repeated' = (repeated \/ (IsNew(n) /\ n \in told))
            /\ UNCHANGED failed
    /\ UNCHANGED <<now, windows, editors, passed, budget, changed>>

\* A pass fails on the database, or its process stops.
PassFails(s) ==
    /\ budget.faults < MaxFaults
    /\ passes[s].todo # {}
    /\ passes' = [passes EXCEPT ![s] = Resting]
    /\ budget' = [budget EXCEPT !.faults = @ + 1]
    /\ failed' = failed \cup {passes[s].at}
    /\ UNCHANGED <<now, windows, events, editors, passed, changed, told, repeated>>

\* A pass is started in every unit; a pass and a call take MaxLag units at most.
Tick ==
    /\ now < MaxTime /\ passed = now
    /\ \A s \in Scheduler : passes[s].todo # {} => now - passes[s].at < MaxLag
    /\ \A e \in Editor : editors[e] # None => now - editors[e].at < MaxLag
    /\ now' = now + 1
    /\ UNCHANGED <<windows, events, passes, editors, passed, budget, changed, failed, told, repeated>>

Next ==
    \/ \E w \in Window, shape \in Shapes :
          Create(w, shape) \/ \E e \in Editor : ReadWindow(e, w, shape)
    \/ \E e \in Editor : WriteWindow(e)
    \/ \E w \in Window : Cancel(w) \/ Remove(w)
    \/ \E s \in Scheduler : StartPass(s) \/ PassFails(s)
    \/ \E s \in Scheduler : \E n \in passes[s].todo : Emit(s, n)
    \/ Tick

Spec == Init /\ [][Next]_vars

-----------------------------------------------------------------------------
(* Properties.                                                             *)

\* A window is on exactly while one of its occurrences runs, whatever its recurrence, its
\* end and the length of the months, as long as no occurrence reaches the start of the
\* one after the next (occurrences(), which isResourceActive and the suppression of
\* notifications ask): a window found too late lets alerts through, one found for ever
\* silences them.
OnWhileRunning ==
    \A w \in Window :
        LET shape == windows[w].shape
        IN  (Open(w) /\ Short(shape)) => (Current(shape, now) # None <=> Running(shape, now))

\* The occurrence a window shows as its next is the first one to come, and a monthly
\* window has one in every month, however short (addRecurrence and occurrences()).
NextIsFirst ==
    \A w \in Window :
        LET shape  == windows[w].shape
            coming == {k \in Numbers(shape, now) : Kept(shape, k) /\ Start(shape, k) > now}
            k      == Upcoming(shape, now)
        IN  Open(w)
            => /\ (Short(shape) /\ ~Running(shape, now))
                  => IF coming = {} THEN k = None ELSE k = Min(coming)
               /\ shape.recurrence = "monthly"
                  => \A n \in Numbers(shape, now) :
                        MonthOf(Start(shape, n)) = MonthOf(shape.start) + n

\* An occurrence is announced once as started and once as completed, however many
\* processes pass over it and however slowly (emitOccurrence).
AnnouncedOnce == ~repeated

\* An occurrence of a window that nobody touches is announced as started unless every
\* pass that could have done it failed, and so is its completion, for which the passes
\* have until the grace is over (emitLifecycleEvents and latestCompletedOccurrence).
NothingMissed ==
    \A w \in Window :
        LET shape == windows[w].shape
        IN  \A k \in Numbers(shape, now) :
              LET start == Start(shape, k)
                  end   == End(shape, k)
              IN  (Open(w) /\ Apart(shape) /\ Kept(shape, k) /\ changed[w] < start)
                  => /\ (now >= end + MaxLag /\ ~(start .. end - 1 \subseteq failed))
                        => NoticeOf(w, k, "started") \in told
                     /\ (now > end + Grace + MaxLag /\ ~(end .. end + Grace \subseteq failed))
                        => NoticeOf(w, k, "completed") \in told

=============================================================================
