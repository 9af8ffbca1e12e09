-------------------------- MODULE MaintenanceWindow --------------------------
(***************************************************************************)
(* When a maintenance window is on (maintenance/maintenance.service.ts):   *)
(* the occurrence that runs at an instant, the one that comes next and the *)
(* one that has just ended, which the code finds near an index it computes *)
(* instead of walking all of them.  No variables.                          *)
(*                                                                         *)
(* Instants are naturals, in units of the passes of emitLifecycleEvents;   *)
(* occurrence k of a window is its k-th repetition, from 0.                *)
(***************************************************************************)
EXTENDS Integers, Sequences, FiniteSets, FiniteSetsExt

CONSTANTS
    Day,         \* units of a day
    WeekDays,    \* days of a week
    MonthDays,   \* days of each month of the calendar, from the first
    Grace,       \* how long after its end an occurrence is announced as completed: 90 s
    None         \* SQL NULL, and no occurrence

ASSUME WindowAssumption ==
    /\ {Day, WeekDays} \subseteq Nat \ {0}
    /\ Grace \in Nat
    /\ None \notin Int

ASSUME CalendarAssumption == MonthDays \in Seq(Nat \ {0}) /\ MonthDays # <<>>

Recurrences == {"none", "daily", "weekly", "monthly"}

\* What an operator enters; validate wants duration (ends_at - starts_at) to be positive,
\* and recurrence_until to come after the start.
Shape ==
    {s \in [start: Nat, duration: Nat \ {0}, recurrence: Recurrences, until: Nat \cup {None}] :
        s.until = None \/ s.until > s.start}

Period(recurrence) == IF recurrence = "daily" THEN Day ELSE WeekDays * Day

-----------------------------------------------------------------------------
(* The calendar.                                                           *)

Months == 1 .. Len(MonthDays)

\* The first instant of each month.
MonthStart[m \in Months] == IF m = 1 THEN 0 ELSE MonthStart[m - 1] + MonthDays[m - 1] * Day

MonthOf(t) == Max({m \in Months : MonthStart[m] <= t})

\* Mutant: a day the month does not have runs over into the next one.
InMonthOverflowing(m, t) == MonthStart[m] + (t - MonthStart[MonthOf(t)])

\* The day of the month and the time of day of t in month m, whose last day stands for
\* the days it does not have (addRecurrence).
InMonth(m, t) ==
    LET into == t - MonthStart[MonthOf(t)]
        day  == Min({into \div Day, MonthDays[m] - 1})
    IN  MonthStart[m] + day * Day + (into % Day)

-----------------------------------------------------------------------------
(* Occurrences.                                                            *)

Start(w, k) == CASE w.recurrence = "none"    -> w.start
                 [] w.recurrence = "monthly" -> InMonth(MonthOf(w.start) + k, w.start)
                 [] OTHER                    -> w.start + k * Period(w.recurrence)

End(w, k) == Start(w, k) + w.duration

\* recurrence_until says which occurrences of a recurring window may start.
Kept(w, k) == w.recurrence = "none" \/ w.until = None \/ Start(w, k) <= w.until

Covers(w, k, at) == Start(w, k) <= at /\ at < End(w, k)

\* occurrenceIndex: about the number of the occurrence at an instant.
IndexAt(w, at) ==
    IF at <= w.start \/ w.recurrence = "none" THEN 0
    ELSE IF w.recurrence = "monthly" THEN MonthOf(at) - MonthOf(w.start)
    ELSE (at - w.start) \div Period(w.recurrence)

\* Mutant: the search starts at the index.
CandidatesFrom(w, at) == IndexAt(w, at) .. IndexAt(w, at) + 2

\* The occurrences occurrences() looks at, in this order.
Candidates(w, at) ==
    IF w.recurrence = "none" THEN {0}
    ELSE {k \in IndexAt(w, at) - 1 .. IndexAt(w, at) + 2 : k >= 0}

\* The first of them that is on or still to come.
Found(w, at) ==
    LET ks == {k \in Candidates(w, at) : Kept(w, k) /\ (Covers(w, k, at) \/ Start(w, k) > at)}
    IN  IF ks = {} THEN None ELSE Min(ks)

\* The occurrence that is on, and the next one when none is.
Current(w, at) ==
    LET k == Found(w, at) IN IF k # None /\ Covers(w, k, at) THEN k ELSE None

Upcoming(w, at) ==
    LET k == Found(w, at) IN IF k # None /\ ~Covers(w, k, at) THEN k ELSE None

\* Mutant: only the occurrence of the index can have ended.
EndCandidatesAt(w, at) == {IndexAt(w, at)}

\* The occurrences latestCompletedOccurrence looks at.
EndCandidates(w, at) ==
    IF w.recurrence = "none" THEN {0}
    ELSE {k \in IndexAt(w, at) - 1 .. IndexAt(w, at) : k >= 0}

\* The latest of them that ended a short while ago.
Completed(w, at) ==
    LET ks == {k \in EndCandidates(w, at) :
                  Kept(w, k) /\ End(w, k) <= at /\ at - End(w, k) <= Grace}
    IN  IF ks = {} THEN None ELSE Max(ks)

-----------------------------------------------------------------------------
(* What they are to be, said without an index.                             *)

\* The least time from one occurrence to the next.
Gap(w) == IF w.recurrence = "monthly" THEN Day * Min({MonthDays[m] : m \in Months})
          ELSE Period(w.recurrence)

\* No occurrence reaches the next one, or the one after it.
Apart(w) == w.recurrence = "none" \/ w.duration + Grace < Gap(w)

Short(w) == CASE w.recurrence = "none"    -> TRUE
              [] w.recurrence = "monthly" -> w.duration <= Gap(w)
              [] OTHER                    -> w.duration <= 2 * Gap(w)

\* The calendar goes on for two months after that of an instant.
Reaches(t) == Len(MonthDays) > 1 /\ t < MonthStart[Len(MonthDays) - 1]

\* The occurrences up to the first that starts after an instant, or to the end of the
\* calendar.
Numbers(w, at) == CASE w.recurrence = "none"    -> {0}
                    [] w.recurrence = "monthly" -> 0 .. Len(MonthDays) - MonthOf(w.start)
                    [] OTHER                    -> 0 .. at + 1

Running(w, at) == \E k \in Numbers(w, at) : Kept(w, k) /\ Covers(w, k, at)

=============================================================================
