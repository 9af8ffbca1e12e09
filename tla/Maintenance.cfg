SPECIFICATION Spec
CONSTANTS
    Day = 3
    WeekDays = 2
    MonthDays <- Calendar
    Grace = 1
    None = None
    Window = {w1}
    Scheduler = {s1, s2}
    Editor = {e1}
    Shapes <- Entries
    MaxTime = 11
    LastEdit = 2
    MaxLag = 1
    MaxEdits = 3
    MaxFaults = 1
SYMMETRY Symmetry
INVARIANTS TypeOK OnWhileRunning NextIsFirst AnnouncedOnce NothingMissed
CHECK_DEADLOCK FALSE
