SPECIFICATION FairSpec
CONSTANTS
    Monitor = {m1}
    Sweeper = {s1}
    Signal = {p1}
    Editor = {e1}
    Operator = {o1}
    Interval = 1
    Grace = 0
    Runtime = 2
    MaxLag = 1
    None = None
PROPERTIES MissesAreReal SilenceIsNoticed
INVARIANTS TypeOK IncidentsFollowStatus
CHECK_DEADLOCK FALSE
