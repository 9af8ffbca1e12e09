SPECIFICATION Spec
CONSTANTS
    Check = {c1}
    Agent = {a1, a2}
    Task = {t1, t2}
    Request = {r1}
    Call = {k1}
    Scheduler = scheduler
    NoAgent = NoAgent
    NoCheck = NoCheck
    Capability = {TRUE}
    MaxListed = 50
    MaxRunning = 1
    MaxPending = 1
    MaxChanges = 1
    MaxLate = 1
    MaxFaults = 1
SYMMETRY Symmetry
INVARIANTS
    TypeOK
    OneOpenTask
    OneOutcomePerOpening
CHECK_DEADLOCK FALSE
