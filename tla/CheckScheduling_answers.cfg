SPECIFICATION Spec
CONSTANTS
    Check = {c1}
    Agent = {a1}
    Task = {t1, t2}
    Request = {r1}
    Call = {k1}
    Scheduler = scheduler
    NoAgent = NoAgent
    NoCheck = NoCheck
    Capability = {TRUE}
    MaxListed = 50
    MaxRunning = 1
    MaxPending = 1
    MaxChanges = 1
    MaxLate = 0
    MaxFaults = 0
PROPERTIES
    EveryCheckReports
CHECK_DEADLOCK FALSE
