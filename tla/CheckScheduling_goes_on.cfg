SPECIFICATION SharedSpec
CONSTANTS
    Check = {c1, c2, c3}
    Agent = {a1}
    Task = {t1, t2}
    Request = {}
    Call = {}
    Scheduler = scheduler
    NoAgent = NoAgent
    NoCheck = NoCheck
    Capability = {TRUE}
    MaxListed = 3
    MaxRunning = 1
    MaxPending = 1
    MaxChanges = 0
    MaxLate = 0
    MaxFaults = 1
PROPERTIES
    EveryCheckReports
CHECK_DEADLOCK FALSE
