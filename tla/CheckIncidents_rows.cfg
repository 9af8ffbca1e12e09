SPECIFICATION FairSpec
CONSTANTS
    FailureThreshold = 2
    RecoveryThreshold = 2
    MaxTime = 4
    Check = {c1}
    Incident = {i1}
    Recorder = {w1, w2}
    Editor = {e1}
    Operator = {}
    Releaser = {r1, r2}
    Batch = 50
    None = None
INVARIANTS
    TypeOK
    NoUnpromptedRecovery
    OpenedOnce
PROPERTIES
    EvaluatesOneAtATime
    AlertNeedsConsecutiveBreaches
    SuppressionEnds
CHECK_DEADLOCK FALSE
