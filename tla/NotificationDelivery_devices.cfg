SPECIFICATION Spec
CONSTANTS
    Delivery = {d1}
    Push = {d1}
    Slow = {}
    Device = {e1, e2}
    Hook = Hook
    Dispatcher = {p1, p2}
    Operator = {}
    Batch = 20
    MaxAttempts = 2
    MaxCrashes = 1
SYMMETRY Symmetry
INVARIANTS
    TypeOK
    NoNeedlessRepeat
    WithinAttempts
    SettledLeavesNothing
PROPERTIES
    SettledOnceByOne
CHECK_DEADLOCK FALSE
