SPECIFICATION Spec
CONSTANTS
    Delivery = {d1, d2}
    Push = {d1, d2}
    Slow = {}
    Device = {e1}
    Hook = Hook
    Dispatcher = {p1}
    Operator = {o1}
    Batch = 20
    MaxAttempts = 2
    MaxCrashes = 0
SYMMETRY Symmetry
INVARIANTS
    SettledLeavesNothing
CHECK_DEADLOCK FALSE
