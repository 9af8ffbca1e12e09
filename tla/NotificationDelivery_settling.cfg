SPECIFICATION FairSpec
CONSTANTS
    Delivery = {d1, d2}
    Push = {d1}
    Slow = {}
    Device = {e1}
    Hook = Hook
    Dispatcher = {p1}
    Operator = {}
    Batch = 20
    MaxAttempts = 2
    MaxCrashes = 1
PROPERTIES
    DeliveriesSettle
CHECK_DEADLOCK FALSE
