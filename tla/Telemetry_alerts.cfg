SPECIFICATION Spec
CONSTANTS
    None = None
    Request = {r1, r2}
    Reading <- Values
    Conditions <- Rules
    Retained = 2
    BatchSize = 2
    MaxBatches = 2
    Tolerance = 1
    MaxSnapshots = 2
    MaxTime = 2
    MaxFaults = 1
    MaxToggles = 0
    MaxEdits = 1
SYMMETRY Symmetry
INVARIANTS TypeOK AlertFollowsValues
PROPERTIES AlertsAreConfirmed AlertsInOrder
CHECK_DEADLOCK FALSE
