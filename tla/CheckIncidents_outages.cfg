SPECIFICATION Spec
CONSTANTS
    FailureThreshold = 1
    RecoveryThreshold = 1
    MaxTime = 3
    Check = {c1}
    Incident = {i1, i2, i3}
    Recorder = {w1, w2}
    Editor = {e1}
    Operator = {o1}
    Releaser = {r1}
    Batch = 50
    None = None
SYMMETRY Symmetry
INVARIANTS
    OneOpenIncident
    OutageHasIncident
    ResolutionFollowsOpening
