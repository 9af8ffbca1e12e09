SPECIFICATION FairSpec
CONSTANTS
    None = None
    Request = {r1, r2}
    Reading <- Uploads
    Conditions <- OneRule
    Retained = 1
    BatchSize = 2
    MaxBatches = 2
    Tolerance = 1
    MaxSnapshots = 2
    MaxTime = 2
    MaxFaults = 1
    MaxToggles = 1
    MaxEdits = 0
INVARIANTS NothingLost OldestDropped NothingKeptWhenOff NewestEvaluated
PROPERTIES EvaluatedOnce Uploaded
CHECK_DEADLOCK FALSE
