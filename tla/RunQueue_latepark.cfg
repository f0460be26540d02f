\* One run, two workers, one stalled worker.
CONSTANTS
    NumRuns = 1
    Workers = {w1, w2}
    NoWorker = none
    NumSteps = 1
    ApprovalStep = 1
    MaxAttempts = 1
    MaxCrashes = 0
    MaxStalls = 1
    MaxErrors = 0
    Outage = FALSE
SPECIFICATION Spec
INVARIANTS ConcludedStateStands
CHECK_DEADLOCK FALSE
