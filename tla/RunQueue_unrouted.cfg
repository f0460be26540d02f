\* One run, one worker, two failed calls, no crash.
CONSTANTS
    NumRuns = 1
    Workers = {w1}
    NoWorker = none
    NumSteps = 1
    ApprovalStep = 1
    MaxAttempts = 1
    MaxCrashes = 0
    MaxStalls = 0
    MaxErrors = 2
    Outage = FALSE
SPECIFICATION Spec
INVARIANTS NeedsHumanIsRouted
CHECK_DEADLOCK FALSE
