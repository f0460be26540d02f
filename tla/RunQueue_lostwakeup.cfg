\* One run, two workers, no fault of any kind.
CONSTANTS
    NumRuns = 1
    Workers = {w1, w2}
    NoWorker = none
    NumSteps = 1
    ApprovalStep = 1
    MaxAttempts = 1
    MaxCrashes = 0
    MaxStalls = 0
    MaxErrors = 0
    Outage = FALSE
SPECIFICATION FairSpec
PROPERTIES DecisionWakesRun
CHECK_DEADLOCK FALSE
