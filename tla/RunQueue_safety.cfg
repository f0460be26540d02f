\* One run, two workers; two crashes, one stalled worker, two failed calls.
CONSTANTS
    NumRuns = 1
    Workers = {w1, w2}
    NoWorker = none
    NumSteps = 2
    ApprovalStep = 2
    MaxAttempts = 2
    MaxCrashes = 2
    MaxStalls = 1
    MaxErrors = 2
    Outage = FALSE
SPECIFICATION Spec
SYMMETRY WorkerSymmetry
INVARIANTS TypeOK RunHeld OneWorkerPerRun RecordedNotRepeated OutcomeFollowsJournal ResolvedTicketStays
PROPERTIES ImplementsLedger
CHECK_DEADLOCK FALSE
