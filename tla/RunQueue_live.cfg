\* Two runs that one worker serves: the older is claimed first.  A run is attempted
\* twice, the worker dies once, and ServiceNow may fail every call.  Two workers
\* are on one run only when a lease lapses in a stall, which MaxStalls leaves out.
CONSTANTS
    NumRuns = 2
    Workers = {w1}
    NoWorker = none
    NumSteps = 1
    ApprovalStep = 1
    MaxAttempts = 2
    MaxCrashes = 1
    MaxStalls = 0
    MaxErrors = 0
    Outage = TRUE
SPECIFICATION FairSpec
PROPERTIES SettlesOrParks OpenRequestWakes
CHECK_DEADLOCK FALSE
