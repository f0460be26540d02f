\* Two steps for the same write, two workers; two of one crash, one stalled attempt
\* and one failed database call, and the kill switch thrown once.
CONSTANTS
    NumActions = 2
    restart = restart
    author = author
    approver = approver
    w1 = w1
    w2 = w2
    CallOf <- SameCall
    HasRollback <- FirstOnly
    Workers = {w1, w2}
    People <- TwoPeople
    Author = author
    NoOne = nobody
    Emailed <- TwoPeople
    MaxCrashes = 1
    MaxStalls = 1
    MaxErrors = 1
    MaxFlips = 1
SPECIFICATION Spec
SYMMETRY WorkerSymmetry
CONSTRAINT FewFaults
INVARIANTS TypeOK AtMostOnce RollbackFollowsWrite SentWasPermitted NothingWasChanged ReportIsTheRecord OneChangePerCall
PROPERTIES FinalStands ImplementsPermit
CHECK_DEADLOCK FALSE
