\* A second attempt beside a stalled one, and nothing else that goes wrong.
CONSTANTS
    NumActions = 1
    restart = restart
    author = author
    approver = approver
    w1 = w1
    w2 = w2
    CallOf <- SameCall
    HasRollback <- FirstOnly
    Workers = {w1, w2}
    People <- TwoPeople
    Author = author
    NoOne = nobody
    Emailed <- TwoPeople
    MaxCrashes = 0
    MaxStalls = 1
    MaxErrors = 0
    MaxFlips = 0
SPECIFICATION Spec
SYMMETRY WorkerSymmetry
INVARIANTS ReportsFinished
CHECK_DEADLOCK FALSE
