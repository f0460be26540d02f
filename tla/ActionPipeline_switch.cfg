\* One worker, the kill switch thrown once.
CONSTANTS
    NumActions = 1
    restart = restart
    author = author
    approver = approver
    w1 = w1
    w2 = w2
    CallOf <- SameCall
    HasRollback <- FirstOnly
    Workers = {w1, w2}
    People <- TwoPeople
    Author = author
    NoOne = nobody
    Emailed <- TwoPeople
    MaxCrashes = 0
    MaxStalls = 0
    MaxErrors = 0
    MaxFlips = 1
SPECIFICATION Spec
SYMMETRY WorkerSymmetry
INVARIANTS SwitchMeansAborted
CHECK_DEADLOCK FALSE
