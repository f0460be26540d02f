SPECIFICATION FairSpec
CONSTANTS
    c1 = c1
    c2 = c2
    r1 = r1
    r2 = r2
    Call = {c1, c2}
    Runner = {r1, r2}
    NoRunner = NoRunner
    Concurrency = 2
    Attempts = 3
    MaxFaults = 1
CONSTRAINT OnePair
INVARIANTS
    TypeOK
    WritesAreCleared
    StopsOnlyWhenAnswered
PROPERTIES
    PromiseKept
    CallerIsTold
CHECK_DEADLOCK FALSE
