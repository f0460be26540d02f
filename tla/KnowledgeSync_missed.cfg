SPECIFICATION Spec
CONSTANTS
    x = x
    y = y
    s = s
    Article = {x, y}
    Sync = {s}
    PageSize = 2
    MaxEdits = 2
    MaxTime = 2
INVARIANT NothingMissed
CHECK_DEADLOCK FALSE
