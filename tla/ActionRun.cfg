\* One attempt dies and a second begins beside a stalled one, one database call
\* fails, and the kill switch is thrown once.  One person decides; the SOP's author
\* is not on record, so a T2 request expires.
\* No symmetry: the property is temporal.
CONSTANTS
    NumActions = 1
    restart = restart
    approver = approver
    w1 = w1
    w2 = w2
    CallOf <- OneCall
    HasRollback <- WithRollback
    Workers = {w1, w2}
    People <- OnePerson
    Author = nobody
    NoOne = nobody
    Emailed <- OnePerson
    MaxCrashes = 1
    MaxStalls = 1
    MaxErrors = 1
    MaxFlips = 1
SPECIFICATION FairSpec
PROPERTIES DecisionsSettle
CHECK_DEADLOCK FALSE
