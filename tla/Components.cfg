SPECIFICATION Spec
CONSTANTS
    a1 = a1
    a2 = a2
    b1 = b1
    b2 = b2
    seeded = seeded
    library = library
    reviewer = reviewer
    none = none
    Version <- Versions
    Content = {"old", "new"}
    Editor <- People
    Advised = {"run"}
    drafting = "article"
    Attempt <- Two
    Needed = 2
    Input = 1
    Incident = 3
    Daily = 4
    Article <- Two
    Sync <- Syncs
    PageSize = 2
    MaxEdits = 2
    MaxSeconds = 2
    Callback <- Two
    Tab <- People
    StateLife = 2
    IdleTime = 5
    Granule = 2
    SessionLife = 7
    Slow = 2
    MaxMinutes = 9
    Mapped = {"tenant_admin"}
    Tokened <- TokensAskedFor
    Visit = {"visit"}
    Hours = 2
    Emergency = 1
    Days = 1
    Pause = 0
    Handling = 1
    MaxHours = 4
    Gated <- Writes
    Wanted <- Wants
    Offered <- Submitted
    Standing <- Stored
    TierCeiling = 2
    LevelCeiling = 3
    MaxTtl = 2
    MaxWithin = 2
    Day = 3
    Week = 2
    Horizon = 3
    Task <- Two
    Connection = {"works", "broken"}
    Broken = {"broken"}
    Refresh = 2
    Delay = 1
    RunnerCall <- Calls4
    Envelope <- Signed
    Grant <- OneGrant
    MaxTier = 1
    Targets = {"host"}
    Inside = {"a", "b"}
    Local = none
    Usable = {"a", "b"}
    SeenLimit = 2
    MaxTime = 4
    MaxLives = 2
    Given <- AllSettings
    Worker = {"worker"}
    PerMinute = 1
    MaxSent = 2
    Room = 1
    Client <- Two
    Approver = {"author", "other"}
    Author = "author"
    MaxFaults = 1
    MaxChanges = 2
    MaxEvents = 3
    Limit = 1
    Beat = 2
    Timeout = 3
    Watch = 1
    RetryMax = 2
    Sends = 2
    MaxRotations = 2
    Tries = 3
    Threshold = 3
    Reset = 3
    Message = {"delivery"}
    Copy = {1, 2, 3}
    Skew = 2
    Ahead = 1
    Upload = 1
    MaxNow = 6
    Ticket = {1, 2, 3}
    Hidden = {1}
    PerPage = 1
    MaxPages = 2
    Counted = TRUE
    MaxMoves = 2
    Procedure = {1, 2}
    Evidence <- Fittings
    Parameter = {"host", "queue", "zone"}
    Source <- Sources
    Value = {"db1", "db2"}
    Allowed <- Declared
    Confidence = 60
    MaxSteps = 2
    Recognised = {"ada", "bob", "key"}
    KindOf <- Recognisable
    MaxWords = 2
    MaxTexts = 2
    Transaction <- Two
    MaxTampered = 2
    Written <- TableAndLog
    Export <- Two
    MaxCommits = 2
    MaxBroken = 1
    FreeStep = {"first", "second"}
    FirstStep = "first"
    MaxInterruptions = 1
    Reference = {"x", "y"}
    Comparison = {"==", "<", "not in"}
    Quoted <- Lists
    Looked <- Looks
SYMMETRY Symmetry
CHECK_DEADLOCK FALSE
INVARIANTS
    TypeOK LifecycleHolds EveryRevisionOnce RecordsHold IntakeHolds AuthorityHolds WalkHolds
    AdviceHolds PolicyHolds CallsHold RunnerHolds ChangesHold ReadersHold ServiceHolds
PROPERTIES
    BudgetsHold InUseAsSaved
