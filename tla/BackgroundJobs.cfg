SPECIFICATION Spec
CONSTANTS
    Workers = {w1, w2, w3}
    Nobody = Nobody
    Jobs = {poll, notifier}
    MaxFailures = 3
    HoursPerDay = 2
    PerHour = 1
    LastDay = 4
    Periods = {1, 2}
    SuppressWindow = 2
    MaxClock = 6
    MaxLog = 4
    Temps = {1, 2, 4, 5, 6}
    Unknown = Unknown
    NoSample = NoSample
    Warning = 3
    Critical = 6
    Hysteresis = 2
    RepeatWindow = 2
    MaxPolls = 4
INVARIANTS
    OneWorkerWorks
    SamplesKept
    ForeignAnnounced
    
    RocMessagesTrue
PROPERTIES
    LeaderRegained
CHECK_DEADLOCK FALSE
