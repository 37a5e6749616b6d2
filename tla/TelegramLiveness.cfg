SPECIFICATION FairSpec
CONSTANTS
    StateObjects = {vd}
    FlagObjects = {smart}
    CounterObjects = {}
    TempObjects = {}
    Serials = {s1}
    MaxEvents = 2
    MaxFaults = 1
    ConfirmDelay = 1
    SuppressWindow = 0
    RetryBase = 1
    RetryMax = 2
    MaxTries = 2
    DeferTicks = 1
    Hints = {0, 2}
    MaxSends = 1
    MaxCandidates = 1
    PollInterval = 1
    OverdueCap = 0
    OldCooldown = 0
PROPERTIES
    OpenIncidentsAnnounced
