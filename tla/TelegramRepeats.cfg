SPECIFICATION Spec
CONSTANTS
    StateObjects = {}
    FlagObjects = {}
    CounterObjects = {media}
    TempObjects = {}
    Serials = {s1}
    MaxEvents = 2
    MaxFaults = 1
    ConfirmDelay = 1
    SuppressWindow = 1
    RetryBase = 1
    RetryMax = 2
    MaxTries = 2
    DeferTicks = 1
    Hints = {0, 3}
    MaxSends = 1
    MaxCandidates = 2
    PollInterval = 1
    OverdueCap = 0
    OldCooldown = 3
INVARIANTS
    RepeatsOnlyWhenUncertain
    OneMessagePerIncident
    
    WaitsAreBounded
PROPERTIES
    EmbargoKept
    ImplementsChannel
