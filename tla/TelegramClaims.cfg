SPECIFICATION Spec
CONSTANTS
    StateObjects = {}
    FlagObjects = {}
    CounterObjects = {}
    TempObjects = {temp}
    Serials = {s1, s2}
    MaxEvents = 2
    MaxFaults = 1
    ConfirmDelay = 1
    SuppressWindow = 1
    RetryBase = 1
    RetryMax = 2
    MaxTries = 2
    DeferTicks = 1
    Hints = {0}
    MaxSends = 1
    MaxCandidates = 2
    PollInterval = 1
    OverdueCap = 0
    OldCooldown = 0
SYMMETRY Disks
PROPERTIES
    ClaimsAreCurrent
