SPECIFICATION Spec
CONSTANTS
    Keys = {media}
    Muted = {}
    WebKeys = {}
    LongKeys = {}
    Window = 1
    LongWindow = 1
    MaxEvents = 3
    MaxTime = 4
    MaxFaults = 0
INVARIANTS
    SuppressionEnds
