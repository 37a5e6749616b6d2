SPECIFICATION Spec
CONSTANTS
    Slots = {bay}
    Watched = {bay}
    MinFailed = 2
    StaleAfter = 2
    SuppressWindow = 3
    Gaps = {1, 2}
    MaxTime = 7
    MaxEvents = 7
INVARIANTS
    RecurrenceAnnounced
