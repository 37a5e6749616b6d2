SPECIFICATION Spec
CONSTANTS
    Clients = {c1, c2}
    Attempts = {a1, a2, a3, a4}
    Limit = 2
    Window = 2
    MaxTime = 4
    Pages = {p1, p2}
    NoPage = NoPage
    MaxRecords = 5
    Posts = {r1}
    Slots = {s1, s2}
    Shapes = {small, large}
    Members = {m1, m2}
    NoConfig = NoConfig
    MaxChanges = 4
SYMMETRY Symmetry
INVARIANTS
    AttemptsBounded
    OncePerCycle
    ForeignSafetyProved
PROPERTIES
    LimitedOnlyWhenSpent
    RepeatOnlyWhenOvertaken
CHECK_DEADLOCK FALSE
