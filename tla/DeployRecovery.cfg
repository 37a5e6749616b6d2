SPECIFICATION FairSpec
CONSTANTS
    first = first
    second = second
    Commits = {first, second}
    Base = Base
    BaselineOf <- Chain
    None = None
    Other = Other
    MaxEdits = 1
    MaxFaults = 2
INVARIANTS
    ChangesRecorded
PROPERTIES
    VerifiedIsTrue
    RestoredIsTrue
    
    RecoveryCompletes
