SPECIFICATION FairSpec
CONSTANTS
    Requests = {r1}
    Families = {"locate_start", "locate_stop", "mark_ubad", "drive_action", "replace_offline", "replace_missing", "replace_insert", "patrol_read", "consistency_check", "buzzer", "foreign_config"}
    Deployments <- AnyDeployment
    Policies <- SomePolicies
    Unreadable = Unreadable
    Durations = {1}
    MaxTime = 2
    MaxEdits = 1
    MaxRestarts = 1
INVARIANTS NotSentIsTruthful SuccessIsAudited NoSilentWrite
PROPERTIES DispatchAuthorised EveryRequestEnds
CHECK_DEADLOCK FALSE
