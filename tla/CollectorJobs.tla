---------------------------- MODULE CollectorJobs ----------------------------
(***************************************************************************)
(* Two background jobs that decide from what they did before: the poll's   *)
(* foreign configuration alarm, which remembers the last observation in    *)
(* the process (services/collector.py, services/event_detector.py), and    *)
(* the free space check of the data partition, which looks at its own last *)
(* event (services/disk_monitor.py).  Each runs as one transaction under   *)
(* the collector's write lock (services/scheduler.py).                     *)
(***************************************************************************)
EXTENDS Integers, Sequences

CONSTANTS
    SuppressWindow,  \* SUPPRESS_WINDOW
    MaxClock,        \* bound: the clock
    MaxLog           \* bound: events of each category

ASSUME JobsAssumption == SuppressWindow \in Nat /\ MaxClock \in Nat /\ MaxLog \in Nat

VARIABLES
    \* the foreign configuration
    foreign,      \* the controller has one
    remembered,   \* _previous_foreign_config_present
    foreignLog,   \* its events: TRUE detected, FALSE cleared
    slipped,      \* observation only: a rolled back poll changed what is remembered
    \* the data partition
    clock,
    space,        \* its free space, against the thresholds
    diskLog       \* its events

foreignVars == <<foreign, remembered, foreignLog, slipped>>
diskVars    == <<clock, space, diskLog>>
jobsVars    == <<foreignVars, diskVars>>

\* "between": not low any more, within the hysteresis above the warning threshold.
Levels     == {"critical", "warning", "between", "ample"}
Severities == {"critical", "warning", "info"}

JobsInit ==
    /\ foreign \in BOOLEAN /\ remembered = FALSE /\ foreignLog = <<>>
    /\ slipped = FALSE
    /\ clock = 0 /\ space \in Levels /\ diskLog = <<>>

-----------------------------------------------------------------------------
(* The poll *)

ForeignChanges ==
    /\ foreign' = ~foreign
    /\ UNCHANGED <<remembered, foreignLog, slipped, diskVars>>

\* What collect_storcli_snapshot can say of it.  Controller, drives and CacheVault
\* must be complete and agree or the whole poll fails; this probe is optional, and
\* its failure means unknown.
Observations == {"unknown", IF foreign THEN "present" ELSE "absent"}

FaultDetectForeign(seen) ==
    IF seen = "present" /\ ~remembered /\ foreignLog = <<>> THEN <<TRUE>>
    ELSE IF seen = "absent" /\ remembered THEN <<FALSE>>
    ELSE <<>>

\* _detect_foreign_config: the event of a transition,
DetectForeign(seen) ==
    IF seen = "present" /\ ~remembered THEN <<TRUE>>
    ELSE IF seen = "absent" /\ remembered THEN <<FALSE>>
    ELSE <<>>

\* and what is remembered from then on.
Remember(seen) == IF seen = "unknown" THEN remembered ELSE seen = "present"

\* run_once commits the snapshot and the events of the detector.
PollCommits(seen) ==
    /\ Len(foreignLog) < MaxLog
    /\ foreignLog' = foreignLog \o DetectForeign(seen)
    /\ remembered' = Remember(seen)
    /\ UNCHANGED <<foreign, slipped, diskVars>>

\* The transaction is rolled back after the detector has run.
PollRollsBack(seen) ==
    /\ remembered' = Remember(seen)
    /\ slipped' = (slipped \/ DetectForeign(seen) # <<>>)
    /\ UNCHANGED <<foreign, foreignLog, diskVars>>

\* The next leader, or the same one after a restart, starts with a new detector.
NewDetector ==
    /\ remembered' = FALSE /\ slipped' = FALSE
    /\ UNCHANGED <<foreign, foreignLog, diskVars>>

-----------------------------------------------------------------------------
(* The free space check *)

Newest == diskLog[Len(diskLog)]

FaultSuppress(severity) ==
    Len(diskLog) > 0 /\ Newest.severity = severity /\ Newest.at > clock - SuppressWindow

\* _should_suppress
Suppress(severity) ==
    Len(diskLog) > 0 /\ Newest.severity = severity /\ Newest.at >= clock - SuppressWindow

\* Free space is back, well above the warning threshold, after an alarm.
Recovered == space = "ample" /\ Len(diskLog) > 0 /\ Newest.severity # "info"

\* check_data_partition_free_space
DueEvents ==
    IF space \in {"critical", "warning"}
    THEN IF Suppress(space) THEN {} ELSE {space}
    ELSE IF Recovered THEN {"info"} ELSE {}

SpaceChanges ==
    /\ \E level \in Levels : space' = level
    /\ clock < MaxClock /\ clock' = clock + 1
    /\ UNCHANGED <<diskLog, foreignVars>>

\* _run_disk_space_monitor_transaction
CheckSpace ==
    /\ Len(diskLog) < MaxLog
    /\ \/ DueEvents = {} /\ UNCHANGED diskLog
       \/ \E severity \in DueEvents :
             diskLog' = Append(diskLog, [severity |-> severity, at |-> clock])
    /\ UNCHANGED <<clock, space, foreignVars>>

ForeignNext ==
    \/ ForeignChanges \/ NewDetector
    \/ \E seen \in Observations : PollCommits(seen) \/ PollRollsBack(seen)

DiskNext == SpaceChanges \/ CheckSpace

JobsSpec == JobsInit /\ [][ForeignNext \/ DiskNext]_jobsVars

-----------------------------------------------------------------------------
(* Properties. *)

\* While the detector remembers a foreign configuration, and so keeps quiet about
\* it, the newest event announces it, unless a poll was rolled back in between.
ForeignAnnounced ==
    remembered => slipped \/ (Len(foreignLog) > 0 /\ foreignLog[Len(foreignLog)])

\* The free space log: a recovery only after an alarm, and an alarm repeated only
\* when the first one is older than the window, however the space moves.
DiskLogQuiet ==
    \A k \in 1..Len(diskLog) :
        /\ diskLog[k].severity = "info" => k > 1 /\ diskLog[k - 1].severity # "info"
        /\ k > 1 /\ diskLog[k].severity = diskLog[k - 1].severity
           => diskLog[k].at > diskLog[k - 1].at + SuppressWindow
=============================================================================
