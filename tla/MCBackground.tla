----------------------------- MODULE MCBackground -----------------------------
(***************************************************************************)
(* The workers' lifespan, the retention job, the two deciding jobs and the *)
(* chip's temperature, checked side by side for TLC.  They share no state: *)
(* part says which of them moves.                                          *)
(***************************************************************************)
EXTENDS CollectorLeader, Retention, CollectorJobs, RocTemperature

VARIABLE part

backgroundVars == <<leaderVars, retentionVars, jobsVars, rocVars, part>>

\* The parts that do not move start in one state only.
Init ==
    /\ LeaderInit /\ RetentionInit /\ JobsInit /\ RocInit
    /\ part \in {"leader", "retention", "foreign", "disk", "roc"}
    /\ part # "retention" => rawDays = 1 /\ hourlyDays = 1
    /\ part # "foreign" => ~foreign
    /\ part # "disk" => space = "ample"
    /\ part # "roc" => tracked = 0

Next ==
    \/ part = "leader" /\ LeaderNext /\ UNCHANGED <<part, retentionVars, jobsVars, rocVars>>
    \/ part = "retention" /\ RetentionNext /\ UNCHANGED <<part, leaderVars, jobsVars, rocVars>>
    \/ part = "foreign" /\ ForeignNext /\ UNCHANGED <<part, leaderVars, retentionVars, rocVars>>
    \/ part = "disk" /\ DiskNext /\ UNCHANGED <<part, leaderVars, retentionVars, rocVars>>
    \/ part = "roc" /\ RocNext /\ UNCHANGED <<part, leaderVars, retentionVars, jobsVars>>

\* The fairness is about the workers, and says nothing of the other parts.
Spec == Init /\ [][Next]_backgroundVars /\ LeaderFairness
=============================================================================
