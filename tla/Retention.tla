------------------------------ MODULE Retention ------------------------------
(***************************************************************************)
(* The retention job (db/retention.py, services/scheduler.py): raw samples *)
(* become hourly and hourly metrics become daily ones before either is     *)
(* pruned, in one transaction under the collector's write lock.            *)
(*                                                                         *)
(* A sample is known by its day, its hour and a number, and an aggregate   *)
(* by the samples that went into it; what is computed from them (minima,   *)
(* maxima, averages and counts, per drive) is left out.  Time is counted   *)
(* in whole hours: the periods are whole days, so that both cutoffs are    *)
(* the start of an hour or of a day.                                       *)
(***************************************************************************)
EXTENDS Integers

CONSTANTS
    HoursPerDay,
    PerHour,    \* samples an hour can have
    LastDay,    \* bound: the calendar
    Periods     \* retention periods, in days, that the configuration can have

ASSUME RetentionAssumption ==
    /\ HoursPerDay \in Nat \ {0} /\ PerHour \in Nat \ {0} /\ LastDay \in Nat
    /\ Periods \subseteq Nat \ {0}

Days    == 0..LastDay
Hours   == 0..(HoursPerDay - 1)
Samples == [day : Days, hour : Hours, n : 1..PerHour]

VARIABLES
    day, hour,            \* the clock
    rawDays, hourlyDays,  \* the configured periods
    taken,                \* observation only: every sample ever stored
    raw,                  \* controller_snapshots
    hourly,               \* physical_drive_metrics_hourly: what is in each bucket
    daily                 \* physical_drive_metrics_daily

retentionVars == <<day, hour, rawDays, hourlyDays, taken, raw, hourly, daily>>

RetentionInit ==
    /\ day = 0 /\ hour = 0
    /\ rawDays \in Periods /\ hourlyDays \in Periods
    /\ taken = {} /\ raw = {}
    /\ hourly = [d \in Days |-> [h \in Hours |-> {}]] /\ daily = [d \in Days |-> {}]

HourPasses ==
    /\ \/ hour < HoursPerDay - 1 /\ hour' = hour + 1 /\ day' = day
       \/ hour = HoursPerDay - 1 /\ day < LastDay /\ hour' = 0 /\ day' = day + 1
    /\ UNCHANGED <<rawDays, hourlyDays, taken, raw, hourly, daily>>

\* insert_snapshot of a poll
TakeSample(n) ==
    LET sample == [day |-> day, hour |-> hour, n |-> n]
    IN  /\ sample \notin taken
        /\ taken' = taken \cup {sample} /\ raw' = raw \cup {sample}
        /\ UNCHANGED <<day, hour, rawDays, hourlyDays, hourly, daily>>

-----------------------------------------------------------------------------
\* captured_at < _hour_bucket(now - raw period)
RawExpired(d, h) == d < day - rawDays \/ (d = day - rawDays /\ h < hour)

\* bucket_start < _day_bucket(now - hourly period)
HourlyExpired(d) == d < day - hourlyDays

Bucket(d, h) == {s \in raw : s.day = d /\ s.hour = h}

\* downsample_to_hourly: the bucket's row is inserted or overwritten.
Downsampled ==
    [d \in Days |-> [h \in Hours |->
        IF RawExpired(d, h) /\ Bucket(d, h) # {} THEN Bucket(d, h) ELSE hourly[d][h]]]

FaultDownsampledDaily ==
    [d \in Days |->
        IF HourlyExpired(d) /\ UNION {hourly[d][h] : h \in Hours} # {}
        THEN UNION {hourly[d][h] : h \in Hours} ELSE daily[d]]

\* downsample_to_daily, of the hourly rows after that.
DownsampledDaily ==
    [d \in Days |->
        IF HourlyExpired(d) /\ UNION {Downsampled[d][h] : h \in Hours} # {}
        THEN UNION {Downsampled[d][h] : h \in Hours} ELSE daily[d]]

\* _run_retention_transaction; when it fails nothing of it is committed.
RunRetention ==
    /\ daily' = DownsampledDaily
    /\ raw' = {s \in raw : ~RawExpired(s.day, s.hour)}
    /\ hourly' = [d \in Days |-> IF HourlyExpired(d) THEN [h \in Hours |-> {}] ELSE Downsampled[d]]
    /\ UNCHANGED <<day, hour, rawDays, hourlyDays, taken>>

RetentionNext == HourPasses \/ RunRetention \/ \E n \in 1..PerHour : TakeSample(n)

RetentionSpec == RetentionInit /\ [][RetentionNext]_retentionVars

-----------------------------------------------------------------------------
(* Properties. *)

Places(s) == <<s \in raw, s \in hourly[s.day][s.hour], s \in daily[s.day]>>

\* When the hourly period is at least the raw one, every sample is in exactly one
\* of the three tables, however irregularly the job runs: none is pruned before it
\* is in the next coarser one, and no bucket is overwritten by a part of itself.
SamplesKept ==
    rawDays <= hourlyDays =>
        \A s \in taken : Places(s) \in {<<TRUE, FALSE, FALSE>>, <<FALSE, TRUE, FALSE>>,
                                        <<FALSE, FALSE, TRUE>>}
=============================================================================
