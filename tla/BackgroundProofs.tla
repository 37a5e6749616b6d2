--------------------------- MODULE BackgroundProofs ---------------------------
(***************************************************************************)
(* Proofs about the background jobs: which worker runs them                *)
(* (CollectorLeader), what the retention keeps (Retention), the two jobs   *)
(* that decide from what they did before (CollectorJobs), and the messages *)
(* about the chip's temperature (RocTemperature), for any number of        *)
(* workers, samples and events.                                            *)
(***************************************************************************)
EXTENDS CollectorLeader, Retention, CollectorJobs, RocTemperature,
        SequenceTheorems, WellFoundedInduction, TLAPS

-----------------------------------------------------------------------------
(* The leader. *)

LeaderTypes ==
    /\ stage \in [Workers -> Stages]
    /\ scheduler \in [Workers -> {"none", "running", "paused"}]
    /\ submitted \in [Workers -> SUBSET Jobs] /\ active \in [Workers -> SUBSET Jobs]
    /\ DOMAIN retrying = Workers

\* Whatever is left of a scheduler is left of the lock holder's, and what a worker
\* that shuts down still has to wait for can only become less.
Leading(w) ==
    /\ scheduler[w] # "none" \/ submitted[w] # {} \/ active[w] # {} => collectorLock = w
    /\ stage[w] \in {"pausing", "draining"} => scheduler[w] # "running"
    /\ stage[w] = "draining" => submitted[w] = {}

LeaderInv == LeaderTypes /\ \A w \in Workers : Leading(w)

\* No worker runs in the beginning.
LEMMA LeaderStarts == LeaderInit => LeaderInv
  BY DEF LeaderInit, LeaderInv, LeaderTypes, Leading, Stages

\* Starting: only a free lock is taken, and then nobody has a scheduler.
LEMMA StartKeeps ==
    ASSUME LeaderInv, NEW w \in Workers,
           \/ Boot(w) \/ Migrated(w) \/ StartMetrics(w) \/ MetricsStarted(w)
           \/ StartCollector(w) \/ Retry(w) \/ SchedulerFails(w)
    PROVE  LeaderInv'
<1> USE LeaderAssumption DEF LeaderInv, LeaderTypes, Leading, Stages, To, jobVars
<1>1. CASE Boot(w)
  BY <1>1 DEF Boot
<1>2. CASE Migrated(w)
  BY <1>2 DEF Migrated
<1>3. CASE StartMetrics(w)
  BY <1>3 DEF StartMetrics
<1>4. CASE MetricsStarted(w)
  BY <1>4 DEF MetricsStarted
<1>5. CASE StartCollector(w)
  BY <1>5 DEF StartCollector, Leads
<1>6. CASE Retry(w)
  BY <1>6 DEF Retry, RetryRound, Leads
<1>7. CASE SchedulerFails(w)
  BY <1>7 DEF SchedulerFails
<1> QED
  BY <1>1, <1>2, <1>3, <1>4, <1>5, <1>6, <1>7

\* Jobs begin and end in the process that has the lock.
LEMMA JobsKeep ==
    ASSUME LeaderInv, NEW w \in Workers, NEW j \in Jobs,
           Submit(w, j) \/ Begin(w, j) \/ End(w, j)
    PROVE  LeaderInv'
<1> USE DEF LeaderInv, LeaderTypes, Leading, Stages
<1>1. CASE Submit(w, j)
  BY <1>1 DEF Submit
<1>2. CASE Begin(w, j)
  BY <1>2 DEF Begin
<1>3. CASE End(w, j)
  BY <1>3 DEF End
<1> QED
  BY <1>1, <1>2, <1>3

\* Stopping: the lock goes last, when nothing is submitted or active any more.
LEMMA StopKeeps ==
    ASSUME LeaderInv, NEW w \in Workers,
           Stop(w) \/ Pause(w) \/ Yield(w) \/ Drained(w) \/ Die(w)
    PROVE  LeaderInv'
<1> USE LeaderAssumption DEF LeaderInv, LeaderTypes, Leading, Stages, To, Given, jobVars
<1>1. CASE Stop(w)
  BY <1>1 DEF Stop
<1>2. CASE Pause(w)
  BY <1>2 DEF Pause
<1>3. CASE Yield(w)
  BY <1>3 DEF Yield
<1>4. CASE Drained(w)
  BY <1>4 DEF Drained
<1>5. CASE Die(w)
  BY <1>5 DEF Die
<1> QED
  BY <1>1, <1>2, <1>3, <1>4, <1>5

\* Background jobs run in one worker only, for any number of workers, failures and
\* deaths.
THEOREM OneLeaderWorks == LeaderSpec => []OneWorkerWorks
<1>1. LeaderInv /\ [LeaderNext]_leaderVars => LeaderInv'
  <2>1. ASSUME LeaderInv, UNCHANGED leaderVars
        PROVE  LeaderInv'
    BY <2>1 DEF LeaderInv, LeaderTypes, Leading, leaderVars
  <2> QED
    BY <2>1, StartKeeps, JobsKeep, StopKeeps DEF LeaderNext, WorkerStep, JobStep
<1>2. LeaderInv => OneWorkerWorks
  BY DEF LeaderInv, Leading, OneWorkerWorks, Working
<1> QED
  BY LeaderStarts, <1>1, <1>2, PTL DEF LeaderSpec
-----------------------------------------------------------------------------
(* The retention. *)

RetentionTypes ==
    /\ day \in Days /\ hour \in Hours
    /\ rawDays \in Nat \ {0} /\ hourlyDays \in Nat \ {0}
    /\ raw \subseteq Samples /\ taken \subseteq Samples
    /\ hourly \in [Days -> [Hours -> SUBSET Samples]] /\ daily \in [Days -> SUBSET Samples]

\* A filled hourly bucket is complete: its hour is past the cutoff and has no raw
\* samples any more, so that nothing overwrites it.
HoursComplete ==
    \A d \in Days, h \in Hours :
        hourly[d][h] # {} => RawExpired(d, h) /\ Bucket(d, h) = {}

\* A filled daily bucket is complete in the same way.
DaysComplete ==
    \A d \in Days : daily[d] # {} =>
        HourlyExpired(d) /\ \A h \in Hours : hourly[d][h] = {} /\ Bucket(d, h) = {}

NoneLost ==
    \A s \in taken : s \in raw \/ s \in hourly[s.day][s.hour] \/ s \in daily[s.day]

RetentionInv ==
    rawDays <= hourlyDays => HoursComplete /\ DaysComplete /\ NoneLost

\* Cutoffs move forward only, and the hourly one is never ahead of the raw one.
LEMMA Cutoffs ==
    ASSUME RetentionTypes, NEW d \in Days, NEW h \in Hours
    PROVE  /\ ~RawExpired(day, hour) /\ ~HourlyExpired(day)
           /\ rawDays <= hourlyDays /\ HourlyExpired(d) => RawExpired(d, h)
           /\ HourPasses => /\ RawExpired(d, h) => RawExpired(d, h)'
                            /\ HourlyExpired(d) => HourlyExpired(d)'
<1> USE RetentionAssumption DEF RetentionTypes, RawExpired, HourlyExpired, Days, Hours
<1>1. ~RawExpired(day, hour) /\ ~HourlyExpired(day)
  OBVIOUS
<1>2. rawDays <= hourlyDays /\ HourlyExpired(d) => RawExpired(d, h)
  OBVIOUS
<1>3. ASSUME HourPasses, RawExpired(d, h) PROVE RawExpired(d, h)'
  BY <1>3 DEF HourPasses
<1>4. ASSUME HourPasses, HourlyExpired(d) PROVE HourlyExpired(d)'
  BY <1>4 DEF HourPasses
<1> QED
  BY <1>1, <1>2, <1>3, <1>4

\* The tables begin empty.
LEMMA RetentionStarts == RetentionInit => RetentionTypes /\ RetentionInv
  BY RetentionAssumption
     DEF RetentionInit, RetentionTypes, RetentionInv, HoursComplete, DaysComplete, NoneLost, Days, Hours

\* Every step keeps the types of the tables.
LEMMA RetentionTyped ==
    ASSUME RetentionTypes, RetentionNext \/ UNCHANGED retentionVars
    PROVE  RetentionTypes'
<1> USE DEF RetentionTypes
<1>1. CASE HourPasses
  BY <1>1, RetentionAssumption DEF HourPasses, Days, Hours
<1>2. ASSUME NEW n \in 1..PerHour, TakeSample(n)
      PROVE  RetentionTypes'
  BY <1>2 DEF TakeSample, Samples
<1>3. CASE RunRetention
  <2>1. Downsampled \in [Days -> [Hours -> SUBSET Samples]]
    BY DEF Downsampled, Bucket
  <2>2. DownsampledDaily \in [Days -> SUBSET Samples]
    BY <2>1 DEF DownsampledDaily
  <2> QED
    BY <1>3, <2>1, <2>2 DEF RunRetention
<1>4. CASE UNCHANGED retentionVars
  BY <1>4 DEF retentionVars
<1> QED
  BY <1>1, <1>2, <1>3, <1>4 DEF RetentionNext

\* A new sample belongs to an hour that neither cutoff has reached.
LEMMA SampleKeeps ==
    ASSUME RetentionTypes, RetentionInv, rawDays <= hourlyDays,
           NEW n \in 1..PerHour, TakeSample(n)
    PROVE  HoursComplete' /\ DaysComplete' /\ NoneLost'
<1> DEFINE new == [day |-> day, hour |-> hour, n |-> n]
<1>1. ~RawExpired(day, hour) /\ ~HourlyExpired(day)
  BY Cutoffs DEF RetentionTypes
<1>2. /\ raw' = raw \cup {new} /\ taken' = taken \cup {new}
      /\ UNCHANGED <<day, hour, rawDays, hourlyDays, hourly, daily>>
      /\ new.day = day /\ new.hour = hour
  BY DEF TakeSample
<1>3. /\ \A d \in Days, h \in Hours : (d # day \/ h # hour) => Bucket(d, h)' = Bucket(d, h)
      /\ \A d \in Days, h \in Hours : RawExpired(d, h)' = RawExpired(d, h)
      /\ \A d \in Days : HourlyExpired(d)' = HourlyExpired(d)
  BY <1>2 DEF Bucket, RawExpired, HourlyExpired
<1>4. HoursComplete /\ DaysComplete /\ NoneLost
  BY DEF RetentionInv
<1>5. HoursComplete'
  BY <1>1, <1>2, <1>3, <1>4 DEF HoursComplete
<1>6. DaysComplete'
  BY <1>1, <1>2, <1>3, <1>4 DEF DaysComplete
<1>7. NoneLost'
  BY <1>2, <1>4 DEF NoneLost
<1> QED
  BY <1>5, <1>6, <1>7

\* One run of the job: an expired hour moves as a whole, and so does an expired day.
LEMMA JobKeeps ==
    ASSUME RetentionTypes, RetentionInv, rawDays <= hourlyDays, RunRetention
    PROVE  HoursComplete' /\ DaysComplete' /\ NoneLost'
<1> USE DEF RunRetention
<1>1. /\ HoursComplete /\ DaysComplete /\ NoneLost
      /\ \A d \in Days, h \in Hours : RawExpired(d, h)' = RawExpired(d, h)
      /\ \A d \in Days : HourlyExpired(d)' = HourlyExpired(d)
      /\ \A d \in Days, h \in Hours : HourlyExpired(d) => RawExpired(d, h)
  BY Cutoffs DEF RetentionInv, RawExpired, HourlyExpired
<1>2. \A d \in Days, h \in Hours :
          Downsampled[d][h] =
            IF RawExpired(d, h) /\ Bucket(d, h) # {} THEN Bucket(d, h) ELSE hourly[d][h]
  BY DEF Downsampled
<1>3. \A d \in Days :
          DownsampledDaily[d] =
            IF HourlyExpired(d) /\ UNION {Downsampled[d][h] : h \in Hours} # {}
            THEN UNION {Downsampled[d][h] : h \in Hours} ELSE daily[d]
  BY DEF DownsampledDaily
<1>4. \A d \in Days, h \in Hours :
          hourly'[d][h] = IF HourlyExpired(d) THEN {} ELSE Downsampled[d][h]
  BY DEF Downsampled
<1>5. \A d \in Days, h \in Hours :
          Bucket(d, h)' = IF RawExpired(d, h) THEN {} ELSE Bucket(d, h)
  BY DEF Bucket
<1>6. HoursComplete'
  BY <1>1, <1>2, <1>4, <1>5 DEF HoursComplete
<1>7. DaysComplete'
  BY <1>1, <1>2, <1>3, <1>4, <1>5 DEF DaysComplete
<1>8. NoneLost'
  <2> SUFFICES ASSUME NEW s \in taken
               PROVE  s \in raw' \/ s \in hourly'[s.day][s.hour] \/ s \in daily'[s.day]
    BY DEF NoneLost
  <2>1. s.day \in Days /\ s.hour \in Hours
    BY DEF RetentionTypes, Samples
  <2>2. CASE s \in daily[s.day]
    <3>1. \A h \in Hours : Downsampled[s.day][h] = {}
      BY <1>1, <1>2, <2>1, <2>2 DEF DaysComplete
    <3>2. UNION {Downsampled[s.day][h] : h \in Hours} = {}
      BY <3>1
    <3>3. daily'[s.day] = daily[s.day]
      BY <1>3, <2>1, <3>2
    <3> QED
      BY <2>2, <3>3
  <2>3. CASE s \in raw /\ ~RawExpired(s.day, s.hour)
    BY <2>3
  <2>4. CASE s \in Downsampled[s.day][s.hour]
    <3> DEFINE all == UNION {Downsampled[s.day][h] : h \in Hours}
    <3>1. s \in all
      BY <2>1, <2>4
    <3>2. HourlyExpired(s.day) => daily'[s.day] = all
      BY <1>3, <2>1, <3>1
    <3>3. ~HourlyExpired(s.day) => hourly'[s.day][s.hour] = Downsampled[s.day][s.hour]
      BY <1>4, <2>1
    <3> QED
      BY <2>4, <3>1, <3>2, <3>3
  <2>5. s \in raw /\ RawExpired(s.day, s.hour) => s \in Downsampled[s.day][s.hour]
    <3>1. s \in raw => s \in Bucket(s.day, s.hour)
      BY DEF Bucket
    <3> QED
      BY <1>2, <2>1, <3>1
  <2>6. s \in hourly[s.day][s.hour] => s \in Downsampled[s.day][s.hour]
    BY <1>1, <1>2, <2>1 DEF HoursComplete
  <2> QED
    BY <1>1, <2>2, <2>3, <2>4, <2>5, <2>6 DEF NoneLost
<1> QED
  BY <1>6, <1>7, <1>8

\* When the hourly period is at least the raw one, every sample is in exactly one
\* of the three tables, for any periods, samples and times of the job.
THEOREM EverySampleKept == RetentionSpec => []SamplesKept
<1>1. RetentionTypes /\ RetentionInv /\ [RetentionNext]_retentionVars => RetentionInv'
  <2> SUFFICES ASSUME RetentionTypes, RetentionInv, [RetentionNext]_retentionVars,
                      (rawDays <= hourlyDays)'
               PROVE  HoursComplete' /\ DaysComplete' /\ NoneLost'
    BY DEF RetentionInv
  <2>1. rawDays <= hourlyDays
    BY DEF RetentionNext, HourPasses, RunRetention, TakeSample, retentionVars
  <2>2. CASE HourPasses
    <3>1. /\ \A d \in Days, h \in Hours : RawExpired(d, h) => RawExpired(d, h)'
          /\ \A d \in Days : HourlyExpired(d) => HourlyExpired(d)'
      BY <2>2, Cutoffs, RetentionAssumption DEF Hours
    <3>2. UNCHANGED <<taken, raw, hourly, daily>>
      BY <2>2 DEF HourPasses
    <3> QED
      BY <2>1, <3>1, <3>2 DEF RetentionInv, HoursComplete, DaysComplete, NoneLost, Bucket
  <2>3. CASE UNCHANGED retentionVars
    BY <2>1, <2>3
       DEF RetentionInv, HoursComplete, DaysComplete, NoneLost, Bucket, RawExpired,
           HourlyExpired, retentionVars
  <2> QED
    BY <2>1, <2>2, <2>3, SampleKeeps, JobKeeps DEF RetentionNext
<1>2. RetentionTypes /\ RetentionInv => SamplesKept
  <2> SUFFICES ASSUME RetentionTypes, RetentionInv, rawDays <= hourlyDays, NEW s \in taken
               PROVE  Places(s) \in {<<TRUE, FALSE, FALSE>>, <<FALSE, TRUE, FALSE>>,
                                     <<FALSE, FALSE, TRUE>>}
    BY DEF SamplesKept
  <2>1. s.day \in Days /\ s.hour \in Hours
    BY DEF RetentionTypes, Samples
  <2>2. /\ s \in raw => s \notin hourly[s.day][s.hour] /\ s \notin daily[s.day]
        /\ s \in hourly[s.day][s.hour] => s \notin daily[s.day]
        /\ s \in raw \/ s \in hourly[s.day][s.hour] \/ s \in daily[s.day]
    BY <2>1 DEF RetentionInv, HoursComplete, DaysComplete, NoneLost, Bucket
  <2>3. CASE s \in raw
    <3>1. /\ (s \in raw) = TRUE /\ (s \in hourly[s.day][s.hour]) = FALSE
          /\ (s \in daily[s.day]) = FALSE
      BY <2>2, <2>3
    <3>2. Places(s) = <<TRUE, FALSE, FALSE>>
      BY <3>1, Zenon DEF Places
    <3> QED
      BY <3>2, Zenon
  <2>4. CASE s \in hourly[s.day][s.hour]
    <3>1. /\ (s \in raw) = FALSE /\ (s \in hourly[s.day][s.hour]) = TRUE
          /\ (s \in daily[s.day]) = FALSE
      BY <2>2, <2>4
    <3>2. Places(s) = <<FALSE, TRUE, FALSE>>
      BY <3>1, Zenon DEF Places
    <3> QED
      BY <3>2, Zenon
  <2>5. CASE s \in daily[s.day]
    <3>1. /\ (s \in raw) = FALSE /\ (s \in hourly[s.day][s.hour]) = FALSE
          /\ (s \in daily[s.day]) = TRUE
      BY <2>2, <2>5
    <3>2. Places(s) = <<FALSE, FALSE, TRUE>>
      BY <3>1, Zenon DEF Places
    <3> QED
      BY <3>2, Zenon
  <2> QED
    BY <2>2, <2>3, <2>4, <2>5
<1> QED
  BY RetentionStarts, RetentionTyped, <1>1, <1>2, PTL DEF RetentionSpec
-----------------------------------------------------------------------------
(* The poll's foreign configuration alarm and the free space check. *)

Announcements == {TRUE, FALSE}
DiskEvents == [severity : Severities, at : Nat]

AlarmTypes == foreignLog \in Seq(Announcements)

PartitionTypes ==
    /\ clock \in Nat /\ diskLog \in Seq(DiskEvents)

\* The newest event of the partition is not from the future.
NotAhead == \A k \in 1..Len(diskLog) : diskLog[k].at <= clock

JobsInv == AlarmTypes /\ PartitionTypes /\ NotAhead /\ ForeignAnnounced /\ DiskLogQuiet

\* What an event adds to a log.
LEMMA OneMore ==
    ASSUME NEW S, NEW x \in S, NEW log \in Seq(S)
    PROVE  /\ log \o <<x>> \in Seq(S) /\ Len(log \o <<x>>) = Len(log) + 1
           /\ (log \o <<x>>)[Len(log) + 1] = x
<1>1. <<x>> \in Seq(S)
  OBVIOUS
<1> QED
  BY <1>1, ConcatProperties

\* Steps about the foreign configuration.
LEMMA ForeignKeeps ==
    ASSUME JobsInv, ForeignNext
    PROVE  JobsInv'
<1> USE DEF JobsInv
<1>1. UNCHANGED diskVars
  BY DEF ForeignNext, ForeignChanges, NewDetector, PollCommits, PollRollsBack
<1>2. NotAhead' /\ DiskLogQuiet' /\ PartitionTypes'
  BY <1>1 DEF diskVars, NotAhead, DiskLogQuiet, PartitionTypes
<1> DEFINE Kept == AlarmTypes' /\ ForeignAnnounced'
<1>3. CASE ForeignChanges
  <2>1. foreignLog' = foreignLog /\ remembered' = remembered /\ slipped' = slipped
    BY <1>3 DEF ForeignChanges
  <2> QED
    BY <1>2, <2>1, Zenon DEF ForeignAnnounced, AlarmTypes
<1>4. CASE NewDetector
  <2>1. foreignLog' = foreignLog /\ remembered' = FALSE
    BY <1>4 DEF NewDetector
  <2> QED
    BY <1>2, <2>1, Zenon DEF ForeignAnnounced, AlarmTypes
<1>5. ASSUME NEW seen \in Observations, PollCommits(seen)
      PROVE  Kept
  <2>1. TRUE \in Announcements /\ FALSE \in Announcements /\ slipped' = slipped
    BY <1>5 DEF PollCommits, Announcements
  <2>2. CASE DetectForeign(seen) = <<TRUE>>
    <3>1. /\ AlarmTypes' /\ Len(foreignLog') = Len(foreignLog) + 1
          /\ foreignLog'[Len(foreignLog) + 1] = TRUE
      BY <1>5, <2>1, <2>2, OneMore DEF PollCommits, AlarmTypes
    <3>2. Len(foreignLog) \in Nat
      BY DEF AlarmTypes
    <3> QED
      BY <3>1, <3>2 DEF ForeignAnnounced
  <2>3. CASE seen = "absent" /\ DetectForeign(seen) = <<FALSE>>
    <3>1. AlarmTypes'
      BY <1>5, <2>1, <2>3, OneMore DEF PollCommits, AlarmTypes
    <3>2. ~remembered'
      BY <1>5, <2>3 DEF PollCommits, Remember
    <3> QED
      BY <3>1, <3>2 DEF ForeignAnnounced
  <2>4. CASE DetectForeign(seen) = <<>> /\ (remembered' => remembered)
    <3>1. foreignLog' = foreignLog
      BY <1>5, <2>4, ConcatEmptySeq DEF PollCommits, AlarmTypes
    <3> QED
      BY <2>1, <2>4, <3>1 DEF ForeignAnnounced, AlarmTypes
  <2>5. \/ DetectForeign(seen) = <<TRUE>>
        \/ seen = "absent" /\ DetectForeign(seen) = <<FALSE>>
        \/ DetectForeign(seen) = <<>> /\ (remembered' => remembered)
    BY <1>5 DEF PollCommits, DetectForeign, Remember, Observations
  <2> QED
    BY <2>2, <2>3, <2>4, <2>5
<1>6. ASSUME NEW seen \in Observations, PollRollsBack(seen)
      PROVE  Kept
  BY <1>6 DEF PollRollsBack, DetectForeign, Remember, ForeignAnnounced, AlarmTypes
<1> QED
  BY <1>2, <1>3, <1>4, <1>5, <1>6 DEF ForeignNext

\* Steps about the partition.
LEMMA DiskKeeps ==
    ASSUME JobsInv, DiskNext
    PROVE  JobsInv'
<1> USE DEF JobsInv
<1>1. UNCHANGED foreignVars
  BY DEF DiskNext, SpaceChanges, CheckSpace
<1>2. ForeignAnnounced' /\ AlarmTypes'
  BY <1>1, Zenon DEF foreignVars, ForeignAnnounced, AlarmTypes
<1> DEFINE Quiet == PartitionTypes' /\ NotAhead' /\ DiskLogQuiet'
<1>3. ASSUME SpaceChanges PROVE Quiet
  <2>1. \A k \in 1..Len(diskLog) : diskLog[k] \in DiskEvents
    BY DEF PartitionTypes
  <2>2. \A k \in 1..Len(diskLog) : diskLog[k].at \in Nat
    BY <2>1 DEF DiskEvents
  <2>3. diskLog' = diskLog /\ clock' \in Nat /\ (clock' = clock \/ clock' = clock + 1)
    BY <1>3 DEF SpaceChanges, PartitionTypes
  <2>4. PartitionTypes' /\ DiskLogQuiet'
    BY <2>3 DEF DiskLogQuiet, PartitionTypes
  <2>5. NotAhead'
    BY <2>2, <2>3 DEF NotAhead, PartitionTypes
  <2> QED
    BY <2>4, <2>5
<1>4. ASSUME CheckSpace, UNCHANGED diskLog PROVE Quiet
  BY <1>4 DEF CheckSpace, NotAhead, DiskLogQuiet, PartitionTypes
<1>5. ASSUME NEW severity \in DueEvents, CheckSpace,
             diskLog' = Append(diskLog, [severity |-> severity, at |-> clock])
      PROVE  Quiet
  <2> DEFINE n == Len(diskLog)
  <2>1. /\ severity \in Severities
        /\ severity = "info" => n > 0 /\ diskLog[n].severity # "info"
        /\ n > 0 /\ diskLog[n].severity = severity /\ severity # "info"
           => clock > diskLog[n].at + SuppressWindow
    <3>1. n \in Nat /\ (n > 0 => diskLog[n].at \in Nat) /\ clock \in Nat
      <4>1. n \in Nat /\ clock \in Nat /\ (n > 0 => diskLog[n] \in DiskEvents)
        BY DEF PartitionTypes
      <4> QED
        BY <4>1 DEF DiskEvents
    <3>2. CASE space \in {"critical", "warning"}
      BY <1>5, <3>1, <3>2, JobsAssumption DEF DueEvents, Suppress, Newest, Severities
    <3>3. CASE space \notin {"critical", "warning"}
      BY <1>5, <3>1, <3>3 DEF DueEvents, Recovered, Newest, Severities
    <3> QED
      BY <3>2, <3>3
  <2>2. /\ n \in Nat /\ clock' = clock /\ clock \in Nat
        /\ Len(diskLog') = n + 1
        /\ diskLog'[n + 1].severity = severity /\ diskLog'[n + 1].at = clock
        /\ \A k \in 1..n : diskLog'[k] = diskLog[k]
        /\ diskLog' \in Seq(DiskEvents)
    <3> DEFINE new == [severity |-> severity, at |-> clock]
    <3>1. new \in DiskEvents /\ new.severity = severity /\ new.at = clock
      BY <2>1 DEF PartitionTypes, DiskEvents
    <3> HIDE DEF new
    <3>2. diskLog' = Append(diskLog, new) /\ clock' = clock
      BY <1>5 DEF CheckSpace, new
    <3> QED
      BY <3>1, <3>2 DEF PartitionTypes
  <2>3. NotAhead'
    BY <2>2 DEF NotAhead
  <2>4. DiskLogQuiet'
    <3> SUFFICES ASSUME NEW k \in 1..(n + 1)
                 PROVE  /\ diskLog'[k].severity = "info"
                           => k > 1 /\ diskLog'[k - 1].severity # "info"
                        /\ k > 1 /\ diskLog'[k].severity = diskLog'[k - 1].severity
                           => diskLog'[k].at > diskLog'[k - 1].at + SuppressWindow
      BY <2>2 DEF DiskLogQuiet
    <3>1. CASE k = n + 1
      BY <2>1, <2>2, <3>1
    <3>2. CASE k \in 1..n
      <4>1. k > 1 => k - 1 \in 1..n
        BY <2>2, <3>2
      <4> QED
        BY <2>2, <3>2, <4>1 DEF DiskLogQuiet
    <3> QED
      BY <2>2, <3>1, <3>2
  <2> QED
    BY <2>2, <2>3, <2>4 DEF PartitionTypes
<1> QED
  BY <1>2, <1>3, <1>4, <1>5 DEF DiskNext, CheckSpace

\* The invariant of the two jobs.
LEMMA JobsInvariant == JobsSpec => []JobsInv
<1>1. JobsInit => JobsInv
  BY DEF JobsInit, JobsInv, AlarmTypes, PartitionTypes, NotAhead, ForeignAnnounced, DiskLogQuiet
<1>2. JobsInv /\ [ForeignNext \/ DiskNext]_jobsVars => JobsInv'
  <2>1. ASSUME JobsInv, UNCHANGED jobsVars
        PROVE  JobsInv'
    BY <2>1 DEF JobsInv, AlarmTypes, PartitionTypes, NotAhead, ForeignAnnounced, DiskLogQuiet, jobsVars, foreignVars,
                diskVars
  <2> QED
    BY <2>1, ForeignKeeps, DiskKeeps
<1> QED
  BY <1>1, <1>2, PTL DEF JobsSpec

\* A foreign configuration that the detector keeps quiet about has been announced,
\* unless a poll was rolled back, for any number of polls and restarts.
THEOREM ForeignIsAnnounced == JobsSpec => []ForeignAnnounced
<1>1. JobsInv => ForeignAnnounced
  BY DEF JobsInv
<1> QED
  BY JobsInvariant, <1>1, PTL

\* The free space log is quiet for any window and any course of the free space.
THEOREM DiskLogIsQuiet == JobsSpec => []DiskLogQuiet
<1>1. JobsInv => DiskLogQuiet
  BY DEF JobsInv
<1> QED
  BY JobsInvariant, <1>1, PTL

-----------------------------------------------------------------------------
(***************************************************************************)
(* The chip's temperature.  No clear that a tracking process saw is later  *)
(* than the stored one, whatever the retention pruned: so an event that    *)
(* the stored clear does not end has not been ended by any.                *)
(***************************************************************************)
RocRow == [severity : Alarms \cup {"info"}, at : Nat,
           verdict : {"none", "sent", "obsolete", "duplicate"}, decided : Nat]

RocTypes ==
    /\ readings \in Seq(Temps \cup {Unknown, NoSample}) /\ rocLog \in Seq(RocRow)
    /\ cleared \in [Alarms -> Nat] /\ oldest \in Nat \ {0} /\ tracked \in Nat

\* Nothing that is stored is later than the last poll.
RocClock ==
    /\ polls <= MaxPolls /\ (tracked = MaxPolls \/ tracked <= polls)
    /\ \A s \in Alarms : cleared[s] <= polls
    /\ \A i \in 1..Len(rocLog) : rocLog[i].at <= polls /\ rocLog[i].decided <= polls

ClearsStored ==
    \A s \in Alarms, u \in 1..polls :
        u > tracked /\ IsClear(s, readings[u]) => u <= cleared[s]

RocInv == RocTypes /\ RocClock /\ ClearsStored /\ RocMessagesTrue

\* A non-empty set of polls has a last one.
LEMMA LastExists ==
    ASSUME NEW n \in Nat, NEW T, T \subseteq 1..n, T # {}
    PROVE  \E t \in T : \A u \in T : u <= t
<1> DEFINE Gaps == {n - u : u \in T}
<1>1. Gaps \subseteq Nat /\ Gaps # {}
  <2>1. PICK u : u \in T
    OBVIOUS
  <2>2. n - u \in Gaps
    BY <2>1
  <2>3. \A v \in T : n - v \in Nat
    OBVIOUS
  <2> QED
    BY <2>2, <2>3
<1> HIDE DEF Gaps
<1>2. PICK g \in Gaps : \A h \in Gaps : ~(<<h, g>> \in OpToRel(<, Nat))
  BY <1>1, WFMin, NatLessThanWellFounded
<1>3. \A h \in Gaps : ~(h < g)
  BY <1>1, <1>2 DEF OpToRel
<1>4. PICK t \in T : g = n - t
  BY DEF Gaps
<1>5. ASSUME NEW u \in T PROVE u <= t
  <2>1. n - u \in Gaps
    BY DEF Gaps
  <2>2. ~(n - u < n - t) /\ u \in Int /\ t \in Int
    BY <1>3, <1>4, <2>1
  <2> QED
    BY <2>2
<1> QED
  BY <1>5

\* The stored clear is a poll, and of the new clears none is after the new poll.
LEMMA ClearsType ==
    ASSUME RocTypes, RocClock, NEW temp
    PROVE  /\ Clears(temp) \in [Alarms -> Nat]
           /\ \A s \in Alarms : Clears(temp)[s] <= polls + 1
           /\ \A s \in Alarms : cleared[s] # 0 => cleared[s] <= Clears(temp)[s]
           /\ \A s \in Alarms : IsClear(s, temp) => Clears(temp)[s] = polls + 1
<1>1. polls \in Nat /\ Retained \subseteq 1..polls
  BY DEF polls, Retained, RocTypes
<1>2. ASSUME NEW T, T \subseteq Retained PROVE MaxOf(T) \in 0..polls
  <2>1. CASE T = {}
    BY <1>1, <2>1 DEF MaxOf
  <2>2. CASE T # {}
    <3>1. \E t \in T : \A u \in T : u <= t
      BY <1>1, <1>2, <2>2, LastExists
    <3>2. MaxOf(T) \in T
      BY <2>2, <3>1, Zenon DEF MaxOf
    <3>3. T \subseteq 1..polls
      BY <1>1, <1>2
    <3>4. \A t \in 1..polls : t \in 0..polls
      BY <1>1
    <3> QED
      BY <3>2, <3>3, <3>4
  <2> QED
    BY <2>1, <2>2
<1>3. \A s \in Alarms : MaxOf({t \in Retained : IsClear(s, readings[t])}) \in 0..polls
  BY <1>2
<1>4. \A s \in Alarms : cleared[s] \in Nat /\ cleared[s] <= polls
  BY DEF RocTypes, RocClock
<1> QED
  BY <1>1, <1>3, <1>4 DEF Clears

\* The detector reports severities.
LEMMA DetectRocType ==
    ASSUME NEW before, NEW temp
    PROVE  DetectRoc(before, temp) \in Seq(Alarms \cup {"info"})
<1>1. ASSUME NEW S, NEW a \in Seq(S), NEW b \in Seq(S), NEW c \in Seq(S), NEW d \in Seq(S)
      PROVE  a \o b \o c \o d \in Seq(S)
  BY <1>1
<1> DEFINE Sev == Alarms \cup {"info"}
           one(due, severity) == IF due THEN <<severity>> ELSE <<>>
<1>2. \A due : \A s \in Sev : one(due, s) \in Seq(Sev)
  <2>1. <<>> \in Seq(Sev) /\ \A s \in Sev : <<s>> \in Seq(Sev)
    OBVIOUS
  <2> QED
    BY <2>1, Zenon
<1>3. {"warning", "critical", "info"} \subseteq Sev /\ <<>> \in Seq(Sev)
  BY DEF Alarms
<1> HIDE DEF Sev
<1>4. /\ one(Crossed("warning", before, temp), "warning") \in Seq(Sev)
      /\ one(Crossed("critical", before, temp), "critical") \in Seq(Sev)
      /\ one(CoolsDown("critical", before, temp), "info") \in Seq(Sev)
      /\ one(CoolsDown("warning", before, temp), "info") \in Seq(Sev)
  BY <1>2, <1>3
<1>5. DetectRoc(before, temp) \in Seq(Sev)
  BY <1>1, <1>3, <1>4, Zenon DEF DetectRoc
<1> QED
  BY <1>5 DEF Sev

\* What was true of the rows stays true while rows and readings are only added.
LEMMA RocHistory ==
    ASSUME RocTypes, RocClock, RocMessagesTrue, readings' \in Seq(Temps \cup {Unknown, NoSample}),
           tracked' \in Nat, polls <= polls', Len(rocLog) <= Len(rocLog)', Len(rocLog)' \in Nat,
           \A u \in 1..polls : readings'[u] = readings[u],
           tracked' = tracked \/ tracked' = polls,
           \A i \in 1..Len(rocLog) : rocLog'[i] = rocLog[i],
           \A i \in 1..Len(rocLog)' : i > Len(rocLog) => rocLog'[i].verdict = "none"
    PROVE  RocMessagesTrue'
<1>1. polls \in Nat /\ polls' \in Nat /\ Len(rocLog) \in Nat
  BY DEF polls, RocTypes
<1>2. ASSUME NEW i \in 1..Len(rocLog)
      PROVE  /\ rocLog[i].at \in Nat /\ rocLog[i].decided \in Nat
             /\ rocLog[i].at <= polls /\ rocLog[i].decided <= polls
             /\ rocLog'[i] = rocLog[i] /\ i \in 1..Len(rocLog)'
  <2>1. rocLog[i] \in RocRow
    BY DEF RocTypes
  <2> QED
    BY <1>1, <2>1 DEF RocClock, RocRow
<1>3. ASSUME NEW i \in 1..Len(rocLog), NEW t \in Nat, t <= polls, ~CooledDown(i, t)
      PROVE  \A u \in (rocLog[i].at + 1)..t :
                u > tracked' => ~IsClear(rocLog[i].severity, readings'[u])
  <2> SUFFICES ASSUME NEW u \in (rocLog[i].at + 1)..t, u > tracked',
                      IsClear(rocLog[i].severity, readings'[u])
               PROVE  FALSE
    OBVIOUS
  <2>1. u \in 1..polls /\ readings'[u] = readings[u]
    BY <1>1, <1>2, <1>3
  <2>2. u > tracked
    BY <1>1, <2>1 DEF RocClock, RocTypes
  <2> QED
    BY <1>3, <2>1, <2>2 DEF CooledDown
<1>4. ASSUME NEW j \in 1..Len(rocLog)', rocLog'[j].verdict \in {"sent", "duplicate"}
      PROVE  j \in 1..Len(rocLog)
  BY <1>1, <1>4
<1>5. ASSUME NEW j \in 1..Len(rocLog)', rocLog'[j].verdict = "sent"
      PROVE  ~CooledDown(j, rocLog[j].decided)'
  <2>1. j \in 1..Len(rocLog) /\ rocLog'[j] = rocLog[j]
    BY <1>2, <1>4, <1>5
  <2>2. ~CooledDown(j, rocLog[j].decided)
    BY <1>5, <2>1 DEF RocMessagesTrue
  <2>3. \A u \in (rocLog[j].at + 1)..rocLog[j].decided :
           u > tracked' => ~IsClear(rocLog[j].severity, readings'[u])
    BY <1>2, <1>3, <2>1, <2>2
  <2> QED
    BY <2>1, <2>3 DEF CooledDown
<1>6. ASSUME NEW i \in 1..Len(rocLog), NEW j \in 1..Len(rocLog), ~Ended(i, j, rocLog[j].at)
      PROVE  ~Ended(i, j, rocLog[j].at)'
  <2>1. /\ ~CooledDown(i, rocLog[j].at)
        /\ \A k \in (i + 1)..j : rocLog[k].severity = rocLog[i].severity
    BY <1>6 DEF Ended
  <2>2. \A u \in (rocLog[i].at + 1)..rocLog[j].at :
           u > tracked' => ~IsClear(rocLog[i].severity, readings'[u])
    BY <1>2, <1>3, <2>1
  <2>3. \A k \in (i + 1)..j : k \in 1..Len(rocLog)
    BY <1>1
  <2> QED
    BY <1>2, <2>1, <2>2, <2>3 DEF CooledDown, Ended
<1>7. ASSUME NEW j \in 1..Len(rocLog)', rocLog'[j].verdict = "duplicate"
      PROVE  \E i \in 1..Len(rocLog)' :
                 /\ rocLog'[i].verdict = "sent" /\ rocLog'[i].severity = rocLog'[j].severity
                 /\ \/ i < j /\ ~Ended(i, j, rocLog[j].at)'
                    \/ j < i /\ ~Ended(j, i, rocLog[i].at)'
  <2>1. j \in 1..Len(rocLog) /\ rocLog'[j] = rocLog[j]
    BY <1>2, <1>4, <1>7
  <2>2. PICK i \in 1..Len(rocLog) :
           /\ rocLog[i].verdict = "sent" /\ rocLog[i].severity = rocLog[j].severity
           /\ \/ i < j /\ ~Ended(i, j, rocLog[j].at)
              \/ j < i /\ ~Ended(j, i, rocLog[i].at)
    BY <1>7, <2>1 DEF RocMessagesTrue
  <2>3. \/ i < j /\ ~Ended(i, j, rocLog[j].at)'
        \/ j < i /\ ~Ended(j, i, rocLog[i].at)'
    BY <1>6, <2>1, <2>2
  <2> QED
    BY <1>2, <2>1, <2>2, <2>3
<1> QED
  BY <1>5, <1>7 DEF RocMessagesTrue

\* A poll: the stored clears cover the new reading and all earlier ones.
LEMMA RocPollKeeps ==
    ASSUME RocInv, (\E temp \in Temps \cup {Unknown} : RocPoll(temp)) \/ RocPollFails
    PROVE  RocInv'
<1> USE DEF RocInv
<1>1. PICK n \in Nat : n = polls /\ polls = Len(readings)
  BY DEF polls, RocTypes
<1>2. PICK m \in Nat : m = Len(rocLog)
  BY DEF RocTypes
<1>3. PICK temp \in Temps \cup {Unknown, NoSample} :
        RocPoll(temp) \/ (RocPollFails /\ temp = NoSample)
  <2>1. CASE RocPollFails
    BY <2>1
  <2>2. CASE \E temp \in Temps \cup {Unknown} : RocPoll(temp)
    <3>1. PICK x \in Temps \cup {Unknown} : RocPoll(x)
      BY <2>2
    <3>2. PICK y \in Temps \cup {Unknown, NoSample} : y = x
      OBVIOUS
    <3>3. RocPoll(y)
      BY <3>1, <3>2
    <3> QED
      BY <3>3
  <2> QED
    BY <2>1, <2>2
<1>4. /\ n < MaxPolls /\ readings' = Append(readings, temp) /\ polls' = n + 1
      /\ readings' \in Seq(Temps \cup {Unknown, NoSample})
      /\ readings'[n + 1] = temp /\ \A u \in 1..n : readings'[u] = readings[u]
      /\ tracked' = tracked /\ oldest' = oldest
      /\ tracked \in Nat /\ oldest \in Nat \ {0} /\ cleared \in [Alarms -> Nat]
      /\ rocLog \in Seq(RocRow)
  <2>1. /\ n < MaxPolls /\ readings' = Append(readings, temp)
        /\ tracked' = tracked /\ oldest' = oldest
    BY <1>1, <1>3 DEF RocPoll, RocPollFails
  <2>2. /\ readings \in Seq(Temps \cup {Unknown, NoSample}) /\ n = Len(readings)
        /\ tracked \in Nat /\ oldest \in Nat \ {0} /\ cleared \in [Alarms -> Nat]
        /\ rocLog \in Seq(RocRow)
    BY <1>1 DEF RocTypes
  <2>3. /\ readings' \in Seq(Temps \cup {Unknown, NoSample}) /\ Len(readings') = n + 1
        /\ readings'[n + 1] = temp /\ \A u \in 1..n : readings'[u] = readings[u]
    BY <2>1, <2>2, AppendProperties
  <2> QED
    BY <2>1, <2>2, <2>3 DEF polls
<1>5. PICK severities \in Seq(Alarms \cup {"info"}) :
        rocLog' = rocLog \o [k \in 1..Len(severities) |-> RocEvent(severities[k])]
  <2>1. CASE RocPoll(temp)
    BY <2>1, DetectRocType DEF RocPoll
  <2>2. CASE RocPollFails
    <3>1. <<>> \in Seq(Alarms \cup {"info"}) /\ Len(<<>>) = 0
      OBVIOUS
    <3>2. [k \in 1..Len(<<>>) |-> RocEvent(<<>>[k])] = <<>>
      BY <3>1
    <3>3. rocLog' = rocLog \o <<>>
      BY <1>4, <2>2, ConcatEmptySeq DEF RocPollFails
    <3> QED
      BY <3>1, <3>2, <3>3
  <2> QED
    BY <1>3, <2>1, <2>2
<1>6. PICK new : new = [k \in 1..Len(severities) |-> RocEvent(severities[k])]
  OBVIOUS
<1>7. /\ new \in Seq(RocRow) /\ Len(new) = Len(severities)
      /\ \A k \in 1..Len(new) : /\ new[k].at = n + 1 /\ new[k].decided = 0
                                /\ new[k].verdict = "none"
  <2>1. \A k \in 1..Len(severities) : severities[k] \in Alarms \cup {"info"}
    OBVIOUS
  <2>2. \A s \in Alarms \cup {"info"} :
          /\ RocEvent(s) \in RocRow /\ RocEvent(s).at = n + 1 /\ RocEvent(s).decided = 0
          /\ RocEvent(s).verdict = "none"
    BY <1>1 DEF RocEvent, RocRow
  <2>3. Len(severities) \in Nat
    OBVIOUS
  <2> HIDE DEF RocInv
  <2> QED
    BY <1>6, <2>1, <2>2, <2>3
<1>8. /\ rocLog' \in Seq(RocRow) /\ Len(rocLog') = m + Len(new) /\ Len(new) \in Nat
      /\ \A i \in 1..m : rocLog'[i] = rocLog[i]
      /\ \A i \in 1..Len(rocLog') : i > m => i - m \in 1..Len(new) /\ rocLog'[i] = new[i - m]
  BY <1>2, <1>4, <1>5, <1>6, <1>7, ConcatProperties
<1>9. /\ cleared' \in [Alarms -> Nat]
      /\ \A s \in Alarms : cleared'[s] <= n + 1
      /\ \A s \in Alarms : cleared[s] # 0 => cleared[s] <= cleared'[s]
      /\ \A s \in Alarms : tracked < MaxPolls /\ IsClear(s, temp) => cleared'[s] = n + 1
  <2>1. CASE RocPoll(temp) /\ tracked < MaxPolls
    <3>1. cleared' = Clears(temp)
      BY <2>1 DEF RocPoll
    <3> QED
      BY <1>1, <3>1, ClearsType
  <2>2. CASE cleared' = cleared /\ (tracked < MaxPolls => temp = NoSample)
    <3>1. \A s \in Alarms : cleared[s] \in Nat /\ cleared[s] <= n
      BY <1>1, <1>4 DEF RocClock
    <3> QED
      BY <1>1, <1>4, <2>2, <3>1 DEF IsClear, Known
  <2> QED
    BY <1>3, <2>1, <2>2 DEF RocPoll, RocPollFails
<1>10. RocTypes'
  BY <1>4, <1>8, <1>9 DEF RocTypes
<1>11. RocClock'
  <2>1. n + 1 <= MaxPolls /\ (tracked' = MaxPolls \/ tracked' <= n + 1)
    BY <1>1, <1>4, RocAssumption DEF RocClock
  <2>2. ASSUME NEW i \in 1..Len(rocLog')
        PROVE  rocLog'[i].at <= n + 1 /\ rocLog'[i].decided <= n + 1
    <3>1. CASE i \in 1..m
      <4>1. rocLog[i] \in RocRow /\ rocLog[i].at <= n /\ rocLog[i].decided <= n
        BY <1>1, <1>2, <1>4, <3>1 DEF RocClock
      <4> QED
        BY <1>8, <3>1, <4>1 DEF RocRow
    <3>2. CASE i > m
      BY <1>7, <1>8, <3>2
    <3> QED
      BY <1>8, <3>1, <3>2
  <2> QED
    BY <1>4, <1>9, <2>1, <2>2 DEF RocClock
<1>12. ClearsStored'
  <2> SUFFICES ASSUME NEW s \in Alarms, NEW u \in 1..(n + 1), u > tracked,
                      IsClear(s, readings'[u])
               PROVE  u <= cleared'[s]
    BY <1>4 DEF ClearsStored
  <2>1. tracked < MaxPolls
    BY <1>1, <1>4, RocAssumption DEF RocClock
  <2>2. CASE u = n + 1
    BY <1>4, <1>9, <2>1, <2>2
  <2>3. CASE u \in 1..n
    <3>1. u <= cleared[s]
      BY <1>1, <1>4, <2>3 DEF ClearsStored
    <3>2. cleared[s] \in Nat /\ cleared'[s] \in Nat /\ u \in Nat /\ u # 0
      BY <1>4, <1>9
    <3>3. cleared[s] <= cleared'[s]
      BY <1>9, <3>1, <3>2
    <3> QED
      BY <3>1, <3>2, <3>3
  <2> QED
    BY <2>2, <2>3
<1>13. RocMessagesTrue'
  <2>1. \A i \in 1..Len(rocLog)' : i > Len(rocLog) => rocLog'[i].verdict = "none"
    BY <1>2, <1>7, <1>8
  <2>2. polls <= polls' /\ Len(rocLog) <= Len(rocLog)' /\ Len(rocLog)' \in Nat
    BY <1>1, <1>2, <1>4, <1>8
  <2> QED
    BY <1>1, <1>2, <1>4, <1>8, <2>1, <2>2, RocHistory
<1> QED
  BY <1>10, <1>11, <1>12, <1>13

\* An event that the stored clear does not end was not ended by any clear.
LEMMA StoredClearsTell ==
    ASSUME RocInv, NEW i \in 1..Len(rocLog), rocLog[i].severity \in Alarms,
           NEW t \in Nat, t <= polls, cleared[rocLog[i].severity] <= rocLog[i].at
    PROVE  ~CooledDown(i, t)
<1>1. polls \in Nat /\ rocLog[i].at \in Nat
  <2>1. rocLog[i] \in RocRow
    BY DEF RocInv, RocTypes
  <2> QED
    BY <2>1 DEF RocInv, RocTypes, RocRow, polls
<1> SUFFICES ASSUME NEW u \in (rocLog[i].at + 1)..t, u > tracked,
                    IsClear(rocLog[i].severity, readings[u])
             PROVE  FALSE
  BY DEF CooledDown
<1>2. u \in 1..polls
  BY <1>1
<1>3. u <= cleared[rocLog[i].severity]
  BY <1>2 DEF RocInv, ClearsStored
<1> QED
  BY <1>1, <1>3 DEF RocInv, RocTypes

\* The verdict: what is sent goes on, and a duplicate is about the incident of a
\* message that was sent.
LEMMA RocVerdictTrue ==
    ASSUME RocInv, NEW j \in 1..Len(rocLog), rocLog[j].severity \in Alarms
    PROVE  /\ RocVerdict(j) \in {"sent", "obsolete", "duplicate"}
           /\ RocVerdict(j) = "sent" => ~CooledDown(j, polls)
           /\ RocVerdict(j) = "duplicate" =>
                \E i \in 1..Len(rocLog) :
                    /\ rocLog[i].verdict = "sent" /\ rocLog[i].severity = rocLog[j].severity
                    /\ i # j
                    /\ \/ i < j /\ ~Ended(i, j, rocLog[j].at)
                       \/ j < i /\ ~Ended(j, i, rocLog[i].at)
<1> DEFINE sev == rocLog[j].severity
<1>1. /\ polls \in Nat /\ Len(rocLog) \in Nat /\ cleared \in [Alarms -> Nat]
      /\ cleared[sev] \in Nat /\ cleared[sev] <= polls
      /\ \A i \in 1..Len(rocLog) : rocLog[i] \in RocRow /\ rocLog[i].at <= polls
  BY DEF RocInv, RocTypes, RocClock, polls
<1>2. \A i \in 1..Len(rocLog) : rocLog[i].at \in Nat
  BY <1>1 DEF RocRow
<1>3. ASSUME ~RocSuperseded(j, Len(rocLog), polls)
      PROVE  /\ cleared[sev] <= rocLog[j].at
             /\ \A k \in (j + 1)..Len(rocLog) : rocLog[k].severity = sev
  BY <1>1, <1>2, <1>3 DEF RocSuperseded, RocRecovered
<1>4. RocVerdict(j) = "sent" => ~CooledDown(j, polls)
  BY <1>1, <1>3, StoredClearsTell DEF RocVerdict
<1>5. ASSUME RocVerdict(j) = "duplicate"
      PROVE  \E i \in 1..Len(rocLog) :
                 /\ rocLog[i].verdict = "sent" /\ rocLog[i].severity = sev /\ i # j
                 /\ \/ i < j /\ ~Ended(i, j, rocLog[j].at)
                    \/ j < i /\ ~Ended(j, i, rocLog[i].at)
  <2>1. ~RocSuperseded(j, Len(rocLog), polls) /\ SameRocSent(j)
    BY <1>5 DEF RocVerdict
  <2>2. PICK i \in 1..Len(rocLog) :
          /\ i # j /\ rocLog[i].severity = sev /\ rocLog[i].verdict = "sent"
          /\ ~RocSuperseded(i, j, rocLog[j].at)
    BY <2>1 DEF SameRocSent
  <2>3. CASE i < j
    <3>1. \A k \in (i + 1)..j : rocLog[k].severity = sev
      BY <2>2 DEF RocSuperseded
    <3>2. ~(rocLog[i].at < cleared[sev] /\ cleared[sev] <= rocLog[j].at)
      BY <2>2 DEF RocSuperseded, RocRecovered
    <3>3. cleared[sev] <= rocLog[i].at
      BY <1>1, <1>2, <1>3, <2>1, <3>2
    <3>4. ~CooledDown(i, rocLog[j].at)
      BY <1>1, <1>2, <2>2, <3>3, StoredClearsTell
    <3> QED
      BY <2>2, <2>3, <3>1, <3>4 DEF Ended
  <2>4. CASE j < i
    <3>1. ~CooledDown(j, rocLog[i].at)
      BY <1>1, <1>2, <1>3, <2>1, StoredClearsTell
    <3>2. \A k \in (j + 1)..i : k \in (j + 1)..Len(rocLog)
      BY <1>1
    <3>3. \A k \in (j + 1)..i : rocLog[k].severity = sev
      BY <1>3, <2>1, <3>2
    <3> QED
      BY <2>2, <2>4, <3>1, <3>3 DEF Ended
  <2> QED
    BY <2>2, <2>3, <2>4
<1> QED
  BY <1>4, <1>5 DEF RocVerdict

\* A verdict is recorded in its own row and changes no other.
LEMMA RocDecideKeeps ==
    ASSUME RocInv, NEW j \in 1..Len(rocLog), RocDecide(j)
    PROVE  RocInv'
<1> USE DEF RocInv
<1>1. PICK verdict : verdict = RocVerdict(j)
  OBVIOUS
<1>2. PICK n \in Nat : n = polls
  BY DEF polls, RocTypes
<1>3. /\ rocLog[j].severity \in Alarms /\ rocLog[j].verdict = "none"
      /\ readings' = readings /\ oldest' = oldest /\ cleared' = cleared /\ tracked' = tracked
      /\ rocLog' = [rocLog EXCEPT ![j].verdict = verdict, ![j].decided = n]
      /\ rocLog \in Seq(RocRow) /\ polls' = n
  BY <1>1, <1>2 DEF RocDecide, RocTypes, polls
<1>4. /\ verdict \in {"sent", "obsolete", "duplicate"}
      /\ verdict = "sent" => ~CooledDown(j, n)
      /\ verdict = "duplicate" =>
           \E i \in 1..Len(rocLog) :
               /\ rocLog[i].verdict = "sent" /\ rocLog[i].severity = rocLog[j].severity
               /\ i # j
               /\ \/ i < j /\ ~Ended(i, j, rocLog[j].at)
                  \/ j < i /\ ~Ended(j, i, rocLog[i].at)
  BY <1>1, <1>2, <1>3, RocVerdictTrue
<1>5. /\ Len(rocLog') = Len(rocLog) /\ rocLog' \in Seq(RocRow)
      /\ \A i \in 1..Len(rocLog) : /\ rocLog'[i].severity = rocLog[i].severity
                                   /\ rocLog'[i].at = rocLog[i].at
                                   /\ i # j => rocLog'[i] = rocLog[i]
      /\ rocLog'[j].verdict = verdict /\ rocLog'[j].decided = n
  <2>1. rocLog[j] \in RocRow
    BY <1>3
  <2>2. [rocLog[j] EXCEPT !.verdict = verdict, !.decided = n] \in RocRow
    BY <1>4, <2>1 DEF RocRow
  <2>3. rocLog' = [rocLog EXCEPT ![j] = [rocLog[j] EXCEPT !.verdict = verdict, !.decided = n]]
    BY <1>3
  <2>4. PICK row \in RocRow : row = [rocLog[j] EXCEPT !.verdict = verdict, !.decided = n]
    BY <2>2
  <2>5. /\ row.verdict = verdict /\ row.decided = n
        /\ row.severity = rocLog[j].severity /\ row.at = rocLog[j].at
    BY <2>1, <2>4 DEF RocRow
  <2>6. rocLog' = [rocLog EXCEPT ![j] = row]
    BY <2>3, <2>4
  <2>7. /\ Len(rocLog') = Len(rocLog) /\ rocLog' \in Seq(RocRow) /\ rocLog'[j] = row
        /\ \A i \in 1..Len(rocLog) : i # j => rocLog'[i] = rocLog[i]
    <3>1. DOMAIN rocLog = 1..Len(rocLog) /\ \A i \in 1..Len(rocLog) : rocLog[i] \in RocRow
      BY <1>3
    <3>2. /\ rocLog' \in [1..Len(rocLog) -> RocRow] /\ rocLog'[j] = row
          /\ \A i \in 1..Len(rocLog) : i # j => rocLog'[i] = rocLog[i]
      BY <2>6, <3>1
    <3>3. Len(rocLog) \in Nat
      BY <1>3
    <3> QED
      BY <3>2, <3>3
  <2> QED
    BY <2>5, <2>7
<1>6. RocTypes'
  BY <1>3, <1>5 DEF RocTypes
<1>7. RocClock'
  BY <1>2, <1>3, <1>5 DEF RocClock
<1>8. ClearsStored'
  BY <1>2, <1>3 DEF ClearsStored
<1>9. ASSUME NEW i \in 1..Len(rocLog), NEW k \in 1..Len(rocLog),
             ~Ended(i, k, rocLog[k].at)
      PROVE  ~Ended(i, k, rocLog[k].at)'
  <2>1. \A l \in (i + 1)..k : l \in 1..Len(rocLog)
    BY <1>3
  <2> QED
    BY <1>3, <1>5, <1>9, <2>1 DEF CooledDown, Ended
<1>10. ASSUME NEW k \in 1..Len(rocLog), rocLog'[k].verdict = "sent"
       PROVE  ~CooledDown(k, rocLog[k].decided)'
  <2>1. CASE k = j
    <3>1. ~CooledDown(j, n)
      BY <1>4, <1>5, <1>10, <2>1
    <3> QED
      BY <1>3, <1>5, <2>1, <3>1 DEF CooledDown
  <2>2. CASE k # j
    <3>1. ~CooledDown(k, rocLog[k].decided)
      BY <1>5, <1>10, <2>2 DEF RocMessagesTrue
    <3> QED
      BY <1>3, <1>5, <2>2, <3>1 DEF CooledDown
  <2> QED
    BY <2>1, <2>2
<1>11. ASSUME NEW k \in 1..Len(rocLog), rocLog'[k].verdict = "duplicate"
       PROVE  \E i \in 1..Len(rocLog) :
                  /\ rocLog'[i].verdict = "sent" /\ rocLog'[i].severity = rocLog'[k].severity
                  /\ \/ i < k /\ ~Ended(i, k, rocLog[k].at)'
                     \/ k < i /\ ~Ended(k, i, rocLog[i].at)'
  <2>1. PICK i \in 1..Len(rocLog) :
          /\ rocLog[i].verdict = "sent" /\ rocLog[i].severity = rocLog[k].severity
          /\ \/ i < k /\ ~Ended(i, k, rocLog[k].at)
             \/ k < i /\ ~Ended(k, i, rocLog[i].at)
    <3>1. CASE k = j
      BY <1>4, <1>5, <1>11, <3>1
    <3>2. CASE k # j
      BY <1>5, <1>11, <3>2 DEF RocMessagesTrue
    <3> QED
      BY <3>1, <3>2
  <2>2. i # j
    BY <1>3, <2>1
  <2>3. \/ i < k /\ ~Ended(i, k, rocLog[k].at)'
        \/ k < i /\ ~Ended(k, i, rocLog[i].at)'
    BY <1>9, <2>1
  <2> QED
    BY <1>5, <2>1, <2>2, <2>3
<1>12. RocMessagesTrue'
  BY <1>5, <1>10, <1>11 DEF RocMessagesTrue
<1> QED
  BY <1>6, <1>7, <1>8, <1>12

\* The invariant of the temperature messages.
LEMMA RocInvariant == RocSpec => []RocInv
<1>1. RocInit => RocInv
  <2> SUFFICES ASSUME RocInit PROVE RocInv
    OBVIOUS
  <2>1. /\ readings = <<>> /\ rocLog = <<>> /\ oldest = 1 /\ cleared = [s \in Alarms |-> 0]
        /\ tracked \in {0, MaxPolls}
    BY DEF RocInit
  <2>2. polls = 0 /\ Len(rocLog) = 0
    BY <2>1 DEF polls
  <2>3. RocTypes
    BY <2>1, RocAssumption DEF RocTypes
  <2> QED
    BY <2>1, <2>2, <2>3, RocAssumption DEF RocInv, RocClock, ClearsStored, RocMessagesTrue
<1>2. RocInv /\ [RocNext]_rocVars => RocInv'
  <2> SUFFICES ASSUME RocInv, [RocNext]_rocVars PROVE RocInv'
    OBVIOUS
  <2>1. CASE \E temp \in Temps \cup {Unknown} : RocPoll(temp)
    BY <2>1, RocPollKeeps
  <2>2. CASE RocPollFails
    BY <2>2, RocPollKeeps
  <2>3. ASSUME NEW j \in 1..Len(rocLog), RocDecide(j) PROVE RocInv'
    BY <2>3, RocDecideKeeps
  <2>4. CASE RocUpgrade \/ (\E t \in 2..MaxPolls : t <= polls /\ RocPrune(t))
             \/ UNCHANGED rocVars
    <3>1. /\ readings' = readings /\ cleared' = cleared /\ rocLog' = rocLog
          /\ polls' = polls /\ polls \in Nat
      BY <2>4 DEF RocUpgrade, RocPrune, rocVars, polls, RocInv, RocTypes
    <3>2. /\ oldest' \in Nat \ {0}
          /\ tracked' = tracked \/ (tracked = MaxPolls /\ tracked' = polls)
      <4>1. oldest \in Nat \ {0} /\ \A t \in 2..MaxPolls : t \in Nat \ {0}
        BY DEF RocInv, RocTypes
      <4>2. CASE \E t \in 2..MaxPolls : t <= polls /\ RocPrune(t)
        BY <4>1, <4>2 DEF RocPrune
      <4>3. CASE RocUpgrade
        BY <4>1, <4>3 DEF RocUpgrade
      <4>4. CASE UNCHANGED rocVars
        BY <4>1, <4>4 DEF rocVars
      <4> QED
        BY <2>4, <4>2, <4>3, <4>4
    <3>3. RocTypes' /\ RocClock'
      BY <3>1, <3>2 DEF RocInv, RocTypes, RocClock
    <3>4. ClearsStored'
      BY <3>1, <3>2 DEF RocInv, RocTypes, RocClock, ClearsStored
    <3>5. Len(rocLog) \in Nat
      BY DEF RocInv, RocTypes
    <3>6. RocMessagesTrue'
      BY <3>1, <3>2, <3>3, <3>5, RocHistory DEF RocInv, RocTypes
    <3> QED
      BY <3>3, <3>4, <3>6 DEF RocInv
  <2> QED
    BY <2>1, <2>2, <2>3, <2>4 DEF RocNext
<1> QED
  BY <1>1, <1>2, PTL DEF RocSpec

\* A temperature message is sent only about an incident that goes on, and a duplicate
\* is one of a message about the same incident, for any thresholds, any course of the
\* temperature and whatever the retention pruned (services/telegram_relevance.py).
THEOREM RocMessagesAreTrue == RocSpec => []RocMessagesTrue
<1>1. RocInv => RocMessagesTrue
  BY DEF RocInv
<1> QED
  BY RocInvariant, <1>1, PTL

-----------------------------------------------------------------------------
(***************************************************************************)
(* A chip that is still critically hot has its event: the detector reports *)
(* it at the first hot sample, or again when it lost sight of the one      *)
(* before, and no clear can lie between that event and a later hot sample  *)
(* without another event.                                                  *)
(***************************************************************************)

\* The last sample that was stored, pruned or not, is at or above Critical.
ChipHot ==
    \E t \in 1..polls :
        /\ Known(readings[t]) /\ readings[t] >= Critical
        /\ \A u \in (t + 1)..polls : readings[u] = NoSample

\* Event i is about the heat that lasts.
Lasting(i) ==
    /\ rocLog[i].severity = "critical" /\ rocLog[i].verdict # "obsolete"
    /\ cleared["critical"] <= rocLog[i].at
    /\ \A t \in (rocLog[i].at + 1)..polls : ~IsClear("critical", readings[t])

\* While the chip is hot, the newest event says so, and Telegram has not dropped it as
\* obsolete, through failed polls, samples without a temperature, pruning and upgrades.
HotChipKept == ChipHot => Len(rocLog) > 0 /\ Lasting(Len(rocLog))

\* The detector compares with the last stored sample, or with nothing once that
\* is pruned: a hot one is the one the chip's heat is known by.
LEMMA PreviousSample ==
    ASSUME RocTypes
    PROVE  /\ ~Known(Previous) \/ Previous \in Int
           /\ Known(Previous) /\ Previous >= Critical => ChipHot
<1>1. PICK n \in Nat : n = polls /\ n = Len(readings)
  BY DEF polls, RocTypes
<1>2. PICK T : T = {u \in Retained : readings[u] # NoSample}
  OBVIOUS
<1>3. T \subseteq 1..n /\ Retained = oldest..n /\ oldest \in Nat \ {0}
  <2>1. oldest \in Nat \ {0} /\ Retained = oldest..n
    BY <1>1 DEF RocTypes, Retained
  <2>2. \A u \in oldest..n : u \in 1..n
    BY <2>1
  <2> QED
    BY <1>2, <2>1, <2>2
<1>4. Previous = IF T = {} THEN Unknown ELSE readings[MaxOf(T)]
  BY <1>2 DEF Previous
<1>5. CASE T = {}
  BY <1>4, <1>5 DEF Known
<1>6. CASE T # {}
  <2>1. \E t \in T : \A u \in T : u <= t
    BY <1>3, <1>6, LastExists
  <2>2. MaxOf(T) \in T /\ \A u \in T : u <= MaxOf(T)
    BY <1>6, <2>1, Zenon DEF MaxOf
  <2>3. PICK t \in 1..n : t = MaxOf(T) /\ t \in T /\ \A u \in T : u <= t
    BY <1>3, <2>2
  <2>4. Previous = readings[t]
    BY <1>4, <1>6, <2>3
  <2>5. readings[t] \in Temps \cup {Unknown, NoSample}
    BY <1>1, <2>3 DEF RocTypes
  <2>6. ~Known(Previous) \/ Previous \in Int
    BY <2>4, <2>5, RocAssumption DEF Known
  <2>7. ASSUME NEW u \in (t + 1)..n PROVE readings[u] = NoSample
    <3>1. u \in Retained /\ ~(u <= t)
      BY <1>2, <1>3, <2>3
    <3> QED
      BY <1>2, <2>3, <3>1
  <2> QED
    BY <1>1, <2>4, <2>6, <2>7 DEF ChipHot
<1> QED
  BY <1>5, <1>6

\* A hot sample is reported in the last place, unless the one before was hot.
LEMMA HotIsReported ==
    ASSUME NEW before, NEW temp \in Int, Known(temp), temp >= Critical,
           ~Known(before) \/ (before \in Int)
    PROVE  \/ /\ Known(before) /\ before >= Critical
              /\ DetectRoc(before, temp) = <<>>
           \/ /\ Len(DetectRoc(before, temp)) > 0
              /\ DetectRoc(before, temp)[Len(DetectRoc(before, temp))] = "critical"
<1>1. /\ Critical > Warning /\ Critical \in Int /\ Warning \in Int
      /\ Hysteresis \in Int /\ 1 <= Hysteresis
  BY RocAssumption
<1>2. ~CoolsDown("critical", before, temp) /\ ~CoolsDown("warning", before, temp)
  BY <1>1 DEF CoolsDown, Boundary, Threshold
<1>3. CASE Known(before) /\ before >= Critical
  <2>1. ~Crossed("warning", before, temp) /\ ~Crossed("critical", before, temp)
    BY <1>1, <1>3 DEF Crossed, Threshold
  <2>2. DetectRoc(before, temp) = <<>> \o <<>> \o <<>> \o <<>>
    BY <1>2, <2>1, Zenon DEF DetectRoc
  <2>3. <<>> \in Seq(Nat) /\ \A x \in Seq(Nat) : x \o <<>> = x
    OBVIOUS
  <2>4. DetectRoc(before, temp) = <<>>
    BY <2>2, <2>3, Zenon
  <2> QED
    BY <1>3, <2>4
<1>4. CASE ~(Known(before) /\ before >= Critical)
  <2>1. Crossed("critical", before, temp)
    BY <1>1, <1>4 DEF Crossed, Threshold
  <2>2. PICK x : x = IF Crossed("warning", before, temp) THEN <<"warning">> ELSE <<>>
    OBVIOUS
  <2>3. DetectRoc(before, temp) = x \o <<"critical">> \o <<>> \o <<>>
    BY <1>2, <2>1, <2>2, Zenon DEF DetectRoc
  <2>4. x \in Seq({"warning", "critical"})
    <3>1. <<>> \in Seq({"warning", "critical"}) /\ <<"warning">> \in Seq({"warning", "critical"})
      OBVIOUS
    <3> QED
      BY <2>2, <3>1
  <2>5. PICK y : y = x \o <<"critical">>
    OBVIOUS
  <2>6. /\ y \in Seq({"warning", "critical"}) /\ Len(y) = Len(x) + 1 /\ Len(x) \in Nat
        /\ y[Len(x) + 1] = "critical"
    BY <2>4, <2>5
  <2>7. y \o <<>> = y
    BY <2>6
  <2>8. DetectRoc(before, temp) = y
    BY <2>3, <2>5, <2>7, Zenon
  <2>9. Len(y) > 0 /\ y[Len(y)] = "critical"
    BY <2>6
  <2> QED
    BY <2>8, <2>9, Zenon
<1> QED
  BY <1>3, <1>4

\* A hot poll that adds no event goes on with the one there is.
LEMMA HeatGoesOn ==
    ASSUME RocInv, HotChipKept, ChipHot, NEW temp \in Temps, Known(temp), temp >= Critical,
           RocPoll(temp), rocLog' = rocLog
    PROVE  Len(rocLog') > 0 /\ Lasting(Len(rocLog))'
<1> USE DEF RocInv
<1>1. PICK n \in Nat : n = polls /\ n = Len(readings)
  BY DEF polls, RocTypes
<1>2. PICK e : e = Len(rocLog)
  OBVIOUS
<1>3. /\ e \in Nat /\ e > 0 /\ rocLog[e] \in RocRow /\ rocLog[e].at \in Nat
      /\ rocLog[e].at <= n /\ Lasting(e)
  <2>1. e \in Nat /\ e > 0 /\ Lasting(e)
    BY <1>2 DEF HotChipKept, RocTypes
  <2>2. rocLog[e] \in RocRow
    BY <1>2, <2>1 DEF RocTypes
  <2> QED
    BY <1>1, <1>2, <2>1, <2>2 DEF RocClock, RocRow
<1>4. /\ readings' = Append(readings, temp) /\ polls' = n + 1
      /\ \A u \in 1..n : readings'[u] = readings[u]
      /\ readings'[n + 1] = temp
  BY <1>1 DEF RocPoll, RocTypes, polls
<1>5. ~IsClear("critical", temp)
  BY RocAssumption DEF IsClear, Boundary, Threshold
<1>6. ASSUME NEW t \in (rocLog[e].at + 1)..(n + 1)
      PROVE  ~IsClear("critical", readings'[t])
  <2>1. CASE t = n + 1
    BY <1>4, <1>5, <2>1
  <2>2. CASE t # n + 1
    <3>1. t \in (rocLog[e].at + 1)..n /\ t \in 1..n
      BY <1>3, <2>2
    <3> QED
      BY <1>1, <1>3, <1>4, <3>1 DEF Lasting
  <2> QED
    BY <2>1, <2>2
<1>7. cleared'["critical"] <= rocLog[e].at
  <2>1. "critical" \in Alarms /\ cleared["critical"] \in Nat /\ cleared["critical"] <= rocLog[e].at
    BY <1>3 DEF Alarms, RocTypes, Lasting
  <2>2. PICK T : T = {t \in Retained : IsClear("critical", readings[t])}
    OBVIOUS
  <2>3. \A t \in T : t \in Nat /\ t <= rocLog[e].at
    <3>1. oldest \in Nat \ {0} /\ Retained = oldest..n
      BY <1>1 DEF RocTypes, Retained
    <3> QED
      BY <1>1, <1>3, <2>2, <3>1 DEF Lasting
  <2>4. MaxOf(T) <= rocLog[e].at
    <3>1. CASE T = {}
      BY <1>3, <3>1 DEF MaxOf
    <3>2. CASE T # {}
      <4>1. T \subseteq 1..n
        <5>1. oldest \in Nat \ {0} /\ Retained = oldest..n
          BY <1>1 DEF RocTypes, Retained
        <5>2. T \subseteq Retained
          BY <2>2
        <5>3. \A t \in oldest..n : t \in 1..n
          BY <5>1
        <5> QED
          BY <5>1, <5>2, <5>3
      <4>2. \E t \in T : \A u \in T : u <= t
        BY <3>2, <4>1, LastExists
      <4>3. MaxOf(T) \in T
        BY <3>2, <4>2, Zenon DEF MaxOf
      <4> QED
        BY <2>3, <4>3
    <3> QED
      BY <3>1, <3>2
  <2>5. cleared'["critical"] \in {cleared["critical"], MaxOf(T)}
    BY <1>5, <2>1, <2>2 DEF RocPoll, Clears
  <2> QED
    BY <2>1, <2>4, <2>5
<1> QED
  BY <1>2, <1>3, <1>4, <1>6, <1>7 DEF Lasting

\* A new critical event is about the heat of its poll.
LEMMA HeatBegins ==
    ASSUME RocInv, NEW temp \in Temps, Known(temp), temp >= Critical, RocPoll(temp),
           Len(DetectRoc(Previous, temp)) > 0,
           DetectRoc(Previous, temp)[Len(DetectRoc(Previous, temp))] = "critical"
    PROVE  Len(rocLog') > 0 /\ Lasting(Len(rocLog))'
<1> USE DEF RocInv
<1>1. PICK n \in Nat : n = polls /\ n = Len(readings)
  BY DEF polls, RocTypes
<1>2. PICK severities \in Seq(Alarms \cup {"info"}) : severities = DetectRoc(Previous, temp)
  BY DetectRocType
<1>3. PICK new : new = [k \in 1..Len(severities) |-> RocEvent(severities[k])]
  OBVIOUS
<1>4. Len(severities) \in Nat /\ Len(severities) > 0 /\ severities[Len(severities)] = "critical"
  BY <1>2
<1>5. /\ Len(new) = Len(severities) /\ new[Len(new)] = RocEvent("critical")
      /\ new \in Seq({RocEvent(s) : s \in Alarms \cup {"info"}})
  <2>1. \A k \in 1..Len(severities) : severities[k] \in Alarms \cup {"info"}
    OBVIOUS
  <2>2. new \in [1..Len(severities) -> {RocEvent(s) : s \in Alarms \cup {"info"}}]
    BY <1>3, <2>1
  <2> QED
    BY <1>3, <1>4, <2>2
<1>6. rocLog' = rocLog \o new /\ readings' = Append(readings, temp)
  BY <1>2, <1>3 DEF RocPoll
<1>7. /\ Len(rocLog') = Len(rocLog) + Len(new) /\ Len(rocLog) \in Nat
      /\ rocLog'[Len(rocLog')] = RocEvent("critical")
  <2>1. rocLog \in Seq(RocRow)
    BY DEF RocTypes
  <2>2. rocLog \in Seq(RocRow \cup {RocEvent(s) : s \in Alarms \cup {"info"}})
        /\ new \in Seq(RocRow \cup {RocEvent(s) : s \in Alarms \cup {"info"}})
    BY <1>5, <2>1
  <2>3. Len(new) \in Nat /\ Len(new) > 0
    BY <1>4, <1>5
  <2>4. Len(rocLog) \in Nat
    BY <2>1
  <2>5. /\ Len(rocLog') = Len(rocLog) + Len(new)
        /\ \A i \in 1..(Len(rocLog) + Len(new)) :
              rocLog'[i] = IF i <= Len(rocLog) THEN rocLog[i] ELSE new[i - Len(rocLog)]
    <3>1. PICK S : rocLog \in Seq(S) /\ new \in Seq(S)
      BY <2>2
    <3> QED
      BY <1>6, <3>1, ConcatProperties
  <2>6. PICK m \in Nat : m = Len(rocLog) + Len(new)
    BY <2>3, <2>4
  <2>7. m \in 1..(Len(rocLog) + Len(new)) /\ ~(m <= Len(rocLog)) /\ m - Len(rocLog) = Len(new)
    BY <2>3, <2>4, <2>6
  <2>8. rocLog'[m] = new[Len(new)]
    BY <2>5, <2>7
  <2> QED
    BY <1>5, <2>4, <2>5, <2>6, <2>8
<1>8. polls' = n + 1
  BY <1>1, <1>6 DEF polls, RocTypes
<1>9. cleared'["critical"] <= n + 1
  <2>1. "critical" \in Alarms /\ cleared["critical"] \in Nat /\ cleared["critical"] <= n
    BY <1>1 DEF Alarms, RocTypes, RocClock
  <2>2. Clears(temp)["critical"] <= n + 1
    BY <1>1, <2>1, ClearsType
  <2> QED
    BY <2>1, <2>2 DEF RocPoll
<1>10. /\ rocLog'[Len(rocLog')].severity = "critical" /\ rocLog'[Len(rocLog')].at = n + 1
       /\ rocLog'[Len(rocLog')].verdict = "none"
  <2>1. /\ RocEvent("critical").severity = "critical" /\ RocEvent("critical").at = n + 1
        /\ RocEvent("critical").verdict = "none"
    BY <1>1 DEF RocEvent
  <2> QED
    BY <1>7, <2>1
<1> QED
  BY <1>4, <1>5, <1>7, <1>8, <1>9, <1>10 DEF Lasting

\* A poll.
LEMMA HotPoll ==
    ASSUME RocInv, HotChipKept, NEW temp \in Temps \cup {Unknown}, RocPoll(temp), ChipHot'
    PROVE  Len(rocLog') > 0 /\ Lasting(Len(rocLog))'
<1>1. PICK n \in Nat : n = polls /\ n = Len(readings)
  BY DEF polls, RocInv, RocTypes
<1>2. /\ readings' = Append(readings, temp) /\ polls' = n + 1 /\ readings'[n + 1] = temp
      /\ readings \in Seq(Temps \cup {Unknown, NoSample}) /\ temp # NoSample
  <2>1. readings' = Append(readings, temp)
    BY DEF RocPoll
  <2>2. readings \in Seq(Temps \cup {Unknown, NoSample})
    BY DEF RocInv, RocTypes
  <2>3. Len(readings') = n + 1 /\ readings'[n + 1] = temp
    BY <1>1, <2>1, <2>2
  <2> QED
    BY <2>1, <2>2, <2>3, RocAssumption DEF polls
<1>3. temp \in Temps /\ temp \in Int /\ Known(temp) /\ temp >= Critical
  <2>1. PICK t \in 1..(n + 1) :
          /\ Known(readings'[t]) /\ readings'[t] >= Critical
          /\ \A u \in (t + 1)..(n + 1) : readings'[u] = NoSample
    BY <1>2 DEF ChipHot
  <2>2. t = n + 1
    BY <1>1, <1>2, <2>1
  <2>3. temp \in Temps
    BY <1>2, <2>1, <2>2 DEF Known
  <2> QED
    BY <1>2, <2>1, <2>2, <2>3, RocAssumption
<1>4. ~Known(Previous) \/ Previous \in Int
  BY PreviousSample DEF RocInv
<1>5. \/ /\ Known(Previous) /\ Previous >= Critical
         /\ DetectRoc(Previous, temp) = <<>>
      \/ /\ Len(DetectRoc(Previous, temp)) > 0
         /\ DetectRoc(Previous, temp)[Len(DetectRoc(Previous, temp))] = "critical"
  BY <1>3, <1>4, HotIsReported
<1>6. CASE /\ Known(Previous) /\ Previous >= Critical
           /\ DetectRoc(Previous, temp) = <<>>
  <2>1. ChipHot
    BY <1>6, PreviousSample DEF RocInv
  <2>2. rocLog' = rocLog
    <3>1. rocLog' = rocLog \o [k \in 1..Len(<<>>) |-> RocEvent(<<>>[k])]
      BY <1>6 DEF RocPoll
    <3>2. [k \in 1..Len(<<>>) |-> RocEvent(<<>>[k])] = <<>>
      <4>1. Len(<<>>) = 0
        OBVIOUS
      <4> QED
        BY <4>1
    <3>3. rocLog \o <<>> = rocLog
      BY DEF RocInv, RocTypes
    <3> QED
      BY <3>1, <3>2, <3>3
  <2> QED
    BY <1>3, <2>1, <2>2, HeatGoesOn
<1>7. CASE /\ Len(DetectRoc(Previous, temp)) > 0
           /\ DetectRoc(Previous, temp)[Len(DetectRoc(Previous, temp))] = "critical"
  BY <1>3, <1>7, HeatBegins
<1> QED
  BY <1>5, <1>6, <1>7

\* The verdict on the newest event while the chip is hot.
LEMMA HotDecide ==
    ASSUME RocInv, HotChipKept, NEW j \in 1..Len(rocLog), RocDecide(j)
    PROVE  HotChipKept'
<1> SUFFICES ASSUME ChipHot' PROVE Len(rocLog') > 0 /\ Lasting(Len(rocLog))'
  BY DEF HotChipKept
<1>1. PICK n \in Nat : n = polls
  BY DEF polls, RocInv, RocTypes
<1>2. PICK e \in Nat : e = Len(rocLog)
  BY DEF RocInv, RocTypes
<1>3. /\ readings' = readings /\ polls' = n /\ cleared' = cleared
      /\ n \in Retained /\ Known(readings[n])
      /\ rocLog \in Seq(RocRow)
      /\ rocLog' = [rocLog EXCEPT ![j].verdict = RocVerdict(j), ![j].decided = polls]
  BY <1>1 DEF RocDecide, polls, RocInv, RocTypes
<1>4. ChipHot /\ e > 0 /\ Lasting(e)
  <2>1. ChipHot
    BY <1>1, <1>3 DEF ChipHot
  <2> QED
    BY <1>2, <2>1 DEF HotChipKept
<1>5. /\ Len(rocLog') = e /\ e \in 1..e
      /\ rocLog'[e].severity = rocLog[e].severity /\ rocLog'[e].at = rocLog[e].at
      /\ e # j => rocLog'[e].verdict = rocLog[e].verdict
      /\ e = j => rocLog'[e].verdict = RocVerdict(j)
  <2>1. rocLog[e] \in RocRow
    BY <1>2, <1>3, <1>4
  <2> QED
    BY <1>2, <1>3, <1>4, <2>1 DEF RocRow
<1>6. RocVerdict(e) # "obsolete"
  <2>1. /\ readings[n] >= Critical /\ readings[n] \in Int
    <3>1. PICK t \in 1..n :
            /\ Known(readings[t]) /\ readings[t] >= Critical
            /\ \A u \in (t + 1)..n : readings[u] = NoSample
      BY <1>1, <1>4 DEF ChipHot
    <3>2. t = n
      BY <1>3, <3>1 DEF Known
    <3>3. readings[n] \in Temps
      BY <1>1, <1>3, <3>1, <3>2 DEF Known, RocInv, RocTypes, polls
    <3> QED
      BY <3>1, <3>2, <3>3, RocAssumption
  <2>2. RocActive("critical", readings[n])
    BY <2>1, RocAssumption DEF RocActive, Boundary, Threshold
  <2>3. ~RocRecovered(e, n)
    <3>1. /\ rocLog[e].at \in Nat /\ cleared["critical"] \in Nat /\ oldest \in Nat \ {0}
          /\ Retained = oldest..n
      <4>1. rocLog[e] \in RocRow
        BY <1>2, <1>3, <1>4
      <4> QED
        BY <1>1, <4>1 DEF RocRow, RocInv, RocTypes, Alarms, Retained
    <3>2. /\ rocLog[e].severity = "critical" /\ cleared["critical"] <= rocLog[e].at
          /\ \A t \in (rocLog[e].at + 1)..n : ~IsClear("critical", readings[t])
      BY <1>1, <1>4 DEF Lasting
    <3>3. ASSUME NEW t \in Retained, rocLog[e].at < t, t <= n
          PROVE  ~IsClear("critical", readings[t])
      BY <3>1, <3>2, <3>3
    <3> QED
      BY <3>1, <3>2, <3>3 DEF RocRecovered
  <2>4. ~RocSuperseded(e, e, n)
    BY <2>3 DEF RocSuperseded
  <2> QED
    BY <1>1, <1>2, <1>4, <2>2, <2>4 DEF RocVerdict, Lasting
<1>7. Lasting(e)'
  BY <1>1, <1>3, <1>4, <1>5, <1>6 DEF Lasting
<1> QED
  BY <1>4, <1>5, <1>7

\* For any thresholds, course of the temperature, failed polls, pruning and upgrade: a
\* chip that stays critically hot has its event, and Telegram keeps it
\* (services/event_detector.py, services/telegram_relevance.py).
THEOREM HotChipIsTold == RocSpec => []HotChipKept
<1>1. RocInit => HotChipKept
  BY DEF RocInit, HotChipKept, ChipHot, polls
<1>2. RocInv /\ HotChipKept /\ [RocNext]_rocVars => HotChipKept'
  <2> SUFFICES ASSUME RocInv, HotChipKept, [RocNext]_rocVars PROVE HotChipKept'
    OBVIOUS
  <2>1. ASSUME NEW temp \in Temps \cup {Unknown}, RocPoll(temp) PROVE HotChipKept'
    BY <2>1, HotPoll DEF HotChipKept
  <2>2. CASE RocPollFails
    <3> SUFFICES ASSUME ChipHot' PROVE Len(rocLog') > 0 /\ Lasting(Len(rocLog))'
      BY DEF HotChipKept
    <3>1. PICK n \in Nat : n = polls /\ n = Len(readings)
      BY DEF polls, RocInv, RocTypes
    <3>2. /\ readings' = Append(readings, NoSample) /\ polls' = n + 1
          /\ \A u \in 1..n : readings'[u] = readings[u]
          /\ readings'[n + 1] = NoSample /\ cleared' = cleared /\ rocLog' = rocLog
      BY <2>2, <3>1 DEF RocPollFails, RocInv, RocTypes, polls
    <3>3. ChipHot
      <4>1. PICK t \in 1..(n + 1) :
              /\ Known(readings'[t]) /\ readings'[t] >= Critical
              /\ \A u \in (t + 1)..(n + 1) : readings'[u] = NoSample
        BY <3>2 DEF ChipHot
      <4>2. t # n + 1
        BY <3>2, <4>1, Zenon DEF Known
      <4>3. t \in 1..n
        BY <3>1, <4>1, <4>2
      <4>4. readings'[t] = readings[t]
        BY <3>2, <4>3, Zenon
      <4>5. ASSUME NEW u \in (t + 1)..n PROVE readings[u] = NoSample
        <5>1. u \in 1..n /\ u \in (t + 1)..(n + 1)
          BY <3>1, <4>3
        <5> QED
          BY <3>2, <4>1, <5>1, Zenon
      <4> QED
        BY <3>1, <4>1, <4>3, <4>4, <4>5, Zenon DEF ChipHot
    <3>4. Len(rocLog) > 0 /\ Lasting(Len(rocLog))
      BY <3>3 DEF HotChipKept
    <3>5. ~IsClear("critical", NoSample)
      BY DEF IsClear, Known
    <3>6. rocLog[Len(rocLog)].at \in Nat
      <4>1. rocLog[Len(rocLog)] \in RocRow
        BY <3>4 DEF RocInv, RocTypes
      <4> QED
        BY <4>1 DEF RocRow
    <3>7. ASSUME NEW t \in (rocLog[Len(rocLog)].at + 1)..(n + 1)
          PROVE  ~IsClear("critical", readings'[t])
      <4>1. CASE t = n + 1
        BY <3>2, <3>5, <4>1
      <4>2. CASE t # n + 1
        <5>1. t \in (rocLog[Len(rocLog)].at + 1)..n /\ t \in 1..n
          BY <3>6, <4>2
        <5> QED
          BY <3>1, <3>2, <3>4, <5>1 DEF Lasting
      <4> QED
        BY <4>1, <4>2
    <3> QED
      BY <3>2, <3>4, <3>7 DEF Lasting
  <2>3. ASSUME NEW j \in 1..Len(rocLog), RocDecide(j) PROVE HotChipKept'
    BY <2>3, HotDecide
  <2>4. CASE RocUpgrade \/ (\E t \in 2..MaxPolls : t <= polls /\ RocPrune(t))
             \/ UNCHANGED rocVars
    <3>1. readings' = readings /\ cleared' = cleared /\ rocLog' = rocLog /\ polls' = polls
      BY <2>4 DEF RocUpgrade, RocPrune, rocVars, polls
    <3> QED
      BY <3>1 DEF HotChipKept, ChipHot, Lasting
  <2> QED
    BY <2>1, <2>2, <2>3, <2>4 DEF RocNext
<1> QED
  BY <1>1, <1>2, RocInvariant, PTL DEF RocSpec
=============================================================================
