--------------------------- MODULE RocTemperature ---------------------------
(***************************************************************************)
(* The temperature of the RAID chip, from the poll to the Telegram verdict:*)
(* threshold crossings between adjacent samples                            *)
(* (services/event_detector.py), the clears that are stored with every     *)
(* sample because a crossing can be missed, and what both say of a queued  *)
(* event (services/telegram_relevance.py, services/telegram_notifier.py).  *)
(*                                                                         *)
(* Poll k is made at time k.  A sample is captured before the events of    *)
(* its poll.  How the queue orders, delays and sends is TelegramDelivery.  *)
(***************************************************************************)
EXTENDS Integers, Sequences

CONSTANTS
    Temps,        \* temperatures a sample can have
    Unknown,      \* a sample without a temperature
    NoSample,     \* a poll that failed
    Warning, Critical, Hysteresis,
    RepeatWindow, \* _REPEAT_SUPPRESS_WINDOW
    MaxPolls      \* bound: polls

ASSUME RocAssumption ==
    /\ Temps \subseteq Int /\ {Unknown, NoSample} \cap Int = {} /\ Unknown # NoSample
    /\ Warning \in Int /\ Critical \in Int /\ Critical > Warning
    /\ Hysteresis \in Int /\ 1 <= Hysteresis /\ Hysteresis < Warning
    /\ RepeatWindow \in Nat /\ MaxPolls \in Nat

VARIABLES
    readings,   \* the samples of all polls so far
    oldest,     \* the first poll whose sample is not pruned yet
    cleared,    \* telegram_roc_*_cleared_at, 0 while there is none
    tracked,    \* observation only: the last poll before clears were stored
    rocLog      \* the events, each with its Telegram verdict

rocVars == <<readings, oldest, cleared, tracked, rocLog>>

Alarms == {"warning", "critical"}
polls  == Len(readings)

Known(temp)    == temp \notin {Unknown, NoSample}
Threshold(sev) == IF sev = "critical" THEN Critical ELSE Warning

\* _controller_clear_boundary; a reading at the boundary clears.
Boundary(sev)      == Threshold(sev) - Hysteresis
IsClear(sev, temp) == Known(temp) /\ temp <= Boundary(sev)

\* A process that does not store clears yet may have run before.
RocInit ==
    /\ readings = <<>> /\ oldest = 1 /\ rocLog = <<>>
    /\ cleared = [s \in Alarms |-> 0]
    /\ tracked \in {0, MaxPolls}

-----------------------------------------------------------------------------
(* The poll. *)

MaxOf(times) == IF times = {} THEN 0 ELSE CHOOSE t \in times : \A u \in times : u <= t

Retained == oldest..polls

\* get_latest_snapshot: failed polls leave none.
Previous ==
    LET stored == {t \in Retained : readings[t] # NoSample}
    IN  IF stored = {} THEN Unknown ELSE readings[MaxOf(stored)]

Crossed(sev, before, temp) ==
    temp >= Threshold(sev) /\ (Known(before) => before < Threshold(sev))

CoolsDown(sev, before, temp) ==
    Known(before) /\ before >= Threshold(sev) /\ temp <= Boundary(sev)

\* _detect_roc_temperature, in the order of its appends.
DetectRoc(before, temp) ==
    LET one(due, severity) == IF due THEN <<severity>> ELSE <<>>
    IN  IF ~Known(temp) THEN <<>>
        ELSE one(Crossed("warning", before, temp), "warning")
             \o one(Crossed("critical", before, temp), "critical")
             \o one(CoolsDown("critical", before, temp), "info")
             \o one(CoolsDown("warning", before, temp), "info")

FaultClears(temp) ==
    [s \in Alarms |-> IF Known(temp) /\ CoolsDown(s, Previous, temp) THEN polls + 1 ELSE cleared[s]]

\* record_controller_temperature_clears; without a stored one the retained samples
\* are searched.
Clears(temp) ==
    [s \in Alarms |->
        IF IsClear(s, temp) THEN polls + 1
        ELSE IF cleared[s] # 0 THEN cleared[s]
        ELSE MaxOf({t \in Retained : IsClear(s, readings[t])})]

\* _roc_temperature_event, as a row of the events table.
RocEvent(severity) ==
    [severity |-> severity, at |-> polls + 1, verdict |-> "none", decided |-> 0]

\* run_once, as far as this temperature goes.
RocPoll(temp) ==
    LET severities == DetectRoc(Previous, temp)
    IN  /\ polls < MaxPolls
        /\ readings' = Append(readings, temp)
        /\ rocLog' = rocLog \o [k \in 1..Len(severities) |-> RocEvent(severities[k])]
        /\ cleared' = IF tracked < MaxPolls THEN Clears(temp) ELSE cleared
        /\ UNCHANGED <<oldest, tracked>>

RocPollFails ==
    /\ polls < MaxPolls
    /\ readings' = Append(readings, NoSample)
    /\ UNCHANGED <<oldest, cleared, tracked, rocLog>>

\* Retention prunes the oldest samples.
RocPrune(t) ==
    /\ oldest < t /\ oldest' = t
    /\ UNCHANGED <<readings, cleared, tracked, rocLog>>

\* The version that stores clears takes over.
RocUpgrade ==
    /\ tracked = MaxPolls /\ polls < MaxPolls /\ tracked' = polls
    /\ UNCHANGED <<readings, oldest, cleared, rocLog>>

-----------------------------------------------------------------------------
(* The verdict on a queued event. *)

\* _controller_temperature_recovered
RocRecovered(i, until) ==
    LET sev == rocLog[i].severity
    IN  \/ rocLog[i].at < cleared[sev] /\ cleared[sev] <= until
        \/ \E t \in Retained : rocLog[i].at < t /\ t <= until /\ IsClear(sev, readings[t])

\* incident_superseded: an event of another severity in between, or a recovery.
RocSuperseded(i, last, until) ==
    \/ \E k \in (i + 1)..last : rocLog[k].severity # rocLog[i].severity
    \/ RocRecovered(i, until)

\* _temperature_relevance
RocActive(sev, temp) == temp > Boundary(sev) /\ (sev = "critical" \/ temp < Critical)

\* _same_incident_sent_since
SameRocSent(j) ==
    \E i \in 1..Len(rocLog) :
        /\ i # j /\ rocLog[i].severity = rocLog[j].severity
        /\ rocLog[i].verdict = "sent" /\ rocLog[i].decided >= polls - RepeatWindow
        /\ ~RocSuperseded(i, j, rocLog[j].at)

\* deliver_pending_telegram_events with the fresh sample of the last poll; without
\* a temperature, or after a failed poll, the event waits.
RocVerdict(j) ==
    IF RocSuperseded(j, Len(rocLog), polls) \/ ~RocActive(rocLog[j].severity, readings[polls])
    THEN "obsolete"
    ELSE IF SameRocSent(j) THEN "duplicate" ELSE "sent"

RocDecide(j) ==
    /\ rocLog[j].severity \in Alarms /\ rocLog[j].verdict = "none"
    /\ polls \in Retained /\ Known(readings[polls])
    /\ rocLog' = [rocLog EXCEPT ![j].verdict = RocVerdict(j), ![j].decided = polls]
    /\ UNCHANGED <<readings, oldest, cleared, tracked>>

RocNext ==
    \/ \E temp \in Temps \cup {Unknown} : RocPoll(temp)
    \/ RocPollFails \/ RocUpgrade
    \/ \E t \in 2..MaxPolls : t <= polls /\ RocPrune(t)
    \/ \E j \in 1..Len(rocLog) : RocDecide(j)

RocSpec == RocInit /\ [][RocNext]_rocVars

-----------------------------------------------------------------------------
(* Properties. *)

\* What really happened after event i, up to time t: the chip was seen cool again
\* by a process that stores clears, pruned or not, or an event says otherwise.
CooledDown(i, t) ==
    \E u \in (rocLog[i].at + 1)..t : u > tracked /\ IsClear(rocLog[i].severity, readings[u])

Ended(i, last, t) ==
    CooledDown(i, t) \/ \E k \in (i + 1)..last : rocLog[k].severity # rocLog[i].severity

\* A temperature message is sent only about an incident that goes on, and an event
\* is dropped as a duplicate only of a message about the same incident: the chip was
\* not seen below the boundary in between, whether or not the detector noticed and
\* whether or not that sample still exists (telegram_relevance.py, "RoC event
\* detection compares adjacent samples and can miss a hysteresis clear").
RocMessagesTrue ==
    \A j \in 1..Len(rocLog) :
        /\ rocLog[j].verdict = "sent" => ~CooledDown(j, rocLog[j].decided)
        /\ rocLog[j].verdict = "duplicate" =>
             \E i \in 1..Len(rocLog) :
                 /\ rocLog[i].verdict = "sent" /\ rocLog[i].severity = rocLog[j].severity
                 /\ \/ i < j /\ ~Ended(i, j, rocLog[j].at)
                    \/ j < i /\ ~Ended(j, i, rocLog[i].at)
=============================================================================
