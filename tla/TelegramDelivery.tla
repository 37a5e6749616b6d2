-------------------------- MODULE TelegramDelivery --------------------------
(***************************************************************************)
(* The Telegram alert channel: services/telegram_notifier.py driven by the *)
(* notifier job of services/scheduler.py, while the collector keeps        *)
(* writing polls and events to the same database.                          *)
(*                                                                         *)
(* The database is log, snapshot, failedPoll, delivery and cooldown; a     *)
(* crash keeps it.  The notifier's memory is pc, batch, current, blocked,  *)
(* sendsLeft, failed, hint and health; a crash loses it.  Every action     *)
(* that touches the database is one section of the shared asyncio lock and *)
(* ends in its commit.  HTTP runs between two such sections.               *)
(*                                                                         *)
(* Time is counted in ticks of one notifier interval (60 s).  A timestamp  *)
(* is kept as its distance from the clock and saturates where no           *)
(* comparison in the code can tell the values apart any more, so the state *)
(* space is finite without a time horizon.                                 *)
(***************************************************************************)
EXTENDS Incidents

CONSTANTS
    MaxEvents,       \* bound: events ever recorded
    MaxFaults,       \* bound: crashes, aborted cycles, failed polls, lost answers
    ConfirmDelay,    \* telegram_warning_confirm_minutes
    SuppressWindow,  \* _REPEAT_SUPPRESS_WINDOW
    RetryBase,       \* _RETRY_BASE_SECONDS
    RetryMax,        \* _RETRY_MAX_SECONDS and TELEGRAM_RETRY_AFTER_MAX_SECONDS
    MaxTries,        \* bound: attempts are not counted further, the backoff is at RetryMax
    DeferTicks,      \* the default delay of _defer
    Hints,           \* retry_after values the provider may send (0: none)
    MaxSends,        \* _MAX_SENDS_PER_CYCLE
    MaxCandidates,   \* _MAX_CANDIDATES_PER_CYCLE
    PollInterval,    \* metrics_interval_seconds
    OverdueCap,      \* deadlines further in the past are not told apart
    OldCooldown      \* a deadline stored by a version that did not bound hints

Doubling == <<1, 2, 4, 8, 16, 32, 64>>  \* 2 ** min(attempts - 1, 6)

ASSUME DeliveryAssumption ==
    /\ MaxEvents \in Nat \ {0} /\ MaxFaults \in Nat
    /\ ConfirmDelay \in Nat /\ SuppressWindow \in Nat
    /\ RetryBase \in Nat \ {0} /\ RetryMax \in Nat \ {0} /\ DeferTicks \in Nat \ {0}
    /\ Hints \subseteq Nat
    /\ MaxSends \in Nat \ {0} /\ MaxCandidates \in Nat \ {0}
    /\ PollInterval \in Nat \ {0} /\ OverdueCap \in Nat /\ OldCooldown \in Nat
    /\ MaxTries \in 1..7 /\ RetryBase * Doubling[MaxTries] >= RetryMax

VARIABLES
    \* the database
    log,         \* the events table, in id order
    age,         \* ticks since each warning occurred, at most ConfirmDelay
    snapshot,    \* newest reading of every object
    snapAge,     \* ticks since it was captured
    failedPoll,  \* a "Collection failed:" event is newer than the snapshot
    delivery,    \* event_deliveries, one row per event
    cooldown,    \* telegram_not_before: ticks until the channel embargo ends
    \* the process
    up,          \* the process runs
    pollAge,     \* ticks since the collector job last ran
    pc,          \* where the notifier cycle is
    batch,       \* candidates of this cycle that are still to be handled
    current,     \* the event being handled or sent (0: none)
    blocked,     \* channel_blocked
    sendsLeft,   \* sends_left
    failed,      \* this cycle's failed > 0
    hint,        \* retry_after_seconds of the failed send (0: none)
    health,      \* _TELEGRAM_HEALTH; "initial" is its value at process start
    \* observation only
    accepted,    \* messages the provider accepted, per event
    uncertain,   \* sends whose acceptance the process never learned, per event
    faults       \* faults so far

dbVars      == <<log, age, snapshot, snapAge, failedPoll, delivery, cooldown>>
cycleVars   == <<pc, batch, current, blocked, sendsLeft, failed, hint>>
historyVars == <<accepted, uncertain, faults>>
vars == <<dbVars, up, pollAge, cycleVars, health, historyVars>>

Min2(a, b) == IF a <= b THEN a ELSE b
Max2(a, b) == IF a >= b THEN a ELSE b

Ids       == 1..MaxEvents
Freshness == 2 * PollInterval          \* max(60, 2 * metrics_interval_seconds)
NoDue     == -(OverdueCap + 1)         \* next_attempt_at IS NULL; sorts first

\* "maintenance" is status skipped with detail "maintenance".
Statuses == {"none", "sending", "retry", "sent", "failed", "skipped", "maintenance"}
\* due is next_attempt_at.  since counts from last_attempt_at, which is also
\* delivered_at of a sent row; only claimed and sent rows use it.
Row == [status : Statuses, attempts : Nat, due : Int, since : Nat]
NoRow == [status |-> "none", attempts |-> 0, due |-> NoDue, since |-> 0]

\* _set_status
SetStatus(row, status, due) ==
    [status |-> status, attempts |-> row.attempts, due |-> due, since |-> row.since]

\* A row one tick later.
Aged(row) ==
    [status   |-> row.status,
     attempts |-> row.attempts,
     due      |-> IF row.due = NoDue THEN NoDue ELSE Max2(row.due - 1, -OverdueCap),
     since    |-> IF row.status \in {"sending", "sent"}
                  THEN Min2(row.since + 1, SuppressWindow + 1) ELSE row.since]

\* A deadline stored by a version that did not bound hints is repaired.
Repaired(row) ==
    IF row.status = "retry" /\ row.attempts > 0
    THEN SetStatus(row, "retry", Min2(row.due, RetryMax)) ELSE row

Recorded == 1..Len(log)

-----------------------------------------------------------------------------
(* A definition named Fault... is a wrong variant of the definition that     *)
(* follows it: the specification never uses it, and with it in place of the *)
(* right one a property must fail.                                          *)

(* _load_candidates: due rows of alerts, NULL deadlines first, then the     *)
(* earliest deadline, then the oldest event; at most MaxCandidates of them. *)

FaultResendsSent(rows, i) ==
    IsTelegramAlert(log[i]) /\ rows[i].status # "skipped" /\ rows[i].due <= 0

FaultForgetsClaims(rows, i) ==
    IsTelegramAlert(log[i]) /\ rows[i].status \in {"none", "retry"} /\ rows[i].due <= 0

IsCandidate(rows, i) ==
    /\ IsTelegramAlert(log[i])
    /\ rows[i].status \in {"none", "sending", "retry", "failed", "maintenance"}
    /\ rows[i].due <= 0

Before(rows, i, j) ==
    \/ rows[i].due < rows[j].due
    \/ rows[i].due = rows[j].due /\ i < j

Candidates(rows) ==
    LET due == {i \in Recorded : IsCandidate(rows, i)}
    IN  {i \in due : Cardinality({j \in due : Before(rows, j, i)}) < MaxCandidates}

FaultIgnoresFailedPoll(i) ==
    IF snapAge > Freshness THEN "awaiting"
    ELSE IF Superseded(log, i, Recorded) THEN "obsolete"
    ELSE Evidence(log[i], snapshot[log[i].obj])

\* delivery_relevance for everything but the monitoring outage.
Relevance(i) ==
    IF snapAge > Freshness \/ failedPoll THEN "awaiting"
    ELSE IF Superseded(log, i, Recorded) THEN "obsolete"
    ELSE Evidence(log[i], snapshot[log[i].obj])

FaultWindowReversed(i) ==
    \E j \in Recorded \ {i} :
        /\ delivery[j].status = "sent" /\ delivery[j].since > SuppressWindow
        /\ SameIncident(log[i], log[j]) /\ ~Superseded(log, j, 1..i)

\* _same_incident_sent_since
SameIncidentSent(i) ==
    \E j \in Recorded \ {i} :
        /\ delivery[j].status = "sent"
        /\ delivery[j].since <= SuppressWindow
        /\ SameIncident(log[i], log[j])
        /\ ~Superseded(log, j, 1..i)

\* The early exits of the candidate loop, in the order of the code.
Decision(i) ==
    IF log[i].sev = "warning" /\ age[i] < ConfirmDelay THEN "unconfirmed"
    ELSE IF log[i].sev = "warning" /\ WarningHasEnded(log, i) THEN "ended"
    ELSE IF Relevance(i) = "obsolete" THEN "obsolete"
    ELSE IF Relevance(i) # "active" THEN "awaiting"
    ELSE IF SameIncidentSent(i) THEN "duplicate"
    ELSE IF blocked \/ sendsLeft <= 0 THEN "channel"
    ELSE "claim"

\* _record_send_failure
Backoff(attempts) == Min2(RetryBase * Doubling[Min2(attempts, MaxTries)], RetryMax)

-----------------------------------------------------------------------------
(* The collector, the clock and the process. *)

\* Init also covers a database written by an earlier version: an embargo that
\* exceeds the present bound.
Init ==
    /\ log = <<>>
    /\ age = [i \in Ids |-> 0]
    /\ \E s \in Serials :
          snapshot = [o \in Objects |-> [level |-> "ok", serial |-> s, seen |-> TRUE]]
    /\ snapAge = 0 /\ failedPoll = FALSE
    /\ delivery = [i \in Ids |-> NoRow]
    /\ cooldown \in {0, OldCooldown}
    /\ up = TRUE /\ pollAge = 0
    /\ pc = "idle" /\ batch = {} /\ current = 0 /\ blocked = FALSE
    /\ sendsLeft = 0 /\ failed = FALSE /\ hint = 0
    /\ health = "initial"
    /\ accepted = [i \in Ids |-> 0] /\ uncertain = [i \in Ids |-> 0]
    /\ faults = 0

\* The requeue and what follows it share one lock section: no other writer and
\* no clock reading comes between them.
LockFree == pc # "requeued"

\* The interval job polls every PollInterval while the process is up.
Tick ==
    /\ LockFree
    /\ up => pollAge < PollInterval
    /\ age' = [i \in Ids |-> 
          IF i \in Recorded /\ log[i].sev = "warning"
          THEN Min2(age[i] + 1, ConfirmDelay) ELSE age[i]]
    /\ snapAge' = Min2(snapAge + 1, Freshness + 1)
    /\ pollAge' = Min2(pollAge + 1, PollInterval)
    /\ cooldown' = Max2(cooldown - 1, 0)
    /\ delivery' = [i \in Ids |-> Aged(delivery[i])]
    /\ UNCHANGED <<log, snapshot, failedPoll, up, cycleVars, health, historyVars>>

\* CollectorService.run_once: snapshot and events in one transaction.  One
\* object changes per poll; the others are read unchanged.
PollOk ==
    /\ up /\ LockFree
    /\ \E o \in Objects, level \in Levels, s \in Serials, seen \in BOOLEAN :
          LET old == snapshot[o]
              new == [level |-> level, serial |-> s, seen |-> seen]
              events == Detect(o, old, new)
          IN  /\ PossibleReading(o, old, new)
              /\ Len(log) + Len(events) <= MaxEvents
              /\ log' = log \o events
              /\ snapshot' = [snapshot EXCEPT ![o] = new]
    /\ snapAge' = 0 /\ failedPoll' = FALSE /\ pollAge' = 0
    /\ UNCHANGED <<age, delivery, cooldown, up, cycleVars, health, historyVars>>

\* _record_collection_failure, also after a rolled-back run_once.
PollFail ==
    /\ up /\ LockFree /\ faults < MaxFaults
    /\ failedPoll' = TRUE /\ pollAge' = 0
    /\ faults' = faults + 1
    /\ UNCHANGED <<log, age, snapshot, snapAge, delivery, cooldown, up, cycleVars,
                   health, accepted, uncertain>>

LoseCycle ==
    /\ pc' = "idle" /\ batch' = {} /\ current' = 0 /\ blocked' = FALSE
    /\ sendsLeft' = 0 /\ failed' = FALSE /\ hint' = 0

\* The process dies.  A request under way may or may not reach the provider.
Crash ==
    /\ up /\ faults < MaxFaults
    /\ up' = FALSE /\ health' = "initial" /\ pollAge' = 0
    /\ LoseCycle
    /\ \E arrived \in {0, 1} :
          accepted' = IF pc = "sending" THEN [accepted EXCEPT ![current] = @ + arrived]
                      ELSE accepted
    /\ uncertain' = IF pc \in {"sending", "accepted"}
                    THEN [uncertain EXCEPT ![current] = @ + 1] ELSE uncertain
    /\ faults' = faults + 1
    /\ UNCHANGED dbVars

Restart ==
    /\ ~up /\ up' = TRUE
    /\ UNCHANGED <<dbVars, pollAge, cycleVars, health, historyVars>>

-----------------------------------------------------------------------------
(* run_telegram_cycle_async *)

FaultForgetsEmbargo ==
    /\ up /\ pc = "idle" /\ pc' = "loop"
    /\ batch' = Candidates(delivery) /\ blocked' = FALSE
    /\ sendsLeft' = MaxSends /\ failed' = FALSE
    /\ UNCHANGED <<dbVars, up, pollAge, current, hint, health, historyVars>>

FaultKeepsOldDeadlines ==
    /\ up /\ pc = "idle" /\ pc' = "loop"
    /\ batch' = Candidates(delivery) /\ blocked' = (cooldown > 0)
    /\ sendsLeft' = MaxSends /\ failed' = FALSE
    /\ UNCHANGED <<dbVars, up, pollAge, current, hint, health, historyVars>>

\* Repair and persist over-long deadlines, then load the candidates.
CycleStart ==
    LET rows == [i \in Ids |-> Repaired(delivery[i])]
    IN  /\ up /\ pc = "idle"
        /\ delivery' = rows
        /\ cooldown' = Min2(cooldown, RetryMax)
        /\ blocked' = (cooldown > 0)
        /\ batch' = Candidates(rows)
        /\ sendsLeft' = MaxSends /\ failed' = FALSE
        /\ pc' = "loop"
        /\ UNCHANGED <<log, age, snapshot, snapAge, failedPoll, up, pollAge, current,
                       hint, health, historyVars>>

\* TelegramConfigError: fail closed, everything stays pending.
CycleConfigError ==
    /\ up /\ pc = "idle"
    /\ health' = "failed"
    /\ UNCHANGED <<dbVars, up, pollAge, cycleVars, historyVars>>

\* The next candidate in the order of the query.  Rows of the batch change
\* only when their turn comes, so the order still is the one that was loaded.
IsNext(i) ==
    /\ pc = "loop" /\ i \in batch
    /\ \A j \in batch \ {i} : Before(delivery, i, j)

\* An interrupted or failed send is put back in its own commit.
Requeue(i) ==
    /\ IsNext(i)
    /\ delivery[i].status \in {"sending", "failed"}
    /\ delivery' = [delivery EXCEPT ![i] = SetStatus(@, "retry", NoDue)]
    /\ current' = i /\ pc' = "requeued"
    /\ UNCHANGED <<log, age, snapshot, snapAge, failedPoll, cooldown, up, pollAge,
                   batch, blocked, sendsLeft, failed, hint, health, historyVars>>

Handling(i, decision) ==
    /\ \/ IsNext(i) /\ delivery[i].status \notin {"sending", "failed"}
       \/ pc = "requeued" /\ i = current
    /\ Decision(i) = decision

Done(i) ==
    /\ batch' = batch \ {i} /\ current' = 0 /\ pc' = "loop"
    /\ UNCHANGED <<log, age, snapshot, snapAge, failedPoll, cooldown, up, pollAge,
                   blocked, sendsLeft, failed, hint, health, historyVars>>

\* _defer
Defer(i, ticks) ==
    /\ delivery' = [delivery EXCEPT ![i] = SetStatus(@, "retry", ticks)]
    /\ Done(i)

\* _skip
Skip(i) ==
    /\ delivery' = [delivery EXCEPT ![i] = SetStatus(@, "skipped", NoDue)]
    /\ Done(i)

DeferUnconfirmed(i) == Handling(i, "unconfirmed") /\ Defer(i, ConfirmDelay - age[i])
DeferAwaiting(i)    == Handling(i, "awaiting") /\ Defer(i, DeferTicks)
DeferChannel(i)     == Handling(i, "channel") /\ Defer(i, DeferTicks)
SkipEnded(i)        == Handling(i, "ended") /\ Skip(i)
SkipObsolete(i)     == Handling(i, "obsolete") /\ Skip(i)
SkipDuplicate(i)    == Handling(i, "duplicate") /\ Skip(i)

FaultMarksBeforeSend(i) ==
    /\ Handling(i, "claim")
    /\ delivery' = [delivery EXCEPT ![i] =
          [status |-> "sent", attempts |-> Min2(@.attempts + 1, MaxTries),
           due |-> NoDue, since |-> 0]]
    /\ batch' = batch \ {i} /\ current' = i /\ pc' = "sending"
    /\ sendsLeft' = sendsLeft - 1
    /\ UNCHANGED <<log, age, snapshot, snapAge, failedPoll, cooldown, up, pollAge,
                   blocked, failed, hint, health, historyVars>>

\* _claim, committed before the request leaves.
Claim(i) ==
    /\ Handling(i, "claim")
    /\ delivery' = [delivery EXCEPT ![i] =
          [status |-> "sending", attempts |-> Min2(@.attempts + 1, MaxTries),
           due |-> NoDue, since |-> 0]]
    /\ batch' = batch \ {i} /\ current' = i /\ pc' = "sending"
    /\ sendsLeft' = sendsLeft - 1
    /\ UNCHANGED <<log, age, snapshot, snapAge, failedPoll, cooldown, up, pollAge,
                   blocked, failed, hint, health, historyVars>>

(* The provider, as TelegramTransport.send_async reports it. *)

Unrecorded == <<dbVars, up, pollAge, batch, current, blocked, sendsLeft, failed, health>>

\* The message is accepted and the answer arrives.
ProviderAccepts ==
    /\ pc = "sending" /\ pc' = "accepted"
    /\ accepted' = [accepted EXCEPT ![current] = @ + 1]
    /\ UNCHANGED <<Unrecorded, hint, uncertain, faults>>

\* The message is accepted but the 10 s deadline passes first.
AnswerLost ==
    /\ pc = "sending" /\ pc' = "rejected" /\ hint' = 0
    /\ faults < MaxFaults /\ faults' = faults + 1
    /\ accepted' = [accepted EXCEPT ![current] = @ + 1]
    /\ uncertain' = [uncertain EXCEPT ![current] = @ + 1]
    /\ UNCHANGED Unrecorded

\* TelegramSendError bounds the hint before anyone uses it.
ProviderRejects ==
    /\ pc = "sending" /\ pc' = "rejected"
    /\ \E h \in Hints : hint' = Min2(h, RetryMax)
    /\ UNCHANGED <<Unrecorded, historyVars>>

RecordSent ==
    /\ pc = "accepted" /\ pc' = "loop" /\ current' = 0
    /\ delivery' = [delivery EXCEPT ![current] = SetStatus(@, "sent", NoDue)]
    /\ UNCHANGED <<log, age, snapshot, snapAge, failedPoll, cooldown, up, pollAge,
                   batch, blocked, sendsLeft, failed, hint, health, historyVars>>

RecordFailure ==
    /\ pc = "rejected" /\ pc' = "loop" /\ current' = 0 /\ hint' = 0
    /\ delivery' = [delivery EXCEPT ![current] =
          SetStatus(@, "retry", Max2(Backoff(@.attempts), hint))]
    /\ cooldown' = IF hint > 0 THEN hint ELSE cooldown
    /\ blocked' = TRUE /\ failed' = TRUE
    /\ UNCHANGED <<log, age, snapshot, snapAge, failedPoll, up, pollAge, batch,
                   sendsLeft, health, historyVars>>

Undelivered(i) ==
    delivery[i].status \in {"retry", "sending", "failed"} /\ delivery[i].attempts > 0

FaultOnlyThisCycle ==
    /\ pc = "loop" /\ batch = {}
    /\ LoseCycle
    /\ health' = IF ~failed /\ cooldown <= 0 THEN "ok" ELSE "failed"
    /\ UNCHANGED <<dbVars, up, pollAge, historyVars>>

CycleEnd ==
    /\ pc = "loop" /\ batch = {}
    /\ LoseCycle
    /\ health' = IF ~failed /\ cooldown <= 0 /\ \A i \in Ids : ~Undelivered(i)
                 THEN "ok" ELSE "failed"
    /\ UNCHANGED <<dbVars, up, pollAge, historyVars>>

\* A database error ends the cycle; the uncommitted section is rolled back.
CycleAborts ==
    /\ pc \in {"loop", "requeued", "accepted", "rejected"}
    /\ faults < MaxFaults /\ faults' = faults + 1
    /\ LoseCycle
    /\ health' = "failed"
    /\ uncertain' = IF pc = "accepted" THEN [uncertain EXCEPT ![current] = @ + 1]
                    ELSE uncertain
    /\ UNCHANGED <<dbVars, up, pollAge, accepted>>

Handle(i) ==
    \/ Requeue(i)
    \/ DeferUnconfirmed(i)
    \/ DeferAwaiting(i)
    \/ DeferChannel(i)
    \/ SkipEnded(i)
    \/ SkipObsolete(i)
    \/ SkipDuplicate(i)
    \/ Claim(i)

Next ==
    \/ Tick \/ PollOk \/ PollFail \/ Crash \/ Restart
    \/ CycleStart \/ CycleConfigError
    \/ \E i \in Ids : Handle(i)
    \/ ProviderAccepts \/ AnswerLost \/ ProviderRejects
    \/ RecordSent \/ RecordFailure \/ CycleEnd \/ CycleAborts

Spec == Init /\ [][Next]_vars

\* The scheduler keeps running its jobs, the process is restarted, and a
\* provider that is asked again and again answers sometimes.
Fairness ==
    /\ WF_vars(Tick) /\ WF_vars(PollOk) /\ WF_vars(Restart)
    /\ WF_vars(CycleStart) /\ WF_vars(\E i \in Ids : Handle(i))
    /\ WF_vars(ProviderAccepts \/ ProviderRejects)
    /\ SF_vars(ProviderAccepts)
    /\ WF_vars(RecordSent) /\ WF_vars(RecordFailure) /\ WF_vars(CycleEnd)

FairSpec == Spec /\ Fairness

-----------------------------------------------------------------------------
(* Properties. *)

PollTypes ==
    /\ log \in Seq(Event) /\ Len(log) <= MaxEvents
    /\ age \in [Ids -> 0..ConfirmDelay]
    /\ snapshot \in [Objects -> Reading]
    /\ snapAge \in 0..(Freshness + 1) /\ failedPoll \in BOOLEAN
    /\ pollAge \in 0..PollInterval

DeliveryTypes ==
    /\ delivery \in [Ids -> Row]
    /\ cooldown \in Nat

CycleTypes ==
    /\ up \in BOOLEAN
    /\ pc \in {"idle", "loop", "requeued", "sending", "accepted", "rejected"}
    /\ batch \in SUBSET Ids /\ current \in 0..MaxEvents
    /\ blocked \in BOOLEAN /\ sendsLeft \in 0..MaxSends /\ failed \in BOOLEAN
    /\ hint \in 0..RetryMax
    /\ health \in {"initial", "ok", "failed"}

HistoryTypes ==
    /\ accepted \in [Ids -> Nat] /\ uncertain \in [Ids -> Nat] /\ faults \in 0..MaxFaults

\* Every variable keeps its type; in particular no send is taken beyond the
\* per-cycle limit and no unbounded provider hint reaches the notifier.
TypeOK == PollTypes /\ DeliveryTypes /\ CycleTypes /\ HistoryTypes

\* An event is announced twice only when the process could not know that the
\* first message had arrived: every message beyond the first is matched by a
\* send cut off by a crash, an aborted commit or a lost answer.
RepeatsOnlyWhenUncertain == \A i \in Ids : accepted[i] <= uncertain[i] + 1

\* Two events of one uninterrupted incident are both announced only when the
\* suppression window lies between them (or an answer was lost).
OneMessagePerIncident ==
    \A i, j \in Recorded :
        ( /\ i < j
          /\ SameIncident(log[i], log[j])
          /\ ~Superseded(log, i, 1..j)
          /\ accepted[i] > 0 /\ accepted[j] > 0
          /\ uncertain[i] = 0 /\ uncertain[j] = 0 )
        => \/ delivery[i].since > SuppressWindow
           \/ delivery[j].since > SuppressWindow

\* No request leaves while the persisted embargo of the provider lasts, also
\* when the process that was told to wait has crashed and been replaced.
EmbargoKept == [][pc' = "sending" /\ pc # "sending" => cooldown = 0]_vars

\* At the moment a message is committed to be sent, the newest poll succeeded,
\* is fresh and shows the incident on the same disk; a warning has lasted for
\* the confirmation delay and nothing has ended it.
ClaimsAreCurrent ==
    [][\A i \in Recorded :
         delivery[i].status # "sending" /\ delivery'[i].status = "sending" =>
            /\ ~failedPoll /\ snapAge <= Freshness
            /\ snapshot[log[i].obj].seen
            /\ snapshot[log[i].obj].serial = log[i].serial
            /\ StillShown(log[i], snapshot[log[i].obj].level)
            /\ log[i].sev = "warning" =>
                  /\ age[i] >= ConfirmDelay
                  /\ \A k \in Recorded : k > i /\ log[k].obj = log[i].obj
                        => log[k].sev = "warning"]_vars

\* Between cycles a healthy channel has no alert that was tried and is still
\* undelivered: failed, interrupted and aborted sends show until they are made up.
HealthIsHonest == pc = "idle" /\ health = "ok" => \A i \in Ids : ~Undelivered(i)

\* However large the provider's hint or the stored embargo, a running channel
\* never waits longer than the bound before it tries again.
WaitsAreBounded ==
    /\ pc # "idle" => cooldown <= RetryMax
    /\ \A i \in Ids : delivery[i].due <= Max2(RetryMax, Max2(ConfirmDelay, DeferTicks))

\* The current reading shows the incident, and no later event has ended it.
OpenIncident(i) ==
    /\ i \in Recorded
    /\ IsTelegramAlert(log[i])
    /\ Evidence(log[i], snapshot[log[i].obj]) = "active"
    /\ ~Superseded(log, i, Recorded)
    /\ log[i].sev = "warning" => ~WarningHasEnded(log, i)

Announced(i) ==
    \/ delivery[i].status = "sent"
    \/ /\ delivery[i].status = "skipped"
       /\ \E j \in Recorded : SameIncident(log[i], log[j]) /\ delivery[j].status = "sent"

\* An incident that stays is announced in the end, across crashes, failed polls,
\* rate limits, lost answers and the per-cycle limits.
OpenIncidentsAnnounced ==
    \A i \in Ids : <>[]OpenIncident(i) => <>(i \in Recorded /\ Announced(i))

\* The channel implements the abstract at-least-once alert channel.
Settled(i) ==
    CASE delivery[i].status = "sent"    -> "delivered"
      [] delivery[i].status = "skipped" -> "dropped"
      [] OTHER                          -> "open"

Channel == INSTANCE AlertChannel WITH
    Alerts <- Ids, settled <- [i \in Ids |-> Settled(i)], messages <- accepted

ImplementsChannel == Channel!ChannelSpec
=============================================================================
