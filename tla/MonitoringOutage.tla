-------------------------- MODULE MonitoringOutage --------------------------
(***************************************************************************)
(* Loss of monitoring: how CollectorService (services/scheduler.py) turns  *)
(* failed polls into warnings, one critical "Monitoring stale" event and a *)
(* recovery event, how the Telegram phase decides about the outage event,  *)
(* and the web request that writes another system event among them         *)
(* (web/routes.py, rebuild status).                                        *)
(*                                                                         *)
(* All of it is derived from the database, so a restart changes nothing    *)
(* and needs no action.  Polls of one process never overlap; a poll takes  *)
(* the clock forward by one of Gaps, so that readings of the microsecond   *)
(* clock by two polls differ.                                              *)
(***************************************************************************)
EXTENDS Integers, Sequences, FiniteSets

CONSTANTS
    Slots,          \* drive bays a rebuild can run in
    Watched,        \* those whose rebuild somebody watches in the browser
    MinFailed,      \* _STALE_MIN_FAILED_POLLS
    StaleAfter,     \* collector_stale_alert_minutes
    SuppressWindow, \* _REPEAT_SUPPRESS_WINDOW
    Gaps,           \* times between two polls
    MaxTime,        \* bound: the clock
    MaxEvents       \* bound: system events

ASSUME OutageAssumption ==
    /\ Watched \subseteq Slots
    /\ MinFailed \in Nat \ {0} /\ StaleAfter \in Nat \ {0}
    /\ SuppressWindow \in Nat /\ Gaps \subseteq Nat \ {0}
    /\ MaxTime \in Nat /\ MaxEvents \in Nat

VARIABLES
    now,          \* the clock
    events,       \* the events of category system, in id order
    lastSuccess,  \* captured_at of the newest snapshot (0: none yet)
    markerDue,    \* slots whose running rebuild has no progress marker yet
    delivery,     \* Telegram's verdict on each event
    deliveredAt,  \* when a sent event was delivered
    epoch         \* observation only: successful polls so far

vars == <<now, events, lastSuccess, markerDue, delivery, deliveredAt, epoch>>

Kinds    == {"failed", "stale", "recovered", "marker"}
Verdicts == {"none", "sent", "obsolete", "duplicate"}
Ids      == 1..MaxEvents
Recorded == 1..Len(events)

\* epoch says after which successful poll the event was recorded.
SystemEvent == [kind : Kinds, at : Nat, epoch : Nat]
NewEvent(kind, at, ep) == [kind |-> kind, at |-> at, epoch |-> ep]

-----------------------------------------------------------------------------
(* A definition named Fault... is a wrong variant of the one that follows   *)
(* it; the specification never uses it.                                     *)

FailedSince(log) == {k \in DOMAIN log : log[k].kind = "failed" /\ log[k].at > lastSuccess}

Earliest(times) == CHOOSE t \in times : \A u \in times : t <= u

\* last_success or min(failure_times)
StaleSince(log) ==
    IF lastSuccess # 0 THEN lastSuccess ELSE Earliest({log[k].at : k \in FailedSince(log)})

FaultReportsAgain(log, t) ==
    /\ Cardinality(FailedSince(log)) >= MinFailed
    /\ t - StaleSince(log) >= StaleAfter

FaultReportsOnceEver(log, t) ==
    /\ Cardinality(FailedSince(log)) >= MinFailed
    /\ t - StaleSince(log) >= StaleAfter
    /\ ~\E k \in DOMAIN log : log[k].kind = "stale"

\* _monitoring_stale_summary of the failure recorded last in the log, at t.
MonitoringStale(log, t) ==
    /\ Cardinality(FailedSince(log)) >= MinFailed
    /\ t - StaleSince(log) >= StaleAfter
    /\ ~\E k \in DOMAIN log : log[k].kind = "stale" /\ log[k].at > StaleSince(log)

\* _latest_system_event_was_collection_failure
LatestWasFailure ==
    Len(events) > 0 /\ events[Len(events)].kind \in {"failed", "stale"}

Init ==
    /\ now = 0 /\ events = <<>> /\ lastSuccess = 0 /\ epoch = 0
    /\ markerDue = Slots
    /\ delivery = [i \in Ids |-> "none"] /\ deliveredAt = [i \in Ids |-> 0]

Advance == \E gap \in Gaps : now' = now + gap /\ now' <= MaxTime

\* run_once: the snapshot and the recovery event are one transaction.
PollSucceeds ==
    /\ Advance
    /\ lastSuccess' = now' /\ epoch' = epoch + 1
    /\ events' = IF LatestWasFailure
                 THEN Append(events, NewEvent("recovered", now', epoch')) ELSE events
    /\ Len(events') <= MaxEvents
    /\ UNCHANGED <<markerDue, delivery, deliveredAt>>

\* _record_collection_failure: the warning and the outage are one transaction.
PollFails ==
    /\ Advance
    /\ LET failures == Append(events, NewEvent("failed", now', epoch))
       IN  events' = IF MonitoringStale(failures, now')
                     THEN Append(failures, NewEvent("stale", now', epoch)) ELSE failures
    /\ Len(events') <= MaxEvents
    /\ UNCHANGED <<lastSuccess, markerDue, delivery, deliveredAt, epoch>>

\* The failure itself cannot be recorded; it is only logged.
PollLost ==
    /\ Advance
    /\ UNCHANGED <<events, lastSuccess, markerDue, delivery, deliveredAt, epoch>>

\* A successful replace step insert opens a new rebuild cycle of the slot.
RebuildStarts(slot) ==
    /\ markerDue' = markerDue \cup {slot}
    /\ UNCHANGED <<now, events, lastSuccess, delivery, deliveredAt, epoch>>

\* drive_rebuild_status, _record_rebuild_progress_observed_once_sync: a page
\* that watches the rebuild records once per cycle that it saw progress.
RebuildObserved(slot) ==
    /\ slot \in Watched \cap markerDue /\ Len(events) < MaxEvents
    /\ events' = Append(events, NewEvent("marker", now, epoch))
    /\ markerDue' = markerDue \ {slot}
    /\ UNCHANGED <<now, lastSuccess, delivery, deliveredAt, epoch>>

-----------------------------------------------------------------------------
(* The Telegram phase, for system events. *)

\* is_monitoring_outage
IsMonitoringOutage(e) == e.kind = "stale"

\* incident_superseded: only a recovery reports the same field with another
\* severity.
SupersededBefore(j, i) == \E k \in (j + 1)..i : events[k].kind = "recovered"

FaultIgnoresRecovery(i) ==
    \E j \in Recorded \ {i} :
        delivery[j] = "sent" /\ now - deliveredAt[j] <= SuppressWindow

\* _same_incident_sent_since
SameIncidentSent(i) ==
    \E j \in Recorded \ {i} :
        /\ delivery[j] = "sent" /\ now - deliveredAt[j] <= SuppressWindow
        /\ ~SupersededBefore(j, i)

FaultPagesLate(i) == IF SameIncidentSent(i) THEN "duplicate" ELSE "sent"

\* delivery_relevance of a system event, then the dedup check.
Verdict(i) ==
    IF lastSuccess >= events[i].at THEN "obsolete"
    ELSE IF SameIncidentSent(i) THEN "duplicate"
    ELSE "sent"

\* One candidate of run_telegram_cycle_async.  A failed send leaves it as it
\* was; TelegramDelivery models the sending.
NotifyOutage(i) ==
    /\ i \in Recorded /\ IsMonitoringOutage(events[i]) /\ delivery[i] = "none"
    /\ delivery' = [delivery EXCEPT ![i] = Verdict(i)]
    /\ deliveredAt' = [deliveredAt EXCEPT ![i] = IF Verdict(i) = "sent" THEN now ELSE 0]
    /\ UNCHANGED <<now, events, lastSuccess, markerDue, epoch>>

Next ==
    \/ PollSucceeds \/ PollFails \/ PollLost
    \/ \E slot \in Slots : RebuildStarts(slot) \/ RebuildObserved(slot)
    \/ \E i \in Ids : NotifyOutage(i)

Spec == Init /\ [][Next]_vars

-----------------------------------------------------------------------------
(* Properties. *)

\* Types; only the explicit outage event ever gets a Telegram verdict.
TypeOK ==
    /\ now \in Nat
    /\ events \in Seq(SystemEvent) /\ Len(events) <= MaxEvents
    /\ lastSuccess \in 0..now /\ epoch \in Nat
    /\ markerDue \subseteq Slots
    /\ delivery \in [Ids -> Verdicts] /\ deliveredAt \in [Ids -> 0..now]
    /\ \A i \in Ids : delivery[i] # "none" => i \in Recorded /\ events[i].kind = "stale"

\* Between two successful polls the loss of monitoring is reported at most
\* once, however many polls fail.
OneReportPerOutage ==
    \A i, j \in Recorded :
        events[i].kind = "stale" /\ events[j].kind = "stale" /\ i # j
        => events[i].epoch # events[j].epoch

\* Enough failed polls over a long enough time are reported in this outage,
\* whatever earlier outages left in the event log.
ConfirmedOutageReported ==
    LET failures == {k \in Recorded : events[k].kind = "failed" /\ events[k].epoch = epoch}
    IN  ( /\ Cardinality(failures) >= MinFailed
          /\ \E k \in failures : events[k].at - StaleSince(events) >= StaleAfter )
        => \E k \in Recorded : events[k].kind = "stale" /\ events[k].epoch = epoch

\* The message about an outage leaves only while that outage lasts.
OutageMessagesCurrent ==
    [][\A i \in Ids : delivery[i] # "sent" /\ delivery'[i] = "sent"
                      => events[i].epoch = epoch]_vars

\* The message about an outage is dropped as a repetition only if the marker
\* of a watched rebuild came between a failed poll of an earlier outage and the poll
\* that ended it, and so kept that outage from having its recovery event.
MutedOnlyByMarker ==
    \A i \in Ids : delivery[i] = "duplicate" =>
        \E j, m \in Recorded :
            /\ j < m /\ m < i /\ events[m].kind = "marker"
            /\ events[j].kind = "stale" /\ events[j].epoch = events[m].epoch

\* An outage after a recovery is a new incident: its message is never dropped
\* as a repetition of the previous outage's.
RecurrenceAnnounced == \A i \in Ids : delivery[i] # "duplicate"
=============================================================================
