---------------------------- MODULE SmtpNotifier ----------------------------
(***************************************************************************)
(* The e-mail channel: run_notifier_cycle of services/notifier.py, called  *)
(* by the notifier job of services/scheduler.py after the Telegram phase.  *)
(*                                                                         *)
(* The database is log, occurredAt, notified, notifiedAt and maintenance.  *)
(* A cycle works in one transaction: its marks are visible to its own      *)
(* queries at once (mark_event_notified flushes) and to everybody else at  *)
(* the single commit at the end.  Mails leave before that commit.  The     *)
(* process is replaced as soon as it dies: the time it is down is a time   *)
(* without cycles.                                                         *)
(***************************************************************************)
EXTENDS Integers, Sequences, FiniteSets

CONSTANTS
    Keys,        \* (severity, category, subject) of events
    Muted,       \* keys below alert_severity_threshold
    WebKeys,     \* keys recorded by web requests, which do not wait for the cycle
    LongKeys,    \* keys of the categories in _PER_CATEGORY_SUPPRESS_MINUTES
    Window,      \* alert_suppress_window_minutes
    LongWindow,  \* the per-category suppress window
    MaxEvents,   \* bound: events
    MaxTime,     \* bound: the clock
    MaxFaults    \* bound: crashes, aborted cycles, lost answers

ASSUME SmtpAssumption ==
    /\ Muted \subseteq Keys /\ WebKeys \subseteq Keys /\ LongKeys \subseteq Keys
    /\ Window \in Nat /\ LongWindow \in Nat
    /\ MaxEvents \in Nat /\ MaxTime \in Nat /\ MaxFaults \in Nat

VARIABLES
    now,          \* the clock
    log,          \* the events table: the key of every event, in id order
    occurredAt,   \* per event
    notified,     \* why notified_at is set: "sent", "duplicate"; "no" if it is not
    notifiedAt,   \* notified_at
    maintenance,  \* a maintenance window is active
    running,      \* a cycle is under way
    cycleNow,     \* its now_utc
    todo,         \* its pending events that are still to be handled
    marks,        \* its uncommitted marks
    failed,       \* its failed > 0
    health,       \* _NOTIFIER_HEALTH
    accepted,     \* observation only: mails the server accepted, per event
    uncertain,    \* observation only: of these, the ones the database never learned of
    faults        \* observation only: faults so far

tableVars == <<log, occurredAt, notified, notifiedAt>>
cycleVars == <<running, cycleNow, todo, marks, failed>>
mailVars  == <<accepted, uncertain, faults>>
vars == <<now, tableVars, maintenance, cycleVars, health, mailVars>>

Ids      == 1..MaxEvents
Recorded == 1..Len(log)
Marks    == {"no", "sent", "duplicate"}
NoMarks  == [i \in Ids |-> "no"]

\* _suppress_window_minutes
SuppressWindow(key) == IF key \in LongKeys THEN LongWindow ELSE Window

Init ==
    /\ now = 0 /\ log = <<>> /\ maintenance = FALSE
    /\ occurredAt = [i \in Ids |-> 0] /\ notifiedAt = [i \in Ids |-> 0]
    /\ notified = NoMarks
    /\ running = FALSE /\ cycleNow = 0 /\ todo = {} /\ marks = NoMarks /\ failed = FALSE
    /\ health = TRUE
    /\ accepted = [i \in Ids |-> 0] /\ uncertain = [i \in Ids |-> 0] /\ faults = 0

-----------------------------------------------------------------------------
(* What goes on around the notifier. *)

Tick ==
    /\ now < MaxTime /\ now' = now + 1
    /\ UNCHANGED <<tableVars, maintenance, cycleVars, health, mailVars>>

\* record_event.  The jobs of the collector wait for the cycle at the shared
\* asyncio lock; a web request only meets the write lock of the database, which
\* the cycle holds from its first mark on.
RecordEvent(key) ==
    /\ running => key \in WebKeys /\ marks = NoMarks
    /\ Len(log) < MaxEvents
    /\ log' = Append(log, key)
    /\ occurredAt' = [occurredAt EXCEPT ![Len(log) + 1] = now]
    /\ UNCHANGED <<now, notified, notifiedAt, maintenance, cycleVars, health, mailVars>>

\* The operator opens a maintenance window: a write like any other.
MaintenanceStarts ==
    /\ ~maintenance /\ (running => marks = NoMarks)
    /\ maintenance' = TRUE
    /\ UNCHANGED <<now, tableVars, cycleVars, health, mailVars>>

\* It expires, or the operator ends it.
MaintenanceEnds ==
    /\ maintenance
    /\ maintenance' = FALSE
    /\ UNCHANGED <<now, tableVars, cycleVars, health, mailVars>>

-----------------------------------------------------------------------------
(* A definition named Fault... is a wrong variant of the definition that    *)
(* follows it; the specification never uses it.                             *)

FaultResendsNotified(i) ==
    log[i] \notin Muted /\ now - occurredAt[i] <= SuppressWindow(log[i])

\* iter_pending_events, and the event's own window.  The code looks at the window
\* when the event's turn comes, but with the fixed now_utc of the cycle.
IsPending(i) ==
    /\ log[i] \notin Muted
    /\ notified[i] = "no"
    /\ now - occurredAt[i] <= SuppressWindow(log[i])

\* Nothing happens, not even to the health, while maintenance is active.
CycleStart ==
    /\ ~running /\ ~maintenance
    /\ running' = TRUE /\ cycleNow' = now
    /\ todo' = {i \in Recorded : IsPending(i)}
    /\ marks' = NoMarks /\ failed' = FALSE
    /\ UNCHANGED <<now, tableVars, maintenance, health, mailVars>>

\* Pending events are handled oldest first.
IsNext(i) == running /\ i \in todo /\ \A j \in todo : i <= j

FaultReadsCommitted(i) ==
    \E j \in Recorded \ {i} :
        /\ log[j] = log[i] /\ notified[j] # "no"
        /\ cycleNow - notifiedAt[j] <= SuppressWindow(log[i])

\* _event_was_notified_recently: marks of this cycle count with its own time.
NotifiedRecently(i) ==
    \E j \in Recorded \ {i} :
        /\ log[j] = log[i]
        /\ \/ marks[j] # "no"
           \/ notified[j] # "no" /\ cycleNow - notifiedAt[j] <= SuppressWindow(log[i])

Mark(i, why) ==
    /\ marks' = [marks EXCEPT ![i] = why]
    /\ todo' = todo \ {i}
    /\ UNCHANGED <<now, tableVars, maintenance, running, cycleNow, failed, health>>

Deduplicate(i) ==
    /\ IsNext(i) /\ NotifiedRecently(i)
    /\ Mark(i, "duplicate")
    /\ UNCHANGED mailVars

\* The server takes the mail and says so.
SendMail(i) ==
    /\ IsNext(i) /\ ~NotifiedRecently(i)
    /\ Mark(i, "sent")
    /\ accepted' = [accepted EXCEPT ![i] = @ + 1]
    /\ UNCHANGED <<uncertain, faults>>

FaultMarksFailed(i) ==
    /\ IsNext(i) /\ ~NotifiedRecently(i)
    /\ marks' = [marks EXCEPT ![i] = "sent"] /\ todo' = todo \ {i} /\ failed' = TRUE
    /\ UNCHANGED <<now, tableVars, maintenance, running, cycleNow, health, mailVars>>

FaultFailsQuietly(i) ==
    /\ IsNext(i) /\ ~NotifiedRecently(i)
    /\ todo' = todo \ {i}
    /\ UNCHANGED <<now, tableVars, maintenance, running, cycleNow, marks, failed,
                   health, mailVars>>

\* transport.send raises: the event stays pending, the cycle goes on.
SendFails(i) ==
    /\ IsNext(i) /\ ~NotifiedRecently(i)
    /\ todo' = todo \ {i} /\ failed' = TRUE
    /\ UNCHANGED <<now, tableVars, maintenance, running, cycleNow, marks, health, mailVars>>

\* The same, but the server had taken the mail.
AnswerLost(i) ==
    /\ IsNext(i) /\ ~NotifiedRecently(i)
    /\ faults < MaxFaults /\ faults' = faults + 1
    /\ todo' = todo \ {i} /\ failed' = TRUE
    /\ accepted' = [accepted EXCEPT ![i] = @ + 1]
    /\ uncertain' = [uncertain EXCEPT ![i] = @ + 1]
    /\ UNCHANGED <<now, tableVars, maintenance, running, cycleNow, marks, health>>

EndCycle ==
    /\ running' = FALSE /\ cycleNow' = 0 /\ todo' = {} /\ marks' = NoMarks /\ failed' = FALSE

\* The single commit, and the health after it.
Commit ==
    /\ running /\ todo = {}
    /\ notified' = [i \in Ids |-> IF marks[i] # "no" THEN marks[i] ELSE notified[i]]
    /\ notifiedAt' = [i \in Ids |-> IF marks[i] # "no" THEN cycleNow ELSE notifiedAt[i]]
    /\ health' = ~failed
    /\ EndCycle
    /\ UNCHANGED <<now, log, occurredAt, maintenance, mailVars>>

\* The mails of the cycle are out, its marks are lost.
RollBack ==
    /\ faults < MaxFaults /\ faults' = faults + 1
    /\ EndCycle
    /\ UNCHANGED <<now, tableVars, maintenance>>

ForgottenMails == [i \in Ids |-> uncertain[i] + IF marks[i] = "sent" THEN 1 ELSE 0]

\* A database error in a mark or in the commit.
CycleAborts ==
    /\ running /\ RollBack
    /\ health' = FALSE
    /\ uncertain' = ForgottenMails
    /\ UNCHANGED accepted

\* The process dies, possibly after the server took one more mail.
Crash ==
    /\ RollBack
    /\ health' = TRUE
    /\ \/ /\ uncertain' = ForgottenMails
          /\ UNCHANGED accepted
       \/ \E i \in todo :
             /\ IsNext(i) /\ ~NotifiedRecently(i)
             /\ uncertain' = [ForgottenMails EXCEPT ![i] = @ + 1]
             /\ accepted' = [accepted EXCEPT ![i] = @ + 1]

Next ==
    \/ Tick \/ MaintenanceStarts \/ MaintenanceEnds
    \/ \E key \in Keys : RecordEvent(key)
    \/ CycleStart
    \/ \E i \in Ids : Deduplicate(i) \/ SendMail(i) \/ SendFails(i) \/ AnswerLost(i)
    \/ Commit \/ CycleAborts \/ Crash

Spec == Init /\ [][Next]_vars

-----------------------------------------------------------------------------
(* Properties. *)

TableTypes ==
    /\ now \in Nat /\ log \in Seq(Keys) /\ Len(log) <= MaxEvents
    /\ occurredAt \in [Ids -> Nat] /\ notifiedAt \in [Ids -> Nat]
    /\ notified \in [Ids -> Marks]

CycleTypes == cycleNow \in Nat /\ todo \in SUBSET Recorded /\ marks \in [Ids -> Marks]

MailTypes == accepted \in [Ids -> Nat] /\ uncertain \in [Ids -> Nat] /\ faults \in 0..MaxFaults

FlagTypes ==
    maintenance \in BOOLEAN /\ running \in BOOLEAN /\ failed \in BOOLEAN /\ health \in BOOLEAN

\* No time in the table, nor the one the cycle compares with, is ahead of the clock.
NothingAhead ==
    cycleNow <= now /\ \A i \in Ids : occurredAt[i] <= now /\ notifiedAt[i] <= now

\* Types of the variables; the cycle handles recorded events only, and no time
\* is ahead of the clock.
TypeOK == TableTypes /\ CycleTypes /\ MailTypes /\ FlagTypes /\ NothingAhead

\* The commit at the end of the cycle never makes a mail go out twice by
\* itself: every repetition is matched by a crash, a rollback or a lost answer
\* that kept the mark of an earlier mail out of the database.
MailRepeatsJustified == \A i \in Ids : accepted[i] <= uncertain[i] + 1

\* An event is put aside as a duplicate only when a mail for the same key has
\* really gone out, also when that mail was one of the same cycle or belongs to
\* a later event, and whatever was rolled back in between.
DuplicatesHaveMail ==
    \A i \in Recorded : notified[i] = "duplicate" =>
        \E j \in Recorded : log[j] = log[i] /\ notified[j] = "sent" /\ accepted[j] > 0

\* Two recorded mails for one key are further apart than its suppress window.
OneMailPerWindow ==
    \A i, j \in Recorded :
        i # j /\ log[i] = log[j] /\ notified[i] = "sent" /\ notified[j] = "sent"
        => \/ notifiedAt[i] - notifiedAt[j] > SuppressWindow(log[i])
           \/ notifiedAt[j] - notifiedAt[i] > SuppressWindow(log[i])

\* A cycle that reports a healthy channel has left no alert of its window
\* unnotified, except those recorded while it was running.
HealthyCycleIsComplete ==
    [][running /\ ~running' /\ health' /\ faults' = faults =>
         \A i \in Recorded :
            ( /\ log[i] \notin Muted /\ occurredAt[i] < cycleNow
              /\ cycleNow - occurredAt[i] <= SuppressWindow(log[i]) )
            => notified'[i] # "no"]_vars

\* Duplicates are suppressed for the length of the window, counted from a mail.
SuppressionEnds ==
    \A i \in Recorded : notified[i] = "duplicate" =>
        \E j \in Recorded : /\ log[j] = log[i] /\ notified[j] = "sent"
                            /\ notifiedAt[i] - notifiedAt[j] <= SuppressWindow(log[i])

\* The e-mail channel implements the abstract at-least-once alert channel.
Settled(i) ==
    CASE notified[i] = "sent"      -> "delivered"
      [] notified[i] = "duplicate" -> "dropped"
      [] OTHER                     -> "open"

Channel == INSTANCE AlertChannel WITH
    Alerts <- Ids, settled <- [i \in Ids |-> Settled(i)], messages <- accepted

ImplementsChannel == Channel!ChannelSpec
=============================================================================
