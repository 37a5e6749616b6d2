------------------------------ MODULE Incidents ------------------------------
(***************************************************************************)
(* What one saved poll says about the monitored hardware, the events that  *)
(* the detector derives from two consecutive polls                          *)
(* (services/event_detector.py), and when a recorded event still describes *)
(* the hardware (services/telegram_relevance.py).                          *)
(*                                                                         *)
(* An OBJECT is one dimension of one event subject: the state of a virtual *)
(* or physical drive or of the CacheVault, a boolean flag (SMART alert,    *)
(* replacement required), or a disk temperature.  Events of one object     *)
(* share category, subject and the field of after_json they report.  The   *)
(* texts of the states are abstracted to levels.                           *)
(***************************************************************************)
EXTENDS Integers, Sequences, FiniteSets

CONSTANTS
    StateObjects,   \* vd_state, pd_state, cv_state: every change is an event
    FlagObjects,    \* smart_alert, replacement_required: only a rise is one
    CounterObjects, \* media errors, predictive failures: every increase is one
    TempObjects,    \* disk temperature: a persisted hysteresis state
    Serials         \* identities of the disks that can sit in a slot

Objects == StateObjects \cup FlagObjects \cup CounterObjects \cup TempObjects

ASSUME ObjectsAssumption ==
    /\ StateObjects \cap (FlagObjects \cup CounterObjects \cup TempObjects) = {}
    /\ FlagObjects \cap (CounterObjects \cup TempObjects) = {}
    /\ CounterObjects \cap TempObjects = {}
    /\ Serials # {}

Levels == {"ok", "degraded", "offline", "set", "errors", "more", "warning", "critical"}

LevelsOf(o) ==
    IF o \in StateObjects THEN {"ok", "degraded", "offline"}
    ELSE IF o \in FlagObjects THEN {"ok", "set"}
    ELSE IF o \in CounterObjects THEN {"ok", "errors", "more"}
    ELSE {"ok", "warning", "critical"}

\* The order of a counter's levels.
Exceeds(a, b) == (a = "more" /\ b # "more") \/ (a = "errors" /\ b = "ok")

Severities == {"info", "warning", "critical"}

\* virtual_drive_state_severity and its siblings, for the levels kept here.
Severity(level) ==
    CASE level = "ok"      -> "info"
      [] level = "warning" -> "warning"
      [] OTHER             -> "critical"

\* What a saved snapshot holds of one object.  For a temperature, level is the
\* persisted hysteresis state and seen says whether the poll had a reading.
Reading == [level : Levels, serial : Serials, seen : BOOLEAN]

\* after is the level the event reports (after_json).  rise marks the
\* before=false metadata of a flag that was seen clear (a new episode).
Event == [obj : Objects, sev : Severities, after : Levels,
          rise : BOOLEAN, serial : Serials]

NewEvent(o, sev, after, rise, serial) ==
    [obj |-> o, sev |-> sev, after |-> after, rise |-> rise, serial |-> serial]

\* Counts are no part of the identity of an incident.
IncidentKey(e) == IF e.obj \in CounterObjects THEN "errors" ELSE e.after

-----------------------------------------------------------------------------
(* Detection: the events between the previous reading and the new one. *)

StateEvents(o, old, new) ==
    IF \/ old.level # new.level
       \/ old.serial # new.serial /\ Severity(new.level) # "info"
    THEN <<NewEvent(o, Severity(new.level), new.level, FALSE, new.serial)>>
    ELSE <<>>

FlagEvents(o, old, new) ==
    LET replaced == old.serial # new.serial
    IN  IF new.level = "set" /\ (old.level # "set" \/ replaced)
        THEN <<NewEvent(o, "critical", "set", ~replaced, new.serial)>>
        ELSE <<>>

CounterEvents(o, old, new) ==
    IF \/ Exceeds(new.level, old.level)
       \/ old.serial # new.serial /\ new.level # "ok"
    THEN <<NewEvent(o, "critical", new.level, FALSE, new.serial)>>
    ELSE <<>>

\* _temperature_transitions: one event per hysteresis edge on the way from the
\* state before the poll to the state after it.
TempEvents(o, from, new) ==
    LET edge(taken, sev, after) ==
            IF taken THEN <<NewEvent(o, sev, after, FALSE, new.serial)>> ELSE <<>>
        to == new.level
    IN  edge(from = "ok" /\ to # "ok", "warning", "warning")
        \o edge(from # "critical" /\ to = "critical", "critical", "critical")
        \o edge(from = "critical" /\ to # "critical", "info", "warning")
        \o edge(from # "ok" /\ to = "ok", "info", "ok")

\* A replaced disk starts from the ok temperature state.
TempBefore(old, new) == IF old.serial # new.serial THEN "ok" ELSE old.level

Detect(o, old, new) ==
    IF o \in StateObjects THEN StateEvents(o, old, new)
    ELSE IF o \in FlagObjects THEN FlagEvents(o, old, new)
    ELSE IF o \in CounterObjects THEN CounterEvents(o, old, new)
    ELSE TempEvents(o, TempBefore(old, new), new)

\* Readings a poll can bring: only temperatures can be missing, and a missing
\* reading leaves the persisted hysteresis state alone (or clears it for a
\* replaced disk).
PossibleReading(o, old, new) ==
    /\ new.level \in LevelsOf(o)
    /\ ~new.seen => o \in TempObjects /\ new.level = TempBefore(old, new)

-----------------------------------------------------------------------------
(* Relevance of the recorded event number i in the event log. *)

\* incident_superseded, for the later events whose number is in Later.
Superseded(log, i, Later) ==
    \E k \in Later :
        /\ k > i
        /\ log[k].obj = log[i].obj
        /\ \/ log[k].sev # log[i].sev
           \/ IncidentKey(log[k]) # IncidentKey(log[i])
           \/ log[k].rise
           \/ log[k].serial # log[i].serial /\ log[i].obj \in StateObjects

\* The tail of delivery_relevance: does the newest reading show the incident?
StillShown(e, level) ==
    \/ level = e.after
    \/ e.obj \in CounterObjects /\ Exceeds(level, e.after)

Evidence(e, reading) ==
    IF reading.serial # e.serial \/ ~StillShown(e, reading.level) THEN "obsolete"
    ELSE IF ~reading.seen THEN "awaiting"
    ELSE "active"

\* is_telegram_alert
IsTelegramAlert(e) ==
    \/ e.sev = "critical"
    \/ e.sev = "warning" /\ e.obj \in TempObjects

\* _warning_has_ended
WarningHasEnded(log, i) ==
    \E k \in DOMAIN log : k > i /\ log[k].obj = log[i].obj /\ log[k].sev # "warning"

SameIncident(e, f) ==
    /\ e.sev = f.sev /\ e.obj = f.obj /\ e.serial = f.serial
    /\ IncidentKey(e) = IncidentKey(f)
=============================================================================
