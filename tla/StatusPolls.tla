---------------------------- MODULE StatusPolls ----------------------------
(***************************************************************************)
(* The pages that poll a running operation and leave a record of it: the   *)
(* rebuild status of a replaced drive, with one progress marker and one    *)
(* completion record per replacement cycle, and the consistency check,     *)
(* with its "inconsistency detected" and "resolved" events (web/routes.py).*)
(*                                                                         *)
(* Each poll first reads the controller and then writes in a thread of its *)
(* own, so that several polls overlap with one another, with the operator  *)
(* who starts the next cycle, and with the controller's progress.  The     *)
(* rebuild records begin with BEGIN IMMEDIATE; the consistency check reads *)
(* the newest event outside the write transaction.                         *)
(***************************************************************************)
EXTENDS Naturals, Sequences

CONSTANTS
    Pages,      \* polling requests
    NoPage,     \* nobody has the write lock
    MaxRecords  \* bound: records of either kind

ASSUME PollAssumption == NoPage \notin Pages /\ MaxRecords \in Nat

VARIABLES
    rebuild,    \* the controller: "running" or "complete"
    mirrorBad,  \* the controller reports an inconsistency
    cycleLog,   \* the records about the slot, in order
    ccLog,      \* the consistency check events, in order
    writer,     \* who has SQLite's write lock
    at,         \* where each poll is
    saw,        \* what it read from the controller
    latest      \* what it read from the database: a number of ccLog

pollVars == <<rebuild, mirrorBad, cycleLog, ccLog, writer, at, saw, latest>>
pageVars == <<writer, at, saw, latest>>

Steps == {"idle", "rebuild", "once", "cc", "compared"}
Seen  == {"nothing", "running", "complete", "bad", "good"}

PollInit ==
    /\ rebuild = "running" /\ mirrorBad \in BOOLEAN
    /\ cycleLog = <<"insert">> /\ ccLog = <<>>
    /\ writer = NoPage
    /\ at = [p \in Pages |-> "idle"] /\ saw = [p \in Pages |-> "nothing"]
    /\ latest = [p \in Pages |-> 0]

\* The rebuild completes; a scan finds or stops finding an inconsistency.
ControllerMoves ==
    /\ \/ rebuild = "running" /\ rebuild' = "complete" /\ UNCHANGED mirrorBad
       \/ mirrorBad' = ~mirrorBad /\ UNCHANGED rebuild
    /\ UNCHANGED <<cycleLog, ccLog, pageVars>>

\* A successful replace step insert opens the next cycle of the slot; its record
\* needs the write lock too.
NextCycle ==
    /\ writer = NoPage /\ Len(cycleLog) < MaxRecords
    /\ rebuild' = "running"
    /\ cycleLog' = Append(cycleLog, "insert")
    /\ UNCHANGED <<mirrorBad, ccLog, pageVars>>

-----------------------------------------------------------------------------
\* The request is over, and with it its transaction.
Ends(p) ==
    /\ at' = [at EXCEPT ![p] = "idle"] /\ saw' = [saw EXCEPT ![p] = "nothing"]
    /\ latest' = [latest EXCEPT ![p] = 0]
    /\ writer' = IF writer = p THEN NoPage ELSE writer

(* drive_rebuild_status *)

ReadRebuild(p) ==
    /\ at[p] = "idle"
    /\ at' = [at EXCEPT ![p] = "rebuild"] /\ saw' = [saw EXCEPT ![p] = rebuild]
    /\ UNCHANGED <<rebuild, mirrorBad, cycleLog, ccLog, writer, latest>>

FaultBeginDeferred(p) ==
    /\ at[p] = "rebuild"
    /\ at' = [at EXCEPT ![p] = "once"]
    /\ latest' = [latest EXCEPT ![p] = Len(cycleLog)]
    /\ UNCHANGED <<rebuild, mirrorBad, cycleLog, ccLog, writer, saw>>

\* BEGIN IMMEDIATE, and the readings that follow.
BeginImmediate(p) ==
    /\ at[p] = "rebuild" /\ writer = NoPage
    /\ writer' = p /\ at' = [at EXCEPT ![p] = "once"]
    /\ latest' = [latest EXCEPT ![p] = Len(cycleLog)]
    /\ UNCHANGED <<rebuild, mirrorBad, cycleLog, ccLog, saw>>

\* _load_replacement_cycle_marker_for_slot: the newest insert among the first n.
CycleStart(n) ==
    CHOOSE i \in 1..n : cycleLog[i] = "insert" /\ \A j \in (i + 1)..n : cycleLog[j] # "insert"

\* _load_rebuild_..._for_slot: a record of this kind since then.
RecordedSince(n, kind) == \E i \in CycleStart(n)..n : cycleLog[i] = kind

\* _record_rebuild_progress_observed_once_sync, _record_rebuild_complete_once_sync:
\* rolled back when there is a record, else inserted and committed.
RecordOnce(p) ==
    /\ at[p] = "once" /\ Len(cycleLog) < MaxRecords
    /\ cycleLog' = IF RecordedSince(latest[p], saw[p]) THEN cycleLog
                   ELSE Append(cycleLog, saw[p])
    /\ Ends(p)
    /\ UNCHANGED <<rebuild, mirrorBad, ccLog>>

\* The database is locked for too long, the process dies, or the commit fails.
PollFails(p) ==
    /\ at[p] # "idle"
    /\ Ends(p)
    /\ UNCHANGED <<rebuild, mirrorBad, cycleLog, ccLog>>

-----------------------------------------------------------------------------
(* The consistency check's status page and panel. *)

ReadCheck(p) ==
    /\ at[p] = "idle"
    /\ at' = [at EXCEPT ![p] = "cc"]
    /\ saw' = [saw EXCEPT ![p] = IF mirrorBad THEN "bad" ELSE "good"]
    /\ UNCHANGED <<rebuild, mirrorBad, cycleLog, ccLog, writer, latest>>

LatestIs(n, kind) == n > 0 /\ ccLog[n] = kind

FaultDue(p) == saw[p] = "bad" \/ latest[p] > 0

\* An event is due when the newest one does not say what the controller says.
Due(p) ==
    \/ saw[p] = "bad" /\ ~LatestIs(latest[p], "detected")
    \/ saw[p] = "good" /\ LatestIs(latest[p], "detected")

\* _record_consistency_check_inconsistency_state_sync: the query,
CompareLatest(p) ==
    /\ at[p] = "cc"
    /\ latest' = [latest EXCEPT ![p] = Len(ccLog)]
    /\ at' = [at EXCEPT ![p] = "compared"]
    /\ UNCHANGED <<rebuild, mirrorBad, cycleLog, ccLog, writer, saw>>

\* and the insert, which waits for the write lock and commits with the block.
RecordCheck(p) ==
    /\ at[p] = "compared" /\ (Due(p) => writer = NoPage /\ Len(ccLog) < MaxRecords)
    /\ ccLog' = IF Due(p)
                THEN Append(ccLog, IF saw[p] = "bad" THEN "detected" ELSE "resolved")
                ELSE ccLog
    /\ Ends(p)
    /\ UNCHANGED <<rebuild, mirrorBad, cycleLog>>

PollNext ==
    \/ ControllerMoves \/ NextCycle
    \/ \E p \in Pages :
          \/ ReadRebuild(p) \/ BeginImmediate(p) \/ RecordOnce(p) \/ PollFails(p)
          \/ ReadCheck(p) \/ CompareLatest(p) \/ RecordCheck(p)

PollSpec == PollInit /\ [][PollNext]_pollVars

-----------------------------------------------------------------------------
(* Properties. *)

\* However many pages watch a rebuild, between two inserts there is at most one
\* progress marker and at most one completion record.
OncePerCycle ==
    \A i, j \in 1..Len(cycleLog) :
        i < j /\ cycleLog[i] = cycleLog[j] /\ cycleLog[i] # "insert"
        => \E k \in (i + 1)..(j - 1) : cycleLog[k] = "insert"

RepeatedNow(p) ==
    /\ ccLog' # ccLog /\ at[p] = "compared" /\ at'[p] = "idle"
    /\ Len(ccLog) > 0 /\ ccLog'[Len(ccLog')] = ccLog[Len(ccLog)]

\* The consistency check log alternates between detected and resolved; the same
\* event is repeated only by a poll that was overtaken by another one.
RepeatOnlyWhenOvertaken ==
    [][\A p \in Pages : RepeatedNow(p) => latest[p] < Len(ccLog)]_pollVars
=============================================================================
