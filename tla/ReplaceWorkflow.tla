--------------------------- MODULE ReplaceWorkflow ---------------------------
(***************************************************************************)
(* The replacement of the drive in one slot: the offline, missing and      *)
(* insert requests of web/routes.py in any number and order, the drive in  *)
(* the slot, the snapshot the collector takes of it and the audit log the  *)
(* insert gate reads.  The deployment has full-supported-actions; whether  *)
(* maintenance, policy and safety reads let a write through is the subject *)
(* of OperatorWrites: here they may refuse at any time.                    *)
(***************************************************************************)
EXTENDS Integers, FiniteSets

CONSTANTS
    Requests,         \* POST requests
    Drives,           \* serial numbers
    NoDrive,          \* none
    MaxSwaps,         \* bound: drives pulled
    MaxRestarts       \* bound: restarts of the process

ASSUME ReplaceAssumption ==
    /\ NoDrive \notin Drives
    /\ MaxSwaps \in Nat /\ MaxRestarts \in Nat

VARIABLES
    slotDrive,    \* the drive in the slot
    slotState,    \* its state
    rebuilt,      \* its rebuild is complete
    snapDrive,    \* the drive in the latest snapshot row of the slot
    lastStep,     \* the latest audit row of the slot that the insert gate looks at:
    lastSerial,   \*   its serial
    lastOk,       \*   it ends with "succeeded"
    completed,    \* "rebuild complete" is recorded since the latest successful insert
    pc,           \* where each request is
    step,         \* "offline", "missing", "insert"
    serial,       \* the serial number the operator has typed
    seen,         \* the snapshot's drive an insert has loaded, NoDrive otherwise
    rowOk,        \* the audit row about to be saved says "succeeded"
    marked,       \* it has the read_only_precheck marker
    status,       \* the answer, 0 if there is none
    wire,         \* observation only: what became of the command
    wasMissing,   \* observation only: drives that have been in state Msng
    swaps,        \* observation only: drives pulled so far
    restarts      \* observation only: restarts so far

hwVars   == <<slotDrive, slotState, rebuilt, wasMissing>>
lastVars == <<lastStep, lastSerial, lastOk, completed>>
askVars  == <<step, serial>>
outVars  == <<rowOk, marked, status>>
obsVars  == <<swaps, restarts>>
vars == <<hwVars, snapDrive, lastVars, pc, askVars, seen, outVars, wire, obsVars>>

Steps  == {"offline", "missing", "insert"}
States == {"Empty", "Onln", "Offln", "Msng", "UGood", "Rbld"}
Places == {"idle", "gate", "live", "write", "sent", "observe", "audit", "done", "gone"}
Wires  == {"none", "dispatched", "applied", "refused"}
Codes  == {0, 200, 403, 409, 500, 502}

\* _OFFLINE_ALLOWED_STATES, _MISSING_ALLOWED_STATES and the UGood of the insert.
\* Failed and UBad are allowed where Onln is and left out.
AllowedStates(s) ==
    CASE s = "offline" -> {"Onln", "Offln", "UGood"}
      [] s = "missing" -> {"Offln"}
      [] s = "insert"  -> {"UGood"}

\* The state a command leads to.
StateAfter(s) ==
    CASE s = "offline" -> "Offln"
      [] s = "missing" -> "Msng"
      [] s = "insert"  -> "Rbld"

Init ==
    /\ slotDrive \in Drives /\ slotState = "Onln" /\ rebuilt = FALSE
    /\ snapDrive = slotDrive
    /\ lastStep = "none" /\ lastSerial = NoDrive /\ lastOk = FALSE /\ completed = FALSE
    /\ pc = [r \in Requests |-> "idle"]
    /\ step \in [Requests -> Steps] /\ serial \in [Requests -> Drives]
    /\ rowOk = [r \in Requests |-> FALSE] /\ marked = rowOk
    /\ status = [r \in Requests |-> 0] /\ seen = [r \in Requests |-> NoDrive]
    /\ wire = [r \in Requests |-> "none"]
    /\ wasMissing = {} /\ swaps = 0 /\ restarts = 0

-----------------------------------------------------------------------------
(* The slot, the collector, the rebuild. *)

reqVars == <<pc, askVars, seen, outVars, wire>>

\* can_transition_step3
MissingSucceeded == lastStep = "missing" /\ lastOk

\* The wizard asks for the swap after a verified Missing; nothing enforces it.
Pull ==
    /\ slotDrive # NoDrive /\ swaps < MaxSwaps
    /\ slotDrive' = NoDrive /\ slotState' = "Empty" /\ rebuilt' = FALSE
    /\ swaps' = swaps + 1
    /\ UNCHANGED <<wasMissing, snapDrive, lastVars, restarts, reqVars>>

Seat(d) ==
    /\ slotDrive = NoDrive
    /\ slotDrive' = d /\ slotState' = "UGood"
    /\ UNCHANGED <<rebuilt, wasMissing, snapDrive, lastVars, obsVars, reqVars>>

\* A collector poll: an empty slot has no row, so the older row stays the latest.
Poll ==
    /\ slotDrive # NoDrive
    /\ snapDrive' = slotDrive
    /\ UNCHANGED <<hwVars, lastVars, obsVars, reqVars>>

RebuildEnds ==
    /\ slotState = "Rbld"
    /\ slotState' = "Onln" /\ rebuilt' = TRUE
    /\ UNCHANGED <<slotDrive, wasMissing, snapDrive, lastVars, obsVars, reqVars>>

\* drive_rebuild_status sees 100 % and Complete: recorded once per cycle, under
\* BEGIN IMMEDIATE.  The row has the category and the slot the gate looks for.
RebuildStatus ==
    /\ rebuilt /\ ~completed
    /\ completed' = TRUE
    /\ lastStep' = "rebuild" /\ lastSerial' = NoDrive /\ lastOk' = FALSE
    /\ UNCHANGED <<hwVars, snapDrive, obsVars, reqVars>>

Restart ==
    /\ restarts < MaxRestarts /\ restarts' = restarts + 1
    /\ pc' = [r \in Requests |-> IF pc[r] \in {"idle", "done"} THEN pc[r] ELSE "gone"]
    /\ seen' = [r \in Requests |-> NoDrive]
    /\ UNCHANGED <<hwVars, snapDrive, lastVars, askVars, outVars, wire, swaps>>

-----------------------------------------------------------------------------
(* The requests. *)

Go(r, place) ==
    /\ pc' = [pc EXCEPT ![r] = place]
    /\ UNCHANGED outVars

Answer(r, code) ==
    /\ pc' = [pc EXCEPT ![r] = "done"]
    /\ status' = [status EXCEPT ![r] = code]
    /\ UNCHANGED <<rowOk, marked>>

Record(r, ok, mark) ==
    /\ pc' = [pc EXCEPT ![r] = "audit"]
    /\ rowOk' = [rowOk EXCEPT ![r] = ok]
    /\ marked' = [marked EXCEPT ![r] = mark]
    /\ UNCHANGED status

worldVars == <<hwVars, snapDrive, lastVars, askVars, obsVars>>

\* _run_replace_step up to the live read: the snapshot has the drive the operator
\* named, and maintenance and destructive mode are on (else 403).
CheckStep(r) ==
    /\ pc[r] = "idle" /\ step[r] # "insert"
    /\ IF snapDrive = serial[r] THEN Go(r, "live") \/ Answer(r, 403) ELSE Answer(r, 409)
    /\ UNCHANGED <<worldVars, seen, wire>>

\* drive_replace_insert loads the latest drive of the slot first ...
LoadDrive(r) ==
    /\ pc[r] = "idle" /\ step[r] = "insert"
    /\ Go(r, "gate")
    /\ seen' = [seen EXCEPT ![r] = snapDrive]
    /\ UNCHANGED <<worldVars, wire>>

FaultOutgoingAccepted(r) ==
    MissingSucceeded /\ seen[r] \in {serial[r], lastSerial}

\* The snapshot may lag behind the swap.
RecordsAgree(r) ==
    /\ MissingSucceeded
    /\ serial[r] # lastSerial
    /\ seen[r] \in {serial[r], lastSerial}

\* ... then the latest audit row.  409 also if the topology cannot be derived.
InsertGate(r) ==
    /\ pc[r] = "gate"
    /\ \/ RecordsAgree(r) /\ Go(r, "live")
       \/ RecordsAgree(r) /\ Answer(r, 403)
       \/ Answer(r, 409)
    /\ seen' = [seen EXCEPT ![r] = NoDrive]
    /\ UNCHANGED <<worldVars, wire>>

\* The drive in the slot must be the one the operator named, in the right state.
LiveRead(r) ==
    /\ pc[r] = "live"
    /\ IF slotDrive = serial[r] /\ slotState \in AllowedStates(step[r])
       THEN Go(r, "write")
       ELSE Answer(r, 409)
    /\ UNCHANGED <<worldVars, seen, wire>>

\* A failed read is audited; the row of an insert carries the marker.
LiveReadFails(r) ==
    /\ pc[r] = "live"
    /\ Record(r, FALSE, step[r] = "insert")
    /\ UNCHANGED <<worldVars, seen, wire>>

\* run_storcli refuses before the command is started: a safety read has failed,
\* the policy has changed, maintenance is over.
WriteRefused(r) ==
    /\ pc[r] = "write"
    /\ Record(r, FALSE, FALSE)
    /\ UNCHANGED <<worldVars, seen, wire>>

\* The command names the slot, not the drive.
Write(r) ==
    /\ pc[r] = "write"
    /\ Go(r, "sent")
    /\ wire' = [wire EXCEPT ![r] = "dispatched"]
    /\ UNCHANGED <<worldVars, seen>>

\* The controller carries a command out on whatever is in the slot, or refuses it;
\* after a timeout that can be late.
ControllerActs(r) ==
    /\ wire[r] = "dispatched"
    /\ \/ /\ slotState \in AllowedStates(step[r])
          /\ wire' = [wire EXCEPT ![r] = "applied"]
          /\ slotState' = StateAfter(step[r])
          /\ wasMissing' = IF step[r] = "missing" THEN wasMissing \cup {slotDrive} ELSE wasMissing
       \/ /\ wire' = [wire EXCEPT ![r] = "refused"]
          /\ UNCHANGED <<slotState, wasMissing>>
    /\ UNCHANGED <<slotDrive, rebuilt, snapDrive, lastVars, pc, askVars, seen, outVars, obsVars>>

FaultSuccessIsTrusted(r) ==
    /\ pc[r] = "sent" /\ wire[r] = "applied"
    /\ Record(r, TRUE, FALSE)
    /\ UNCHANGED <<worldVars, seen, wire>>

\* The controller says Success: after offline and missing the drive is read again.
CommandSucceeds(r) ==
    /\ pc[r] = "sent" /\ wire[r] = "applied"
    /\ IF step[r] = "insert" THEN Record(r, TRUE, FALSE) ELSE Go(r, "observe")
    /\ UNCHANGED <<worldVars, seen, wire>>

CommandFails(r) ==
    /\ pc[r] = "sent"
    /\ Record(r, FALSE, FALSE)
    /\ UNCHANGED <<worldVars, seen, wire>>

\* The same drive, in the state that was asked for.
Observe(r) ==
    /\ pc[r] = "observe"
    /\ Record(r, slotDrive = serial[r] /\ slotState = StateAfter(step[r]), FALSE)
    /\ UNCHANGED <<worldVars, seen, wire>>

ObserveFails(r) ==
    /\ pc[r] = "observe"
    /\ Record(r, FALSE, FALSE)
    /\ UNCHANGED <<worldVars, seen, wire>>

\* The row is committed: unless it is marked it is the one the gate sees from now on.
SaveAudit(r) ==
    /\ pc[r] = "audit"
    /\ Answer(r, IF rowOk[r] THEN 200 ELSE 502)
    /\ IF marked[r]
       THEN UNCHANGED lastVars
       ELSE /\ lastStep' = step[r] /\ lastSerial' = serial[r] /\ lastOk' = rowOk[r]
            /\ completed' = (completed /\ ~(step[r] = "insert" /\ rowOk[r]))
    /\ UNCHANGED <<hwVars, snapDrive, askVars, seen, obsVars, wire>>

AuditFails(r) ==
    /\ pc[r] = "audit"
    /\ Answer(r, 500)
    /\ UNCHANGED <<worldVars, seen, wire>>

-----------------------------------------------------------------------------
RequestStep(r) ==
    \/ CheckStep(r) \/ LoadDrive(r) \/ InsertGate(r) \/ LiveRead(r) \/ LiveReadFails(r)
    \/ WriteRefused(r) \/ Write(r)
    \/ CommandSucceeds(r) \/ CommandFails(r)
    \/ Observe(r) \/ ObserveFails(r)
    \/ SaveAudit(r) \/ AuditFails(r)

World ==
    \/ Pull \/ (\E d \in Drives : Seat(d)) \/ Poll
    \/ RebuildEnds \/ RebuildStatus \/ Restart

Next == World \/ \E r \in Requests : RequestStep(r) \/ ControllerActs(r)

Spec == Init /\ [][Next]_vars

-----------------------------------------------------------------------------
(* Properties. *)

\* A "succeeded" row of Missing names a drive that really was in state Msng, also
\* when drives were swapped or other requests ran while the command was under way.
MissingRowIsTrue == MissingSucceeded => lastSerial \in wasMissing

\* An insert is sent only after another drive than the one it names was verified
\* missing in this slot.
InsertFollowsMissing ==
    \A r \in Requests :
        step[r] = "insert" /\ wire[r] # "none" => wasMissing \ {serial[r]} # {}
=============================================================================
